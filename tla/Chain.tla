---------------------------------- MODULE Chain ----------------------------------
(* tools/chain.go: a tool that runs other tools in steps.  A serial step is a   *)
(* group of its own, adjacent parallel steps are one group whose goroutines run *)
(* concurrently; a step's parameters may refer to the outputs of other steps.   *)
EXTENDS Naturals, Sequences

CONSTANTS Names,     \* values of StoreAs
          None,      \* no StoreAs; no output
          Fields,    \* parameters of the chain a template may name
          Given,     \* those the caller gave
          Chains     \* the sequences of steps a chain may be built from

(* A reference is written $steps.x or ${steps.x}, $input.x or ${input.x}.       *)
Reference == [form : {"plain", "braced"}, of : Names \cup Fields]
ChainStep == [parallel : BOOLEAN, as : Names \cup {None}, refs : SUBSET Reference]

ASSUME ChainAssumption == /\ Chains \subseteq Seq(ChainStep) \ {<<>>}
                          /\ None \notin Names /\ Names \cap Fields = {}
                          /\ Given \subseteq Fields

VARIABLES steps,   \* c.steps: fixed once the chain is validated
          group,   \* the first step of the group that runs
          stage,   \* step -> how far its goroutine is
          got,     \* step -> what its references have been resolved to
          outputs, \* ctx.steps: name -> output, None when nothing is stored
          last,    \* ctx.last
          result   \* "running", or how Run returned

vars == <<steps, group, stage, got, outputs, last, result>>
-----------------------------------------------------------------------------------
Indices == 1..Len(steps)

(* Steps i to j run in one group: there is no serial step among them.           *)
Together(i, j) == \A k \in Indices : (i <= k /\ k <= j) \/ (j <= k /\ k <= i) =>
                     i = j \/ steps[k].parallel
Group(k) == {j \in Indices : Together(j, k)}
Before(k) == {j \in Indices : j < k /\ j \notin Group(k)}
After(k) == {j \in Indices : j > k /\ j \notin Group(k)}

(* Mutant: names stored twice in a group are not compared.                      *)
Validate_NoDuplicateCheck ==
  \A k \in Indices : steps[k].parallel =>
    \A r \in steps[k].refs : r.form = "plain" /\ r.of \in Names =>
      \E j \in Before(k) : steps[j].as = r.of

(* validate: serial steps only add their names; a parallel group must store     *)
(* distinct names, and what its templates name with $steps. must be stored      *)
(* before the group.  extractStepsRefs looks for "$steps." and so sees no       *)
(* reference in braces.                                                         *)
Validate ==
  \A k \in Indices : steps[k].parallel =>
    /\ \A j \in Group(k) : steps[j].as = steps[k].as /\ j # k => steps[k].as = None
    /\ \A r \in steps[k].refs : r.form = "plain" /\ r.of \in Names =>
         \E j \in Before(k) : steps[j].as = r.of

Init ==
  /\ steps \in Chains /\ Validate
  /\ group = 1
  /\ stage = [k \in Indices |-> "waiting"]
  /\ got = [k \in Indices |-> [r \in {} |-> None]]
  /\ outputs = [n \in Names |-> None] /\ last = None
  /\ result = "running"
-----------------------------------------------------------------------------------
Running(k) == /\ result = "running" /\ k \in Group(group) /\ stage[k] = "waiting"
Unresolved(k) == steps[k].refs \ DOMAIN got[k]

(* expand: os.Expand ends the name of $steps.x at the dot, and "steps" alone is *)
(* neither an input nor a step.                                                 *)
Expandable(r) == /\ r.form = "braced"
                 /\ IF r.of \in Fields THEN r.of \in Given ELSE outputs[r.of] # None
Value(r) == IF r.of \in Fields THEN r.of ELSE outputs[r.of]

(* One load; each takes the lock on its own.                                    *)
Resolve(k) ==
  /\ Running(k)
  /\ \E r \in Unresolved(k) :
       /\ Expandable(r)
       /\ got' = [got EXCEPT ![k] = [q \in DOMAIN @ \cup {r} |-> IF q = r THEN Value(r) ELSE @[q]]]
  /\ UNCHANGED <<steps, group, stage, outputs, last, result>>

FailToResolve(k) ==
  /\ Running(k)
  /\ \E r \in Unresolved(k) : ~Expandable(r)
  /\ stage' = [stage EXCEPT ![k] = "failed"]
  /\ UNCHANGED <<steps, group, got, outputs, last, result>>

(* The tool runs on the resolved parameters; it may be missing or fail.         *)
RunTool(k) ==
  /\ Running(k) /\ Unresolved(k) = {}
  /\ stage' \in {[stage EXCEPT ![k] = "ran"], [stage EXCEPT ![k] = "failed"]}
  /\ UNCHANGED <<steps, group, got, outputs, last, result>>

Output(k) == <<k, got[k]>>

Store(k) ==
  /\ result = "running" /\ stage[k] = "ran"
  /\ stage' = [stage EXCEPT ![k] = "stored"]
  /\ outputs' = [n \in Names |-> IF n = steps[k].as THEN Output(k) ELSE outputs[n]]
  /\ last' = Output(k)
  /\ UNCHANGED <<steps, group, got, result>>

(* The loop of Run goes on behind the group, or returns when there is no more.   *)
GoOn == IF After(group) = {} THEN result' = "ok" /\ UNCHANGED group
        ELSE /\ group' = CHOOSE k \in After(group) : \A j \in After(group) : k <= j
             /\ UNCHANGED result
Ended(k) == stage[k] \in {"stored", "failed"}

(* Mutants: the next group does not wait for a tool that still runs; an error   *)
(* is dropped; a failed step omits wg.Done.                                     *)
EndGroup_NoWait ==
  /\ result = "running" /\ GoOn
  /\ \A k \in Group(group) : Ended(k) \/ (stage[k] = "ran" /\ After(group) # {})
  /\ \A k \in Group(group) : stage[k] # "failed"
  /\ UNCHANGED <<steps, stage, got, outputs, last>>
EndGroup_DropsError ==
  /\ result = "running" /\ GoOn
  /\ \A k \in Group(group) : Ended(k)
  /\ UNCHANGED <<steps, stage, got, outputs, last>>
EndGroup_Hangs ==
  /\ result = "running" /\ GoOn
  /\ \A k \in Group(group) : stage[k] = "stored"
  /\ UNCHANGED <<steps, stage, got, outputs, last>>

(* wg.Wait, then the joined errors; without one the next group starts.          *)
EndGroup ==
  /\ result = "running" /\ \A k \in Group(group) : Ended(k)
  /\ \/ /\ \E k \in Group(group) : stage[k] = "failed"
        /\ result' = "error" /\ UNCHANGED group
     \/ /\ \A k \in Group(group) : stage[k] = "stored"
        /\ GoOn
  /\ UNCHANGED <<steps, stage, got, outputs, last>>

StepOf(k) == Resolve(k) \/ FailToResolve(k) \/ RunTool(k) \/ Store(k)
Next == EndGroup \/ \E k \in Indices : StepOf(k)

Spec == Init /\ [][Next]_vars

(* Goroutines are scheduled and tools return.                                   *)
FairSpec == Spec /\ WF_vars(Next)
-----------------------------------------------------------------------------------
TypeOK ==
  /\ steps \in Chains /\ group \in Indices
  /\ stage \in [Indices -> {"waiting", "ran", "stored", "failed"}]
  /\ \A k \in Indices : DOMAIN got[k] \subseteq steps[k].refs
  /\ \A n \in Names : outputs[n] # None => outputs[n][1] \in Indices
  /\ last # None => last[1] \in Indices
  /\ result \in {"running", "ok", "error"}

(* No step begins before every step of the earlier groups has stored its       *)
(* output (Run, and wg.Wait in runParallelGroup).                               *)
Barrier == \A k \in Indices : stage[k] # "waiting" \/ got[k] # [r \in {} |-> None] =>
             \A j \in Before(k) : stage[j] = "stored"

(* Run returns no result when a step failed, and no goroutine outlives Run.     *)
NoStragglers ==
  /\ result = "ok" => \A k \in Indices : stage[k] = "stored"
  /\ result = "error" => /\ \E k \in Group(group) : stage[k] = "failed"
                         /\ \A k \in Indices : stage[k] = "waiting" => k \in After(group)
                         /\ \A k \in Indices : stage[k] # "ran"

(* What a chain computes when its steps run one after the other: a reference    *)
(* reads the latest earlier step that stores the name.                          *)
Highest(S) == CHOOSE k \in S : \A j \in S : j <= k
Writers(S, n) == {k \in S : steps[k].as = n}
Sequential[k \in Indices] ==
  <<k, [r \in steps[k].refs |->
          IF r.of \in Fields THEN r.of ELSE Sequential[Highest(Writers(Before(k), r.of))]]>>

(* No step refers, in either form, to what its own parallel group stores.       *)
Independent == \A k \in Indices : \A r \in steps[k].refs :
                 Writers(Group(k) \ (IF steps[k].parallel THEN {} ELSE {k}), r.of) = {}

(* However goroutines interleave, a chain that succeeds computes what its steps *)
(* compute one after the other, if no group refers to its own outputs.          *)
LikeSequential ==
  result = "ok" /\ Independent =>
    /\ \A k \in Indices : Output(k) = Sequential[k]
    /\ \A n \in Names : Writers(Indices, n) # {} =>
         outputs[n] = Sequential[Highest(Writers(Indices, n))]
    /\ \E k \in Group(Len(steps)) : last = Sequential[k]

(* Run returns.                                                                 *)
Returns == <>(result # "running")
-----------------------------------------------------------------------------------
(* A claim of the repository that the code does not keep.                       *)

(* README.md:272, no cross-referencing within a parallel group: what a step reads  *)
(* was stored by an earlier group.                                              *)
NoCrossReading ==
  \A k \in Indices : \A r \in DOMAIN got[k] :
    r.of \in Names /\ steps[k].parallel => got[k][r][1] \in Before(k)
===================================================================================
