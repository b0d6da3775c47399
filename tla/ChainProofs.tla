-------------------------------- MODULE ChainProofs --------------------------------
(* Theorems about Chain, for every set of chains: groups follow one another, and    *)
(* no goroutine outlives Run.                                                       *)
EXTENDS Chain, SequenceTheorems, WellFoundedInduction, TLAPS

Fresh(k) == stage[k] = "waiting" /\ got[k] = [r \in {} |-> None]

(* What every group relies on: those before it are stored, those after it not begun.*)
GroupInv == /\ \A j \in Before(group) : stage[j] = "stored"
            /\ \A j \in After(group) : Fresh(j)
            /\ result = "ok" => After(group) = {} /\ \A j \in Group(group) : stage[j] = "stored"
            /\ result = "error" => /\ \A j \in Group(group) : stage[j] \in {"stored", "failed"}
                                   /\ \E j \in Group(group) : stage[j] = "failed"
IInv == TypeOK /\ GroupInv
-----------------------------------------------------------------------------------
(* The steps of a validated chain are a sequence that is not empty.                 *)
LEMMA StepsType ==
  ASSUME TypeOK
  PROVE  /\ Len(steps) \in Nat /\ Len(steps) > 0 /\ Indices = 1..Len(steps)
         /\ group \in Indices /\ \A i \in Indices : i \in Nat
<1>1. steps \in Seq(ChainStep) /\ steps # <<>>
  BY ChainAssumption DEF TypeOK
<1>2. Len(steps) \in Nat /\ Len(steps) > 0
  <2> HIDE DEF ChainStep
  <2> QED
    BY <1>1, LenProperties, EmptySeq
<1> QED
  BY <1>2 DEF TypeOK, Indices

(* Adjacent parallel steps make a group: what lies between two of its steps is in it.*)
LEMMA TogetherBetween ==
  ASSUME TypeOK, NEW i \in Indices, NEW j \in Indices, NEW k \in Indices,
         Together(i, k), (i <= j /\ j <= k) \/ (k <= j /\ j <= i)
  PROVE  Together(i, j) /\ Together(j, k) /\ Together(j, i) /\ Together(k, j)
<1>1. i \in Nat /\ j \in Nat /\ k \in Nat /\ \A n \in Indices : n \in Nat
  BY StepsType
<1> QED
  BY <1>1 DEF Together

(* Belonging to one group is symmetric.                                             *)
LEMMA TogetherSymmetric ==
  ASSUME TypeOK, NEW i \in Indices, NEW j \in Indices, Together(i, j)
  PROVE  Together(j, i)
<1>1. i \in Nat /\ j \in Nat /\ \A n \in Indices : n \in Nat
  BY StepsType
<1> QED
  BY <1>1 DEF Together

(* Belonging to one group is transitive.                                            *)
LEMMA TogetherJoins ==
  ASSUME TypeOK, NEW i \in Indices, NEW j \in Indices, NEW k \in Indices,
         Together(i, j), Together(j, k)
  PROVE  Together(i, k)
<1>1. i \in Nat /\ j \in Nat /\ k \in Nat /\ \A n \in Indices : n \in Nat
  BY StepsType
<1> QED
  BY <1>1 DEF Together

(* A chain splits into what is before a group, the group and what is after it.      *)
LEMMA Partition ==
  ASSUME TypeOK
  PROVE  /\ Indices = Before(group) \cup Group(group) \cup After(group)
         /\ Before(group) \cap After(group) = {} /\ group \in Group(group)
         /\ Group(group) \cap (Before(group) \cup After(group)) = {}
<1>1. group \in Indices /\ group \in Nat /\ \A n \in Indices : n \in Nat
  BY StepsType
<1>2. Together(group, group)
  BY <1>1 DEF Together
<1>3. group \in Group(group)
  BY <1>1, <1>2 DEF Group
<1>4. /\ Before(group) = {j \in Indices : j < group} \ Group(group)
      /\ After(group) = {j \in Indices : j > group} \ Group(group)
      /\ Group(group) \subseteq Indices
  BY DEF Before, After, Group
<1>5. \A j \in Indices : j # group => j < group \/ j > group
  BY <1>1
<1>6. \A j \in Indices : ~(j < group /\ j > group)
  BY <1>1
<1> HIDE DEF Before, After, Group, Indices
<1> QED
  BY <1>1, <1>3, <1>4, <1>5, <1>6

(* What is before a step of the group, or before an earlier one, is before the group.*)
LEMMA BeforeGroup ==
  ASSUME TypeOK, NEW k \in Group(group) \cup Before(group)
  PROVE  Before(k) \subseteq Before(group)
<1>1. /\ group \in Indices /\ group \in Nat /\ k \in Indices /\ k \in Nat
      /\ \A n \in Indices : n \in Nat
  BY StepsType DEF Group, Before
<1> SUFFICES ASSUME NEW j \in Before(k) PROVE j \in Before(group)
  OBVIOUS
<1>2. j \in Indices /\ j \in Nat /\ j < k /\ ~Together(j, k)
  BY <1>1 DEF Before, Group
<1>3. CASE k \in Group(group)
  <2>1. Together(k, group) /\ Together(group, k)
    BY <1>1, <1>3, TogetherSymmetric DEF Group
  <2>2. ~Together(j, group)
    BY <1>1, <1>2, <2>1, TogetherJoins
  <2>3. ~(group <= j)
    BY <1>1, <1>2, <2>1, TogetherBetween
  <2> QED
    BY <1>1, <1>2, <2>2, <2>3 DEF Before, Group
<1>4. CASE k \in Before(group)
  <2>1. k < group
    BY <1>4 DEF Before
  <2>2. ~Together(j, group)
    BY <1>1, <1>2, <2>1, TogetherBetween
  <2> QED
    BY <1>1, <1>2, <2>1, <2>2 DEF Before, Group
<1> QED
  BY <1>3, <1>4

(* The group that follows is all behind this one, and leaves nothing out.           *)
LEMMA NextGroup ==
  ASSUME TypeOK, NEW g \in After(group), \A j \in After(group) : g <= j
  PROVE  /\ Group(g) \subseteq After(group) /\ After(g) \subseteq After(group)
         /\ Before(g) \subseteq Before(group) \cup Group(group)
<1>1. /\ group \in Indices /\ group \in Nat /\ g \in Indices /\ g \in Nat /\ group < g
      /\ ~Together(g, group) /\ \A n \in Indices : n \in Nat
  BY StepsType DEF After, Group
<1>2. ASSUME NEW j \in Group(g) PROVE j \in After(group)
  <2>1. j \in Indices /\ j \in Nat /\ Together(j, g) /\ Together(g, j)
    BY <1>1, TogetherSymmetric DEF Group
  <2>2. ~Together(j, group)
    BY <1>1, <2>1, TogetherJoins
  <2>3. ~(j <= group)
    BY <1>1, <2>1, TogetherBetween
  <2> QED
    BY <1>1, <2>1, <2>2, <2>3 DEF After, Group
<1>3. ASSUME NEW j \in After(g) PROVE j \in After(group)
  <2>1. j \in Indices /\ j \in Nat /\ g < j
    BY <1>1 DEF After
  <2>2. ~Together(j, group)
    BY <1>1, <2>1, TogetherBetween
  <2> QED
    BY <1>1, <2>1, <2>2 DEF After, Group
<1>4. ASSUME NEW j \in Before(g) PROVE j \in Before(group) \cup Group(group)
  <2>1. j \in Indices /\ j \in Nat /\ j < g
    BY <1>1 DEF Before
  <2>2. j \notin After(group)
    BY <1>1, <2>1
  <2> QED
    BY <2>1, <2>2, Partition
<1> QED
  BY <1>2, <1>3, <1>4

(* While the chain and the group stay, so do what is before, in and after it.       *)
LEMMA SameGroup ==
  ASSUME UNCHANGED <<steps, group>>
  PROVE  /\ Before(group)' = Before(group) /\ After(group)' = After(group)
         /\ Group(group)' = Group(group) /\ Indices' = Indices
BY DEF Before, After, Group, Together, Indices
-----------------------------------------------------------------------------------
(* A set of naturals has a least element.                                           *)
LEMMA LeastOf ==
  ASSUME NEW T, T \subseteq Nat, T # {}
  PROVE  \E k \in T : \A j \in T : k <= j
<1> DEFINE R == {ss \in Nat \X Nat : ss[1] < ss[2]}
<1>1. R = OpToRel(<, Nat)
  BY Zenon DEF OpToRel
<1>2. IsWellFoundedOn(R, Nat)
  BY <1>1, NatLessThanWellFounded
<1>3. \A j, k \in Nat : j < k => <<j, k>> \in R
  OBVIOUS
<1> HIDE DEF R
<1>4. PICK k \in T : \A j \in T : <<j, k>> \notin R
  BY <1>2, WFMin
<1>5. \A j \in T : j \in Nat /\ k \in Nat /\ ~(j < k)
  BY <1>3, <1>4
<1> QED
  BY <1>5

(* A group that ends ends the chain, or gives way to the first step behind it.      *)
LEMMA NextStarts ==
  ASSUME TypeOK, GoOn
  PROVE  \/ After(group) = {} /\ result' = "ok" /\ group' = group
         \/ /\ group' \in After(group) /\ \A j \in After(group) : group' <= j
            /\ result' = result
<1>1. CASE After(group) = {}
  BY <1>1 DEF GoOn
<1>2. CASE After(group) # {}
  <2>1. After(group) \subseteq Nat
    BY StepsType DEF After
  <2>2. \E k \in After(group) : \A j \in After(group) : k <= j
    BY <1>2, <2>1, LeastOf
  <2> QED
    BY <1>2, <2>2 DEF GoOn
<1> QED
  BY <1>1, <1>2

(* Every step keeps the types.                                                      *)
LEMMA TypeStep == TypeOK /\ [Next]_vars => TypeOK'
<1> SUFFICES ASSUME TypeOK, [Next]_vars PROVE TypeOK'
  OBVIOUS
<1>1. CASE UNCHANGED vars
  BY <1>1 DEF TypeOK, vars, Indices
<1>2. ASSUME NEW k \in Indices, Resolve(k) PROVE TypeOK'
  <2>1. PICK r \in Unresolved(k) :
          got' = [got EXCEPT ![k] = [q \in DOMAIN @ \cup {r} |-> IF q = r THEN Value(r) ELSE @[q]]]
    BY <1>2 DEF Resolve
  <2>2. UNCHANGED <<steps, group, stage, outputs, last, result>>
    BY <1>2 DEF Resolve
  <2>3. \A j \in Indices : DOMAIN got'[j] \subseteq steps[j].refs
    BY <2>1 DEF TypeOK, Unresolved
  <2> QED
    BY <2>2, <2>3 DEF TypeOK, Indices
<1>3. ASSUME NEW k \in Indices, FailToResolve(k) \/ RunTool(k) PROVE TypeOK'
  BY <1>3 DEF TypeOK, Indices, FailToResolve, RunTool
<1>4. ASSUME NEW k \in Indices, Store(k) PROVE TypeOK'
  <2>1. stage' \in [Indices -> {"waiting", "ran", "stored", "failed"}]
    BY <1>4 DEF TypeOK, Store
  <2>2. Output(k)[1] = k
    BY DEF Output
  <2>3. \A n \in Names : outputs'[n] # None => outputs'[n][1] \in Indices
    BY <1>4, <2>2 DEF TypeOK, Store
  <2>4. last' # None => last'[1] \in Indices
    BY <1>4, <2>2 DEF Store
  <2> QED
    BY <1>4, <2>1, <2>3, <2>4 DEF TypeOK, Indices, Store
<1>5. CASE EndGroup
  <2>1. group' \in Indices /\ result' \in {"running", "ok", "error"}
    BY <1>5, NextStarts DEF TypeOK, EndGroup, GoOn, After
  <2> QED
    BY <1>5, <2>1 DEF TypeOK, EndGroup, Indices
<1> QED
  BY <1>1, <1>2, <1>3, <1>4, <1>5 DEF Next, StepOf

(* What a step of the chain does to one of its goroutines.                          *)
LEMMA StepEffect ==
  ASSUME TypeOK, NEW k \in Indices, StepOf(k)
  PROVE  /\ UNCHANGED <<steps, group, result>> /\ result = "running"
         /\ k \in Group(group) \/ stage[k] = "ran"
         /\ \A j \in Indices : j # k => stage'[j] = stage[j] /\ got'[j] = got[j]
<1>1. DOMAIN stage = Indices
  BY DEF TypeOK
<1>2. CASE Resolve(k)
  <2>1. PICK r \in Unresolved(k) :
          got' = [got EXCEPT ![k] = [q \in DOMAIN @ \cup {r} |-> IF q = r THEN Value(r) ELSE @[q]]]
    BY <1>2 DEF Resolve
  <2>2. \A j \in Indices : j # k => got'[j] = got[j]
    BY <2>1
  <2> QED
    BY <1>2, <2>2 DEF Resolve, Running
<1>3. CASE FailToResolve(k)
  BY <1>1, <1>3 DEF FailToResolve, Running
<1>4. CASE RunTool(k)
  BY <1>1, <1>4 DEF RunTool, Running
<1>5. CASE Store(k)
  BY <1>1, <1>5 DEF Store
<1> QED
  BY <1>2, <1>3, <1>4, <1>5 DEF StepOf

(* Every step keeps the order of the groups.                                        *)
LEMMA GroupStep == TypeOK /\ GroupInv /\ [Next]_vars => GroupInv'
<1> SUFFICES ASSUME TypeOK, GroupInv, [Next]_vars PROVE GroupInv'
  OBVIOUS
<1>1. CASE UNCHANGED vars
  <2>1. UNCHANGED <<steps, group, stage, got, result>>
    BY <1>1 DEF vars
  <2> QED
    BY <2>1, SameGroup DEF GroupInv, Fresh
<1>2. ASSUME NEW k \in Indices, StepOf(k) PROVE GroupInv'
  <2>1. /\ UNCHANGED <<steps, group, result>> /\ result = "running"
        /\ k \in Group(group) \/ stage[k] = "ran"
        /\ \A j \in Indices : j # k => stage'[j] = stage[j] /\ got'[j] = got[j]
    BY <1>2, StepEffect
  <2>2. /\ Before(group)' = Before(group) /\ After(group)' = After(group)
        /\ Group(group)' = Group(group)
    BY <2>1, SameGroup
  <2>3. k \in Group(group)
    BY <2>1, Partition DEF GroupInv, Fresh
  <2>4. \A j \in Before(group) \cup After(group) : stage'[j] = stage[j] /\ got'[j] = got[j]
    BY <2>1, <2>3, Partition
  <2> QED
    BY <2>1, <2>2, <2>4 DEF GroupInv, Fresh
<1>3. CASE EndGroup
  <2>1. UNCHANGED <<steps, stage, got>> /\ result = "running"
    BY <1>3 DEF EndGroup
  <2>2. CASE result' = "error" /\ group' = group
    <3>1. /\ Before(group)' = Before(group) /\ After(group)' = After(group)
          /\ Group(group)' = Group(group)
      BY <2>1, <2>2, SameGroup
    <3>2. \A j \in Group(group) : stage[j] \in {"stored", "failed"}
      BY <1>3 DEF EndGroup, Ended
    <3>3. \E j \in Group(group) : stage[j] = "failed"
      BY <1>3, <2>2, NextStarts, <2>1 DEF EndGroup
    <3> QED
      BY <2>1, <2>2, <3>1, <3>2, <3>3 DEF GroupInv, Fresh
  <2>3. CASE GoOn /\ \A k \in Group(group) : stage[k] = "stored"
    <3>1. CASE After(group) = {} /\ result' = "ok" /\ group' = group
      <4>1. /\ Before(group)' = Before(group) /\ After(group)' = After(group)
            /\ Group(group)' = Group(group)
        BY <2>1, <3>1, SameGroup
      <4> QED
        BY <2>1, <2>3, <3>1, <4>1 DEF GroupInv, Fresh
    <3>2. CASE /\ group' \in After(group) /\ \A j \in After(group) : group' <= j
               /\ result' = result
      <4> DEFINE g == group'
      <4>1. After(g) \subseteq After(group) /\ Before(g) \subseteq Before(group) \cup Group(group)
        BY <3>2, NextGroup
      <4>2. Before(group)' = Before(g) /\ After(group)' = After(g)
        BY <2>1 DEF Before, After, Group, Together, Indices
      <4> HIDE DEF g
      <4> QED
        BY <2>1, <2>3, <3>2, <4>1, <4>2 DEF GroupInv, Fresh
    <3> QED
      BY <2>3, <3>1, <3>2, NextStarts
  <2> QED
    BY <1>3, <2>2, <2>3 DEF EndGroup
<1> QED
  BY <1>1, <1>2, <1>3 DEF Next

(* A chain that has not begun satisfies the invariant.                              *)
LEMMA InitInv == Init => IInv
<1> SUFFICES ASSUME Init PROVE IInv
  OBVIOUS
<1>1. steps \in Seq(ChainStep) /\ steps # <<>>
  BY ChainAssumption DEF Init
<1>2. Len(steps) \in Nat /\ Len(steps) > 0
  <2> HIDE DEF ChainStep
  <2> QED
    BY <1>1, LenProperties, EmptySeq
<1>3. TypeOK
  BY <1>2 DEF Init, TypeOK, Indices
<1>4. Before(group) = {} /\ \A k \in Indices : Fresh(k)
  BY <1>2 DEF Init, Before, Indices, Fresh
<1>5. result = "running"
  BY DEF Init
<1> QED
  BY <1>3, <1>4, <1>5 DEF IInv, GroupInv, After
-----------------------------------------------------------------------------------
(* The inductive invariant: groups before the current one are stored, those after   *)
(* it have not begun, and the chain ends with its last group or a failed one.       *)
THEOREM Invariant == Spec => []IInv
<1>1. IInv /\ [Next]_vars => IInv'
  BY TypeStep, GroupStep DEF IInv
<1> QED
  BY InitInv, <1>1, PTL DEF Spec

(* No step begins before every step of the earlier groups has stored its output.    *)
THEOREM GroupsInOrder == Spec => [](TypeOK /\ Barrier)
<1>1. IInv => TypeOK /\ Barrier
  <2> SUFFICES ASSUME IInv PROVE Barrier
    BY DEF IInv
  <2>1. TypeOK /\ GroupInv
    BY DEF IInv
  <2>2. ASSUME NEW k \in Indices, ~Fresh(k) PROVE \A j \in Before(k) : stage[j] = "stored"
    <3>1. k \in Group(group) \cup Before(group)
      BY <2>1, <2>2, Partition DEF GroupInv
    <3> QED
      BY <2>1, <3>1, BeforeGroup DEF GroupInv
  <2> QED
    BY <2>2 DEF Barrier, Fresh
<1> QED
  BY Invariant, <1>1, PTL

(* Run returns no result when a step failed, and no goroutine outlives it.          *)
THEOREM NoneLeftBehind == Spec => []NoStragglers
<1>1. IInv => NoStragglers
  <2> SUFFICES ASSUME TypeOK, GroupInv PROVE NoStragglers
    BY DEF IInv
  <2>1. Indices = Before(group) \cup Group(group) \cup After(group)
    BY Partition
  <2> QED
    BY <2>1 DEF NoStragglers, GroupInv, Fresh
<1> QED
  BY Invariant, <1>1, PTL
-----------------------------------------------------------------------------------
(* What a chain has read and stored.  A reference a step has resolved is what the   *)
(* latest earlier step of that name computed; a name holds what the latest stored   *)
(* step of that name computed; the last output is one of the current group.         *)
Stored(n) == {j \in Indices : stage[j] = "stored" /\ steps[j].as = n}
Source(k, r) == Highest(Writers(Before(k), r.of))

ReadOK(k, r) ==
  IF r.of \in Fields THEN got[k][r] = r.of
  ELSE Independent => Writers(Before(k), r.of) # {} /\ got[k][r] = Output(Source(k, r))
ReadsOK(k) == /\ got[k] = [r \in DOMAIN got[k] |-> got[k][r]]
              /\ stage[k] \in {"ran", "stored"} => DOMAIN got[k] = steps[k].refs
              /\ \A r \in DOMAIN got[k] : ReadOK(k, r)
NameOK(n) == IF Stored(n) = {} THEN outputs[n] = None ELSE outputs[n] = Output(Highest(Stored(n)))
LastOK == (\E j \in Group(group) : stage[j] = "stored") =>
             \E j \in Group(group) : stage[j] = "stored" /\ last = Output(j)

ReadInv == /\ Validate /\ DOMAIN got = Indices
           /\ \A k \in Indices : ReadsOK(k)
           /\ \A n \in Names : NameOK(n)
           /\ LastOK

(* A set of steps has a last one.                                                   *)
LEMMA HighestFact ==
  ASSUME NEW n \in Nat, NEW S, S \subseteq 1..n, S # {}
  PROVE  Highest(S) \in S /\ \A j \in S : j <= Highest(S)
<1> DEFINE T == {n - j : j \in S}
<1>1. T \subseteq Nat /\ T # {}
  OBVIOUS
<1> HIDE DEF T
<1>2. PICK t \in T : \A u \in T : t <= u
  BY <1>1, LeastOf
<1> USE DEF T
<1>3. PICK k \in S : t = n - k
  BY <1>2
<1>4. \A j \in S : n - k <= n - j
  BY <1>2, <1>3
<1>5. \A j \in S : j <= k
  BY <1>4
<1>6. \E i \in S : \A j \in S : j <= i
  BY <1>5
<1> QED
  BY <1>6 DEF Highest

(* Nothing but the steps themselves says which group is which and who writes what.  *)
LEMMA SameSteps ==
  ASSUME UNCHANGED steps
  PROVE  /\ Indices' = Indices /\ Validate' = Validate /\ Independent' = Independent
         /\ \A k : Before(k)' = Before(k) /\ Group(k)' = Group(k)
         /\ \A k, n : Writers(Before(k), n)' = Writers(Before(k), n)
         /\ \A k, r : Source(k, r)' = Source(k, r)
BY DEF Indices, Validate, Independent, Before, Group, Together, Writers, Source, Highest

(* The steps of the current group have the same steps before them.                  *)
LEMMA SameBefore ==
  ASSUME TypeOK, NEW k \in Group(group)
  PROVE  /\ k \in Indices /\ Group(k) = Group(group) /\ Before(k) = Before(group)
         /\ \A j \in Before(group) : j < k
<1>1. /\ group \in Indices /\ group \in Nat /\ k \in Indices /\ k \in Nat
      /\ \A n \in Indices : n \in Nat
  BY StepsType DEF Group
<1>2. Together(k, group) /\ Together(group, k)
  BY <1>1, TogetherSymmetric DEF Group
<1>3. \A j \in Indices : Together(j, k) <=> Together(j, group)
  BY <1>1, <1>2, TogetherJoins
<1>4. Group(k) = Group(group)
  BY <1>3 DEF Group
<1>5. ASSUME NEW j \in Before(group) PROVE j < k /\ j \in Before(k)
  <2>1. j \in Indices /\ j \in Nat /\ j < group /\ ~Together(j, group)
    BY <1>1, <1>5 DEF Before, Group
  <2>2. ~(k <= j)
    BY <1>1, <1>2, <2>1, TogetherBetween
  <2> QED
    BY <1>1, <1>4, <1>5, <2>1, <2>2 DEF Before
<1> QED
  BY <1>1, <1>4, <1>5, BeforeGroup

(* Two steps of one group are parallel.                                             *)
LEMMA CompanyIsParallel ==
  ASSUME TypeOK, NEW k \in Group(group), NEW j \in Group(group), j # k
  PROVE  steps[k].parallel /\ j \in Group(k)
<1>1. j \in Indices /\ k \in Indices /\ j \in Nat /\ k \in Nat /\ j \in Group(k)
  BY SameBefore, StepsType
<1>2. Together(j, k)
  BY <1>1 DEF Group
<1> QED
  BY <1>1, <1>2 DEF Together

(* While a group runs, what is stored is before it or in it.                        *)
LEMMA StoredWhere ==
  ASSUME TypeOK, GroupInv, NEW n
  PROVE  /\ Stored(n) \subseteq Before(group) \cup Group(group)
         /\ Writers(Before(group), n) \subseteq Stored(n)
<1>1. Indices = Before(group) \cup Group(group) \cup After(group)
  BY Partition
<1> QED
  BY <1>1 DEF Stored, Writers, GroupInv, Fresh, Before

(* What is stored stays as it is.                                                   *)
LEMMA StoredStays ==
  ASSUME TypeOK, [Next]_vars, NEW h \in Indices, stage[h] = "stored"
  PROVE  UNCHANGED steps /\ stage'[h] = "stored" /\ got'[h] = got[h] /\ Output(h)' = Output(h)
<1>1. ASSUME NEW k \in Indices, StepOf(k) PROVE UNCHANGED steps /\ stage'[h] = stage[h] /\ got'[h] = got[h]
  <2>1. k # h
    BY <1>1 DEF StepOf, Resolve, FailToResolve, RunTool, Store, Running
  <2> QED
    BY <1>1, <2>1, StepEffect
<1>2. UNCHANGED steps /\ stage'[h] = stage[h] /\ got'[h] = got[h]
  BY <1>1 DEF Next, EndGroup, vars
<1> QED
  BY <1>2 DEF Output

(* What a step has read stays what its source computed.                             *)
LEMMA ReadStays ==
  ASSUME TypeOK, GroupInv, [Next]_vars, NEW k \in Indices, NEW r \in DOMAIN got[k],
         ReadOK(k, r), got'[k][r] = got[k][r]
  PROVE  ReadOK(k, r)'
<1>1. UNCHANGED steps
  BY StepEffect DEF Next, EndGroup, vars
<1>2. CASE r.of \in Fields
  BY <1>2 DEF ReadOK
<1>3. CASE r.of \notin Fields
  <2> SUFFICES ASSUME Independent
               PROVE  /\ Writers(Before(k), r.of)' # {}
                      /\ got'[k][r] = Output(Source(k, r))'
    BY <1>1, <1>3, SameSteps DEF ReadOK
  <2>1. Writers(Before(k), r.of) # {} /\ got[k][r] = Output(Source(k, r))
    BY <1>3 DEF ReadOK
  <2>2. Writers(Before(k), r.of) \subseteq 1..Len(steps) /\ Len(steps) \in Nat
    BY StepsType DEF Writers, Before
  <2>3. Source(k, r) \in Before(k)
    BY <2>1, <2>2, HighestFact DEF Source, Writers
  <2>4. ~Fresh(k)
    BY DEF Fresh
  <2>5. k \in Group(group) \cup Before(group)
    BY <2>4, Partition DEF GroupInv
  <2>6. Source(k, r) \in Indices /\ stage[Source(k, r)] = "stored"
    BY <2>3, <2>5, BeforeGroup DEF GroupInv, Before
  <2>7. \A h : h = Source(k, r) => Output(h)' = Output(h)
    BY <2>6, StoredStays
  <2>8. Output(Source(k, r))' = Output(Source(k, r))
    BY <1>1, <2>7, SameSteps DEF Output
  <2> QED
    BY <1>1, <2>1, <2>8, SameSteps
<1> QED
  BY <1>2, <1>3

(* A load finds what the latest earlier step of that name computed.                 *)
LEMMA ReadFinds ==
  ASSUME TypeOK, GroupInv, ReadInv, NEW k \in Indices, Running(k),
         NEW r \in Unresolved(k), Expandable(r), r.of \notin Fields, Independent
  PROVE  Writers(Before(k), r.of) # {} /\ Value(r) = Output(Source(k, r))
<1>1. k \in Group(group) /\ Before(k) = Before(group) /\ stage[k] = "waiting"
  BY SameBefore DEF Running
<1>2. r \in steps[k].refs /\ r.of \in Names
  <2>1. steps \in Seq(ChainStep)
    BY ChainAssumption DEF TypeOK
  <2>2. steps[k] \in ChainStep
    <3> HIDE DEF ChainStep
    <3> QED
      BY <2>1, StepsType, ElementOfSeq
  <2> QED
    BY <2>2 DEF ChainStep, Reference, Unresolved
<1>3. Stored(r.of) # {} /\ outputs[r.of] = Output(Highest(Stored(r.of)))
  BY <1>2 DEF ReadInv, NameOK, Expandable
<1>4. Stored(r.of) = Writers(Before(k), r.of)
  <2>1. ASSUME NEW j \in Stored(r.of) PROVE j \in Before(group)
    <3>1. j # k /\ steps[j].as = r.of /\ j \in Before(group) \cup Group(group)
      BY <1>1, <2>1, StoredWhere DEF Stored
    <3>2. j \notin Group(group)
      <4> SUFFICES ASSUME j \in Group(group) PROVE FALSE
        OBVIOUS
      <4>1. steps[k].parallel /\ j \in Group(k)
        BY <1>1, <3>1, CompanyIsParallel
      <4> QED
        BY <1>2, <3>1, <4>1 DEF Independent, Writers
    <3> QED
      BY <3>1, <3>2
  <2>2. Stored(r.of) \subseteq Writers(Before(group), r.of)
    BY <2>1 DEF Stored, Writers
  <2> QED
    BY <1>1, <2>2, StoredWhere
<1> QED
  BY <1>3, <1>4 DEF Value, Source

(* What has been read stays right.                                                  *)
LEMMA ReadsStep ==
  ASSUME TypeOK, GroupInv, ReadInv, [Next]_vars, NEW j \in Indices
  PROVE  ReadsOK(j)'
<1>0. UNCHANGED steps /\ ReadsOK(j) /\ DOMAIN got = Indices /\ DOMAIN stage = Indices
  BY StepEffect DEF Next, EndGroup, vars, ReadInv, TypeOK
<1>1. ASSUME got'[j] = got[j], stage'[j] \in {"ran", "stored"} => DOMAIN got[j] = steps[j].refs
      PROVE  ReadsOK(j)'
  <2>1. \A r \in DOMAIN got[j] : ReadOK(j, r)'
    BY <1>0, <1>1, ReadStays DEF ReadsOK
  <2> QED
    BY <1>0, <1>1, <2>1 DEF ReadsOK
<1>2. CASE \E k \in Indices : k # j /\ StepOf(k)
  BY <1>0, <1>1, <1>2, StepEffect DEF ReadsOK
<1>3. CASE EndGroup \/ UNCHANGED vars
  BY <1>0, <1>1, <1>3 DEF ReadsOK, EndGroup, vars
<1>4. CASE FailToResolve(j) \/ Store(j)
  <2>1. got' = got /\ (stage[j] = "ran" \/ stage'[j] = "failed")
    BY <1>0, <1>4 DEF FailToResolve, Store
  <2> QED
    BY <1>0, <1>1, <2>1 DEF ReadsOK
<1>5. CASE RunTool(j)
  <2>1. got' = got /\ DOMAIN got[j] = steps[j].refs
    BY <1>5 DEF RunTool, Unresolved, TypeOK
  <2> QED
    BY <1>1, <2>1
<1>6. CASE Resolve(j)
  <2>1. PICK r \in Unresolved(j) :
          /\ Expandable(r)
          /\ got' = [got EXCEPT ![j] = [q \in DOMAIN @ \cup {r} |-> IF q = r THEN Value(r) ELSE @[q]]]
    BY <1>6 DEF Resolve
  <2>2. got'[j] = [q \in DOMAIN got[j] \cup {r} |-> IF q = r THEN Value(r) ELSE got[j][q]]
    BY <1>0, <2>1
  <2>3. DOMAIN got'[j] = DOMAIN got[j] \cup {r} /\ got'[j][r] = Value(r) /\ r \notin DOMAIN got[j]
    BY <2>1, <2>2 DEF Unresolved
  <2>4. ASSUME NEW q \in DOMAIN got[j] PROVE ReadOK(j, q)'
    BY <1>0, <2>2, <2>3, ReadStays DEF ReadsOK
  <2>5. ReadOK(j, r)'
    <3>1. CASE r.of \in Fields
      BY <2>3, <3>1 DEF ReadOK, Value
    <3>2. CASE r.of \notin Fields
      <4> SUFFICES ASSUME Independent
                   PROVE  /\ Writers(Before(j), r.of)' # {}
                          /\ got'[j][r] = Output(Source(j, r))'
        BY <1>0, <3>2, SameSteps DEF ReadOK
      <4>1. Running(j)
        BY <1>6 DEF Resolve
      <4>2. Writers(Before(j), r.of) # {} /\ Value(r) = Output(Source(j, r))
        BY <2>1, <3>2, <4>1, ReadFinds
      <4>3. Writers(Before(j), r.of) \subseteq 1..Len(steps) /\ Len(steps) \in Nat
        BY StepsType DEF Writers, Before
      <4>4. Source(j, r) \in Before(j)
        BY <4>2, <4>3, HighestFact DEF Source, Writers
      <4>5. Source(j, r) \in Indices /\ stage[Source(j, r)] = "stored"
        BY <4>1, <4>4, SameBefore DEF Running, GroupInv, Before
      <4>6. \A h : h = Source(j, r) => Output(h)' = Output(h)
        BY <4>5, StoredStays
      <4>7. Output(Source(j, r))' = Output(Source(j, r))
        BY <1>0, <4>6, SameSteps DEF Output
      <4> QED
        BY <1>0, <2>3, <4>2, <4>7, SameSteps
    <3> QED
      BY <3>1, <3>2
  <2>6. stage'[j] = "waiting"
    BY <1>6 DEF Resolve, Running
  <2> QED
    BY <2>2, <2>3, <2>4, <2>5, <2>6 DEF ReadsOK
<1> QED
  BY <1>2, <1>3, <1>4, <1>5, <1>6 DEF Next, StepOf

(* A name holds what its latest stored step computed.                               *)
LEMMA NamesStep ==
  ASSUME TypeOK, GroupInv, ReadInv, [Next]_vars, NEW n \in Names
  PROVE  NameOK(n)'
<1>0. UNCHANGED steps /\ NameOK(n) /\ DOMAIN stage = Indices /\ Indices' = Indices
  BY StepEffect, SameSteps DEF Next, EndGroup, vars, ReadInv, TypeOK
<1>1. ASSUME Stored(n)' = Stored(n), outputs'[n] = outputs[n] PROVE NameOK(n)'
  <2>1. Stored(n) \subseteq 1..Len(steps) /\ Len(steps) \in Nat
    BY StepsType DEF Stored
  <2>2. CASE Stored(n) # {}
    <3>1. Highest(Stored(n)) \in Stored(n)
      BY <2>1, <2>2, HighestFact
    <3>2. Highest(Stored(n)) \in Indices /\ stage[Highest(Stored(n))] = "stored"
      BY <3>1 DEF Stored
    <3>3. \A h : h = Highest(Stored(n)) => Output(h)' = Output(h)
      BY <3>2, StoredStays
    <3>4. Highest(Stored(n))' = Highest(Stored(n))
      BY <1>1 DEF Highest
    <3>5. Output(Highest(Stored(n)))' = Output(Highest(Stored(n)))
      BY <3>3, <3>4 DEF Output
    <3> QED
      BY <1>0, <1>1, <2>2, <3>5 DEF NameOK
  <2>3. CASE Stored(n) = {}
    BY <1>0, <1>1, <2>3 DEF NameOK
  <2> QED
    BY <2>2, <2>3
<1>2. CASE ~\E k \in Indices : Store(k)
  <2>1. outputs' = outputs /\ \A j \in Indices : stage'[j] = "stored" <=> stage[j] = "stored"
    BY <1>0, <1>2 DEF Next, StepOf, Resolve, FailToResolve, RunTool, EndGroup, vars, Running
  <2>2. Stored(n)' = Stored(n)
    BY <1>0, <2>1 DEF Stored
  <2> QED
    BY <1>1, <2>1, <2>2
<1>3. ASSUME NEW k \in Indices, Store(k), steps[k].as # n PROVE NameOK(n)'
  <2>1. Stored(n)' = Stored(n)
    BY <1>0, <1>3 DEF Stored, Store
  <2> QED
    BY <1>1, <1>3, <2>1 DEF Store
<1>4. ASSUME NEW k \in Indices, Store(k), steps[k].as = n PROVE NameOK(n)'
  <2>1. Stored(n)' = Stored(n) \cup {k}
    BY <1>0, <1>4 DEF Stored, Store
  <2>2. outputs'[n] = Output(k) /\ Output(k)' = Output(k)
    BY <1>4 DEF Store, Output
  <2>3. k \in Group(group) /\ k \in Nat /\ \A j \in Indices : j \in Nat
    BY <1>4, Partition, StepsType DEF GroupInv, Fresh, Store
  <2>4. ASSUME NEW j \in Stored(n) PROVE j < k
    <3>1. j # k /\ j \in Before(group) \cup Group(group) /\ steps[j].as = n
      BY <1>4, <2>4, StoredWhere DEF Stored, Store
    <3>2. j \notin Group(group)
      <4> SUFFICES ASSUME j \in Group(group) PROVE FALSE
        OBVIOUS
      <4>1. steps[k].parallel /\ j \in Group(k)
        BY <2>3, <3>1, CompanyIsParallel
      <4>2. steps[k].as = None
        BY <1>4, <3>1, <4>1 DEF ReadInv, Validate
      <4> QED
        BY <1>4, <4>2, ChainAssumption
    <3> QED
      BY <2>3, <3>1, <3>2, SameBefore
  <2>5. Highest(Stored(n) \cup {k}) = k
    <3>1. Stored(n) \cup {k} \subseteq 1..Len(steps) /\ Len(steps) \in Nat
      BY StepsType DEF Stored
    <3>2. /\ Highest(Stored(n) \cup {k}) \in Stored(n) \cup {k}
          /\ k <= Highest(Stored(n) \cup {k})
      BY <3>1, HighestFact
    <3>3. \A j \in Stored(n) : j \in Nat /\ j < k
      BY <3>1, <2>4
    <3> QED
      BY <2>3, <3>2, <3>3
  <2>6. Highest(Stored(n))' = k
    BY <2>1, <2>5 DEF Highest
  <2> QED
    BY <2>1, <2>2, <2>6 DEF NameOK, Output
<1> QED
  BY <1>2, <1>3, <1>4

(* The last output is of the current group, once that has stored one.               *)
LEMMA LastStep ==
  ASSUME TypeOK, GroupInv, ReadInv, [Next]_vars PROVE LastOK'
<1>0. UNCHANGED steps /\ DOMAIN stage = Indices
  BY StepEffect DEF Next, EndGroup, vars, TypeOK
<1>1. CASE \E k \in Indices : Store(k)
  <2>1. PICK k \in Indices : Store(k)
    BY <1>1
  <2>2. k \in Group(group) /\ group' = group
    BY <2>1, Partition DEF GroupInv, Fresh, Store
  <2>3. k \in Group(group)' /\ stage'[k] = "stored" /\ last' = Output(k)'
    BY <1>0, <2>1, <2>2, SameGroup DEF Store, Output
  <2> QED
    BY <2>3 DEF LastOK
<1>2. CASE EndGroup /\ group' # group
  <2>1. group' \in After(group) /\ \A j \in After(group) : group' <= j
    BY <1>2, NextStarts DEF EndGroup
  <2> DEFINE g == group'
  <2>2. Group(g) \subseteq After(group)
    BY <2>1, NextGroup
  <2>3. \A j \in Group(g) : stage[j] # "stored"
    BY <2>2 DEF GroupInv, Fresh
  <2>4. Group(group)' = Group(g) /\ stage' = stage
    BY <1>0, <1>2 DEF EndGroup, Group, Together, Indices
  <2> QED
    BY <2>3, <2>4 DEF LastOK
<1>3. CASE ~(\E k \in Indices : Store(k)) /\ ~(EndGroup /\ group' # group)
  <2>1. /\ group' = group /\ last' = last
        /\ \A j \in Indices : stage'[j] = "stored" <=> stage[j] = "stored"
    BY <1>0, <1>3 DEF Next, StepOf, Resolve, FailToResolve, RunTool, EndGroup, vars, Running
  <2>2. Group(group)' = Group(group) /\ Group(group) \subseteq Indices
    BY <1>0, <2>1, SameGroup DEF Group
  <2>3. \A j \in Group(group) : stage[j] = "stored" => Output(j)' = Output(j)
    BY <2>2, StoredStays
  <2> QED
    BY <2>1, <2>2, <2>3 DEF LastOK, ReadInv
<1> QED
  BY <1>1, <1>2, <1>3

LEMMA ReadStep == TypeOK /\ GroupInv /\ ReadInv /\ [Next]_vars => ReadInv'
<1> SUFFICES ASSUME TypeOK, GroupInv, ReadInv, [Next]_vars PROVE ReadInv'
  OBVIOUS
<1>1. UNCHANGED steps
  BY StepEffect DEF Next, EndGroup, vars
<1>2. Validate' /\ Indices' = Indices
  BY <1>1, SameSteps DEF ReadInv
<1>3. DOMAIN got' = Indices
  BY DEF ReadInv, Next, StepOf, Resolve, FailToResolve, RunTool, Store, EndGroup, vars
<1>4. \A k \in Indices : ReadsOK(k)'
  BY ReadsStep
<1>5. \A n \in Names : NameOK(n)'
  BY NamesStep
<1> QED
  BY <1>2, <1>3, <1>4, <1>5, LastStep DEF ReadInv

LEMMA ReadInit == Init => ReadInv
<1> SUFFICES ASSUME Init PROVE ReadInv
  OBVIOUS
<1>1. \A k \in Indices : stage[k] = "waiting" /\ got[k] = [r \in {} |-> None]
  BY DEF Init
<1>2. \A k \in Indices : ReadsOK(k)
  BY <1>1 DEF ReadsOK
<1>3. \A n \in Names : NameOK(n)
  BY <1>1 DEF Init, NameOK, Stored
<1>4. LastOK
  BY <1>1 DEF LastOK, Group
<1> QED
  BY <1>2, <1>3, <1>4 DEF Init, ReadInv

LEMMA ReadCorrect == Spec => [](TypeOK /\ GroupInv /\ ReadInv)
<1>1. IInv /\ ReadInv /\ [Next]_vars => ReadInv'
  BY ReadStep DEF IInv
<1>2. IInv => TypeOK /\ GroupInv
  BY DEF IInv
<1> QED
  BY ReadInit, <1>1, <1>2, Invariant, PTL DEF Spec
-----------------------------------------------------------------------------------
(* What the steps of a finished chain computed satisfies the equation by which      *)
(* Sequential is defined, and only one function does.                               *)
Sources(k) == {Source(k, r) : r \in {q \in steps[k].refs : q.of \notin Fields}}
Computed(F) == F = [k \in Indices |->
                      <<k, [r \in steps[k].refs |-> IF r.of \in Fields THEN r.of ELSE F[Source(k, r)]]>>]

LEMMA OnlyOne ==
  ASSUME TypeOK, \A k \in Indices : \A h \in Sources(k) : h \in Indices /\ h < k,
         NEW F, NEW G, Computed(F), Computed(G)
  PROVE  F = G
<1> DEFINE T == {k \in Indices : F[k] # G[k]}
<1>1. DOMAIN F = Indices /\ DOMAIN G = Indices /\ F = [k \in Indices |-> F[k]] /\ G = [k \in Indices |-> G[k]]
  BY Zenon DEF Computed
<1>2. T = {}
  <2> SUFFICES ASSUME T # {} PROVE FALSE
    OBVIOUS
  <2>1. T \subseteq Nat
    BY StepsType
  <2>2. PICK k \in T : \A j \in T : k <= j
    BY <2>1, LeastOf
  <2>3. \A h \in Sources(k) : h \in Indices /\ h < k /\ h \in Nat /\ k \in Nat
    BY StepsType
  <2>4. \A h \in Sources(k) : h \notin T
    BY <2>2, <2>3
  <2>5. \A r \in steps[k].refs : r.of \notin Fields => F[Source(k, r)] = G[Source(k, r)]
    BY <2>3, <2>4 DEF Sources
  <2>6. [r \in steps[k].refs |-> IF r.of \in Fields THEN r.of ELSE F[Source(k, r)]]
          = [r \in steps[k].refs |-> IF r.of \in Fields THEN r.of ELSE G[Source(k, r)]]
    BY <2>5
  <2>7. /\ F[k] = <<k, [r \in steps[k].refs |-> IF r.of \in Fields THEN r.of ELSE F[Source(k, r)]]>>
        /\ G[k] = <<k, [r \in steps[k].refs |-> IF r.of \in Fields THEN r.of ELSE G[Source(k, r)]]>>
    BY Zenon DEF Computed
  <2> QED
    BY <2>6, <2>7
<1> QED
  BY <1>1, <1>2

LEMMA SequentialUnfolds == ASSUME NEW F, Computed(F) PROVE Computed(Sequential)
<1>1. Sequential = CHOOSE G : Computed(G)
  BY Zenon DEF Sequential, Computed, Source
<1> QED
  BY <1>1

LEMMA Finished ==
  ASSUME TypeOK, GroupInv, ReadInv, result = "ok", Independent
  PROVE  /\ \A k \in Indices : stage[k] = "stored" /\ Output(k) = Sequential[k]
         /\ Group(Len(steps)) = Group(group)
<1> DEFINE F == [k \in Indices |-> Output(k)]
<1>1. \A k \in Indices : stage[k] = "stored"
  BY Partition DEF GroupInv
<1>2. \A k \in Indices : DOMAIN got[k] = steps[k].refs /\ ReadsOK(k)
  BY <1>1 DEF ReadInv, ReadsOK
<1>3. ASSUME NEW k \in Indices, NEW r \in steps[k].refs, r.of \notin Fields
      PROVE  /\ Source(k, r) \in Indices /\ Source(k, r) < k
             /\ got[k][r] = F[Source(k, r)]
  <2>1. Writers(Before(k), r.of) # {} /\ got[k][r] = Output(Source(k, r))
    BY <1>2, <1>3 DEF ReadsOK, ReadOK
  <2>2. Writers(Before(k), r.of) \subseteq 1..Len(steps) /\ Len(steps) \in Nat
    BY StepsType DEF Writers, Before
  <2>3. Source(k, r) \in Before(k)
    BY <2>1, <2>2, HighestFact DEF Source, Writers
  <2> QED
    BY <2>1, <2>3 DEF Before
<1>4. Computed(F)
  <2>1. ASSUME NEW k \in Indices
        PROVE  F[k] = <<k, [r \in steps[k].refs |-> IF r.of \in Fields THEN r.of ELSE F[Source(k, r)]]>>
    <3>1. got[k] = [r \in steps[k].refs |-> got[k][r]]
      BY <1>2 DEF ReadsOK
    <3>2. \A r \in steps[k].refs : got[k][r] = IF r.of \in Fields THEN r.of ELSE F[Source(k, r)]
      BY <1>2, <1>3 DEF ReadsOK, ReadOK
    <3> HIDE DEF F
    <3>3. got[k] = [r \in steps[k].refs |-> IF r.of \in Fields THEN r.of ELSE F[Source(k, r)]]
      BY <3>1, <3>2
    <3> QED
      BY <3>3 DEF F, Output
  <2>2. F = [k \in Indices |-> F[k]]
    OBVIOUS
  <2> HIDE DEF F
  <2> QED
    BY <2>1, <2>2 DEF Computed
<1>5. F = Sequential
  <2>1. \A k \in Indices : \A h \in Sources(k) : h \in Indices /\ h < k
    BY <1>3 DEF Sources
  <2> HIDE DEF F
  <2> QED
    BY <1>4, <2>1, SequentialUnfolds, OnlyOne
<1>6. Group(Len(steps)) = Group(group)
  <2>1. Len(steps) \in Indices /\ group <= Len(steps)
    BY StepsType
  <2>2. After(group) = {}
    BY DEF GroupInv
  <2>3. Len(steps) \in Group(group)
    BY <2>1, <2>2, StepsType, Partition DEF After
  <2> QED
    BY <2>3, SameBefore
<1> QED
  BY <1>1, <1>5, <1>6

(* However its goroutines interleave, a chain that succeeds and whose groups do not *)
(* refer to their own outputs computes what its steps compute one after the other.  *)
THEOREM SequentialResult == Spec => []LikeSequential
<1>1. TypeOK /\ GroupInv /\ ReadInv => LikeSequential
  <2> SUFFICES ASSUME TypeOK, GroupInv, ReadInv, result = "ok", Independent
               PROVE  /\ \A k \in Indices : Output(k) = Sequential[k]
                      /\ \A n \in Names : Writers(Indices, n) # {} =>
                           outputs[n] = Sequential[Highest(Writers(Indices, n))]
                      /\ \E k \in Group(Len(steps)) : last = Sequential[k]
    BY DEF LikeSequential
  <2>1. /\ \A k \in Indices : stage[k] = "stored" /\ Output(k) = Sequential[k]
        /\ Group(Len(steps)) = Group(group)
    BY Finished
  <2>2. ASSUME NEW n \in Names, Writers(Indices, n) # {}
        PROVE  outputs[n] = Sequential[Highest(Writers(Indices, n))]
    <3>1. Stored(n) = Writers(Indices, n)
      BY <2>1 DEF Stored, Writers
    <3>2. outputs[n] = Output(Highest(Writers(Indices, n)))
      BY <2>2, <3>1 DEF ReadInv, NameOK
    <3>3. Highest(Writers(Indices, n)) \in Indices
      <4>1. Writers(Indices, n) \subseteq 1..Len(steps) /\ Len(steps) \in Nat
        BY StepsType DEF Writers
      <4> QED
        BY <2>2, <4>1, HighestFact DEF Writers
    <3> QED
      BY <2>1, <3>2, <3>3
  <2>3. \E k \in Group(group) : last = Output(k) /\ k \in Indices
    BY <2>1, Partition DEF ReadInv, LastOK
  <2> QED
    BY <2>1, <2>2, <2>3
<1> QED
  BY ReadCorrect, <1>1, PTL
===================================================================================
