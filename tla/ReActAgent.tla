-------------------------------- MODULE ReActAgent --------------------------------
(* agents/react.go with core/agent.go: Run asks the model, runs the tools it     *)
(* calls and goes round until an answer or MaxSteps.  The model's replies are    *)
(* any of a set; the message history survives from run to run.                   *)
EXTENDS ToolExecutor

CONSTANTS Arguments,   \* argument texts a model may write: parameters or Malformed
          Malformed,   \* a text that is not a JSON object
          Sessions,    \* values of SessionID; None stands for the empty one
          SessionName, \* "_session_id"
          MaxSteps,
          MaxCalls,    \* bound: tool calls of one reply
          MaxRuns,     \* bound: calls of Run
          Cap, Keep    \* 1024 and 512

ASSUME AgentAssumption ==
  /\ SessionName \in SystemNames
  /\ Malformed \notin Params /\ Arguments \subseteq Params \cup {Malformed}
  /\ {MaxSteps, MaxCalls, MaxRuns, Cap, Keep} \subseteq Nat \ {0} /\ Keep <= Cap

VARIABLES agent,   \* how NewReActAgent was configured
          history, \* agent.history
          runs,    \* calls of Run so far
          step,    \* the loop's counter
          stage,   \* "idle" between runs; "panicked" is the end of the process
          calls,   \* the tool calls of the reply that is acted on
          results, \* what the executor has made of them so far
          added,   \* how many of the results are in the history
          last     \* the call of this reply a tool ran on last, None when none did

vars == <<agent, history, runs, step, stage, calls, results, added, last>>
-----------------------------------------------------------------------------------
(* A message is who wrote it and, for a model's, how many tools it calls; a tool *)
(* result names the reply and the position of its call.                          *)
Calls == [tool : Tools, raw : Arguments]
ToolResults == {"unknown", "unparsed", "refused", "error", "ran"}
Now == <<runs, step>>
Message(role) == [role |-> role, of |-> Now, calls |-> 0, at |-> 0]
Result(i) == [role |-> "tool", of |-> Now, calls |-> 0, at |-> i]

(* Mutant: the history is never cut.                                             *)
AddMessage_NoCut(h, msg) == Append(h, msg)

AddMessage(h, msg) == Append(IF Len(h) > Cap THEN SubSeq(h, 1, Keep) ELSE h, msg)

Init ==
  /\ agent \in [session : Sessions, hasRegistry : BOOLEAN]
  /\ history = <<>> /\ runs = 0 /\ step = 0
  /\ stage = "idle" /\ calls = <<>> /\ results = <<>> /\ added = 0 /\ last = None

Run ==
  /\ stage = "idle" /\ runs < MaxRuns
  /\ runs' = runs + 1 /\ step' = 0 /\ stage' = "think"
  /\ history' = AddMessage(history, [role |-> "user", of |-> <<runs + 1, 0>>, calls |-> 0, at |-> 0])
  /\ UNCHANGED <<agent, calls, results, added, last>>

(* injectSessionID: what does not parse is replaced, what is there overwritten.  *)
Inject(args) ==
  IF agent.session = None THEN args
  ELSE LET given == IF args = Malformed THEN [n \in {} |-> None] ELSE args
       IN  [n \in DOMAIN given \cup {SessionName} |-> IF n = SessionName THEN agent.session ELSE given[n]]

(* The model asks for tools.                                                     *)
Act ==
  /\ stage = "think" /\ step < MaxSteps
  /\ \E n \in 1..MaxCalls : \E reply \in [1..n -> Calls] :
       /\ calls' = [i \in 1..n |-> [tool |-> reply[i].tool, raw |-> reply[i].raw, args |-> Inject(reply[i].raw)]]
       /\ history' = AddMessage(history, [Message("assistant") EXCEPT !.calls = n])
  /\ stage' = IF agent.hasRegistry THEN "act" ELSE "panicked"
  /\ results' = <<>> /\ added' = 0 /\ last' = None
  /\ UNCHANGED <<agent, runs, step>>

(* The model answers: a stop, a cut-off reply, or tool_calls without a call.     *)
Answer ==
  /\ stage = "think" /\ step < MaxSteps
  /\ history' = AddMessage(history, Message("assistant"))
  /\ stage' = "idle"
  /\ UNCHANGED <<agent, runs, step, calls, results, added, last>>

(* The request fails or the content filter strikes; or there are no steps left.  *)
LLMFails ==
  /\ stage = "think" /\ stage' = "idle"
  /\ UNCHANGED <<agent, history, runs, step, calls, results, added, last>>

Handled == Len(results)
(* executeOne, one call after the other.                                         *)
ExecuteOne ==
  /\ stage = "act" /\ Handled < Len(calls)
  /\ LET call == calls[Handled + 1]
         spec == Registry[call.tool]
     IN  \/ /\ call.tool \notin DOMAIN Registry
            /\ results' = Append(results, "unknown") /\ UNCHANGED last
         \/ /\ call.tool \in DOMAIN Registry /\ call.args = Malformed
            /\ results' = Append(results, "unparsed") /\ UNCHANGED last
         \/ /\ call.tool \in DOMAIN Registry /\ call.args # Malformed
            /\ Refused(spec, call.args)
            /\ results' = Append(results, "refused") /\ UNCHANGED last
         \/ /\ call.tool \in DOMAIN Registry /\ call.args # Malformed
            /\ ~Refused(spec, call.args)
            /\ last' = [tool |-> call.tool, given |-> call.args,
                        params |-> ValidateParams(spec, call.args)]
            /\ \E outcome \in {"ran", "error"} : results' = Append(results, outcome)
  /\ UNCHANGED <<agent, history, runs, step, stage, calls, added>>

(* The reply has been acted on; the results go out of scope with it.              *)
Forget == calls' = <<>> /\ results' = <<>> /\ added' = 0 /\ last' = None

(* Mutants: the step is not counted; the last result is added first.             *)
Observe_SameStep ==
  /\ stage = "act" /\ Handled = Len(calls)
  /\ \/ /\ added < Handled
        /\ history' = AddMessage(history, Result(added + 1)) /\ added' = added + 1
        /\ UNCHANGED <<stage, calls, results, last>>
     \/ /\ added = Handled
        /\ stage' = "think" /\ Forget /\ UNCHANGED history
  /\ UNCHANGED <<agent, runs, step>>
Observe_Reversed ==
  /\ stage = "act" /\ Handled = Len(calls)
  /\ \/ /\ added < Handled
        /\ history' = AddMessage(history, Result(Handled - added)) /\ added' = added + 1
        /\ UNCHANGED <<step, stage, calls, results, last>>
     \/ /\ added = Handled
        /\ step' = step + 1 /\ stage' = "think" /\ Forget /\ UNCHANGED history
  /\ UNCHANGED <<agent, runs>>

(* When every call is handled the results join the history, one after the other, *)
(* and the loop goes round.                                                      *)
Observe ==
  /\ stage = "act" /\ Handled = Len(calls)
  /\ \/ /\ added < Handled
        /\ history' = AddMessage(history, Result(added + 1)) /\ added' = added + 1
        /\ UNCHANGED <<step, stage, calls, results, last>>
     \/ /\ added = Handled
        /\ step' = step + 1 /\ stage' = "think" /\ Forget /\ UNCHANGED history
  /\ UNCHANGED <<agent, runs>>

Exhausted ==
  /\ stage = "think" /\ step = MaxSteps /\ stage' = "idle"
  /\ UNCHANGED <<agent, history, runs, step, calls, results, added, last>>

Next == Run \/ Act \/ Answer \/ LLMFails \/ ExecuteOne \/ Observe \/ Exhausted

Spec == Init /\ [][Next]_vars

(* Run is called by the program; the model service answers or fails, tools end.  *)
FairSpec == Spec /\ WF_vars(Act \/ Answer \/ LLMFails \/ ExecuteOne \/ Observe \/ Exhausted)
-----------------------------------------------------------------------------------
TypeOK ==
  /\ agent \in [session : Sessions, hasRegistry : BOOLEAN]
  /\ history \in Seq([role : {"user", "assistant", "tool"}, of : (1..MaxRuns) \X (0..MaxSteps),
                      calls : 0..MaxCalls, at : 0..MaxCalls])
  /\ runs \in 0..MaxRuns /\ step \in 0..MaxSteps
  /\ stage \in {"idle", "think", "act", "panicked"}
  /\ Len(calls) \in 0..MaxCalls /\ results \in Seq(ToolResults) /\ added \in 0..Len(results)

(* The history never holds more than one message above the cap.                  *)
HistoryBounded == Len(history) <= Cap + 1

(* The results of a reply stand together behind it in the order of its calls,    *)
(* unless the cut fell between them, whatever was cut and added since.           *)
ResultsFollow ==
  \A i \in DOMAIN history :
    history[i].calls > 0 /\ ~(history[i].of = Now /\ stage \in {"act", "panicked"}) =>
      \A k \in 1..history[i].calls :
        \/ i <= Keep /\ Keep < i + history[i].calls
        \/ /\ i + k <= Len(history) /\ history[i + k].role = "tool"
           /\ history[i + k].of = history[i].of /\ history[i + k].at = k

(* A tool runs on what it declared, and knows the agent's session.               *)
ToolsServed ==
  last # None =>
    /\ WellFormed(Registry[last.tool], last.given, last.params)
    /\ agent.session # None => SessionName \in DOMAIN last.params
                              /\ last.params[SessionName] = agent.session

(* A run ends: every reply with tool calls uses up a step.  It ends with the      *)
(* process when an agent without a registry calls a tool (react.go:80).          *)
RunReturns == stage = "think" ~> stage \in {"idle", "panicked"}
-----------------------------------------------------------------------------------
(* A claim of the repository that the code does not keep.                        *)

(* README.md:311, the history truncates to the last 512 messages: the newest is  *)
(* among what remains.                                                           *)
KeepsLatest ==
  [][Len(history') < Len(history) =>
       \E i \in DOMAIN history' : history'[i] = history[Len(history)]]_vars
===================================================================================
