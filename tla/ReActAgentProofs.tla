------------------------------ MODULE ReActAgentProofs ------------------------------
(* Theorems about ReActAgent and ToolExecutor, for any registry, arguments, caps and *)
(* step limits: the history stays bounded and in order, tools get what they declared.*)
EXTENDS ReActAgent, SequenceTheorems, TLAPS

Entry == [role : {"user", "assistant", "tool"}, of : (1..MaxRuns) \X (0..MaxSteps),
          calls : 0..MaxCalls, at : 0..MaxCalls]
Request == {[tool |-> t, raw |-> r, args |-> Inject(r)] : t \in Tools, r \in Arguments}

(* The reply that is acted on: what the loop of Run relies on.                       *)
ReplyInv == /\ calls \in Seq(Request) /\ Len(calls) <= MaxCalls
            /\ Len(results) <= Len(calls) /\ (added > 0 => Len(results) = Len(calls))
            /\ stage # "idle" => runs > 0
            /\ stage = "act" => step < MaxSteps

(* Replies with tool calls come from steps already behind, or from this one.         *)
Behind(i) == LET o == history[i].of IN o[1] < runs \/ (o[1] = runs /\ o[2] < step)
PastInv == \A i \in 1..Len(history) : history[i].calls > 0 =>
             Behind(i) \/ (history[i].of = Now /\ stage \in {"act", "panicked"})

(* The cut fell, or will have fallen, between the reply at i and its last result.    *)
Split(i) == i <= Keep /\ Keep < i + history[i].calls
Answered(i, n) == /\ i + n <= Len(history)
                  /\ \A k \in 1..n : /\ history[i + k].role = "tool"
                                     /\ history[i + k].of = history[i].of /\ history[i + k].at = k
FollowInv == \A i \in 1..Len(history) :
               history[i].calls > 0 /\ ~(history[i].of = Now /\ stage \in {"act", "panicked"}) =>
                 Split(i) \/ Answered(i, history[i].calls)
CurrentInv == stage = "act" => \A i \in 1..Len(history) :
                history[i].calls > 0 /\ history[i].of = Now =>
                  /\ history[i].calls = Len(calls)
                  /\ Split(i) \/ (Answered(i, added) /\ i + added = Len(history))

IInv == /\ TypeOK /\ HistoryBounded /\ ReplyInv
        /\ PastInv /\ FollowInv /\ CurrentInv /\ ToolsServed
-----------------------------------------------------------------------------------
(* What a tool is given after validation is what it declared (validateParams).       *)
THEOREM Validated ==
  ASSUME NEW spec, NEW params, ~Refused(spec, params)
  PROVE  WellFormed(spec, params, ValidateParams(spec, params))
<1> DEFINE valid == ValidateParams(spec, params)
<1>1. DOMAIN valid = Kept(spec, params) \cup Filled(spec, params)
  BY DEF ValidateParams
<1>2. \A n \in DOMAIN spec : spec[n].required => n \in DOMAIN valid
  BY <1>1 DEF Refused, Missing, Kept
<1>3. \A n \in DOMAIN spec \cap DOMAIN params : valid[n] = params[n]
  BY DEF ValidateParams, Kept
<1>4. \A n \in DOMAIN spec \cap DOMAIN params : params[n] \in Accepted(spec[n].type)
  BY DEF Refused, IllTyped
<1> QED
  BY <1>1, <1>2, <1>3, <1>4 DEF WellFormed, Kept, Filled

(* A system parameter passes validation as it was given.                             *)
LEMMA SystemNamesPass ==
  ASSUME NEW spec, NEW params, NEW n \in SystemNames \cap DOMAIN params
  PROVE  n \in DOMAIN ValidateParams(spec, params) /\ ValidateParams(spec, params)[n] = params[n]
  BY DEF ValidateParams, Kept

(* AddMessage keeps a prefix, all of it unless the cap is passed, and adds one.       *)
LEMMA AddMessageEffect ==
  ASSUME NEW h \in Seq(Entry), NEW msg \in Entry
  PROVE  LET n == IF Len(h) > Cap THEN Keep ELSE Len(h)
             g == AddMessage(h, msg)
         IN  /\ g \in Seq(Entry) /\ Len(g) = n + 1 /\ n <= Len(h) /\ n \in Nat
             /\ \A i \in 1..n : g[i] = h[i]
             /\ g[n + 1] = msg
<1> DEFINE n == IF Len(h) > Cap THEN Keep ELSE Len(h)
           front == IF Len(h) > Cap THEN SubSeq(h, 1, Keep) ELSE h
<1>1. Cap \in Nat /\ Keep \in Nat /\ Keep <= Cap /\ Keep > 0 /\ Len(h) \in Nat
  BY AgentAssumption, LenProperties
<1>2. front \in Seq(Entry) /\ Len(front) = n /\ n <= Len(h) /\ \A i \in 1..n : front[i] = h[i]
  <2>1. CASE Len(h) > Cap
    <3>1. \A i \in 1..Keep : h[i] \in Entry
      BY <1>1, <2>1, ElementOfSeq
    <3> QED
      BY <1>1, <2>1, <3>1, SubSeqProperties
  <2>2. CASE ~(Len(h) > Cap)
    BY <1>1, <2>2
  <2> QED
    BY <2>1, <2>2
<1>3. AddMessage(h, msg) = Append(front, msg)
  BY DEF AddMessage
<1>4. n \in Nat
  BY <1>1
<1> HIDE DEF front, n
<1>5. /\ Append(front, msg) \in Seq(Entry) /\ Len(Append(front, msg)) = n + 1
      /\ Append(front, msg)[n + 1] = msg /\ \A i \in 1..n : Append(front, msg)[i] = h[i]
  BY <1>2, <1>4, AppendProperties
<1>6. /\ AddMessage(h, msg) \in Seq(Entry) /\ Len(AddMessage(h, msg)) = n + 1 /\ n <= Len(h) /\ n \in Nat
      /\ \A i \in 1..n : AddMessage(h, msg)[i] = h[i]
      /\ AddMessage(h, msg)[n + 1] = msg
  BY <1>2, <1>3, <1>4, <1>5
<1> QED
  BY <1>6 DEF n

(* Adding a message keeps a reply together with its results, or cuts between them.    *)
Extends(n, msg) ==
  /\ n \in 0..Len(history) /\ (n = Len(history) \/ (n = Keep /\ Len(history) = Cap + 1))
  /\ history' \in Seq(Entry) /\ Len(history') = n + 1 /\ Len(history') <= Cap + 1
  /\ \A i \in 1..n : history'[i] = history[i]
  /\ history'[n + 1] = msg
Together(i) == Split(i) \/ Answered(i, history[i].calls)

(* AddMessage extends the history, or its first Keep messages, by one.              *)
LEMMA HistoryStep ==
  ASSUME TypeOK, HistoryBounded, NEW msg \in Entry, history' = AddMessage(history, msg)
  PROVE  \E n \in Nat : Extends(n, msg)
<1>1. history \in Seq(Entry) /\ Len(history) \in Nat /\ Len(history) <= Cap + 1
  BY LenProperties DEF TypeOK, HistoryBounded, Entry
<1>2. Cap \in Nat /\ Keep \in Nat /\ Keep <= Cap
  BY AgentAssumption
<1> DEFINE n == IF Len(history) > Cap THEN Keep ELSE Len(history)
<1>3. /\ history' \in Seq(Entry) /\ Len(history') = n + 1 /\ n <= Len(history) /\ n \in Nat
      /\ \A i \in 1..n : history'[i] = history[i]
      /\ history'[n + 1] = msg
  BY <1>1, AddMessageEffect
<1>4. n \in 0..Len(history) /\ (n = Len(history) \/ (n = Keep /\ Len(history) = Cap + 1)) /\ n + 1 <= Cap + 1
  BY <1>1, <1>2
<1> HIDE DEF n
<1> QED
  BY <1>3, <1>4 DEF Extends

(* What TypeOK says of the messages, one fact at a time.                              *)
LEMMA Entries ==
  ASSUME TypeOK
  PROVE  /\ Len(history) \in Nat /\ runs \in Nat /\ step \in Nat
         /\ \A i \in 1..Len(history) :
              /\ history[i] \in Entry /\ history[i].calls \in Nat
              /\ history[i].of[1] \in Nat /\ history[i].of[2] \in Nat
<1>1. history \in Seq(Entry) /\ Len(history) \in Nat
  BY LenProperties DEF TypeOK, Entry
<1>2. \A i \in 1..Len(history) : history[i] \in Entry
  BY <1>1, ElementOfSeq
<1>3. MaxRuns \in Nat /\ MaxSteps \in Nat /\ MaxCalls \in Nat
  BY AgentAssumption
<1>4. ASSUME NEW e \in Entry PROVE e.calls \in Nat /\ e.of[1] \in Nat /\ e.of[2] \in Nat
  BY <1>3 DEF Entry
<1> QED
  BY <1>1, <1>2, <1>3, <1>4 DEF TypeOK

(* A reply that was together with its results stays so, or falls on the cut.           *)
LEMMA KeptTogether ==
  ASSUME TypeOK, NEW n \in Nat, NEW msg, Extends(n, msg), NEW i \in 1..n, Together(i)
  PROVE  Together(i)'
<1>1. /\ Len(history) \in Nat /\ Keep \in Nat /\ Cap \in Nat /\ i \in 1..Len(history)
      /\ history'[i] = history[i]
  BY Entries, AgentAssumption DEF Extends
<1>2. history[i].calls \in Nat
  BY <1>1, Entries
<1>3. CASE Split(i)
  BY <1>1, <1>3 DEF Split, Together
<1>4. CASE Answered(i, history[i].calls) /\ i + history[i].calls <= n
  <2>1. \A k \in 1..history[i].calls : i + k \in 1..n
    BY <1>1, <1>2, <1>4
  <2>2. \A k \in 1..history[i].calls : history'[i + k] = history[i + k]
    BY <2>1 DEF Extends
  <2>3. i + history'[i].calls <= Len(history')
    BY <1>1, <1>2, <1>4 DEF Extends
  <2>4. \A k \in 1..history'[i].calls : /\ history'[i + k].role = "tool"
                                        /\ history'[i + k].of = history'[i].of /\ history'[i + k].at = k
    BY <1>1, <1>4, <2>2 DEF Answered
  <2> QED
    BY <2>3, <2>4 DEF Together, Answered
<1>5. CASE Answered(i, history[i].calls) /\ ~(i + history[i].calls <= n)
  BY <1>1, <1>2, <1>5 DEF Split, Together, Answered, Extends
<1> QED
  BY <1>3, <1>4, <1>5 DEF Together
-----------------------------------------------------------------------------------
(* The messages a run adds have their type.                                         *)
LEMMA EntryTypes ==
  ASSUME TypeOK, ReplyInv
  PROVE  /\ stage # "idle" => Message("assistant") \in Entry
         /\ stage # "idle" => \A n \in 1..MaxCalls :
              [Message("assistant") EXCEPT !.calls = n] \in Entry
         /\ stage # "idle" => \A n \in 1..MaxCalls : Result(n) \in Entry
         /\ runs < MaxRuns => [role |-> "user", of |-> <<runs + 1, 0>>, calls |-> 0, at |-> 0] \in Entry
<1>1. /\ runs \in Nat /\ step \in 0..MaxSteps /\ runs <= MaxRuns /\ MaxRuns \in Nat /\ MaxSteps \in Nat
      /\ MaxCalls \in Nat
  BY AgentAssumption DEF TypeOK
<1>2. stage # "idle" => Now \in (1..MaxRuns) \X (0..MaxSteps)
  BY <1>1 DEF ReplyInv, Now
<1>3. runs < MaxRuns => <<runs + 1, 0>> \in (1..MaxRuns) \X (0..MaxSteps)
  BY <1>1
<1> HIDE DEF Now
<1> QED
  BY <1>1, <1>2, <1>3 DEF Entry, Message, Result

(* The requests of a reply, and how far it is.                                        *)
LEMMA ReplyStep ==
  ASSUME TypeOK, ReplyInv, [Next]_vars
  PROVE  ReplyInv' /\ UNCHANGED agent
<1>1. /\ runs \in Nat /\ step \in 0..MaxSteps /\ MaxSteps \in Nat /\ MaxCalls \in Nat
      /\ results \in Seq(ToolResults) /\ Len(results) \in Nat /\ added \in 0..Len(results)
      /\ calls \in Seq(Request) /\ Len(calls) \in Nat
  BY AgentAssumption, LenProperties DEF TypeOK, ReplyInv
<1>2. UNCHANGED agent
  BY DEF Next, vars, Run, Act, Answer, LLMFails, ExecuteOne, Observe, Exhausted
<1>3. Request' = Request
  BY <1>2 DEF Request, Inject
<1>4. <<>> \in Seq(Request) /\ Len(<<>>) = 0
  BY EmptySeq
<1>5. CASE Act
  <2>0. PICK n \in 1..MaxCalls : \E reply \in [1..n -> Calls] :
          calls' = [i \in 1..n |-> [tool |-> reply[i].tool, raw |-> reply[i].raw, args |-> Inject(reply[i].raw)]]
    BY <1>5 DEF Act
  <2>1. PICK reply \in [1..n -> Calls] :
          calls' = [i \in 1..n |-> [tool |-> reply[i].tool, raw |-> reply[i].raw, args |-> Inject(reply[i].raw)]]
    BY <2>0
  <2>2. \A i \in 1..n : [tool |-> reply[i].tool, raw |-> reply[i].raw, args |-> Inject(reply[i].raw)] \in Request
    BY DEF Request, Calls
  <2>3. calls' \in [1..n -> Request] /\ n \in Nat
    BY <1>1, <2>1, <2>2
  <2>4. calls' \in Seq(Request) /\ Len(calls') = n
    BY <2>3, SeqDef
  <2>5. results' = <<>> /\ added' = 0 /\ UNCHANGED <<runs, step>> /\ stage = "think" /\ step < MaxSteps
    BY <1>5 DEF Act
  <2> QED
    BY <1>1, <1>2, <1>3, <1>4, <2>1, <2>4, <2>5 DEF ReplyInv
<1>6. CASE ExecuteOne
  <2>1. /\ stage = "act" /\ Len(results) < Len(calls) /\ UNCHANGED <<runs, step, stage, calls, added>>
    BY <1>6 DEF ExecuteOne, Handled
  <2>2. PICK outcome \in ToolResults : results' = Append(results, outcome)
    BY <1>6, Zenon DEF ExecuteOne, ToolResults
  <2>3. Len(results') = Len(results) + 1
    BY <1>1, <2>2, AppendProperties
  <2>4. added = 0
    BY <1>1, <2>1 DEF ReplyInv
  <2> QED
    BY <1>1, <1>2, <1>3, <2>1, <2>3, <2>4 DEF ReplyInv
<1>7. CASE Observe
  <2>1. stage = "act" /\ UNCHANGED <<agent, runs>>
    BY <1>7 DEF Observe
  <2>2. \/ UNCHANGED <<step, stage, calls, results>> /\ Len(results) = Len(calls)
        \/ calls' = <<>> /\ results' = <<>> /\ added' = 0 /\ stage' = "think"
    BY <1>7, Zenon DEF Observe, Handled, Forget
  <2>3. CASE UNCHANGED <<step, stage, calls, results>> /\ Len(results) = Len(calls)
    BY <1>1, <1>2, <1>3, <2>1, <2>3 DEF ReplyInv
  <2>4. CASE calls' = <<>> /\ results' = <<>> /\ added' = 0 /\ stage' = "think"
    BY <1>1, <1>2, <1>3, <1>4, <2>1, <2>4 DEF ReplyInv
  <2> QED
    BY <2>2, <2>3, <2>4
<1>8. CASE Run
  BY <1>1, <1>2, <1>3, <1>8 DEF Run, ReplyInv
<1>9. CASE Answer \/ LLMFails \/ Exhausted \/ UNCHANGED vars
  BY <1>1, <1>2, <1>3, <1>9 DEF Answer, LLMFails, Exhausted, vars, ReplyInv
<1> QED
  BY <1>2, <1>5, <1>6, <1>7, <1>8, <1>9 DEF Next

(* Each step adds at most one message; the rest of the state keeps its types.         *)
LEMMA TypeStep ==
  ASSUME TypeOK, HistoryBounded, ReplyInv, [Next]_vars
  PROVE  TypeOK' /\ HistoryBounded'
<1>1. ReplyInv' /\ UNCHANGED agent
  BY ReplyStep
<1>2. /\ runs \in Nat /\ step \in 0..MaxSteps /\ MaxSteps \in Nat /\ MaxCalls \in Nat /\ MaxRuns \in Nat
      /\ results \in Seq(ToolResults) /\ Len(results) \in Nat /\ added \in 0..Len(results)
      /\ Len(calls) \in Nat /\ Len(calls) <= MaxCalls /\ Len(calls') \in 0..MaxCalls
      /\ <<>> \in Seq(ToolResults) /\ Len(<<>>) = 0
  BY <1>1, AgentAssumption, LenProperties, EmptySeq DEF TypeOK, ReplyInv
<1>3. ASSUME NEW msg \in Entry, history' = AddMessage(history, msg)
      PROVE  history' \in Seq(Entry) /\ HistoryBounded'
  BY <1>3, HistoryStep DEF Extends, HistoryBounded
<1>4. ASSUME UNCHANGED history PROVE history' \in Seq(Entry) /\ HistoryBounded'
  BY <1>4 DEF HistoryBounded, TypeOK, Entry
<1>5. history' \in Seq(Entry) /\ HistoryBounded'
  <2>1. CASE Run
    BY <1>3, <2>1, EntryTypes DEF Run
  <2>2. CASE Act
    <3>1. PICK n \in 1..MaxCalls : history' = AddMessage(history, [Message("assistant") EXCEPT !.calls = n])
      BY <2>2 DEF Act
    <3> QED
      BY <1>3, <2>2, <3>1, EntryTypes DEF Act
  <2>3. CASE Answer
    BY <1>3, <2>3, EntryTypes DEF Answer
  <2>4. CASE Observe
    <3>1. CASE added < Handled /\ history' = AddMessage(history, Result(added + 1))
      <4>1. added + 1 \in 1..MaxCalls
        BY <1>2, <2>4, <3>1 DEF Observe, Handled
      <4> QED
        BY <1>3, <2>4, <3>1, <4>1, EntryTypes DEF Observe
    <3> QED
      BY <1>4, <2>4, <3>1 DEF Observe
  <2>5. CASE LLMFails \/ ExecuteOne \/ Exhausted \/ UNCHANGED vars
    BY <1>4, <2>5 DEF LLMFails, ExecuteOne, Exhausted, vars
  <2> QED
    BY <2>1, <2>2, <2>3, <2>4, <2>5 DEF Next
<1>6. runs' \in 0..MaxRuns /\ step' \in 0..MaxSteps /\ stage' \in {"idle", "think", "act", "panicked"}
  BY <1>2 DEF TypeOK, ReplyInv, Next, vars, Run, Act, Answer, LLMFails, ExecuteOne, Observe, Exhausted
<1>7. results' \in Seq(ToolResults) /\ added' \in 0..Len(results')
  <2>1. CASE ExecuteOne
    <3>1. PICK outcome \in ToolResults : results' = Append(results, outcome)
      BY <2>1, Zenon DEF ExecuteOne, ToolResults
    <3> QED
      BY <1>2, <2>1, <3>1, AppendProperties DEF ExecuteOne
  <2>2. CASE Act
    BY <1>2, <2>2 DEF Act
  <2>3. CASE Observe
    <3>1. \/ added < Len(results) /\ added' = added + 1 /\ UNCHANGED results
          \/ results' = <<>> /\ added' = 0
      BY <2>3, Zenon DEF Observe, Handled, Forget
    <3>2. CASE results' = <<>> /\ added' = 0
      BY <1>2, <3>2
    <3>3. CASE added < Len(results) /\ added' = added + 1 /\ UNCHANGED results
      BY <1>2, <3>3
    <3> QED
      BY <3>1, <3>2, <3>3
  <2>4. CASE Run \/ Answer \/ LLMFails \/ Exhausted \/ UNCHANGED vars
    BY <1>2, <2>4 DEF Run, Answer, LLMFails, Exhausted, vars
  <2> QED
    BY <2>1, <2>2, <2>3, <2>4 DEF Next
<1> QED
  BY <1>1, <1>2, <1>5, <1>6, <1>7 DEF TypeOK, Entry
-----------------------------------------------------------------------------------
(* What remains of the replies before a message is added between replies.             *)
HistInv == PastInv /\ FollowInv /\ CurrentInv

(* A reply that survives the cut keeps its place and what follows it.               *)
LEMMA Remaining ==
  ASSUME TypeOK, HistInv, NEW n \in Nat, NEW msg, Extends(n, msg), NEW i \in 1..n, history[i].calls > 0
  PROVE  /\ history'[i] = history[i] /\ i \in 1..Len(history)
         /\ Behind(i) \/ (history[i].of = Now /\ stage \in {"act", "panicked"})
         /\ ~(history[i].of = Now /\ stage \in {"act", "panicked"}) => Together(i)'
<1>1. history'[i] = history[i] /\ i \in 1..Len(history)
  BY Entries DEF Extends
<1>2. Behind(i) \/ (history[i].of = Now /\ stage \in {"act", "panicked"})
  BY <1>1 DEF HistInv, PastInv
<1>3. ASSUME ~(history[i].of = Now /\ stage \in {"act", "panicked"}) PROVE Together(i)'
  BY <1>1, <1>3, KeptTogether DEF HistInv, FollowInv, Together
<1> QED
  BY <1>1, <1>2, <1>3

(* A new run's question keeps the order of the history.                             *)
LEMMA RunHistory == ASSUME TypeOK, HistoryBounded, ReplyInv, HistInv, Run PROVE HistInv'
<1> DEFINE msg == [role |-> "user", of |-> <<runs + 1, 0>>, calls |-> 0, at |-> 0]
<1>1. /\ stage = "idle" /\ stage' = "think" /\ runs' = runs + 1 /\ step' = 0
      /\ history' = AddMessage(history, msg) /\ msg \in Entry
  BY EntryTypes DEF Run
<1>2. PICK n \in Nat : Extends(n, msg)
  BY <1>1, HistoryStep
<1>3. Len(history') = n + 1 /\ history'[n + 1].calls = 0
  BY <1>2 DEF Extends
<1>4. ASSUME NEW i \in 1..Len(history'), history'[i].calls > 0
      PROVE  Behind(i)' /\ Together(i)'
  <2>1. i \in 1..n
    BY <1>3, <1>4
  <2>2. history[i].calls > 0
    BY <1>2, <1>4, <2>1 DEF Extends
  <2>3. history'[i] = history[i] /\ i \in 1..Len(history) /\ Behind(i) /\ Together(i)'
    BY <1>1, <1>2, <2>1, <2>2, Remaining
  <2> QED
    BY <1>1, <2>3, Entries DEF Behind
<1> QED
  BY <1>1, <1>4 DEF HistInv, PastInv, FollowInv, CurrentInv, Together

(* A final answer keeps the order of the history.                                   *)
LEMMA AnswerHistory == ASSUME TypeOK, HistoryBounded, ReplyInv, HistInv, Answer PROVE HistInv'
<1> DEFINE msg == Message("assistant")
<1>1. /\ stage = "think" /\ stage' = "idle" /\ UNCHANGED <<runs, step>>
      /\ history' = AddMessage(history, msg) /\ msg \in Entry /\ msg.calls = 0
  BY EntryTypes DEF Answer, Message
<1> HIDE DEF msg
<1>2. PICK n \in Nat : Extends(n, msg)
  BY <1>1, HistoryStep
<1>3. Len(history') = n + 1 /\ history'[n + 1].calls = 0
  BY <1>1, <1>2 DEF Extends
<1>4. ASSUME NEW i \in 1..Len(history'), history'[i].calls > 0
      PROVE  Behind(i)' /\ Together(i)'
  <2>1. i \in 1..n
    BY <1>3, <1>4
  <2>2. history[i].calls > 0
    BY <1>2, <1>4, <2>1 DEF Extends
  <2>3. history'[i] = history[i] /\ Behind(i) /\ Together(i)'
    BY <1>1, <1>2, <2>1, <2>2, Remaining
  <2> QED
    BY <1>1, <2>3 DEF Behind
<1> QED
  BY <1>1, <1>4 DEF HistInv, PastInv, FollowInv, CurrentInv, Together

(* A reply with tool calls is added after every settled reply.                      *)
LEMMA ActHistory == ASSUME TypeOK, HistoryBounded, ReplyInv, HistInv, Act PROVE HistInv'
<1>1. PICK m \in 1..MaxCalls : /\ history' = AddMessage(history, [Message("assistant") EXCEPT !.calls = m])
                               /\ Len(calls') = m
  <2>1. PICK m \in 1..MaxCalls : \E reply \in [1..m -> Calls] :
          /\ calls' = [i \in 1..m |-> [tool |-> reply[i].tool, raw |-> reply[i].raw, args |-> Inject(reply[i].raw)]]
          /\ history' = AddMessage(history, [Message("assistant") EXCEPT !.calls = m])
    BY DEF Act
  <2>2. m \in Nat
    BY AgentAssumption
  <2> QED
    BY <2>1, <2>2
<1> DEFINE msg == [Message("assistant") EXCEPT !.calls = m]
<1>2. /\ stage = "think" /\ stage' \in {"act", "panicked"} /\ UNCHANGED <<runs, step>> /\ added' = 0
      /\ msg \in Entry /\ msg.calls = m /\ msg.of = Now /\ m \in Nat
  BY EntryTypes, AgentAssumption DEF Act, Message
<1> HIDE DEF msg
<1>3. PICK n \in Nat : Extends(n, msg)
  BY <1>1, <1>2, HistoryStep DEF msg
<1>4. Len(history') = n + 1 /\ history'[n + 1] = msg
  BY <1>3 DEF Extends
<1>5. ASSUME NEW i \in 1..n, history'[i].calls > 0
      PROVE  Behind(i)' /\ Together(i)' /\ history'[i].of # Now'
  <2>1. history[i].calls > 0
    BY <1>3, <1>5 DEF Extends
  <2>2. history'[i] = history[i] /\ i \in 1..Len(history) /\ Behind(i) /\ Together(i)'
    BY <1>2, <1>3, <2>1, Remaining
  <2>3. history[i].of # Now
    BY <2>2, Entries DEF Behind, Now
  <2> QED
    BY <1>2, <2>2, <2>3 DEF Behind, Now
<1>6. \A i \in 1..Len(history') : i \in 1..n \/ (i = n + 1 /\ history'[i].of = Now' /\ history'[i].calls = Len(calls'))
  BY <1>1, <1>2, <1>4 DEF Now
<1>7. PastInv' /\ FollowInv'
  BY <1>2, <1>5, <1>6 DEF PastInv, FollowInv, Together
<1>8. Answered(n + 1, 0)'
  BY <1>4 DEF Answered
<1>9. CurrentInv'
  BY <1>2, <1>4, <1>5, <1>6, <1>8 DEF CurrentInv
<1> QED
  BY <1>7, <1>9 DEF HistInv

(* A result joins the history behind its reply, or the cut parts it from it.          *)
LEMMA ResultHistory ==
  ASSUME TypeOK, HistoryBounded, ReplyInv, HistInv, Observe, added < Handled
  PROVE  HistInv'
<1> DEFINE msg == Result(added + 1)
<1>1. /\ stage = "act" /\ UNCHANGED <<runs, step, stage, calls, results>> /\ added' = added + 1
      /\ history' = AddMessage(history, msg) /\ Len(results) = Len(calls) /\ added \in Nat /\ added < Len(calls)
      /\ Len(calls) \in Nat
  BY LenProperties DEF Observe, Handled, TypeOK, ReplyInv
<1>2. msg \in Entry /\ msg.role = "tool" /\ msg.of = Now /\ msg.calls = 0 /\ msg.at = added + 1
  <2>1. added + 1 \in 1..MaxCalls
    BY <1>1, AgentAssumption DEF ReplyInv
  <2> QED
    BY <1>1, <2>1, EntryTypes DEF Result
<1> HIDE DEF msg
<1>3. PICK n \in Nat : Extends(n, msg)
  BY <1>1, <1>2, HistoryStep
<1>4. /\ Len(history') = n + 1 /\ history'[n + 1] = msg
      /\ n \in 0..Len(history) /\ (n = Len(history) \/ (n = Keep /\ Len(history) = Cap + 1))
      /\ Keep \in Nat /\ Cap \in Nat /\ Keep <= Cap /\ Len(history) \in Nat
  BY <1>3, AgentAssumption, Entries DEF Extends
<1>5. ASSUME NEW i \in 1..Len(history'), history'[i].calls > 0
      PROVE  /\ i \in 1..n /\ history'[i] = history[i] /\ history[i].calls > 0
             /\ Behind(i)' \/ history'[i].of = Now'
             /\ ~(history'[i].of = Now') => Together(i)'
  <2>1. i \in 1..n
    BY <1>2, <1>4, <1>5
  <2>2. history[i].calls > 0 /\ history'[i] = history[i]
    BY <1>3, <1>5, <2>1 DEF Extends
  <2>3. /\ Behind(i) \/ history[i].of = Now
        /\ ~(history[i].of = Now) => Together(i)'
    BY <1>1, <1>3, <2>1, <2>2, Remaining
  <2> QED
    BY <1>1, <2>1, <2>2, <2>3 DEF Behind, Now
<1>6. PastInv' /\ FollowInv'
  BY <1>1, <1>5 DEF PastInv, FollowInv, Together
<1>7. ASSUME NEW i \in 1..Len(history'), history'[i].calls > 0, history'[i].of = Now'
      PROVE  /\ history'[i].calls = Len(calls')
             /\ Split(i)' \/ (Answered(i, added)' /\ i + added' = Len(history'))
  <2>1. i \in 1..n /\ history'[i] = history[i] /\ history[i].calls > 0 /\ history[i].of = Now
    BY <1>1, <1>5, <1>7 DEF Now
  <2>2. /\ history[i].calls = Len(calls)
        /\ Split(i) \/ (Answered(i, added) /\ i + added = Len(history))
    BY <1>1, <1>4, <2>1 DEF HistInv, CurrentInv
  <2>3. CASE Split(i)
    BY <1>1, <2>1, <2>2, <2>3 DEF Split
  <2>4. CASE Answered(i, added) /\ i + added = Len(history) /\ n = Keep /\ Len(history) = Cap + 1
    BY <1>1, <1>4, <2>1, <2>2, <2>4 DEF Split
  <2>5. CASE Answered(i, added) /\ i + added = Len(history) /\ n = Len(history)
    <3>1. \A k \in 1..added : i + k \in 1..n /\ history'[i + k] = history[i + k]
      BY <1>1, <1>3, <1>4, <2>1, <2>5 DEF Extends
    <3>2. i + added' = Len(history')
      BY <1>1, <1>4, <2>1, <2>5
    <3>3. history'[i + (added + 1)] = msg
      BY <1>1, <1>4, <2>1, <2>5
    <3>4. ASSUME NEW k \in 1..added'
          PROVE  /\ history'[i + k].role = "tool"
                 /\ history'[i + k].of = history'[i].of /\ history'[i + k].at = k
      <4>1. CASE k \in 1..added
        BY <2>1, <2>5, <3>1, <4>1 DEF Answered
      <4>2. CASE k = added + 1
        BY <1>2, <2>1, <3>3, <4>2
      <4> QED
        BY <1>1, <4>1, <4>2
    <3>5. Answered(i, added)'
      BY <1>4, <3>2, <3>4 DEF Answered
    <3> QED
      BY <1>1, <2>1, <2>2, <3>2, <3>5
  <2> QED
    BY <1>4, <2>2, <2>3, <2>4, <2>5
<1> QED
  BY <1>6, <1>7 DEF HistInv, CurrentInv

(* With its last result a reply is behind.                                            *)
LEMMA RoundHistory ==
  ASSUME TypeOK, ReplyInv, HistInv, Observe, added = Handled
  PROVE  HistInv'
<1>1. /\ stage = "act" /\ stage' = "think" /\ step' = step + 1 /\ UNCHANGED <<runs, history>>
      /\ added = Len(calls)
  BY DEF Observe, Handled, TypeOK, ReplyInv
<1>2. ASSUME NEW i \in 1..Len(history), history[i].calls > 0
      PROVE  Behind(i)' /\ Together(i)
  <2>1. Behind(i) \/ history[i].of = Now
    BY <1>2 DEF HistInv, PastInv
  <2>2. Behind(i)'
    BY <1>1, <2>1, Entries DEF Behind, Now
  <2>3. CASE history[i].of = Now
    BY <1>1, <1>2, <2>2, <2>3 DEF HistInv, CurrentInv, Together
  <2>4. CASE history[i].of # Now
    BY <1>2, <2>2, <2>4 DEF HistInv, FollowInv, Together
  <2> QED
    BY <2>2, <2>3, <2>4
<1>3. ASSUME NEW i \in 1..Len(history), Together(i) PROVE Together(i)'
  BY <1>1, <1>3 DEF Together, Split, Answered
<1> QED
  BY <1>1, <1>2, <1>3 DEF HistInv, PastInv, FollowInv, CurrentInv, Together

(* Every step keeps the order of the history.                                       *)
LEMMA HistoryInv ==
  ASSUME TypeOK, HistoryBounded, ReplyInv, HistInv, [Next]_vars
  PROVE  HistInv'
<1>1. CASE LLMFails \/ Exhausted
  <2>1. stage = "think" /\ stage' = "idle" /\ UNCHANGED <<history, runs, step>>
    BY <1>1 DEF LLMFails, Exhausted
  <2> QED
    BY <2>1 DEF HistInv, PastInv, FollowInv, CurrentInv, Behind, Split, Answered, Now
<1>2. CASE ExecuteOne \/ UNCHANGED vars
  <2>1. UNCHANGED <<history, runs, step, stage, calls, added>>
    BY <1>2 DEF ExecuteOne, vars
  <2> QED
    BY <2>1 DEF HistInv, PastInv, FollowInv, CurrentInv, Behind, Split, Answered, Now
<1>3. CASE Observe
  BY <1>3, ResultHistory, RoundHistory DEF Observe
<1> QED
  BY <1>1, <1>2, <1>3, RunHistory, ActHistory, AnswerHistory DEF Next
-----------------------------------------------------------------------------------
(* A tool runs on validated arguments that carry the session of its agent.            *)
LEMMA ServedStep ==
  ASSUME TypeOK, ReplyInv, ToolsServed, [Next]_vars
  PROVE  ToolsServed'
<1>1. UNCHANGED agent
  BY ReplyStep
<1>2. CASE last' = None
  BY <1>2 DEF ToolsServed
<1>3. CASE UNCHANGED last
  BY <1>1, <1>3 DEF ToolsServed
<1>4. ASSUME ExecuteOne, ~UNCHANGED last
      PROVE  ToolsServed'
  <2> DEFINE call == calls[Handled + 1]
             spec == Registry[call.tool]
  <2>1. /\ call.args # Malformed /\ ~Refused(spec, call.args) /\ Len(results) < Len(calls)
        /\ last' = [tool |-> call.tool, given |-> call.args, params |-> ValidateParams(spec, call.args)]
    BY <1>4 DEF ExecuteOne, Handled
  <2>2. call \in Request
    <3>1. calls \in Seq(Request) /\ Handled + 1 \in 1..Len(calls)
      BY <2>1, LenProperties DEF ReplyInv, TypeOK, Handled
    <3> QED
      BY <3>1, ElementOfSeq
  <2>3. PICK r \in Arguments : call.args = Inject(r)
    <3>1. ASSUME NEW request \in Request PROVE \E r \in Arguments : request.args = Inject(r)
      BY DEF Request
    <3> QED
      BY <2>2, <3>1
  <2>4. agent.session # None => /\ SessionName \in DOMAIN call.args
                               /\ call.args[SessionName] = agent.session
    BY <2>3 DEF Inject
  <2>5. WellFormed(spec, call.args, ValidateParams(spec, call.args))
    BY <2>1, Validated
  <2>6. agent.session # None => /\ SessionName \in DOMAIN last'.params
                               /\ last'.params[SessionName] = agent.session
    BY <2>1, <2>4, SystemNamesPass, AgentAssumption
  <2> QED
    BY <1>1, <2>1, <2>5, <2>6 DEF ToolsServed
<1> QED
  BY <1>2, <1>3, <1>4 DEF Next, vars, Run, Act, Answer, LLMFails, Observe, Forget, Exhausted
-----------------------------------------------------------------------------------
(* The empty history satisfies the inductive invariant.                             *)
LEMMA InitInv == Init => IInv
<1> SUFFICES ASSUME Init PROVE IInv
  OBVIOUS
<1>1. <<>> \in Seq(Entry) /\ <<>> \in Seq(ToolResults) /\ <<>> \in Seq(Request) /\ Len(<<>>) = 0
  BY EmptySeq
<1>2. {MaxSteps, MaxCalls, MaxRuns, Cap, Keep} \subseteq Nat \ {0}
  BY AgentAssumption
<1> QED
  BY <1>1, <1>2 DEF Init, IInv, TypeOK, Entry, HistoryBounded, ReplyInv, PastInv, FollowInv, CurrentInv, ToolsServed

(* The inductive invariant: what is in the history is behind or being answered.       *)
THEOREM Invariant == Spec => []IInv
<1>1. IInv /\ [Next]_vars => IInv'
  BY ReplyStep, TypeStep, HistoryInv, ServedStep DEF IInv, HistInv
<1> QED
  BY InitInv, <1>1, PTL DEF Spec

(* The history never holds more than one message above the cap (agent.go:36).         *)
THEOREM HistoryStaysBounded == Spec => [](TypeOK /\ HistoryBounded)
<1>1. IInv => TypeOK /\ HistoryBounded
  BY DEF IInv
<1> QED
  BY Invariant, <1>1, PTL

(* The results of a reply stand behind it in the order of its calls, unless the cut   *)
(* fell between them (react.go:84).                                                   *)
THEOREM ResultsStayBehind == Spec => []ResultsFollow
<1>1. IInv => ResultsFollow
  <2> SUFFICES ASSUME IInv, NEW i \in DOMAIN history, history[i].calls > 0,
                      ~(history[i].of = Now /\ stage \in {"act", "panicked"}),
                      NEW k \in 1..history[i].calls
               PROVE  \/ i <= Keep /\ Keep < i + history[i].calls
                      \/ /\ i + k <= Len(history) /\ history[i + k].role = "tool"
                         /\ history[i + k].of = history[i].of /\ history[i + k].at = k
    BY DEF ResultsFollow
  <2>1. i \in 1..Len(history) /\ history[i].calls \in Nat /\ Len(history) \in Nat
    <3>1. DOMAIN history = 1..Len(history)
      BY LenProperties DEF IInv, TypeOK
    <3> QED
      BY <3>1, Entries DEF IInv
  <2>2. Split(i) \/ Answered(i, history[i].calls)
    BY <2>1 DEF IInv, FollowInv
  <2> QED
    BY <2>1, <2>2 DEF Split, Answered
<1> QED
  BY Invariant, <1>1, PTL

(* A tool runs on what it declared, and knows its agent's session (executor.go:111).  *)
THEOREM ToolsStayServed == Spec => []ToolsServed
<1>1. IInv => ToolsServed
  BY DEF IInv
<1> QED
  BY Invariant, <1>1, PTL
===================================================================================
