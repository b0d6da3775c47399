--------------------------- MODULE AgentSessionsProofs ---------------------------
(* Theorems about AgentSessions, for any sessions, calls, agents, directories and   *)
(* operations of the application: memories stay in their session and are recalled,  *)
(* directories stay in the workspace and are not reset.                             *)
EXTENDS AgentSessions, SequenceTheorems, TLAPS

(* Names of files: the provers do not know that a string they are shown is one.     *)
Paths == Seq(STRING \cup {"unknown"})
Pcs == {"idle", "refused", "default", "resolve", "add", "search", "added", "answered",
        "cd", "execute", "assign", "text", "len", "changed", "ran"}
Ops == Targets \cup {"none", "add", "search", "execute"}
CallRecord == [pc : Pcs, op : Ops, session : Given \cup TerminalIDs, on : Nat,
               tiers : Nat, found : SUBSET Calls, known : SUBSET Calls, dir : Paths]
Manager == [session : Sessions, working : SUBSET Calls]
Directory == [text : Paths, len : Nat, single : BOOLEAN]

TypeOK ==
  /\ calls \in [Calls -> CallRecord]
  /\ managers \in [Sessions -> Nat] /\ defaultSessionID \in Given /\ made \in Seq(Manager)
  /\ episodes \subseteq Sessions \X Calls /\ dropped \subseteq Sessions
  /\ sessions \in [TerminalIDs -> Nat] /\ defaultID \in TerminalIDs /\ dirs \in Seq(Directory)
  /\ agents \in [Agents -> [pc : {"new", "addMemory", "terminal", "addTerminal", "ready", "failed"},
                            session : Given, looked : Nat]]

Pc(c) == calls[c].pc
Own(i, s) == Pc(i) = "added" /\ calls[i].session = s

(* Managers and episodes hold what was added for their session.                     *)
StoreInv ==
  /\ \A s \in Sessions : managers[s] # 0 =>
       managers[s] \in DOMAIN made /\ made[managers[s]].session = s
  /\ \A k \in DOMAIN made : \A i \in made[k].working : Own(i, made[k].session)
  /\ \A e \in episodes : Own(e[2], e[1])

(* A call works for a session and with a manager of that session, the registered    *)
(* one unless the session was removed.                                              *)
CallOK(r) ==
  /\ r.pc \in {"default", "resolve"} => r.op \in {"add", "search"}
  /\ r.pc \in {"resolve", "add", "search", "added", "answered"} => r.session \in Sessions
  /\ r.pc \in {"add", "search"} =>
       /\ r.on \in DOMAIN made /\ made[r.on].session = r.session
       /\ r.session \notin dropped => managers[r.session] = r.on
CallInv == \A c \in Calls : CallOK(calls[c])

(* An added memory is in the registered manager or in an episode.                   *)
Recallable(i) ==
  LET s == calls[i].session IN
  s \in dropped \/ <<s, i>> \in episodes \/ (managers[s] # 0 /\ i \in made[managers[s]].working)
KeptInv == \A i \in Calls : Pc(i) = "added" => Recallable(i)

(* What a search has found is its session's; what it has passed it has found.       *)
Passed(r, i) == i \in r.found \/ <<r.session, i>> \in episodes
SearchOK(r) ==
  /\ r.found # {} => r.pc \in {"search", "answered"}
  /\ \A i \in r.found : Own(i, r.session)
  /\ \A i \in r.known : Pc(i) = "added"
  /\ r.pc \in {"default", "resolve"} => r.tiers = 0
  /\ r.pc = "search" => /\ r.tiers \in {0, 1}
                        /\ r.tiers = 1 /\ r.session \notin dropped =>
                             \A i \in r.known : Own(i, r.session) => Passed(r, i)
SearchInv == \A c \in Calls : SearchOK(calls[c])

AnswerOK(r) ==
  r.pc = "answered" => \A i \in r.known : calls[i].session = r.session =>
                         i \in r.found \/ r.session \in dropped

MemInv == StoreInv /\ CallInv /\ KeptInv /\ SearchInv /\ AddedIsRecalled

Good(dir) == dir \in {InitDir, Getwd} \/ (Inside(dir) /\ dir \in Dirs)

SessionInv == \A s \in TerminalIDs : sessions[s] \in 0..Len(dirs)

(* A call that works with a directory found it; what it assigns it checked.         *)
WorkOK(r) ==
  /\ r.pc \in {"cd", "execute", "assign", "text", "len"} => r.on \in DOMAIN dirs
  /\ r.pc \in {"assign", "text", "len"} => Inside(r.dir) /\ r.dir \in Dirs
WorkInv == \A c \in Calls : WorkOK(calls[c])

(* A call in the middle of an assignment has written one word of a checked          *)
(* directory; the other word waits for it.                                          *)
DirOK(o) ==
  dirs[o].single =>
    /\ \A c, d \in Assigning(o) : c = d
    /\ Assigning(o) = {} => Good(dirs[o].text) /\ dirs[o].len = Len(dirs[o].text)
    /\ \A c \in Assigning(o) : /\ Pc(c) = "text" => dirs[o].len = Len(calls[c].dir)
                               /\ Pc(c) = "len" => dirs[o].text = calls[c].dir
DirInv == \A o \in DOMAIN dirs : DirOK(o)

TermInv == SessionInv /\ WorkInv /\ DirInv

(* An agent is about to add a terminal session it did not find when it looked.      *)
AgentInv ==
  \A a \in Agents :
    /\ agents[a].pc \in {"terminal", "addTerminal"} => agents[a].session \in Sessions
    /\ agents[a].pc = "addTerminal" =>
         sessions[agents[a].session] = 0 \/ agents[a].looked < sessions[agents[a].session]
    /\ agents[a].looked <= Len(dirs)

IInv == TypeOK /\ MemInv /\ TermInv /\ AgentInv
----------------------------------------------------------------------------------
(* Types.                                                                           *)
LEMMA PathFacts ==
  /\ WorkSpace \in Paths /\ InitDir \in Paths /\ Getwd \in Paths
  /\ \A d \in Dirs : d \in Paths
<1>1. \A d \in Dirs : d \in Paths
  <2> SUFFICES ASSUME NEW d \in Dirs PROVE d \in Paths
    OBVIOUS
  <2>1. d \in Seq(STRING)
    BY DirsAssumption
  <2>2. DOMAIN d = 1..Len(d) /\ Len(d) \in Nat /\ \A i \in 1..Len(d) : d[i] \in STRING
    BY <2>1, LenProperties, ElementOfSeq
  <2> QED
    BY <2>1, <2>2 DEF Paths
<1> QED
  BY <1>1, DirsAssumption

LEMMA IdleType == Idle \in CallRecord
<1>1. <<>> \in Paths
  BY EmptySeq DEF Paths
<1>2. NoSession \in Given \cup TerminalIDs
  BY DEF Given
<1> QED
  BY <1>1, <1>2 DEF Idle, CallRecord, Pcs, Ops

LEMMA MadeFacts ==
  ASSUME made \in Seq(Manager)
  PROVE  /\ DOMAIN made = 1..Len(made) /\ Len(made) \in Nat
         /\ \A k \in DOMAIN made : made[k] \in Manager
BY LenProperties, ElementOfSeq

LEMMA DirsFacts ==
  ASSUME dirs \in Seq(Directory)
  PROVE  /\ DOMAIN dirs = 1..Len(dirs) /\ Len(dirs) \in Nat
         /\ \A o \in DOMAIN dirs : dirs[o] \in Directory
BY LenProperties, ElementOfSeq

(* A new entry is behind all others, which stay as they are.                        *)
LEMMA Appended ==
  ASSUME NEW S, NEW seq \in Seq(S), NEW e \in S, NEW new, new = Append(seq, e)
  PROVE  /\ new \in Seq(S) /\ Len(new) = Len(seq) + 1 /\ new[Len(seq) + 1] = e
         /\ DOMAIN new = DOMAIN seq \cup {Len(seq) + 1} /\ Len(seq) + 1 \notin DOMAIN seq
         /\ \A k \in DOMAIN seq : new[k] = seq[k]
<1>1. Len(seq) \in Nat /\ DOMAIN seq = 1..Len(seq)
  BY LenProperties
<1>2. /\ new \in Seq(S) /\ Len(new) = Len(seq) + 1 /\ new[Len(seq) + 1] = e
      /\ \A k \in 1..Len(seq) : new[k] = seq[k]
  BY AppendProperties
<1>3. DOMAIN new = 1..Len(new)
  BY <1>2, LenProperties
<1> QED
  BY <1>1, <1>2, <1>3

LEMMA SessionType ==
  ASSUME NEW dir \in Paths
  PROVE  Session(dir) \in Directory
BY LenProperties DEF Session, Directory, Paths

(* What a read gives is a path, whatever is written at the time; between            *)
(* assignments it is the text.                                                      *)
LEMMA ReadType ==
  ASSUME dirs \in Seq(Directory), NEW o \in DOMAIN dirs
  PROVE  /\ Read(o) \in Paths
         /\ dirs[o].len = Len(dirs[o].text) => Read(o) = dirs[o].text
<1> DEFINE d == dirs[o]
<1>1. d.text \in Paths /\ d.len \in Nat /\ Len(d.text) \in Nat
  BY DirsFacts, LenProperties DEF Directory, Paths
<1>2. CASE d.len <= Len(d.text)
  <2>1. SubSeq(d.text, 1, d.len) \in Paths
    BY <1>1, <1>2, SubSeqProperties DEF Paths
  <2>2. d.len = Len(d.text) => SubSeq(d.text, 1, d.len) = d.text
    <3> SUFFICES ASSUME d.len = Len(d.text) PROVE SubSeq(d.text, 1, d.len) = d.text
      OBVIOUS
    <3>1. /\ Len(SubSeq(d.text, 1, d.len)) = Len(d.text)
          /\ \A k \in 1..Len(d.text) : SubSeq(d.text, 1, d.len)[k] = d.text[k]
      BY <1>1, SubSeqProperties DEF Paths
    <3> QED
      BY <1>1, <2>1, <3>1, SeqEqual DEF Paths
  <2> QED
    BY <1>2, <2>1, <2>2 DEF Read
<1>3. CASE ~(d.len <= Len(d.text))
  <2>1. Append(d.text, "unknown") \in Paths
    <3> DEFINE e == "unknown"
    <3>1. e \in STRING \cup {"unknown"}
      OBVIOUS
    <3> HIDE DEF d, e
    <3>2. Append(d.text, e) \in Paths
      BY <1>1, <3>1, AppendProperties DEF Paths
    <3> QED
      BY <3>2 DEF e
  <2> QED
    BY <1>1, <1>3, <2>1 DEF Read
<1> QED
  BY <1>2, <1>3

LEMMA HitsType ==
  ASSUME TypeOK, NEW k \in DOMAIN made, NEW tier
  PROVE  Hits(k, tier) \subseteq Calls
<1>1. made[k] \in Manager
  BY MadeFacts DEF TypeOK
<1> QED
  BY <1>1 DEF Hits, TypeOK, Manager

-----------------------------------------------------------------------------------
(* A step of a call, and of nothing else, keeps the types.                          *)
LEMMA CallTypes ==
  ASSUME TypeOK, NEW c \in Calls, NEW r \in CallRecord, calls' = [calls EXCEPT ![c] = r],
         UNCHANGED <<memVars, termVars, agents>>
  PROVE  TypeOK'
BY DEF TypeOK, memVars, termVars

(* The steps of a call of the memory tool that change nothing but the call.         *)
MemoryPcs == {"idle", "refused", "default", "resolve", "add", "search", "answered"}
MemoryStep(c, r) ==
  /\ calls' = [calls EXCEPT ![c] = r] /\ UNCHANGED memVars
  /\ Pc(c) \in MemoryPcs /\ r.pc \in MemoryPcs
  /\ CallOK(r) /\ SearchOK(r) /\ AnswerOK(r)

(* An idle or ended call promises nothing.                                          *)
LEMMA EndStep ==
  ASSUME NEW c \in Calls, NEW pc \in {"refused"}, End(c, pc), UNCHANGED memVars, Pc(c) \in MemoryPcs
  PROVE  \E r \in CallRecord : MemoryStep(c, r)
<1> DEFINE r == [Idle EXCEPT !.pc = pc]
<1>1. r \in CallRecord
  BY IdleType DEF CallRecord, Pcs
<1>2. r.pc = "refused" /\ r.found = {} /\ r.known = {}
  BY DEF Idle
<1>3. CallOK(r) /\ SearchOK(r) /\ AnswerOK(r)
  BY <1>2 DEF CallOK, SearchOK, AnswerOK
<1> QED
  BY <1>1, <1>2, <1>3 DEF MemoryStep, MemoryPcs, End

LEMMA BeginMemoryStep ==
  ASSUME NEW c \in Calls, BeginMemory(c)
  PROVE  \E r \in CallRecord : MemoryStep(c, r)
<1>1. PICK s \in Given, op \in {"add", "search"} :
        calls' = [calls EXCEPT ![c] = [Idle EXCEPT
          !.pc = IF s = NoSession THEN "default" ELSE "resolve", !.op = op, !.session = s,
          !.known = {i \in Calls : calls[i].pc = "added"}]]
  BY DEF BeginMemory
<1> DEFINE r == [Idle EXCEPT
          !.pc = IF s = NoSession THEN "default" ELSE "resolve", !.op = op, !.session = s,
          !.known = {i \in Calls : calls[i].pc = "added"}]
<1>2. r \in CallRecord
  BY IdleType DEF CallRecord, Pcs, Ops
<1>3. /\ r.pc = (IF s = NoSession THEN "default" ELSE "resolve") /\ r.op = op /\ r.session = s
      /\ r.known = {i \in Calls : calls[i].pc = "added"} /\ r.found = {} /\ r.tiers = 0
  BY DEF Idle
<1>4. CallOK(r) /\ SearchOK(r) /\ AnswerOK(r)
  BY <1>3 DEF CallOK, SearchOK, AnswerOK, Given, Pc
<1> QED
  BY <1>1, <1>2, <1>3, <1>4 DEF MemoryStep, MemoryPcs, BeginMemory, Pc

LEMMA ReadDefaultStep ==
  ASSUME TypeOK, MemInv, NEW c \in Calls, ReadDefault(c)
  PROVE  \E r \in CallRecord : MemoryStep(c, r)
<1>1. UNCHANGED memVars /\ Pc(c) = "default"
  BY DEF ReadDefault, Pc
<1>2. CASE End(c, "refused")
  BY <1>1, <1>2, EndStep DEF MemoryPcs
<1>3. CASE ~End(c, "refused")
  <2> DEFINE r == [calls[c] EXCEPT !.pc = "resolve", !.session = defaultSessionID]
  <2>1. calls[c] \in CallRecord /\ calls' = [calls EXCEPT ![c] = r] /\ defaultSessionID \in Sessions
    BY <1>3 DEF ReadDefault, TypeOK, Given
  <2>2. r \in CallRecord
    BY <2>1 DEF CallRecord, Pcs, Given
  <2>3. /\ r.pc = "resolve" /\ r.session = defaultSessionID /\ r.op = calls[c].op
        /\ r.known = calls[c].known /\ r.found = calls[c].found /\ r.tiers = calls[c].tiers
    BY <2>1 DEF CallRecord
  <2>4. /\ calls[c].op \in {"add", "search"} /\ calls[c].found = {} /\ calls[c].tiers = 0
        /\ \A i \in calls[c].known : Pc(i) = "added"
    BY <1>1 DEF MemInv, CallInv, CallOK, SearchInv, SearchOK, Pc
  <2>5. CallOK(r) /\ SearchOK(r) /\ AnswerOK(r)
    BY <2>1, <2>3, <2>4 DEF CallOK, SearchOK, AnswerOK
  <2> QED
    BY <1>1, <2>1, <2>2, <2>3, <2>5 DEF MemoryStep, MemoryPcs
<1> QED
  BY <1>2, <1>3

LEMMA ResolveStep ==
  ASSUME TypeOK, MemInv, NEW c \in Calls, ResolveManager(c)
  PROVE  \E r \in CallRecord : MemoryStep(c, r)
<1>1. UNCHANGED memVars /\ Pc(c) = "resolve"
  BY DEF ResolveManager, Pc
<1>2. CASE End(c, "refused")
  BY <1>1, <1>2, EndStep DEF MemoryPcs
<1>3. CASE ~End(c, "refused")
  <2> DEFINE s == calls[c].session
             r == [calls[c] EXCEPT !.pc = calls[c].op, !.on = managers[s]]
  <2>1. calls[c] \in CallRecord /\ calls' = [calls EXCEPT ![c] = r] /\ HasSessionID(s)
    BY <1>3 DEF ResolveManager, TypeOK
  <2>2. /\ calls[c].op \in {"add", "search"} /\ calls[c].found = {} /\ calls[c].tiers = 0
        /\ \A i \in calls[c].known : Pc(i) = "added"
    BY <1>1 DEF MemInv, CallInv, CallOK, SearchInv, SearchOK, Pc
  <2>3. managers[s] \in Nat /\ managers[s] \in DOMAIN made /\ made[managers[s]].session = s
    BY <2>1 DEF HasSessionID, MemInv, StoreInv, TypeOK
  <2>4. r \in CallRecord
    BY <2>1, <2>2, <2>3 DEF CallRecord, Pcs
  <2>5. /\ r.pc = calls[c].op /\ r.session = s /\ r.on = managers[s]
        /\ r.known = calls[c].known /\ r.found = calls[c].found /\ r.tiers = calls[c].tiers
    BY <2>1 DEF CallRecord
  <2> HIDE DEF s, r
  <2>6. CallOK(r)
    BY <2>1, <2>2, <2>3, <2>5 DEF CallOK, HasSessionID
  <2>7. SearchOK(r) /\ AnswerOK(r)
    BY <2>2, <2>5 DEF SearchOK, AnswerOK
  <2> QED
    BY <1>1, <2>1, <2>2, <2>4, <2>5, <2>6, <2>7 DEF MemoryStep, MemoryPcs
<1> QED
  BY <1>2, <1>3

(* After the first tier the answer holds, or an episode does, what was known when   *)
(* the search began; after the second the answer holds it.                          *)
LEMMA SearchTierStep ==
  ASSUME TypeOK, MemInv, NEW c \in Calls, SearchTier(c)
  PROVE  \E r \in CallRecord : MemoryStep(c, r)
<1> DEFINE s == calls[c].session
           k == calls[c].on
           n == calls[c].tiers + 1
           hits == Hits(k, Types[n])
           r == [calls[c] EXCEPT !.found = @ \cup hits, !.tiers = n,
                                 !.pc = IF n = Len(Types) THEN "answered" ELSE @]
<1>1. /\ calls[c] \in CallRecord /\ calls' = [calls EXCEPT ![c] = r] /\ UNCHANGED memVars
      /\ Pc(c) = "search"
  BY DEF SearchTier, TypeOK, Pc
<1>2. CallOK(calls[c]) /\ SearchOK(calls[c])
  BY DEF MemInv, CallInv, SearchInv
<1>3. /\ s \in Sessions /\ k \in DOMAIN made /\ made[k].session = s
      /\ s \notin dropped => managers[s] = k
  BY <1>1, <1>2 DEF CallOK, Pc
<1>4. /\ n \in {1, 2} /\ n - 1 = calls[c].tiers
      /\ \A i \in calls[c].found : Own(i, s)
      /\ \A i \in calls[c].known : Pc(i) = "added"
      /\ n = 2 /\ s \notin dropped => \A i \in calls[c].known : Own(i, s) => Passed(calls[c], i)
  BY <1>1, <1>2 DEF SearchOK, Pc
<1>5. Types[1] = "working" /\ Types[2] = "episodic" /\ Len(Types) = 2
  BY DEF Types
<1>6. /\ hits \subseteq Calls
      /\ n = 1 => hits = made[k].working
      /\ n = 2 => hits = {e[2] : e \in {x \in episodes : x[1] = s}}
  BY <1>3, <1>4, <1>5, HitsType DEF Hits
<1>7. \A i \in hits : Own(i, s)
  BY <1>3, <1>4, <1>6 DEF MemInv, StoreInv
<1>8. /\ r.pc = (IF n = 2 THEN "answered" ELSE "search") /\ r.session = s /\ r.on = k
      /\ r.known = calls[c].known /\ r.found = calls[c].found \cup hits /\ r.tiers = n
      /\ r.op = calls[c].op
  BY <1>1, <1>5 DEF CallRecord, Pc
<1>9. r \in CallRecord
  <2>1. n \in Nat /\ calls[c].found \cup hits \subseteq Calls
    BY <1>1, <1>4, <1>6 DEF CallRecord
  <2> HIDE DEF n, hits
  <2> QED
    BY <1>1, <2>1 DEF CallRecord, Pcs
<1> HIDE DEF r, n, hits
<1>10. CallOK(r)
  BY <1>3, <1>8 DEF CallOK
<1>11. ASSUME n = 1, s \notin dropped, NEW i \in calls[c].known, Own(i, s)
       PROVE  Passed(r, i)
  <2>1. i \in Calls /\ calls[i].session = s /\ Pc(i) = "added"
    BY <1>1, <1>11 DEF Own, CallRecord
  <2>2. Recallable(i)
    BY <2>1 DEF MemInv, KeptInv
  <2> QED
    BY <1>3, <1>6, <1>8, <1>11, <2>1, <2>2 DEF Recallable, Passed
<1>12. SearchOK(r)
  BY <1>4, <1>7, <1>8, <1>11 DEF SearchOK
<1>13. AnswerOK(r)
  <2> SUFFICES ASSUME r.pc = "answered", NEW i \in r.known, calls[i].session = s, s \notin dropped
               PROVE  i \in r.found
    BY <1>8 DEF AnswerOK
  <2>1. n = 2 /\ Own(i, s)
    BY <1>4, <1>8 DEF Own
  <2>2. Passed(calls[c], i)
    BY <1>4, <1>8, <2>1
  <2>3. <<s, i>> \in episodes => i \in hits
    BY <1>6, <2>1
  <2> QED
    BY <1>8, <2>2, <2>3 DEF Passed
<1> QED
  BY <1>1, <1>8, <1>9, <1>10, <1>12, <1>13 DEF MemoryStep, MemoryPcs
-----------------------------------------------------------------------------------
(* What a step of a call leaves of the invariants of the memory tool: the memories   *)
(* that were added do not change.                                                    *)
LEMMA CallStepKeeps ==
  ASSUME TypeOK, MemInv, NEW c \in Calls, NEW r \in CallRecord, calls' = [calls EXCEPT ![c] = r],
         UNCHANGED memVars, Pc(c) # "added", r.pc # "added", CallOK(r), SearchOK(r), AnswerOK(r)
  PROVE  MemInv'
<1>1. \A d \in Calls : calls'[d] = IF d = c THEN r ELSE calls[d]
  BY DEF TypeOK
<1>2. \A i \in Calls : /\ calls'[i].pc = "added" <=> calls[i].pc = "added"
                       /\ calls[i].pc = "added" => calls'[i] = calls[i]
  <2> TAKE i \in Calls
  <2>1. CASE i = c
    BY <1>1, <2>1 DEF Pc
  <2>2. CASE i # c
    BY <1>1, <2>2
  <2> QED
    BY <2>1, <2>2
<1>3. ASSUME NEW i \in Calls, NEW s
      PROVE  Own(i, s)' <=> Own(i, s)
  BY <1>2 DEF Own, Pc
<1>4. StoreInv'
  <2>1. \A k \in DOMAIN made : made[k].working \subseteq Calls
    BY MadeFacts DEF TypeOK, Manager
  <2>2. \A e \in episodes : e[2] \in Calls
    BY DEF TypeOK
  <2> QED
    BY <1>3, <2>1, <2>2 DEF StoreInv, MemInv, memVars
<1>5. \A q \in CallRecord : CallOK(q) => CallOK(q)'
  BY DEF CallOK, memVars
<1>6. CallInv'
  BY <1>1, <1>5 DEF CallInv, MemInv, TypeOK
<1>7. KeptInv'
  BY <1>2 DEF KeptInv, Recallable, MemInv, memVars, Pc
<1>8. \A q \in CallRecord : SearchOK(q) => SearchOK(q)'
  <2> SUFFICES ASSUME NEW q \in CallRecord, SearchOK(q) PROVE SearchOK(q)'
    OBVIOUS
  <2>1. q.found \subseteq Calls /\ q.known \subseteq Calls
    BY DEF CallRecord
  <2> QED
    BY <1>2, <1>3, <2>1 DEF SearchOK, Passed, memVars, Pc
<1>9. SearchInv'
  BY <1>1, <1>8 DEF SearchInv, MemInv, TypeOK
<1>10. \A q \in CallRecord : SearchOK(q) /\ AnswerOK(q) => AnswerOK(q)'
  <2> SUFFICES ASSUME NEW q \in CallRecord, SearchOK(q), AnswerOK(q) PROVE AnswerOK(q)'
    OBVIOUS
  <2>1. \A i \in q.known : calls'[i] = calls[i]
    BY <1>2 DEF SearchOK, CallRecord, Pc
  <2> QED
    BY <2>1 DEF AnswerOK, memVars
<1>11. AddedIsRecalled'
  <2>1. \A d \in Calls : AnswerOK(calls[d])
    BY DEF MemInv, AddedIsRecalled, AnswerOK
  <2>2. \A d \in Calls : AnswerOK(calls[d])'
    BY <1>1, <1>10, <2>1 DEF SearchInv, MemInv, TypeOK
  <2> QED
    BY <2>2 DEF AddedIsRecalled, AnswerOK
<1> QED
  BY <1>4, <1>6, <1>7, <1>9, <1>11 DEF MemInv

LEMMA MemoryFrame ==
  ASSUME MemInv, UNCHANGED <<calls, memVars>>
  PROVE  MemInv'
BY DEF MemInv, StoreInv, CallInv, CallOK, KeptInv, Recallable, SearchInv, SearchOK, Passed, Own, Pc,
       AddedIsRecalled, memVars

(* The registered manager of a session that had none holds nothing: what was added  *)
(* for it is in episodes, or the session was removed.                               *)
LEMMA RegisterKeeps ==
  ASSUME TypeOK, MemInv, NEW s \in Sessions, managers[s] = 0, Register(s), UNCHANGED calls
  PROVE  MemInv'
<1> DEFINE m == [session |-> s, working |-> {}]
           n == Len(made) + 1
<1>1. m \in Manager /\ made' = Append(made, m)
  BY DEF Manager, Register
<1>2. /\ made'[n] = m /\ DOMAIN made' = DOMAIN made \cup {n}
      /\ \A k \in DOMAIN made : made'[k] = made[k] /\ k # 0
      /\ n \notin DOMAIN made /\ n # 0
  <2> HIDE DEF m
  <2>1. DOMAIN made = 1..Len(made) /\ Len(made) \in Nat
    BY MadeFacts DEF TypeOK
  <2> QED
    BY <1>1, <2>1, Appended DEF TypeOK
<1>3. /\ managers' = [managers EXCEPT ![s] = n] /\ UNCHANGED <<episodes, dropped>>
      /\ managers \in [Sessions -> Nat]
  BY DEF Register, TypeOK
<1>4. m.session = s /\ m.working = {}
  OBVIOUS
<1> HIDE DEF m, n
<1>5. StoreInv'
  BY <1>2, <1>3, <1>4 DEF StoreInv, MemInv, Own, Pc
<1>6. CallInv'
  BY <1>2, <1>3, <1>4 DEF CallInv, CallOK, MemInv
<1>7. KeptInv'
  BY <1>2, <1>3 DEF KeptInv, Recallable, MemInv, Pc, CallInv, CallOK, StoreInv
<1>8. SearchInv' /\ AddedIsRecalled'
  BY <1>3 DEF SearchInv, SearchOK, Passed, MemInv, Own, Pc, AddedIsRecalled
<1> QED
  BY <1>5, <1>6, <1>7, <1>8 DEF MemInv

LEMMA RemoveKeeps ==
  ASSUME TypeOK, MemInv, NEW s \in Sessions, RemoveSession(s), UNCHANGED calls
  PROVE  MemInv'
<1>1. /\ managers' = [managers EXCEPT ![s] = 0] /\ UNCHANGED <<made, episodes>>
      /\ dropped' = dropped \cup {s} /\ managers \in [Sessions -> Nat]
  BY DEF RemoveSession, TypeOK
<1>2. StoreInv'
  BY <1>1 DEF StoreInv, MemInv, Own, Pc
<1>3. CallInv'
  BY <1>1 DEF CallInv, CallOK, MemInv
<1>4. KeptInv'
  BY <1>1 DEF KeptInv, Recallable, MemInv, Pc, CallInv, CallOK
<1>5. SearchInv' /\ AddedIsRecalled'
  BY <1>1 DEF SearchInv, SearchOK, Passed, MemInv, Own, Pc, AddedIsRecalled
<1> QED
  BY <1>2, <1>3, <1>4, <1>5 DEF MemInv

LEMMA UseKeeps ==
  ASSUME MemInv, NEW s \in Sessions, UseSession(s), UNCHANGED calls
  PROVE  MemInv'
BY DEF UseSession, MemInv, StoreInv, CallInv, CallOK, KeptInv, Recallable, SearchInv, SearchOK, Passed,
       Own, Pc, AddedIsRecalled

(* A compression moves memories to an episode of their session.                     *)
LEMMA CompressKeeps ==
  ASSUME TypeOK, MemInv, NEW k \in DOMAIN made, Compress(k)
  PROVE  MemInv'
<1>1. PICK batch \in SUBSET made[k].working :
        /\ made' = [made EXCEPT ![k].working = @ \ batch]
        /\ episodes' = episodes \cup {<<made[k].session, i>> : i \in batch}
        /\ UNCHANGED <<calls, managers, defaultSessionID, dropped>>
  BY DEF Compress
<1>2. made[k] \in Manager /\ \A j \in DOMAIN made : made[j] \in Manager
  BY MadeFacts DEF TypeOK
<1>3. /\ DOMAIN made' = DOMAIN made
      /\ \A j \in DOMAIN made : /\ made'[j].session = made[j].session
                                /\ made'[j].working = IF j = k THEN made[k].working \ batch
                                                      ELSE made[j].working
  BY <1>1, <1>2 DEF Manager
<1>4. StoreInv'
  BY <1>1, <1>3 DEF StoreInv, MemInv, Own, Pc
<1>5. CallInv'
  BY <1>1, <1>3 DEF CallInv, CallOK, MemInv
<1>6. KeptInv'
  BY <1>1, <1>3 DEF KeptInv, Recallable, MemInv, Pc, CallInv, CallOK, StoreInv
<1>7. SearchInv' /\ AddedIsRecalled'
  BY <1>1 DEF SearchInv, SearchOK, Passed, MemInv, Own, Pc, AddedIsRecalled
<1> QED
  BY <1>4, <1>5, <1>6, <1>7 DEF MemInv

(* An added memory is in its manager's working memory, which is the registered one   *)
(* unless the session was removed.                                                   *)
LEMMA RunAddKeeps ==
  ASSUME TypeOK, MemInv, NEW c \in Calls, RunAdd(c)
  PROVE  MemInv'
<1>0. PICK s, k : s = calls[c].session /\ k = calls[c].on
  OBVIOUS
<1>1. /\ Pc(c) = "add" /\ calls' = [calls EXCEPT ![c].pc = "added"] /\ calls \in [Calls -> CallRecord]
      /\ made' = [made EXCEPT ![k].working = @ \cup {c}]
      /\ UNCHANGED <<managers, defaultSessionID, episodes, dropped>>
  BY <1>0 DEF RunAdd, To, Pc, TypeOK
<1>2. /\ s \in Sessions /\ k \in DOMAIN made /\ made[k].session = s
      /\ s \notin dropped => managers[s] = k
  BY <1>0, <1>1 DEF MemInv, CallInv, CallOK, Pc
<1>3. /\ DOMAIN made' = DOMAIN made
      /\ \A j \in DOMAIN made : /\ made'[j].session = made[j].session
                                /\ made'[j].working = IF j = k THEN made[k].working \cup {c}
                                                      ELSE made[j].working
  <2>1. \A j \in DOMAIN made : made[j] \in Manager
    BY MadeFacts DEF TypeOK
  <2> QED
    BY <1>1, <1>2, <2>1 DEF Manager
<1>4. /\ \A d \in Calls \ {c} : calls'[d] = calls[d]
      /\ calls'[c].pc = "added" /\ calls'[c].session = s
      /\ calls'[c].found = calls[c].found /\ calls'[c].known = calls[c].known
  BY <1>0, <1>1 DEF CallRecord
<1>5. \A i \in Calls : /\ calls[i].pc = "added" => calls'[i] = calls[i]
                       /\ calls'[i].pc = "added" => calls[i].pc = "added" \/ i = c
  BY <1>1, <1>4 DEF Pc
<1>6. ASSUME NEW i \in Calls, NEW t
      PROVE  /\ Own(i, t) => Own(i, t)'
             /\ Own(i, t)' => Own(i, t) \/ (i = c /\ t = s)
  BY <1>4, <1>5 DEF Own, Pc
<1>7. Own(c, s)'
  BY <1>4 DEF Own, Pc
<1>8. StoreInv'
  <2>1. \A j \in DOMAIN made : made[j].working \subseteq Calls
    BY MadeFacts DEF TypeOK, Manager
  <2>2. \A x \in episodes : x[2] \in Calls
    BY DEF TypeOK
  <2> QED
    BY <1>1, <1>2, <1>3, <1>6, <1>7, <2>1, <2>2 DEF StoreInv, MemInv
<1>9. CallInv'
  <2>1. \A d \in Calls \ {c} : CallOK(calls[d])'
    BY <1>1, <1>3, <1>4 DEF MemInv, CallInv, CallOK
  <2>2. CallOK(calls[c])'
    BY <1>2, <1>4 DEF CallOK
  <2> QED
    BY <2>1, <2>2 DEF CallInv
<1>10. KeptInv'
  <2> SUFFICES ASSUME NEW i \in Calls, calls'[i].pc = "added"
               PROVE  Recallable(i)'
    BY DEF KeptInv, Pc
  <2>1. CASE i = c
    <3>1. CASE s \in dropped
      BY <1>1, <1>4, <2>1, <3>1 DEF Recallable
    <3>2. CASE s \notin dropped
      <4>1. managers[s] = k /\ k # 0
        BY <1>2, <3>2, MadeFacts DEF TypeOK
      <4>2. c \in made'[k].working
        BY <1>2, <1>3
      <4> QED
        BY <1>1, <1>4, <2>1, <4>1, <4>2 DEF Recallable
    <3> QED
      BY <3>1, <3>2
  <2>2. CASE i # c
    <3>1. Recallable(i) /\ calls'[i] = calls[i]
      BY <1>5, <2>2 DEF MemInv, KeptInv, Pc
    <3>2. calls[i].session \in Sessions
      BY <1>5, <2>2 DEF MemInv, CallInv, CallOK
    <3> QED
      BY <1>1, <1>3, <3>1, <3>2 DEF Recallable, MemInv, StoreInv
  <2> QED
    BY <2>1, <2>2
<1>11. SearchInv'
  <2>1. calls[c].found = {} /\ \A i \in calls[c].known : calls[i].pc = "added" /\ i \in Calls
    BY <1>1 DEF MemInv, SearchInv, SearchOK, Pc, CallRecord
  <2>2. SearchOK(calls[c])'
    BY <1>4, <1>5, <2>1 DEF SearchOK, Pc
  <2>3. ASSUME NEW d \in Calls \ {c} PROVE SearchOK(calls[d])'
    <3>0. PICK r : r = calls[d]
      OBVIOUS
    <3>1. /\ SearchOK(r) /\ r \in CallRecord /\ calls'[d] = r
          /\ r.found \subseteq Calls /\ r.known \subseteq Calls
      BY <1>1, <1>4, <3>0 DEF MemInv, SearchInv, CallRecord
    <3>2. c \notin r.known
      BY <1>1, <3>1 DEF SearchOK
    <3>3. \A i \in r.known : Own(i, r.session)' => Own(i, r.session)
      BY <1>6, <3>1, <3>2
    <3>4. SearchOK(r)'
      BY <1>1, <1>5, <1>6, <3>1, <3>3 DEF SearchOK, Passed, Pc
    <3> QED
      BY <3>1, <3>4
  <2> QED
    BY <2>2, <2>3 DEF SearchInv
<1>12. AddedIsRecalled'
  <2> SUFFICES ASSUME NEW d \in Calls, calls'[d].pc = "answered", NEW i \in calls'[d].known,
                      calls'[i].session = calls'[d].session
               PROVE  i \in calls'[d].found \/ calls'[d].session \in dropped'
    BY DEF AddedIsRecalled
  <2>1. d # c /\ calls'[d] = calls[d] /\ i \in Calls /\ calls[i].pc = "added"
    BY <1>1, <1>4 DEF MemInv, SearchInv, SearchOK, CallRecord, Pc
  <2> QED
    BY <1>1, <1>5, <2>1 DEF MemInv, AddedIsRecalled
<1> QED
  BY <1>8, <1>9, <1>10, <1>11, <1>12 DEF MemInv
-----------------------------------------------------------------------------------
(* Steps that leave the assignments under way alone.                                *)
Quiet == \A c \in Calls : \/ calls'[c] = calls[c]
                          \/ calls[c].pc \notin {"text", "len"} /\ calls'[c].pc \notin {"text", "len"}

LEMMA QuietAssigning ==
  ASSUME Quiet, NEW o
  PROVE  /\ Assigning(o)' = Assigning(o)
         /\ \A c \in Assigning(o) : calls'[c] = calls[c]
BY DEF Quiet, Assigning

LEMMA QuietStep ==
  ASSUME NEW c \in Calls, NEW r \in CallRecord, calls \in [Calls -> CallRecord],
         calls' = [calls EXCEPT ![c] = r],
         Pc(c) \notin {"text", "len"}, r.pc \notin {"text", "len"}
  PROVE  Quiet
<1> SUFFICES ASSUME NEW d \in Calls
             PROVE  \/ calls'[d] = calls[d]
                    \/ calls[d].pc \notin {"text", "len"} /\ calls'[d].pc \notin {"text", "len"}
  BY DEF Quiet
<1>1. CASE d = c
  BY <1>1 DEF Pc
<1>2. CASE d # c
  BY <1>2
<1> QED
  BY <1>1, <1>2

LEMMA QuietDirs ==
  ASSUME DirInv, Quiet, UNCHANGED dirs
  PROVE  DirInv'
<1> SUFFICES ASSUME NEW o \in DOMAIN dirs PROVE DirOK(o)'
  BY DEF DirInv
<1>1. Assigning(o)' = Assigning(o) /\ \A c \in Assigning(o) : calls'[c] = calls[c]
  BY QuietAssigning
<1>2. DirOK(o)
  BY DEF DirInv
<1> QED
  BY <1>1, <1>2 DEF DirOK, Pc

(* A session that is opened begins with a directory of the configuration.           *)
LEMMA OpenKeeps ==
  ASSUME TypeOK, TermInv, Quiet, NEW s \in TerminalIDs, NEW dir \in {InitDir, Getwd}, Open(s, dir)
  PROVE  /\ DirInv' /\ SessionInv'
         /\ dirs' \in Seq(Directory) /\ sessions' \in [TerminalIDs -> Nat]
         /\ Len(dirs') = Len(dirs) + 1 /\ DOMAIN dirs' = DOMAIN dirs \cup {Len(dirs) + 1}
<1> DEFINE n == Len(dirs) + 1
           d == Session(dir)
<1>1. dir \in Paths
  BY PathFacts
<1>2. /\ d \in Directory /\ dirs' = Append(dirs, d)
      /\ d.text = dir /\ d.len = Len(dir)
  BY <1>1, SessionType DEF Open, Session
<1> HIDE DEF d
<1>3. /\ dirs' \in Seq(Directory) /\ Len(dirs') = n /\ dirs'[n] = d
      /\ DOMAIN dirs' = DOMAIN dirs \cup {n} /\ n \notin DOMAIN dirs
      /\ \A o \in DOMAIN dirs : dirs'[o] = dirs[o]
  BY <1>2, Appended DEF TypeOK
<1>4. /\ sessions' = [sessions EXCEPT ![s] = n] /\ sessions \in [TerminalIDs -> Nat]
      /\ Len(dirs) \in Nat
  BY DirsFacts DEF Open, TypeOK
<1>5. SessionInv'
  BY <1>3, <1>4 DEF SessionInv, TermInv
<1>6. ASSUME NEW o \in DOMAIN dirs PROVE DirOK(o)'
  <2>1. Assigning(o)' = Assigning(o) /\ \A c \in Assigning(o) : calls'[c] = calls[c]
    BY QuietAssigning
  <2>2. DirOK(o)
    BY DEF TermInv, DirInv
  <2> QED
    BY <1>3, <2>1, <2>2 DEF DirOK, Pc
<1>7. PICK m : m = n
  OBVIOUS
<1>8. DirOK(m)'
  <2>1. Assigning(m)' = Assigning(m)
    BY QuietAssigning
  <2>2. Assigning(m) = {}
    BY <1>3, <1>7 DEF Assigning, TermInv, WorkInv, WorkOK
  <2> QED
    BY <1>2, <1>3, <1>7, <2>1, <2>2 DEF DirOK, Good
<1>9. DirInv'
  BY <1>3, <1>6, <1>7, <1>8 DEF DirInv
<1> QED
  BY <1>3, <1>4, <1>5, <1>9

(* An assignment that no other overlaps leaves the directory the call checked; its   *)
(* first word leaves the other to come.                                              *)
LEMMA AssignKeeps ==
  ASSUME TypeOK, TermInv, NEW c \in Calls, Assign(c)
  PROVE  /\ DirInv' /\ SessionInv' /\ dirs' \in Seq(Directory)
         /\ Len(dirs') = Len(dirs) /\ DOMAIN dirs' = DOMAIN dirs /\ UNCHANGED sessions
         /\ \E r \in CallRecord :
              /\ calls' = [calls EXCEPT ![c] = r] /\ WorkOK(r)
              /\ r.found = calls[c].found \/ r.found = {}
              /\ r.known = calls[c].known \/ r.known = {}
              /\ r.pc \in {"text", "len", "changed"}
<1>0. PICK o, d : o = calls[c].on /\ d = calls[c].dir
  OBVIOUS
<1>1. /\ calls \in [Calls -> CallRecord] /\ calls[c] \in CallRecord
      /\ Pc(c) \in {"assign", "text", "len"} /\ UNCHANGED <<sessions, defaultID>>
      /\ dirs \in Seq(Directory)
  BY DEF Assign, TypeOK, Pc
<1>2. /\ o \in DOMAIN dirs /\ Inside(d) /\ d \in Dirs
      /\ d \in Paths /\ Len(d) \in Nat
  <2>1. WorkOK(calls[c])
    BY DEF TermInv, WorkInv
  <2>2. o \in DOMAIN dirs /\ Inside(d) /\ d \in Dirs
    BY <1>0, <1>1, <2>1 DEF WorkOK, Pc
  <2> QED
    BY <2>2, PathFacts, LenProperties DEF Paths
<1>3. PICK word \in IF calls[c].pc = "assign" THEN {"text", "len"} ELSE {calls[c].pc} :
        /\ dirs' = [dirs EXCEPT ![o].text = IF word = "text" THEN d ELSE @,
                                ![o].len = IF word = "len" THEN Len(d) ELSE @,
                                ![o].single = @ /\ Assigning(o) \subseteq {c}]
        /\ IF calls[c].pc = word THEN End(c, "changed")
           ELSE To(c, IF word = "text" THEN "len" ELSE "text")
  BY <1>0 DEF Assign, Checked
<1>4. dirs[o] \in Directory /\ DOMAIN dirs = 1..Len(dirs) /\ Len(dirs) \in Nat
  BY <1>1, <1>2, DirsFacts
<1>5. PICK e : e = [dirs[o] EXCEPT !.text = IF word = "text" THEN d ELSE @,
                                   !.len = IF word = "len" THEN Len(d) ELSE @,
                                   !.single = @ /\ Assigning(o) \subseteq {c}]
  OBVIOUS
<1>6. /\ e \in Directory
      /\ e.text = (IF word = "text" THEN d ELSE dirs[o].text)
      /\ e.len = (IF word = "len" THEN Len(d) ELSE dirs[o].len)
      /\ e.single <=> (dirs[o].single /\ Assigning(o) \subseteq {c})
  BY <1>2, <1>4, <1>5 DEF Directory
<1>7. dirs' = [dirs EXCEPT ![o] = e]
  BY <1>1, <1>2, <1>3, <1>4, <1>5
<1>8. /\ dirs' \in Seq(Directory) /\ Len(dirs') = Len(dirs) /\ DOMAIN dirs' = DOMAIN dirs
      /\ dirs'[o] = e /\ \A p \in DOMAIN dirs \ {o} : dirs'[p] = dirs[p]
  BY <1>1, <1>2, <1>4, <1>6, <1>7, ExceptSeq, LenProperties
<1>9. PICK r : r = IF calls[c].pc = word THEN [Idle EXCEPT !.pc = "changed"]
                   ELSE [calls[c] EXCEPT !.pc = IF word = "text" THEN "len" ELSE "text"]
  OBVIOUS
<1>10. calls' = [calls EXCEPT ![c] = r]
  BY <1>1, <1>3, <1>9 DEF End, To
<1>11. /\ calls[c].pc = word => r.pc = "changed" /\ r.found = {} /\ r.known = {}
       /\ calls[c].pc # word => /\ r.pc = (IF word = "text" THEN "len" ELSE "text")
                                /\ r.on = o /\ r.dir = d
                                /\ r.found = calls[c].found /\ r.known = calls[c].known
       /\ r \in CallRecord
  <2>1. CASE calls[c].pc = word
    BY <1>9, <2>1, IdleType DEF Idle, CallRecord, Pcs
  <2>2. CASE calls[c].pc # word
    BY <1>0, <1>1, <1>9, <2>2 DEF CallRecord, Pcs
  <2> QED
    BY <2>1, <2>2
<1>12. /\ word \in {"text", "len"}
       /\ calls[c].pc # word => calls[c].pc = "assign"
  BY <1>1, <1>3 DEF Pc
<1>13. WorkOK(r)
  BY <1>2, <1>11, <1>12 DEF WorkOK
<1>14. \A x \in Calls : calls'[x] = IF x = c THEN r ELSE calls[x]
  BY <1>1, <1>10
<1>15. DirOK(o)'
  <2> SUFFICES ASSUME dirs'[o].single
               PROVE  DirOK(o)'
    BY DEF DirOK
  <2>1. dirs[o].single /\ Assigning(o) \subseteq {c} /\ DirOK(o)
    BY <1>2, <1>6, <1>8 DEF TermInv, DirInv
  <2>2. CASE calls[c].pc = word
    <3>1. Assigning(o)' = {}
      BY <1>11, <1>14, <2>1, <2>2 DEF Assigning
    <3>2. c \in Assigning(o)
      BY <1>0, <1>12, <2>2 DEF Assigning
    <3>3. e.text = d /\ e.len = Len(d)
      BY <1>0, <1>6, <1>12, <2>1, <2>2, <3>2 DEF DirOK, Pc
    <3>4. Good(d)
      BY <1>2 DEF Good
    <3> QED
      BY <1>8, <3>1, <3>3, <3>4 DEF DirOK, Good
  <2>3. CASE calls[c].pc # word
    <3>1. Assigning(o)' = {c}
      BY <1>11, <1>12, <1>14, <2>1, <2>3 DEF Assigning
    <3>2. calls'[c] = r
      BY <1>14
    <3> QED
      BY <1>6, <1>8, <1>11, <1>12, <2>3, <3>1, <3>2 DEF DirOK, Pc
  <2> QED
    BY <2>2, <2>3
<1>16. ASSUME NEW p \in DOMAIN dirs \ {o} PROVE DirOK(p)'
  <2>1. c \notin Assigning(p) /\ c \notin Assigning(p)'
    BY <1>0, <1>11, <1>14, <1>16 DEF Assigning
  <2>2. Assigning(p)' = Assigning(p)
    BY <1>14, <2>1 DEF Assigning
  <2>3. DirOK(p)
    BY DEF TermInv, DirInv
  <2>4. \A x \in Assigning(p) : calls'[x] = calls[x]
    BY <1>14, <2>1 DEF Assigning
  <2> QED
    BY <1>8, <2>2, <2>3, <2>4 DEF DirOK, Pc
<1>17. DirInv' /\ SessionInv'
  BY <1>1, <1>8, <1>15, <1>16 DEF DirInv, SessionInv, TermInv
<1> QED
  BY <1>1, <1>8, <1>10, <1>11, <1>12, <1>13, <1>17
-----------------------------------------------------------------------------------
(* What a step of a call that does not assign leaves of the directories.            *)
LEMMA WorkStep ==
  ASSUME TypeOK, TermInv, NEW c \in Calls, NEW r \in CallRecord, calls' = [calls EXCEPT ![c] = r],
         DOMAIN dirs \subseteq DOMAIN dirs', WorkOK(r)'
  PROVE  WorkInv'
<1> SUFFICES ASSUME NEW x \in Calls PROVE WorkOK(calls[x])'
  BY DEF WorkInv
<1>1. CASE x = c
  BY <1>1 DEF TypeOK
<1>2. CASE x # c
  BY <1>2 DEF TypeOK, TermInv, WorkInv, WorkOK
<1> QED
  BY <1>1, <1>2

LEMMA CallTerm ==
  ASSUME TypeOK, TermInv, NEW c \in Calls, NEW r \in CallRecord, calls' = [calls EXCEPT ![c] = r],
         UNCHANGED termVars, Pc(c) \notin {"text", "len"}, r.pc \notin {"text", "len"}, WorkOK(r)
  PROVE  TermInv'
<1>1. UNCHANGED <<dirs, sessions>>
  BY DEF termVars
<1>2. DirInv'
  BY <1>1, QuietStep, QuietDirs DEF TypeOK, TermInv
<1>3. WorkInv'
  BY <1>1, WorkStep DEF WorkOK
<1>4. SessionInv'
  BY <1>1 DEF SessionInv, TermInv
<1> QED
  BY <1>2, <1>3, <1>4 DEF TermInv

(* The directories while a call of the memory tool takes a step, and the memories   *)
(* while one of the terminal tool does.                                             *)
LEMMA TerminalCallKeeps ==
  ASSUME TypeOK, MemInv, NEW c \in Calls, NEW r \in CallRecord, calls' = [calls EXCEPT ![c] = r],
         UNCHANGED memVars, Pc(c) \in {"idle", "cd", "execute", "assign", "text", "len"},
         r.pc \in {"cd", "execute", "assign", "text", "len", "changed", "ran", "refused"},
         r.found = calls[c].found \/ r.found = {},
         r.known = calls[c].known \/ r.known = {}
  PROVE  MemInv'
<1>1. r.found = {} /\ \A i \in r.known : Pc(i) = "added"
  BY DEF MemInv, SearchInv, SearchOK, Pc
<1>2. CallOK(r) /\ SearchOK(r) /\ AnswerOK(r)
  BY <1>1 DEF CallOK, SearchOK, AnswerOK
<1> QED
  BY <1>2, CallStepKeeps

(* Agents that are about to open a session, while sessions are only closed or        *)
(* opened behind all there were.                                                     *)
LEMMA AgentKeeps ==
  ASSUME TypeOK, AgentInv, UNCHANGED agents, Len(dirs') \in Nat, Len(dirs') >= Len(dirs),
         \A s \in TerminalIDs : sessions'[s] \in {0, sessions[s], Len(dirs) + 1}
  PROVE  AgentInv'
<1> SUFFICES ASSUME NEW a \in Agents
             PROVE  /\ agents[a].pc \in {"terminal", "addTerminal"} => agents[a].session \in Sessions
                    /\ agents[a].pc = "addTerminal" =>
                         sessions'[agents[a].session] = 0 \/ agents[a].looked < sessions'[agents[a].session]
                    /\ agents[a].looked <= Len(dirs')
  BY DEF AgentInv
<1>1. agents[a].looked \in Nat /\ Len(dirs) \in Nat
  BY DirsFacts DEF TypeOK
<1>2. /\ agents[a].pc \in {"terminal", "addTerminal"} => agents[a].session \in Sessions
      /\ agents[a].pc = "addTerminal" =>
           sessions[agents[a].session] = 0 \/ agents[a].looked < sessions[agents[a].session]
      /\ agents[a].looked <= Len(dirs)
  BY DEF AgentInv
<1> QED
  BY <1>1, <1>2 DEF TerminalIDs
-----------------------------------------------------------------------------------
(* Each action keeps the invariant.                                                 *)
LEMMA MemoryRunKeeps ==
  ASSUME IInv, NEW c \in Calls, MemoryRun(c), UNCHANGED <<termVars, agents, operations>>
  PROVE  IInv'
<1>1. TypeOK /\ MemInv /\ TermInv /\ AgentInv
  BY DEF IInv
<1>2. AgentInv'
  BY <1>1, AgentKeeps, DirsFacts DEF termVars, TypeOK
<1>3. ASSUME NEW r \in CallRecord, MemoryStep(c, r) PROVE IInv'
  <2>1. TypeOK'
    BY <1>1, <1>3, CallTypes DEF MemoryStep
  <2>2. MemInv'
    BY <1>1, <1>3, CallStepKeeps DEF MemoryStep, MemoryPcs
  <2>3. TermInv'
    BY <1>1, <1>3, CallTerm DEF MemoryStep, MemoryPcs, WorkOK
  <2> QED
    BY <1>2, <2>1, <2>2, <2>3 DEF IInv
<1>4. CASE RunAdd(c)
  <2>1. MemInv'
    BY <1>1, <1>4, RunAddKeeps
  <2>2. PICK r : r = [calls[c] EXCEPT !.pc = "added"]
    OBVIOUS
  <2>3. /\ calls' = [calls EXCEPT ![c] = r] /\ r \in CallRecord /\ r.pc = "added" /\ Pc(c) = "add"
    <3>1. calls \in [Calls -> CallRecord] /\ calls[c] \in CallRecord
      BY <1>1 DEF TypeOK
    <3>2. r \in CallRecord /\ r.pc = "added"
      BY <2>2, <3>1 DEF CallRecord, Pcs
    <3>3. calls' = [calls EXCEPT ![c] = r] /\ Pc(c) = "add"
      BY <1>4, <2>2, <3>1 DEF RunAdd, To, Pc
    <3> QED
      BY <3>2, <3>3
  <2>4. TermInv'
    BY <1>1, <2>3, CallTerm DEF WorkOK
  <2>5. made' \in Seq(Manager)
    <3>1. PICK k, m : k = calls[c].on /\ m = [made[k] EXCEPT !.working = @ \cup {c}]
      OBVIOUS
    <3>2. k \in 1..Len(made) /\ made[k] \in Manager
      BY <1>1, <2>3, <3>1, MadeFacts DEF MemInv, CallInv, CallOK, TypeOK, Pc
    <3>3. m \in Manager /\ made' = [made EXCEPT ![k] = m]
      BY <1>4, <3>1, <3>2 DEF RunAdd, Manager
    <3> QED
      BY <1>1, <3>2, <3>3, ExceptSeq DEF TypeOK
  <2>6. TypeOK'
    BY <1>1, <1>4, <2>3, <2>5 DEF RunAdd, TypeOK, termVars
  <2> QED
    BY <1>2, <2>1, <2>4, <2>6 DEF IInv
<1>5. CASE BeginMemory(c)
  BY <1>3, <1>5, BeginMemoryStep
<1>6. CASE ReadDefault(c)
  BY <1>1, <1>3, <1>6, ReadDefaultStep
<1>7. CASE ResolveManager(c)
  BY <1>1, <1>3, <1>7, ResolveStep
<1>8. CASE SearchTier(c)
  BY <1>1, <1>3, <1>8, SearchTierStep
<1> QED
  BY <1>4, <1>5, <1>6, <1>7, <1>8 DEF MemoryRun

LEMMA BeginTerminalKeeps ==
  ASSUME IInv, NEW c \in Calls, BeginTerminal(c), UNCHANGED <<memVars, agents, operations>>
  PROVE  IInv'
<1>1. TypeOK /\ MemInv /\ TermInv /\ AgentInv /\ calls[c] \in CallRecord
  BY DEF IInv, TypeOK
<1>2. PICK given \in Given, cmd \in Targets \cup {"execute"} :
        LET s == IF given = NoSession THEN defaultID ELSE given IN
        /\ IF sessions[s] = 0 THEN Open(s, InitDir) ELSE UNCHANGED termVars
        /\ calls' = [calls EXCEPT ![c] = [Idle EXCEPT
             !.pc = IF cmd = "execute" THEN "execute" ELSE "cd", !.op = cmd, !.session = s,
             !.on = IF sessions[s] = 0 THEN Len(dirs) + 1 ELSE sessions[s]]]
  BY DEF BeginTerminal
<1>3. PICK s : s = IF given = NoSession THEN defaultID ELSE given
  OBVIOUS
<1>4. s \in TerminalIDs
  BY <1>1, <1>3 DEF TypeOK, Given, TerminalIDs
<1>5. PICK r : r = [Idle EXCEPT
             !.pc = IF cmd = "execute" THEN "execute" ELSE "cd", !.op = cmd, !.session = s,
             !.on = IF sessions[s] = 0 THEN Len(dirs) + 1 ELSE sessions[s]]
  OBVIOUS
<1>6. /\ sessions[s] \in Nat /\ Len(dirs) \in Nat /\ DOMAIN dirs = 1..Len(dirs)
      /\ sessions[s] \in 0..Len(dirs)
  BY <1>1, <1>4, DirsFacts DEF TypeOK, TermInv, SessionInv
<1>7. /\ r \in CallRecord /\ r.pc \in {"execute", "cd"} /\ r.found = {} /\ r.known = {}
      /\ r.on = (IF sessions[s] = 0 THEN Len(dirs) + 1 ELSE sessions[s])
  <2>1. /\ r.pc = (IF cmd = "execute" THEN "execute" ELSE "cd") /\ r.found = {} /\ r.known = {}
        /\ r.on = (IF sessions[s] = 0 THEN Len(dirs) + 1 ELSE sessions[s])
    BY <1>5 DEF Idle
  <2>2. r \in CallRecord
    <3>1. PICK n, pc : /\ n = IF sessions[s] = 0 THEN Len(dirs) + 1 ELSE sessions[s]
                       /\ pc = IF cmd = "execute" THEN "execute" ELSE "cd"
      OBVIOUS
    <3>2. n \in Nat /\ pc \in Pcs /\ cmd \in Ops /\ s \in Given \cup TerminalIDs
      BY <1>4, <1>6, <3>1 DEF Pcs, Ops
    <3>3. r = [Idle EXCEPT !.pc = pc, !.op = cmd, !.session = s, !.on = n]
      BY <1>5, <3>1
    <3> QED
      BY <3>2, <3>3, IdleType DEF CallRecord
  <2> QED
    BY <2>1, <2>2
<1>8. /\ IF sessions[s] = 0 THEN Open(s, InitDir) ELSE UNCHANGED termVars
      /\ calls' = [calls EXCEPT ![c] = r] /\ Pc(c) = "idle"
  BY <1>2, <1>3, <1>5 DEF BeginTerminal, Pc
<1>9. MemInv'
  BY <1>1, <1>7, <1>8, TerminalCallKeeps
<1>10. CASE sessions[s] = 0
  <2>1. Open(s, InitDir) /\ Quiet
    BY <1>1, <1>7, <1>8, <1>10, QuietStep DEF TypeOK
  <2>2. /\ DirInv' /\ SessionInv'
        /\ dirs' \in Seq(Directory) /\ sessions' \in [TerminalIDs -> Nat]
        /\ Len(dirs') = Len(dirs) + 1 /\ DOMAIN dirs' = DOMAIN dirs \cup {Len(dirs) + 1}
    BY <1>1, <1>4, <2>1, OpenKeeps
  <2>3. WorkOK(r)'
    BY <1>7, <1>10, <2>2 DEF WorkOK
  <2>4. TermInv'
    BY <1>1, <1>7, <1>8, <2>2, <2>3, WorkStep DEF TermInv
  <2>5. AgentInv'
    BY <1>1, <1>4, <1>6, <2>1, <2>2, AgentKeeps DEF Open, TypeOK
  <2>6. TypeOK'
    BY <1>1, <1>7, <1>8, <2>1, <2>2 DEF TypeOK, Open, memVars
  <2> QED
    BY <1>9, <2>4, <2>5, <2>6 DEF IInv
<1>11. CASE sessions[s] # 0
  <2>1. WorkOK(r)
    BY <1>6, <1>7, <1>11 DEF WorkOK
  <2>2. TermInv'
    BY <1>1, <1>7, <1>8, <1>11, <2>1, CallTerm
  <2>3. TypeOK'
    BY <1>1, <1>7, <1>8, <1>11, CallTypes
  <2>4. AgentInv'
    BY <1>1, <1>6, <1>8, <1>11, AgentKeeps DEF termVars
  <2> QED
    BY <1>9, <2>2, <2>3, <2>4 DEF IInv
<1> QED
  BY <1>10, <1>11

(* What all steps of a call that leave the directories alone have in common.        *)
LEMMA TerminalStepKeeps ==
  ASSUME IInv, NEW c \in Calls, NEW r \in CallRecord, calls' = [calls EXCEPT ![c] = r],
         UNCHANGED <<memVars, termVars, agents, operations>>,
         Pc(c) \in {"cd", "execute"}, r.pc \in {"assign", "ran", "refused"},
         r.found = calls[c].found \/ r.found = {},
         r.known = calls[c].known \/ r.known = {}, WorkOK(r)
  PROVE  IInv'
<1>1. TypeOK /\ MemInv /\ TermInv /\ AgentInv
  BY DEF IInv
<1>2. TypeOK' /\ TermInv'
  BY <1>1, CallTypes, CallTerm
<1>3. MemInv'
  BY <1>1, TerminalCallKeeps
<1>4. AgentInv'
  BY <1>1, AgentKeeps, DirsFacts DEF termVars, TypeOK
<1> QED
  BY <1>2, <1>3, <1>4 DEF IInv

LEMMA HandleCdKeeps ==
  ASSUME IInv, NEW c \in Calls, HandleCd(c), UNCHANGED <<memVars, agents, operations>>
  PROVE  IInv'
<1>1. /\ calls \in [Calls -> CallRecord] /\ calls[c] \in CallRecord
      /\ Pc(c) = "cd" /\ UNCHANGED termVars /\ calls[c].on \in DOMAIN dirs
  BY DEF IInv, TypeOK, HandleCd, Pc, TermInv, WorkInv, WorkOK
<1>2. PICK newDir : newDir = NewDir(calls[c].op, Read(calls[c].on))
  OBVIOUS
<1>3. CASE Inside(newDir) /\ newDir \in Dirs
  <2>1. PICK r : r = [calls[c] EXCEPT !.pc = "assign", !.dir = newDir]
    OBVIOUS
  <2>2. calls' = [calls EXCEPT ![c] = r]
    BY <1>1, <1>2, <1>3, <2>1 DEF HandleCd
  <2>3. /\ r \in CallRecord /\ r.pc = "assign" /\ r.dir = newDir /\ r.on = calls[c].on
        /\ r.found = calls[c].found /\ r.known = calls[c].known
    BY <1>1, <1>3, <2>1, PathFacts DEF CallRecord, Pcs
  <2> QED
    BY <1>1, <1>3, <2>2, <2>3, TerminalStepKeeps DEF WorkOK
<1>4. CASE ~(Inside(newDir) /\ newDir \in Dirs)
  <2>1. PICK r : r = [Idle EXCEPT !.pc = "refused"]
    OBVIOUS
  <2>2. calls' = [calls EXCEPT ![c] = r]
    BY <1>2, <1>4, <2>1 DEF HandleCd, End
  <2>3. r \in CallRecord /\ r.pc = "refused" /\ r.found = {} /\ r.known = {}
    BY <2>1, IdleType DEF Idle, CallRecord, Pcs
  <2> QED
    BY <1>1, <2>2, <2>3, TerminalStepKeeps DEF WorkOK
<1> QED
  BY <1>3, <1>4

LEMMA ExecuteKeeps ==
  ASSUME IInv, NEW c \in Calls, ExecuteCommand(c), UNCHANGED <<memVars, agents, operations>>
  PROVE  IInv'
<1>1. Pc(c) = "execute" /\ UNCHANGED termVars /\ calls[c].on \in DOMAIN dirs /\ dirs \in Seq(Directory)
  BY DEF IInv, TypeOK, ExecuteCommand, Pc, TermInv, WorkInv, WorkOK
<1>2. PICK p : p = Read(calls[c].on)
  OBVIOUS
<1>3. p \in Paths
  BY <1>1, <1>2, ReadType
<1>4. PICK r : r = [Idle EXCEPT !.pc = "ran", !.dir = p]
  OBVIOUS
<1>5. calls' = [calls EXCEPT ![c] = r]
  BY <1>2, <1>4 DEF ExecuteCommand
<1>6. r \in CallRecord /\ r.pc = "ran" /\ r.found = {} /\ r.known = {}
  BY <1>3, <1>4, IdleType DEF Idle, CallRecord, Pcs
<1> QED
  BY <1>1, <1>5, <1>6, TerminalStepKeeps DEF WorkOK

LEMMA AssignStepKeeps ==
  ASSUME IInv, NEW c \in Calls, Assign(c), UNCHANGED <<memVars, agents, operations>>
  PROVE  IInv'
<1>1. TypeOK /\ MemInv /\ TermInv /\ AgentInv /\ Len(dirs) \in Nat
  BY DirsFacts DEF IInv, TypeOK
<1>2. /\ DirInv' /\ SessionInv' /\ dirs' \in Seq(Directory)
      /\ Len(dirs') = Len(dirs) /\ DOMAIN dirs' = DOMAIN dirs /\ UNCHANGED <<sessions, defaultID>>
  BY <1>1, AssignKeeps DEF Assign
<1>3. PICK r \in CallRecord :
        /\ calls' = [calls EXCEPT ![c] = r] /\ WorkOK(r)
        /\ r.found = calls[c].found \/ r.found = {}
        /\ r.known = calls[c].known \/ r.known = {}
        /\ r.pc \in {"text", "len", "changed"}
  BY <1>1, AssignKeeps
<1>4. Pc(c) \in {"assign", "text", "len"}
  BY DEF Assign, Pc
<1>5. TermInv'
  BY <1>1, <1>2, <1>3, WorkStep DEF TermInv, WorkOK
<1>6. MemInv'
  BY <1>1, <1>3, <1>4, TerminalCallKeeps
<1>7. AgentInv'
  BY <1>1, <1>2, AgentKeeps
<1>8. TypeOK'
  BY <1>1, <1>2, <1>3 DEF TypeOK, memVars
<1> QED
  BY <1>5, <1>6, <1>7, <1>8 DEF IInv

(* What is left when neither a call nor a directory changes.                        *)
LEMMA SessionFrame ==
  ASSUME IInv, UNCHANGED <<calls, dirs>>, sessions' \in [TerminalIDs -> Nat],
         \A s \in TerminalIDs : sessions'[s] \in {0, sessions[s]}
  PROVE  /\ TermInv'
         /\ UNCHANGED agents => AgentInv'
<1>1. TypeOK /\ TermInv /\ AgentInv
  BY DEF IInv
<1>2. Len(dirs) \in Nat
  BY <1>1, DirsFacts DEF TypeOK
<1>3. DirInv'
  BY <1>1, QuietDirs DEF Quiet, TermInv
<1>4. WorkInv'
  BY <1>1 DEF WorkInv, WorkOK, TermInv
<1>5. SessionInv'
  BY <1>1, <1>2 DEF SessionInv, TermInv
<1>6. UNCHANGED agents => AgentInv'
  BY <1>1, <1>2, AgentKeeps
<1> QED
  BY <1>3, <1>4, <1>5, <1>6 DEF TermInv

LEMMA MadeType ==
  ASSUME TypeOK, NEW s \in Sessions, Register(s)
  PROVE  made' \in Seq(Manager) /\ managers' \in [Sessions -> Nat] /\ defaultSessionID' \in Given
<1>1. PICK m : m = [session |-> s, working |-> {}]
  OBVIOUS
<1>2. m \in Manager /\ made' = Append(made, m)
  BY <1>1 DEF Manager, Register
<1>3. made' \in Seq(Manager)
  BY <1>2, Appended DEF TypeOK
<1> QED
  BY <1>3, MadeFacts DEF TypeOK, Register, Given

LEMMA ApplicationKeeps ==
  ASSUME IInv, Application
  PROVE  IInv'
<1>1. TypeOK /\ MemInv /\ TermInv /\ AgentInv /\ UNCHANGED <<calls, agents>>
  BY DEF IInv, Application
<1>2. CASE (\E s \in Sessions : AddSession(s) \/ RemoveSession(s) \/ UseSession(s)) /\ UNCHANGED termVars
  <2>1. TermInv' /\ AgentInv'
    BY <1>1, <1>2, SessionFrame DEF termVars, TypeOK
  <2>2. PICK s \in Sessions : AddSession(s) \/ RemoveSession(s) \/ UseSession(s)
    BY <1>2
  <2>3. MemInv' /\ TypeOK'
    <3>1. CASE AddSession(s)
      <4>1. MemInv'
        BY <1>1, <3>1, RegisterKeeps DEF AddSession, CanAdd
      <4>2. TypeOK'
        BY <1>1, <1>2, <3>1, MadeType DEF AddSession, Register, TypeOK, termVars
      <4> QED
        BY <4>1, <4>2
    <3>2. CASE RemoveSession(s)
      <4>1. MemInv'
        BY <1>1, <3>2, RemoveKeeps
      <4>2. TypeOK'
        BY <1>1, <1>2, <3>2 DEF RemoveSession, TypeOK, termVars, Given
      <4> QED
        BY <4>1, <4>2
    <3>3. CASE UseSession(s)
      <4>1. MemInv'
        BY <1>1, <3>3, UseKeeps
      <4>2. TypeOK'
        BY <1>1, <1>2, <3>3 DEF UseSession, TypeOK, termVars, Given
      <4> QED
        BY <4>1, <4>2
    <3> QED
      BY <2>2, <3>1, <3>2, <3>3
  <2> QED
    BY <2>1, <2>3 DEF IInv
<1>3. CASE (\E s \in TerminalIDs : RemoveTerminal(s) \/ UseTerminal(s)) /\ UNCHANGED memVars
  <2>1. PICK s \in TerminalIDs : RemoveTerminal(s) \/ UseTerminal(s)
    BY <1>3
  <2>2. /\ UNCHANGED dirs /\ sessions' \in [TerminalIDs -> Nat] /\ defaultID' \in TerminalIDs
        /\ \A t \in TerminalIDs : sessions'[t] \in {0, sessions[t]}
    <3>1. sessions \in [TerminalIDs -> Nat] /\ defaultID \in TerminalIDs
      BY <1>1 DEF TypeOK
    <3>2. CASE RemoveTerminal(s)
      BY <3>1, <3>2 DEF RemoveTerminal
    <3>3. CASE UseTerminal(s)
      BY <3>1, <3>3 DEF UseTerminal
    <3> QED
      BY <2>1, <3>2, <3>3
  <2>3. TermInv' /\ AgentInv'
    BY <1>1, <2>2, SessionFrame
  <2>4. MemInv'
    BY <1>1, <1>3, MemoryFrame
  <2>5. TypeOK'
    BY <1>1, <1>3, <2>2 DEF TypeOK, memVars
  <2> QED
    BY <2>3, <2>4, <2>5 DEF IInv
<1> QED
  BY <1>2, <1>3 DEF Application

(* An agent moves on; what it will do next it has looked up.                        *)
LEMMA GotoKeeps ==
  ASSUME TypeOK, AgentInv, NEW a \in Agents, NEW pc \in {"addMemory", "terminal", "ready", "failed"},
         Goto(a, pc), Len(dirs') \in Nat, Len(dirs') >= Len(dirs),
         \A s \in TerminalIDs : sessions'[s] \in {0, sessions[s], Len(dirs) + 1},
         pc = "terminal" => agents[a].session \in Sessions
  PROVE  /\ AgentInv'
         /\ agents' \in [Agents -> [pc : {"new", "addMemory", "terminal", "addTerminal", "ready", "failed"},
                                    session : Given, looked : Nat]]
<1>1. /\ agents' = [agents EXCEPT ![a].pc = pc] /\ Len(dirs) \in Nat
      /\ agents \in [Agents -> [pc : {"new", "addMemory", "terminal", "addTerminal", "ready", "failed"},
                                session : Given, looked : Nat]]
  BY DirsFacts DEF Goto, TypeOK
<1>2. agents'[a].pc = pc /\ agents'[a].session = agents[a].session /\ agents'[a].looked = agents[a].looked
  BY <1>1
<1>3. \A b \in Agents \ {a} : agents'[b] = agents[b]
  BY <1>1
<1>4. AgentInv'
  <2> SUFFICES ASSUME NEW b \in Agents
               PROVE  /\ agents'[b].pc \in {"terminal", "addTerminal"} => agents'[b].session \in Sessions
                      /\ agents'[b].pc = "addTerminal" =>
                           sessions'[agents'[b].session] = 0 \/ agents'[b].looked < sessions'[agents'[b].session]
                      /\ agents'[b].looked <= Len(dirs')
    BY DEF AgentInv
  <2>1. agents[b].looked \in Nat /\ agents[b].looked <= Len(dirs)
    BY <1>1 DEF AgentInv
  <2>2. CASE b = a
    BY <1>1, <1>2, <2>1, <2>2
  <2>3. CASE b # a
    <3>1. /\ agents[b].pc \in {"terminal", "addTerminal"} => agents[b].session \in Sessions
          /\ agents[b].pc = "addTerminal" =>
               sessions[agents[b].session] = 0 \/ agents[b].looked < sessions[agents[b].session]
      BY DEF AgentInv
    <3> QED
      BY <1>1, <1>3, <2>1, <2>3, <3>1 DEF TerminalIDs
  <2> QED
    BY <2>2, <2>3
<1> QED
  BY <1>1, <1>4

LEMMA NewReActAgentKeeps ==
  ASSUME IInv, NEW a \in Agents, NewReActAgent(a)
  PROVE  IInv'
<1>1. TypeOK /\ MemInv /\ TermInv /\ AgentInv /\ UNCHANGED calls /\ Len(dirs) \in Nat
  BY DirsFacts DEF IInv, NewReActAgent, TypeOK
<1>2. PICK s : s = agents[a].session
  OBVIOUS
<1>3. CASE LookMemory(a)
  <2>1. /\ UNCHANGED <<memVars, termVars>> /\ s \in Given
        /\ Goto(a, IF HasSessionID(s) THEN "terminal" ELSE "addMemory")
    BY <1>1, <1>2, <1>3 DEF LookMemory, TypeOK
  <2>2. PICK pc : pc = IF HasSessionID(s) THEN "terminal" ELSE "addMemory"
    OBVIOUS
  <2>3. AgentInv' /\ TypeOK'
    BY <1>1, <1>2, <2>1, <2>2, GotoKeeps DEF TypeOK, HasSessionID, memVars, termVars
  <2>4. MemInv' /\ TermInv'
    BY <1>1, <2>1, MemoryFrame, SessionFrame DEF termVars, TypeOK
  <2> QED
    BY <2>3, <2>4 DEF IInv
<1>4. CASE AddMemory(a)
  <2>1. UNCHANGED termVars /\ TermInv'
    BY <1>1, <1>4, SessionFrame DEF AddMemory, termVars, TypeOK
  <2>2. CASE CanAdd(s)
    <3>1. s \in Sessions /\ managers[s] = 0 /\ Register(s) /\ Goto(a, "terminal")
      BY <1>2, <1>4, <2>2 DEF AddMemory, AddSession, CanAdd
    <3>2. MemInv'
      BY <1>1, <3>1, RegisterKeeps
    <3>3. /\ AgentInv'
          /\ agents' \in [Agents -> [pc : {"new", "addMemory", "terminal", "addTerminal", "ready", "failed"},
                                     session : Given, looked : Nat]]
      BY <1>1, <1>2, <2>1, <3>1, GotoKeeps DEF termVars
    <3>4. made' \in Seq(Manager) /\ managers' \in [Sessions -> Nat] /\ defaultSessionID' \in Given
      BY <1>1, <3>1, MadeType
    <3>5. TypeOK'
      BY <1>1, <2>1, <3>1, <3>3, <3>4 DEF TypeOK, Register, termVars
    <3> QED
      BY <2>1, <3>2, <3>3, <3>5 DEF IInv
  <2>3. CASE ~CanAdd(s)
    <3>1. UNCHANGED memVars /\ Goto(a, "failed")
      BY <1>2, <1>4, <2>3 DEF AddMemory
    <3>2. AgentInv' /\ TypeOK'
      BY <1>1, <2>1, <3>1, GotoKeeps DEF TypeOK, memVars, termVars
    <3>3. MemInv'
      BY <1>1, <3>1, MemoryFrame
    <3> QED
      BY <2>1, <3>2, <3>3 DEF IInv
  <2> QED
    BY <2>2, <2>3
<1>5. CASE LookTerminal(a)
  <2>1. UNCHANGED <<memVars, termVars>> /\ s \in Sessions /\ agents[a].pc = "terminal"
    BY <1>1, <1>2, <1>5 DEF LookTerminal, At, AgentInv
  <2>2. PICK pc : pc = IF Missing(s) THEN "addTerminal" ELSE "ready"
    OBVIOUS
  <2>3. /\ agents' = [agents EXCEPT ![a].pc = pc, ![a].looked = Len(dirs)]
        /\ agents \in [Agents -> [pc : {"new", "addMemory", "terminal", "addTerminal", "ready", "failed"},
                                  session : Given, looked : Nat]]
    BY <1>1, <1>2, <1>5, <2>2 DEF LookTerminal, TypeOK
  <2>4. /\ agents'[a].pc = pc /\ agents'[a].session = s /\ agents'[a].looked = Len(dirs)
        /\ \A b \in Agents \ {a} : agents'[b] = agents[b]
    BY <1>2, <2>3
  <2>5. pc = "addTerminal" => sessions[s] = 0
    BY <2>1, <2>2, CallsAssumption DEF Missing, HasTerminal
  <2>6. AgentInv'
    BY <1>1, <2>1, <2>4, <2>5 DEF AgentInv, termVars
  <2>7. TypeOK'
    <3>1. pc \in {"addTerminal", "ready"}
      BY <2>2
    <3>2. agents' \in [Agents -> [pc : {"new", "addMemory", "terminal", "addTerminal", "ready", "failed"},
                                 session : Given, looked : Nat]]
      BY <1>1, <2>3, <3>1
    <3> QED
      BY <1>1, <2>1, <3>2 DEF TypeOK, memVars, termVars
  <2>8. MemInv' /\ TermInv'
    BY <1>1, <2>1, MemoryFrame, SessionFrame DEF termVars, TypeOK
  <2> QED
    BY <2>6, <2>7, <2>8 DEF IInv
<1>6. CASE OpenTerminal(a)
  <2>1. UNCHANGED memVars /\ Open(s, Getwd) /\ Goto(a, "ready") /\ s \in TerminalIDs
    BY <1>1, <1>2, <1>6 DEF OpenTerminal, AddTerminal, At, AgentInv, TerminalIDs
  <2>2. Quiet
    BY <1>1 DEF Quiet
  <2>3. /\ DirInv' /\ SessionInv'
        /\ dirs' \in Seq(Directory) /\ sessions' \in [TerminalIDs -> Nat]
        /\ Len(dirs') = Len(dirs) + 1 /\ DOMAIN dirs' = DOMAIN dirs \cup {Len(dirs) + 1}
    BY <1>1, <2>1, <2>2, OpenKeeps
  <2>4. WorkInv'
    BY <1>1, <2>3 DEF WorkInv, WorkOK, TermInv
  <2>5. \A t \in TerminalIDs : sessions'[t] \in {0, sessions[t], Len(dirs) + 1}
    BY <1>1, <2>1 DEF Open, TypeOK
  <2>6. AgentInv' /\ TypeOK'
    BY <1>1, <2>1, <2>3, <2>5, GotoKeeps DEF TypeOK, memVars, Open
  <2>7. MemInv'
    BY <1>1, <2>1, MemoryFrame
  <2> QED
    BY <2>3, <2>4, <2>6, <2>7 DEF IInv, TermInv
<1> QED
  BY <1>3, <1>4, <1>5, <1>6 DEF NewReActAgent

LEMMA CompressStepKeeps ==
  ASSUME IInv, NEW k \in DOMAIN made, Compress(k), UNCHANGED <<termVars, agents, operations>>
  PROVE  IInv'
<1>1. TypeOK /\ MemInv /\ TermInv /\ AgentInv /\ UNCHANGED calls
  BY DEF IInv, Compress
<1>2. MemInv'
  BY <1>1, CompressKeeps
<1>3. TermInv' /\ AgentInv'
  BY <1>1, SessionFrame DEF termVars, TypeOK
<1>4. PICK batch \in SUBSET made[k].working :
        /\ made' = [made EXCEPT ![k].working = @ \ batch]
        /\ episodes' = episodes \cup {<<made[k].session, i>> : i \in batch}
        /\ UNCHANGED <<managers, defaultSessionID, dropped>>
  BY DEF Compress
<1>5. made[k] \in Manager /\ k \in 1..Len(made)
  BY <1>1, MadeFacts DEF TypeOK
<1>6. PICK m : m = [made[k] EXCEPT !.working = @ \ batch]
  OBVIOUS
<1>7. m \in Manager /\ made' = [made EXCEPT ![k] = m]
  BY <1>4, <1>5, <1>6 DEF Manager
<1>8. made' \in Seq(Manager)
  BY <1>1, <1>5, <1>7, ExceptSeq DEF TypeOK
<1>9. episodes' \subseteq Sessions \X Calls
  BY <1>1, <1>4, <1>5 DEF TypeOK, Manager
<1>10. TypeOK'
  BY <1>1, <1>4, <1>8, <1>9 DEF TypeOK, termVars
<1> QED
  BY <1>2, <1>3, <1>10 DEF IInv
-----------------------------------------------------------------------------------
(* The invariant holds from the start and in every step.                            *)
LEMMA InitGood == Init => IInv
<1> SUFFICES ASSUME Init PROVE IInv
  OBVIOUS
<1>1. /\ calls = [c \in Calls |-> Idle] /\ managers = [s \in Sessions |-> 0]
      /\ defaultSessionID = NoSession /\ made = <<>> /\ episodes = {} /\ dropped = {}
      /\ sessions = [s \in TerminalIDs |-> IF s = DefaultID THEN 1 ELSE 0]
      /\ defaultID = DefaultID /\ dirs = <<Session(InitDir)>>
      /\ agents \in [Agents -> [pc : {"new"}, session : Given, looked : {0}]]
  BY DEF Init, MemInit, TermInit
<1>2. PICK d : d = Session(InitDir)
  OBVIOUS
<1>3. InitDir \in Paths /\ d \in Directory /\ d.text = InitDir /\ d.len = Len(InitDir)
  BY <1>2, PathFacts, SessionType DEF Session
<1>4. dirs \in Seq(Directory) /\ Len(dirs) = 1 /\ DOMAIN dirs = {1} /\ dirs[1] = d
  <2>1. /\ <<d>> \in Seq(Directory) /\ Len(<<d>>) = 1 /\ <<d>>[1] = d
    BY <1>3, Appended, EmptySeq, AppendProperties
  <2>2. DOMAIN <<d>> = 1..1
    BY <2>1, LenProperties
  <2> QED
    BY <1>1, <1>2, <2>1, <2>2
<1>5. made \in Seq(Manager) /\ DOMAIN made = {}
  BY <1>1, EmptySeq, LenProperties
<1>6. TypeOK
  <2>1. defaultSessionID \in Given /\ sessions \in [TerminalIDs -> Nat] /\ defaultID \in TerminalIDs
    BY <1>1 DEF Given, TerminalIDs
  <2> QED
    BY <1>1, <1>4, <1>5, <2>1, IdleType DEF TypeOK
<1>7. \A c \in Calls : calls[c].pc = "idle" /\ calls[c].found = {} /\ calls[c].known = {}
  BY <1>1 DEF Idle
<1>8. MemInv
  BY <1>1, <1>5, <1>7 DEF MemInv, StoreInv, CallInv, CallOK, KeptInv, SearchInv, SearchOK, AddedIsRecalled, Pc
<1>9. TermInv
  <2>1. Assigning(1) = {}
    BY <1>7 DEF Assigning
  <2>2. DirInv
    BY <1>3, <1>4, <2>1 DEF DirInv, DirOK, Good
  <2>3. WorkInv /\ SessionInv
    BY <1>1, <1>4, <1>7 DEF WorkInv, WorkOK, SessionInv
  <2> QED
    BY <2>2, <2>3 DEF TermInv
<1>10. AgentInv
  BY <1>1, <1>4 DEF AgentInv
<1> QED
  BY <1>6, <1>8, <1>9, <1>10 DEF IInv

LEMMA NextKeeps == IInv /\ [Next]_vars => IInv'
<1> SUFFICES ASSUME IInv, [Next]_vars PROVE IInv'
  OBVIOUS
<1>1. CASE UNCHANGED vars
  <2>1. TypeOK /\ MemInv /\ UNCHANGED <<calls, memVars, termVars, agents>>
    BY <1>1 DEF IInv, vars
  <2>2. TermInv' /\ AgentInv' /\ MemInv'
    BY <2>1, SessionFrame, MemoryFrame DEF termVars, TypeOK
  <2>3. TypeOK'
    BY <2>1 DEF TypeOK, memVars, termVars
  <2> QED
    BY <2>2, <2>3 DEF IInv
<1>2. CASE \E a \in Agents : NewReActAgent(a)
  BY <1>2, NewReActAgentKeeps
<1>3. CASE Application
  BY <1>3, ApplicationKeeps
<1>4. CASE \E c \in Calls : MemoryRun(c) /\ UNCHANGED <<termVars, agents, operations>>
  BY <1>4, MemoryRunKeeps
<1>5. CASE \E c \in Calls : TerminalRun(c) /\ UNCHANGED <<memVars, agents, operations>>
  BY <1>5, BeginTerminalKeeps, HandleCdKeeps, AssignStepKeeps, ExecuteKeeps DEF TerminalRun
<1>6. CASE \E k \in DOMAIN made : Compress(k) /\ UNCHANGED <<termVars, agents, operations>>
  BY <1>6, CompressStepKeeps
<1> QED
  BY <1>1, <1>2, <1>3, <1>4, <1>5, <1>6 DEF Next

(* The inductive invariant.                                                         *)
THEOREM Invariance == Spec => []IInv
BY InitGood, NextKeeps, PTL DEF Spec

(* Searches only tell what was added for their session.                             *)
THEOREM MemoriesAreOwn == Spec => []OwnMemories
<1>1. IInv => OwnMemories
  BY DEF IInv, MemInv, SearchInv, SearchOK, Own, OwnMemories
<1> QED
  BY <1>1, Invariance, PTL

(* Searches find what was acknowledged before they began, compressed or not.        *)
THEOREM MemoriesAreRecalled == Spec => []AddedIsRecalled
<1>1. IInv => AddedIsRecalled
  BY DEF IInv, MemInv
<1> QED
  BY <1>1, Invariance, PTL

(* Directories that one assignment at a time has left are in the workspace.         *)
THEOREM DirectoriesStayInside == Spec => []CwdInside
<1>1. IInv => CwdInside
  <2> SUFFICES ASSUME IInv, NEW o \in DOMAIN dirs, dirs[o].single, Assigning(o) = {}
               PROVE  Good(Read(o))
    BY DEF CwdInside, Good
  <2>1. Good(dirs[o].text) /\ dirs[o].len = Len(dirs[o].text)
    BY DEF IInv, TermInv, DirInv, DirOK
  <2>2. Read(o) = dirs[o].text
    BY <2>1, ReadType DEF IInv, TypeOK
  <2> QED
    BY <2>1, <2>2
<1> QED
  BY <1>1, Invariance, PTL

(* The sessions of the terminal tool after a step: as they were, closed, opened     *)
(* where there was none, or replaced by an agent that did not find them.            *)
LEMMA SessionSteps ==
  ASSUME IInv, [Next]_vars, NEW s \in TerminalIDs, sessions[s] # 0, sessions'[s] \notin {0, sessions[s]}
  PROVE  \E a \in Agents : At(a, "addTerminal") /\ agents[a].session = s /\ agents[a].looked < sessions[s]
<1>1. sessions \in [TerminalIDs -> Nat] /\ TypeOK /\ TermInv /\ AgentInv
  BY DEF IInv, TypeOK
<1>2. ~UNCHANGED termVars /\ ~UNCHANGED sessions
  BY DEF termVars
<1>3. CASE \E a \in Agents : NewReActAgent(a)
  <2>1. PICK a \in Agents : OpenTerminal(a)
    BY <1>2, <1>3 DEF NewReActAgent, LookMemory, AddMemory, LookTerminal
  <2>2. At(a, "addTerminal") /\ sessions' = [sessions EXCEPT ![agents[a].session] = Len(dirs) + 1]
    BY <2>1 DEF OpenTerminal, AddTerminal, Open
  <2>3. agents[a].session = s
    BY <1>1, <2>2
  <2> QED
    BY <1>1, <2>2, <2>3 DEF At, AgentInv
<1>4. ASSUME Application PROVE FALSE
  <2>1. PICK t \in TerminalIDs : RemoveTerminal(t) \/ UseTerminal(t)
    BY <1>2, <1>4 DEF Application
  <2> QED
    BY <1>1, <1>2, <2>1 DEF RemoveTerminal, UseTerminal
<1>5. ASSUME NEW c \in Calls, TerminalRun(c) PROVE FALSE
  <2>1. BeginTerminal(c)
    BY <1>2, <1>5 DEF TerminalRun, HandleCd, Assign, ExecuteCommand
  <2>2. \E t : sessions[t] = 0 /\ Open(t, InitDir)
    BY <1>2, <2>1 DEF BeginTerminal
  <2> QED
    BY <1>1, <2>2 DEF Open
<1> QED
  BY <1>2, <1>3, <1>4, <1>5 DEF Next, vars

(* Building an agent does not reset the directory of a session it saw.              *)
THEOREM EstablishedStay == Spec => EstablishedKept
<1>1. IInv /\ [Next]_vars =>
        [\A s \in TerminalIDs : sessions[s] # 0 /\ sessions'[s] \notin {0, sessions[s]} =>
           \E a \in Agents : At(a, "addTerminal") /\ agents[a].session = s /\ agents[a].looked < sessions[s]]_vars
  BY SessionSteps
<1> QED
  BY <1>1, Invariance, PTL DEF Spec, EstablishedKept
==================================================================================
