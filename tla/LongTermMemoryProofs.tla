---------------------------- MODULE LongTermMemoryProofs ----------------------------
(* Theorems about LongTermMemory, for any numbers of memories, callers and         *)
(* sessions: the two stores agree, an Add that returned is complete, and searches  *)
(* tell and omit what they should, whatever fails or overlaps.                     *)
EXTENDS LongTermMemory, TLAPS

(* Types.                                                                          *)
Values == {m.session : m \in Memories} \cup {m.topic : m \in Memories} \cup {None}
Memory == [session : Values, topic : Values, weight : Nat]
Id == Ids \cup {None}
Promised == [memory : Memory, target : Id]
Steps == {"idle", "check", "record", "link", "point", "relate",
          "delete", "unpoint", "search", "fetch", "relations", "answered"}
CallRecord == [step : Steps, id : Id, memory : Memory, target : Id, sure : BOOLEAN,
               known : Id, of : SUBSET Ids, hits : SUBSET Ids, cut : BOOLEAN,
               answer : SUBSET (Ids \X Memory), related : SUBSET (Ids \X Ids),
               due : SUBSET Ids, gone : SUBSET Ids]

Typed ==
  /\ records \in [Ids -> Memory] /\ points \in [Ids -> Memory] /\ links \subseteq Ids \X Ids
  /\ call \in [Callers -> CallRecord] /\ stored \in [Ids -> Promised]
  /\ dropped \subseteq Ids /\ doubtful \subseteq Ids

(* A point nobody deleted has its record; of a deleted memory the record goes      *)
(* first.  An edge of the graph joins two nodes.                                   *)
StoreInv ==
  /\ \A i \in Ids : Has(records, i) => records[i].topic # None
  /\ \A i \in Ids : Has(points, i) => /\ points[i] \in Memories
                                      /\ Has(records, i) => records[i] = points[i]
                                      /\ i \notin dropped => Has(records, i)
  /\ \A i \in dropped : Has(points, i) \/ ~Has(records, i)
  /\ \A l \in links : l[1] \in Concepts => l[2] \in Concepts /\ Has(records, l[1]) /\ Has(records, l[2])

StoredInv ==
  \A i \in Ids : stored[i] # NoPromise =>
    /\ i \notin dropped /\ Has(points, i) /\ points[i] = stored[i].memory
    /\ stored[i].target \notin dropped \cup {None} /\ i \notin doubtful =>
         <<i, stored[i].target>> \in links

Adding(q) == q.step \in {"check", "record", "link", "point", "relate"}
Written(q) == q.step \in {"record", "link", "point"}
Points(id) == Has(points, id) \/ id \in dropped

(* An Add has its ID to itself, and its record when it comes to the point; a        *)
(* relation it owes can be written or is.                                           *)
AddOK(q) ==
  /\ Adding(q) => /\ q.id \in Ids /\ q.memory \in Memories
                  /\ ~Points(q.id) /\ stored[q.id] = NoPromise
                  /\ q.id \in Concepts => q.target \in Concepts \cup {None}
  /\ q.step \in {"check", "relate"} => q.id \in Concepts
  /\ q.step \in {"link", "point"} => records[q.id] = q.memory
  /\ q.step \in {"check", "record", "link"} /\ q.sure =>
       q.target \in Ids /\ (Has(records, q.target) \/ q.target \in dropped)
  /\ q.step = "point" /\ q.sure /\ q.target \notin dropped \cup {None} /\ q.id \notin doubtful =>
       <<q.id, q.target>> \in links

(* What was found similar is a concept.                                            *)
KnownOK(q) == q.step = "relate" => q.known \in Concepts

DeleteOK(q) ==
  /\ q.step \in {"delete", "unpoint"} => q.id \in dropped
  /\ q.step = "unpoint" => ~Has(records, q.id)

(* What a search has taken from the points still answers, or is gone; what it owes  *)
(* is a point, and a hit unless it was cut off.                                     *)
SearchOK(q) ==
  /\ q.step = "search" => q.memory \in Memories
  /\ q.step = "fetch" => q.hits \subseteq q.of
  /\ q.step = "fetch" => \A i \in q.hits : \/ Has(points, i) /\ Answers(points[i], q.memory)
                                           \/ i \in dropped /\ ~Has(records, i)
  /\ \A i \in q.gone : i \in dropped /\ ~Has(records, i)
  /\ \A i \in q.due \ dropped : i \in q.of /\ Has(points, i) /\ Answers(points[i], q.memory)
  /\ q.step = "fetch" /\ ~q.cut => q.due \ dropped \subseteq q.hits
  /\ q.step \in {"relations", "answered"} /\ ~q.cut /\ q.of = Episodes =>
       \A i \in q.due \ dropped : \E a \in q.answer : a[1] = i
  /\ \A a \in q.answer : Answers(a[2], q.memory) /\ a[1] \notin q.gone

(* A concept that was not there when an Add looked, and is now, is doubtful.        *)
NewOK(q) ==
  Written(q) /\ q.id \in Concepts \ doubtful =>
    \A j \in Concepts : Has(points, j) /\ points[j].topic = q.memory.topic => j \in dropped \cup doubtful

CallOK(q) == AddOK(q) /\ KnownOK(q) /\ DeleteOK(q) /\ SearchOK(q) /\ NewOK(q)
CallInv == \A c \in Callers : CallOK(call[c])

(* No two Adds share an ID; of two on one topic one is doubtful.                    *)
PairOK(q, r) ==
  /\ Adding(q) => r.id # q.id
  /\ Written(q) /\ Written(r) /\ q.id \in Concepts /\ r.id \in Concepts
       /\ q.memory.topic = r.memory.topic => q.id \in doubtful \/ r.id \in doubtful
PairInv == \A c, d \in Callers : c # d => PairOK(call[c], call[d])

IInv == Typed /\ StoreInv /\ StoredInv /\ CallInv /\ PairInv /\ ConceptsDistinct
-------------------------------------------------------------------------------------
LEMMA MemoryFacts ==
  /\ NoMemory \in Memory /\ NoMemory.topic = None
  /\ \A m \in Memories : m \in Memory /\ m.topic # None /\ m # NoMemory
<1>1. NoMemory \in Memory /\ NoMemory.topic = None
  BY DEF NoMemory, Memory, Values
<1>2. ASSUME NEW m \in Memories PROVE m \in Memory /\ m.topic # None /\ m # NoMemory
  <2>1. /\ m = [session |-> m.session, topic |-> m.topic, weight |-> m.weight]
        /\ m.weight \in Nat /\ m.topic # None /\ NoMemory \notin Memories
    BY LongTermAssumption
  <2>2. m.session \in Values /\ m.topic \in Values
    BY DEF Values
  <2> QED
    BY <2>1, <2>2 DEF Memory
<1> QED
  BY <1>1, <1>2

LEMMA IdleFacts ==
  /\ Idle \in CallRecord /\ Idle.step = "idle" /\ Idle.id = None
  /\ Idle.gone = {} /\ Idle.due = {} /\ Idle.answer = {} /\ Idle.related = {}
<1>1. Idle \in CallRecord
  BY MemoryFacts DEF Idle, CallRecord, Steps, Id
<1> QED
  BY <1>1 DEF Idle

LEMMA IdleOK ==
  ASSUME NEW q, q.step = "idle", q.gone = {}, q.due = {}, q.answer = {}, q.related = {}
  PROVE  CallOK(q) /\ CallOK(q)'
BY DEF CallOK, AddOK, KnownOK, DeleteOK, SearchOK, NewOK, Adding, Written

(* What a step may do to the stores while other callers work with them.            *)
Calm ==
  /\ dropped \subseteq dropped' /\ doubtful \subseteq doubtful'
  /\ \A i \in Ids : Has(points, i) => \/ points'[i] = points[i]
                                      \/ i \in dropped /\ ~Has(points', i) /\ ~Has(records', i)
  /\ \A i \in Ids : Has(records, i) => Has(records', i) \/ i \in dropped
  /\ \A i \in dropped : /\ ~Has(records, i) => ~Has(records', i)
                        /\ ~Has(points, i) => ~Has(points', i)
  /\ \A l \in links : l \in links' \/ l[1] \in dropped' \/ l[2] \in dropped'

LEMMA CalmSearch ==
  ASSUME Typed, Typed', Calm, NEW q \in CallRecord, SearchOK(q)
  PROVE  SearchOK(q)'
<1>1. q.hits \subseteq Ids /\ q.due \subseteq Ids
  BY DEF CallRecord
<1>2. q.step = "fetch" => \A i \in q.hits : \/ Has(points', i) /\ Answers(points'[i], q.memory)
                                            \/ i \in dropped' /\ ~Has(records', i)
  BY <1>1 DEF Calm, SearchOK, Has
<1>3. \A i \in q.gone : i \in dropped' /\ ~Has(records', i)
  BY DEF Calm, SearchOK
<1>4. \A i \in q.due \ dropped' : i \in q.of /\ Has(points', i) /\ Answers(points'[i], q.memory)
  BY <1>1 DEF Calm, SearchOK, Has
<1> QED
  BY <1>2, <1>3, <1>4 DEF Calm, SearchOK

LEMMA CalmKeeps ==
  ASSUME Typed, Typed', Calm, NEW q \in CallRecord, CallOK(q), NewOK(q)',
         Adding(q) => /\ ~Has(points', q.id) /\ q.id \notin dropped' /\ stored'[q.id] = NoPromise
                      /\ q.step \in {"link", "point"} => records'[q.id] = records[q.id]
  PROVE  CallOK(q)'
<1>1. AddOK(q)'
  BY DEF Calm, CallOK, AddOK, Adding, Points, Typed, Has
<1>2. KnownOK(q)'
  BY DEF Calm, CallOK, KnownOK, Points, Typed, Has
<1>3. DeleteOK(q)'
  BY DEF Calm, CallOK, DeleteOK
<1> QED
  BY <1>1, <1>2, <1>3, CalmSearch DEF CallOK

LEMMA CalmNew ==
  ASSUME Typed, Calm, NEW q \in CallRecord, NewOK(q), \A i \in Ids : Has(points', i) => Has(points, i)
  PROVE  NewOK(q)'
BY DEF Calm, NewOK, Ids, Has

LEMMA CalmStored ==
  ASSUME Typed, Calm, StoredInv, ConceptsDistinct, UNCHANGED <<stored, dropped>>
  PROVE  StoredInv' /\ ConceptsDistinct'
<1>1. StoredInv'
  BY DEF Calm, StoredInv, Typed, Has, Promised, Id
<1>2. ConceptsDistinct'
  BY DEF Calm, ConceptsDistinct
<1> QED
  BY <1>1, <1>2

(* A caller that goes on with what it has, or ends, is no harm to the others.      *)
Onward(q, r) == /\ Adding(r) => Adding(q) /\ r.id = q.id /\ r.memory = q.memory
                /\ Written(r) => Written(q)
                /\ r.id \in {q.id, None}

LEMMA PairKeeps ==
  ASSUME Typed, PairInv, CallInv, NEW c \in Callers, NEW r \in CallRecord, call' = [call EXCEPT ![c] = r],
         doubtful \subseteq doubtful', Onward(call[c], r)
  PROVE  PairInv'
<1> SUFFICES ASSUME NEW x \in Callers, NEW y \in Callers, x # y PROVE PairOK(call[x], call[y])'
  BY DEF PairInv
<1>1. /\ \A d \in Callers : call'[d] = IF d = c THEN r ELSE call[d]
      /\ PairOK(call[x], call[y])
  BY DEF Typed, PairInv
<1>2. Adding(call[x]) => call[x].id \in Ids /\ call[x].id # None
  BY LongTermAssumption DEF CallInv, CallOK, AddOK
<1>3. CASE x = c
  BY <1>1, <1>2, <1>3 DEF PairOK, Onward, Adding, Written
<1>4. CASE y = c
  BY <1>1, <1>2, <1>4 DEF PairOK, Onward, Adding, Written
<1>5. CASE x # c /\ y # c
  BY <1>1, <1>5 DEF PairOK, Adding, Written
<1> QED
  BY <1>3, <1>4, <1>5

LEMMA PairNew ==
  ASSUME Typed, PairInv, NEW c \in Callers, NEW r \in CallRecord, call' = [call EXCEPT ![c] = r],
         doubtful \subseteq doubtful', \A d \in Callers \ {c} : PairOK(r, call[d]) /\ PairOK(call[d], r)
  PROVE  PairInv'
<1> SUFFICES ASSUME NEW x \in Callers, NEW y \in Callers, x # y PROVE PairOK(call[x], call[y])'
  BY DEF PairInv
<1>1. /\ \A d \in Callers : call'[d] = IF d = c THEN r ELSE call[d]
      /\ PairOK(call[x], call[y])
  BY DEF Typed, PairInv
<1> QED
  BY <1>1 DEF PairOK

(* The rest of the invariant, caller by caller.                                    *)
LEMMA CallersKeep ==
  ASSUME Typed, Typed', Calm, CallInv, NEW c \in Callers, NEW r \in CallRecord,
         call' = [call EXCEPT ![c] = r], CallOK(r)',
         \A d \in Callers \ {c} : NewOK(call[d])',
         \A d \in Callers \ {c} : Adding(call[d]) =>
           /\ ~Has(points', call[d].id) /\ call[d].id \notin dropped' /\ stored'[call[d].id] = NoPromise
           /\ call[d].step \in {"link", "point"} => records'[call[d].id] = records[call[d].id]
  PROVE  CallInv'
<1> SUFFICES ASSUME NEW d \in Callers PROVE CallOK(call[d])'
  BY DEF CallInv
<1>1. CASE d = c
  BY <1>1 DEF Typed
<1>2. CASE d # c
  <2>1. PICK q \in CallRecord : q = call[d]
    BY DEF Typed
  <2>2. call'[d] = q /\ CallOK(q)
    BY <1>2, <2>1 DEF Typed, CallInv
  <2>3. NewOK(q)'
    BY <1>2, <2>2
  <2>4. CallOK(q)'
    BY <1>2, <2>1, <2>2, <2>3, CalmKeeps
  <2> QED
    BY <2>2, <2>4
<1> QED
  BY <1>1, <1>2

(* Steps that only change the call.                                                *)
LEMMA CallStep ==
  ASSUME IInv, NEW c \in Callers, NEW r \in CallRecord, call' = [call EXCEPT ![c] = r],
         UNCHANGED <<stores, ghosts>>, CallOK(r),
         \/ Onward(call[c], r)
         \/ \A d \in Callers \ {c} : PairOK(r, call[d]) /\ PairOK(call[d], r)
  PROVE  IInv'
<1>1. UNCHANGED <<records, points, links, stored, dropped, doubtful>>
  BY DEF stores, ghosts
<1>2. Typed /\ Typed'
  BY <1>1 DEF IInv, Typed
<1>3. StoreInv' /\ StoredInv' /\ ConceptsDistinct'
  BY <1>1 DEF IInv, StoreInv, StoredInv, ConceptsDistinct
<1>4. PairInv'
  BY <1>1, <1>2, PairKeeps, PairNew DEF IInv
<1>5. CallInv'
  <2> SUFFICES ASSUME NEW d \in Callers PROVE CallOK(call[d])'
    BY DEF CallInv
  <2>1. PICK q \in CallRecord : q = IF d = c THEN r ELSE call[d]
    BY <1>2 DEF Typed
  <2>2. call'[d] = q /\ CallOK(q)
    BY <1>2, <2>1 DEF Typed, CallInv, IInv
  <2>3. CallOK(q)'
    BY <1>1, <2>2 DEF CallOK, AddOK, KnownOK, DeleteOK, SearchOK, NewOK, Points
  <2> QED
    BY <2>2, <2>3
<1> QED
  BY <1>2, <1>3, <1>4, <1>5 DEF IInv

(* A call that ends, well or not, or with its caller.                              *)
LEMMA ReturnStep ==
  ASSUME IInv, NEW c \in Callers, Return(c), UNCHANGED <<stores, ghosts>>
  PROVE  IInv'
<1>1. PICK r : r = Idle
  OBVIOUS
<1>2. r \in CallRecord /\ CallOK(r) /\ call' = [call EXCEPT ![c] = r]
  BY <1>1, IdleFacts, IdleOK DEF Return
<1>3. Onward(call[c], r)
  BY <1>1, IdleFacts DEF Onward, Adding, Written
<1> QED
  BY <1>2, <1>3, CallStep

LEMMA AddStep ==
  ASSUME IInv, NEW c \in Callers, NEW ids, NEW first, Add(c, ids, first),
         (ids = Episodes /\ first = "record") \/ (ids = Concepts /\ first = "check")
  PROVE  IInv'
<1>1. PICK id \in ids, m \in Memories, t \in ids \cup {None} :
        /\ Fresh(id) /\ t # id
        /\ call' = [call EXCEPT ![c] = [Idle EXCEPT
             !.step = first, !.id = id, !.memory = m, !.target = t, !.sure = t # None /\ Has(records, t)]]
        /\ UNCHANGED <<stores, ghosts>>
  BY DEF Add
<1>2. PICK sure : sure = (t # None /\ Has(records, t))
  OBVIOUS
<1>3. PICK r : r = [Idle EXCEPT !.step = first, !.id = id, !.memory = m, !.target = t, !.sure = sure]
  OBVIOUS
<1>4. /\ r.step = first /\ r.id = id /\ r.memory = m /\ r.target = t /\ r.sure = sure
      /\ r.gone = {} /\ r.due = {} /\ r.answer = {} /\ r.related = {}
  BY <1>3 DEF Idle
<1>5. id \in Ids /\ id # None /\ t \in Id /\ m \in Memory /\ first \in Steps /\ sure \in BOOLEAN
  BY <1>2, MemoryFacts, LongTermAssumption DEF Ids, Id, Steps
<1>6. r \in CallRecord
  <2>1. r = [step |-> first, id |-> id, memory |-> m, target |-> t, sure |-> sure,
             known |-> None, of |-> {}, hits |-> {}, cut |-> FALSE, answer |-> {},
             related |-> {}, due |-> {}, gone |-> {}]
    BY <1>3 DEF Idle
  <2> QED
    BY <1>5, <2>1 DEF CallRecord, Id
<1>7. call' = [call EXCEPT ![c] = r]
  BY <1>1, <1>2, <1>3
<1>8. /\ ~Points(id) /\ stored[id] = NoPromise /\ \A d \in Callers : call[d].id # id
  BY <1>1 DEF Fresh, Points
<1>9. CallOK(r)
  <2>1. AddOK(r)
    <3>1. id \in Concepts => t \in Concepts \cup {None} /\ ids = Concepts
      BY LongTermAssumption
    <3>2. first = "check" => id \in Concepts
      BY DEF Ids
    <3> QED
      BY <1>2, <1>4, <1>5, <1>8, <3>1, <3>2 DEF AddOK, Id
  <2>2. KnownOK(r) /\ DeleteOK(r) /\ SearchOK(r)
    BY <1>4 DEF KnownOK, DeleteOK, SearchOK
  <2>3. NewOK(r)
    BY <1>4, LongTermAssumption DEF NewOK, Written
  <2> QED
    BY <2>1, <2>2, <2>3 DEF CallOK
<1>10. \A d \in Callers \ {c} : PairOK(r, call[d]) /\ PairOK(call[d], r)
  BY <1>4, <1>8, LongTermAssumption DEF PairOK, Written
<1> QED
  BY <1>1, <1>6, <1>7, <1>9, <1>10, CallStep

LEMMA SearchStep ==
  ASSUME IInv, NEW c \in Callers, Search(c)
  PROVE  IInv'
<1>1. PICK ids \in {Episodes, Concepts}, query \in Memories :
        call' = [call EXCEPT ![c] = [Idle EXCEPT
         !.step = "search", !.of = ids, !.memory = query,
         !.due = {i \in ids : stored[i] # NoPromise /\ Answers(stored[i].memory, query)},
         !.gone = {i \in ids \cap dropped : ~Has(records, i)}]]
  BY DEF Search
<1>2. PICK due, gone : /\ due = {i \in ids : stored[i] # NoPromise /\ Answers(stored[i].memory, query)}
                       /\ gone = {i \in ids \cap dropped : ~Has(records, i)}
  OBVIOUS
<1>3. PICK r : r = [Idle EXCEPT !.step = "search", !.of = ids, !.memory = query, !.due = due, !.gone = gone]
  OBVIOUS
<1>4. r = [step |-> "search", id |-> None, memory |-> query, target |-> None, sure |-> FALSE,
           known |-> None, of |-> ids, hits |-> {}, cut |-> FALSE, answer |-> {},
           related |-> {}, due |-> due, gone |-> gone]
  BY <1>3 DEF Idle
<1>5. ids \subseteq Ids /\ due \subseteq ids /\ gone \subseteq ids /\ query \in Memory
  BY <1>2, MemoryFacts DEF Ids
<1>6. r \in CallRecord
  BY <1>4, <1>5 DEF CallRecord, Steps, Id
<1>7. \A i \in due : Has(points, i) /\ Answers(points[i], query)
  BY <1>2, <1>5 DEF IInv, StoredInv
<1>8. CallOK(r)
  BY <1>2, <1>4, <1>7 DEF CallOK, AddOK, KnownOK, DeleteOK, SearchOK, NewOK, Adding, Written
<1>9. Onward(call[c], r)
  BY <1>4 DEF Onward, Adding, Written
<1>10. call' = [call EXCEPT ![c] = r] /\ UNCHANGED <<stores, ghosts>>
  BY <1>1, <1>2, <1>3 DEF Search
<1> QED
  BY <1>6, <1>8, <1>9, <1>10, CallStep

LEMMA RankStep ==
  ASSUME IInv, NEW c \in Callers, NEW ids, Rank(c, ids)
  PROVE  IInv'
<1>1. /\ call[c] \in CallRecord /\ call \in [Callers -> CallRecord] /\ SearchOK(call[c])
      /\ UNCHANGED <<stores, ghosts>> /\ call[c].step = "search"
  BY DEF IInv, Typed, CallInv, CallOK, Rank, At
<1>2. CASE Return(c)
  BY <1>1, <1>2, ReturnStep
<1>3. ASSUME NEW hits \in Best(Candidates(c)),
             call' = [call EXCEPT ![c].step = IF hits = {} THEN "answered" ELSE "fetch",
                                  ![c].hits = hits, ![c].cut = hits # Candidates(c)]
      PROVE  IInv'
  <2>1. PICK all, step, cut : /\ all = Candidates(c) /\ step = (IF hits = {} THEN "answered" ELSE "fetch")
                              /\ cut = (hits # all)
    OBVIOUS
  <2>2. all = {i \in call[c].of : Answers(points[i], call[c].memory)} /\ hits \subseteq all
    BY <2>1 DEF Candidates, Best
  <2>3. hits \subseteq Ids /\ step \in {"answered", "fetch"} /\ cut \in BOOLEAN /\ call[c].of \subseteq Ids
    BY <1>1, <2>1, <2>2 DEF CallRecord
  <2>4. PICK r : r = [call[c] EXCEPT !.step = step, !.hits = hits, !.cut = cut]
    OBVIOUS
  <2>5. r \in CallRecord
    BY <1>1, <2>3, <2>4 DEF CallRecord, Steps
  <2>6. /\ r.step = step /\ r.hits = hits /\ r.cut = cut /\ r.id = call[c].id /\ r.of = call[c].of
        /\ r.memory = call[c].memory /\ r.gone = call[c].gone /\ r.due = call[c].due
        /\ r.answer = call[c].answer /\ r.related = call[c].related
    BY <1>1, <2>4 DEF CallRecord
  <2>7. call' = [call EXCEPT ![c] = r]
    BY <1>1, <1>3, <2>1, <2>4
  <2>8. \A i \in all : Has(points, i)
    BY <1>1, <2>2, MemoryFacts DEF SearchOK, Answers, Has
  <2>9. call[c].due \ dropped \subseteq all
    BY <1>1, <2>2 DEF SearchOK
  <2>10. SearchOK(r)
    BY <1>1, <2>1, <2>2, <2>3, <2>6, <2>8, <2>9 DEF SearchOK
  <2>11. CallOK(r) /\ Onward(call[c], r)
    BY <2>3, <2>6, <2>10 DEF CallOK, AddOK, KnownOK, DeleteOK, NewOK, Adding, Written, Onward
  <2> QED
    BY <1>1, <2>5, <2>7, <2>11, CallStep
<1> QED
  BY <1>2, <1>3 DEF Rank

LEMMA FetchStep ==
  ASSUME IInv, NEW c \in Callers, NEW ids, Fetch(c, ids)
  PROVE  IInv'
<1>1. /\ call[c] \in CallRecord /\ call \in [Callers -> CallRecord] /\ SearchOK(call[c])
      /\ UNCHANGED <<stores, ghosts>> /\ call[c].step = "fetch" /\ Typed /\ StoreInv
  BY DEF IInv, Typed, CallInv, CallOK, Fetch, At
<1>2. CASE Return(c)
  BY <1>1, <1>2, ReturnStep
<1>3. CASE ~Return(c)
  <2>1. PICK found : found = {<<i, records[i]>> : i \in {j \in call[c].hits : Has(records, j) /\ ReadID(j) = j}}
    OBVIOUS
  <2>2. PICK r : r = [call[c] EXCEPT !.step = "relations", !.answer = found]
    OBVIOUS
  <2>3. call' = [call EXCEPT ![c] = r]
    BY <1>1, <1>3, <2>1, <2>2 DEF Fetch
  <2>4. found \subseteq Ids \X Memory
    BY <1>1, <2>1 DEF CallRecord, Typed
  <2>5. r \in CallRecord
    BY <1>1, <2>2, <2>4 DEF CallRecord, Steps
  <2>6. /\ r.step = "relations" /\ r.answer = found /\ r.cut = call[c].cut /\ r.id = call[c].id
        /\ r.memory = call[c].memory /\ r.gone = call[c].gone /\ r.due = call[c].due
        /\ r.related = call[c].related /\ r.of = call[c].of
    BY <1>1, <2>2 DEF CallRecord
  <2>7. ASSUME NEW i \in call[c].hits, Has(records, i)
        PROVE  Answers(records[i], call[c].memory) /\ i \notin call[c].gone
    <3>1. i \in Ids /\ Has(points, i) /\ Answers(points[i], call[c].memory)
      BY <1>1, <2>7 DEF SearchOK, CallRecord
    <3>2. records[i] = points[i]
      BY <1>1, <2>7, <3>1 DEF StoreInv
    <3> QED
      BY <1>1, <2>7, <3>1, <3>2 DEF SearchOK
  <2>8. \A a \in found : Answers(a[2], call[c].memory) /\ a[1] \notin call[c].gone
    BY <2>1, <2>7
  <2>9. ~call[c].cut /\ call[c].of = Episodes => \A i \in call[c].due \ dropped : \E a \in found : a[1] = i
    <3> SUFFICES ASSUME ~call[c].cut, call[c].of = Episodes, NEW i \in call[c].due \ dropped PROVE \E a \in found : a[1] = i
      OBVIOUS
    <3>1. i \in call[c].hits /\ Has(points, i) /\ i \in Ids
      BY <1>1 DEF SearchOK, CallRecord
    <3>2. Has(records, i)
      BY <1>1, <3>1 DEF StoreInv
    <3>3. ReadID(i) = i
      BY <1>1, <3>1 DEF SearchOK, ReadID
    <3>4. <<i, records[i]>> \in found
      BY <2>1, <3>1, <3>2, <3>3
    <3> QED
      BY <3>4
  <2>10. SearchOK(r)
    BY <1>1, <2>6, <2>8, <2>9 DEF SearchOK
  <2>11. CallOK(r) /\ Onward(call[c], r)
    BY <2>6, <2>10 DEF CallOK, AddOK, KnownOK, DeleteOK, NewOK, Adding, Written, Onward
  <2> QED
    BY <1>1, <2>3, <2>5, <2>11, CallStep
<1> QED
  BY <1>2, <1>3

LEMMA PopulateStep ==
  ASSUME IInv, NEW c \in Callers, NEW ids, NEW read, Populate(c, ids, read),
         read \subseteq Ids \X Ids
  PROVE  IInv'
<1>1. /\ call[c] \in CallRecord /\ call \in [Callers -> CallRecord] /\ SearchOK(call[c])
      /\ UNCHANGED <<stores, ghosts>> /\ call[c].step = "relations"
  BY DEF IInv, Typed, CallInv, CallOK, Populate, At
<1>2. PICK related \in {{}, {l \in read : \E a \in call[c].answer : a[1] = l[1]}} :
        call' = [call EXCEPT ![c].step = "answered", ![c].related = related]
  BY DEF Populate
<1>3. PICK r : r = [call[c] EXCEPT !.step = "answered", !.related = related]
  OBVIOUS
<1>4. related \subseteq Ids \X Ids
  BY <1>2
<1>5. /\ r \in CallRecord /\ call' = [call EXCEPT ![c] = r]
      /\ r.step = "answered" /\ r.answer = call[c].answer /\ r.cut = call[c].cut /\ r.id = call[c].id
      /\ r.memory = call[c].memory /\ r.gone = call[c].gone /\ r.due = call[c].due
      /\ r.related = related /\ r.of = call[c].of
  BY <1>1, <1>2, <1>3, <1>4 DEF CallRecord, Steps
<1>6. SearchOK(r)
  BY <1>1, <1>4, <1>5 DEF SearchOK
<1>7. CallOK(r) /\ Onward(call[c], r)
  BY <1>5, <1>6 DEF CallOK, AddOK, KnownOK, DeleteOK, NewOK, Adding, Written, Onward
<1> QED
  BY <1>1, <1>5, <1>7, CallStep
-------------------------------------------------------------------------------------
(* Steps that change the stores or the ghosts.                                     *)
Moved(q, r) == /\ r.id = q.id /\ r.memory = q.memory /\ r.target = q.target /\ r.sure = q.sure
               /\ r.known = q.known /\ r.of = q.of /\ r.gone = q.gone /\ r.due = q.due
               /\ r.answer = q.answer /\ r.related = q.related

LEMMA GotoFacts ==
  ASSUME Typed, NEW c \in Callers, NEW s \in Steps, Goto(c, s)
  PROVE  \E r \in CallRecord : call' = [call EXCEPT ![c] = r] /\ r.step = s /\ Moved(call[c], r)
<1>1. call[c] \in CallRecord /\ call \in [Callers -> CallRecord]
  BY DEF Typed
<1>2. PICK r : r = [call[c] EXCEPT !.step = s]
  OBVIOUS
<1>3. r \in CallRecord /\ r.step = s /\ Moved(call[c], r)
  BY <1>1, <1>2 DEF CallRecord, Moved
<1>4. call' = [call EXCEPT ![c] = r]
  BY <1>1, <1>2 DEF Goto
<1> QED
  BY <1>3, <1>4

LEMMA ReturnFacts ==
  ASSUME Typed, NEW c \in Callers, Return(c)
  PROVE  \E r \in CallRecord : call' = [call EXCEPT ![c] = r] /\ CallOK(r)' /\ r.step = "idle" /\ r.id = None
<1>1. PICK r : r = Idle
  OBVIOUS
<1> QED
  BY <1>1, IdleFacts, IdleOK DEF Return

LEMMA MovedSearch ==
  ASSUME NEW q \in CallRecord, NEW r \in CallRecord, SearchOK(q), Moved(q, r),
         r.step \notin {"search", "fetch", "relations", "answered"}
  PROVE  SearchOK(r)
BY DEF SearchOK, Moved

(* What an Add knows of its own ID and of those of others.                         *)
LEMMA AddFacts ==
  ASSUME IInv, NEW c \in Callers, Adding(call[c])
  PROVE  /\ call[c] \in CallRecord /\ CallOK(call[c])
         /\ call[c].id \in Ids /\ call[c].memory \in Memories /\ call[c].memory \in Memory
         /\ ~Has(points, call[c].id) /\ call[c].id \notin dropped /\ stored[call[c].id] = NoPromise
         /\ \A d \in Callers \ {c} : call[d].id # call[c].id /\ PairOK(call[c], call[d])
<1>1. /\ call[c] \in CallRecord /\ CallOK(call[c])
      /\ \A d \in Callers \ {c} : PairOK(call[c], call[d])
  BY DEF IInv, Typed, CallInv, PairInv
<1> QED
  BY <1>1, MemoryFacts DEF CallOK, AddOK, PairOK, Points

LEMMA SaveStep ==
  ASSUME IInv, NEW c \in Callers, NEW ids, Save(c, ids)
  PROVE  IInv'
<1>1. /\ Typed /\ StoreInv /\ StoredInv /\ CallInv /\ PairInv /\ ConceptsDistinct
      /\ call[c].step = "record" /\ UNCHANGED <<points, links, stored, dropped, doubtful>>
  BY DEF IInv, Save, At, ghosts
<1>2. CASE UNCHANGED records /\ Return(c)
  BY <1>1, <1>2, ReturnStep DEF stores, ghosts
<1>3. CASE ~(UNCHANGED records /\ Return(c))
  <2>1. PICK q, i, m : q = call[c] /\ i = q.id /\ m = q.memory
    OBVIOUS
  <2>2. /\ q \in CallRecord /\ CallOK(q) /\ q.step = "record" /\ Adding(q) /\ Written(q)
        /\ i \in Ids /\ m \in Memories /\ m \in Memory
        /\ ~Has(points, i) /\ i \notin dropped /\ stored[i] = NoPromise
        /\ \A d \in Callers \ {c} : call[d].id # i
    BY <1>1, <2>1, AddFacts DEF Adding, Written
  <2>3. /\ records' = [records EXCEPT ![i] = m] /\ records \in [Ids -> Memory]
        /\ Goto(c, "link") \/ Return(c)
    BY <1>1, <1>3, <2>1 DEF Save, Typed
  <2>4. PICK r \in CallRecord : /\ call' = [call EXCEPT ![c] = r]
                                /\ \/ r.step = "link" /\ Moved(q, r)
                                   \/ r.step = "idle" /\ CallOK(r)' /\ r.id = None
    BY <1>1, <2>1, <2>3, GotoFacts, ReturnFacts DEF Steps
  <2>5. Typed'
    BY <1>1, <2>2, <2>3, <2>4 DEF Typed
  <2>6. m # NoMemory /\ m.topic # None
    BY <2>2, MemoryFacts
  <2>7. Calm
    BY <1>1, <2>2, <2>3, <2>6 DEF Calm, Has
  <2>8. StoreInv'
    BY <1>1, <2>2, <2>3, <2>6 DEF StoreInv, Has, Typed
  <2>9. StoredInv' /\ ConceptsDistinct'
    BY <1>1, <2>7, CalmStored
  <2>10. PairInv'
    <3>1. Onward(q, r)
      BY <2>2, <2>4 DEF Onward, Moved, Adding, Written
    <3> QED
      BY <1>1, <2>1, <2>4, <3>1, PairKeeps
  <2>11. CallOK(r)'
    <3>1. CASE r.step = "link" /\ Moved(q, r)
      <4>1. SearchOK(r)'
        BY <1>1, <2>2, <2>5, <2>7, <3>1, MovedSearch, CalmSearch DEF CallOK
      <4>2. AddOK(r)'
        <5>1. r.id = i /\ r.memory = m /\ r.step = "link" /\ r.target = q.target /\ r.sure = q.sure
          BY <2>1, <3>1 DEF Moved
        <5>2. records'[i] = m
          BY <2>2, <2>3
        <5>3. q.sure => q.target \in Ids /\ (Has(records', q.target) \/ q.target \in dropped')
          BY <1>1, <2>2, <2>7 DEF CallOK, AddOK, Calm
        <5>4. i \in Concepts => q.target \in Concepts \cup {None}
          BY <2>1, <2>2 DEF CallOK, AddOK
        <5> QED
          BY <1>1, <2>2, <5>1, <5>2, <5>3, <5>4 DEF AddOK, Points
      <4>3. NewOK(r)'
        BY <1>1, <2>2, <3>1 DEF Moved, CallOK, NewOK, Written
      <4> QED
        BY <3>1, <4>1, <4>2, <4>3 DEF CallOK, KnownOK, DeleteOK
    <3> QED
      BY <2>4, <3>1
  <2>12. \A d \in Callers \ {c} : NewOK(call[d])'
    BY <1>1, <2>4 DEF CallInv, CallOK, NewOK, Typed, Written
  <2>13. CallInv'
    BY <1>1, <2>2, <2>3, <2>4, <2>5, <2>7, <2>11, <2>12, CallersKeep DEF CallInv, CallOK, AddOK, Points
  <2> QED
    BY <2>5, <2>8, <2>9, <2>10, <2>13 DEF IInv
<1> QED
  BY <1>2, <1>3

(* A relation that is written, or fails and leaves its source doubtful.            *)
LEMMA RelateKeeps ==
  ASSUME IInv, NEW c \in Callers, NEW source, NEW checked \in BOOLEAN, Relate(c, source, checked), source \in Ids,
         source \in Concepts => checked /\ call[c].target \in Concepts \cup {None},
         UNCHANGED <<records, points, stored, dropped>>,
         NEW r \in CallRecord, call' = [call EXCEPT ![c] = r], Onward(call[c], r)
  PROVE  /\ Typed' /\ Calm
         /\ CallOK(r)' => IInv'
<1>1. /\ Typed /\ StoreInv /\ StoredInv /\ CallInv /\ PairInv /\ ConceptsDistinct
      /\ call[c] \in CallRecord
  BY DEF IInv, Typed
<1>2. PICK target : target = call[c].target
  OBVIOUS
<1>3. /\ target \in Id
      /\ \/ links' = links
         \/ /\ links' = links \cup {<<source, target>>} /\ target # None
            /\ source \in Concepts => /\ target \in Concepts
                                      /\ Has(records, source) /\ Has(records, target)
      /\ doubtful' = doubtful \/ doubtful' = doubtful \cup {source}
  BY <1>1, <1>2 DEF Relate, CallRecord
<1>4. Typed' /\ Calm
  <2>1. links' \subseteq Ids \X Ids /\ doubtful' \subseteq Ids
    BY <1>1, <1>3 DEF Typed, Id
  <2>2. Typed'
    BY <1>1, <2>1 DEF Typed
  <2>3. Calm
    BY <1>1, <1>3 DEF Calm
  <2> QED
    BY <2>2, <2>3
<1>5. StoreInv'
  BY <1>1, <1>3 DEF StoreInv
<1>6. StoredInv' /\ ConceptsDistinct'
  BY <1>1, <1>4, CalmStored
<1>7. PairInv'
  BY <1>1, <1>3, PairKeeps
<1>8. ASSUME CallOK(r)' PROVE CallInv'
  <2>1. \A d \in Callers \ {c} : NewOK(call[d])'
    BY <1>1, <1>3 DEF CallInv, CallOK, NewOK, Typed, Written
  <2>2. ASSUME NEW d \in Callers \ {c}, Adding(call[d])
        PROVE  /\ ~Has(points', call[d].id) /\ call[d].id \notin dropped'
               /\ stored'[call[d].id] = NoPromise /\ records'[call[d].id] = records[call[d].id]
    BY <2>2, AddFacts
  <2> QED
    BY <1>1, <1>4, <1>8, <2>1, <2>2, CallersKeep
<1> QED
  BY <1>4, <1>5, <1>6, <1>7, <1>8 DEF IInv

LEMMA LinkStep ==
  ASSUME IInv, NEW c \in Callers, NEW ids, NEW checked \in BOOLEAN, Link(c, ids, checked),
         ids = Episodes \/ (ids = Concepts /\ checked)
  PROVE  IInv'
<1>1. /\ call[c].step = "link" /\ Relate(c, call[c].id, checked) /\ Goto(c, "point")
      /\ UNCHANGED <<records, points, stored, dropped>> /\ Typed
  BY DEF IInv, Link, At
<1>2. PICK q, i, t : q = call[c] /\ i = q.id /\ t = q.target
  OBVIOUS
<1>3. /\ q \in CallRecord /\ CallOK(q) /\ q.step = "link" /\ Adding(q) /\ Written(q)
      /\ i \in Ids /\ q.memory \in Memories /\ ~Has(points, i) /\ i \notin dropped /\ stored[i] = NoPromise
  BY <1>1, <1>2, AddFacts DEF Adding, Written
<1>4. PICK r \in CallRecord : call' = [call EXCEPT ![c] = r] /\ r.step = "point" /\ Moved(q, r)
  BY <1>1, <1>2, GotoFacts DEF Steps
<1>5. Onward(q, r)
  BY <1>3, <1>4 DEF Onward, Moved
<1>6. Typed' /\ Calm /\ (CallOK(r)' => IInv')
  <2>1. i \in Concepts => checked /\ t \in Concepts \cup {None}
    BY <1>2, <1>3, LongTermAssumption DEF Link, CallOK, AddOK
  <2> QED
    BY <1>1, <1>2, <1>3, <1>4, <1>5, <2>1, RelateKeeps
<1>7. SearchOK(r)'
  BY <1>1, <1>3, <1>4, <1>6, MovedSearch, CalmSearch DEF CallOK
<1>8. q.sure /\ t \notin dropped \cup {None} /\ i \notin doubtful' => <<i, t>> \in links'
  <2> SUFFICES ASSUME q.sure, t \notin dropped, i \notin doubtful' PROVE <<i, t>> \in links'
    OBVIOUS
  <2>1. Has(records, t) /\ t \in Ids
    BY <1>2, <1>3 DEF CallOK, AddOK
  <2>2. Has(records, i)
    BY <1>2, <1>3, MemoryFacts DEF CallOK, AddOK, Has
  <2>3. t # None
    BY <2>1, LongTermAssumption
  <2> QED
    BY <1>1, <1>2, <2>1, <2>2, <2>3 DEF Relate
<1>9. AddOK(r)'
  <2>1. r.id = i /\ r.memory = q.memory /\ r.target = t /\ r.sure = q.sure
    BY <1>2, <1>4 DEF Moved
  <2>2. records[i] = q.memory /\ (i \in Concepts => t \in Concepts \cup {None})
    BY <1>2, <1>3 DEF CallOK, AddOK
  <2> QED
    BY <1>1, <1>3, <1>4, <1>8, <2>1, <2>2 DEF AddOK, Points
<1>10. NewOK(r)'
  BY <1>1, <1>3, <1>4, <1>6 DEF Moved, CallOK, NewOK, Calm
<1> QED
  BY <1>4, <1>6, <1>7, <1>9, <1>10 DEF CallOK, KnownOK, DeleteOK

LEMMA LinkKnownStep ==
  ASSUME IInv, NEW c \in Callers, LinkKnown(c)
  PROVE  IInv'
<1>1. /\ call[c].step = "relate" /\ Relate(c, call[c].known, TRUE) /\ Return(c)
      /\ UNCHANGED <<records, points, stored, dropped>> /\ Typed /\ CallOK(call[c])
  BY DEF IInv, LinkKnown, At, CallInv
<1>2. PICK r \in CallRecord : call' = [call EXCEPT ![c] = r] /\ CallOK(r)' /\ r.step = "idle" /\ r.id = None
  BY <1>1, ReturnFacts
<1>3. /\ call[c].known \in Ids /\ call[c].known \in Concepts
      /\ call[c].target \in Concepts \cup {None}
  BY <1>1 DEF CallOK, AddOK, Adding, KnownOK, Ids
<1>4. Onward(call[c], r)
  BY <1>2 DEF Onward, Adding, Written
<1> QED
  BY <1>1, <1>2, <1>3, <1>4, RelateKeeps

LEMMA UpsertStep ==
  ASSUME IInv, NEW c \in Callers, NEW ids, Upsert(c, ids)
  PROVE  IInv'
<1>1. /\ Typed /\ StoreInv /\ StoredInv /\ CallInv /\ PairInv /\ ConceptsDistinct
      /\ call[c].step = "point" /\ Return(c) /\ UNCHANGED <<records, links, dropped, doubtful>>
  BY DEF IInv, Upsert, At
<1>2. CASE UNCHANGED <<points, stored>>
  BY <1>1, <1>2, ReturnStep DEF stores, ghosts
<1>3. CASE ~UNCHANGED <<points, stored>>
  <2>1. PICK q, i, m : q = call[c] /\ i = q.id /\ m = q.memory
    OBVIOUS
  <2>2. /\ q \in CallRecord /\ CallOK(q) /\ q.step = "point" /\ Adding(q) /\ Written(q)
        /\ i \in Ids /\ m \in Memories /\ m \in Memory
        /\ ~Has(points, i) /\ i \notin dropped /\ stored[i] = NoPromise
        /\ \A d \in Callers \ {c} : call[d].id # i /\ PairOK(q, call[d])
    BY <1>1, <2>1, AddFacts DEF Adding, Written
  <2>3. PICK p : p = Promise(c)
    OBVIOUS
  <2>4. /\ p \in Promised /\ p.memory = m
        /\ p.target = (IF q.sure THEN q.target ELSE None)
    BY <2>1, <2>2, <2>3 DEF Promise, Promised, CallRecord, Id
  <2>5. /\ points' = [points EXCEPT ![i] = m] /\ points \in [Ids -> Memory]
        /\ stored' = stored \/ stored' = [stored EXCEPT ![i] = p]
        /\ stored \in [Ids -> Promised]
    BY <1>1, <1>3, <2>1, <2>3 DEF Upsert, Typed
  <2>6. PICK r \in CallRecord : call' = [call EXCEPT ![c] = r] /\ CallOK(r)' /\ r.step = "idle" /\ r.id = None
    BY <1>1, ReturnFacts
  <2>7. Typed'
    BY <1>1, <2>2, <2>4, <2>5, <2>6 DEF Typed
  <2>8. Calm
    BY <1>1, <2>2, <2>5 DEF Calm, Has, Typed
  <2>9. records[i] = m /\ Has(records, i) /\ m # NoMemory
    BY <2>1, <2>2, MemoryFacts DEF CallOK, AddOK, Has
  <2>10. /\ points'[i] = m /\ Has(points', i)
         /\ \A j \in Ids \ {i} : points'[j] = points[j] /\ stored'[j] = stored[j]
         /\ stored'[i] = NoPromise \/ stored'[i] = p
    BY <2>2, <2>5, <2>9 DEF Has
  <2>11. StoreInv'
    BY <1>1, <2>2, <2>9, <2>10 DEF StoreInv, Has, Typed
  <2>12. StoredInv'
    <3> SUFFICES ASSUME NEW j \in Ids, stored'[j] # NoPromise
                 PROVE  /\ j \notin dropped' /\ Has(points', j) /\ points'[j] = stored'[j].memory
                        /\ stored'[j].target \notin dropped' \cup {None} /\ j \notin doubtful' =>
                             <<j, stored'[j].target>> \in links'
      BY DEF StoredInv, Has
    <3>1. CASE j = i
      <4>1. stored'[j] = p
        BY <2>10, <3>1
      <4>2. p.target \notin dropped \cup {None} /\ i \notin doubtful => <<i, p.target>> \in links
        BY <2>1, <2>2, <2>4 DEF CallOK, AddOK
      <4> QED
        BY <1>1, <2>2, <2>4, <2>10, <3>1, <4>1, <4>2
    <3>2. CASE j # i
      BY <1>1, <2>10, <3>2 DEF StoredInv, Has
    <3> QED
      BY <3>1, <3>2
  <2>13. ConceptsDistinct'
    <3> SUFFICES ASSUME NEW j \in Concepts \ (dropped \cup doubtful), NEW k \in Concepts \ (dropped \cup doubtful),
                        stored'[j] # NoPromise, stored'[k] # NoPromise,
                        stored'[j].memory.topic = stored'[k].memory.topic, j # k
                 PROVE  FALSE
      BY <1>1 DEF ConceptsDistinct
    <3>1. ASSUME NEW x \in Concepts \ (dropped \cup doubtful), NEW y \in Concepts \ (dropped \cup doubtful),
                 x = i, y # i, stored'[x] # NoPromise, stored'[y] # NoPromise,
                 stored'[x].memory.topic = stored'[y].memory.topic
          PROVE  FALSE
      <4>1. x \in Ids /\ y \in Ids
        BY DEF Ids
      <4>2. stored[y] # NoPromise /\ stored[y].memory.topic = m.topic
        BY <2>4, <2>10, <3>1, <4>1
      <4>3. Has(points, y) /\ points[y].topic = m.topic
        BY <1>1, <4>1, <4>2 DEF StoredInv
      <4> QED
        BY <2>1, <2>2, <3>1, <4>3 DEF CallOK, NewOK
    <3>2. CASE j # i /\ k # i
      BY <1>1, <2>10, <3>2 DEF ConceptsDistinct, Ids
    <3> QED
      BY <3>1, <3>2
  <2>14. PairInv'
    <3>1. Onward(call[c], r)
      BY <2>6 DEF Onward, Adding, Written
    <3> QED
      BY <1>1, <2>6, <3>1, PairKeeps
  <2>15. ASSUME NEW d \in Callers \ {c} PROVE NewOK(call[d])'
    <3>1. call'[d] = call[d] /\ NewOK(call[d]) /\ PairOK(q, call[d])
      BY <1>1, <2>2, <2>6 DEF CallInv, CallOK, Typed
    <3> SUFFICES ASSUME Written(call[d]), call[d].id \in Concepts \ doubtful, NEW j \in Concepts,
                        Has(points', j), points'[j].topic = call[d].memory.topic
                 PROVE  j \in dropped \cup doubtful
      BY <1>1, <3>1 DEF NewOK, Written, Has
    <3>2. CASE j = i
      BY <2>1, <2>2, <2>10, <3>1, <3>2 DEF PairOK
    <3>3. CASE j # i
      BY <2>10, <3>1, <3>3 DEF NewOK, Ids, Has
    <3> QED
      BY <3>2, <3>3
  <2>16. CallInv'
    <3>1. ASSUME NEW d \in Callers \ {c}, Adding(call[d])
          PROVE  /\ ~Has(points', call[d].id) /\ call[d].id \notin dropped'
                 /\ stored'[call[d].id] = NoPromise /\ records'[call[d].id] = records[call[d].id]
      <4>1. /\ call[d].id \in Ids /\ ~Has(points, call[d].id) /\ call[d].id \notin dropped
            /\ stored[call[d].id] = NoPromise /\ call[d].id # i
        BY <2>2, <3>1, AddFacts
      <4> QED
        BY <1>1, <2>10, <4>1 DEF Has
    <3> QED
      BY <1>1, <2>6, <2>7, <2>8, <2>15, <3>1, CallersKeep
  <2> QED
    BY <2>7, <2>11, <2>12, <2>13, <2>14, <2>16 DEF IInv
<1> QED
  BY <1>2, <1>3

LEMMA CheckStep ==
  ASSUME IInv, NEW c \in Callers, CheckKnown(c)
  PROVE  IInv'
<1>1. /\ Typed /\ StoreInv /\ StoredInv /\ CallInv /\ PairInv /\ ConceptsDistinct
      /\ call[c].step = "check" /\ UNCHANGED <<stores, stored, dropped>>
  BY DEF IInv, CheckKnown, CheckAmong, At
<1>2. PICK q, i, t : q = call[c] /\ i = q.id /\ t = q.memory.topic
  OBVIOUS
<1>3. /\ q \in CallRecord /\ CallOK(q) /\ q.step = "check" /\ Adding(q)
      /\ i \in Ids /\ q.memory \in Memories /\ ~Has(points, i) /\ i \notin dropped /\ stored[i] = NoPromise
      /\ \A d \in Callers \ {c} : call[d].id # i /\ PairOK(q, call[d]) /\ PairOK(call[d], q)
  BY <1>1, <1>2, AddFacts DEF Adding, PairInv
<1>4. CASE \E known \in Similar(t) :
             call' = [call EXCEPT ![c].step = "relate", ![c].known = known] /\ UNCHANGED doubtful
  <2>1. PICK known \in Similar(t) :
          call' = [call EXCEPT ![c].step = "relate", ![c].known = known] /\ UNCHANGED doubtful
    BY <1>4
  <2>2. known \in Ids /\ known \in Concepts
    BY <1>2, <1>3, <2>1, MemoryFacts DEF Similar, Ids
  <2>3. PICK r : r = [q EXCEPT !.step = "relate", !.known = known]
    OBVIOUS
  <2>4. /\ r \in CallRecord /\ r.step = "relate" /\ r.known = known /\ r.id = i /\ r.memory = q.memory
        /\ r.gone = q.gone /\ r.due = q.due /\ r.answer = q.answer /\ r.related = q.related
        /\ r.of = q.of /\ r.target = q.target
    BY <1>2, <1>3, <2>2, <2>3 DEF CallRecord, Steps, Id
  <2>5. call' = [call EXCEPT ![c] = r]
    BY <1>1, <1>2, <2>1, <2>3 DEF Typed
  <2>6. CallOK(r)
    BY <1>2, <1>3, <2>2, <2>4 DEF CallOK, AddOK, KnownOK, DeleteOK, SearchOK, NewOK, Adding, Written, Points
  <2>7. Onward(q, r)
    BY <1>2, <1>3, <2>4 DEF Onward, Written
  <2> QED
    BY <1>1, <1>2, <2>1, <2>4, <2>5, <2>6, <2>7, CallStep DEF ghosts
<1>5. CASE Goto(c, "record")
  <2>1. PICK r \in CallRecord : call' = [call EXCEPT ![c] = r] /\ r.step = "record" /\ Moved(q, r)
    BY <1>1, <1>2, <1>5, GotoFacts DEF Steps
  <2>2. r.id = i /\ r.memory = q.memory /\ r.target = q.target /\ r.sure = q.sure
    BY <1>2, <2>1 DEF Moved
  <2>3. SearchOK(r)
    BY <1>3, <2>1, MovedSearch DEF CallOK
  <2>4. AddOK(r)
    BY <1>2, <1>3, <2>1, <2>2 DEF AddOK, CallOK, Adding
  <2>5. KnownOK(r) /\ DeleteOK(r)
    BY <2>1 DEF KnownOK, DeleteOK
  <2>6. CASE Similar(t) = {} /\ ~Unseen(t) /\ UNCHANGED doubtful
    <3>1. NewOK(r)
      BY <1>2, <2>2, <2>6 DEF NewOK, Similar
    <3>2. ASSUME NEW d \in Callers \ {c} PROVE PairOK(r, call[d]) /\ PairOK(call[d], r)
      BY <1>2, <1>3, <2>2, <2>6 DEF PairOK, Unseen, Written
    <3> QED
      BY <1>1, <2>1, <2>3, <2>4, <2>5, <2>6, <3>1, <3>2, CallStep DEF CallOK, ghosts
  <2>7. CASE doubtful' = doubtful \cup {i}
    <3>1. Typed'
      BY <1>1, <1>3, <2>1, <2>7 DEF Typed, stores
    <3>2. Calm
      BY <1>1, <2>7 DEF Calm, stores
    <3>3. StoreInv'
      BY <1>1 DEF StoreInv, stores
    <3>4. StoredInv' /\ ConceptsDistinct'
      BY <1>1, <3>2, CalmStored
    <3>5. PairInv'
      <4> SUFFICES ASSUME NEW x \in Callers, NEW y \in Callers, x # y PROVE PairOK(call[x], call[y])'
        BY DEF PairInv
      <4>1. /\ \A d \in Callers : call'[d] = IF d = c THEN r ELSE call[d]
            /\ PairOK(call[x], call[y])
        BY <1>1, <2>1 DEF Typed, PairInv
      <4>2. CASE x = c
        BY <1>2, <1>3, <2>2, <2>7, <4>1, <4>2 DEF PairOK, Adding
      <4>3. CASE y = c
        BY <1>2, <1>3, <2>2, <2>7, <4>1, <4>3 DEF PairOK, Adding
      <4>4. CASE x # c /\ y # c
        BY <2>7, <4>1, <4>4 DEF PairOK, Adding, Written
      <4> QED
        BY <4>2, <4>3, <4>4
    <3>6. CallOK(r)'
      <4>1. AddOK(r)'
        BY <1>1, <2>1, <2>4 DEF AddOK, Adding, Points, stores
      <4>2. KnownOK(r)' /\ DeleteOK(r)' /\ NewOK(r)'
        BY <2>1, <2>2, <2>7 DEF KnownOK, DeleteOK, NewOK
      <4>3. SearchOK(r)'
        BY <1>1, <2>3, <3>1, <3>2, CalmSearch
      <4> QED
        BY <4>1, <4>2, <4>3 DEF CallOK
    <3>7. \A d \in Callers \ {c} : NewOK(call[d])'
      BY <1>1, <2>1, <2>7 DEF CallInv, CallOK, NewOK, Typed, Written, stores
    <3>8. ASSUME NEW d \in Callers \ {c}, Adding(call[d])
          PROVE  /\ ~Has(points', call[d].id) /\ call[d].id \notin dropped'
                 /\ stored'[call[d].id] = NoPromise /\ records'[call[d].id] = records[call[d].id]
      BY <1>1, <3>8, AddFacts DEF stores
    <3>9. CallInv'
      BY <1>1, <2>1, <3>1, <3>2, <3>6, <3>7, <3>8, CallersKeep
    <3> QED
      BY <3>1, <3>3, <3>4, <3>5, <3>9 DEF IInv
  <2>8. (Similar(t) = {} /\ ~Unseen(t) /\ UNCHANGED doubtful) \/ doubtful' = doubtful \cup {i}
        \/ (\E known \in Similar(t) :
              call' = [call EXCEPT ![c].step = "relate", ![c].known = known] /\ UNCHANGED doubtful)
    BY <1>2 DEF CheckKnown, CheckAmong
  <2> QED
    BY <1>4, <2>6, <2>7, <2>8
<1> QED
  BY <1>2, <1>4, <1>5 DEF CheckKnown, CheckAmong

(* No Add has the ID of a memory somebody has learnt of.                           *)
LEMMA StartDeleteStep ==
  ASSUME IInv, NEW c \in Callers, StartDelete(c)
  PROVE  IInv'
<1>1. /\ Typed /\ StoreInv /\ StoredInv /\ CallInv /\ PairInv /\ ConceptsDistinct
      /\ UNCHANGED <<records, points, links, doubtful>>
  BY DEF IInv, StartDelete, stores
<1>2. PICK i \in Ids : /\ Learnt(i)
                       /\ call' = [call EXCEPT ![c] = [Idle EXCEPT !.step = "delete", !.id = i]]
                       /\ dropped' = dropped \cup {i}
                       /\ stored' = [stored EXCEPT ![i] = NoPromise]
  BY DEF StartDelete
<1>3. PICK r : r = [Idle EXCEPT !.step = "delete", !.id = i]
  OBVIOUS
<1>4. /\ r \in CallRecord /\ call' = [call EXCEPT ![c] = r] /\ r.step = "delete" /\ r.id = i
      /\ r.gone = {} /\ r.due = {} /\ r.answer = {} /\ r.related = {}
  BY <1>2, <1>3, IdleFacts DEF CallRecord, Steps, Id
<1>5. stored \in [Ids -> Promised] /\ NoPromise \in Promised
  BY <1>1, MemoryFacts DEF Typed, NoPromise, Promised, Id
<1>6. Typed'
  BY <1>1, <1>2, <1>4, <1>5 DEF Typed
<1>7. Calm
  BY <1>1, <1>2 DEF Calm
<1>8. Has(points, i) \/ ~Has(records, i)
  BY <1>1, <1>2 DEF Learnt, StoreInv, StoredInv
<1>9. StoreInv'
  BY <1>1, <1>2, <1>8 DEF StoreInv
<1>10. StoredInv'
  <2>1. \A j \in Ids : stored'[j] # NoPromise => j # i /\ stored'[j] = stored[j]
    BY <1>2, <1>5
  <2> QED
    BY <1>1, <1>2, <2>1 DEF StoredInv
<1>11. ConceptsDistinct'
  BY <1>1, <1>2, <1>5 DEF ConceptsDistinct, Ids
<1>12. \A d \in Callers : Adding(call[d]) => call[d].id # i
  BY <1>1, <1>2, AddFacts DEF Learnt
<1>13. PairInv'
  <2>1. \A d \in Callers \ {c} : PairOK(r, call[d]) /\ PairOK(call[d], r)
    BY <1>4, <1>12 DEF PairOK, Adding, Written
  <2> QED
    BY <1>1, <1>4, <2>1, PairNew
<1>14. CallOK(r)'
  BY <1>2, <1>4 DEF CallOK, AddOK, KnownOK, DeleteOK, SearchOK, NewOK, Adding, Written
<1>15. CallInv'
  <2>1. \A d \in Callers \ {c} : NewOK(call[d])'
    BY <1>1, <1>2, <1>4 DEF CallInv, CallOK, NewOK, Typed, Written
  <2>2. ASSUME NEW d \in Callers \ {c}, Adding(call[d])
        PROVE  /\ ~Has(points', call[d].id) /\ call[d].id \notin dropped'
               /\ stored'[call[d].id] = NoPromise /\ records'[call[d].id] = records[call[d].id]
    BY <1>1, <1>2, <1>5, <1>12, <2>2, AddFacts
  <2> QED
    BY <1>1, <1>4, <1>6, <1>7, <1>14, <2>1, <2>2, CallersKeep
<1> QED
  BY <1>6, <1>9, <1>10, <1>11, <1>13, <1>15 DEF IInv

(* Deletions take away what is marked as dropped, the record first.                *)
LEMMA TakeAway ==
  ASSUME IInv, NEW c \in Callers, NEW i \in dropped, UNCHANGED ghosts, NEW r \in CallRecord,
         call' = [call EXCEPT ![c] = r], CallOK(r)', Onward(call[c], r), ~Adding(call[c]),
         \/ /\ records' = [records EXCEPT ![i] = NoMemory] /\ UNCHANGED points
            /\ links' = Detached(i) \/ (links' = links /\ i \notin Concepts)
         \/ /\ points' = [points EXCEPT ![i] = NoMemory] /\ ~Has(records, i) /\ UNCHANGED <<records, links>>
  PROVE  IInv'
<1>1. /\ Typed /\ StoreInv /\ StoredInv /\ CallInv /\ PairInv /\ ConceptsDistinct /\ i \in Ids
      /\ UNCHANGED <<stored, dropped, doubtful>>
  BY DEF IInv, Typed, ghosts
<1>2. Typed'
  BY <1>1, MemoryFacts DEF Typed, Detached
<1>3. Calm
  BY <1>1 DEF Calm, Has, Typed, Detached
<1>4. StoreInv'
  BY <1>1 DEF StoreInv, Has, Typed, Detached
<1>5. StoredInv' /\ ConceptsDistinct'
  BY <1>1, <1>3, CalmStored
<1>6. PairInv'
  BY <1>1, PairKeeps
<1>7. CallInv'
  <2>1. \A j \in Ids : Has(points', j) => Has(points, j)
    BY <1>1 DEF Has, Typed
  <2>2. ASSUME NEW d \in Callers \ {c} PROVE NewOK(call[d])'
    <3>1. PICK q \in CallRecord : q = call[d] /\ call'[d] = q /\ NewOK(q)
      BY <1>1 DEF Typed, CallInv, CallOK
    <3>2. NewOK(q)'
      BY <1>1, <1>3, <2>1, <3>1, CalmNew
    <3> QED
      BY <3>1, <3>2
  <2>3. ASSUME NEW d \in Callers \ {c}, Adding(call[d])
        PROVE  /\ ~Has(points', call[d].id) /\ call[d].id \notin dropped'
               /\ stored'[call[d].id] = NoPromise /\ records'[call[d].id] = records[call[d].id]
    BY <1>1, <2>1, <2>3, AddFacts DEF Typed
  <2> QED
    BY <1>1, <1>2, <1>3, <2>2, <2>3, CallersKeep
<1> QED
  BY <1>2, <1>4, <1>5, <1>6, <1>7 DEF IInv

LEMMA DeleteRecordStep ==
  ASSUME IInv, NEW c \in Callers, NEW ids, NEW cascade \in BOOLEAN, DeleteRecord(c, ids, cascade),
         ids = Episodes \/ (ids = Concepts /\ cascade)
  PROVE  IInv'
<1>1. /\ Typed /\ CallOK(call[c]) /\ call[c] \in CallRecord /\ call[c].step = "delete"
      /\ UNCHANGED points /\ UNCHANGED ghosts
  BY DEF IInv, CallInv, Typed, DeleteRecord, At
<1>2. CASE Return(c) /\ UNCHANGED <<records, links>>
  BY <1>1, <1>2, ReturnStep DEF stores
<1>3. CASE ~(Return(c) /\ UNCHANGED <<records, links>>)
  <2>1. PICK q, i : q = call[c] /\ i = q.id
    OBVIOUS
  <2>2. i \in dropped /\ i \in Ids /\ SearchOK(q) /\ q \in CallRecord
    BY <1>1, <2>1 DEF CallOK, DeleteOK, Typed
  <2>3. /\ records' = [records EXCEPT ![i] = NoMemory]
        /\ links' = Detached(i) \/ (links' = links /\ i \notin Concepts)
        /\ Goto(c, "unpoint") \/ Return(c)
    BY <1>3, <2>1, LongTermAssumption DEF DeleteRecord
  <2>4. PICK r \in CallRecord : /\ call' = [call EXCEPT ![c] = r]
                                /\ \/ r.step = "unpoint" /\ Moved(q, r)
                                   \/ r.step = "idle" /\ CallOK(r)' /\ r.id = None
    BY <1>1, <2>1, <2>3, GotoFacts, ReturnFacts DEF Steps
  <2>5. Typed' /\ Calm
    <3>1. Typed'
      BY <1>1, <2>3, <2>4, MemoryFacts DEF Typed, Detached, ghosts
    <3>2. Calm
      BY <1>1, <2>2, <2>3 DEF Calm, Has, Typed, Detached, ghosts
    <3> QED
      BY <3>1, <3>2
  <2>6. CallOK(r)'
    <3>1. CASE r.step = "unpoint" /\ Moved(q, r)
      <4>1. SearchOK(r)'
        BY <1>1, <2>2, <2>5, <3>1, MovedSearch, CalmSearch
      <4>2. DeleteOK(r)'
        BY <1>1, <2>1, <2>2, <2>3, <3>1 DEF Moved, DeleteOK, Has, Typed, ghosts
      <4> QED
        BY <3>1, <4>1, <4>2 DEF CallOK, AddOK, KnownOK, NewOK, Adding, Written
    <3> QED
      BY <2>4, <3>1
  <2>7. Onward(q, r) /\ ~Adding(q)
    BY <1>1, <2>1, <2>4 DEF Onward, Moved, Adding, Written
  <2> QED
    BY <1>1, <2>1, <2>2, <2>3, <2>4, <2>6, <2>7, TakeAway
<1> QED
  BY <1>2, <1>3

LEMMA DeletePointStep ==
  ASSUME IInv, NEW c \in Callers, DeletePoint(c)
  PROVE  IInv'
<1>1. /\ Typed /\ CallOK(call[c]) /\ call[c].step = "unpoint" /\ Return(c)
      /\ UNCHANGED <<records, links>> /\ UNCHANGED ghosts
  BY DEF IInv, CallInv, DeletePoint, At
<1>2. CASE UNCHANGED points
  BY <1>1, <1>2, ReturnStep DEF stores
<1>3. CASE ~UNCHANGED points
  <2>1. PICK i : i = call[c].id
    OBVIOUS
  <2>2. i \in dropped /\ ~Has(records, i) /\ points' = [points EXCEPT ![i] = NoMemory]
    BY <1>1, <1>3, <2>1 DEF CallOK, DeleteOK, DeletePoint
  <2>3. PICK r \in CallRecord : call' = [call EXCEPT ![c] = r] /\ CallOK(r)' /\ r.step = "idle" /\ r.id = None
    BY <1>1, ReturnFacts
  <2>4. Onward(call[c], r) /\ ~Adding(call[c])
    BY <1>1, <2>3 DEF Onward, Adding, Written
  <2> QED
    BY <1>1, <2>2, <2>3, <2>4, TakeAway
<1> QED
  BY <1>2, <1>3
-------------------------------------------------------------------------------------
(* The invariant holds from the start and in every step.                           *)
LEMMA InitGood == Init => IInv
<1> SUFFICES ASSUME Init PROVE IInv
  OBVIOUS
<1>1. /\ records = [i \in Ids |-> NoMemory] /\ points = [i \in Ids |-> NoMemory] /\ links = {}
      /\ call = [c \in Callers |-> Idle]
      /\ stored = [i \in Ids |-> NoPromise] /\ dropped = {} /\ doubtful = {}
  BY DEF Init
<1>2. NoPromise \in Promised
  BY MemoryFacts DEF NoPromise, Promised, Id
<1>3. Typed
  BY <1>1, <1>2, MemoryFacts, IdleFacts DEF Typed
<1>4. StoreInv /\ StoredInv /\ ConceptsDistinct
  BY <1>1 DEF StoreInv, StoredInv, ConceptsDistinct, Has, Ids
<1>5. CallInv
  BY <1>1, IdleFacts, IdleOK DEF CallInv
<1>6. PairInv
  BY <1>1, IdleFacts DEF PairInv, PairOK, Adding, Written
<1> QED
  BY <1>3, <1>4, <1>5, <1>6 DEF IInv

LEMMA SearchPhases ==
  ASSUME IInv, NEW c \in Callers,
         \/ RankEpisodes(c) \/ FetchEpisodes(c) \/ RelateEpisodes(c)
         \/ RankConcepts(c) \/ FetchConcepts(c) \/ RelateConcepts(c)
  PROVE  IInv'
<1>1. links \subseteq Ids \X Ids
  BY DEF IInv, Typed
<1>2. CASE RankEpisodes(c) \/ RankConcepts(c)
  BY <1>2, RankStep DEF RankEpisodes, RankConcepts
<1>3. CASE FetchEpisodes(c) \/ FetchConcepts(c)
  BY <1>3, FetchStep DEF FetchEpisodes, FetchConcepts
<1>4. CASE RelateEpisodes(c)
  BY <1>1, <1>4, PopulateStep DEF RelateEpisodes
<1>5. CASE RelateConcepts(c)
  <2>1. PICK read : read = links \cup {<<l[2], l[1]>> : l \in links}
    OBVIOUS
  <2>2. read \subseteq Ids \X Ids
    BY <1>1, <2>1
  <2> QED
    BY <1>5, <2>1, <2>2, PopulateStep DEF RelateConcepts
<1> QED
  BY <1>2, <1>3, <1>4, <1>5

LEMMA NextKeeps == IInv /\ [Next]_vars => IInv'
<1> SUFFICES ASSUME IInv, [Next]_vars PROVE IInv'
  OBVIOUS
<1>1. CASE UNCHANGED vars
  BY <1>1 DEF vars, stores, ghosts, IInv, Typed, StoreInv, StoredInv, CallInv, PairInv, PairOK, CallOK,
     AddOK, KnownOK, DeleteOK, SearchOK, NewOK, Adding, Written, Points, ConceptsDistinct
<1>2. ASSUME NEW c \in Callers, EpisodeStep(c) PROVE IInv'
  <2>1. Enforced \subseteq BOOLEAN
    BY LongTermAssumption
  <2>2. CASE LinkEpisode(c)
    BY <2>1, <2>2, LinkStep DEF LinkEpisode
  <2>3. CASE DeleteEpisode(c)
    BY <2>1, <2>3, DeleteRecordStep DEF DeleteEpisode
  <2> QED
    BY <1>2, <2>2, <2>3, AddStep, SaveStep, UpsertStep, SearchPhases
       DEF EpisodeStep, AddEpisode, SaveEpisode, UpsertEpisode
<1>3. ASSUME NEW c \in Callers, ConceptStep(c) PROVE IInv'
  BY <1>3, AddStep, SaveStep, LinkStep, UpsertStep, DeleteRecordStep, SearchPhases,
     CheckStep, LinkKnownStep
     DEF ConceptStep, AddConcept, CreateConcept, LinkConcept, UpsertConcept, DeleteConcept
<1>4. ASSUME NEW c \in Callers, Dismiss(c) \/ Crash(c) PROVE IInv'
  BY <1>4, ReturnStep DEF Dismiss, Crash
<1> QED
  BY <1>1, <1>2, <1>3, <1>4, StartDeleteStep, DeletePointStep, SearchStep DEF Next

(* The inductive invariant.                                                        *)
THEOREM Invariance == Spec => []IInv
BY InitGood, NextKeeps, PTL DEF Spec

(* The primary store and the vector store agree on what nobody deleted.            *)
THEOREM StoresStayInAgreement == Spec => []StoresAgree
<1>1. IInv => StoresAgree
  BY DEF IInv, StoreInv, StoresAgree
<1> QED
  BY <1>1, Invariance, PTL

(* What an Add reported is there in full.                                          *)
THEOREM AddsAreComplete == Spec => []AddIsComplete
<1>1. IInv => AddIsComplete
  BY DEF IInv, StoredInv, AddIsComplete
<1> QED
  BY <1>1, Invariance, PTL

(* Searches tell only what they may.                                               *)
THEOREM SearchesAreSound == Spec => []AnswersSound
<1>1. IInv => AnswersSound
  BY DEF IInv, CallInv, CallOK, SearchOK, AnswersSound
<1> QED
  BY <1>1, Invariance, PTL

(* Searches that cut nothing off find what was there before them.                  *)
THEOREM SearchesAreComplete == Spec => []AnswersComplete
<1>1. IInv => AnswersComplete
  BY DEF IInv, CallInv, CallOK, SearchOK, AnswersComplete, Whole, Found, At
<1> QED
  BY <1>1, Invariance, PTL

(* Concepts on one topic are only doubled by an Add that could not know.           *)
THEOREM ConceptsStayDistinct == Spec => []ConceptsDistinct
<1>1. IInv => ConceptsDistinct
  BY DEF IInv
<1> QED
  BY <1>1, Invariance, PTL
=====================================================================================
