------------------------------- MODULE LongTermMemory -------------------------------
(* memory/types/episodic.go and semantic.go: a memory is a record of a primary    *)
(* store (a SQLite row, a Neo4j node) and a point of Qdrant.  The two are written *)
(* and deleted one after the other, by any number of callers and without a        *)
(* transaction; a search asks for points first and reads the records they name.   *)
EXTENDS Naturals, FiniteSets

CONSTANTS Episodes, Concepts,  \* IDs: clock readings, each used by one Add
          Callers,             \* goroutines, of one process or of several
          Memories,            \* what is added: session, topic, importance
          Limit,               \* SearchOptions.Limit
          Enforced,            \* whether a pooled SQLite connection has the pragma
                               \* foreign_keys: both occur, it is set on one of them
          MaxAdds,             \* bound: IDs in use at a time
          None

Ids == Episodes \cup Concepts
NoMemory == [session |-> None, topic |-> None, weight |-> 0]

ASSUME LongTermAssumption ==
  /\ Episodes \cap Concepts = {} /\ None \notin Ids /\ Limit \in Nat \ {0}
  /\ Enforced \in (SUBSET BOOLEAN) \ {{}}
  /\ NoMemory \notin Memories
  /\ \A m \in Memories : m = [session |-> m.session, topic |-> m.topic, weight |-> m.weight]
                         /\ m.weight \in Nat /\ m.topic # None

VARIABLES records,   \* the episodes table and the graph: ID -> memory
          points,    \* the collections "episodes" and "semantic": ID -> payload
          links,     \* episode_relations and the edges of the graph
          call,      \* caller -> the call it is in
          stored,    \* ghost: ID -> what the Add that returned it as new was given,
                     \* until a Delete of it
          dropped,   \* ghost: IDs a Delete has been asked for
          doubtful   \* ghost: IDs added without a reliable look for a duplicate,
                     \* or whose relation could not be written

stores == <<records, points, links>>
ghosts == <<stored, dropped, doubtful>>
vars == <<stores, call, ghosts>>
-------------------------------------------------------------------------------------
NoPromise == [memory |-> NoMemory, target |-> None]
Idle == [step |-> "idle", id |-> None, memory |-> NoMemory, target |-> None, sure |-> FALSE,
         known |-> None, of |-> {}, hits |-> {}, cut |-> FALSE, answer |-> {},
         related |-> {}, due |-> {}, gone |-> {}]

Has(store, id) == store[id] # NoMemory
At(c, step) == call[c].step = step
Goto(c, step) == call' = [call EXCEPT ![c].step = step]
Return(c) == call' = [call EXCEPT ![c] = Idle]

Init ==
  /\ records = [i \in Ids |-> NoMemory] /\ points = [i \in Ids |-> NoMemory] /\ links = {}
  /\ call = [c \in Callers |-> Idle]
  /\ stored = [i \in Ids |-> NoPromise] /\ dropped = {} /\ doubtful = {}

(* The clock gives every Add an ID of its own (Manager.Add); a caller learns an   *)
(* ID from Add or from the answer of a search.                                    *)
Fresh(id) == /\ ~Has(records, id) /\ ~Has(points, id) /\ id \notin dropped
             /\ stored[id] = NoPromise /\ \A c \in Callers : call[c].id # id
Learnt(id) == Has(points, id) \/ stored[id] # NoPromise \/ id \in dropped

(* Add embeds the text before anything else; when that fails nothing has changed. *)
Add(c, ids, first) ==
  /\ At(c, "idle") /\ Cardinality({i \in Ids : ~Fresh(i)}) < MaxAdds
  /\ \E id \in ids, m \in Memories, t \in ids \cup {None} :
       /\ Fresh(id) /\ t # id
       /\ call' = [call EXCEPT ![c] = [Idle EXCEPT
            !.step = first, !.id = id, !.memory = m, !.target = t, !.sure = t # None /\ Has(records, t)]]
  /\ UNCHANGED <<stores, ghosts>>

(* Mutant: the error of the record's store is dropped.                            *)
Save_DropsError(c, ids) ==
  /\ At(c, "record") /\ call[c].id \in ids /\ Goto(c, "link")
  /\ records' \in {records, [records EXCEPT ![call[c].id] = call[c].memory]}
  /\ UNCHANGED <<points, links, ghosts>>

(* The record is saved or the store fails; the reply of a save that was carried   *)
(* out may be lost as well.                                                       *)
Save(c, ids) ==
  /\ At(c, "record") /\ call[c].id \in ids
  /\ \/ /\ records' = [records EXCEPT ![call[c].id] = call[c].memory]
        /\ Goto(c, "link") \/ Return(c)
     \/ Return(c) /\ UNCHANGED records
  /\ UNCHANGED <<points, links, ghosts>>

(* The relation from a memory to the target.  MATCH on both ends, and the foreign *)
(* keys of a connection that has them on, ask for both records; any other writes  *)
(* the row as it is.  An error is dropped.                                        *)
Relate(c, source, checked) ==
  LET target == call[c].target
      joined == target # None /\ (checked => Has(records, source) /\ Has(records, target)) IN
  \/ ~joined /\ UNCHANGED <<links, doubtful>>
  \/ joined /\ links' = links \cup {<<source, target>>} /\ UNCHANGED doubtful
  \/ target # None /\ doubtful' = doubtful \cup {source} /\ UNCHANGED links

Link(c, ids, checked) ==
  /\ At(c, "link") /\ call[c].id \in ids /\ Relate(c, call[c].id, checked) /\ Goto(c, "point")
  /\ UNCHANGED <<records, points, stored, dropped>>

Promise(c) == [memory |-> call[c].memory, target |-> IF call[c].sure THEN call[c].target ELSE None]

(* Mutant: the error of the vector store is dropped.                              *)
Upsert_DropsError(c, ids) ==
  /\ At(c, "point") /\ call[c].id \in ids /\ Return(c)
  /\ points' \in {points, [points EXCEPT ![call[c].id] = call[c].memory]}
  /\ stored' = [stored EXCEPT ![call[c].id] = Promise(c)]
  /\ UNCHANGED <<records, links, dropped, doubtful>>

Upsert(c, ids) ==
  /\ At(c, "point") /\ call[c].id \in ids /\ Return(c)
  /\ \/ /\ points' = [points EXCEPT ![call[c].id] = call[c].memory]
        /\ stored' \in {stored, [stored EXCEPT ![call[c].id] = Promise(c)]}
     \/ UNCHANGED <<points, stored>>
  /\ UNCHANGED <<records, links, dropped, doubtful>>

AddEpisode(c) == Add(c, Episodes, "record")
SaveEpisode(c) == Save(c, Episodes)
LinkEpisode(c) == \E checked \in Enforced : Link(c, Episodes, checked)
UpsertEpisode(c) == Upsert(c, Episodes)

AddConcept(c) == Add(c, Concepts, "check")
CreateConcept(c) == Save(c, Concepts)
LinkConcept(c) == Link(c, Concepts, TRUE)
UpsertConcept(c) == Upsert(c, Concepts)
-------------------------------------------------------------------------------------
(* SemanticMemory.Add looks for a nearly equal point, of any session.  When the   *)
(* search fails it goes on as if there were none.                                 *)
Similar(topic) == {i \in Concepts : points[i].topic = topic}
Unseen(topic) == \E c \in Callers : /\ call[c].id \in Concepts /\ call[c].memory.topic = topic
                                    /\ call[c].step \in {"record", "link", "point"}

CheckAmong(c, candidates) ==
  /\ At(c, "check")
  /\ \/ /\ \E known \in candidates :
             call' = [call EXCEPT ![c].step = "relate", ![c].known = known]
        /\ UNCHANGED doubtful
     \/ /\ candidates = {} /\ ~Unseen(call[c].memory.topic)
        /\ Goto(c, "record") /\ UNCHANGED doubtful
     \/ /\ Goto(c, "record") /\ doubtful' = doubtful \cup {call[c].id}
  /\ UNCHANGED <<stores, stored, dropped>>

(* Mutant: only points of the session count.                                      *)
CheckKnown_OwnSession(c) ==
  CheckAmong(c, {i \in Similar(call[c].memory.topic) : points[i].session = call[c].memory.session})

CheckKnown(c) == CheckAmong(c, Similar(call[c].memory.topic))

(* Its ID is returned, and the relations go to its node.  The larger importance   *)
(* is never written: the node read back has no ID (ReadID), so it counts as none. *)
LinkKnown(c) ==
  /\ At(c, "relate") /\ Relate(c, call[c].known, TRUE) /\ Return(c)
  /\ UNCHANGED <<records, points, stored, dropped>>
-------------------------------------------------------------------------------------
StartDelete(c) ==
  /\ At(c, "idle")
  /\ \E id \in Ids :
       /\ Learnt(id)
       /\ call' = [call EXCEPT ![c] = [Idle EXCEPT !.step = "delete", !.id = id]]
       /\ dropped' = dropped \cup {id}
       /\ stored' = [stored EXCEPT ![id] = NoPromise]
  /\ UNCHANGED <<stores, doubtful>>

(* DETACH DELETE, and ON DELETE CASCADE where the connection has foreign keys on: *)
(* the relations go with the record.                                              *)
Detached(id) == {l \in links : l[1] # id /\ l[2] # id}

DeleteRecord(c, ids, cascade) ==
  /\ At(c, "delete") /\ call[c].id \in ids
  /\ \/ /\ records' = [records EXCEPT ![call[c].id] = NoMemory]
        /\ links' = IF cascade THEN Detached(call[c].id) ELSE links
        /\ Goto(c, "unpoint") \/ Return(c)
     \/ Return(c) /\ UNCHANGED <<records, links>>
  /\ UNCHANGED <<points, ghosts>>

DeleteEpisode(c) == \E cascade \in Enforced : DeleteRecord(c, Episodes, cascade)
DeleteConcept(c) == DeleteRecord(c, Concepts, TRUE)

(* The error of the vector store is dropped.                                      *)
DeletePoint(c) ==
  /\ At(c, "unpoint") /\ Return(c)
  /\ points' \in {points, [points EXCEPT ![call[c].id] = NoMemory]}
  /\ UNCHANGED <<records, links, ghosts>>
-------------------------------------------------------------------------------------
(* A query names a session, a topic and the least importance.                     *)
Answers(m, query) == /\ m.session = query.session /\ m.topic = query.topic
                     /\ m.weight >= query.weight

(* Ghosts: the memories the answer owes, those that must not be in it any more.   *)
(* A search writes nothing another one reads: one at a time is enough.            *)
Search(c) ==
  /\ At(c, "idle") /\ \A d \in Callers : call[d].of = {}
  /\ \E ids \in {Episodes, Concepts}, query \in Memories :
       call' = [call EXCEPT ![c] = [Idle EXCEPT
         !.step = "search", !.of = ids, !.memory = query,
         !.due = {i \in ids : stored[i] # NoPromise /\ Answers(stored[i].memory, query)},
         !.gone = {i \in ids \cap dropped : ~Has(records, i)}]]
  /\ UNCHANGED <<stores, ghosts>>

(* Similarity, importance, recency and the graph rank the points the filters let  *)
(* through; their ranks are left open, and only Limit of them go on.  Without any *)
(* the answer is empty.                                                           *)
Candidates(c) == {i \in call[c].of : Answers(points[i], call[c].memory)}
Best(S) == {hits \in SUBSET S : Cardinality(hits) = Limit \/ (hits = S /\ Cardinality(S) < Limit)}

(* Mutant: the session is compared after the cut.                                 *)
Rank_FiltersLate(c, ids) ==
  /\ At(c, "search") /\ call[c].of = ids
  /\ \/ \E hits \in Best({i \in ids : points[i].topic = call[c].memory.topic}) :
          call' = [call EXCEPT ![c].step = "fetch", ![c].hits = hits \cap Candidates(c),
                               ![c].cut = Cardinality(Candidates(c)) > Limit]
     \/ Return(c)
  /\ UNCHANGED <<stores, ghosts>>

Rank(c, ids) ==
  /\ At(c, "search") /\ call[c].of = ids
  /\ \/ \E hits \in Best(Candidates(c)) :
          call' = [call EXCEPT ![c].step = IF hits = {} THEN "answered" ELSE "fetch",
                               ![c].hits = hits, ![c].cut = hits # Candidates(c)]
     \/ Return(c)
  /\ UNCHANGED <<stores, ghosts>>

(* The ID the code reads off a record it is given.  A row of Neo4j's tx/commit    *)
(* endpoint is the map of the node's properties, nodeToSemanticItem (as           *)
(* mapToNode, of GetNode) looks for that map under its key "properties".          *)
ReadID(id) == IF id \in Episodes THEN id ELSE None

(* Mutant: the payload of the point is the answer.                                *)
Fetch_Payload(c, ids) ==
  /\ At(c, "fetch") /\ call[c].of = ids
  /\ \/ call' = [call EXCEPT ![c].step = "relations",
                   ![c].answer = {<<i, points[i]>> : i \in {j \in call[c].hits : Has(points, j)}}]
     \/ Return(c)
  /\ UNCHANGED <<stores, ghosts>>

(* A hit is answered with the record that has its ID, and skipped without one.    *)
Fetch(c, ids) ==
  /\ At(c, "fetch") /\ call[c].of = ids
  /\ \/ call' = [call EXCEPT ![c].step = "relations",
           ![c].answer = {<<i, records[i]>> :
                            i \in {j \in call[c].hits : Has(records, j) /\ ReadID(j) = j}}]
     \/ Return(c)
  /\ UNCHANGED <<stores, ghosts>>

(* The relations of what was found are read last; an error leaves none.  The rows *)
(* of an episode are its own relations, an edge belongs to both its ends.         *)
Populate(c, ids, read) ==
  /\ At(c, "relations") /\ call[c].of = ids
  /\ \E related \in {{}, {l \in read : \E a \in call[c].answer : a[1] = l[1]}} :
       call' = [call EXCEPT ![c].step = "answered", ![c].related = related]
  /\ UNCHANGED <<stores, ghosts>>

RankEpisodes(c) == Rank(c, Episodes)
RankConcepts(c) == Rank(c, Concepts)
FetchEpisodes(c) == Fetch(c, Episodes)
FetchConcepts(c) == Fetch(c, Concepts)
RelateEpisodes(c) == Populate(c, Episodes, links)
RelateConcepts(c) == Populate(c, Concepts, links \cup {<<l[2], l[1]>> : l \in links})

(* The caller has its answer.                                                     *)
Dismiss(c) == At(c, "answered") /\ Return(c) /\ UNCHANGED <<stores, ghosts>>

(* The process of the caller ends between two steps.                              *)
Crash(c) == ~At(c, "idle") /\ Return(c) /\ UNCHANGED <<stores, ghosts>>

EpisodeStep(c) == \/ AddEpisode(c) \/ SaveEpisode(c) \/ LinkEpisode(c) \/ UpsertEpisode(c)
                  \/ DeleteEpisode(c) \/ RankEpisodes(c) \/ FetchEpisodes(c) \/ RelateEpisodes(c)
ConceptStep(c) == \/ AddConcept(c) \/ CreateConcept(c) \/ LinkConcept(c) \/ UpsertConcept(c)
                  \/ CheckKnown(c) \/ LinkKnown(c)
                  \/ DeleteConcept(c) \/ RankConcepts(c) \/ FetchConcepts(c) \/ RelateConcepts(c)
Next == \E c \in Callers : \/ EpisodeStep(c) \/ ConceptStep(c)
                           \/ StartDelete(c) \/ DeletePoint(c) \/ Search(c) \/ Dismiss(c) \/ Crash(c)

Spec == Init /\ [][Next]_vars
-------------------------------------------------------------------------------------
(* Whatever fails between the two stores, and whoever adds and deletes at the     *)
(* same time: a point nobody deleted has its record, of the session, topic and    *)
(* importance its payload is filtered by (episodic.go:162, semantic.go:144), and  *)
(* every edge of the graph joins two concepts.  A row of episode_relations may    *)
(* name a missing episode (sqlite_store.go:37 sets foreign_keys on one connection *)
(* of the pool) and is left out.                                                  *)
StoresAgree ==
  /\ \A i \in Ids : Has(points, i) /\ i \notin dropped => records[i] = points[i]
  /\ \A l \in links : l[1] \in Concepts => Has(records, l[1]) /\ Has(records, l[2])

(* An Add that returned a new ID is complete and stays so until a Delete of it:   *)
(* the point carries what Add was given, and a relation to a memory that was      *)
(* there before and still is was written, unless its own write failed.            *)
AddIsComplete ==
  \A i \in Ids : stored[i] # NoPromise =>
    /\ points[i] = stored[i].memory
    /\ stored[i].target \notin dropped \cup {None} /\ i \notin doubtful =>
         <<i, stored[i].target>> \in links

(* A search answers with live memories of its session only, as important as       *)
(* asked, and with none whose deletion was over before it began, although its     *)
(* point may still be there (episodic.go:266).  What an episode is related to may *)
(* be deleted: see StoresAgree.                                                   *)
AnswersSound ==
  \A c \in Callers : \A a \in call[c].answer :
    Answers(a[2], call[c].memory) /\ a[1] \notin call[c].gone

(* A search of episodes whose limit cut nothing off finds every one an Add had    *)
(* reported before and nobody deletes meanwhile.                                  *)
Whole(c) == At(c, "answered") /\ ~call[c].cut
Found(c) == \A i \in call[c].due \ dropped : \E a \in call[c].answer : a[1] = i

AnswersComplete == \A c \in Callers : Whole(c) /\ call[c].of = Episodes => Found(c)

(* The same of concepts: a search goes "across ALL memory types (working +        *)
(* episodic + semantic)" (memory_tool.go:74).  It is violated: see ReadID.        *)
ConceptsFound == \A c \in Callers : Whole(c) /\ call[c].of = Concepts => Found(c)

(* Two concepts on one topic are only kept apart when an Add could not search, or *)
(* searched while another was on its way between its own search and its point.    *)
ConceptsDistinct ==
  \A i, j \in Concepts \ (dropped \cup doubtful) :
    stored[i] # NoPromise /\ stored[j] # NoPromise
      /\ stored[i].memory.topic = stored[j].memory.topic => i = j
===================================================================================
