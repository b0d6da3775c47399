------------------------------ MODULE MemoryManager ------------------------------
(* memory/manager.go: Add stamps an item, inserts it into the working tier,   *)
(* and when the tier is nearly full starts a goroutine that compresses the    *)
(* oldest items into one episode.  A call and the goroutine it may start      *)
(* follow each other, so one program counter per item holds both; calls for   *)
(* different items run concurrently.                                          *)
EXTENDS WorkingMemory

CONSTANTS SnapshotSize,  \* how many of the oldest items a compression takes
          HasCompressor, \* the manager has a compressor: both tiers are enabled
          Deletable      \* the items somebody may delete by ID

ASSUME SnapshotAssumption == /\ SnapshotSize \in Nat \ {0}
                             /\ HasCompressor \in BOOLEAN
                             /\ Deletable \subseteq Items

VARIABLES pc,      \* item -> where its Add call, then its goroutine, stands
          snap,    \* goroutine -> the items it took (SourceIDs of its episode)
          rows,    \* goroutines whose episode has a row in SQLite
          vectors, \* goroutines whose episode has a point in Qdrant
          lost     \* ghost: those of them that were told the upsert had failed

vars == <<wmVars, pc, snap, rows, vectors, lost>>
mgrVars == <<pc, snap, rows, vectors, lost>>
---------------------------------------------------------------------------------
Calling == {"new", "stamped", "inserted"}
Holding == {"locked", "taken", "summarized", "saved", "indexed", "release"}
Stages == Calling \cup {"spawned"} \cup Holding \cup {"done"}

TypeOK ==
  /\ WMTypeOK
  /\ pc \in [Items -> Stages]
  /\ snap \in [Items -> SUBSET Items]
  /\ rows \subseteq Items
  /\ vectors \subseteq Items /\ lost \subseteq vectors

Init ==
  /\ WMInit
  /\ pc = [i \in Items |-> "new"]
  /\ snap = [i \in Items |-> {}]
  /\ rows = {} /\ vectors = {} /\ lost = {}

At(i, stage) == pc[i] = stage
Goto(i, stage) == pc' = [pc EXCEPT ![i] = stage]
---------------------------------------------------------------------------------
(* Manager.Add, the ID: read from the clock before any lock is taken.         *)
Stamp(i) == /\ At(i, "new") /\ Goto(i, "stamped")
            /\ ReadClock(i)
            /\ UNCHANGED <<snap, rows, vectors, lost>>

Insert(i) == /\ At(i, "stamped") /\ Goto(i, "inserted")
             /\ Add(i)
             /\ UNCHANGED <<snap, rows, vectors, lost>>

(* After the insertion the lock is free: others may act before the check.     *)
CheckCapacity(i) ==
  /\ At(i, "inserted") /\ mu = Free
  /\ Goto(i, IF IsNearCapacity /\ HasCompressor THEN "spawned" ELSE "done")
  /\ UNCHANGED <<wmVars, snap, rows, vectors, lost>>
---------------------------------------------------------------------------------
(* compressWorking: the compare-and-swap, and its loser's return.             *)
Lock(g) == /\ At(g, "spawned") /\ Goto(g, "locked")
           /\ TryLockCompress
           /\ UNCHANGED <<snap, rows, vectors, lost>>

GiveUp(g) == /\ At(g, "spawned") /\ Goto(g, "done")
             /\ compressing
             /\ UNCHANGED <<wmVars, snap, rows, vectors, lost>>

TakeSnapshot(g) ==
  /\ At(g, "locked") /\ Goto(g, "taken")
  /\ mu = Free
  /\ snap' = [snap EXCEPT ![g] = Elems(Front(items, SnapshotSize))]
  /\ UNCHANGED <<wmVars, rows, vectors, lost>>

(* Summarize: refuses an empty batch; the LLM may answer or fail.             *)
Summarize(g) == /\ At(g, "taken") /\ Goto(g, "summarized")
                /\ snap[g] # {}
                /\ UNCHANGED <<wmVars, snap, rows, vectors, lost>>

(* EpisodicMemory.Add: the row first, then the vector point.                  *)
(* Mutant: the error of Save is ignored.                                      *)
SaveRow_IgnoresError(g) == /\ At(g, "summarized") /\ Goto(g, "saved")
                           /\ rows' \in {rows, rows \cup {g}}
                           /\ UNCHANGED <<wmVars, snap, vectors, lost>>

SaveRow(g) == /\ At(g, "summarized") /\ Goto(g, "saved")
              /\ rows' = rows \cup {g}
              /\ UNCHANGED <<wmVars, snap, vectors, lost>>

(* Mutant: the flag is given back as soon as the episode is stored.           *)
UpsertVector_Unlocks(g) == /\ At(g, "saved") /\ Goto(g, "indexed")
                           /\ vectors' = vectors \cup {g}
                           /\ UnlockCompress
                           /\ UNCHANGED <<snap, rows, lost>>

UpsertVector(g) == /\ At(g, "saved") /\ Goto(g, "indexed")
                   /\ vectors' = vectors \cup {g}
                   /\ UNCHANGED <<wmVars, snap, rows, lost>>

(* Mutants: the error is logged without returning; the unlock is not deferred. *)
Fail_Proceeds(g) == /\ pc[g] \in {"taken", "summarized", "saved"}
                    /\ Goto(g, "indexed")
                    /\ UNCHANGED <<wmVars, snap, rows, vectors, lost>>
Fail_KeepsLock(g) == /\ pc[g] \in {"taken", "summarized", "saved"}
                     /\ Goto(g, "done")
                     /\ UNCHANGED <<wmVars, snap, rows, vectors, lost>>

(* An error, or a panic that the deferred recover catches, ends the run; what *)
(* was already written stays.  The upsert (an HTTP request) may have been     *)
(* applied although its reply was lost.                                       *)
Fail(g) == /\ pc[g] \in {"taken", "summarized", "saved"} /\ Goto(g, "release")
           /\ \/ UNCHANGED <<vectors, lost>>
              \/ At(g, "saved") /\ vectors' = vectors \cup {g} /\ lost' = lost \cup {g}
           /\ UNCHANGED <<wmVars, snap, rows>>

RemoveSources(g) == /\ At(g, "indexed") /\ Goto(g, "release")
                    /\ RemoveItems({stamp[i] : i \in snap[g]})
                    /\ UNCHANGED <<snap, rows, vectors, lost>>

Unlock(g) == /\ At(g, "release") /\ Goto(g, "done")
             /\ UnlockCompress
             /\ UNCHANGED <<snap, rows, vectors, lost>>
---------------------------------------------------------------------------------
AddCall(i) == Stamp(i) \/ Insert(i) \/ CheckCapacity(i)
Compression(g) == \/ Lock(g) \/ GiveUp(g) \/ TakeSnapshot(g) \/ Summarize(g)
                  \/ SaveRow(g) \/ UpsertVector(g) \/ Fail(g)
                  \/ RemoveSources(g) \/ Unlock(g)

Next == \/ \E i \in Items : AddCall(i) \/ Compression(i)
        \/ \E i \in Deletable \cap Elems(items) : Delete(stamp[i]) /\ UNCHANGED mgrVars
        \/ \E s \in Searchers : SearchStep(s) /\ UNCHANGED mgrVars
        \/ Tick /\ UNCHANGED mgrVars

Spec == Init /\ [][Next]_vars

(* Started goroutines are scheduled; the LLM and the stores answer or fail.   *)
Fairness == /\ \A g \in Items : WF_vars(Compression(g))
            /\ \A s \in Searchers : WF_vars(FinishRebuild(s) /\ UNCHANGED mgrVars)
FairSpec == Spec /\ Fairness
---------------------------------------------------------------------------------
(* At most one goroutine is between its compare-and-swap and its unlock, and  *)
(* the flag tells exactly that: RWMutex sections inside a run give no cover.  *)
OneCompression ==
  /\ \A g, h \in Items : pc[g] \in Holding /\ pc[h] \in Holding => g = h
  /\ compressing <=> \E g \in Items : pc[g] \in Holding

(* Two retrievable episodes tell no memory in common, whatever else fails,    *)
(* overlaps or is evicted under (compressWorking: upsert, then RemoveItems):  *)
(* only an upsert whose reply was lost can make a memory told again.          *)
Acknowledged == vectors \ lost
ToldOnce == \A g, h \in Acknowledged : g # h => snap[g] \cap snap[h] = {}

(* An episode a vector search can hit always has its row.                     *)
EpisodeComplete == vectors \subseteq rows

(* A clean index is the index of the slice as it is.                          *)
IndexFresh == dirty \/ index = items

(* An item leaves the slice only as the oldest of a full one, by Delete, or   *)
(* told by a retrievable episode: a failed compression loses nothing.         *)
LeavesSafely ==
  [][\A i \in Elems(items) \ Elems(items') :
       \/ i = Head(items) /\ Len(items) = MaxCapacity /\ Len(items') = MaxCapacity
       \/ Delete(stamp[i])
       \/ \E g \in vectors : i \in snap[g]]_vars

(* A query during whose unlocked part nobody changed the slice returns        *)
(* unexpired matches only, and as many as it may (unless more items match     *)
(* than the scorer hands over).                                               *)
Answered(s) == search[s].phase \in {"score", "read"} /\ search'[s].phase = "idle"
Live(s) == {i \in Elems(items) \cap Relevant : Fresh(i, search[s].cutOff)}
Crowded == Limit > 0 /\ Cardinality(Matching(items)) > 3 * Limit

UndisturbedSearchExact ==
  [][\A s \in Searchers : Answered(s) /\ base[s] = version /\ ~Crowded =>
       found'[s] \in AtMost(Live(s), Limit)]_vars

(* A started compression ends and the flag is given back.                     *)
CompressionEnds == /\ \A g \in Items : At(g, "spawned") ~> At(g, "done")
                   /\ compressing ~> ~compressing

(* The two tiers as MemoryTier tells them: an item is in the working tier     *)
(* until the manager knows an episode that tells it.                          *)
Told == UNION {snap[g] : g \in Acknowledged}
Tier == INSTANCE MemoryTier WITH
          remembered <- {i \in Items : pc[i] \notin {"new", "stamped"}},
          working <- Elems(items) \ Told,
          episodes <- {snap[g] : g \in Acknowledged},
          echoes <- {snap[g] : g \in lost}
RefinesTier == Tier!TierSpec
---------------------------------------------------------------------------------
(* A claim of the repository that the code does not keep.                    *)

(* README:308, the RWMutex makes WorkingMemory safe for concurrent use: the   *)
(* index maps are not read while another search rebuilds them.                *)
NoIndexRace ==
  \A s, t \in Searchers : ~(search[s].phase = "score" /\ search[t].phase = "building")
---------------------------------------------------------------------------------
(* The inductive invariant behind the safety properties.                      *)
Accepted == {i \in Items : pc[i] \notin {"new", "stamped"}}

StampInv == /\ \A i \in Items : pc[i] = "new" <=> stamp[i] = 0
            /\ StrictClock => /\ \A i \in Items : stamp[i] < now
                              /\ \A i, j \in Items : stamp[i] = stamp[j] /\ stamp[i] # 0 => i = j

AcceptedInv == /\ Elems(items) \subseteq Accepted
               /\ \A g \in Items : snap[g] \subseteq Accepted

EpisodeInv == /\ EpisodeComplete
              /\ \A g \in Items : pc[g] \in {"saved", "indexed"} => g \in rows
              /\ \A g \in Items : pc[g] = "indexed" => g \in vectors
              /\ \A g \in vectors : pc[g] \in {"indexed", "release", "done"}
              /\ \A g \in lost : pc[g] # "indexed"
              /\ \A g \in vectors : snap[g] # {}
              /\ \A g \in Items : pc[g] \in {"summarized", "saved"} => snap[g] # {}

(* An episode known to be retrievable whose sources are not yet removed is the *)
(* running one.                                                               *)
ToldInv == /\ ToldOnce
           /\ \A g \in Acknowledged : pc[g] # "indexed" => snap[g] \cap Elems(items) = {}
           /\ \A g \in Items : pc[g] \in {"taken", "summarized", "saved"} =>
                \A h \in Acknowledged : snap[g] \cap snap[h] = {}

SafetyInv == TypeOK /\ OneCompression /\ StampInv /\ AcceptedInv /\ EpisodeInv
===================================================================================
