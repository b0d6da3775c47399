----------------------------- MODULE WorkingMemory -----------------------------
(* The in-memory tier: memory/types/working.go and the BM25 index it keeps    *)
(* (memory/retrieval/bm25.go).  Items are kept in insertion order under an    *)
(* RWMutex; a search rebuilds the index under the lock when it is dirty, lets *)
(* go of the lock to score, and takes it again to read the hits by position.  *)
EXTENDS SliceOps

CONSTANTS Items,        \* identities of the memories, one per Manager.Add call
          Searchers,    \* goroutines calling Search
          Relevant,     \* the items whose text matches the query
          MaxCapacity,  \* WorkingMemory.MaxCapacity
          MaxAge,       \* WorkingMemory.MaxAgeMinutes, in clock readings
          Limit,        \* SearchOptions.Limit, 0 for no limit
          StrictClock,  \* two readings of UnixNano always differ
          MaxNow,       \* bound of model checking: the clock ticks up to here
          Free          \* nobody holds the write lock for a rebuild

ASSUME CapacityAssumption == MaxCapacity \in Nat \ {0}
ASSUME SearchAssumption == /\ Relevant \subseteq Items
                           /\ MaxAge \in Nat
                           /\ Limit \in Nat
                           /\ Free \notin Searchers
ASSUME ClockAssumption == StrictClock \in BOOLEAN /\ MaxNow \in Nat

VARIABLES items,        \* w.items: the slice, oldest first
          stamp,        \* item -> its ID and CreatedAt (0: not read yet)
          now,          \* the clock
          index,        \* w.bm25: the slice the inverted index was built from
          dirty,        \* w.bm25Dirty
          mu,           \* w.mu: the searcher rebuilding under it, or Free
          compressing,  \* w.compressing
          search,       \* searcher -> phase, cutOff and hits of its call
          version,      \* counts the changes of the slice
          base,         \* searcher -> the version its call let go of the lock at
          found         \* searcher -> the items its last call returned

wmVars == <<items, stamp, now, index, dirty, mu, compressing, version, search, base, found>>
searchVars == <<search, base, found>>
-------------------------------------------------------------------------------
Phases == {"idle", "building", "score", "scan", "read"}
Idle == [phase |-> "idle", cutOff |-> 0, hits |-> {}]

WMTypeOK ==
  /\ items \in Seq(Items)
  /\ Len(items) <= MaxCapacity
  /\ stamp \in [Items -> Nat]
  /\ now \in Nat \ {0}
  /\ index \in Seq(Items)
  /\ dirty \in BOOLEAN
  /\ mu \in Searchers \cup {Free}
  /\ compressing \in BOOLEAN
  /\ search \in [Searchers -> [phase : Phases, cutOff : Nat, hits : SUBSET Nat]]
  /\ version \in Nat /\ base \in [Searchers -> Nat]
  /\ found \in [Searchers -> SUBSET Items]

WMInit ==
  /\ items = <<>> /\ index = <<>> /\ dirty = TRUE
  /\ stamp = [i \in Items |-> 0] /\ now = 1
  /\ mu = Free /\ compressing = FALSE
  /\ search = [s \in Searchers |-> Idle]
  /\ version = 0 /\ base = [s \in Searchers |-> 0]
  /\ found = [s \in Searchers |-> {}]
-------------------------------------------------------------------------------
(* The clock, read outside any lock: an item's ID is time.Now().UnixNano().   *)
(* A coarse clock may give the same reading twice.                            *)
ReadClock(i) ==
  /\ stamp[i] = 0
  /\ stamp' = [stamp EXCEPT ![i] = now]
  /\ now' \in IF StrictClock THEN {now + 1} ELSE {now, now + 1}
  /\ UNCHANGED <<items, index, dirty, mu, compressing, version, searchVars>>

Tick == /\ now < MaxNow
        /\ now' = now + 1
        /\ UNCHANGED <<items, stamp, index, dirty, mu, compressing, version, searchVars>>

(* Every change of the slice marks the index dirty.                           *)
Touch == dirty' = TRUE /\ version' = version + 1

(* Mutant: nothing is dropped when the slice is full.                         *)
Add_NoEviction(i) ==
  /\ mu = Free
  /\ items' = Append(items, i) /\ Touch
  /\ UNCHANGED <<stamp, now, index, mu, compressing, searchVars>>

(* Add: when full the oldest item is dropped, whoever may still need it.      *)
Add(i) ==
  /\ mu = Free
  /\ items' = Append(IF Len(items) >= MaxCapacity THEN Tail(items) ELSE items, i)
  /\ Touch
  /\ UNCHANGED <<stamp, now, index, mu, compressing, searchVars>>

(* RemoveItems works on IDs, not on identities.                               *)
WithIds(ids) == {i \in Items : stamp[i] \in ids}

(* Mutant: the count of the IDs is removed from the front of the slice.       *)
RemoveItems_ByCount(ids) ==
  /\ mu = Free
  /\ items' = SubSeq(items, Cardinality(ids) + 1, Len(items)) /\ Touch
  /\ UNCHANGED <<stamp, now, index, mu, compressing, searchVars>>

RemoveItems(ids) ==
  /\ mu = Free
  /\ items' = Without(items, WithIds(ids))
  /\ Touch
  /\ UNCHANGED <<stamp, now, index, mu, compressing, searchVars>>

(* Mutant: the index is not marked dirty.                                     *)
Delete_KeepsIndex(id) ==
  /\ mu = Free
  /\ items' = Without(items, WithIds({id})) /\ version' = version + 1
  /\ UNCHANGED <<stamp, now, index, dirty, mu, compressing, searchVars>>

(* Delete drops the first item with this ID; an unknown ID is no error.       *)
Delete(id) ==
  /\ mu = Free
  /\ LET at == {k \in DOMAIN items : stamp[items[k]] = id} IN
     \/ at = {} /\ UNCHANGED <<items, dirty, version>>
     \/ \E k \in at :
          /\ \A m \in at : k <= m
          /\ items' = SubSeq(items, 1, k - 1) \o SubSeq(items, k + 1, Len(items))
          /\ Touch
  /\ UNCHANGED <<stamp, now, index, mu, compressing, searchVars>>

(* 90% of the capacity, in integer arithmetic, and no compression running.    *)
Threshold == (MaxCapacity * 9) \div 10
IsNearCapacity == Len(items) >= Threshold /\ ~compressing

(* Mutant: the flag is stored without being compared.                         *)
TryLockCompress_Store ==
  /\ compressing' = TRUE
  /\ UNCHANGED <<items, stamp, now, index, dirty, mu, version, searchVars>>

TryLockCompress ==
  /\ ~compressing
  /\ compressing' = TRUE
  /\ UNCHANGED <<items, stamp, now, index, dirty, mu, version, searchVars>>

UnlockCompress ==
  /\ compressing' = FALSE
  /\ UNCHANGED <<items, stamp, now, index, dirty, mu, version, searchVars>>
-------------------------------------------------------------------------------
CutOff == IF now > MaxAge THEN now - MaxAge ELSE 0
Fresh(i, cutOff) == stamp[i] >= cutOff

(* Search lets go of the lock: the expiry cut-off is read, and a query goes   *)
(* on to score while an empty query scans the slice.                          *)
LetGo(s, phase) ==
  /\ search' = [search EXCEPT ![s] = [phase |-> phase, cutOff |-> CutOff, hits |-> {}]]
  /\ base' = [base EXCEPT ![s] = version]

StartSearch(s) ==
  /\ search[s].phase = "idle" /\ mu = Free
  /\ found' = [found EXCEPT ![s] = {}]
  /\ \/ /\ dirty
        /\ mu' = s
        /\ search' = [search EXCEPT ![s].phase = "building"]
        /\ UNCHANGED base
     \/ /\ ~dirty
        /\ \E phase \in {"score", "scan"} : LetGo(s, phase)
        /\ UNCHANGED mu
  /\ UNCHANGED <<items, stamp, now, index, dirty, compressing, version>>

FinishRebuild(s) ==
  /\ search[s].phase = "building"
  /\ index' = items /\ dirty' = FALSE /\ mu' = Free
  /\ \E phase \in {"score", "scan"} : LetGo(s, phase)
  /\ UNCHANGED <<items, stamp, now, compressing, version, found>>

(* BM25Scorer.Search runs without the lock.  It sees the index, or, while     *)
(* another search rebuilds it, the old one or any part of the new one.        *)
Seen == {index} \cup IF mu = Free THEN {}
                     ELSE {Front(items, n) : n \in 0..Len(items)}
Matching(docs) == {k \in DOMAIN docs : docs[k] \in Relevant}
AtMost(S, n) == {T \in SUBSET S : Cardinality(T) =
                   IF n = 0 THEN Cardinality(S) ELSE Least(n, Cardinality(S))}

Score(s) ==
  /\ search[s].phase = "score"
  /\ \E docs \in Seen : \E hits \in AtMost(Matching(docs), 3 * Limit) :
       search' = [search EXCEPT ![s] =
                    IF hits = {} THEN Idle ELSE [@ EXCEPT !.phase = "read", !.hits = hits]]
  /\ UNCHANGED <<items, stamp, now, index, dirty, mu, compressing, version, base, found>>

(* The hits are positions: they are read from whatever the slice is by now.   *)
Answer(s, S) ==
  /\ mu = Free
  /\ \E R \in AtMost(S, Limit) : found' = [found EXCEPT ![s] = R]
  /\ search' = [search EXCEPT ![s] = Idle]
  /\ UNCHANGED <<items, stamp, now, index, dirty, mu, compressing, version, base>>

(* Mutant: expired hits are returned too.                                     *)
ReadHits_NoExpiry(s) ==
  /\ search[s].phase = "read"
  /\ Answer(s, {items[k] : k \in search[s].hits \cap DOMAIN items})

(* The score it puts into the metadata of a hit, a map that two searches may  *)
(* write at once (working.go:115), is left out.                               *)
ReadHits(s) ==
  /\ search[s].phase = "read"
  /\ LET inRange == search[s].hits \cap DOMAIN items IN
     Answer(s, {i \in {items[k] : k \in inRange} : Fresh(i, search[s].cutOff)})

(* noQuerySearch: the newest unexpired items, without the index.              *)
Newest(S, n) ==
  IF n = 0 THEN S
  ELSE {i \in S : \E k \in DOMAIN items :
          /\ items[k] = i
          /\ Cardinality({m \in k + 1 .. Len(items) : items[m] \in S}) < n}

Scan(s) ==
  /\ search[s].phase = "scan"
  /\ Answer(s, Newest({i \in Elems(items) : Fresh(i, search[s].cutOff)}, Limit))

SearchStep(s) == \/ StartSearch(s) \/ FinishRebuild(s)
                 \/ Score(s) \/ ReadHits(s) \/ Scan(s)
================================================================================
