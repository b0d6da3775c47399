------------------------------- MODULE MemoryTier -------------------------------
(* What the two tiers promise together: a memory is remembered once, and it   *)
(* leaves the working tier only by displacement, by an explicit deletion, or  *)
(* into an episode that takes a batch in one step; no memory is told by two   *)
(* episodes.  A batch whose episode nobody was told of is an echo: it can be  *)
(* retrieved, its memories stay where they are and may be told again.         *)
EXTENDS Naturals, FiniteSets

CONSTANT Items
VARIABLES remembered,  \* every memory ever accepted
          working,     \* the memories of the working tier
          episodes,    \* the batches told by a retrievable episode
          echoes       \* the batches told by one the manager does not know of

tierVars == <<remembered, working, episodes, echoes>>

TierInit == remembered = {} /\ working = {} /\ episodes = {} /\ echoes = {}

(* A memory is accepted; at most one older memory is displaced by it.         *)
Remember(i) ==
  /\ i \notin remembered
  /\ remembered' = remembered \cup {i}
  /\ \E out \in {{}} \cup {{j} : j \in working} :
       working' = (working \ out) \cup {i}
  /\ UNCHANGED <<episodes, echoes>>

(* A batch that no episode tells yet becomes an episode.                      *)
Consolidate(batch) ==
  /\ batch # {} /\ batch \subseteq remembered
  /\ \A told \in episodes : batch \cap told = {}
  /\ episodes' = episodes \cup {batch}
  /\ working' = working \ batch
  /\ UNCHANGED <<remembered, echoes>>

Echo(batch) ==
  /\ batch # {} /\ batch \subseteq remembered
  /\ \A told \in episodes : batch \cap told = {}
  /\ echoes' = echoes \cup {batch}
  /\ UNCHANGED <<remembered, working, episodes>>

Forget(i) ==
  /\ working' = working \ {i}
  /\ UNCHANGED <<remembered, episodes, echoes>>

TierNext == \/ \E i \in Items : Remember(i) \/ Forget(i)
            \/ \E batch \in SUBSET Items : Consolidate(batch) \/ Echo(batch)

TierSpec == TierInit /\ [][TierNext]_tierVars
================================================================================
