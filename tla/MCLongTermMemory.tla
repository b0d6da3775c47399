------------------------------ MODULE MCLongTermMemory ------------------------------
(* A small instance of the long-term memory for TLC.                              *)
EXTENDS LongTermMemory, TLC

CONSTANTS e1, e2, k1, k2, c1, c2, s1, s2, t1

M(session, topic, weight) == [session |-> session, topic |-> topic, weight |-> weight]
SomeMemories == {M(s1, t1, 1), M(s2, t1, 2)}
TwoEpisodes == {e1, e2}
TwoConcepts == {k1, k2}
TwoCallers == {c1, c2}
Pooled == {TRUE, FALSE}
Symmetry == Permutations(TwoEpisodes) \cup Permutations(TwoConcepts) \cup Permutations(TwoCallers)
===================================================================================
