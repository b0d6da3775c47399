--------------------------- MODULE MCMemoryManager ---------------------------
(* Small instances of MemoryManager for TLC.                                  *)
EXTENDS MemoryManager, TLC

CONSTANTS i1, i2, i3, i4, s1, s2

FourItems == {i1, i2, i3, i4}
ThreeItems == {i1, i2, i3}
ItemSymmetry == Permutations(Items)
TwoSearchers == {s1, s2}
OneSearcher == {s1}
SearcherSymmetry == Permutations(Searchers)
RelevantPair == {i1, i2}
NoItems == {}
FirstItem == {i1}
================================================================================
