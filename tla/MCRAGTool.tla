-------------------------------- MODULE MCRAGTool --------------------------------
(* Small instances of RAGTool for TLC.                                           *)
EXTENDS RAGTool, TLC

CONSTANTS c1, c2, t1

OneCall == {c1}
TwoCalls == {c1, c2}
OneText == {t1}
Pooled == {TRUE, FALSE}
CallSymmetry == Permutations(Calls)
===================================================================================
