------------------------------- MODULE MCNoteTool -------------------------------
(* Small instances of NoteTool for TLC.                                        *)
EXTENDS NoteTool, TLC

CONSTANTS a1, a2, general, blocker, b1, b2

OneInstance == {a1}
TwoInstances == {a1, a2}
OneType == {general}
TwoTypes == {general, blocker}
OneBody == {b1}
TwoBodies == {b1, b2}
BodySymmetry == Permutations(Bodies)
===================================================================================
