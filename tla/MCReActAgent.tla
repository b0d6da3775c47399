------------------------------- MODULE MCReActAgent -------------------------------
(* Small instances of ReActAgent for TLC.                                        *)
EXTENDS ReActAgent, TLC

CONSTANTS p, q, x, sid, tool, ghost, session

TwoNames == {p, q, x}
OneSystem == {sid}
TwoTools == {tool, ghost}
OneTool == {tool}
(* A required text, an optional whole number with a default; x is undeclared.     *)
SmallRegistry ==
  tool :> (p :> [type |-> "string", required |-> TRUE, default |-> None] @@
           q :> [type |-> "integer", required |-> FALSE, default |-> "integer"])

Good == p :> "string"
(* Well-formed ones, one with an undeclared name, one with a fraction for a whole *)
(* number, one with a session of its own, and a text that does not parse.        *)
ManyArguments ==
  {Malformed, Good, p :> "null", Good @@ q :> "fraction", Good @@ x :> "object", Good @@ sid :> "string"}
FewArguments == {Good}
AnySession == {None, session}
NoSession == {None}
===================================================================================
