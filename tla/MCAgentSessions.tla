----------------------------- MODULE MCAgentSessions -----------------------------
(* A workspace with one directory below it, and sessions shared by two agents.     *)
EXTENDS AgentSessions, TLC

Work == <<"work">>
Sub == <<"work", "sub">>
Home == <<"home">>
Tree == {<<>>, Work, Sub, Home}
CdTargets == {"..", "sub", "~", "/home"}
FromRoot == "/home" :> Home
Symmetry == Permutations(Calls) \cup Permutations(Agents) \cup Permutations(Sessions)
==================================================================================
