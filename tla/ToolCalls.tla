-------------------------------- MODULE ToolCalls --------------------------------
(* Calls of the tools that keep something per session, tools/builtins.  Each call  *)
(* names a session, or none, as injectSessionID or the application put it into     *)
(* _session_id (agents/react.go).                                                  *)
EXTENDS Naturals, Sequences, FiniteSets

CONSTANTS Sessions,  \* session IDs the application uses
          NoSession, \* no _session_id, or the empty one
          Calls      \* calls of Run; a call that adds is also the memory it adds

ASSUME CallsAssumption == NoSession \notin Sessions

VARIABLE calls \* per call: how far it is, and what it has read

Given == Sessions \cup {NoSession}

(* pc: where the call is; op: what it does; session: the ID it works for; on: the   *)
(* manager or terminal session it found; tiers, found: memories searched and the    *)
(* answer; known: memories acknowledged before it; dir: a directory.                *)
Idle == [pc |-> "idle", op |-> "none", session |-> NoSession, on |-> 0,
         tiers |-> 0, found |-> {}, known |-> {}, dir |-> <<>>]

To(c, pc) == calls' = [calls EXCEPT ![c].pc = pc]
End(c, pc) == calls' = [calls EXCEPT ![c] = [Idle EXCEPT !.pc = pc]]
=================================================================================
