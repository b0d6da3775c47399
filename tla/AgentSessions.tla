------------------------------ MODULE AgentSessions ------------------------------
(* NewReActAgent (agents/react.go) registers its session with the memory tool and  *)
(* the terminal tool, looking first and adding later; several agents are built     *)
(* over the same tools while others already call them.                             *)
EXTENDS MemorySessions, TerminalSessions

CONSTANTS Agents, MaxOperations \* bounds what the application does itself

VARIABLES agents,    \* how far each construction is, its session, and what it looked at
          operations \* AddSession, RemoveSession and UseSession calls so far

vars == <<calls, memVars, termVars, agents, operations>>
----------------------------------------------------------------------------------
Init == /\ calls = [c \in Calls |-> Idle] /\ MemInit /\ TermInit /\ operations = 0
        /\ agents \in [Agents -> [pc : {"new"}, session : Given, looked : {0}]]

At(a, pc) == agents[a].pc = pc
Goto(a, pc) == agents' = [agents EXCEPT ![a].pc = pc]

LookMemory(a) ==
  /\ At(a, "new") /\ Goto(a, IF HasSessionID(agents[a].session) THEN "terminal" ELSE "addMemory")
  /\ UNCHANGED <<memVars, termVars>>

AddMemory(a) ==
  /\ At(a, "addMemory")
  /\ IF CanAdd(agents[a].session) THEN AddSession(agents[a].session) /\ Goto(a, "terminal")
     ELSE Goto(a, "failed") /\ UNCHANGED memVars
  /\ UNCHANGED termVars

(* Mutant: a session already there is not looked for.                              *)
Missing_Always(s) == s \in Sessions

Missing(s) == ~HasTerminal(s)

LookTerminal(a) ==
  /\ At(a, "terminal")
  /\ agents' = [agents EXCEPT ![a].pc = IF Missing(agents[a].session) THEN "addTerminal" ELSE "ready",
                              ![a].looked = Len(dirs)]
  /\ UNCHANGED <<memVars, termVars>>

OpenTerminal(a) ==
  /\ At(a, "addTerminal") /\ AddTerminal(agents[a].session) /\ Goto(a, "ready")
  /\ UNCHANGED memVars

NewReActAgent(a) ==
  /\ LookMemory(a) \/ AddMemory(a) \/ LookTerminal(a) \/ OpenTerminal(a)
  /\ UNCHANGED <<calls, operations>>

Application ==
  /\ operations < MaxOperations /\ operations' = operations + 1
  /\ \/ (\E s \in Sessions : AddSession(s) \/ RemoveSession(s) \/ UseSession(s)) /\ UNCHANGED termVars
     \/ (\E s \in TerminalIDs : RemoveTerminal(s) \/ UseTerminal(s)) /\ UNCHANGED memVars
  /\ UNCHANGED <<calls, agents>>

Next ==
  \/ \E a \in Agents : NewReActAgent(a)
  \/ Application
  \/ \E c \in Calls : MemoryRun(c) /\ UNCHANGED <<termVars, agents, operations>>
  \/ \E c \in Calls : TerminalRun(c) /\ UNCHANGED <<memVars, agents, operations>>
  \/ \E k \in DOMAIN made : Compress(k) /\ UNCHANGED <<termVars, agents, operations>>

Spec == Init /\ [][Next]_vars
----------------------------------------------------------------------------------
(* Building an agent never resets the directory of a terminal session that was     *)
(* there when it looked; it may replace one made since (react.go:238, where the    *)
(* look and the addition are two locks, and AddSession overwrites).                *)
EstablishedKept ==
  [][\A s \in TerminalIDs : sessions[s] # 0 /\ sessions'[s] \notin {0, sessions[s]} =>
       \E a \in Agents : At(a, "addTerminal") /\ agents[a].session = s /\ agents[a].looked < sessions[s]]_vars
==================================================================================
