------------------------------ MODULE MemorySessions ------------------------------
(* tools/builtins/memory_tool.go: a manager for each session, with a working memory *)
(* of its own, over an episodic store all of them share.  A manager that was        *)
(* replaced or removed still serves the calls that found it.                        *)
EXTENDS ToolCalls

VARIABLES managers,         \* MemoryTool.managers: session ID -> manager, 0 if none
          defaultSessionID, \* MemoryTool.defaultSessionID
          made,             \* managers in the order of NewManager
          episodes,         \* the shared store: <<session_id, memory told>>
          dropped           \* sessions that were ever removed

memVars == <<managers, defaultSessionID, made, episodes, dropped>>
-----------------------------------------------------------------------------------
MemInit == /\ managers = [s \in Sessions |-> 0] /\ defaultSessionID = NoSession
           /\ made = <<>> /\ episodes = {} /\ dropped = {}

HasSessionID(s) == s \in Sessions /\ managers[s] # 0

Register(s) ==
  /\ made' = Append(made, [session |-> s, working |-> {}])
  /\ managers' = [managers EXCEPT ![s] = Len(made) + 1]
  /\ defaultSessionID' = IF defaultSessionID = NoSession THEN s ELSE defaultSessionID
  /\ UNCHANGED <<episodes, dropped>>

(* Mutant: that the session is new is left to the check the caller made earlier.    *)
CanAdd_Unchecked(s) == s \in Sessions

(* Whether AddSession, under the lock, does not refuse.                             *)
CanAdd(s) == s \in Sessions /\ managers[s] = 0

AddSession(s) == CanAdd(s) /\ Register(s)

RemoveSession(s) ==
  /\ HasSessionID(s)
  /\ managers' = [managers EXCEPT ![s] = 0]
  /\ defaultSessionID' = IF defaultSessionID = s THEN NoSession ELSE defaultSessionID
  /\ dropped' = dropped \cup {s}
  /\ UNCHANGED <<made, episodes>>

UseSession(s) ==
  /\ HasSessionID(s) /\ defaultSessionID' = s
  /\ UNCHANGED <<managers, made, episodes, dropped>>
-----------------------------------------------------------------------------------
BeginMemory(c) ==
  /\ calls[c].pc = "idle"
  /\ \E s \in Given, op \in {"add", "search"} :
       calls' = [calls EXCEPT ![c] = [Idle EXCEPT
         !.pc = IF s = NoSession THEN "default" ELSE "resolve", !.op = op, !.session = s,
         !.known = {i \in Calls : calls[i].pc = "added"}]]
  /\ UNCHANGED memVars

(* The default session is read under one lock and looked up under the next.         *)
ReadDefault(c) ==
  /\ calls[c].pc = "default"
  /\ IF defaultSessionID = NoSession THEN End(c, "refused")
     ELSE calls' = [calls EXCEPT ![c].pc = "resolve", ![c].session = defaultSessionID]
  /\ UNCHANGED memVars

ResolveManager(c) ==
  /\ calls[c].pc = "resolve"
  /\ LET s == calls[c].session IN
     IF HasSessionID(s) THEN calls' = [calls EXCEPT ![c].pc = calls[c].op, ![c].on = managers[s]]
     ELSE End(c, "refused")
  /\ UNCHANGED memVars

RunAdd(c) ==
  /\ calls[c].pc = "add" /\ To(c, "added")
  /\ made' = [made EXCEPT ![calls[c].on].working = @ \cup {c}]
  /\ UNCHANGED <<managers, defaultSessionID, episodes, dropped>>

(* Mutant: the later tier first.                                                    *)
Types_LaterFirst == <<"episodic", "working">>

(* The tiers Search asks one after the other.  By default (memory_tool.go:337) the  *)
(* semantic tier follows, which the compression does not write and whose search     *)
(* goes by the session_id of its points: it is left out.                            *)
Types == <<"working", "episodic">>

(* Mutant: the filter on session_id is left out.                                    *)
Hits_AnySession(k, tier) ==
  IF tier = "working" THEN made[k].working ELSE {e[2] : e \in episodes}

Hits(k, tier) ==
  IF tier = "working" THEN made[k].working
  ELSE {e[2] : e \in {x \in episodes : x[1] = made[k].session}}

SearchTier(c) ==
  /\ calls[c].pc = "search"
  /\ LET n == calls[c].tiers + 1 IN
     calls' = [calls EXCEPT ![c].found = @ \cup Hits(calls[c].on, Types[n]), ![c].tiers = n,
                            ![c].pc = IF n = Len(Types) THEN "answered" ELSE @]
  /\ UNCHANGED memVars

(* What MemoryTier promises of a compression: a batch changes tier in one step.     *)
Compress(k) ==
  \E batch \in SUBSET made[k].working \ {{}} :
    /\ made' = [made EXCEPT ![k].working = @ \ batch]
    /\ episodes' = episodes \cup {<<made[k].session, i>> : i \in batch}
    /\ UNCHANGED <<calls, managers, defaultSessionID, dropped>>

MemoryRun(c) == BeginMemory(c) \/ ReadDefault(c) \/ ResolveManager(c) \/ RunAdd(c) \/ SearchTier(c)
-----------------------------------------------------------------------------------
(* A search only tells what was added for the session it works for                  *)
(* (README.md:307), whoever shares the store and whichever manager it found.        *)
OwnMemories ==
  \A c \in Calls : \A i \in calls[c].found : calls[i].session = calls[c].session

(* What an Add acknowledged before a search of its session began is in the answer,  *)
(* compressed meanwhile or not, unless the session was removed in its life:         *)
(* memory_tool.go:274 refuses the second of two agents that both saw no session.    *)
AddedIsRecalled ==
  \A c \in Calls : calls[c].pc = "answered" =>
    \A i \in calls[c].known : calls[i].session = calls[c].session =>
      i \in calls[c].found \/ calls[c].session \in dropped
===================================================================================
