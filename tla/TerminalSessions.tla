----------------------------- MODULE TerminalSessions -----------------------------
(* tools/builtins/terminal_tool.go: a current directory for each session.  The map  *)
(* is locked, the directory in a session is not: it is a string, a pointer and a    *)
(* length, that two calls read and write at once.                                   *)
EXTENDS ToolCalls, SequencesExt

CONSTANTS DefaultID, \* the session NewTerminalTool makes
          Dirs,      \* the directories there are: paths, names of one length
          WorkSpace, InitDir, \* the configuration
          Getwd,     \* os.Getwd()
          Targets,   \* arguments of cd: "~", "..", an absolute path or one to join
          Absolute   \* the path an absolute argument names

ASSUME DirsAssumption == /\ {WorkSpace, InitDir, Getwd} \subseteq Dirs /\ DefaultID \notin Sessions
                         /\ Dirs \subseteq Seq(STRING) /\ Targets \subseteq STRING

VARIABLES sessions,  \* TerminalTool.sessions: session ID -> session, 0 if none
          defaultID, \* TerminalTool.defaultSessionID
          dirs       \* cwd of the sessions ever made: text, length, written by one at a time

termVars == <<sessions, defaultID, dirs>>
TerminalIDs == Sessions \cup {DefaultID}
-----------------------------------------------------------------------------------
Session(dir) == [text |-> dir, len |-> Len(dir), single |-> TRUE]

TermInit == /\ sessions = [s \in TerminalIDs |-> IF s = DefaultID THEN 1 ELSE 0]
            /\ defaultID = DefaultID /\ dirs = <<Session(InitDir)>>

HasTerminal(s) == sessions[IF s = NoSession THEN defaultID ELSE s] # 0

Open(s, dir) == /\ dirs' = Append(dirs, Session(dir))
                /\ sessions' = [sessions EXCEPT ![s] = Len(dirs) + 1]
                /\ UNCHANGED defaultID

(* AddSession with no directory, as NewReActAgent calls it; it replaces what is     *)
(* there.                                                                           *)
AddTerminal(s) == Open(s, Getwd)

(* The default is left as it is.                                                    *)
RemoveTerminal(s) == /\ sessions[s] # 0 /\ sessions' = [sessions EXCEPT ![s] = 0]
                     /\ UNCHANGED <<defaultID, dirs>>

UseTerminal(s) == sessions[s] # 0 /\ defaultID' = s /\ UNCHANGED <<sessions, dirs>>
-----------------------------------------------------------------------------------
Inside(dir) == IsPrefix(WorkSpace, dir)
Dir(path) == IF path = <<>> THEN path ELSE Front(path)

(* What a read of cwd gives while others write: past the end of the text comes      *)
(* memory that is no directory.                                                     *)
Read(o) == LET d == dirs[o] IN
           IF d.len <= Len(d.text) THEN SubSeq(d.text, 1, d.len) ELSE Append(d.text, "unknown")

NewDir(target, cwd) == CASE target = "~" -> WorkSpace
                         [] target = ".." -> Dir(cwd)
                         [] target \in DOMAIN Absolute -> Absolute[target]
                         [] OTHER -> Append(cwd, target)

(* resolveSession makes the session it does not find.                               *)
BeginTerminal(c) ==
  /\ calls[c].pc = "idle"
  /\ \E given \in Given, cmd \in Targets \cup {"execute"} :
       LET s == IF given = NoSession THEN defaultID ELSE given IN
       /\ IF sessions[s] = 0 THEN Open(s, InitDir) ELSE UNCHANGED termVars
       /\ calls' = [calls EXCEPT ![c] = [Idle EXCEPT
            !.pc = IF cmd = "execute" THEN "execute" ELSE "cd", !.op = cmd, !.session = s,
            !.on = IF sessions[s] = 0 THEN Len(dirs) + 1 ELSE sessions[s]]]

(* Mutant: the argument is joined to cwd a second time, when it is assigned.        *)
Checked_Twice(c) == NewDir(calls[c].op, Read(calls[c].on))

(* What HandleCd assigns: the directory it checked.                                 *)
Checked(c) == calls[c].dir

HandleCd(c) ==
  /\ calls[c].pc = "cd"
  /\ LET newDir == NewDir(calls[c].op, Read(calls[c].on)) IN
     IF Inside(newDir) /\ newDir \in Dirs
     THEN calls' = [calls EXCEPT ![c].pc = "assign", ![c].dir = newDir]
     ELSE End(c, "refused")
  /\ UNCHANGED termVars

(* session.cwd = newDir, the pointer and the length in either order.                *)
Assigning(o) == {c \in Calls : calls[c].on = o /\ calls[c].pc \in {"text", "len"}}

Assign(c) ==
  /\ calls[c].pc \in {"assign", "text", "len"}
  /\ LET o == calls[c].on IN
     \E word \in IF calls[c].pc = "assign" THEN {"text", "len"} ELSE {calls[c].pc} :
       /\ dirs' = [dirs EXCEPT ![o].text = IF word = "text" THEN Checked(c) ELSE @,
                               ![o].len = IF word = "len" THEN Len(Checked(c)) ELSE @,
                               ![o].single = @ /\ Assigning(o) \subseteq {c}]
       /\ IF calls[c].pc = word THEN End(c, "changed")
          ELSE To(c, IF word = "text" THEN "len" ELSE "text")
  /\ UNCHANGED <<sessions, defaultID>>

ExecuteCommand(c) ==
  /\ calls[c].pc = "execute"
  /\ calls' = [calls EXCEPT ![c] = [Idle EXCEPT !.pc = "ran", !.dir = Read(calls[c].on)]]
  /\ UNCHANGED termVars

TerminalRun(c) == BeginTerminal(c) \/ HandleCd(c) \/ Assign(c) \/ ExecuteCommand(c)
-----------------------------------------------------------------------------------
(* However many cds of a session read and check at once, its directory is one they  *)
(* checked inside the workspace, or the one it began with; only two assignments at  *)
(* once may leave anything else (terminal_tool.go:299 holds no lock).               *)
CwdInside ==
  \A o \in DOMAIN dirs : dirs[o].single /\ Assigning(o) = {} =>
    Read(o) \in {InitDir, Getwd} \/ (Inside(Read(o)) /\ Read(o) \in Dirs)
===================================================================================
