-------------------------------- MODULE NoteTool --------------------------------
(* tools/builtins/note_tool.go: one file per note with its metadata as header, *)
(* all metadata in index.json and in memory.  The mutex makes the operations   *)
(* of one instance follow each other; another instance on the same workspace,  *)
(* a failing write and a crash fall between the writes of an operation.        *)
EXTENDS Naturals, FiniteSets

CONSTANTS Instances,    \* NoteTool values sharing a workspace
          Types,        \* note types
          DefaultType,  \* what the executor fills in for an omitted note_type
          Bodies,       \* contents of notes
          Limit,        \* how many notes a search may return
          WritesFail, Crashes,  \* whether a write may fail, an instance crash
          MaxNow, MaxSeq, MaxFiles, \* bounds: seconds, notes created by one
                        \* start, note files at a time
          None          \* no file, no file contents, an omitted parameter

Metas == [type : Types, at : 1..MaxNow]
File == [head : Metas \cup {None}, body : Bodies \cup {None}]

ASSUME NoteAssumption ==
  /\ DefaultType \in Types /\ None \notin Types \cup Bodies \cup File /\ Limit \in Nat
  /\ {WritesFail, Crashes} \subseteq BOOLEAN
  /\ {MaxNow, MaxSeq, MaxFiles} \subseteq Nat \ {0}

VARIABLES now,       \* the clock, in seconds
          up,        \* the running instances
          index,     \* n.index: instance -> ID -> metadata
          seq,       \* n.noteSequence
          since,     \* ghost: the second of the instance's last restart, 0 before
          op,        \* instance -> the operation that holds n.mu, or Idle
          files,     \* ID -> the note file, or None
          saved,     \* index.json, or None when absent or cut short
          answer,    \* instance -> the IDs its last search or list returned
          promised,  \* ID -> body of the notes acknowledged and not deleted
          damaged,   \* the acknowledged IDs whose last operation failed or was cut short
          indexLost  \* a restart found no index.json it could read

disk == <<files, saved>>
history == <<promised, damaged, indexLost>>
vars == <<now, up, index, seq, since, op, disk, answer, history>>
----------------------------------------------------------------------------------
(* create names a note by the second and the sequence number; its metadata are  *)
(* its type and when it was written, the head of its file as well.              *)
Ids == (1..MaxNow) \X (1..MaxSeq)
Cut == [head |-> None, body |-> None]
Empty == [id \in {} |-> None]
Idle == [stage |-> "idle"]

Put(f, id, v) == [x \in DOMAIN f \cup {id} |-> IF x = id THEN v ELSE f[x]]
Drop(f, id) == [x \in DOMAIN f \ {id} |-> f[x]]

(* validateParams: the types calls arrive with; the default for an omitted one. *)
Filled == {IF type = None THEN DefaultType ELSE type : type \in Types \cup {None}}

(* GetNoteContent: a file whose header is not the indexed metadata is refused. *)
Readable(a, id) == /\ id \in DOMAIN index[a]
                   /\ files[id] # None
                   /\ files[id].head = index[a][id]

Init ==
  /\ now = 1
  /\ up = Instances
  /\ index = [a \in Instances |-> Empty] /\ seq = [a \in Instances |-> 1]
  /\ since = [a \in Instances |-> 0]
  /\ op = [a \in Instances |-> Idle]
  /\ files = [id \in Ids |-> None] /\ saved = None
  /\ answer = [a \in Instances |-> {}]
  /\ promised = Empty /\ damaged = {} /\ indexLost = FALSE

At(a, stage) == a \in up /\ op[a].stage = stage
Step(a, stage) == op' = [op EXCEPT ![a].stage = stage]

(* A call takes the mutex of its instance.                                     *)
Call(a, operation) ==
  /\ At(a, "idle")
  /\ op' = [op EXCEPT ![a] = operation]
  /\ answer' = [answer EXCEPT ![a] = {}]
  /\ UNCHANGED <<now, up, index, seq, since, disk, history>>
----------------------------------------------------------------------------------
Create(a) ==
  /\ seq[a] <= MaxSeq /\ Cardinality({id \in Ids : files[id] # None}) < MaxFiles
  /\ \E type \in Filled, body \in Bodies :
       Call(a, [stage |-> "truncate", name |-> "create", id |-> <<now, seq[a]>>,
                meta |-> [type |-> type, at |-> now], body |-> body])

(* update keeps the body when no content is given.                             *)
Update(a) ==
  \E id \in DOMAIN index[a], type \in Filled, body \in Bodies \cup {None} :
    /\ Readable(a, id)
    /\ Call(a, [stage |-> "truncate", name |-> "update", id |-> id,
                meta |-> [type |-> type, at |-> now],
                body |-> IF body = None THEN files[id].body ELSE body])

Delete(a) ==
  \E id \in DOMAIN index[a] :
    Call(a, [stage |-> "remove", name |-> "delete", id |-> id,
             meta |-> index[a][id], body |-> None])

(* os.WriteFile truncates first.                                               *)
TruncateNote(a) ==
  /\ At(a, "truncate") /\ Step(a, "write")
  /\ files' = [files EXCEPT ![op[a].id] = Cut]
  /\ UNCHANGED <<now, up, index, seq, since, saved, answer, history>>

(* Mutants: the in-memory index misses an update; the sequence is not counted. *)
WriteNote_ForgetsIndex(a) ==
  /\ At(a, "write") /\ Step(a, "reindex")
  /\ files' = [files EXCEPT ![op[a].id] = [head |-> op[a].meta, body |-> op[a].body]]
  /\ index' = IF op[a].name = "create" THEN [index EXCEPT ![a] = Put(@, op[a].id, op[a].meta)] ELSE index
  /\ seq' = IF op[a].name = "create" THEN [seq EXCEPT ![a] = @ + 1] ELSE seq
  /\ UNCHANGED <<now, up, since, saved, answer, history>>
WriteNote_SameSequence(a) ==
  /\ At(a, "write") /\ Step(a, "reindex")
  /\ files' = [files EXCEPT ![op[a].id] = [head |-> op[a].meta, body |-> op[a].body]]
  /\ index' = [index EXCEPT ![a] = Put(@, op[a].id, op[a].meta)]
  /\ UNCHANGED <<now, up, seq, since, saved, answer, history>>

WriteNote(a) ==
  /\ At(a, "write") /\ Step(a, "reindex")
  /\ files' = [files EXCEPT ![op[a].id] = [head |-> op[a].meta, body |-> op[a].body]]
  /\ index' = [index EXCEPT ![a] = Put(@, op[a].id, op[a].meta)]
  /\ seq' = IF op[a].name = "create" THEN [seq EXCEPT ![a] = @ + 1] ELSE seq
  /\ UNCHANGED <<now, up, since, saved, answer, history>>

RemoveNote(a) ==
  /\ At(a, "remove") /\ Step(a, "reindex")
  /\ files' = [files EXCEPT ![op[a].id] = None]
  /\ index' = [index EXCEPT ![a] = Drop(@, op[a].id)]
  /\ UNCHANGED <<now, up, seq, since, saved, answer, history>>

TruncateIndex(a) ==
  /\ At(a, "reindex") /\ Step(a, "save")
  /\ saved' = None
  /\ UNCHANGED <<now, up, index, seq, since, files, answer, history>>

(* Mutant: what is written is the index from before the operation's change.    *)
SaveIndex_MissesNote(a) ==
  /\ At(a, "save") /\ op' = [op EXCEPT ![a] = Idle]
  /\ saved' = IF op[a].name = "delete" THEN index[a] ELSE Drop(index[a], op[a].id)
  /\ promised' = IF op[a].name = "delete" THEN Drop(promised, op[a].id)
                 ELSE Put(promised, op[a].id, op[a].body)
  /\ damaged' = damaged \ {op[a].id}
  /\ UNCHANGED <<now, up, index, seq, since, files, answer, indexLost>>

(* saveIndex writes the whole index; the operation is then acknowledged.       *)
SaveIndex(a) ==
  /\ At(a, "save") /\ op' = [op EXCEPT ![a] = Idle]
  /\ saved' = index[a]
  /\ promised' = IF op[a].name = "delete" THEN Drop(promised, op[a].id)
                 ELSE Put(promised, op[a].id, op[a].body)
  /\ damaged' = damaged \ {op[a].id}
  /\ UNCHANGED <<now, up, index, seq, since, files, answer, indexLost>>
----------------------------------------------------------------------------------
(* What a write that does not complete leaves: nothing, or the header alone.   *)
HalfWritten(a) ==
  IF op[a].stage # "write" THEN files' = files
  ELSE \E head \in {None, op[a].meta} :
         files' = [files EXCEPT ![op[a].id] = [head |-> head, body |-> None]]

Fail(a) ==
  /\ WritesFail
  /\ a \in up /\ op[a] # Idle /\ op' = [op EXCEPT ![a] = Idle]
  /\ HalfWritten(a)
  /\ damaged' = damaged \cup ({op[a].id} \cap DOMAIN promised)
  /\ UNCHANGED <<now, up, index, seq, since, saved, answer, promised, indexLost>>

(* What the process knew is gone with it.                                      *)
Crash(a) ==
  /\ Crashes
  /\ a \in up /\ up' = up \ {a}
  /\ HalfWritten(a)
  /\ damaged' = IF op[a] = Idle THEN damaged ELSE damaged \cup ({op[a].id} \cap DOMAIN promised)
  /\ op' = [op EXCEPT ![a] = Idle] /\ index' = [index EXCEPT ![a] = Empty]
  /\ answer' = [answer EXCEPT ![a] = {}]
  /\ seq' = [seq EXCEPT ![a] = 1] /\ since' = [since EXCEPT ![a] = 0]
  /\ UNCHANGED <<now, saved, promised, indexLost>>

(* NewNoteTool: an index.json that cannot be read is logged, and the tool      *)
(* starts with an empty index.  The sequence starts again at one, be it within *)
(* the same second.                                                            *)
Start(a) ==
  /\ a \notin up /\ up' = up \cup {a}
  /\ index' = [index EXCEPT ![a] = IF saved = None THEN Empty ELSE saved]
  /\ indexLost' = (indexLost \/ saved = None)
  /\ seq' = [seq EXCEPT ![a] = 1]
  /\ now < MaxNow /\ now' \in {now, now + 1}
  /\ since' = [since EXCEPT ![a] = now']
  /\ UNCHANGED <<op, disk, answer, promised, damaged>>

Tick == now < MaxNow /\ now' = now + 1 /\ UNCHANGED <<up, index, seq, since, op, disk, answer, history>>
----------------------------------------------------------------------------------
(* Search and List: the notes of one type, the latest updates first, as many   *)
(* as the limit allows.  Search reads the files and skips what it cannot read. *)
Latest(a, S) == {T \in SUBSET S :
                   /\ Cardinality(T) = IF Cardinality(S) < Limit THEN Cardinality(S) ELSE Limit
                   /\ \A x \in T, y \in S \ T : index[a][x].at >= index[a][y].at}
OfType(a, type) == {id \in DOMAIN index[a] : index[a][id].type = type}

Reply(a, S) == /\ At(a, "idle")
               /\ \E T \in Latest(a, S) : answer' = [answer EXCEPT ![a] = T]
               /\ UNCHANGED <<now, up, index, seq, since, op, disk, history>>
Search(a, type) == Reply(a, {id \in OfType(a, type) : Readable(a, id)})
List(a, type) == Reply(a, OfType(a, type))

Act(a) == \/ Create(a) \/ Update(a) \/ Delete(a)
          \/ TruncateNote(a) \/ WriteNote(a) \/ RemoveNote(a) \/ TruncateIndex(a) \/ SaveIndex(a)
          \/ Fail(a) \/ Crash(a) \/ Start(a)
          \/ \E type \in Filled : Search(a, type) \/ List(a, type)

Next == Tick \/ \E a \in Instances : Act(a)

Spec == Init /\ [][Next]_vars
----------------------------------------------------------------------------------
(* Whatever writes fail and whenever the tool crashes, an acknowledged note    *)
(* stays indexed with its body and a matching header, unless an operation on   *)
(* that very note was cut short or index.json could not be read at a restart.  *)
DamageContained ==
  \A a \in up : \A id \in DOMAIN promised \ damaged :
    (op[a] = Idle \/ op[a].id # id) /\ ~indexLost =>
       Readable(a, id) /\ files[id].body = promised[id]

(* create truncates the file of an acknowledged note only with an ID of the    *)
(* second the tool was restarted in, when its sequence had begun again; no     *)
(* other ID repeats, over any restarts (note_tool.go:190).                     *)
CreateIsFresh ==
  [][\A a \in Instances : TruncateNote(a) /\ op[a].name = "create" =>
       op[a].id \notin DOMAIN promised \/ op[a].id[1] = since[a]]_vars

(* What is on disk suffices to recover: index.json, whenever it can be read,   *)
(* holds every acknowledged note with the header its file has, whatever other  *)
(* operation is cut short.                                                     *)
DiskConsistent ==
  saved # None /\ ~indexLost =>
    \A id \in DOMAIN promised \ damaged :
      (\A a \in Instances : op[a] = Idle \/ op[a].id # id) =>
        id \in DOMAIN saved /\ files[id] # None /\ saved[id] = files[id].head
===================================================================================
