------------------------------ MODULE NoteToolProofs ------------------------------
(* Theorems about NoteTool with one instance on its workspace, for any numbers of  *)
(* notes, types and bodies: what a failed write or a crash can damage, what is on  *)
(* disk, and which IDs may repeat.                                                 *)
EXTENDS NoteTool, TLAPS

Alone == \E a \in Instances : Instances = {a}

(* Types.                                                                          *)
Indexes == UNION {[S -> Metas] : S \in SUBSET Ids}
Operation == [stage : {"truncate", "write", "remove", "reindex", "save"},
              name : {"create", "update", "delete"}, id : Ids, meta : Metas,
              body : Bodies \cup {None}]

Typed ==
  /\ now \in 1..MaxNow /\ up \subseteq Instances
  /\ index \in [Instances -> Indexes] /\ seq \in [Instances -> Nat \ {0}]
  /\ since \in [Instances -> Nat] /\ op \in [Instances -> Operation \cup {Idle}]
  /\ files \in [Ids -> File \cup {None}] /\ saved \in Indexes \cup {None}
  /\ DOMAIN promised \subseteq Ids

(* What has been written is in the file and in the index before it is saved; an    *)
(* instance that is down does nothing.                                             *)
OpOK(a) ==
  /\ a \notin up => op[a] = Idle
  /\ op[a] # Idle =>
       /\ op[a].stage \in {"truncate", "write"} => op[a].name # "delete"
       /\ op[a].stage = "remove" => op[a].name = "delete"
       /\ op[a].stage \in {"reindex", "save"} /\ op[a].name # "delete" =>
            /\ op[a].id \in DOMAIN index[a] /\ index[a][op[a].id] = op[a].meta
            /\ files[op[a].id] = [head |-> op[a].meta, body |-> op[a].body]
OpInv == \A a \in Instances : OpOK(a)

(* An acknowledged note nothing has damaged, and nobody works on: its file, and    *)
(* its metadata in the index and in index.json.                                    *)
Sound(a, id) ==
  /\ files[id] # None /\ files[id].body = promised[id]
  /\ ~indexLost /\ a \in up => id \in DOMAIN index[a] /\ index[a][id] = files[id].head
  /\ ~indexLost /\ saved # None => id \in DOMAIN saved /\ saved[id] = files[id].head
SoundInv ==
  \A a \in Instances : \A id \in DOMAIN promised \ damaged :
    op[a] = Idle \/ op[a].id # id => Sound(a, id)

(* Every ID that is in use was given out earlier than the next one, or in the      *)
(* second the instance was restarted in.                                           *)
Past(a, id) == /\ id[1] <= now
               /\ a \in up /\ id[1] = now => id[2] < seq[a] \/ id[1] = since[a]
Listed == IF saved = None THEN {} ELSE DOMAIN saved
IdOK(a) ==
  /\ \A id \in DOMAIN promised \cup DOMAIN index[a] \cup Listed : Past(a, id)
  /\ op[a] # Idle /\ op[a].name = "create" /\ op[a].stage \in {"truncate", "write"} =>
       /\ op[a].id[1] <= now /\ op[a].id[2] = seq[a]
       /\ op[a].id \in DOMAIN promised => op[a].id[1] = since[a]
  /\ op[a] # Idle /\ op[a].name = "update" => op[a].id \in DOMAIN index[a]
IdInv == \A a \in Instances : IdOK(a)

IInv == Typed /\ OpInv /\ SoundInv
-----------------------------------------------------------------------------------
(* Indexes.                                                                        *)
LEMMA EmptyFacts == Empty \in Indexes /\ DOMAIN Empty = {}
BY DEF Empty, Indexes

LEMMA IndexFacts ==
  ASSUME NEW f \in Indexes, NEW id \in Ids, NEW m \in Metas
  PROVE  /\ DOMAIN f \subseteq Ids /\ \A x \in DOMAIN f : f[x] \in Metas
         /\ Put(f, id, m) \in Indexes /\ Drop(f, id) \in Indexes
<1>1. DOMAIN f \subseteq Ids /\ f \in [DOMAIN f -> Metas]
  BY DEF Indexes
<1>2. Put(f, id, m) \in [DOMAIN f \cup {id} -> Metas]
  BY <1>1 DEF Put
<1>3. Drop(f, id) \in [DOMAIN f \ {id} -> Metas]
  BY <1>1 DEF Drop
<1>4. DOMAIN f \cup {id} \in SUBSET Ids /\ DOMAIN f \ {id} \in SUBSET Ids
  BY <1>1
<1> QED
  BY <1>1, <1>2, <1>3, <1>4 DEF Indexes

LEMMA OperationFacts ==
  ASSUME NEW o \in Operation \cup {Idle}
  PROVE  /\ o.stage = "idle" <=> o = Idle
         /\ o # Idle => o \in Operation
BY DEF Operation, Idle

LEMMA Alike == ASSUME Alone, NEW a \in Instances, NEW b \in Instances PROVE a = b
BY DEF Alone

(* Operations begin: what they are about, and what they do.                        *)
Begins(a, o) == /\ o \in Operation /\ o.stage \in {"truncate", "remove"}
                /\ o.stage = "truncate" <=> o.name # "delete"
                /\ o.name = "create" => o.id[1] = now /\ o.id[2] = seq[a]
                /\ o.name = "update" => o.id \in DOMAIN index[a]

LEMMA FilledFacts == Filled \subseteq Types
BY NoteAssumption DEF Filled

LEMMA BeginFacts ==
  ASSUME Typed, NEW a \in Instances, Create(a) \/ Update(a) \/ Delete(a)
  PROVE  \E o : Begins(a, o) /\ Call(a, o)
<1>0. index[a] \in Indexes /\ now \in 1..MaxNow /\ seq[a] \in Nat \ {0}
  BY DEF Typed
<1>1. CASE Create(a)
  <2>1. PICK type \in Filled, body \in Bodies :
          Call(a, [stage |-> "truncate", name |-> "create", id |-> <<now, seq[a]>>,
                   meta |-> [type |-> type, at |-> now], body |-> body])
    BY <1>1 DEF Create
  <2> DEFINE o == [stage |-> "truncate", name |-> "create", id |-> <<now, seq[a]>>,
                   meta |-> [type |-> type, at |-> now], body |-> body]
  <2>2. seq[a] \in 1..MaxSeq
    BY <1>1, <1>0 DEF Create
  <2> QED
    BY <2>1, <2>2, <1>0, FilledFacts DEF Begins, Operation, Metas, Ids
<1>2. CASE Update(a)
  <2>1. PICK id \in DOMAIN index[a], type \in Filled, body \in Bodies \cup {None} :
          /\ Readable(a, id)
          /\ Call(a, [stage |-> "truncate", name |-> "update", id |-> id,
                      meta |-> [type |-> type, at |-> now],
                      body |-> IF body = None THEN files[id].body ELSE body])
    BY <1>2 DEF Update
  <2>2. id \in Ids /\ files[id] \in File
    BY <2>1, <1>0 DEF Readable, Typed, Indexes
  <2>3. files[id].body \in Bodies \cup {None}
    BY <2>2 DEF File
  <2> QED
    BY <2>1, <2>2, <2>3, <1>0, FilledFacts DEF Begins, Operation, Metas
<1>3. CASE Delete(a)
  <2>1. PICK id \in DOMAIN index[a] :
          Call(a, [stage |-> "remove", name |-> "delete", id |-> id,
                   meta |-> index[a][id], body |-> None])
    BY <1>3 DEF Delete
  <2>2. id \in Ids /\ index[a][id] \in Metas
    BY <2>1, <1>0 DEF Indexes
  <2> QED
    BY <2>1, <2>2 DEF Begins, Operation
<1> QED
  BY <1>1, <1>2, <1>3

LEMMA CallStep ==
  ASSUME Alone, IInv, NEW a \in Instances, NEW o, Begins(a, o), Call(a, o)
  PROVE  IInv'
<1>1. /\ op[a] = Idle /\ a \in up /\ op' = [op EXCEPT ![a] = o] /\ o # Idle
      /\ UNCHANGED <<now, up, index, seq, since, files, saved, promised, damaged, indexLost>>
  BY OperationFacts DEF Call, At, IInv, Typed, Begins, Operation, Idle, disk, history
<1>2. op[a]' = o
  BY <1>1 DEF IInv, Typed
<1>3. Typed'
  BY <1>1 DEF IInv, Typed, Begins
<1>4. OpInv'
  <2> SUFFICES ASSUME NEW b \in Instances PROVE OpOK(b)'
    BY DEF OpInv
  <2> QED
    BY <1>1, <1>2, Alike DEF OpOK, Begins
<1>5. SoundInv'
  <2> SUFFICES ASSUME NEW b \in Instances, NEW id \in DOMAIN promised \ damaged PROVE Sound(b, id)'
    BY <1>1 DEF SoundInv
  <2>1. Sound(b, id)
    BY <1>1, Alike DEF IInv, SoundInv
  <2> QED
    BY <2>1, <1>1 DEF Sound
<1> QED
  BY <1>3, <1>4, <1>5 DEF IInv

(* A step of the operation in progress, which leaves what was acknowledged alone,  *)
(* unless it is what the operation is about.                                       *)
LEMMA WriteStep ==
  ASSUME Alone, IInv, NEW a \in Instances, op[a] # Idle, a \in up,
         Typed', OpOK(a)', op[a]' # Idle, op[a].id = op[a].id',
         UNCHANGED <<up, promised, damaged, indexLost>>,
         \A id \in Ids : id # op[a].id =>
           /\ files'[id] = files[id]
           /\ id \in DOMAIN index[a] => id \in DOMAIN index'[a] /\ index'[a][id] = index[a][id],
         saved' \in {None, saved}
  PROVE  IInv'
<1>1. OpInv'
  <2> SUFFICES ASSUME NEW b \in Instances PROVE OpOK(b)'
    BY DEF OpInv
  <2> QED
    BY Alike DEF OpOK
<1>2. SoundInv'
  <2> SUFFICES ASSUME NEW b \in Instances, NEW id \in DOMAIN promised \ damaged, (op[b] = Idle \/ op[b].id # id)'
               PROVE  Sound(b, id)'
    BY DEF SoundInv
  <2>1. b = a /\ id # op[a].id /\ id \in Ids
    BY Alike DEF IInv, Typed
  <2>2. Sound(a, id)
    BY <2>1 DEF IInv, SoundInv
  <2>3. files'[id] = files[id]
    BY <2>1
  <2>4. ~indexLost => id \in DOMAIN index'[a] /\ index'[a][id] = files[id].head
    BY <2>1, <2>2 DEF Sound
  <2>5. ~indexLost /\ saved' # None => id \in DOMAIN saved' /\ saved'[id] = files[id].head
    BY <2>2 DEF Sound
  <2> QED
    BY <2>1, <2>2, <2>3, <2>4, <2>5 DEF Sound
<1> QED
  BY <1>1, <1>2 DEF IInv

LEMMA OpFacts ==
  ASSUME Typed, NEW a \in Instances, op[a] # Idle
  PROVE  /\ op[a] \in Operation /\ index[a] \in Indexes
         /\ \A s \in {"write", "reindex", "save"} :
              /\ [op[a] EXCEPT !.stage = s] \in Operation /\ [op[a] EXCEPT !.stage = s] # Idle
              /\ [op EXCEPT ![a].stage = s] \in [Instances -> Operation \cup {Idle}]
              /\ [op EXCEPT ![a].stage = s][a] = [op[a] EXCEPT !.stage = s]
<1>1. op[a] \in Operation /\ index[a] \in Indexes
  BY OperationFacts DEF Typed
<1>2. ASSUME NEW s \in {"write", "reindex", "save"}
      PROVE  [op[a] EXCEPT !.stage = s] \in Operation /\ [op[a] EXCEPT !.stage = s].stage = s
  BY <1>1 DEF Operation
<1>3. ASSUME NEW s \in {"write", "reindex", "save"}
      PROVE  [op[a] EXCEPT !.stage = s] # Idle
  BY <1>2 DEF Idle
<1> QED
  BY <1>1, <1>2, <1>3 DEF Typed

LEMMA TruncateNoteStep ==
  ASSUME Alone, IInv, NEW a \in Instances, TruncateNote(a)
  PROVE  IInv'
<1>1. op[a].stage = "truncate" /\ op[a] # Idle /\ a \in up
  BY DEF TruncateNote, At, Idle
<1>2. op[a] \in Operation /\ op[a].id \in Ids
  BY <1>1, OpFacts DEF IInv, Operation
<1>3. /\ op' = [op EXCEPT ![a].stage = "write"] /\ op'[a] = [op[a] EXCEPT !.stage = "write"]
      /\ op' \in [Instances -> Operation \cup {Idle}] /\ op'[a] # Idle
  BY <1>1, OpFacts DEF TruncateNote, Step, IInv
<1>4. op'[a].stage = "write" /\ op'[a].name = op[a].name /\ op'[a].id = op[a].id
  BY <1>2, <1>3 DEF Operation
<1>5. Cut \in File
  BY DEF Cut, File
<1>6. Typed'
  BY <1>3, <1>5 DEF TruncateNote, IInv, Typed, history
<1>7. OpOK(a)'
  BY <1>1, <1>3, <1>4 DEF IInv, OpInv, OpOK, TruncateNote
<1> QED
  BY <1>1, <1>3, <1>4, <1>6, <1>7, WriteStep DEF TruncateNote, history, IInv, Typed

LEMMA WriteNoteStep ==
  ASSUME Alone, IInv, NEW a \in Instances, WriteNote(a)
  PROVE  IInv'
<1>1. op[a].stage = "write" /\ op[a] # Idle /\ a \in up
  BY DEF WriteNote, At, Idle
<1>2. op[a] \in Operation /\ op[a].id \in Ids /\ op[a].meta \in Metas /\ index[a] \in Indexes
      /\ op[a].body \in Bodies \cup {None}
  BY <1>1, OpFacts DEF IInv, Operation
<1>3. /\ op' = [op EXCEPT ![a].stage = "reindex"] /\ op'[a] = [op[a] EXCEPT !.stage = "reindex"]
      /\ op' \in [Instances -> Operation \cup {Idle}] /\ op'[a] # Idle
  BY <1>1, OpFacts DEF WriteNote, Step, IInv
<1>4. /\ op'[a].stage = "reindex" /\ op'[a].name = op[a].name /\ op'[a].id = op[a].id
      /\ op'[a].meta = op[a].meta /\ op'[a].body = op[a].body
  BY <1>2, <1>3 DEF Operation
<1>5. index'[a] = Put(index[a], op[a].id, op[a].meta) /\ index'[a] \in Indexes
  BY <1>2, IndexFacts DEF WriteNote, IInv, Typed
<1>6. [head |-> op[a].meta, body |-> op[a].body] \in File
  BY <1>2 DEF File
<1>7. Typed'
  <2>1. index' \in [Instances -> Indexes]
    BY <1>5 DEF WriteNote, IInv, Typed
  <2>2. seq' \in [Instances -> Nat \ {0}]
    BY DEF WriteNote, IInv, Typed
  <2>3. files' \in [Ids -> File \cup {None}]
    BY <1>6 DEF WriteNote, IInv, Typed
  <2> QED
    BY <1>3, <2>1, <2>2, <2>3 DEF WriteNote, IInv, Typed, history
<1>8. /\ files'[op[a].id] = [head |-> op[a].meta, body |-> op[a].body]
      /\ \A id \in Ids : id # op[a].id => files'[id] = files[id]
  <2>1. /\ files' = [files EXCEPT ![op[a].id] = [head |-> op[a].meta, body |-> op[a].body]]
        /\ DOMAIN files = Ids
    BY DEF WriteNote, IInv, Typed
  <2> QED
    BY <1>2, <2>1
<1>9. OpOK(a)'
  BY <1>1, <1>3, <1>4, <1>5, <1>8 DEF Put, OpOK, WriteNote
<1>10. \A id \in Ids : id # op[a].id =>
         /\ files'[id] = files[id]
         /\ id \in DOMAIN index[a] => id \in DOMAIN index'[a] /\ index'[a][id] = index[a][id]
  BY <1>5, <1>8 DEF Put
<1> QED
  BY <1>1, <1>3, <1>4, <1>7, <1>9, <1>10, WriteStep DEF WriteNote, history

LEMMA RemoveNoteStep ==
  ASSUME Alone, IInv, NEW a \in Instances, RemoveNote(a)
  PROVE  IInv'
<1>1. op[a].stage = "remove" /\ op[a] # Idle /\ a \in up
  BY DEF RemoveNote, At, Idle
<1>2. op[a] \in Operation /\ op[a].id \in Ids /\ index[a] \in Indexes /\ op[a].meta \in Metas
  BY <1>1, OpFacts DEF IInv, Operation
<1>3. /\ op' = [op EXCEPT ![a].stage = "reindex"] /\ op'[a] = [op[a] EXCEPT !.stage = "reindex"]
      /\ op' \in [Instances -> Operation \cup {Idle}] /\ op'[a] # Idle
  BY <1>1, OpFacts DEF RemoveNote, Step, IInv
<1>4. op'[a].stage = "reindex" /\ op'[a].name = op[a].name /\ op'[a].id = op[a].id
  BY <1>2, <1>3 DEF Operation
<1>5. index'[a] = Drop(index[a], op[a].id) /\ index'[a] \in Indexes
  BY <1>2, IndexFacts DEF RemoveNote, IInv, Typed
<1>6. Typed'
  <2>1. index' \in [Instances -> Indexes]
    BY <1>5 DEF RemoveNote, IInv, Typed
  <2> QED
    BY <1>3, <2>1 DEF RemoveNote, IInv, Typed, history
<1>7. OpOK(a)'
  BY <1>1, <1>3, <1>4 DEF OpOK, RemoveNote, IInv, OpInv
<1>8. \A id \in Ids : id # op[a].id =>
        /\ files'[id] = files[id]
        /\ id \in DOMAIN index[a] => id \in DOMAIN index'[a] /\ index'[a][id] = index[a][id]
  <2>1. files' = [files EXCEPT ![op[a].id] = None] /\ DOMAIN files = Ids
    BY DEF RemoveNote, IInv, Typed
  <2>2. \A id \in Ids : id # op[a].id => files'[id] = files[id]
    BY <2>1
  <2> QED
    BY <1>5, <2>2 DEF Drop
<1> QED
  BY <1>1, <1>3, <1>4, <1>6, <1>7, <1>8, WriteStep DEF RemoveNote, history

LEMMA TruncateIndexStep ==
  ASSUME Alone, IInv, NEW a \in Instances, TruncateIndex(a)
  PROVE  IInv'
<1>1. op[a].stage = "reindex" /\ op[a] # Idle /\ a \in up
  BY DEF TruncateIndex, At, Idle
<1>2. op[a] \in Operation
  BY <1>1, OpFacts DEF IInv
<1>3. /\ op' = [op EXCEPT ![a].stage = "save"] /\ op'[a] = [op[a] EXCEPT !.stage = "save"]
      /\ op' \in [Instances -> Operation \cup {Idle}] /\ op'[a] # Idle
  BY <1>1, OpFacts DEF TruncateIndex, Step, IInv
<1>4. /\ op'[a].stage = "save" /\ op'[a].name = op[a].name /\ op'[a].id = op[a].id
      /\ op'[a].meta = op[a].meta /\ op'[a].body = op[a].body
  BY <1>2, <1>3 DEF Operation
<1>5. Typed'
  BY <1>3 DEF TruncateIndex, IInv, Typed, history
<1>6. OpOK(a)'
  BY <1>1, <1>3, <1>4 DEF IInv, OpInv, OpOK, TruncateIndex
<1> QED
  BY <1>1, <1>3, <1>4, <1>5, <1>6, WriteStep DEF TruncateIndex, history

(* What SaveIndex writes is the index, which holds everything that is sound.       *)
LEMMA SaveIndexStep ==
  ASSUME Alone, IInv, NEW a \in Instances, SaveIndex(a)
  PROVE  IInv'
<1>1. op[a].stage = "save" /\ op[a] # Idle /\ a \in up
  BY DEF SaveIndex, At, Idle
<1>2. op[a] \in Operation /\ op[a].id \in Ids /\ index[a] \in Indexes
  BY <1>1, OpFacts DEF IInv, Operation
<1>3. op' = [op EXCEPT ![a] = Idle] /\ op'[a] = Idle
  BY DEF SaveIndex, IInv, Typed
<1>4. DOMAIN promised' \subseteq DOMAIN promised \cup {op[a].id}
  BY DEF Put, Drop, SaveIndex
<1>5. Typed'
  BY <1>2, <1>3, <1>4 DEF SaveIndex, IInv, Typed
<1>6. OpInv'
  <2> SUFFICES ASSUME NEW b \in Instances PROVE OpOK(b)'
    BY DEF OpInv
  <2> QED
    BY <1>3, Alike DEF OpOK
<1>7. ASSUME NEW id \in DOMAIN promised' \ damaged', id # op[a].id PROVE Sound(a, id)'
  <2>1. id \in DOMAIN promised \ damaged
    BY <1>4, <1>7 DEF SaveIndex
  <2>2. promised'[id] = promised[id]
    BY <1>7, <2>1 DEF Put, Drop, SaveIndex
  <2>3. Sound(a, id)
    BY <1>7, <2>1 DEF IInv, SoundInv
  <2> QED
    BY <1>1, <2>2, <2>3 DEF Sound, SaveIndex
<1>8. ASSUME NEW id \in DOMAIN promised', id = op[a].id PROVE Sound(a, id)'
  <2>1. op[a].name # "delete"
    BY <1>8 DEF Drop, SaveIndex
  <2>2. promised'[id] = op[a].body
    BY <1>8, <2>1 DEF Put, SaveIndex
  <2>3. /\ id \in DOMAIN index[a] /\ index[a][id] = op[a].meta
        /\ files[id] = [head |-> op[a].meta, body |-> op[a].body]
    BY <1>1, <1>8, <2>1 DEF IInv, OpInv, OpOK
  <2>4. files[id] # None
    BY <1>2, <2>3, NoteAssumption DEF File, Operation
  <2> QED
    BY <2>2, <2>3, <2>4 DEF Sound, SaveIndex
<1>9. SoundInv'
  <2> SUFFICES ASSUME NEW b \in Instances, NEW id \in DOMAIN promised' \ damaged' PROVE Sound(b, id)'
    BY DEF SoundInv
  <2>1. b = a
    BY Alike
  <2>2. Sound(a, id)'
    BY <1>7, <1>8
  <2> QED
    BY <2>1, <2>2
<1> QED
  BY <1>5, <1>6, <1>9 DEF IInv

(* A write that does not complete disturbs the note it is about, which counts as   *)
(* damaged.                                                                        *)
LEMMA HalfFacts ==
  ASSUME Typed, NEW a \in Instances, HalfWritten(a), op[a] # Idle
  PROVE  /\ files' \in [Ids -> File \cup {None}]
         /\ \A id \in Ids : id # op[a].id => files'[id] = files[id]
<1>1. op[a] \in Operation
  BY OperationFacts DEF Typed
<1>2. CASE op[a].stage # "write"
  BY <1>2 DEF HalfWritten, Typed
<1>3. CASE op[a].stage = "write"
  <2>1. PICK head \in {None, op[a].meta} :
          files' = [files EXCEPT ![op[a].id] = [head |-> head, body |-> None]]
    BY <1>3 DEF HalfWritten
  <2>2. [head |-> head, body |-> None] \in File
    BY <1>1 DEF Operation, File
  <2>3. files \in [Ids -> File \cup {None}]
    BY DEF Typed
  <2> QED
    BY <2>1, <2>2, <2>3
<1> QED
  BY <1>2, <1>3

LEMMA StopKeeps ==
  ASSUME Alone, IInv, Typed', NEW a \in Instances, HalfWritten(a), op'[a] = Idle,
         UNCHANGED <<saved, promised, indexLost>>, up' \subseteq up, a \in up' => index'[a] = index[a],
         damaged' = IF op[a] = Idle THEN damaged ELSE damaged \cup ({op[a].id} \cap DOMAIN promised)
  PROVE  IInv'
<1>1. OpInv'
  <2> SUFFICES ASSUME NEW b \in Instances PROVE OpOK(b)'
    BY DEF OpInv
  <2> QED
    BY Alike DEF OpOK
<1>2. SoundInv'
  <2> SUFFICES ASSUME NEW b \in Instances, NEW id \in DOMAIN promised \ damaged' PROVE Sound(b, id)'
    BY DEF SoundInv
  <2>1. b = a /\ id \in DOMAIN promised \ damaged /\ id \in Ids /\ (op[a] = Idle \/ op[a].id # id)
    BY Alike DEF IInv, Typed
  <2>2. Sound(a, id)
    BY <2>1 DEF IInv, SoundInv
  <2>3. files'[id] = files[id]
    <3>1. CASE op[a] = Idle
      BY <3>1 DEF HalfWritten, Idle
    <3>2. CASE op[a] # Idle
      BY <3>2, <2>1, HalfFacts DEF IInv
    <3> QED
      BY <3>1, <3>2
  <2> QED
    BY <2>1, <2>2, <2>3 DEF Sound
<1> QED
  BY <1>1, <1>2 DEF IInv

LEMMA FailStep ==
  ASSUME Alone, IInv, NEW a \in Instances, Fail(a)
  PROVE  IInv'
<1>1. op' = [op EXCEPT ![a] = Idle] /\ op'[a] = Idle /\ op[a] # Idle
  BY DEF Fail, IInv, Typed
<1>2. Typed'
  BY <1>1, HalfFacts DEF Fail, IInv, Typed
<1> QED
  BY <1>1, <1>2, StopKeeps DEF Fail

LEMMA CrashStep ==
  ASSUME Alone, IInv, NEW a \in Instances, Crash(a)
  PROVE  IInv'
<1>1. op' = [op EXCEPT ![a] = Idle] /\ op'[a] = Idle
  BY DEF Crash, IInv, Typed
<1>2. files' \in [Ids -> File \cup {None}]
  <2>1. CASE op[a] = Idle
    BY <2>1 DEF Crash, HalfWritten, Idle, IInv, Typed
  <2>2. CASE op[a] # Idle
    BY <2>2, HalfFacts DEF Crash, IInv
  <2> QED
    BY <2>1, <2>2
<1>3. Typed'
  BY <1>1, <1>2, EmptyFacts DEF Crash, IInv, Typed
<1> QED
  BY <1>1, <1>3, StopKeeps DEF Crash

(* A start takes over what index.json says, if it can be read.                     *)
LEMMA StartStep ==
  ASSUME Alone, IInv, NEW a \in Instances, Start(a)
  PROVE  IInv'
<1>1. op[a] = Idle
  BY DEF Start, IInv, OpInv, OpOK
<1>2. index'[a] = IF saved = None THEN Empty ELSE saved
  BY DEF Start, IInv, Typed
<1>3. now' \in 1..MaxNow
  BY NoteAssumption DEF Start, IInv, Typed
<1>4. Typed'
  BY <1>3, EmptyFacts DEF Start, IInv, Typed, disk
<1>5. OpInv'
  <2> SUFFICES ASSUME NEW b \in Instances PROVE OpOK(b)'
    BY DEF OpInv
  <2> QED
    BY <1>1, Alike DEF OpOK, Start
<1>6. SoundInv'
  <2> SUFFICES ASSUME NEW b \in Instances, NEW id \in DOMAIN promised \ damaged PROVE Sound(b, id)'
    BY DEF SoundInv, Start
  <2>1. Sound(a, id)
    BY <1>1 DEF IInv, SoundInv
  <2> QED
    BY <1>2, <2>1, Alike DEF Sound, Start, disk
<1> QED
  BY <1>4, <1>5, <1>6 DEF IInv

LEMMA ClockStep ==
  ASSUME Alone, IInv, Tick \/ UNCHANGED vars \/ \E a \in Instances, S \in SUBSET Ids : Reply(a, S)
  PROVE  IInv'
<1>1. UNCHANGED <<up, index, seq, since, op, files, saved, promised, damaged, indexLost>>
  BY DEF Tick, vars, Reply, disk, history
<1>2. now' \in 1..MaxNow
  BY NoteAssumption DEF Tick, vars, Reply, IInv, Typed
<1> QED
  BY <1>1, <1>2 DEF IInv, Typed, OpInv, OpOK, SoundInv, Sound

LEMMA InitGood == Init => IInv
<1> SUFFICES ASSUME Init PROVE IInv
  OBVIOUS
<1>1. \A a \in Instances : op[a] = Idle /\ a \in up
  BY DEF Init
<1>2. DOMAIN promised = {}
  BY EmptyFacts DEF Init
<1>3. Typed
  BY EmptyFacts, <1>2, NoteAssumption DEF Init, Typed
<1> QED
  BY <1>1, <1>2, <1>3 DEF IInv, OpInv, OpOK, SoundInv

LEMMA NextKeeps == Alone /\ IInv /\ [Next]_vars => IInv'
<1> SUFFICES ASSUME Alone, IInv, [Next]_vars PROVE IInv'
  OBVIOUS
<1>1. CASE Tick \/ UNCHANGED vars
  BY <1>1, ClockStep
<1>2. ASSUME NEW a \in Instances, Act(a) PROVE IInv'
  <2>1. CASE Create(a) \/ Update(a) \/ Delete(a)
    BY <2>1, BeginFacts, CallStep DEF IInv
  <2>2. CASE TruncateNote(a) \/ WriteNote(a) \/ RemoveNote(a) \/ TruncateIndex(a) \/ SaveIndex(a)
    BY <2>2, TruncateNoteStep, WriteNoteStep, RemoveNoteStep, TruncateIndexStep, SaveIndexStep
  <2>3. CASE Fail(a) \/ Crash(a) \/ Start(a)
    BY <2>3, FailStep, CrashStep, StartStep
  <2>4. ASSUME NEW type, Search(a, type) \/ List(a, type) PROVE IInv'
    <3>1. index[a] \in Indexes
      BY DEF IInv, Typed
    <3>2. DOMAIN index[a] \subseteq Ids
      BY <3>1 DEF Indexes
    <3>3. PICK S \in SUBSET Ids : Reply(a, S)
      BY <2>4, <3>2 DEF Search, List, OfType
    <3> QED
      BY <3>3, ClockStep
  <2> QED
    BY <1>2, <2>1, <2>2, <2>3, <2>4 DEF Act
<1> QED
  BY <1>1, <1>2 DEF Next

(* The inductive invariant.                                                        *)
THEOREM Invariance == ASSUME Alone PROVE Spec => []IInv
<1>1. IInv /\ [Next]_vars => IInv'
  BY NextKeeps
<1> QED
  BY <1>1, InitGood, PTL DEF Spec

(* A failed write or a crash damages no note but the one it was about.             *)
THEOREM DamageIsContained == ASSUME Alone PROVE Spec => []DamageContained
<1>1. IInv => DamageContained
  <2> SUFFICES ASSUME IInv, NEW a \in up, NEW id \in DOMAIN promised \ damaged,
                      op[a] = Idle \/ op[a].id # id, ~indexLost
               PROVE  Readable(a, id) /\ files[id].body = promised[id]
    BY DEF DamageContained
  <2>1. Sound(a, id)
    BY DEF IInv, SoundInv, Typed
  <2> QED
    BY <2>1 DEF Sound, Readable
<1> QED
  BY <1>1, Invariance, PTL

(* What is on disk suffices to recover.                                            *)
THEOREM DiskStaysConsistent == ASSUME Alone PROVE Spec => []DiskConsistent
<1>1. IInv => DiskConsistent
  <2> SUFFICES ASSUME IInv, saved # None, ~indexLost, NEW id \in DOMAIN promised \ damaged,
                      \A a \in Instances : op[a] = Idle \/ op[a].id # id
               PROVE  id \in DOMAIN saved /\ files[id] # None /\ saved[id] = files[id].head
    BY DEF DiskConsistent
  <2>1. PICK a \in Instances : TRUE
    BY DEF Alone
  <2>2. Sound(a, id)
    BY DEF IInv, SoundInv
  <2> QED
    BY <2>2 DEF Sound
<1> QED
  BY <1>1, Invariance, PTL
-----------------------------------------------------------------------------------
(* IDs.                                                                            *)
LEMMA IdFacts ==
  ASSUME Typed, NEW a \in Instances, NEW id \in DOMAIN promised \cup DOMAIN index[a] \cup Listed
  PROVE  id \in Ids /\ id[1] \in Nat /\ id[2] \in Nat /\ now \in Nat /\ seq[a] \in Nat
<1>1. id \in Ids
  BY DEF Typed, Indexes, Listed
<1>2. MaxNow \in Nat /\ MaxSeq \in Nat
  BY NoteAssumption
<1> QED
  BY <1>1, <1>2 DEF Ids, Typed

LEMMA CallFresh ==
  ASSUME Alone, IInv, IdInv, NEW a \in Instances, NEW o, Begins(a, o), Call(a, o)
  PROVE  IdOK(a)'
<1>1. /\ op'[a] = o /\ UNCHANGED <<now, up, index, seq, since, saved, promised>> /\ a \in up
  BY DEF Call, At, IInv, Typed, Begins, disk, history
<1>2. \A id \in DOMAIN promised \cup DOMAIN index[a] \cup Listed : Past(a, id)
  BY DEF IdInv, IdOK
<1>3. ASSUME o.name = "create"
      PROVE  o.id[1] <= now /\ o.id[2] = seq[a] /\ (o.id \in DOMAIN promised => o.id[1] = since[a])
  <2>1. o.id[1] = now /\ o.id[2] = seq[a] /\ now \in Nat /\ seq[a] \in Nat
    BY <1>3, NoteAssumption DEF Begins, IInv, Typed
  <2>2. \A id \in DOMAIN promised : id[1] = now => id[2] < seq[a] \/ id[1] = since[a]
    BY <1>1, <1>2 DEF Past
  <2> QED
    BY <2>1, <2>2
<1> QED
  BY <1>1, <1>2, <1>3 DEF IdOK, Past, Listed, Begins

LEMMA WriteFresh ==
  ASSUME Alone, IInv, IdInv, NEW a \in Instances, WriteNote(a)
  PROVE  IdOK(a)'
<1>1. op[a].stage = "write" /\ op[a] # Idle /\ a \in up
  BY DEF WriteNote, At, Idle
<1>2. op[a] \in Operation /\ index[a] \in Indexes
  BY <1>1, OpFacts DEF IInv
<1>3. op'[a].stage = "reindex" /\ op'[a].name = op[a].name /\ op'[a].id = op[a].id
  BY <1>2 DEF WriteNote, Step, IInv, Typed, Operation
<1>4. DOMAIN index'[a] = DOMAIN index[a] \cup {op[a].id}
  BY <1>2 DEF WriteNote, Put, IInv, Typed
<1>5. UNCHANGED <<now, up, since, saved, promised>>
  BY DEF WriteNote, history
<1>6. seq'[a] = IF op[a].name = "create" THEN seq[a] + 1 ELSE seq[a]
  BY DEF WriteNote, IInv, Typed
<1>7. ASSUME NEW id \in DOMAIN promised \cup DOMAIN index[a] \cup Listed PROVE Past(a, id)'
  <2>1. Past(a, id) /\ id[2] \in Nat /\ seq[a] \in Nat
    BY IdFacts DEF IdInv, IdOK, IInv
  <2> QED
    BY <1>1, <1>5, <1>6, <2>1 DEF Past
<1>8. ASSUME NEW id, id = op[a].id PROVE Past(a, id)'
  <2>1. CASE op[a].name = "create"
    <3>1. id[1] <= now /\ id[2] = seq[a] /\ seq[a] \in Nat
      BY <1>1, <1>8, <2>1 DEF IdInv, IdOK, IInv, Typed
    <3> QED
      BY <1>5, <1>6, <2>1, <3>1 DEF Past
  <2>2. CASE op[a].name = "update"
    BY <1>1, <1>7, <1>8, <2>2 DEF IdInv, IdOK
  <2>3. op[a].name \in {"create", "update"}
    BY <1>1, <1>2 DEF Operation, IInv, OpInv, OpOK
  <2> QED
    BY <2>1, <2>2, <2>3
<1> QED
  BY <1>3, <1>4, <1>5, <1>7, <1>8 DEF IdOK, Listed

LEMMA SaveFresh ==
  ASSUME Alone, IInv, IdInv, NEW a \in Instances, SaveIndex(a)
  PROVE  IdOK(a)'
<1>1. op[a].stage = "save" /\ op[a] # Idle /\ a \in up
  BY DEF SaveIndex, At, Idle
<1>2. op'[a] = Idle /\ UNCHANGED <<now, up, index, seq, since>>
  BY DEF SaveIndex, IInv, Typed
<1>3. Listed' \subseteq DOMAIN index[a]
  BY DEF SaveIndex, Listed
<1>4. DOMAIN promised' \subseteq DOMAIN promised \cup DOMAIN index[a]
  <2>1. CASE op[a].name = "delete"
    BY <2>1 DEF SaveIndex, Drop
  <2>2. CASE op[a].name # "delete"
    <3>1. op[a].id \in DOMAIN index[a]
      BY <1>1, <2>2 DEF IInv, OpInv, OpOK
    <3>2. DOMAIN promised' = DOMAIN promised \cup {op[a].id}
      BY <2>2 DEF SaveIndex, Put
    <3> QED
      BY <3>1, <3>2
  <2> QED
    BY <2>1, <2>2
<1> QED
  BY <1>2, <1>3, <1>4 DEF IdInv, IdOK, Past

(* Steps that only end something, or let the clock go on.                          *)
LEMMA LaterFresh ==
  ASSUME Alone, IInv, IdInv, NEW a \in Instances, promised' = promised, Listed' \subseteq Listed,
         DOMAIN index'[a] \subseteq DOMAIN index[a] \cup Listed,
         \/ now' = now /\ (a \in up' => a \in up /\ seq' = seq /\ since' = since)
         \/ now' = now + 1 /\ now \in Nat
         \/ now' \in {now, now + 1} /\ now \in Nat /\ since'[a] = now',
         \/ op'[a] = Idle
         \/ /\ op[a] # Idle /\ op'[a].name = op[a].name /\ op'[a].id = op[a].id
            /\ op'[a].stage \in {"truncate", "write"} => op[a].stage \in {"truncate", "write"}
            /\ op[a].name = "update" => index'[a] = index[a]
            /\ seq' = seq /\ since' = since
  PROVE  IdOK(a)'
<1>1. ASSUME NEW id \in DOMAIN promised \cup DOMAIN index[a] \cup Listed PROVE Past(a, id)'
  <2>1. Past(a, id) /\ id[1] \in Nat /\ now \in Nat
    BY IdFacts DEF IdInv, IdOK, IInv
  <2> QED
    BY <2>1 DEF Past
<1>2. ASSUME op'[a] # Idle, op'[a].name = "create", op'[a].stage \in {"truncate", "write"}
      PROVE  /\ op'[a].id[1] <= now' /\ op'[a].id[2] = seq'[a]
             /\ op'[a].id \in DOMAIN promised => op'[a].id[1] = since'[a]
  <2>1. /\ op[a].id[1] <= now /\ op[a].id[2] = seq[a]
        /\ op[a].id \in DOMAIN promised => op[a].id[1] = since[a]
    BY <1>2 DEF IdInv, IdOK
  <2>2. op[a].id[1] \in Nat /\ now \in Nat
    <3>1. op[a] \in Operation
      BY <1>2, OpFacts DEF IInv
    <3>2. op[a].id \in Ids /\ MaxNow \in Nat /\ MaxSeq \in Nat
      BY <3>1, NoteAssumption DEF Operation
    <3> QED
      BY <3>2 DEF Ids, IInv, Typed
  <2> QED
    BY <1>2, <2>1, <2>2
<1>3. ASSUME op'[a] # Idle, op'[a].name = "update" PROVE op'[a].id \in DOMAIN index'[a]
  BY <1>3 DEF IdInv, IdOK
<1> QED
  BY <1>1, <1>2, <1>3 DEF IdOK

LEMMA StagesFresh ==
  ASSUME Alone, IInv, IdInv, NEW a \in Instances, TruncateNote(a) \/ RemoveNote(a) \/ TruncateIndex(a)
  PROVE  IdOK(a)'
<1>1. op[a].stage \in {"truncate", "remove", "reindex"} /\ op[a] # Idle
  BY DEF TruncateNote, RemoveNote, TruncateIndex, At, Idle
<1>2. op[a] \in Operation /\ index[a] \in Indexes
  BY <1>1, OpFacts DEF IInv
<1>3. /\ op'[a].name = op[a].name /\ op'[a].id = op[a].id
      /\ op'[a].stage \in {"truncate", "write"} => op[a].stage \in {"truncate", "write"}
  BY <1>2 DEF TruncateNote, RemoveNote, TruncateIndex, At, Step, IInv, Typed, Operation
<1>4. UNCHANGED <<now, up, seq, since, promised>> /\ Listed' \subseteq Listed
  BY DEF TruncateNote, RemoveNote, TruncateIndex, history, Listed
<1>5. CASE RemoveNote(a)
  <2>1. op[a].name = "delete"
    BY <1>1, <1>5 DEF RemoveNote, At, IInv, OpInv, OpOK
  <2>2. DOMAIN index'[a] \subseteq DOMAIN index[a]
    BY <1>2, <1>5 DEF RemoveNote, Drop, IInv, Typed
  <2> QED
    BY <1>1, <1>3, <1>4, <2>1, <2>2, LaterFresh
<1>6. CASE TruncateNote(a) \/ TruncateIndex(a)
  <2>1. index' = index
    BY <1>6 DEF TruncateNote, TruncateIndex
  <2> QED
    BY <1>1, <1>3, <1>4, <2>1, LaterFresh
<1> QED
  BY <1>5, <1>6

LEMMA EndsFresh ==
  ASSUME Alone, IInv, IdInv, NEW a \in Instances, Fail(a) \/ Crash(a) \/ Start(a)
  PROVE  IdOK(a)'
<1>1. CASE Fail(a) \/ Crash(a)
  <2>1. op'[a] = Idle /\ DOMAIN index'[a] \subseteq DOMAIN index[a]
    BY <1>1, EmptyFacts DEF Fail, Crash, IInv, Typed
  <2>2. UNCHANGED <<now, promised, saved>> /\ (a \in up' => a \in up /\ UNCHANGED <<seq, since>>)
    BY <1>1 DEF Fail, Crash
  <2>3. Listed' = Listed
    BY <2>2 DEF Listed
  <2> QED
    BY <2>1, <2>2, <2>3, LaterFresh
<1>2. CASE Start(a)
  <2>1. op'[a] = Idle
    BY <1>2 DEF Start, IInv, OpInv, OpOK
  <2>2. now' \in {now, now + 1} /\ since'[a] = now' /\ UNCHANGED <<promised, saved>>
    BY <1>2 DEF Start, disk, IInv, Typed
  <2>3. now \in Nat
    BY NoteAssumption DEF IInv, Typed
  <2>4. index'[a] = IF saved = None THEN Empty ELSE saved
    BY <1>2 DEF Start, IInv, Typed
  <2>5. DOMAIN index'[a] \subseteq Listed /\ Listed' = Listed
    BY <2>2, <2>4, EmptyFacts DEF Listed
  <2> QED
    BY <2>1, <2>2, <2>3, <2>5, LaterFresh
<1> QED
  BY <1>1, <1>2

LEMMA IdStep == Alone /\ IInv /\ IdInv /\ [Next]_vars => IdInv'
<1> SUFFICES ASSUME Alone, IInv, IdInv, [Next]_vars, NEW a \in Instances PROVE IdOK(a)'
  BY DEF IdInv
<1>0. now \in Nat
  BY NoteAssumption DEF IInv, Typed
<1>1. ASSUME UNCHANGED <<up, index, seq, since, op, saved, promised>>, now' \in {now, now + 1} PROVE IdOK(a)'
  <2>1. Listed' = Listed
    BY <1>1 DEF Listed
  <2>2. CASE op[a] = Idle
    BY <1>0, <1>1, <2>1, <2>2, LaterFresh
  <2>3. CASE op[a] # Idle
    BY <1>0, <1>1, <2>1, <2>3, LaterFresh
  <2> QED
    BY <2>2, <2>3
<1>2. CASE Tick \/ UNCHANGED vars
  BY <1>1, <1>2 DEF Tick, vars, disk, history
<1>3. ASSUME NEW b \in Instances, Act(b) PROVE IdOK(a)'
  <2>0. b = a
    BY Alike
  <2>1. CASE Create(b) \/ Update(b) \/ Delete(b)
    BY <2>0, <2>1, BeginFacts, CallFresh DEF IInv
  <2>2. CASE TruncateNote(b) \/ WriteNote(b) \/ RemoveNote(b) \/ TruncateIndex(b) \/ SaveIndex(b)
    BY <2>0, <2>2, StagesFresh, WriteFresh, SaveFresh
  <2>3. CASE Fail(b) \/ Crash(b) \/ Start(b)
    BY <2>0, <2>3, EndsFresh
  <2>4. ASSUME NEW type, Search(b, type) \/ List(b, type) PROVE IdOK(a)'
    BY <1>1, <2>4 DEF Search, List, Reply, disk, history
  <2> QED
    BY <1>3, <2>1, <2>2, <2>3, <2>4 DEF Act
<1> QED
  BY <1>2, <1>3 DEF Next

(* A new note takes the place of an acknowledged one only with an ID of the second *)
(* the instance was restarted in (note_tool.go:190).                               *)
THEOREM CreatesAreFresh == ASSUME Alone PROVE Spec => CreateIsFresh
<1>1. Init => IdInv
  <2> SUFFICES ASSUME Init, NEW a \in Instances PROVE IdOK(a)
    BY DEF IdInv
  <2>1. op[a] = Idle /\ DOMAIN promised = {} /\ DOMAIN index[a] = {} /\ Listed = {}
    BY EmptyFacts DEF Init, Listed
  <2> QED
    BY <2>1 DEF IdOK
<1>2. IInv /\ IdInv /\ [Next]_vars => IdInv'
  BY IdStep
<1>3. IInv /\ IdInv =>
        [\A a \in Instances : TruncateNote(a) /\ op[a].name = "create" =>
           op[a].id \notin DOMAIN promised \/ op[a].id[1] = since[a]]_vars
  <2> SUFFICES ASSUME IInv, IdInv, NEW a \in Instances, TruncateNote(a), op[a].name = "create"
               PROVE  op[a].id \notin DOMAIN promised \/ op[a].id[1] = since[a]
    OBVIOUS
  <2>1. op[a].stage = "truncate" /\ op[a] # Idle
    BY DEF TruncateNote, At, Idle
  <2> QED
    BY <2>1 DEF IdInv, IdOK
<1> QED
  BY <1>1, <1>2, <1>3, Invariance, PTL DEF Spec, CreateIsFresh
===================================================================================
