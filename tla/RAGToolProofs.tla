------------------------------- MODULE RAGToolProofs -------------------------------
(* Theorems about RAGTool: for any number of ingestions, deletions, failures and    *)
(* crashes the status column tells the truth, nothing half-written stays but what   *)
(* an unenforced foreign key leaves, a deleted document is found only when both     *)
(* stores kept it, and a ready one is found.                                        *)
EXTENDS RAGTool, TLAPS

(* The call has not written its document.                                           *)
Early == {"idle", "lookup", "embed", "duplicate"}

(* What holds of one document across the two stores, its ingestion and its          *)
(* deletion: what a step that finds the row in place may rely on.                   *)
Untouched(c) == run[c].stage \in Early =>
                  docs[c] = "none" /\ del[c] = "idle" /\ points \cap ChunksOf(c) = {}
Deleted(c) == /\ del[c] \in {"points", "deleted"} => docs[c] = "none"
              /\ victims[c] \subseteq ChunksOf(c)
Ready(c) == docs[c] = "ready" => run[c].stage = "ok" /\ ChunksOf(c) \subseteq points
Rows(c) == docs[c] \in {"ready", "vector_pending"} => ChunksOf(c) \subseteq rows
SavedSoFar(c) == run[c].stage = "chunks" /\ docs[c] # "none" =>
                   \A i \in 1..run[c].at : <<c, i>> \in rows
AllSaved(c) == /\ run[c].stage \in {"pending", "ready"} /\ docs[c] # "none" => ChunksOf(c) \subseteq rows
               /\ run[c].stage = "ready" /\ docs[c] # "none" => ChunksOf(c) \subseteq points
CleanFailure(c) == run[c].stage = "failed" /\ c \notin spoilt /\ docs[c] # "none" =>
                     ChunksOf(c) \subseteq rows
(* Points have their rows while the document is there; a deletion of an ingested    *)
(* document that is not spared has the IDs of all its points and leaves none.       *)
Placed(c) == docs[c] # "none" /\ points \cap ChunksOf(c) # {} => ChunksOf(c) \subseteq rows
Swept(c) ==
  c \notin spared =>
    /\ del[c] \in {"document", "points", "deleted"} => run[c].stage \in Ended
    /\ del[c] \in {"document", "points"} => points \cap ChunksOf(c) \subseteq victims[c]
    /\ del[c] = "deleted" => points \cap ChunksOf(c) = {}
DocInv(c) == /\ Untouched(c) /\ Deleted(c) /\ Ready(c) /\ Rows(c)
             /\ SavedSoFar(c) /\ AllSaved(c) /\ CleanFailure(c)
             /\ Placed(c) /\ Swept(c)

RowsInv == \A r \in rows : docs[r[1]] = "none" => r[1] \in unbound

(* What the search relies on: its ready documents were ingested for good, those it  *)
(* counts as gone stay gone, and it has hit every point it had room for.            *)
SearchInv ==
  /\ \A c \in srch.ready : run[c].stage = "ok" /\ run[c].text = srch.text
  /\ \A c \in srch.gone : del[c] = "deleted"
  /\ \A p \in srch.hits : p[1] \in srch.gone => p[1] \in spared
  /\ srch.stage = "rows" =>
       \A c \in srch.ready :
         docs[c] = "ready" /\ Cardinality(srch.hits) < TopK => ChunksOf(c) \subseteq srch.hits

StoreInv == (\A c \in Calls : DocInv(c)) /\ RowsInv
FoundInv == SearchInv /\ DeletedNotFound /\ ReadyIsFound
IInv == TypeOK /\ StoreInv /\ FoundInv
-----------------------------------------------------------------------------------
(* Chunks belong to one document.                                                   *)
LEMMA ChunkOwner ==
  ASSUME NEW c \in Calls
  PROVE  /\ ChunksOf(c) \subseteq Chunks
         /\ \A p \in ChunksOf(c) : p[1] = c
         /\ \A i \in 1..N : <<c, i>> \in ChunksOf(c)
         /\ \A d \in Calls : c # d => ChunksOf(c) \cap ChunksOf(d) = {}
  BY DEF ChunksOf, Chunks

(* Who may move: a call of Ingest, a deletion, the search.                           *)
CallStep(c) == (Ingest(c) \/ Advance(c)) /\ UNCHANGED tool
DeleteStep(d) == QueryChunks(d) \/ DeleteDocument(d) \/ DeletePoints(d)
SearchStep == Search \/ SearchVectors \/ FetchChunks \/ Return

(* A step is one ingestion's, one deletion's, the search's or the crash.            *)
LEMMA StepCases ==
  ASSUME [Next]_vars
  PROVE  \/ \E c \in Calls : CallStep(c)
         \/ \E d \in Calls : DeleteStep(d)
         \/ SearchStep \/ Crash \/ UNCHANGED vars
  BY DEF Next, CallStep, DeleteStep, SearchStep
-----------------------------------------------------------------------------------
(* Types: those of the pipeline and those of the tool.                               *)
Run == [stage : Stages, text : Texts \cup {None}, at : 0..N, attempt : 1..MaxAttempts]
PType == /\ run \in [Calls -> Run] /\ docs \in [Calls -> Status]
         /\ rows \subseteq Chunks /\ points \subseteq Chunks
         /\ spoilt \subseteq Calls /\ unbound \subseteq Calls
Srch == [stage : {"idle", "vectors", "rows", "answered", "error"}, text : Texts \cup {None},
         hits : SUBSET Chunks, answer : SUBSET Chunks,
         ready : SUBSET Calls, told : SUBSET Calls, gone : SUBSET Calls]
ToolType == /\ del \in [Calls -> {"idle", "deleted", "failed"} \cup Deleting]
            /\ victims \in [Calls -> SUBSET Chunks] /\ spared \subseteq Calls /\ srch \in Srch

(* The types of the pipeline and those of the tool.                                 *)
LEMMA TypeParts == TypeOK <=> PType /\ ToolType
  BY DEF TypeOK, PType, ToolType, Run, Srch

(* Every step of a call keeps the pipeline's types.                                  *)
LEMMA CallType == ASSUME PType, NEW c \in Calls, Ingest(c) \/ Advance(c) PROVE PType'
<1> USE IngestAssumption DEF PType, Run
<1>1. CASE Ingest(c)
  <2>1. PICK text \in Texts, stage \in {"lookup", "failed"} :
          run' = [run EXCEPT ![c].stage = stage, ![c].text = text]
    BY <1>1 DEF Ingest
  <2>2. run \in [Calls -> Run]
    OBVIOUS
  <2>3. stage \in Stages /\ text \in Texts \cup {None}
    BY DEF Stages
  <2>4. run' \in [Calls -> Run]
    BY <2>1, <2>2, <2>3
  <2> QED
    BY <1>1, <2>4 DEF Ingest
<1>2. CASE FindDuplicate(c)
  BY <1>2 DEF FindDuplicate, Goto, Stages, Status
<1>3. CASE EmbedBatch(c)
  <2>1. /\ run[c].at \in 0..N /\ N \in Nat /\ Batch \in Nat \ {0} /\ 1 \in 1..MaxAttempts
    OBVIOUS
  <2>2. (IF run[c].at + Batch < N THEN run[c].at + Batch ELSE N) \in 0..N
    BY <2>1
  <2>3. run' \in [Calls -> Run]
    BY <1>3, <2>1, <2>2 DEF EmbedBatch
  <2> QED
    BY <1>3, <2>3 DEF EmbedBatch
<1>4. CASE EmbedFails(c)
  <2>1. run[c].attempt \in 1..MaxAttempts /\ MaxAttempts \in Nat /\ "failed" \in Stages
    BY DEF Stages
  <2>2. run' \in [Calls -> Run]
    BY <1>4, <2>1 DEF EmbedFails, Goto
  <2> QED
    BY <1>4, <2>2 DEF EmbedFails
<1>5. CASE SaveDocument(c)
  BY <1>5 DEF SaveDocument, Goto, Stages, Status
<1>6. CASE SaveChunk(c)
  <2>1. /\ run[c].at \in 0..N /\ run[c].at < N /\ N \in Nat
    BY <1>6 DEF SaveChunk
  <2>2. <<c, run[c].at + 1>> \in Chunks /\ run[c].at + 1 \in 0..N
    BY <2>1 DEF Chunks
  <2>3. "failed" \in Stages /\ "cleanup" \in Stages
    BY DEF Stages
  <2>4. run' \in [Calls -> Run]
    BY <1>6, <2>2, <2>3 DEF SaveChunk, Goto
  <2>5. rows' \subseteq Chunks /\ unbound' \subseteq Calls
    BY <1>6, <2>2 DEF SaveChunk
  <2> QED
    BY <1>6, <2>4, <2>5 DEF SaveChunk
<1>7. CASE CleanUp(c)
  <2>1. "failed" \in Stages /\ "none" \in Status
    BY DEF Stages, Status
  <2>2. run' \in [Calls -> Run]
    BY <1>7, <2>1 DEF CleanUp, Goto
  <2>3. docs' \in [Calls -> Status] /\ rows' \subseteq Chunks /\ spoilt' \subseteq Calls /\ unbound' \subseteq Calls
    BY <1>7, <2>1 DEF CleanUp, DropDocument
  <2> QED
    BY <1>7, <2>2, <2>3 DEF CleanUp
<1>8. CASE BatchUpsert(c)
  BY <1>8, ChunkOwner DEF BatchUpsert, Goto, Stages
<1>9. CASE MarkPending(c)
  BY <1>9 DEF MarkPending, Mark, Goto, Stages, Status
<1>10. CASE MarkReady(c)
  BY <1>10 DEF MarkReady, Mark, Goto, Stages, Status
<1> QED
  BY <1>1, <1>2, <1>3, <1>4, <1>5, <1>6, <1>7, <1>8, <1>9, <1>10 DEF Advance

(* A deletion's step keeps the types.                                               *)
LEMMA DeleteType == ASSUME PType, ToolType, NEW d \in Calls, DeleteStep(d) PROVE PType' /\ ToolType'
<1> USE DEF PType, ToolType, Deleting
<1>1. CASE QueryChunks(d)
  <2>1. rows \cap ChunksOf(d) \in SUBSET Chunks
    OBVIOUS
  <2> QED
    BY <1>1, <2>1 DEF QueryChunks, pvars
<1>2. CASE DeleteDocument(d)
  BY <1>2 DEF DeleteDocument, DropDocument, Status
<1>3. CASE DeletePoints(d)
  BY <1>3 DEF DeletePoints
<1> QED
  BY <1>1, <1>2, <1>3 DEF DeleteStep

(* The search's step keeps the types.                                               *)
LEMMA SearchType == ASSUME PType, ToolType, SearchStep PROVE PType' /\ ToolType'
<1> USE DEF PType, ToolType, Srch
<1>1. PType' /\ UNCHANGED <<del, victims, spared>>
  BY DEF SearchStep, Search, SearchVectors, FetchChunks, Return, pvars
<1>2. CASE Search
  <2>1. PICK text \in Texts :
          srch' = [stage |-> "vectors", text |-> text, hits |-> {}, answer |-> {},
                   ready |-> {c \in Calls : docs[c] = "ready" /\ run[c].text = text},
                   told |-> {c \in Calls : run[c].stage \in {"ok", "duplicate"} /\ run[c].text = text},
                   gone |-> {c \in Calls : del[c] = "deleted"}]
    BY <1>2 DEF Search, NoSearch
  <2> QED
    BY <1>1, <2>1
<1>3. CASE SearchVectors
  BY <1>1, <1>3 DEF SearchVectors, Matching
<1>4. CASE FetchChunks
  BY <1>1, <1>4 DEF FetchChunks
<1>5. CASE Return
  BY <1>1, <1>5 DEF Return, NoSearch
<1> QED
  BY <1>2, <1>3, <1>4, <1>5 DEF SearchStep

(* A crash keeps the types.                                                         *)
LEMMA CrashType == ASSUME PType, ToolType, Crash PROVE PType' /\ ToolType'
<1>1. PType'
  BY DEF PType, Run, Stages, Crash, PCrash, Active
<1>2. ToolType'
  BY DEF ToolType, Srch, Crash, NoSearch, Deleting
<1> QED
  BY <1>1, <1>2

(* The state has its types, for any number of calls, chunks and attempts.           *)
LEMMA TypeStep == ASSUME TypeOK, [Next]_vars PROVE TypeOK'
<1>1. PType /\ ToolType
  BY TypeParts
<1>2. ASSUME NEW c \in Calls, CallStep(c) PROVE TypeOK'
  BY <1>1, <1>2, CallType, TypeParts DEF CallStep, tool, ToolType, TypeOK, PType, Run, Srch
<1>3. CASE UNCHANGED vars
  BY <1>3 DEF vars, pvars, tool, TypeOK
<1> QED
  BY <1>1, <1>2, <1>3, StepCases, DeleteType, SearchType, CrashType, TypeParts
     DEF TypeOK, PType, ToolType, Run, Srch
-----------------------------------------------------------------------------------
(* A document nobody touches keeps its invariant, whatever is added for others.     *)
Kept(d) == /\ run'[d] = run[d] /\ docs'[d] = docs[d] /\ del'[d] = del[d] /\ victims'[d] = victims[d]
           /\ rows \cap ChunksOf(d) \subseteq rows' /\ points' \cap ChunksOf(d) = points \cap ChunksOf(d)
           /\ spoilt \subseteq spoilt' /\ (d \in spared' <=> d \in spared)

(* What is known of a document holds on while a step leaves it alone.               *)
LEMMA KeptInv == ASSUME PType, NEW d \in Calls, DocInv(d), Kept(d) PROVE DocInv(d)'
<1>1. \A i \in 1..run[d].at : <<d, i>> \in ChunksOf(d)
  BY ChunkOwner, IngestAssumption DEF PType, Run
<1> QED
  BY <1>1 DEF Kept, DocInv, Untouched, Deleted, Ready, Rows, SavedSoFar, AllSaved, CleanFailure, Placed, Swept

(* A step of a call keeps every other document.                                     *)
LEMMA CallKeeps ==
  ASSUME PType, ToolType, NEW c \in Calls, CallStep(c), NEW d \in Calls, d # c
  PROVE  Kept(d)
<1> USE DEF PType, CallStep, tool, Kept, Goto
<1>1. ChunksOf(c) \cap ChunksOf(d) = {}
  BY ChunkOwner
<1>2. CASE Ingest(c) \/ FindDuplicate(c) \/ EmbedBatch(c) \/ EmbedFails(c)
  BY <1>2 DEF Ingest, FindDuplicate, EmbedBatch, EmbedFails
<1>3. CASE SaveDocument(c) \/ SaveChunk(c) \/ BatchUpsert(c)
  BY <1>1, <1>3 DEF SaveDocument, SaveChunk, BatchUpsert
<1>4. CASE CleanUp(c)
  BY <1>1, <1>4 DEF CleanUp, DropDocument
<1>5. CASE MarkPending(c) \/ MarkReady(c)
  BY <1>5 DEF MarkPending, MarkReady, Mark
<1> QED
  BY <1>2, <1>3, <1>4, <1>5 DEF Advance

(* What the call's own document relies on.                                          *)
LEMMA CallInv ==
  ASSUME PType, ToolType, NEW c \in Calls, DocInv(c), CallStep(c)
  PROVE  DocInv(c)'
<1> USE IngestAssumption DEF PType, ToolType, Run, CallStep, tool, At, Goto, DocInv, Untouched, Deleted, Ready,
        Rows, SavedSoFar, AllSaved, CleanFailure, Early, Placed, Swept, Ended
<1>1. CASE Ingest(c)
  BY <1>1 DEF Ingest
<1>2. CASE FindDuplicate(c)
  BY <1>2 DEF FindDuplicate
<1>3. CASE EmbedBatch(c)
  BY <1>3 DEF EmbedBatch
<1>4. CASE EmbedFails(c)
  BY <1>4 DEF EmbedFails
<1>5. CASE SaveDocument(c)
  BY <1>5 DEF SaveDocument
<1>6. CASE SaveChunk(c)
  <2>1. /\ run[c].stage = "chunks" /\ UNCHANGED <<docs, points, spoilt, del, victims, spared>>
        /\ rows \subseteq rows'
    BY <1>6 DEF SaveChunk
  <2>2. \/ /\ run'[c].stage = "chunks" /\ run'[c].at = run[c].at + 1 /\ <<c, run[c].at + 1>> \in rows'
        \/ run'[c].stage = "cleanup"
    BY <1>6 DEF SaveChunk
  <2>3. ASSUME NEW i \in 1..run[c].at + 1 PROVE i = run[c].at + 1 \/ i \in 1..run[c].at
    <3>1. run[c].at \in Nat
      OBVIOUS
    <3> QED
      BY ONLY <3>1, i \in 1..run[c].at + 1
  <2> QED
    BY <2>1, <2>2, <2>3
<1>7. CASE CleanUp(c)
  BY <1>7 DEF CleanUp, DropDocument
<1>8. CASE BatchUpsert(c)
  BY <1>8 DEF BatchUpsert, ChunksOf
<1>9. CASE MarkPending(c)
  BY <1>9 DEF MarkPending, Mark
<1>10. CASE MarkReady(c)
  BY <1>10 DEF MarkReady, Mark
<1> QED
  BY <1>1, <1>2, <1>3, <1>4, <1>5, <1>6, <1>7, <1>8, <1>9, <1>10 DEF Advance

(* A chunk row has its document, or a connection without foreign keys worked on it. *)
LEMMA CallRows ==
  ASSUME PType, NEW c \in Calls, RowsInv, CallStep(c)
  PROVE  RowsInv'
<1> SUFFICES ASSUME NEW r \in rows', docs'[r[1]] = "none" PROVE r[1] \in unbound'
  BY DEF RowsInv
<1> USE DEF PType, RowsInv
<1>0. r \in rows => /\ docs[r[1]] = "none" => r[1] \in unbound
                   /\ r[1] \in Calls /\ (r[1] = c => r \in ChunksOf(c))
  BY DEF Chunks, ChunksOf
<1>1. CASE UNCHANGED <<docs, rows, unbound>>
  BY <1>0, <1>1
<1>2. CASE SaveDocument(c)
  BY <1>0, <1>2 DEF SaveDocument
<1>3. CASE SaveChunk(c)
  BY <1>0, <1>3 DEF SaveChunk
<1>4. CASE CleanUp(c)
  BY <1>0, <1>4 DEF CleanUp, DropDocument
<1>5. CASE BatchUpsert(c)
  BY <1>0, <1>5 DEF BatchUpsert
<1>6. CASE MarkPending(c) \/ MarkReady(c)
  BY <1>0, <1>6 DEF MarkPending, MarkReady, Mark
<1> QED
  BY <1>1, <1>2, <1>3, <1>4, <1>5, <1>6
     DEF CallStep, Advance, Ingest, FindDuplicate, EmbedBatch, EmbedFails

(* A deletion's step keeps what is known of every document.                         *)
LEMMA DeleteInv ==
  ASSUME PType, ToolType, NEW d \in Calls, StoreInv, DeleteStep(d)
  PROVE  StoreInv'
<1> USE DEF PType, ToolType, StoreInv
<1>1. \A e \in Calls : e # d => Kept(e)
  <2> SUFFICES ASSUME NEW e \in Calls, e # d PROVE Kept(e)
    OBVIOUS
  <2>1. ChunksOf(d) \cap ChunksOf(e) = {} /\ victims[d] \subseteq ChunksOf(d)
    BY ChunkOwner DEF DocInv, Deleted
  <2> QED
    BY <2>1 DEF Kept, DeleteStep, QueryChunks, DeleteDocument, DropDocument, DeletePoints, pvars
<1>2. DocInv(d)'
  <2> USE DEF pvars, Untouched, Deleted, Ready, Rows, SavedSoFar, AllSaved, CleanFailure, Placed, Swept
  <2>1. /\ Untouched(d) /\ Deleted(d) /\ Ready(d) /\ Rows(d)
        /\ SavedSoFar(d) /\ AllSaved(d) /\ CleanFailure(d) /\ Placed(d) /\ Swept(d)
    BY DEF DocInv
  <2>2. CASE QueryChunks(d)
    <3>1. ~Active(d) => run[d].stage \in Ended
      BY <2>1, <2>2 DEF QueryChunks, Active, Early
    <3> QED
      BY <2>1, <2>2, <3>1 DEF QueryChunks, DocInv
  <2>3. CASE DeleteDocument(d)
    BY <2>1, <2>3 DEF DeleteDocument, DropDocument, DocInv
  <2>4. CASE DeletePoints(d)
    BY <2>1, <2>4 DEF DeletePoints, DocInv
  <2> QED
    BY <2>2, <2>3, <2>4 DEF DeleteStep
<1>3. RowsInv'
  <2> SUFFICES ASSUME NEW r \in rows', docs'[r[1]] = "none" PROVE r[1] \in unbound'
    BY DEF RowsInv
  <2>1. r \in rows => /\ docs[r[1]] = "none" => r[1] \in unbound
                     /\ r[1] \in Calls /\ (r[1] = d => r \in ChunksOf(d))
    BY DEF Chunks, ChunksOf, RowsInv
  <2> QED
    BY <2>1 DEF DeleteStep, QueryChunks, DeleteDocument, DropDocument, DeletePoints, pvars
<1> QED
  BY <1>1, <1>2, <1>3, KeptInv

(* A crash keeps what is known of every document: it only stops calls.              *)
LEMMA CrashInv == ASSUME PType, ToolType, StoreInv, Crash PROVE StoreInv'
<1>1. RowsInv'
  BY DEF StoreInv, RowsInv, Crash, PCrash
<1>2. ASSUME NEW c \in Calls PROVE DocInv(c)'
  <2>1. DocInv(c) /\ UNCHANGED <<docs, rows, points, spoilt, victims, spared>>
    BY DEF StoreInv, Crash, PCrash
  <2>2. \/ run'[c] = run[c] /\ ~Active(c)
        \/ run'[c].stage = "dead" /\ Active(c)
    BY DEF Crash, PCrash, PType, Run
  <2>3. del'[c] = (IF del[c] \in Deleting THEN "failed" ELSE del[c])
    BY DEF Crash, ToolType
  <2> QED
    BY <2>1, <2>2, <2>3 DEF Active, Ended, Deleting, DocInv, Untouched, Deleted, Ready, Rows, SavedSoFar,
       AllSaved, CleanFailure, Placed, Swept, Early
<1> QED
  BY <1>1, <1>2 DEF StoreInv

(* The two stores and the status column agree, after every step.                    *)
LEMMA StoreStep == ASSUME TypeOK, StoreInv, [Next]_vars PROVE StoreInv'
<1> USE TypeParts
<1>1. ASSUME NEW c \in Calls, CallStep(c) PROVE StoreInv'
  BY <1>1, CallKeeps, KeptInv, CallInv, CallRows DEF StoreInv
<1>2. CASE SearchStep \/ UNCHANGED vars
  <2>1. UNCHANGED <<pvars, del, victims, spared>>
    BY <1>2 DEF SearchStep, Search, SearchVectors, FetchChunks, Return, vars, tool
  <2>2. \A c \in Calls : Kept(c)
    BY <2>1 DEF Kept, pvars
  <2> QED
    BY <2>1, <2>2, KeptInv DEF StoreInv, RowsInv, pvars
<1> QED
  BY <1>1, <1>2, StepCases, DeleteInv, CrashInv
-----------------------------------------------------------------------------------
(* A step that leaves the search alone disturbs neither the documents it found      *)
(* ready nor those it found deleted.                                                *)
LEMMA Undisturbed ==
  ASSUME TypeOK, StoreInv, FoundInv, UNCHANGED srch,
         \A c \in srch.ready : run'[c] = run[c] /\ (docs'[c] = "ready" => docs[c] = "ready"),
         \A c \in srch.gone : del'[c] = del[c] /\ (c \in spared => c \in spared'),
         unbound \subseteq unbound'
  PROVE  FoundInv'
  BY DEF FoundInv, SearchInv, DeletedNotFound, ReadyIsFound

(* An ingestion's step keeps what is known of the search's hits.                    *)
LEMMA CallFound == ASSUME TypeOK, StoreInv, FoundInv, NEW c \in Calls, CallStep(c) PROVE FoundInv'
<1>1. PType /\ ToolType
  BY TypeParts
<1>2. run[c].stage # "ok"
  BY DEF CallStep, Advance, At, Ingest, FindDuplicate, EmbedBatch, EmbedFails, SaveDocument, SaveChunk, CleanUp,
         BatchUpsert, MarkPending, MarkReady
<1>3. \A d \in srch.ready : d \in Calls /\ d # c
  BY <1>1, <1>2 DEF FoundInv, SearchInv, ToolType, Srch
<1>4. \A d \in srch.ready : Kept(d)
  BY <1>1, <1>3, CallKeeps
<1>5. unbound \subseteq unbound'
  BY DEF CallStep, Advance, Ingest, FindDuplicate, EmbedBatch, EmbedFails, SaveDocument, SaveChunk, CleanUp,
         DropDocument, BatchUpsert, MarkPending, MarkReady
<1> QED
  BY <1>4, <1>5, Undisturbed DEF Kept, CallStep, tool

(* A deletion's step keeps what is known of the search's hits.                      *)
LEMMA DeleteFound == ASSUME TypeOK, StoreInv, FoundInv, NEW d \in Calls, DeleteStep(d) PROVE FoundInv'
<1>1. PType /\ ToolType
  BY TypeParts
<1>2. UNCHANGED <<run, srch>> /\ \A c \in Calls : docs'[c] = "ready" => docs[c] = "ready"
  BY <1>1 DEF DeleteStep, QueryChunks, DeleteDocument, DropDocument, DeletePoints, pvars, PType
<1>3. del[d] # "deleted" /\ \A c \in Calls : c # d => del'[c] = del[c]
  BY <1>1 DEF DeleteStep, QueryChunks, DeleteDocument, DeletePoints, ToolType
<1>4. srch.ready \subseteq Calls /\ srch.gone \subseteq Calls
  BY <1>1 DEF ToolType, Srch
<1>5. \A c \in srch.gone : del'[c] = del[c] /\ c # d
  BY <1>3, <1>4 DEF FoundInv, SearchInv
<1>6. unbound \subseteq unbound' /\ spared \ {d} \subseteq spared'
  BY DEF DeleteStep, QueryChunks, DeleteDocument, DropDocument, DeletePoints, pvars
<1> QED
  BY <1>2, <1>4, <1>5, <1>6, Undisturbed

(* The search's own step keeps what is known of its hits.                           *)
LEMMA SearchFound == ASSUME TypeOK, StoreInv, FoundInv, SearchStep PROVE FoundInv'
<1>1. UNCHANGED <<run, docs, rows, points, unbound, del, spared>>
  BY DEF SearchStep, Search, SearchVectors, FetchChunks, Return, pvars
<1>2. PType /\ ToolType /\ rows \subseteq Chunks
  BY TypeParts DEF TypeOK
<1> USE DEF ToolType, Srch, FoundInv, SearchInv, DeletedNotFound, ReadyIsFound
<1>3. CASE Search
  <2>1. PICK text \in Texts :
          srch' = [stage |-> "vectors", text |-> text, hits |-> {}, answer |-> {},
                   ready |-> {c \in Calls : docs[c] = "ready" /\ run[c].text = text},
                   told |-> {c \in Calls : run[c].stage \in {"ok", "duplicate"} /\ run[c].text = text},
                   gone |-> {c \in Calls : del[c] = "deleted"}]
    BY <1>3 DEF Search, NoSearch
  <2>2. \A c \in Calls : docs[c] = "ready" => run[c].stage = "ok"
    BY DEF StoreInv, DocInv, Ready
  <2> QED
    BY <1>1, <2>1, <2>2
<1>4. CASE SearchVectors
  <2>1. /\ srch'.text = srch.text /\ srch'.answer = srch.answer
        /\ srch'.ready = srch.ready /\ srch'.gone = srch.gone /\ srch'.stage \in {"rows", "error"}
        /\ srch'.stage = "rows" =>
             Cardinality(srch'.hits) = TopK \/ (srch'.hits = Matching(srch.text) /\ Cardinality(srch'.hits) < TopK)
    BY <1>2, <1>4 DEF SearchVectors
  <2>2. ASSUME NEW c \in srch.ready, docs[c] = "ready" PROVE ChunksOf(c) \subseteq Matching(srch.text)
    <3>1. c \in Calls /\ ChunksOf(c) \subseteq points /\ run[c].text = srch.text
      BY <1>2, <2>2 DEF StoreInv, DocInv, Ready
    <3> QED
      BY <3>1, ChunkOwner DEF Matching
  <2>3. TopK \in Nat /\ ~(TopK < TopK)
    BY RAGAssumption
  <2>4. ASSUME NEW p \in srch'.hits, p[1] \in srch.gone PROVE p[1] \in spared
    <3>1. p \in srch.hits \/ p \in points
      BY <1>2, <1>4, <2>4 DEF SearchVectors, Matching
    <3>2. p \in points => p[1] \in Calls /\ p \in ChunksOf(p[1])
      BY <1>2 DEF PType, Chunks, ChunksOf
    <3> QED
      BY <2>4, <3>1, <3>2 DEF StoreInv, DocInv, Swept
  <2> QED
    BY <1>1, <2>1, <2>2, <2>3, <2>4
<1>5. CASE FetchChunks
  <2>1. /\ srch'.ready = srch.ready /\ srch'.gone = srch.gone /\ srch'.hits = srch.hits
        /\ srch'.text = srch.text /\ srch.stage = "rows"
        /\ \/ srch'.stage = "answered" /\ srch'.answer = srch.hits \cap rows
           \/ srch'.stage = "error" /\ srch'.answer = srch.answer
    BY <1>2, <1>5 DEF FetchChunks
  <2>2. ASSUME NEW c \in srch.ready, docs[c] = "ready" PROVE ChunksOf(c) \subseteq rows
    BY <1>2, <2>2 DEF StoreInv, DocInv, Rows
  <2>3. ASSUME NEW p \in rows, p[1] \in srch.gone PROVE p[1] \in unbound
    <3>1. docs[p[1]] = "none"
      BY <1>2, <2>3 DEF StoreInv, DocInv, Deleted
    <3> QED
      BY <2>3, <3>1 DEF StoreInv, RowsInv
  <2> QED
    BY <1>1, <2>1, <2>2, <2>3
<1>6. CASE Return
  BY <1>1, <1>6 DEF Return, NoSearch
<1> QED
  BY <1>3, <1>4, <1>5, <1>6 DEF SearchStep

(* Every step keeps what is known of the search's hits.                             *)
LEMMA FoundStep == ASSUME TypeOK, StoreInv, FoundInv, [Next]_vars PROVE FoundInv'
<1>1. CASE Crash
  BY <1>1 DEF Crash, NoSearch, FoundInv, SearchInv, DeletedNotFound, ReadyIsFound
<1>2. CASE UNCHANGED vars
  BY <1>2 DEF vars, pvars, tool, FoundInv, SearchInv, DeletedNotFound, ReadyIsFound
<1> QED
  BY <1>1, <1>2, StepCases, CallFound, DeleteFound, SearchFound
-----------------------------------------------------------------------------------
(* The empty stores satisfy the inductive invariant.                                *)
LEMMA InitInv == Init => IInv
<1> SUFFICES ASSUME Init PROVE IInv
  OBVIOUS
<1>1. TypeOK
  BY IngestAssumption DEF Init, PInit, TypeOK, NoSearch, Stages, Status, Deleting
<1>2. StoreInv
  BY DEF Init, PInit, StoreInv, RowsInv, DocInv, Untouched, Deleted, Ready, Rows, SavedSoFar, AllSaved,
         CleanFailure, Placed, Swept, Early
<1>3. FoundInv
  BY DEF Init, NoSearch, FoundInv, SearchInv, DeletedNotFound, ReadyIsFound
<1> QED
  BY <1>1, <1>2, <1>3 DEF IInv

(* The inductive invariant: what every document's stage, status, rows and points    *)
(* have to do with each other, and what the search may rely on.                     *)
THEOREM Invariant == Spec => []IInv
<1>1. IInv /\ [Next]_vars => IInv'
  BY TypeStep, StoreStep, FoundStep DEF IInv
<1> QED
  BY InitInv, <1>1, PTL DEF Spec

(* Every value of the state is one the code can store.                              *)
THEOREM TypeCorrect == Spec => []TypeOK
<1>1. IInv => TypeOK
  BY DEF IInv
<1> QED
  BY Invariant, <1>1, PTL

(* The status column tells the truth across both stores (pipeline.go:366).          *)
THEOREM StatusCorrect == Spec => []StatusTells
<1>1. IInv => StatusTells
  BY DEF IInv, StoreInv, DocInv, Ready, Rows, StatusTells
<1> QED
  BY Invariant, <1>1, PTL

(* A failed call leaves all the rows of its document or none, unless the clean-up   *)
(* itself failed (pipeline.go:320); a row is without its document only where a      *)
(* connection of the pool does not enforce foreign keys (sqlite_store.go:37).       *)
THEOREM CleanUpCorrect == Spec => []NothingHalfDone
<1>1. IInv => NothingHalfDone
  BY DEF IInv, StoreInv, DocInv, CleanFailure, RowsInv, NothingHalfDone
<1> QED
  BY Invariant, <1>1, PTL

(* After an acknowledged deletion a search returns the document only if both stores *)
(* kept it: its rows on a connection without foreign keys, and its points because   *)
(* their deletion failed (rag_tool.go:433) or the ingestion was still running.      *)
THEOREM DeletedStaysHidden == Spec => []DeletedNotFound
<1>1. IInv => DeletedNotFound
  BY DEF IInv, FoundInv
<1> QED
  BY Invariant, <1>1, PTL

(* A search with room for every match returns all of a ready document.              *)
THEOREM ReadyStaysFound == Spec => []ReadyIsFound
<1>1. IInv => ReadyIsFound
  BY DEF IInv, FoundInv
<1> QED
  BY Invariant, <1>1, PTL
===================================================================================
