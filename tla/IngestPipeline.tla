------------------------------ MODULE IngestPipeline ------------------------------
(* memory/rag/ingestion/pipeline.go: Ingest looks for a document of the same     *)
(* contents, embeds the chunks, writes the document row, its chunk rows and its  *)
(* points, and marks the row.  Calls run concurrently over two stores that share *)
(* no transaction; statements and requests fail, and the process may crash.      *)
EXTENDS Naturals, FiniteSets

CONSTANTS Calls,       \* calls of Ingest; a call also names the document it makes
          Texts,       \* contents of documents (their SHA-256)
          None,        \* no contents: the call has not begun
          N,           \* chunks of a document
          Batch,       \* chunks embedded by one request
          MaxAttempts, \* maxRetries
          Faults,      \* whether statements and requests may fail
          Crashes,     \* whether the process may crash
          Enforced     \* whether a connection of the pool enforces foreign keys:
                       \* Init sets the pragma on one of them

ASSUME IngestAssumption ==
  /\ None \notin Texts /\ N \in Nat /\ {Batch, MaxAttempts} \subseteq Nat \ {0}
  /\ {Faults, Crashes} \subseteq BOOLEAN /\ Enforced \in (SUBSET BOOLEAN) \ {{}}

VARIABLES run,    \* call -> how far it is
          docs,   \* rag_documents: document -> status, "none" without a row
          rows,   \* rag_chunks: the chunks that have a row
          points, \* the chunks that have a point in the vector store
          spoilt, \* the calls whose deferred clean-up failed
          unbound \* the documents that a connection without foreign keys deleted,
                  \* or for which it wrote a chunk when there was none

pvars == <<run, docs, rows, points, spoilt, unbound>>
-----------------------------------------------------------------------------------
Stages == {"idle", "lookup", "embed", "chunks", "cleanup", "pending", "ready",
           "ok", "duplicate", "failed", "dead"}
Ended == {"ok", "duplicate", "failed", "dead"}
Status == {"none", "processing", "vector_pending", "ready"}
ChunksOf(c) == {c} \X (1..N)
Chunks == Calls \X (1..N)

At(c, stage) == run[c].stage = stage
Goto(c, stage) == run' = [run EXCEPT ![c].stage = stage]
Active(c) == run[c].stage \notin Ended \cup {"idle"}

PInit ==
  /\ run = [c \in Calls |-> [stage |-> "idle", text |-> None, at |-> 0, attempt |-> 1]]
  /\ docs = [c \in Calls |-> "none"]
  /\ rows = {} /\ points = {} /\ spoilt = {} /\ unbound = {}

(* The parser may refuse the source.                                             *)
Ingest(c) ==
  /\ At(c, "idle")
  /\ \E text \in Texts, stage \in {"lookup", "failed"} :
       run' = [run EXCEPT ![c].stage = stage, ![c].text = text]
  /\ UNCHANGED <<docs, rows, points, spoilt, unbound>>

(* Any row of the same contents will do, whatever its status; a query that fails *)
(* counts as no row.  The chunker may then refuse the contents.                  *)
SameText(c) == {d \in Calls : docs[d] # "none" /\ run[d].text = run[c].text}
FindDuplicate(c) ==
  /\ At(c, "lookup")
  /\ \/ SameText(c) # {} /\ Goto(c, "duplicate")
     \/ (SameText(c) = {} \/ Faults) /\ \E stage \in {"embed", "failed"} : Goto(c, stage)
  /\ UNCHANGED <<docs, rows, points, spoilt, unbound>>

EmbedBatch(c) ==
  /\ At(c, "embed") /\ run[c].at < N
  /\ run' = [run EXCEPT ![c].at = IF @ + Batch < N THEN @ + Batch ELSE N, ![c].attempt = 1]
  /\ UNCHANGED <<docs, rows, points, spoilt, unbound>>

(* Mutants: the attempts are counted round and round; one attempt too many.      *)
EmbedFails_OneMore(c) ==
  /\ Faults /\ At(c, "embed") /\ run[c].at < N
  /\ \/ run[c].attempt <= MaxAttempts /\ run' = [run EXCEPT ![c].attempt = @ + 1]
     \/ Goto(c, "failed")
  /\ UNCHANGED <<docs, rows, points, spoilt, unbound>>
EmbedFails_Forever(c) ==
  /\ Faults /\ At(c, "embed") /\ run[c].at < N
  /\ run' = [run EXCEPT ![c].attempt = (@ % MaxAttempts) + 1]
  /\ UNCHANGED <<docs, rows, points, spoilt, unbound>>

(* embedWithRetry: another attempt after a back-off, unless it was the last or   *)
(* the service answered with a client error.                                     *)
EmbedFails(c) ==
  /\ Faults /\ At(c, "embed") /\ run[c].at < N
  /\ \/ run[c].attempt < MaxAttempts /\ run' = [run EXCEPT ![c].attempt = @ + 1]
     \/ Goto(c, "failed")
  /\ UNCHANGED <<docs, rows, points, spoilt, unbound>>
-----------------------------------------------------------------------------------
SaveDocument(c) ==
  /\ At(c, "embed") /\ run[c].at = N
  /\ \/ /\ docs' = [docs EXCEPT ![c] = "processing"]
        /\ run' = [run EXCEPT ![c].stage = "chunks", ![c].at = 0]
     \/ Faults /\ Goto(c, "failed") /\ UNCHANGED docs
  /\ UNCHANGED <<rows, points, spoilt, unbound>>

(* Mutant: an error leaves the deferred clean-up disarmed.                       *)
SaveChunk_NoCleanUp(c) ==
  /\ At(c, "chunks") /\ run[c].at < N
  /\ \E enforced \in Enforced :
       \/ /\ enforced => docs[c] # "none"
          /\ run' = [run EXCEPT ![c].at = @ + 1]
          /\ rows' = rows \cup {<<c, run[c].at + 1>>}
          /\ unbound' = unbound \cup {d \in {c} : docs[d] = "none"}
       \/ /\ Faults \/ (enforced /\ docs[c] = "none")
          /\ Goto(c, "failed") /\ UNCHANGED <<rows, unbound>>
  /\ UNCHANGED <<docs, points, spoilt>>

(* A connection that enforces foreign keys refuses a chunk without a document.   *)
SaveChunk(c) ==
  /\ At(c, "chunks") /\ run[c].at < N
  /\ \E enforced \in Enforced :
       \/ /\ enforced => docs[c] # "none"
          /\ run' = [run EXCEPT ![c].at = @ + 1]
          /\ rows' = rows \cup {<<c, run[c].at + 1>>}
          /\ unbound' = unbound \cup {d \in {c} : docs[d] = "none"}
       \/ /\ Faults \/ (enforced /\ docs[c] = "none")
          /\ Goto(c, "cleanup") /\ UNCHANGED <<rows, unbound>>
  /\ UNCHANGED <<docs, points, spoilt>>

(* DELETE FROM rag_documents: chunk rows follow on an enforcing connection.      *)
DropDocument(c) ==
  /\ docs' = [docs EXCEPT ![c] = "none"]
  /\ \E enforced \in Enforced :
       /\ rows' = IF enforced THEN rows \ ChunksOf(c) ELSE rows
       /\ unbound' = IF enforced THEN unbound ELSE unbound \cup {c}

(* The deferred clean-up; its error is ignored.                                  *)
CleanUp(c) ==
  /\ At(c, "cleanup") /\ Goto(c, "failed")
  /\ \/ DropDocument(c) /\ UNCHANGED spoilt
     \/ Faults /\ spoilt' = spoilt \cup {c} /\ UNCHANGED <<docs, rows, unbound>>
  /\ UNCHANGED points

(* A failed request may have been carried out.                                   *)
BatchUpsert(c) ==
  /\ At(c, "chunks") /\ run[c].at = N
  /\ \/ Goto(c, "ready") /\ points' = points \cup ChunksOf(c)
     \/ Faults /\ Goto(c, "pending") /\ points' \in {points, points \cup ChunksOf(c)}
  /\ UNCHANGED <<docs, rows, spoilt, unbound>>

(* UPDATE rag_documents SET status: nothing changes when the row is gone.        *)
Mark(c, status) == docs' = [docs EXCEPT ![c] = IF @ = "none" THEN @ ELSE status]

(* Mutant: the points are not waited for.                                        *)
MarkPending_AsReady(c) ==
  /\ At(c, "pending") /\ Goto(c, "failed") /\ Mark(c, "ready")
  /\ UNCHANGED <<rows, points, spoilt, unbound>>
MarkPending(c) ==
  /\ At(c, "pending") /\ Goto(c, "failed")
  /\ Mark(c, "vector_pending") \/ (Faults /\ UNCHANGED docs)
  /\ UNCHANGED <<rows, points, spoilt, unbound>>

MarkReady(c) ==
  /\ At(c, "ready")
  /\ \/ Goto(c, "ok") /\ Mark(c, "ready")
     \/ Faults /\ Goto(c, "failed") /\ UNCHANGED docs
  /\ UNCHANGED <<rows, points, spoilt, unbound>>

PCrash ==
  /\ Crashes /\ \E c \in Calls : Active(c)
  /\ run' = [c \in Calls |-> [run[c] EXCEPT !.stage = IF Active(c) THEN "dead" ELSE @]]
  /\ UNCHANGED <<docs, rows, points, spoilt, unbound>>

Advance(c) ==
  \/ FindDuplicate(c) \/ EmbedBatch(c) \/ EmbedFails(c) \/ SaveDocument(c) \/ SaveChunk(c)
  \/ CleanUp(c) \/ BatchUpsert(c) \/ MarkPending(c) \/ MarkReady(c)
===================================================================================
