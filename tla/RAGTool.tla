---------------------------------- MODULE RAGTool ----------------------------------
(* tools/builtins/rag_tool.go over the ingestion pipeline: delete takes a document *)
(* out of both stores, search asks the vector store and then reads the chunk rows. *)
EXTENDS IngestPipeline

CONSTANTS TopK,       \* results asked for
          Collection  \* RAGConfig.Collection, None when left empty

ASSUME RAGAssumption == TopK \in Nat \ {0}

VARIABLES del,     \* document -> how far its deletion is
          victims, \* document -> chunkIDs
          spared,  \* the documents deleted while they were being ingested, or whose
                   \* points the vector store did not delete
          srch     \* the search

tool == <<del, victims, spared, srch>>
vars == <<pvars, tool>>
-----------------------------------------------------------------------------------
(* NewRAGTool fills its own copy of the configuration, the pipeline another.     *)
PipelineCollection == IF Collection = None THEN "rag_chunks" ELSE Collection
ToolCollection == IF Collection = None THEN "rag" ELSE Collection
Reaches == ToolCollection = PipelineCollection

Deleting == {"document", "points"}
NoSearch == [stage |-> "idle", text |-> None, hits |-> {}, answer |-> {},
             ready |-> {}, told |-> {}, gone |-> {}]

Init ==
  /\ PInit /\ del = [c \in Calls |-> "idle"] /\ victims = [c \in Calls |-> {}]
  /\ spared = {} /\ srch = NoSearch

(* runDelete reads the chunk IDs, deletes the row, then the points.              *)
QueryChunks(d) ==
  /\ docs[d] # "none" /\ del[d] \in {"idle", "failed"}
  /\ \/ /\ del' = [del EXCEPT ![d] = "document"]
        /\ victims' = [victims EXCEPT ![d] = rows \cap ChunksOf(d)]
        /\ spared' = IF Active(d) THEN spared \cup {d} ELSE spared \ {d}
     \/ Faults /\ del' = [del EXCEPT ![d] = "failed"] /\ UNCHANGED <<victims, spared>>
  /\ UNCHANGED <<pvars, srch>>

DeleteDocument(d) ==
  /\ del[d] = "document"
  /\ \/ DropDocument(d) /\ del' = [del EXCEPT ![d] = "points"]
     \/ Faults /\ del' = [del EXCEPT ![d] = "failed"] /\ UNCHANGED <<docs, rows, unbound>>
  /\ UNCHANGED <<run, points, spoilt, victims, spared, srch>>

(* The error of the vector store is dropped.                                     *)
DeletePoints(d) ==
  /\ del[d] = "points" /\ del' = [del EXCEPT ![d] = "deleted"]
  /\ \/ Reaches /\ points' = points \ victims[d] /\ UNCHANGED spared
     \/ (Faults \/ ~Reaches) /\ spared' = spared \cup {d} /\ UNCHANGED points
  /\ UNCHANGED <<run, docs, rows, spoilt, unbound, victims, srch>>
-----------------------------------------------------------------------------------
(* RunSearch: the best points of the collection, then the rows they name.  One   *)
(* query: of several parallel ones the code drops those that fail.               *)
Search ==
  /\ srch.stage = "idle"
  /\ \E text \in Texts :
       srch' = [NoSearch EXCEPT
         !.stage = "vectors", !.text = text,
         !.ready = {c \in Calls : docs[c] = "ready" /\ run[c].text = text},
         !.told = {c \in Calls : run[c].stage \in {"ok", "duplicate"} /\ run[c].text = text},
         !.gone = {c \in Calls : del[c] = "deleted"}]
  /\ UNCHANGED <<pvars, del, victims, spared>>

Matching(text) == {p \in points : run[p[1]].text = text}
SearchVectors ==
  /\ srch.stage = "vectors"
  /\ \/ /\ Reaches
        /\ \E hits \in SUBSET Matching(srch.text) :
             /\ Cardinality(hits) = TopK \/ (hits = Matching(srch.text) /\ Cardinality(hits) < TopK)
             /\ srch' = [srch EXCEPT !.stage = "rows", !.hits = hits]
     \/ (Faults \/ ~Reaches) /\ srch' = [srch EXCEPT !.stage = "error"]
  /\ UNCHANGED <<pvars, del, victims, spared>>

(* Mutants: a missing row ends the loop; a hit is returned although its row is   *)
(* missing.                                                                      *)
FetchChunks_Breaks ==
  /\ srch.stage = "rows"
  /\ \E kept \in SUBSET (srch.hits \cap rows) :
       /\ srch.hits \subseteq rows => kept = srch.hits
       /\ srch' = [srch EXCEPT !.stage = "answered", !.answer = kept]
  /\ UNCHANGED <<pvars, del, victims, spared>>
FetchChunks_NoSkip ==
  /\ srch.stage = "rows"
  /\ srch' = [srch EXCEPT !.stage = "answered", !.answer = srch.hits]
  /\ UNCHANGED <<pvars, del, victims, spared>>

FetchChunks ==
  /\ srch.stage = "rows"
  /\ \/ srch' = [srch EXCEPT !.stage = "answered", !.answer = srch.hits \cap rows]
     \/ Faults /\ srch' = [srch EXCEPT !.stage = "error"]
  /\ UNCHANGED <<pvars, del, victims, spared>>

(* The caller has its answer.                                                    *)
Return == /\ srch.stage \in {"answered", "error"} /\ srch' = NoSearch
          /\ UNCHANGED <<pvars, del, victims, spared>>

Crash ==
  /\ PCrash
  /\ del' = [d \in Calls |-> IF del[d] \in Deleting THEN "failed" ELSE del[d]]
  /\ srch' = NoSearch /\ UNCHANGED <<victims, spared>>

Next == \/ \E c \in Calls : /\ Ingest(c) \/ Advance(c)
                            /\ UNCHANGED tool
        \/ \E d \in Calls : QueryChunks(d) \/ DeleteDocument(d) \/ DeletePoints(d)
        \/ Search \/ SearchVectors \/ FetchChunks \/ Return \/ Crash

Spec == Init /\ [][Next]_vars

(* Goroutines are scheduled, requests end and the back-off timers fire.          *)
FairSpec == Spec /\ \A c \in Calls : WF_vars(Advance(c) /\ UNCHANGED tool)
-----------------------------------------------------------------------------------
TypeOK ==
  /\ run \in [Calls -> [stage : Stages, text : Texts \cup {None}, at : 0..N, attempt : 1..MaxAttempts]]
  /\ docs \in [Calls -> Status]
  /\ rows \subseteq Chunks /\ points \subseteq Chunks
  /\ spoilt \subseteq Calls /\ unbound \subseteq Calls
  /\ del \in [Calls -> {"idle", "deleted", "failed"} \cup Deleting]
  /\ victims \in [Calls -> SUBSET Chunks] /\ spared \subseteq Calls
  /\ srch \in [stage : {"idle", "vectors", "rows", "answered", "error"}, text : Texts \cup {None},
               hits : SUBSET Chunks, answer : SUBSET Chunks,
               ready : SUBSET Calls, told : SUBSET Calls, gone : SUBSET Calls]

(* The status column tells the truth across both stores, whatever failed, raced  *)
(* or crashed: a ready document has every row and every point, one whose points  *)
(* are pending has every row (pipeline.go:366).                                  *)
StatusTells ==
  \A c \in Calls :
    /\ docs[c] \in {"ready", "vector_pending"} => ChunksOf(c) \subseteq rows
    /\ docs[c] = "ready" => ChunksOf(c) \subseteq points

(* A failed call leaves all the rows of its document or none of them, unless its *)
(* own clean-up failed.  Chunk rows are left without a document by a connection  *)
(* that does not enforce foreign keys and in no other way: it deleted the        *)
(* document, or it wrote a chunk after the deletion.                             *)
NothingHalfDone ==
  /\ \A r \in rows : docs[r[1]] = "none" => r[1] \in unbound
  /\ \A c \in Calls \ spoilt : run[c].stage = "failed" /\ docs[c] # "none" => ChunksOf(c) \subseteq rows

(* A search that begins after a deletion was acknowledged returns a chunk of     *)
(* that document only when both stores kept it: a connection without foreign     *)
(* keys left the chunk rows or wrote one later, and the points were not deleted  *)
(* or arrived later, the document being deleted while it was ingested.           *)
DeletedNotFound ==
  \A p \in srch.answer : p[1] \in srch.gone => p[1] \in unbound \cap spared

(* A search with room for every match returns every chunk of a document that was *)
(* ready before it began and still is.                                           *)
ReadyIsFound ==
  srch.stage = "answered" =>
    \A c \in srch.ready :
      docs[c] = "ready" /\ Cardinality(srch.hits) < TopK => ChunksOf(c) \subseteq srch.answer

(* Every call of Ingest that began ends: retries are bounded.                    *)
IngestReturns == \A c \in Calls : At(c, "lookup") ~> run[c].stage \in Ended
-----------------------------------------------------------------------------------
(* A claim of the repository that the code does not keep.                         *)

(* rag_tool.go:32, an empty result means the information is genuinely not in the *)
(* knowledge base: nothing of that text was told to be ingested.                 *)
EmptyMeansAbsent ==
  srch.stage = "answered" /\ srch.answer = {} =>
    srch.told = {} \/ \E d \in Calls : run[d].text = srch.text /\ del[d] # "idle"
===================================================================================
