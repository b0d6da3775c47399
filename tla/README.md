# Memoria in TLA+

A model of Memoria, a Go framework for LLM agents with a tiered memory, a
retrieval pipeline and a set of tools. The modules translate the source under
`src/`; TLC checks them on small instances and TLAPS proves the theorems listed
below for every value of the constants.

## The system

| Component | State it keeps | Operations | Talks to |
|---|---|---|---|
| Working memory (`memory/types/working.go`, `memory/retrieval/bm25.go`) | a slice of items, a BM25 index with a dirty flag, the compression flag | Add, Search, Delete, TakeSnapshot, RemoveItems, TryLockCompress | called by the manager |
| Memory manager and compressor (`memory/manager.go`, `memory/types/compressor.go`) | one map of tiers per session | Add, Search, the compression goroutine | working and episodic memory, the LLM |
| Episodic memory (`memory/types/episodic.go`) | SQLite rows, Qdrant points | Add, Search, Delete | structured and vector store, embeddings |
| Semantic memory (`memory/types/semantic.go`) | Neo4j nodes, Qdrant points | Add with deduplication, Search, Delete | graph and vector store, embeddings |
| Chunkers (`memory/rag/ingestion/chunker`) | none | Chunk by headings or by meaning, overlap | called by the pipeline, embeddings |
| Ingestion pipeline (`memory/rag/ingestion`) | document and chunk rows, points | Ingest with duplicate detection, retries and clean-up | parsers, chunkers, embeddings, both stores |
| Retrieval (`memory/rag/advanced_features`) | none | query expansion, parallel search, reciprocal rank fusion | LLM, vector store |
| RAG tool (`tools/builtins/rag_tool.go`) | the stores above | ingest, search, list, delete, status | the pipeline, the stores |
| Note tool (`tools/builtins/note_tool.go`) | one file per note, `index.json`, an index in memory | create, read, update, delete, search, list | the file system |
| Memory and terminal tools (`tools/builtins`) | sessions, the default session, a directory each | AddSession, RemoveSession, UseSession, Run | managers, processes |
| Tool executor, registry and chain (`tools`) | the registered tools; a chain's results | Execute, validate, Run | every tool |
| ReAct agent (`agents/react.go`, `core/agent.go`) | the message history | Run, AddMessage | LLM, executor |
| LLM client (`core/llm.go`) | none | chatComplete, chatStream | HTTP |
| Context builder (`ctx/gssc`) | none | gather, select, structure | memory, RAG and note tools, history |

Components call each other synchronously; what runs concurrently is the callers'
goroutines, the compression goroutine a memory `Add` starts, and the goroutines of
a chain's parallel group. Shared state is a slice under a mutex (working memory),
a directory of files (notes), or rows and points in stores without a common
transaction (episodes, semantic nodes, documents).

### What is hard, and what makes each part correct

| Component | Hard behaviour | Correct when |
|---|---|---|
| Working memory | scoring runs between two critical sections; the index is rebuilt lazily | a clean index is the slice's; a search nobody disturbed is exact |
| Manager, compressor | several goroutines race for one flag; an LLM call and two writes lie between snapshot and removal; any of them fails | one compression at a time; nothing leaves untold, nothing is told twice; the flag is given back |
| Ingestion, RAG tool | two stores, no transaction, retries, crashes, deletions among the writes of an ingestion | the status column tells the truth; clean-up is complete; deleted is not found, ready is found; calls end |
| Note tool | a file, an index in memory and an index file written one after the other, each rewritten in place | damage stays with the note that was being written; what is on disk suffices to restart |
| Chain | goroutines of a group resolve, run and store in any order | groups follow one another; no goroutine outlives `Run`; the result is the sequential one |
| Executor, agent | a model may send anything; the history is cut while it grows | tools get what they declared; results follow their calls; every run ends |
| Semantic and episodic memory | a node or row and a point written and deleted one after the other; deduplication by a stale point; rows read in another form than they have | a point says what its record says; an acknowledged memory can be retrieved, a deleted one is not told |
| Chunkers | nested sections cut by offsets, three estimates of a size, two recursions that call each other | no text is lost or repeated; chunks are in order, in place and bounded; the recursion ends |
| Sessions | check-then-act on the maps, in the tools and in the agent; compressions between two reads of one search; an unlocked directory | a search tells its session's memories, all of them; a directory stays inside the workspace and is not reset |
| Retrieval, context builder | arithmetic on ranks and budgets | fusion does not depend on arrival order; the budget is never exceeded |

The last row is not modelled; see below.

## Memory: WorkingMemory, MemoryManager, MemoryTier

`WorkingMemory` is the slice under its `RWMutex`. `items` is `w.items`, `dirty`
is `w.bm25Dirty`, `index` the slice the inverted index was last built from,
`compressing` the atomic flag, `mu` tells which search rebuilds under the write
lock. One action is one critical section: `Add`, `RemoveItems` and `Delete` hold
the lock throughout and are single steps; `Search` is `StartSearch`
(`FinishRebuild` when the index is dirty), then `Score` without the lock, then
`ReadHits` under the read lock, or `Scan` when the query is empty. `stamp` is an
item's ID and its creation time, both clock readings taken before the lock.
`version`, `base` and `found` record what happened for the properties.

`MemoryManager` adds one program counter per item: the `Add` call and the
goroutine it may start run one after the other, those of different items
concurrently. `Fail` stands for every error return, and for the panic the deferred
`recover` catches, between the snapshot and the removal of its sources. It includes
the upsert of the vector whose reply is lost: the point is there, the manager is told
it is not, and the sources stay. `lost` remembers these episodes.

`MemoryTier` is the promise of the two tiers: remember, consolidate a batch in
one step, forget, and echo a batch by an episode the manager does not know of. The
upsert of the vector is the point where a batch moves; `RefinesTier` says the manager
implements it, with the episodes of `lost` as `echoes`. The score that `ReadHits` writes
into an item's metadata (`working.go:115`) is left out. `SliceOps` holds the two slice
operations that lemmas in `MemoryManagerProofs` are about.

## Long-term memory: LongTermMemory

Episodic and semantic memory are one algorithm over different primary stores, and
one module. `records` is the table `episodes` and the graph, `points` the two
collections, with the payload searches filter by, `links` the relations. `call[c]`
is what caller `c` is in the middle of; every store access is an action that may fail,
be carried out with its reply lost, or be the last one of the process (`Crash`).
`Add` embeds, then saves the record, the relations, the point. A concept is looked for
first (`CheckKnown`): when a point of the same topic is found, the relations go to its
node (`LinkKnown`), and the known ID is returned. `DeleteRecord` takes the relations along,
`DeletePoint` drops the vector store's error. Every statement on the episodes' tables runs
on a connection of the pool with foreign keys or without (`Enforced`): without, a
relation to a missing episode is written, and the relations of a deleted one stay.
A search asks for points (`Rank`), reads the records they name (`Fetch`), then their
relations (`Populate`). Scores only order the hits, so `Rank` may pass on any `Limit`
of those the filters let through. "The same topic" stands for a similarity above the
threshold.

`ReadID` is the ID the code reads off a record it is given. The graph store talks to the
`tx/commit` endpoint of Neo4j, whose rows hold a node as the map of its properties;
`nodeToSemanticItem` (`semantic.go:412`) and `mapToNode` (`neo4j_store.go:285`) look for that
map under a key `properties` of it. So the node of a known concept is read without an ID and
its importance never raised (`semantic.go:100`), and `Fetch` skips every concept. That
endpoint is external, as are Qdrant and SQLite: a point whose upsert was acknowledged is
taken to be searchable, although the request does not ask to wait for it. Nothing in
`src/` calls `SemanticMemory.Add` but `Manager.Add`, on the application's request.

## Chunkers

`Chunkers` takes a text through a chunker call by call. A text is a sequence of
runes of four kinds, headings, words, stops and newlines; a body is a sequence of
places in it, so properties can say where a rune went. `work` stands for the call
stack: the calls in progress and those they will still make, the innermost first, each
a record of what its loop keeps, so that a turn of a loop is a step and nothing in
the module is recursive. A `"node"` is a call of `chunkNode` (`ChunkNode`), `"children"` its
loop over the subsections (`ChunkChild`); a `"body"` is a call of `splitIntoChunks`
(`SplitIntoChunks`), which looks for the next blank line or newline in a `"scan"`
(`NextPart`, `LastPart`), gathers what lies between in `"parts"` (`GatherPart`,
`FlushBuffer`, `Gathered`), or cuts between characters in `"cuts"` (`EmitCuts`).
`"semantic"`, `"sentences"` and `"groups"` are `semanticSplit`, the loop of
`splitSentences` and that of `buildChunksFromSentences` (`SemanticSplit`; `NextSentence`,
`LastSentence` and `FindBreakpoints`; `BuildChunk`), which hands a large group back to
`semanticSplit` or to `splitIntoChunks`. Which neighbouring sentences are far apart is a
matter of embeddings and left open: any set but all of them, since not every distance
exceeds the mean. `ApplyOverlap` is one turn of its loop: `Repeating` puts the end of the
chunk before in front (`lap`) and counts the position back from that chunk's end.

## Ingestion and the RAG tool: IngestPipeline, RAGTool

`IngestPipeline` holds the two stores as sets: `docs` is the status column of
`rag_documents` (`"none"` where there is no row), `rows` the chunk rows, `points`
the vector store. Each call of `Ingest` has a record `run[c]` with its stage, its
text, the chunk it has come to and the attempt of the current batch; each store
access is an action that may fail when `Faults` is set, and an upsert may have
been carried out although it reports failure. `CleanUp` is the deferred function
of `Ingest`, `MarkPending` and `MarkReady` the two status updates, `PCrash` the end
of the process, after which stores and unfinished rows remain.

`Enforced` says which connections of the SQLite pool enforce foreign keys. The
pragma in `sqlite_store.go:37` reaches one connection, so the set `{TRUE, FALSE}` is
what a pool with several connections gives and `{TRUE}` what one connection gives;
each statement runs on either. The ghost `unbound` holds the documents whose rows a
connection without foreign keys left behind, or wrote after their deletion.

`RAGTool` composes the pipeline with `delete` (`QueryChunks`, `DeleteDocument`,
`DeletePoints`) and `search` (`SearchVectors`, `FetchChunks`), a step per store access,
interleaved with the ingestions. The ghost `spared` holds the deleted documents whose
points were not deleted, or may still arrive because an ingestion was running. A search
has one query; of the several that query expansion makes, a failed one is dropped
(`recall.go:178`) and the others go on, which the model leaves out. `Collection` is the
configured name: left empty, the tool and the pipeline use different ones.

## Notes: NoteTool

`files` is the directory, `saved` the contents of `index.json`, `index` the map in
memory; a file is a header, which must equal the indexed metadata to be readable,
and a body. `op[a]` is the operation that holds the mutex of instance `a`, with the
write it has come to. `os.WriteFile` truncates and writes, two steps; `Fail` and
`Crash` fall between any two of them. `Start` loads the index, and starts with an
empty one when it cannot; the clock may stand still meanwhile. `since` is the second of
the last restart, or 0. `promised` and `damaged` remember what was acknowledged
and which notes an interrupted operation was about.

## Tools: ToolExecutor, Chain, ReActAgent

`ToolExecutor` is `validateParams` as operators: `Refused` for missing or ill-typed
parameters, `Kept` and `Filled` for what a tool is given. Values are abstracted to
their JSON kinds, which is all `checkType` looks at.

`Chain` runs any chain of the constant `Chains` that passes `Validate`. Adjacent
parallel steps form a group, a serial step one of its own. `Resolve` is one load of
an output under the read lock, `RunTool` the tool, `Store` the write of its output;
those of a group interleave. `EndGroup` is `wg.Wait` and the joined error.
References come in the two forms the code distinguishes by accident: `$steps.x`,
which only validation reads, and `${steps.x}`, which only expansion resolves.

`ReActAgent` composes the executor with the loop of `Run` and the history. `agent`
is what `NewReActAgent` was configured with. `Act` is a reply with tool calls,
`ExecuteOne` one of them, `Observe` adds the results; `Inject` is
`injectSessionID`. `AddMessage` cuts the history as the code does: above `Cap` it
keeps the first `Keep` messages, and the new one is added in any case.

## Sessions: ToolCalls, MemorySessions, TerminalSessions, AgentSessions

`ToolCalls` is the record of a call of `Run`, shared by both tools: the session it
names, how far it is, what it has read. `MemorySessions` is the memory tool. `made`
holds every manager ever made, with its working memory; `managers` maps a session to
one of them or to none, so a call that found a manager keeps it while the session is
removed and made again. `episodes` is the store all managers share. `ReadDefault` and
`ResolveManager` are the two critical sections of `GetManager`; a search reads
working memory and episodes in two steps (`SearchTier`), between which `Compress`, in
one step as `MemoryTier` promises, may move memories. The semantic tier, the third of the
default list (`memory_tool.go:337`), is left out: its searches filter by session, and
nothing moves into it. A call that adds is also the memory it adds.

`TerminalSessions` is the terminal tool. `dirs` holds the directory of each session
ever made. The map is under a mutex, the directory is not: an assignment of a string
writes two words, and a reader, or a second writer, may come between them
(`Assign`), which is what a build without further synchronisation gives. `HandleCd` reads,
computes and checks; `ExecuteCommand` reads the directory and starts the command.

`AgentSessions` composes both with `NewReActAgent`, which looks for its session in
one critical section and adds it in the next, first in one tool and then in the
other, and with an application that adds, removes and chooses sessions.

## Runs

| Run | Instance | States | What it shows |
|---|---|---|---|
| `compress` | 3 items, capacity 2, snapshots of 2, deletions, lost replies | 372,889 | `TypeOK`, `OneCompression`, `ToldOnce`, `EpisodeComplete`, `LeavesSafely`; `RefinesTier`: concurrent `Add` calls, deletions and compressions implement `MemoryTier`; `CompressionEnds`: a started compression ends and gives the flag back |
| `search` | 2 searches, 3 items, expiry, limit 1 | 1,436,508 | `IndexFresh`, and `UndisturbedSearchExact` |
| `rag_faults` | 2 calls of one text, 2 chunks, 3 attempts, every fault, crashes, connections with and without foreign keys | 1,447,709 | `TypeOK`, `StatusTells`, `NothingHalfDone`, `DeletedNotFound`, `ReadyIsFound` |
| `rag_returns` | 1 call, 3 chunks in batches of 2, connections with and without foreign keys | 8,323 | every call that began ends |
| `note` | 1 instance, 2 seconds, 2 notes each, failing writes, crashes, restarts within a second | 5,170,040 | `DamageContained`, `DiskConsistent`, `CreateIsFresh` |
| `chain` | every chain of up to 3 steps over 2 names | 53,267 | `Barrier`, `NoStragglers`, `LikeSequential`, `Returns` |
| `agent` | 3 runs, 2 steps, 2 calls a reply, 5 messages cut to 3 | 159,722 | `HistoryBounded`, `ResultsFollow`, `ToolsServed`, `RunReturns` |
| `longterm` | 2 callers, 2 episodes, 2 concepts of one topic, 2 sessions, limit 1, every fault, connections with and without foreign keys | 696,148 | `StoresAgree`, `AddIsComplete`, `AnswersSound`, `AnswersComplete`, `ConceptsDistinct` |
| `chunks` | every text of up to four lines of six kinds, of five under a heading, prose, unbroken lines, sections of blank lines | 587,493 | `NothingLost`, `InOrder`, `SizeBounded`, `InPlace`, `RecursionEnds` |
| `sessions` | 2 agents, 2 calls, 2 sessions, 1 operation of the application | 2,472,239 | `OwnMemories`, `AddedIsRecalled`, `CwdInside`, `EstablishedKept` |
| `agent_latest` | 3 runs | violated | the cut keeps the oldest messages, not the newest (README.md:311) |
| `concepts_found` | as `longterm` | violated | a search does not find the concepts that Add reported (memory_tool.go:74) |

Every bound is a constant of its module. Why they suffice:

- *Memory.* A compression needs a capacity of two to take a batch and leave
  something behind; three items make a third `Add` displace, cross the threshold
  a second time while the first compression holds the flag, and be taken in a later
  batch. The 90% threshold is computed as the code does, in integers.
- *Search.* Two searches are the fewest of which one can rebuild while the other
  scores; `MaxNow = 2` lets an item expire during a search.
- *RAG.* Two calls of one text are enough for a duplicate, for a deletion racing an
  ingestion, and for a search that sees both documents; two chunks make a document that
  is written by halves. `TopK = 4` has room for every match.
- *Notes.* Two IDs in each of two seconds: an operation on one note with another
  present, and restarts within a second and between them. One type and one body are enough, as the
  properties compare contents of one note only with its own; `Limit = 1` cuts a list.
- *Chain.* Three steps are the fewest for a group between two others, or for a
  group of two behind a writer; two names allow a name stored twice.
- *Agent.* Five messages cut to three are reached in three runs of two steps, twice,
  with the cut before, at and after a reply's results.
- *Long-term memory.* Two callers are enough for an Add beside a Delete or a search of
  the same memory, and for two Adds on one topic; with a limit of one a dangling point
  takes the place of a live one. `MaxAdds = 2` IDs are in use at a time.
- *Chunks.* `ChunkSize = 2` makes one line fit and another not; four lines nest three
  levels, skip one, and leave gap, tail and empty sections; five are two subsections
  with text of their own; five blank lines under a heading are too long to be a chunk as
  they stand, and blank. `LeastCut`, the least number of tokens of a cut, is 3 where
  the code has 10, `MinTokens` 2, so that short texts reach them.
- *Sessions.* Two calls and two agents are the fewest that race; one operation removes
  or adds a session among them. Three directories and the root hold a `cd` that
  leaves the workspace by `..`, by a path, or stays.

Deadlock is checked in `longterm`, where a caller can always begin another call. In the
other models the finite work is done at some point, items added, calls returned, runs
used up, and the program is idle; that nothing stops before that is what the liveness
properties of `compress`, `rag_returns`, `chain` and `agent` say.

### Fairness

Fairness is weak and given to the program's own steps, never to its callers,
to failures or to crashes.
- `compress`: goroutines are scheduled, the model service and the stores
  answer or fail. The completion request has no timeout (`core/llm.go:50`), so this
  is an assumption about the service.
- `rag_returns`: requests end and back-off timers fire.
- `chain`: goroutines are scheduled, tools return.
- `agent`: the model service answers or fails, tools end.

## What is proved

All theorems hold for every value of the constants that the named assumptions
admit: `CapacityAssumption`, `SnapshotAssumption`, `IngestAssumption`,
`RAGAssumption`, `ChainAssumption`, `ExecutorAssumption`, `AgentAssumption`,
`LongTermAssumption`, `CallsAssumption`, `DirsAssumption`, `NoteAssumption`,
`ChunkAssumption`. They state every safety property and every action property that
the runs check.

**MemoryManagerProofs.** `TypeCorrect` bounds the slice by its capacity.
`MutualExclusion` proves `OneCompression`: the flag is set exactly while one
goroutine is between lock and unlock. `SafetyCorrect` is the inductive invariant:
an ID that is in use is a past clock reading, stamps of different items differ under a strict
clock, a batch only holds items that were inserted, and a point follows its row.
From it follow `EpisodesComplete`, `ToldOnceCorrect`, and under `StrictClock`
`LeavesSafelyCorrect` and `Refinement`: IDs are clock readings in nanoseconds, and with
two equal ones `RemoveItems` takes an item nobody told. `ToldOnce` speaks of the
episodes whose upsert was acknowledged; those of `lost` are the only ones that can tell a
memory again. The invariant behind it adds that what an acknowledged episode tells is out
of the slice, except while its own compression is removing it (`ToldInv`), and
for the refinement that no compression with a lost reply comes to the removal.
`IndexStaysFresh` and `SearchesAreExact` rest on `ExactInv`: whoever holds the lock for a
rebuild does so because the index is dirty, so a search whose slice has not changed has a
clean index of that very slice, nobody rebuilds it, and its hits are all the matches
unless more items match than the scorer hands over (`Crowded`).
The lemmas in front say what filtering, appending, cutting and taking fronts of a
slice do to its elements, for every slice.

**RAGToolProofs.** The five safety properties of `rag_faults`. None is inductive:
`StatusTells` needs what a call that is about to mark its document has written. The
invariant says of each document what its status, its rows and its points owe to the
stage of its ingestion and its deletion: untouched before the first write, its saved
rows a prefix while they are written, all of them before the points, a clean failure;
that no row outlives its document but for those of `unbound`; and of a search that what
it counted as ready at its start has been ingested for good, what it counted as gone
stays gone, and that it has hit every point it had room for. `CleanUpCorrect` and
`DeletedStaysHidden` hold for every pool and say what a connection without foreign keys
may spoil: rows outlive their document only in `unbound`, and a deleted document is
found only when it is in `unbound` and in `spared` at once.

**ChainProofs.** `GroupsInOrder` (`Barrier`) and `NoneLeftBehind` (`NoStragglers`)
for every set of chains. The invariant: every step before the current group has
stored, no step behind it has begun. The work is in the groups: belonging together
is transitive, and the first step behind a group begins a group that leaves
nothing out (`Partition`, `BeforeGroup`, `NextGroup`). `SequentialResult` is
`LikeSequential`: the outputs are those of the steps run one after the other. What those
are is a recursive function, and a recursive function is a choice among the functions
that satisfy its equation; that there is one is shown by what the goroutines themselves
stored, and that there is only one by the least step at which two would differ
(`OnlyOne`, `SequentialUnfolds`). The invariant adds that what a step has read is what the
last writer before its group stored (`ReadsOK`), and that a name holds the output of the
last of its writers, although the goroutines of a group store in any order (`NameOK`,
`LastOK`).

**ReActAgentProofs.** `Validated` for every specification and all parameters;
`HistoryStaysBounded`, `ResultsStayBehind` and `ToolsStayServed` for any cap, cut,
number of runs, steps and calls. `ResultsFollow` needs that a reply with calls is
of an earlier step or of the one being acted on, and that the latter has as many
results behind it as were added (`PastInv`, `CurrentInv`).

**LongTermMemoryProofs.** All five properties of `longterm`, for any numbers of callers,
memories and sessions, any importances and any pool of connections. None is inductive,
because each needs what calls in progress have read and still owe. The invariant `IInv`
says of the stores that a point nobody asked to delete has a record that covers it
(`StoreInv`) and that what was acknowledged is still there (`StoredInv`); of an Add that
its ID is its own, that its record stands by the time it comes to the point, and that a
relation it owes can still be written or was (`AddOK`); of a Delete that the record goes
before the point (`DeleteOK`); of a search that what it owes is a hit unless the limit
cut it off, and that each hit still answers or was deleted (`SearchOK`). `StoresAgree`
speaks of the graph's edges only, since rows of `episode_relations` may name a missing
episode, and `AnswersComplete` of episodes only. `ConceptsDistinct` needs two facts
more: a concept on the topic that appeared after an Add looked is doubtful (`NewOK`),
and of two Adds on one topic that both are past their look one is (`PairOK`). What a
step may do to the callers that did not take it is one predicate, `Calm`, and each
action is shown to be calm once.

**AgentSessionsProofs.** The four properties of `sessions`, for any sets of sessions,
calls, agents, directories and targets and any number of operations. For
`AddedIsRecalled` the invariant follows an acknowledged memory: it is in the working
memory of the session's manager or among the episodes, and a search that has passed
working memory without finding it will find it among the episodes, because
compressions only move in that direction (`KeptInv`, `SearchOK`). For `CwdInside` it
says which word of a directory each assignment has written and that the other is
waiting in its call (`DirOK`). `EstablishedStay` needs that an agent about to add a
terminal session found none, or that what is there now is younger than its look
(`AgentInv`). Paths are sequences over `STRING` and the one value
a torn read adds, as the provers do not know a string literal to be in `STRING`.

**NoteToolProofs.** The three properties of `note` for one instance on its workspace
(`Alone`; with two, whichever saves last drops the other's notes from `index.json`), any
numbers of notes, types and bodies. `DiskConsistent` alone is not inductive, nor is
`DamageContained`: what an instance knows after a restart is what `index.json` said
before the crash, so `SoundInv` ties the file, the index and `index.json` of every
acknowledged note together at once, running or not, unless an operation is about that
note or has damaged it. `OpInv` adds that an operation about to save has what it is about
in the file and in the index, which makes it sound the moment it is acknowledged.
`CreatesAreFresh` says which IDs may be given out again, those of the second of the last
restart, and no other: every ID in use is of an earlier second, or of this one and below
the next sequence number, unless this is the second of that restart (`IdInv`).

**ChunkersProofs.** The five properties of `chunks`, for all texts, sizes and
overlaps that `ChunkAssumption` admits. None is inductive, because each speaks of the
chunks alone and what becomes of them depends on the calls in progress. The invariant `IInv`
gives each call its contract (`CallOK`): where its stretch of the text lies, which
parts have been found and that nothing but breaks lies between them (`PartsOK`,
`ScanOK`), what the buffer of a loop holds (`GatherOK`), that a group of sentences with
a cut inside is shorter than what was split (`GroupsOK`). `Held` is the set of places a call
may still put into a body, `Owes` what it is sure to put into a path. `SplitInv` says of the
whole stack that what its calls hold lies apart and in the order of the text, behind all
that is already in a chunk, and that each rune to read is in a chunk, held, owed, or a
heading that is dropped. A step replaces the first call by others that hold no more than it
did and miss nothing of it (`Step`, `StepInv`); each action is shown to be one. Under that
`InOrder` and `NothingLost` follow for all the nested calls at once. That the sections
of a node's subsections follow one another without a gap, levels skipped or not, is
`NextChild`. `RecursionEnds` needs that a useful set of breaks leaves no group as long
as the whole, and `SizeBounded` that a part contains no break and a cut counts no more than
twice its tokens (`OnePart`, `CutEndType`). `ChunksInPlace` covers the positions stored at the end:
before the overlap a chunk ends no later than its body (`FreshOK`, `PlaceOK`), and exactly there
when nothing was skipped. `MarkOK` follows them through `ApplyOverlap`: what is repeated is cut
from the end of a content, which ends with its body (`Ends`). The path in front is an even
number of runes, each heading with a newline behind it, so taking it off does not cut into
a body that begins with text (`ExtractKeeps`, `RepeatingInPlace`).

**Only model-checked.** Liveness: `CompressionEnds`, `IngestReturns`, `Returns` and
`RunReturns`, which the prover does not reach.

## Divergences

What the repository says of itself and the code does not keep. The first two are runs
that are expected to fail. The last needs no property of its own: `NothingHalfDone` and
`StoresAgree` say how far it fails. The others are stated as properties in their
modules, under the comment "A claim of the repository that the code does not keep";
`search`, `chain` and `rag_faults` find each violated when it is added to them.

- `agent_latest`, `KeepsLatest`: "Agent message history truncates to last 512 when
  exceeding 1024" (README.md:311 of the repository). `core/agent.go:37` keeps the *first*
  512 and drops everything newer, the conversation at hand included.
- `concepts_found`, `ConceptsFound`: `search` goes "across ALL memory types (working + episodic
  + semantic)" (`memory_tool.go:74`). `semantic.go:412` reads no ID from the rows the graph
  store gets, so the search skips every node and tells no concept.
- `NoIndexRace` (`MemoryManager`): README.md:308 names the `RWMutex` as what working memory
  does about concurrency. `working.go:93` scores without the lock; a second search that finds
  the index dirty rebuilds the same maps meanwhile, which Go answers with a fatal error
  or a wrong score.
- `NoCrossReading` (`Chain`): the steps of a parallel group are said not to refer to each
  other, and validation to refuse it (README.md:272). Validation reads `$steps.x`, expansion
  `${steps.x}`; the second form passes inside a group, and whether it finds the output
  depends on the schedule.
- `EmptyMeansAbsent` (`RAGTool`): a search without results is said to mean that the
  material is not there (`rag_tool.go:32`). After a failed upsert the document is
  `vector_pending`, nothing resumes it, and each retry of the text is refused as a
  duplicate, so that the text is held and never found.
- Foreign keys: `sqlite_store.go:37` is commented as enabling them. The pragma is one
  connection's and the pool may open more, which enforce none: chunk rows outlive their
  document, relations name episodes that do not exist.

## Behaviour worth knowing, without a run

What the model has, or assumes away by a named constant, and a reader of the code should know.

- `memory/manager.go:129`: the capacity is not checked again when the goroutine gets
  the flag, so a second compression may run on a tier below the threshold.
- `memory/manager.go:111`: two calls may read the same nanosecond, and IDs repeat
  (`StrictClock = FALSE`).
- `memory/types/working.go:93`: hits are positions; a slice that moved meanwhile
  turns them into other items.
- `tools/builtins/note_tool.go:432`: a crash between truncation and write of
  `index.json` loses every note at the next start (`indexLost`); `:428`: two tools on
  one workspace overwrite each other's index; `:190`: a restart within one second
  may reuse an ID and write over its note.
- `memory/types/semantic.go:91`: the look for a similar concept crosses sessions, so an
  Add may return the ID of another session's node, which the adding session's searches
  do not tell; next to a dangling point it returns an ID without a node.
- `memory/types/semantic.go:100`: the importance of a known concept is never raised, since
  the node read back has no ID.
- `memory/types/episodic.go:169`: an upsert that was carried out although its reply was lost
  leaves its sources in working memory; they are compressed again and told twice.
- `memory/types/working.go:115`: a search writes its score into the metadata map of an
  item under the read lock, so that two searches may write one map.
- `memory/types/episodic.go:162`, `semantic.go`: after a failed deletion of the vector the
  dangling point still competes for the limit and may displace a live memory.
- `memory/rag/ingestion/chunker/recursive.go:142`: a heading directly followed by the next
  is in no chunk; `:200`: neither is one before nothing but blanks, when they are too many to be
  a chunk as they stand; `:148`: a whole section is measured by half its runes, the parts of one by
  words, so a chunk of text without blanks may hold about twice the size; `:250`: one
  paragraph among several is kept whole, however long.
- `chunker/recursive.go`: the positions stored with chunks drift back behind empty
  lines and paragraphs that were skipped; an overlap repeats what the chunk before it
  already repeated. `:380`: with an overlap the start is counted back from the end of
  the chunk before, which is not where the text repeated begins when runes were put
  between its parts or its heading is repeated; it may even be negative.
- `tools/builtins/memory_tool.go:190`: a call that found its manager before the session was
  removed adds to a working memory nobody reads any more, and is acknowledged;
  `:298`: removing the default session leaves none chosen while others remain.
- `agents/react.go:224`, `:238`: the second of two agents of one session fails to be
  built when it looked before the first one added; in the terminal tool it replaces the
  session and its directory instead. An agent's terminal session starts in the directory
  of the process, not in `InitDir`.
- `tools/builtins/terminal_tool.go:182`: removing the default session leaves the default
  pointing at nothing, and the next call makes it anew in `InitDir`; `:299`: two
  assignments of a directory at once may leave the pointer of one string and the length
  of the other.
- `memory/manager.go:193`: an application that lists the tiers in the other order may miss a
  memory that is compressed between the two.
- `core/llm.go:98`: `chatStream` without messages sends its error before it has returned
  the channel; with a context that is never cancelled the caller waits for ever.
- `tools/executor.go:100`: the default note type, meant for `create`, is filled into
  `search`, `list` and `update` as well.
- `tools/chain.go:304`: `$steps.x`, the documented form, never resolves; `:47`: names
  and templates of serial steps are not validated.
- `memory/rag/ingestion/pipeline.go:159`: two concurrent calls with the same text both
  find no duplicate.
- `tools/builtins/rag_tool.go:433`: the vector store's error is dropped by `delete`;
  `:144`: with an empty collection name the tool reads `rag` and the pipeline
  writes `rag_chunks`.
- `memory/store/impl/sqlite_store.go:37`: on a connection of the pool without foreign keys
  `delete` leaves the chunk rows; when the points stay as well (`rag_tool.go:433`), a
  search still returns the document. Relations of deleted episodes stay too.
- `agents/react.go:80`: without a registry the executor is nil and the first tool
  call panics; `:141`: with a session, arguments that do not parse are replaced by
  the session alone and the tool runs.

## Not modelled

- Text extraction (`parser/native.go`), prompts and rendering, wire formats of HTTP
  and of the stores, web search, the empty MCP files, the perceptual stub, whose methods
  panic: conversions without state.
- The context builder (`ctx/gssc`): gathered in sequence, sorted by floating-point scores,
  cut at a budget, rendered. Nothing in it runs concurrently or keeps state.
- Query expansion and rank fusion (`recall.go`): each goroutine writes a slot of its own
  under a mutex and all are awaited, a failed one's slot is dropped (`:178`); fusion is
  a sum of floating-point reciprocals.
- The streaming client (`core/llm.go`): nothing in the repository calls it.
- Scores of BM25, sparse and vector retrieval are floating-point; the models keep which
  items match.
- Commands run by the terminal tool are the operating system's. Refusals by `allowCD` and
  by the list of allowed commands change nothing and are left out.
- In `MemorySessions`: displacement at the capacity and expiry, which `MemoryManager` has,
  the limit of a search, and the semantic tier.

## What could follow

1. An abstract document store, implemented by `RAGTool`, as `MemoryTier` is by `MemoryManager`.
2. `MemoryManager` composed with `LongTermMemory` in place of its two write steps.
3. `chatStream` as a producer and a consumer that may leave.
