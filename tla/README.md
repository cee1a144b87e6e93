# learn-lightrag: TLA+ models and proofs

TLA+ models, TLC runs and TLAPS proofs for the Go code of
[learn-lightrag](../src/README.md): eleven small programs, `s01` to `s11`, each
of which rebuilds one part of LightRAG. The models are written from the code
under `src/agents/`; a doc, comment or test is quoted only where it says
something else than the code does.

To run them, in this directory:

    tlc -workers 2 -config kv_store.cfg MCJSONKVStore     # one line per run, see below
    tlapm JSONKVStoreProofs.tla

## 1. Inventory

A session is a program of its own: sessions do not import each other, later
ones repeat the interfaces of earlier ones. Taken together they are a retrieval
pipeline: text is cut into chunks (s04), entities and relationships are
extracted from them by a model (s09), records of one name are merged (s10),
chunks, vectors and the graph are stored (s05, s07, s08) under a document
status (s03), and a query collects context from the stores and asks the model
(s11). Models and embeddings are remote calls with retries (s02, s06).

| Component | State | Operations | What is hard | Properties that make it correct |
|---|---|---|---|---|
| s01 minimum loop | KV map, vector list | Insert, Query | Insert writes two stores and has no rollback; a query may run between the halves | an insert made again repairs a failed one; a quiet query shows what it found |
| s02 LLM provider | none between calls | Complete | 429/5xx retries, cancellation in a delay | retries only what may be retried; returns |
| s03 status store | document map, one file | Enqueue, Mark\*, Persist, Load, lists | any goroutine at any time, crash, power loss with nothing synced | documents move forward; file and memory agree; one caller at a time works on a document |
| s03 ingestion | the next call of `run` | run | killed at any call, power loss, run again on a known document | the file holds nothing half-finished; a killed run can be made again |
| s04 chunking | none | ChunkByTokenSize | window ends, overlap, blank windows, two units of measure | no stretch is cut apart; no needless chunk; size |
| s05 KV store | map, per-key mutexes, one file | Upsert, Delete, Persist, load | per-key locks in map order, snapshot then write, crash | file always complete; a clean save is durable |
| s06 embedder | none between calls | Embed | batches, order of vectors, retries | vector i belongs to text i |
| s07 vector index | records, position index, dimension, file | Upsert, Delete, Query, Persist, load | half-done batches, compaction, reload | index agrees with records; one dimension |
| s08 graph store | nodes, edges, adjacency, file | UpsertNode, UpsertEdge, Persist, load, GetSubgraph | three maps, undirected keys, truncated walk | maps agree; subgraph connected and nearest |
| s09 extraction | cache shared by goroutines | Extract | lookup and store not atomic, gleaning cut short | hits equal what was extracted; nothing lost |
| s10 merge | none between calls | MergeEntities, MergeRelationships | recursive map-reduce, fallbacks, weights | every description, weight and source once; progress |
| s11 query modes | three in-memory stores, locked per call | Query in four modes | records are replaced between calls, each half and the index have their own, opposite edges share a key, three limits cut the context | chunks go with the records in the context; budget |

How they interact: by calls only. s03 `main.go` drives its store; s05, s07, s08
and s03 share, by repetition, one way to write a file; s08's `GetSubgraph` is
one read-locked call; s09 and s10 call the model, s11 calls the model, the
embedder and the stores. There are no callbacks. Goroutines meet at the
mutexes of the stores, at the file names of `Persist`, and in the cache of s09.

## 2. Modules

| Module | Models | Correspondence |
|---|---|---|
| `DurableMap` | abstract | what the JSON stores promise: a map in memory, a durable copy that changes from one complete snapshot to another, a restart that brings it back |
| `AtomicFile` | the last lines of the four `Persist` functions | inodes with blocks, two names in `dir`, one descriptor per persister; one action per system call (`OpenTmp` truncates whatever `.tmp` names, `WriteBlock`, `RenameTmp`, and each failing), and for the kernel, which writes files and the directory back in its own time (`WriteBack`, `WriteBackDir`); `MachineLost` leaves prefixes of files and any directory since the last one written back (`older`) |
| `JSONKVStore` | `kv_json_store.go` of s05, on `AtomicFile` | `data` is the map; `keyLock`, `items`, `staged` are the mutexes and local copies of `Upsert`, which is `UpsertBegin`, `LockKey`, `StageKey`, `Commit`; `Persist` is snapshot, then the system calls |
| `DocStatusStore` | `doc_status.go`, `doc_status_store.go` of s03, on `AtomicFile` | `docs`; one action per call that changes it, guarded by `IsValidTransition`; `saved` and `latest` remember what `Persist` wrote |
| `DocCallers` | goroutines that call the store of s03, on `DocStatusStore` | `holds`, the document each works on: `Pick` is an accepted `MarkProcessing`, `Settle` one of the other two Mark calls, `GiveUp` a caller whose context is done |
| `DocIngest` | `run` in `main.go` of s03, on `DocStatusStore` | `pc` is the next call of `run`, `input` the document it was started on; `Round1` to `Round3`, `Forbidden`, `Save`; `Stop` and `Start` of the process |
| `Pipeline` | `pipeline.go`, `kv.go`, `vectorstore.go`, `chunking.go` of s01 | `vdb`, `kv` are the two stores, `ins` and `qry` the calls under way; the vector store is one step per call, the `sync.Map` one step per id |
| `Chunking` | `chunking.go`, `tokenizer.go` of s04 | one window of the loop per step; a text is a sequence of tokens or runes with or without ink |
| `CosineIndex` | `cosine_index.go` of s07 | `recs`, `idIdx`, `dim`; `Upsert` is the loop with its early error; a vector is its length and its score against the one query |
| `AdjacencyGraph` | `adjacency_graph.go` of s08 | `nodes`, `edges`, `adj`; loading rebuilds `adj` as `loadFromDisk` does |
| `SubgraphBFS` | `subgraph_bfs.go` of s08 | the loop variables of the walk; one candidate per step |
| `Extractor` | `extraction.go`, `cache.go`, `parser.go` of s09 | `at`, `chunk`, `got`, ... per goroutine, one shared `cache`; lookup, model call, each gleaning round and store are steps of their own |
| `RemoteCall` | `Complete` of s02, `Embed` of s06 | the retry loop (`attempt`), the batches answered so far (`out`), the caller's context; `posts` is the server's history |
| `Summarize` | `merge.go`, `summarize.go` of s10 | the loop over groups, and in it one level of the recursion at a time: `descs`, `chunks`, `partials`; what a group sums up of weights, sources and keywords is in `Group` |
| `QueryModes` | `pipeline.go`, `query_*.go`, `context_builder.go`, `keywords.go` of s11 | the keyword lists decide the `searches`; the two halves `loc` and `glo`, one step per look-up of a hit, then merge, fetch, prompt. A node or an edge is its key and its list of chunks, `ents`, `rels` and the halves are maps from keys to lists, as in the code; beside it runs a writer that replaces nodes, edges and chunks |

`MC...` modules hold the small instances. `MCDocIngest` has the two kinds of
clients of s03's store, one of them in a behaviour. `MCCalls` puts five components into
one instance: the walk, a remote call, the cutting of a text, a merge and a
query keep no state between calls, so a run makes one call of one of them while
the other four have returned (their initial states are added up, not
multiplied). `MCStores` does the same for three stores that share nothing: the
graph, the vector index and the pipeline of s01. Both extend the modules they
compose, so what TLC checks is what the proofs are about; the parts keep their
names apart (`IndexInit`, `LoopNext`, `MergeSpec`, `QuerySpec`).

| Proofs | About |
|---|---|
| `Induction` | no component: induction over numbers, what a fold or a concatenation goes through |
| `AtomicFileProofs` | marshalling and single system calls (`AtomicFile`) |
| `JSONKVStoreProofs`, `DocIngestProofs` | s05; `DocStatusStore`, `DocCallers` and `DocIngest` |
| `StoresProofs` | `AdjacencyGraph`, `CosineIndex` |
| `CallsProofs` | `SubgraphBFS`, `RemoteCall`, `Chunking` |
| `PipelineProofs` | `Extractor`, `Pipeline` |
| `MergeQueryProofs` | `Summarize`, `QueryModes` |

What a mutex protects is one step; everything outside it interleaves. A proof
module extends the modules it is about. Definitions whose
comment begins with "Mutant:" are faulty versions of the definition that
follows; no specification uses them, they serve to see that a property fails
when the code is wrong in that way.

## 3. Runs

Numbers are distinct states; every run takes a minute and a half or less.

| Run | Instance, states | Shows |
|---|---|---|
| `kv_store` | `MCJSONKVStore`, 102,525 | Two writers, deletes, one Persist at a time, failing file-system calls and crashes at every point: the file is always one complete committed map, a clean Persist is durable, a restart recovers it, writers sharing ids finish, and the store implements DurableMap. Properties: `TypeOK`, `CanonicalComplete`, `PersistDurable`, `RestartRecovers`, `UpsertCompletes`, `ImplementsDurableMap`. |
| `doc_status` | `MCDocStatusStore`, 346,514 | Any calls in any order on one document, with Persist, crashes and power losses that may undo a rename: documents only move forward, memory is never behind the file, and a file that loads is all of what one clean Persist wrote, the last one unless a power loss has undone it. Properties: `LoadsASave`, `MemoryFollowsDisk`, `DocsAreKept`. |
| `ingest` | `MCDocIngest`, 47,655 | Two clients of the status store, one of them in a behaviour. Any callers: two goroutines that take, settle and give up one document, with Persist and crashes, never work on it at once. run() of main.go, killed at any call and run again on either document, also after a power loss: it never finds a half-finished document in the file, and is refused only when the file calls its input processed or its input is the text of round 3. Properties: `OneRunPerDoc`, `FileIsSettled`, `KilledRunsResume`. |
| `stores` | `MCStores`, 105,047 | The graph store, the vector index and the pipeline of s01, one of them in a run. Graph: entities and relationships given from either side, rejected calls, saves, crashes and starts on three names; the three maps agree and a snapshot is enough to make them again. Index: batches that fail half-way, deletes, saves, crashes and starts on two ids; positions and records agree, one dimension holds, Query answers as a map would. Both implement DurableMap. Pipeline: three Inserts over two stores that may fail half-way, beside queries; an Insert made again repairs, and a query that none overlaps shows what it hit. Properties: `MapsAgree`, `FilesAreGraphs`, `SnapshotIsEnough`, `IndexAgrees`, `OneDimension`, `QueryAnswersMap`, `InsertRepairs`, `QuietQueryShowsItsHits`, `ImplementsDurableMap`, `IndexImplementsDurableMap`. |
| `calls` | `MCCalls`, 867,675 | One call of each of the five components that keep no state between calls: every graph on four names is walked with every seed and budget, three texts are embedded in batches under failing answers and cancellation, every text of up to seven tokens and texts of up to thirteen runes are cut, descriptions of up to nine records are merged, and each query mode runs beside a writer that replaces nodes, edges and chunks. Properties: `VisitedOnceAndConnected`, `NearestWithinBudget`, `DegreeDecides`, `Terminates`, `VectorsAlignWithTexts`, `RetriesByTheRule`, `CallReturns`, `StretchesStayWhole`, `NoNeedlessChunk`, `EveryDescriptionOnce`, `EveryLevelMakesProgress`, `ReferencesByRank`, `ChunksFollowRecords`, `OnlyTheFirstOverruns`. |
| `extraction` | `MCExtractor`, 360,825 | Two goroutines extract two chunks with one text under failing lookups, model calls and stores and cancellation at every point: a cached text is not asked again, hits come from the entry's extraction with the caller's own chunk as source, nothing the model answered is lost, and every call returns. Properties: `CachedIsNotAskedAgain`, `HitIsFromTheFill`, `NothingHeardIsLost`, `ExtractReturns`. |

Six more runs must fail, each on one property that a comment, doc or test
states and the code does not keep:

- `kv_shared_tmp` (`MCJSONKVStore`), `CanonicalComplete`,
  src/agents/s05-kv-store/kv_json_store.go:298. Every Persist of a store writes
  the same name <file>.tmp and holds no lock after its snapshot. When two
  Persist calls overlap, os.WriteFile of the second truncates the file the
  first has just finished, the first renames it half-written to the canonical
  name, and the second goes on writing into the canonical file itself.
  src/agents/s05-kv-store/kv_json_store.go:32 says "a reader either sees the
  full old file or the full new file — never a half-written intermediate", and
  :63 that the store is "ready for concurrent use from any goroutine".
- `doc_power_loss` (`MCDocStatusStore`), `FileNeverHalfWritten`,
  src/agents/s03-doc-status/doc_status_store.go:211. Persist calls os.WriteFile
  and os.Rename with no fsync between them, so after a power loss the renamed
  file may hold a prefix of the data.
  src/agents/s03-doc-status/doc_status_store.go:184 says it will "write to a
  `.tmp` sibling, fsync, then rename(2) over the target. This guarantees
  readers either see the old file or the new file — never a half-written file".
- `ingest_boot_scan` (`MCDocStatusStore`), `BootScanFindsAll`,
  src/agents/s03-doc-status/doc_status_store.go:163. A document that was
  enqueued and persisted but not yet marked processing when the process was
  killed is PENDING after the restart; no scan over FAILED and PROCESSING lists
  it and Enqueue reports it as known, so nothing runs it again.
  src/agents/s03-doc-status/doc_status_store.go:165 says callers do
  "`ListByStatus(DocStatusFailed)` (and PROCESSING, in case of mid-run kill) to
  find work that needs to be retried", and
  src/agents/s03-doc-status/README.md:42 that the scan gets all documents that
  need a retry.
- `query_cites` (`MCQueryModes`), `CitesWhatItShowed`,
  src/agents/s11-query-modes/query_local.go:124. All four modes return the ids
  of every fetched row as References, but buildSystemPrompt drops rows from the
  prompt (truncateChunksByTokens, then the last truncation to MaxTotalTokens),
  so an answer cites chunks the model never saw.
  src/agents/s11-query-modes/types.go:158 describes References as the chunk
  "IDs cited", and src/agents/s11-query-modes/context_builder.go:19 says that
  chunkRow, "the in-context shape of one chunk", keeps the id "so
  References/dedup stay aligned"; src/agents/s01-minimum-loop/pipeline.go:118
  says "References lists the chunk IDs the LLM saw — every chapter from here on
  preserves this contract".
- `chunk_limit` (`MCChunking`), `EveryChunkWithinLimit`,
  src/agents/s04-chunking/chunking.go:145. Splitting by character takes windows
  of four runes per token. In a script without blanks a tokenizer makes about
  one token of each rune, so a chunk has up to four times chunkTokenSize
  tokens; Tokens is counted and not compared with the limit.
  src/agents/s04-chunking/chunking.go:140 says of the heuristic "1 token ~ 4
  runes (close to OpenAI's English baseline, over-estimates for CJK so chunks
  come out smaller — safe)", where the chunks come out larger, and
  src/agents/s04-chunking/chunking_test.go:25 states "Every chunk must have
  Tokens <= chunkTokenSize", which it asks of windows of tokens only.
- `extraction_replay` (`MCExtractor`), `HitIsIdentical`,
  src/agents/s09-extraction/extraction.go:286. Extract caches resp.Text, the
  answer of the initial round, also after gleaning rounds have added to it, and
  a hit parses that text alone and gleans no more: extracting an unchanged text
  again returns fewer entities and relationships than the first time, with
  gleaning on by default. src/docs/en/s09-extraction.md:144 says "you should
  **not** re-extract — the chunk text didn't change, the prompt didn't change,
  the result should be identical".

**Bounds.** Two ids are enough for the maps of s05 and s07: the properties
relate one id to another or a record to its file, and a two-record file has a
beginning, a half and an end. `doc_status` has one document and three files, as
two of one and three of the other are too many states: a power loss is about
which file comes back and where it is cut, and one record and its brace can be
cut before, between and after. `doc_power_loss`, which stops at the first torn
file, has two documents. `MaxLog` caps the commits between two restarts of s05
(older, newer, newest). `Inodes` holds as many as the writers can use: the
file, the `.tmp` and, with two persisters, one that is open without a name, or,
with power losses, one that only a directory on disk still names (`doc_status`:
the file, the `.tmp` and the file before it). `ingest` has two, enough for a
rename to be undone back to the file before it or to none: the next save then
waits until the directory is written back; with two documents `run` meets its
own second document as input, and another. The callers of that run compete for
one document (`OneDocument`). Three names give s08 an edge from both sides, one
that meets it, and an isolated node; four give the walk cycles, two levels and
ties of degree. `MaxBatch = 2` lets a batch fail after it has begun. Two
callers and two chunks with one text are the smallest conflict in s09; two
gleaning rounds let a second fail after a first succeeded. Three texts, batches
of two and two retries let a batch follow one that was retried. Texts of up to
seven tokens or thirteen runes, windows of two and three tokens or eight runes
and every pattern of ink let a text end inside a window, at its end and one
unit after it, and let a window be blank. Two documents, four texts and three
inserts let a shorter version replace a longer one, and an insert follow one
that failed; with `TopK = 2` a hit may be a chunk that was left over. Nine
descriptions with windows of two need three levels, which is
`MaxRecursionDepth`. The settings of s11 are such that `TopK`, `ChunkTopK`,
`MaxEntityTokens` and `MaxTotalTokens` each cut something; three edges, two of
them opposite, and two lists of sources give a local record that the global
half replaces by another list, of an entity and of an edge, and `MaxWrites = 1`
puts one write anywhere in the query, which is enough for a node to be met
twice with different sources; the index may hold any edge with any list. Inodes
are only compared, so they are symmetric in the runs without a liveness
property (`doc_status`, `doc_power_loss`, `ingest`, `kv_shared_tmp`), and so
are the callers of `ingest`. A negative `MaxRetries` of s02 is -1, which stands
for all: the loop is left before its first turn.

**Fairness.** Only where a Go function runs on by itself: a goroutine inside
`Upsert` (`JSONKVStore.Fairness`; Go mutexes do not starve a waiter), a
goroutine inside `Extract` (`Extractor.FairSpec`: the model answers or its call
fails), the walk (`SubgraphBFS.Spec`), a remote call (`CallFairSpec`: the
server answers or the client's timeout fires, and a delay ends). Nothing is
assumed of callers, of cancellation, of `Persist`, of the kernel or of a
restart.

## 4. Proofs

TLAPS proves these for every value of the constants that meets the `ASSUME`s of
the modules (model values are apart, sets of ids are finite where a file lists
them, the string order is an order).

- `JSONKVStoreProofs.TypeCorrect` (`TypeOK`): The key-value store keeps its
  types and its mutex discipline for every number of writers and of concurrent
  Persist calls.
- `JSONKVStoreProofs.FileIsComplete` (`CanonicalComplete`): With one Persist at
  a time the canonical file is always a complete marshalled map, whatever fails
  or crashes.
- `JSONKVStoreProofs.CleanPersistIsDurable` (`PersistDurable`): With one
  Persist at a time the file always loads as a committed map no older than the
  last one a clean Persist covered.
- `JSONKVStoreProofs.StartRecovers` (`RestartRecovers`): With one Persist at a
  time a start brings back a committed map no clean Persist is newer than.
- `JSONKVStoreProofs.IsDurableMap` (`ImplementsDurableMap`): With one Persist
  at a time the store refines the abstract durable map, step by step.
- `JSONKVStoreProofs.NoCircleOfMutexes`: For every number of writers whose
  batches share ids no writer holds two of the per-key mutexes, every writer
  inside Upsert can go on at once or the holder of an id it wants can, and
  within an Upsert every turn of a mutex leaves one copy fewer to make: the
  safety half of UpsertCompletes.
- `AtomicFileProofs.ParsedEncode`: Marshalling a map and parsing the file gives
  the map back, for every finite set of keys.
- `StoresProofs.ThreeMapsAgree` (`MapsAgree`): Nodes, edges and adjacency agree
  after any calls, failed saves and crashes, for every set of names.
- `StoresProofs.EveryFileIsAGraph` (`FilesAreGraphs`): Every snapshot and every
  file holds the node table and the edge table of one moment.
- `StoresProofs.ASnapshotIsEnough` (`SnapshotIsEnough`): Loading a snapshot
  makes all three maps again as they are.
- `StoresProofs.GraphIsDurableMap` (`ImplementsDurableMap`): The graph store
  refines the abstract durable map of nodes and edges, step by step.
- `CallsProofs.SubgraphIsConnected` (`VisitedOnceAndConnected`): For every
  finite graph, seed, depth and budget the subgraph is within the budget,
  without repetition and connected.
- `CallsProofs.EmbedAligns` (`VectorsAlignWithTexts`): For every number of
  texts, batch size and number of retries, and whatever a server answers, a
  call that succeeds returns one vector per text, in the order of the texts.
- `CallsProofs.NothingPaidTwice` (`RetriesByTheRule`): For every number of
  texts, batch size and number of retries no answered batch is sent again, none
  more than MaxRetries + 1 times, and the call gives up only after all of these
  were spent on one batch.
- `DocIngestProofs.DocumentsAreKept` (`DocsAreKept`): For any number of
  concurrent Persist calls, crashes and power losses no document of a running
  process is forgotten, started afresh or changed once processed.
- `DocIngestProofs.LoadNeverLosesSilently` (`LoadsASave`): With one Persist at
  a time a file that loads is all of what one clean Persist wrote, and the last
  one's unless a power loss has undone its rename, for every set of documents
  and whatever directory and prefixes of files a power loss brings back.
- `DocIngestProofs.MemoryIsAhead` (`MemoryFollowsDisk`): With one Persist at a
  time the memory of a running process never falls behind the file.
- `DocIngestProofs.CallersAreApart` (`OneRunPerDoc`): For every number of
  callers and documents, of concurrent Persist calls, crashes and power losses
  no two callers work on one document.
- `DocIngestProofs.FilesAreSettled` (`FileIsSettled`): With one Persist at a
  time no run() ever finds a half-finished document in the file, wherever
  earlier ones were killed and whatever a power loss brought back.
- `DocIngestProofs.IngestUsesStore`: Every behaviour of run(), killed at any
  call and run again, is a behaviour of the status store, so what is proved of
  any calls holds of it.
- `DocIngestProofs.RunsResume` (`KilledRunsResume`): With one Persist at a time
  the store refuses a run() only if the file calls its input processed or its
  input is the text of round 3.
- `CallsProofs.NoStretchIsLost` (`StretchesStayWhole`): For every text, window
  and overlap that is accepted, in both modes, any stretch of ink no longer
  than the overlap and one unit lies whole in one chunk.
- `CallsProofs.ChunksAreNeeded` (`NoNeedlessChunk`): For every call there are
  no more chunks than the stride needs to reach the end of the text.
- `CallsProofs.NearestFirst` (`NearestWithinBudget`): For every finite graph,
  seed, depth and budget the walk visits whole levels, nearest first: what it
  leaves out is no nearer to the seed than what it took, and nothing within the
  depth is left out while there is room.
- `CallsProofs.DegreeDecidesWhoStays` (`DegreeDecides`): On the level that the
  budget cuts, no node that goes has a higher degree than one that stays, over
  all parents of the level.
- `CallsProofs.WalkIsBounded`: For every finite graph, also one with cycles, a
  call takes at most 2 * maxDepth + maxNodes + 1 steps, each of which counts,
  and while it admits candidates one of them is first: the safety half of
  Terminates.
- `CallsProofs.CallComesToAnEnd`: For every number of texts and retries each
  step of a remote call leaves fewer texts, or as many and fewer retries, or as
  many of both and less of the try under way; a cancellation takes nothing
  back. The safety half of CallReturns.
- `StoresProofs.PositionsAgree` (`IndexAgrees`): The position index and the
  records of the vector index agree after batches cut short by a bad record,
  deletions, crashes and loads, for every set of ids and vectors.
- `StoresProofs.OneDimensionForAll` (`OneDimension`): All vectors in memory
  have the one dimension of the index, which outlives deletions and restarts.
- `StoresProofs.QueriesAnswerMap` (`QueryAnswersMap`): After any batches,
  deletions, crashes and loads a query returns what a map from ids to vectors
  would: hits of distinct ids with the vector last stored, as many as fit, best
  first, and none worse than one left out.
- `StoresProofs.IndexIsDurableMap` (`IndexImplementsDurableMap`): The vector
  index refines the abstract durable map from ids to vectors, step by step.
- `PipelineProofs.WhatIsCachedIsNotAskedAgain` (`CachedIsNotAskedAgain`): For
  every number of goroutines a text that was cached when a call began is not
  asked of the model again, unless its lookup failed or an empty answer
  replaced the entry.
- `PipelineProofs.HitsComeFromTheFill` (`HitIsFromTheFill`): A hit is a part of
  what the call that filled the entry returned, with the caller's own chunk as
  its source.
- `PipelineProofs.AllThatWasHeard` (`NothingHeardIsLost`): A call returns all
  that the model answered it, also when a gleaning round fails or the context
  is cancelled.
- `PipelineProofs.ExtractComesToAnEnd`: For every number of goroutines and of
  gleaning rounds a call of Extract has at most MaxGleaningRounds + 3 steps to
  take, each of its steps leaves it fewer, and no step of another call and no
  cancellation adds any. The safety half of ExtractReturns.
- `PipelineProofs.InsertMadeAgainRepairs` (`InsertRepairs`): For all documents
  and texts an Insert that succeeds leaves both stores with its text, whatever
  earlier Inserts of it left half done.
- `PipelineProofs.QuietQueryIsConsistent` (`QuietQueryShowsItsHits`): A query
  that no Insert overlaps shows the model the contents its hits were found by,
  except for documents broken between the two stores.
- `MergeQueryProofs.ContextHasItsChunks` (`ChunksFollowRecords`): For every
  graph, index, settings and lists of sources, and whatever nodes, edges and
  chunks a writer replaces between the steps: every source of a record in the
  context is fetched unless ChunkTopK cuts some, and a fetched chunk that is a
  source of none belongs to a local record that a global one replaced.
- `MergeQueryProofs.ReferencesAreRanked` (`ReferencesByRank`): For all of
  these, references repeat no chunk, are at most ChunkTopK and come in order of
  grade (entities of the local half, its relationships, then the global half),
  and ChunkTopK drops no chunk for one of a lower grade.
- `MergeQueryProofs.PromptWithinBudget` (`OnlyTheFirstOverruns`): For all sizes
  of lines and chunks and all budgets, the chunks in the prompt keep within
  what the entities and relationships leave of MaxTotalTokens, unless the first
  one is there alone.
- `MergeQueryProofs.MergeProgresses` (`EveryLevelMakesProgress`): For every
  list of records and all limits a level leaves at most half as many texts,
  rounded up, and merging n descriptions costs at most n - 1 calls of the
  model.
- `MergeQueryProofs.MergeLosesNothing` (`EveryDescriptionOnce`): For every list
  of records, all limits and all failures of the last call, each description
  reaches the one result of its name once and in order, and so do the weights,
  sources and keywords.

*s05.* `TypeCorrect` and `NoCircleOfMutexes` hold for any number of writers and
persisters. The others assume `SoleWriter`: at most one `Persist` at a time. That is not a
restriction of the model but what the code needs: `kv_shared_tmp` shows that
two at a time break it. The file is right only because of what is under way:
`SoleInv` adds to the types that no descriptor is open on the canonical file
(`TmpApart`), that the buffer of a saver is a map that was committed
(`SnapshotsCommitted`), that the file is the marshalled acknowledged map
(`FileIsAcked`) and that memory is the newest entry of the log. The
refinement theorem maps the file to what a load would make of it, and shows
that all system calls but the rename are stuttering steps of `DurableMap`.
`NoCircleOfMutexes` needs no more than that a copy is of the batch and that a
writer that holds a mutex has no other: whoever holds one can stage its copy at
once, so no chain of waiting is longer than one.
`AtomicFileProofs` holds the lemmas on marshalling and on single system calls.

*s08 graph.* `GraphInv`: types, the three maps agree, every file and every
snapshot is a graph, a stopped process has empty maps. The work is in
`EdgeKeeps` (both adjacency sets change with the edge, for either order of the
ends) and `LoadMakesGraph` (a load adds no node that the file does not list and
rebuilds exactly the neighbours).

*s08 walk.* `WalkInv` adds `Fringe` to connectedness: frontier and admitted
nodes are visited, candidates are not, and each candidate has a visited
neighbour. `LayerInv` names the level reached: between levels everything nearer
is visited, and the level itself unless the budget is spent (`LevelDone`);
inside one, the next ring is split into admitted nodes and candidates, the
first of no lower degree (`LevelOpen`). The balls around the seed are given by
a recursive function, of which `BallNext` is all the walk needs. `WalkIsBounded`
counts steps by what they leave behind, two for each level and one for each
node admitted (`StepsTaken`); the budget and the depth bound both.

*s07.* `IndexInv` adds to agreement and dimension that an index without a
dimension is empty, that no file repeats an id, and that a stopped process
saves nothing. `Upsert` and `Delete` are loops over a batch, which the model
writes as folds. A batch may end at any record, so the lemmas are about every
prefix: `StoreFold` and `FilterFold` list the values such a loop goes through,
and each is shown to be a good one from the one before. A query filters with the
same loop, so its hits are the records at or above the threshold, each once
(`FilterFold`). What `sort.Slice` does is a choice of a permutation that leaves
no inversion; that there is one is shown by ranks: the place of a hit is one more
than the number of better hits, and these numbers are a bijection because
`Better` is a strict order that decides between any two ids (`Before` numbers
them, as a comparison of strings does).

*s09.* `ExtractInv`: what a call has collected is what it heard and holds its
first answer (`Collected`), a usable entry is a part of what the call that made
it returned (`EntriesAreParts`), and an entry that was usable when a call began
is there when it looks, unless an empty answer replaced it (`WarmStays`). For
`ExtractComesToAnEnd` it is enough that a gleaning call has a round left
(`RoundsInv`); `StepOfCall` lists where each step of a call leads.

*s01.* `LoopInv`: the documents whose last insert succeeded are whole in both
stores (`Repaired`); between the stores each vector of the insert under way is
there and each content is there or waiting (`UnderWay`); a vector has the
content it was made from unless its document is broken (`VectorsMatch`); and
what an undisturbed query has read is what its hits were found by
(`RowsMatch`).

*s10.* `MergeInv`: the results so far are those of the first groups, each made
of all its records (`MergedAre`), with the weight of the records seen so far;
the texts of a level are of all descriptions of the group (`Covers`): put
together they are the list of its descriptions, and the texts left and the
calls made are together no more than the descriptions. Inside a level this is said of what was
reduced followed by the windows that were not (`ReduceCovers`). The lemmas are
about the folds: `WindowsAre` (the windows, put together, are what was cut,
every window but the last holds two or more), `WeightsAdd` (weights of groups
that share no record add up), `NamesAre` (each group once, each record in one).

*s11.* `QueryInv`: the ids of a half are the sources of its entities, then what
only its relationships have, or the other way round in the global half
(`HalvesInOrder`); one mode has one half (`HalvesByMode`); the context is the
local records with the global ones put over them, and a graph mode fetches the
first of both halves without repetition (`ContextOfHalves`); references are
rows and rows are a part, in order, of the ids (`AnswersFromRows`). A list is
read by its heads: `IsHead(s, H)` says that the elements of H come first, which
joining two lists and dropping repetitions keep (`HeadsOfConcat`, `UniqueIs`).
The halves are maps, and `ChunksOfAssign` says what becomes of the sources when
one map is put over another: those of the second all stay, and of the first
those of the keys that the second does not have. The writer may replace what it
likes at any point, because a half keeps the record it met.

*s06 and s02.* `CallInv`: what is gathered so far is the vectors of the first
texts. `VecsInTextOrder` is the point: whatever the server lists, an answer that
passes the checks of `embedOnce` yields the vectors of the batch in order.
`RetryInv` is about the server's history: the tries of the batch under way are
the last `attempt` entries, all of them failures (`Pending`), and the entry
before them is the answer to the batch before. Counting the tries of a batch
then is counting an interval. The same invariants give `CallComesToAnEnd` its
measure: texts left, then retries left, then what is left of the try.

*s04.* `CutInv`: what begins before the next window lies whole in a chunk
(`WholeBefore(start)`), and the next window begins no earlier than one stride
for each chunk that is there. The first is what a stretch needs: the window that
covers its first unit and begins last also covers its end, because the overlap
is at least as long as what is missing.

*s03 store.* `DocumentsAreKept` needs only that memory holds records
(`DocsTypeOK`) and `MarkMovesAhead`, for any number of `Persist` calls. The
other two assume `SoleWriter`, as for s05, and use `StatusInv`: every file with
a canonical name, in the directory or in one that a power loss may bring back,
is the marshalled map that was saved in it, or a power loss tore it, and then
it does not parse, nothing will be written to it and the process is down and
stays down (`FilesAreSaved`); the last clean save is in place unless a power
loss undid its rename (`LatestInPlace`); every snapshot under way is a map that
memory has not fallen behind (`SnapshotsBehind`). Directories that may come
back matter to every step, since none of them may name the file that is being
written (`TmpApart` of `AtomicFile`). `CutDoesNotParse` is why a torn file is
noticed: only the whole marshalled map ends with the brace.

*s03 callers and run.* `CallersAreApart` is inductive with the types of memory
and of `holds`: the file plays no part, so it holds with any number of
overlapping `Persist` calls. `RunInv` is `StatusInv` with what `run` has done
to its two documents by the time it makes each call (`InputSoFar`,
`SecondSoFar`) and that all it ever saves is finished (`SavesFinished`, and
`Finished` of all files). The document of round 3 is only ever saved as failed,
which is why the forbidden transition is always refused and a run over that
text never gets to `Persist`. `RunIsClient` gives `IngestUsesStore` from it.

Loops are written as folds and closures as recursive functions, and what such a
definition returns needs induction. The induction theorems of the library take
an operator, which the provers cannot instantiate; `Induction` derives from
well-foundedness one over a set of numbers instead (`InductionOnNat`,
`InductionUpTo`), and from it that a fold goes through a sequence of values,
each made from the one before (`Trace`).

Every invariant, action property and refinement of the passing runs is proved,
those about what a file holds in s03 and s05 for one `Persist` at a time.
Only model-checked is what must eventually happen (`UpsertCompletes`,
`ExtractReturns`, `Terminates`, `CallReturns`), as the prover
has neither fairness nor ENABLED. Of each of these the half that is a safety
property is proved: a measure that every step lowers and nothing raises
(`ExtractComesToAnEnd`, `WalkIsBounded`, `CallComesToAnEnd`), or
that nobody waits in a circle (`NoCircleOfMutexes`). What remains for TLC is
that a step which can be taken is taken.

## 5. Where code and text disagree without a run

Met while modelling; none of these is a property of a run.

- Two `Persist` calls in a row by different goroutines may rename in the order
  opposite to their snapshots, so the older map wins (s05, s07, s08).
- A second `go run .` on the same input fails: `run` ignores that `Enqueue` says
  it is known and `MarkProcessing` rejects a processed document. `main.go:12`
  says the demo proves idempotency by ingesting twice (which it does within one
  process) and docs/en/s03-doc-status.md:197 that "the next `go run .` will Load
  it". An input that is the text of round 3 is refused always.
- A rename that returned may be undone by a power loss, as the directory is not
  synced either: the file is then the one before, complete, and `Load` reports
  nothing. `doc_status` shows that nothing worse than that or a torn file comes
  of it.
- `MarkFailed` is said to work from "any non-PROCESSED state", but
  FAILED to FAILED is rejected, and a cancelled context makes it a no-op, so a
  worker that fails because it was cancelled leaves its document PROCESSING.
- A document that a crash left PROCESSING is listed by the scan, but
  `MarkProcessing` rejects it.
- An empty canonical file, which a power loss can leave, loads as an empty KV
  store, without an error.
- `WithMaxRetries` of s02 says the default is 3, it is 2; s06 says
  `MaxRetries=3` is 3 tries, it is 4. A negative number in s02 means no try at
  all, and an error that wraps nothing. A delay of s06 ignores the context.
- The counters of `Extractor` are said to be atomics and are plain integers. A
  blank answer is cached and never hit.
- s10: the docs say `<=` where the code has `<` (count and tokens), and that each
  window has at least two descriptions, which is false of the last. A blank
  summary is accepted. A cancelled last call falls back to the concatenation
  and reports success.
- s01: a shorter version of a document leaves the tail of the longer one in both
  stores, where a query still finds it. A query that overlaps an insert may show
  the new body for a hit on the old vector. Two inserts of one document at a
  time could mix the vectors of one with the contents of the other. `Insert`
  checks how many vectors the embedder returned, `Query` does not and panics on
  none. The stubs of `pipeline.go` are said to cut out locking, but they lock.
- s04: blanks at the end, or a blank stretch inside, can give a last chunk that
  trimmed is contained in the one before it. A window of tokens may cut a rune
  in two.
- s10: keywords are said to be deduplicated, but whole lists are compared, so
  "a, b" and "b, a" both stay.
- s11: a blank keyword list under the snake_case name hides the one under the
  camelCase name.
- s11: a hybrid query may fetch and cite a chunk that is a source of no record in
  its context: the global record replaces the local one of the same name or of
  the same two ends, whose chunk ids stay. Opposite edges are two in the store
  and one in the context. `truncateChunksByTokens` is said to pack "as many
  chunks as fit" and to count a newline for each
  (src/agents/s11-query-modes/context_builder.go:47); it counts none and keeps
  the first chunk also when that does not fit.
- s11: "cap at TopK*3" is not in the code; chunks do get the rest of the budget
  when the two section limits exceed the total, as the sections may be short;
  a query without hits, or whose hits are gone from the store, succeeds without
  references; `ChunkTopK` cuts ids before the store is asked, so stale ids may
  take the places of stored chunks; entity lines are cut in the middle.

## 6. Not modelled

- s01: `Delete` of its two stores, which nothing calls. s04: which pieces a
  tokenizer makes of a word.
- s09: `runGleaning` of `gleaning.go`, which `Extract` does not use but repeats.
- Read-only calls of the stores (`Get`, `GetByIDs`, `FilterMissing`, `Len`,
  `ListByStatus` but for the resume scan), which change nothing and read under
  one lock.
- Arithmetic of vectors, prompt texts, JSON and answer syntax, timestamps,
  counters, the demos and the mocks: data or wording that no property needs.
- In s07 and s08 a save is the snapshot, then one step that renames or fails,
  one `Persist` at a time: what lies between is the same code as in s05 and is
  checked there.
- In s11 a search returns any set of hits within its limit, two keywords stand
  for any number, the answer of the keyword call is what its parser makes of
  it, and a prompt is counted in tokens.
- In s02 and s06 there is no time: a wait ends, and whether it ended early is not
  told apart (s06 sleeps through a cancellation, which only delays the return).
  That a request under a cancelled context is not sent is `net/http`'s, and a
  guard of `Send`; no property states it.
- In s04 the tokens of a text of ideographs are those of tiktoken's library,
  taken as one for each rune (`IdeographsIn`); `WhitespaceTokenizer` counts words
  (`WordsIn`), and would call such a text one token.
- In s11 the vector indexes are not state: a search of relationships may return
  any pair of ends with any list of chunks, as the metadata of an index record is
  written apart from the graph.
- Of the file system it is assumed that changes of one directory reach the disk
  in order. In s05, s07 and s08 only the process crashes.
- s03: reading the input and printing, in `run`; an input that cannot be read ends
  the run before it calls the store. A failure that a caller could not record
  because its context was cancelled: its document stays PROCESSING.
- s03: `Enqueue` hands out the live record, which other goroutines change under
  the lock; records are values in the model.

## 7. Plan

Done: the stores and their files, the callers of the status store and `run`,
the pipeline of s01, chunking, the walk, extraction, remote calls, merging,
queries; proofs of every safety property and every refinement that a passing
run checks, and of the measures that bound what must come to an end.

Open: overlapping `Persist` calls in s08 on `AtomicFile`, if s05's run leaves a
question that depends on the store; power losses in s05, where an empty file
loads without an error; the alias of a record that `Enqueue` of s03 hands out.
