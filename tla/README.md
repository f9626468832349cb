# RAM-A: TLA+ models, checks and proofs

RAM-A gives agents two kinds of memory: `ram-a-kv`, a daemon that keeps track
of which KV-cache chunks the sessions of an inference engine still need, and
`ram-a-mem`, a memory service (ingestion, a graph of facts, a store of cases)
behind an MCP server. This directory models what both do to their state, checks
it with TLC and proves the central results with TLAPS. Section 1 lists the parts
of the system, 2 the modules, 3 the runs, 4 the proofs, 5 what is left out, 6
what could come next.

## 1. Inventory

### ram-a-kv

| Part | State | Operations | What is hard |
|---|---|---|---|
| coordinator, `manager-core/src/manager.rs` | `sessions`, `refcounts`, `fork_snapshots` (a tokio mutex each), `next_fork_id` (atomic) | `on_turn_start`, `on_turn_end`, `on_snapshot_restore`, `on_session_close`, `on_session_fork`, `on_session_fork_end`, `restore_session`, `rebuild_refcounts` | a fork takes three locks one after the other; evictions are decided under the locks and sent after them; a handler can be dropped at an await |
| backend client, `backend/lmcache_ascend.rs`, `backend/ucm.rs` | none of its own; the accelerator's chunks are outside | `prefetch`, `evict`, `query` | refusals, 5 s timeouts, calls that land after their caller gave up |
| daemon, `api.rs`, `handlers/*.rs`, `main.rs` | the request under way | one handler per event; save after `turn_end`, delete after `session_close`, pin at suspend and restore; rehydration at start | read, read, write without a lock over the three; check then delete; crash between any two steps |
| session store, `session_store.rs` | SQLite tables `sessions` and `pins` behind one std mutex | `save`, `load`, `remove`, `list_all`, `pin_session`, `is_pinned` | statements that fail are logged, except `save` |
| clients: SDK, OpenClaw plugin, deepagents middleware | - | fire-and-forget events | events of one session overlap; the SDK's `session_fork_end` carries no `fork_id` |
| debug files, ActRail relay, configuration | files | write, forward, parse | only that a failing debug file fails a `turn_end` |

Handlers call the coordinator and the store; the coordinator calls the backend.
The coordinator is correct when counts equal references, evictions are decided
about unreferenced chunks only and released chunks do leave; the daemon when
the store says what memory says once a session is quiet, and when a restart
brings back that and nothing else.

### ram-a-mem

| Part | State | Operations | What is hard |
|---|---|---|---|
| MCP sessions, `memory-mcp/src/http.rs` | active and closing sessions, reservations, ids in flight, tool permits, each under a mutex; rmcp's sessions | initialize, call a tool, delete, expire | four tables and a library, with awaits in between; clients that go away at any of them |
| case confirmations, `memory-mcp/src/case_service.rs` | pending changes by token, in memory | prepare, begin, execute, finish, drop guard, expire | a change is carried out in another store; a retry may follow a success nobody heard of |
| ingest, `memory-mcp/src/service.rs`, `idempotency.rs` | idempotency rows, in-process locks by a hash of the candidate set | lock, reserve, run the pipeline, persist, build graphs, complete | three stores without a common transaction; a repetition asks the model again; overlapping candidate sets take different locks |
| memory pipeline, `memory-pipeline/src/*.rs` | the sets of one run; a cache and output files | cut into windows, extract, ground, repair, retry, aggregate, write | three nested counters of attempts; kills and failed writes between an answer, its cache entry and the files |
| records and search, `memory-core/src/manager.rs`, `sqlite_store.rs`, `embedding.rs`, `reranker.rs` | records with vectors | add, search, delete by filters | batches answered out of order or in part; channels that are missing, scores at the end of a range; a delete that rewrites what it has read |
| graph runs, `memory-core/src/sqlite/graph_repository.rs`, `graph/*.rs` | run rows (status, stage, attempt), extraction rows, vectors, evidence | accept, reset, claim, embed, extract, resolve, publish, fail | seconds pass between two transactions of a pipeline; late results of an older attempt |
| the graph, same files | entities, aliases, facts, evidence, links | publish an extraction, retrieve a context | one name, several entities; one fact, several records; queries that name somebody |
| graph extractor, `graph/llm.rs` | none | ask, repair, validate | answers of a model: ids twice, quotes that are not there, unknown types |
| case store, `memory-cases/src/service.rs`, `repo.rs`, `ingestor.rs` | files, rows, chunks, tasks, index, rebuild status | create, update, rename, delete, lease, ingest, complete, fail, recover, rebuild, search | three stores; a document changes while it is ingested; the index is replaced under readers |
| case text, `parser`, `chunker.rs`, `document_summary.rs`, search of `service.rs` | none | parse, cut, summarise, match, group, show | budgets and boundaries; nothing lost, doubled or shown twice |

An ingest runs the pipeline, persists the memories, resumes one graph run for
each, and only then completes its idempotency entry. Case tools of the MCP
server prepare a change and confirm it, which calls the case store. The HTTP
server admits every request before any of that.

What makes each part correct is the list of properties in section 3;
`PROJECT.json` lists every component with its status and every hazard at its
line.

## 2. Modules

| Module | What it is |
|---|---|
| `KvManager` | the coordinator, one action per critical section or answer of the backend |
| `ChunkLedger` | the abstract specification: holders hold sets of chunks, no counters |
| `KvManagerRefinement` | the mapping under which `KvManager` implements `ChunkLedger` |
| `KvDaemon` | extends `KvManager` with the handlers, the SQLite store, failing statements, hang-ups, crash and restart |
| `GraphRun` | the life of a graph ingestion run: one action per transaction and per answer of an embedder or a model |
| `GraphPromise` | abstract: what the graph store promises about a memory, without stages, pipelines or claims |
| `GraphRunRefinement` | the mapping under which `GraphRun` implements `GraphPromise` |
| `GraphFacts` | what a publication does to the graph, and what a query gets back |
| `MemoryIngest` | the ingest of memories: one action per stage, over idempotency rows, stored memories and graphs |
| `MemoryPipeline` | the batch program: calls, retries, repairs, cache, files, kills |
| `McpSessions` | the door of the HTTP server |
| `CaseConfirmations` | staged changes of a case library and their tokens |
| `CaseStore` | documents, ingestion, rebuild and loss of the index |
| `Windows`, `Parsing`, `Chunks`, `Summaries`, `Retrieval`, `Extraction`, `SearchTerms`, `CaseSearch`, `Records`, `SearchResults` | functions of their input, without state |
| `Algorithms` | applies these functions to every input of a bounded set, and says what is to hold of the results |
| `MC*` | the instances for TLC |
| `*Proofs` | theorems about `KvManager` and `KvDaemon` (`KvProofs`), `GraphRun`, `GraphFacts`, `MemoryIngest`, `MemoryPipeline`, `McpSessions`, `CaseConfirmations`, `CaseStore` |

A definition named "Mutant of X" is what a bug in X could look like; nothing else
uses it. It is there to show that the properties notice.

### KvManager

`open`, `map` and `turns` are the keys and the two fields of `sessions`;
`refcounts`, `snapshots` and `nextForkId` are the fields of the same names. A
hash without an entry has count 0: `decrement_refcounts` removes an entry when
it reaches zero, so the two are the same. A hash list is the set of its members,
because every operation takes `unique_hashes` first.

`req[r]` is the program counter of a request. A nested pair of locks (`sessions`
then `refcounts`, `fork_snapshots` then `refcounts`) is one step, because nobody
can see between; `on_session_fork`, which releases each lock before it takes the
next, is four (`ForkRead`, `ForkTakeId`, `ForkInsert`, `ForkCount`). After the
locks an operation evicts, then prefetches, then returns. The backend
(`resident`) is external: a call is applied, refused, or times out, and a timed
out call may land later (`late`).

`DropTurnEnd`, `DropClose`, `DropForkEnd`, `DropFork` and `DropCall` are a
client that hangs up: the HTTP server drops the handler at the await it has
reached, and while it waits for the second lock of a pair only the first table
has been changed.

Four history variables explain rather than model: `uncounted` (forks recorded
and not yet counted), `stray` (chunks a failed, overtaken or abandoned call left
behind), `issued` (fork ids clients know), `drops`.

The switch `LegacyForkEnd` says whether some client ends forks without the id.

### KvDaemon

`handler[r]` is what a handler does around the coordinator, with the map and the
count it has read and not yet written. `rows` and `pins` are the two tables.
Each SQLite statement is one step: the store's mutex is never held together with
a lock of the coordinator. `turn_end` goes through `ReadMap`, `ReadTurns`,
`SaveRow`; `session_close` through `CheckPin`, `RemoveRow`; `session_suspend`
pins, then closes; `snapshot_restore` takes its list from memory or, if there is
none, from the row, registers it, then pins. `Restart` is the crash and the
start-up together: nothing listens in between. `SerialClients` says that no
client sends an event for a session before the previous one is answered, as the
TypeScript and Python clients can; without it events overlap, as those of the
SDK do. A statement that fails is a fault: a `turn_end` is not saved, a pin not written,
a row not deleted, and a SELECT of the pins answers "not pinned" (`is_ok()`), after which
the row is deleted. `blind` is history: closes that cannot know of their session's pin,
because their SELECT failed, or because a suspend of the session came, or a restore of it
was at work, while they were under way.

### GraphRun

`run[k]` is the row of `graph_ingestion_runs` under an idempotency key,
`extractions[k]` the rows of `graph_extraction_runs`, `embedding[k]` the vector
of the record and `evidence[k]` what `publish_resolution` wrote; a vector, an
extraction and a publication are known by the attempt that made them.
`worker[w]` is a pipeline: its next statement, and what its last claim told it.

`Accept` is `accept_memory_record` with one of the three entry points:
`build_memory` goes on whatever the answer, `build_memory_if_needed` only from
`pending`, `resume_memory` through `Reset`, which starts over a `failed` or a
`running` run. Then `Claim`, `Embed`, `StoreEmbedding`, `ClaimExtraction`,
`Extract`, `StoreExtraction`, `ClaimResolution`, `Publish`. Only `Claim` and the
two other claims read the attempt from the row; in particular a pipeline that
has stored its vector does not compare its attempt when it claims the
extraction, so it may carry on the stages of a newer attempt, and the model lets
it. Every statement that stores a result compares status, stage and attempt
(`Current`), and changes nothing if one differs. An answer that is an error, an
output or metadata that does not validate, and a transaction that fails go the
failure path of their stage (`StageFails`, then `MarkFailed` or
`RecordFailure`). A claim or a failure path that fails itself ends the pipeline
and leaves the row (`Abort`), and so does an ingest that drops its `JoinSet`,
because the graph of another memory failed or the server shuts down, or the end
of the process. Transactions run on a blocking
thread that is not stopped with its caller; that is an abort just after the
transaction. Statements of one process are serialised by the operation lock, so
a transaction is a step. A key used with another input is refused
(`IDEMPOTENCY_CONFLICT`) and changes nothing; a space has one owner.

The calls for one key that overlap are those the ingest lock does not keep
apart: it is keyed by the whole candidate set, and the pipelines of an ingest
that was dropped may still finish a transaction. They are bounded by
`MaxOverlaps`.

`GraphPromise` is what a caller may rely on. A memory is taken once and has the
memories taken before it for good (`earlier`, which is the ingestion sequence
without its numbers); attempts begin, are given up and taken up again; one
finishes, and its graph is made from it alone. The mapping reads the attempts a
graph is made from off the three places they were written to (`MadeFrom`): the
vector, the extraction the evidence came from, and the evidence.

### GraphFacts

The tables are `entities`, `facts` (sequences, in the order of their rows),
`aliases`, `evidence` and `links` (sets), and `published`, the records in the
order of their ingestion. `Publish(r)` is `publish_resolution`, one transaction:
each entity by its name, else by an alias that is one entity's only, else new; a
fact by subject, predicate, object and text; evidence and links. Ids are random,
so where the code orders by them the model chooses (`early`). `Retrieve` is
`retrieve_context`: who is asked for (`Plan`, `Targets`), seeds by words and
evidence (`FactLists`), the facts around the best of them and their entities
(`ExpandSeeds`), kept to the target, and the records that bear them out. `Sorted` is every
ORDER BY and sort: rows are told by their positions, and the position decides where the order
does not. Abstracted: aliases are an entity's own normal names; a subject
or speaker that is given and unknown means no filter; candidates for a speaker
come from the best matches only; bm25 is the number of terms that match; a fact
that is used again does not keep the later interval of validity.

### MemoryIngest

`rows[m]` is the row of `mcp_ingest_idempotency` of a message: status, content
hash, and the memories of its `result_json`. `stored[x]` is the record of a
memory, as the messages its metadata cites as evidence; `graphs` are the graph
runs completed, under a key made of the memory and its metadata (`GraphKey`);
`req[r]` is a call of `ingest`, at one of its stages, with its candidates and
what the pipeline made of them. All is of one scope.

`Ask`, `Lock`, then `Refuse`, `AnswerFromRows` or `Reserve` (the three outcomes
of the one transaction of `reserve_sync`), `RunPipeline`, `Persist`,
`BuildGraph` for each memory in any order, `EndGraphs`, `Complete`. A request
with context messages only skips reservation and extracts nothing. The lock is
held from `Lock` to the end and is known by the set of candidates. A message
found pending is taken over whoever reserved it. `Fail` is an error at any stage
after the lock; nothing is undone. `Restart` ends all requests: the process ends,
or it shuts down and the cancellation token drops them (`mcp_server.rs:152`).

`Readings[m][c]` is the set of answers a model may give about a message: it may
word one thing in two ways, hence as memories with different ids, and two messages may
share a memory. With `fail_fast` off a window that fails makes no memory, which
is a reading `{}`; the theorems are for any readings. Left out: the run ids of
rows, which are written and never compared (only `cached_response` reads them,
to remove repetitions); counts of rejected and quarantined candidates; metadata
that differ for one memory with one evidence (a confidence, say), which would
only give it one more graph.

`Apart(m)` says that a message always comes with the same candidates, which is
when the lock can keep its requests apart.

### MemoryPipeline

`pc` and `w` are where `run_memory_pipeline` stands in its loop, `call` is the
chat completion under way with the three counters that nest (`repair` of a JSON
answer, `sem` of one that only reasoned, `attempt` of the transport), `used`,
`supported`, `rejected` and `quarantined` are the variables of the loop,
`extracted` and `grounded` the two kinds of cache files, `disk` the three files
written at the end. `LookHit` takes the entry of a cache, so that a call kept there
is not made; `LookFails` is an entry that is there and cannot be read or decoded, which
fails the call without asking the model; `LookMiss` begins a call, which is refused for good
(`RequestRefused`), fails and may be tried again (`AttemptFails`), is answered
with reasoning only, with JSON that does not parse, or well, or runs out of its
budget. An answer is cached before it is used (`Save`). Without `fail_fast` a
window whose extraction fails is rejected as a whole, and one whose grounding
fails is quarantined. `Write` writes the three files one after the other. `Killed`
ends the program anywhere, `Start` begins again over the same files.
A raw memory has a content, the evidence it quotes and a verdict of
`validate_extraction`. `skipped` is history: the windows at which a run without
`fail_fast` passed over an unreadable entry. Which windows there are is `Windows`.

### McpSessions

`active`, `stale`, `closing`, `pending`, `global` are `SessionAdmissionInner`,
`inFlight[s]` the ids of a session, `permits` the semaphores, `live` and `born`
rmcp's own sessions (external). `req[r]` is a request: where it stands in
`authorize_mcp` and what its guards would give back. An initialize sweeps what is
stale, reserves, closes what it swept, creates a session in rmcp, and makes it
active (`Reserve`, `SweepIds` and `CloseExpired`, `CreateSession`, `Commit`, or
`Reject` when the answer is an error); a call (`Call`, or `FindExpired` when its own
session is the one that is stale)
validates the session, takes a permit (`Acquire`), registers its id, and serves,
perhaps in a stream that outlives the answer; a tool that runs holds the permit
until it returns (`ToolReturns`). A delete marks, drops and removes (`MarkClosing`,
`DropIds`, `FinishDelete`). A client that goes away ends its request at any await
(`Disconnect`), and only `Released`, `Unlisted` and `PermitBack` happen, which are
the three `Drop`s. `orphans` is history: sessions whose closing request was
dropped, which rmcp keeps for a while.

### CaseConfirmations

`pending[t]` is the entry of token `t` with `executing`, `expired` the tokens past
their time (`Expire` is the clock; an expired entry stays until somebody sweeps),
`library` the document, its tasks and the log of changes carried out, as the
transactions of `repo.rs` make them. `handler[h]` is a call of a final tool:
`Begin`, `Check` (was it carried out already?), `ApplyUpload`, `ApplyUpdate` or
`ApplyDelete`, `Tidy`, `Finish`, `DropGuard`; `Fail` is a step that ends with an
error that may be retried, `Abandon` a handler that is dropped at an await,
`Restart` a new process, which has no pending changes. History: `settled`, the tokens
whose caller was told that they are used up, `retried`, those whose caller was told to
try again, and `overlapped`, those two calls have worked on at a time.

### CaseStore

`file[d][p]`, `row[d]`, `chunks[d]`, `tasks[t]` and `index` are the stores;
`chunks[d]` is the content its rows were cut from. A request (`writer[w]`) is at
the file, the row, the listing of the index, its rewriting, or the tidying up:
`delete_by_filters` lists the whole index and writes back what is to stay, two
calls. The worker leases the oldest pending task, reads the row, parses the file
as it then is, stores chunks, indexes them, completes; none of the later steps asks
whether the task still is or the document has changed, and an update removes
pending tasks but not the one that runs. The locks `index_mutations` and
`index_access` are `Sessions`, `RebuildWaits` and `RebuildHolds`: handlers and
worker hold the read sides, a rebuild takes the write sides, and a waiting rebuild
keeps new readers out. `rebuild`, `temp` and `history` are the rebuild, the
database it fills, and `IndexRebuildStatusStore`. `FailWrite` is a request that
ends early, by an error or because its client went away, `FailIngest` a step of the
worker that fails, the lease, `complete_task` and `fail_task` among them, `FailRecovery` a
recovery that fails, which is only logged, `FailRebuild` and `PanicRebuild` two ways a rebuild ends,
`LoseIndex` an index database that disappears, `Restart` a process that dies and
starts. `ahead` is history: documents whose file was written for a row that never
came; and so is `counts.unrecovered`: the worker has left a task running or failed behind
and nothing has recovered it since.

### The functions

- `Windows`: records to messages, messages to episodes, episodes to windows with
  context; the coverage of quotes. Every character costs one token.
- `Parsing`: Markdown and text by lines; a line has a kind and, if a heading, a
  level. A heading with nothing under it is in no node, as in the code.
- `Chunks`: nodes to chunks within a budget. A text is a sequence of tokens, white
  space costs none.
- `Summaries`: the lines a document is summed up in. A sentence has a length, terms
  and marks; a text that is cut has the three dots `truncate_chars` adds, and the terms
  and marks of what is left of it; different long texts differ before they are cut; context lines are not
  deduplicated.
- `Retrieval`: a search over channels, fusion, graph and reranker. Scores are whole
  numbers and are compared as exact fractions.
- `Extraction`: `LlmGraphExtractor`. Names and texts are those up to case and spaces.
- `SearchTerms`, `CaseSearch`: terms of a text, and `search_dataset`. No capitals or
  underscores; scores in thousandths.
- `Records`: batches of texts to vectors, records into the store and out of it. A
  service sends vectors for texts it was asked for only, those without a number in
  order (the code checks the total count); nearness is "the same text or not".
- `SearchResults`: what is noted of the graph on a memory, and what memory-mcp
  answers with: five or ten times as many memories are looked at as are asked for, and
  never more than 500.

## 3. Runs

| Run | Properties | Bounds | States |
|---|---|---|---|
| `kv_manager` | `RefcountExact`, `NoSilentLeak`, `ImplementsLedger`, `ReleasedChunksLeave` | 2 sessions, 1 chunk, 2 requests, 1 fork, 1 turn, prefetching, 1 late call | 616,278 |
| `kv_mishaps` | `RefcountCovers`, `PinnedRowsStay` | 1 session, overlapping events, fork_ends without id, 1 fault, 1 restart, 1 hang-up | 3,339,776 |
| `kv_daemon` | `StoreMatchesMemory`, `CountsSurviveRestart` | 2 sessions, 1 chunk, 2 turns, 1 fork, serial clients, 1 restart | 1,414,134 |
| `graph_run` | `OneOwner`, `CompletedRunIsWhole`, `ImplementsPromise`, `ResumedRunsComplete` | 1 key, 2 inputs, 3 pipelines, 2 overlapping calls, 1 mishap | 155,973 |
| `memory_ingest` | `AnswersAreWhole`, `AnswersCoverTheMessage`, `AnswersStay`, `RepeatedIngestCompletes` | 2 messages, 2 contents, 2 memories, 2 requests, 2 mishaps | 243,960 |
| `graph_facts` | `GraphIsWhatWasSaid`, `AnswersKeepToTheTarget`, `MatchesAreFound` | 6 records, up to 5 published, 8 queries | 6,331 |
| `case_store` | `NoForgottenDocument`, `IngestedIsCurrent`, `IndexReplacedWhole`, `RebuildGateOpens`, `TasksSettle` | 1 document, 1 path, 2 contents, 1 request at a time, 2 tasks, 1 rebuild, 2 mishaps, 1 loss | 1,534,064 |
| `mcp_sessions` | `LimitsKept`, `IdsKeptApart`, `SessionsAreSomeones` | 3 principals, 3 requests, 1 id, 1 session each, 2 in all, 2 sessions ever | 650,811 |
| `case_confirm` | `OneExecution`, `AnswersAreTrue`, `UsedUpStays` | 1 principal, 4 in flight, 3 calls, 3 tokens, 2 staged, 4 changes, 1 mishap | 4,883,015 |
| `pipeline` | `EveryMemoryAccounted`, `OutputStays`, `RunEnds` | 2 windows, 6 answers of the extractor, 2 attempts of each kind, 2 starts, 1 mishap | 401,241 |
| `algorithms` | `WindowsAreSound`, `IndexedIsTheText`, `SearchAnswers`, `EachItsOwnVector`, `ExtractionIsSound`, `RelatedIsKept`, `CaseAnswers` | the sets of `MCAlgorithms` | 524,705 |
| `case_delete_spares` | `DeleteSparesOthers`, violated | 2 documents, 1 request, 2 tasks | stops |

`case_delete_spares` shows a disagreement: the README of `ram-a-mem` (99-101) says
that update and delete flows do not remove other memories. A delete reads the
records of the index and writes the others' back, so what the worker adds in
between is gone, and its task is completed all the same. The entry is under
`findings`.

What each property is about is in the comment before it. Those over functions:
`WindowsAreSound`, every eligible character is candidate of one window, in order,
within budgets, and coverage is that of a set of positions; `IndexedIsTheText`, no
line of a document and no token of a node is lost or doubled on the way to
chunks and summaries; `SearchAnswers`, what each mode returns, how it is ordered,
that failing open answers as if the channel were off, and that a memory asked for is
left out only when the answer is full or as many as are looked at rank before it;
`EachItsOwnVector`, no record or question is given another's vector, and no row changes
but those an addition names by their id; `ExtractionIsSound`, what is kept of
an answer is whole, quoted and named, and what could be kept is; `RelatedIsKept`, a
text that contains what is asked for is not dropped; `CaseAnswers`, each document
found is shown once, with its chunks in order and not more than asked for.

### Why the bounds are enough

*KV.* Counts depend on one chunk at a time, and two sessions and a fork can share
it. Two requests give every pairwise interleaving of critical sections. Turns are
bounded because `turns` grows; its value plays no part except in the row. `late`,
`drops`, `faults` and `restarts` are bounded at one because the second mishap of
a kind meets states the first could have met. `kv_daemon` needs two turns for a
save to replace a row. The theorems hold for any bounds.

*Graph runs.* A pipeline touches the row of its own key and nothing else but the
ingestion sequence. Two overlapping calls and an abort or a failure in any place
give three pipelines on one row, one of them overtaken twice. `MaxAttempts` is
never reached: with overlaps and mishaps bounded a run takes at most four
attempts, and a pipeline stuck at the bound would break `ResumedRunsComplete`. With
one key the order of acceptance has nothing to order: that part of
`ImplementsPromise` was checked with two keys and two pipelines (70,089 states), and is
proved for any number.

*Graph.* The six records are about people with the same first name, a person and a
company with one name, a speaker, facts that are repeated, unspecific, or do not
name anybody; the queries name one, two or none, or give subject and speaker. A
publication is one transaction, so only the order and the order of random ids vary.

*Ingest.* A message that comes alone or with a second one, a second one that always
comes with the first, and requests without candidates: equal sets, overlapping sets
and a set the lock knows nothing of. The first may say two things; the second may be
worded in two ways, one of which is a memory the first can make too. A second mishap
can meet the repetition of the request the first one ended.

*Case store.* The properties are about one document, the worker and the rebuild are
one each; two mishaps are a step of the worker that fails and a `fail_task` or a
recovery that fails after it; a second task is the update or rename of a document while its first task
runs. The theorems hold for any number of documents, paths and requests, and the
invariant they rest on was also checked with two requests and two paths.

*Sessions.* Three principals with one session each and two in all is the smallest
place where the two limits differ; three requests are two that race and one whose
session they are about. *Confirmations.* A document is uploaded, changed and deleted
by three tokens; one principal, since calls of different principals meet only in the
library, and three calls, which is what two guards of one token need to let two calls in.
The theorems hold for any number of principals and calls.
*Pipeline.* Two windows are one that is cached and one that is not; a memory that
comes twice, from two quotes, is there. *Functions.* The inputs are those at which
the code branches, and are listed with their reasons in `MCAlgorithms`.

Principals, requests, sessions, chunks, handlers are interchangeable, so safety runs
use symmetry; runs that check liveness do not.

### What is assumed of the environment

`RefcountExact` assumes that forks are ended with their id and that nobody hangs up: a
hang-up leaks references by design of the handlers, and what a fork_end without id
does is described below. `RefcountCovers` is what remains without either: a decrement
is never made twice for one reference. `StoreMatchesMemory`
assumes clients that wait for an answer before they send the next event of a session, and
statements that do not fail. `PinnedRowsStay` assumes neither, and excuses a close that is
blind to the pin; with serial clients and no failing statement there is none, and the row
stays (`SerialPinnedStay`). The properties of `case_confirm` hold for any
`max_in_flight_per_principal_tool`, and its run has the default of 4; each excuses what two
calls that overlap on one token can do, and `OneExecution` says when they can: only after
a call with that token was told to try again. `OutputStays` excuses a run with
`--no-fail-fast` that passes over an entry of the cache it cannot read, and takes it that an
entry that is there is found to be (`Path::exists`). `ReleasedChunksLeave` excuses a chunk whose evict failed or was
abandoned: the code never repeats one. `TasksSettle` excuses a lost index, files
that cannot be parsed, whose tasks go round for ever, and tasks left behind: when the
recovery itself fails it is logged and the worker goes on (`ingestor.rs:168`), and when the
index is missing it is not asked for, so a task may stay running or failed until the next
error or restart, which may never come. `NoForgottenDocument` has no such excuse: the task
is still there to be recovered. `RebuildGateOpens` needs no
excuse: a panic reports as well.

### Fairness

`KvManager`'s `FairSpec`: a request under way goes on, every call to the backend is
answered or times out, a finished request returns. The tokio runtime is
multi-threaded, its mutexes are first-in first-out and held for bounded work,
and the client has a timeout on every call. Nothing is assumed of clients or of
late calls.

`GraphRun`'s `FairSpec` asks that pipelines go on, which the runtime's threads and
the timeouts of the clients justify, and that a caller who keeps asking to
resume an incomplete run is let in (strong fairness of `Retry`: in between,
other pipelines may be at work and use up the overlaps; the ingest lock a caller
waits for is first-in first-out). `ResumedRunsComplete` rests on the bound on
overlaps: pipelines that resume one another for ever never finish, because a
resume takes a run that is at work back to its start.

`MemoryIngest`'s `FairSpec` asks that requests under way go on (every provider has a
timeout), that a request that waits for its lock gets it (the mutex is first-in
first-out), and that a client who keeps repeating a request with the recorded
contents is let in (`Repeat`, strong). Mishaps are bounded, or repetition could fail
for ever.

`CaseStore`'s `FairSpec` asks that each request under way, the worker (a loop that
polls), the rebuild's task and a search under way go on. Nobody has to send a
request or start a rebuild, and nothing has to fail. `MemoryPipeline`'s asks that a
program that runs goes on; nobody has to start it again.

### Deadlock

`CHECK_DEADLOCK FALSE` is in the runs whose bounded counters run out (`case_store`,
`case_delete_spares`, `case_confirm`, `mcp_sessions`, `pipeline`) or which end by
nature (`graph_facts`: all is published; `algorithms`: one step gives the result). In
these there may be nothing left to do because no token, task, session or start is
left; that those under way do end is `TasksSettle`, `RebuildGateOpens` and `RunEnds`.

### Known disagreements that are not run

The models contain these orders of steps, found while building them:

- A `fork_end` without id that comes between the insertion of a fork and its count
  gives back references nobody took (`manager.rs:449`), so a shared chunk may be
  decided to be evicted.
- An evict is sent after the locks (`manager.rs:241`): a chunk referenced again in
  between is removed all the same. A fork copies its parent's hashes two locks before
  it counts them (`manager.rs:428`).
- `on_snapshot_restore` starts the count of turns again (`manager.rs:314`), and registers
  a list read before the lock.
- A `turn_end` whose save comes after a `session_close` leaves the row of a session that
  is gone (`api.rs:147`); two overlapping `turn_end`s may store the older turn last
  (`api.rs:141-147`); a `session_suspend` may pin a row between a `session_close`'s look
  at the pin and its delete (`api.rs:161-167` against `session_store.rs:160`), and a look
that fails deletes a pinned row (`session_store.rs:178-186`); a restart
  brings a suspended session back with its references (`main.rs:178` against
  `snapshot_restore.rs:40`); a fork id used across a restart releases another fork
  (`manager.rs:110` against `:424`).
- An ingest that fails after it stored, and is repeated, may store the memory a second
  time in other words (`service.rs:373`). A memory two ingests make of two messages
  keeps the evidence of the second only (`sqlite_store.rs:328` against
  `ram-a-mem-configuration-and-pipeline.zh-CN.md:643`). A memory the grounding answer
  leaves out counts as not supported (`parse_grounding_results` in `grounding.rs`
  against the same guide, 609).
- A document whose ingestion fails is put back as pending and leased again before
  younger tasks, so one that cannot be parsed keeps the others waiting (`ingestor.rs:168`
  against `ram-a-mem/README.md:438-440`).
- With several calls of a tool in flight for a principal, as is the default, a token may be
  carried out twice (`ram-a-mem/plugins/mcp/README.md:29` and `ram-a-mem/README.md:499`
  call it one-time, `ram-a-mem/README.md:539` single-use): a call fails and makes the token
  available again, a second call begins it, then the guard of the first is dropped and makes
  it available once more (`case_service.rs:310`), and a third call begins it beside the
  second. The run reaches this; `OneExecution` says that there is no way to two calls without
  a call that was told to try again.
- A worker whose recovery fails leaves a task running, and goes on to the next
  (`ingestor.rs:168-176`).
- From a `top_k` of 51 on, a filtered search looks at fewer than ten times as many
  memories as it was asked for, since the cap of 500 comes first (`service.rs:1097-1103` of
  memory-mcp): a memory that fits may be left out of an answer that is not full.
- An id is the store's and not a scope's: an addition with the id of another scope's row
  takes the row over (`sqlite_store.rs:328-334`).

## 4. Proofs

The coordinator, for all sets of sessions (finite), chunks and requests, any
bounds and switches:

- `TypeCorrect`: `DropSpec => []TypeOK`. `DropSpec` lets clients hang up at any
  await; the theorems that are about it hold without hang-ups too.
- `ForkIdsDistinct`: `DropSpec => []Numbering`. `Numbering` is inductive relative to
  `TypeOK`; its conjuncts about `fork_id` and `fork_inserted` carry the fact that
  the snapshot a request will count is still the one waiting for it.
- `CountsCover`, `CountsExact`: `DropSpec => []RefcountCovers`, `DropSpec => []RefcountExact`.
  The argument is bookkeeping on cardinalities: an operation moves one session or
  one snapshot in or out of the references of a chunk and the count by the same.
  `Numbering` is needed twice: a fork must not find its snapshot already recorded
  when it inserts it, and a fork_end by id must not find an uncounted one.
- `LeaksShow`: `DropSpec => []NoSilentLeak`, where every fork is ended with its id. The
  step that takes a count to zero chooses the chunk to be evicted, and what a
  `turn_end` makes resident and does not count anew was named by its session before,
  so that by `RefcountCovers` it is counted. It holds with hang-ups too.
- `LedgerImplemented`: `Spec => ImplementsLedger`, under the same assumption. A chunk
  is held when its count is positive, by `Exact`, so that what an operation takes to
  zero is what loses its last holder in `ChunkLedger`. Holders of forks are numbered,
  and `IdsFit` says that each fork still to be numbered finds a number among
  `1 .. MaxForks`; `RInv` is `TypeOK`, `Numbering`, `Exact` and `IdsFit`.
- `EvictionsSafe`: `DropSpec => EvictsUnreferenced`. A request is only told to evict
  what `decrement_refcounts` returned, whose count the step took to 0; where
  counts are exact, a chunk with count 0 is named by no session and only by forks
  that owe their increment (`ZeroIsFree`).

The assumptions are those named in `KvManager`: sessions are finitely many, the
switches Boolean, the bounds natural numbers.

The daemon, in the same module `KvProofs`: `DaemonTyped`, `CountsCoverInDaemon`
(`RefcountCovers`), `CountsExactInDaemon` (`CountsSurviveRestart`), `PinnedStay`
(`PinnedRowsStay`), `SerialPinnedStay` and `StoreMatches` (`StoreMatchesMemory`). A step of the daemon is
for the coordinator a step of `DropNext` or a stutter, except a `fork_end` with an id of
an earlier process, a hang-up between two of a handler's calls and a restart, so the lemmas about the
coordinator are used again and only these are new (`CountsInv`: a
stale id may end a fork before it is counted, whose count then stays too high, but none gets
too low by more than forks still owe). A close about to delete a
pinned row is blind (`ClosesKnow`): it looked when there was no pin, and whoever pinned
since came while it was under way, or its look failed. With serial clients a session has
one handler at a time (`OneEach`), so nobody comes, and `SerialPinnedStay` follows; and
the row agrees with the memory except while a handler is between the two, when `Known`
says what the handler has read and has yet to write. `StoreMatches` is for clients that do
not hang up and statements that do not fail; both are conditions of the property.

Graph runs, for all sets of keys, inputs and pipelines and any bounds, in
`GraphRunProofs`: `TypeCorrect`, `OneOwnerAtATime`, `NumberStaysFree`,
`OwnExtraction`, `PublishedWhole`, `FinalOnceCompleted`. None of the properties
is inductive: that the row names an attempt says nothing of what an overtaken
pipeline holds. The invariant `IInv` adds, for each key, that no claim is ahead
of the row's attempt, that claims of the row's attempt are not ahead of its stage
(`ClaimsInOrder`), that extraction numbers are distinct and an owner's number is
above them (`Numbered`), and what each stage left behind (`Progress`). A step
touches one key; `Unaffected` carries the invariant of the others, and of its own
where no row changes, since fewer claims only make it easier. Then there is one
lemma per statement, such as `ClaimInv`: the new attempt is above every claim, so
only the claimant has a part in it.

`PromiseImplemented`: `Spec => ImplementsPromise`, for the same constants. By `IInv` the
attempts a graph is made from can be told from the row: the last one if it is
completed, none otherwise (`GraphsOfRows`), so a step of `GraphRun` maps to what it does
to the row of its key (`RowStep`) and the stages in between to stutters. `Placed`, that
an accepted run is below the sequence numbers to come, keeps the order of acceptance.
`FinalOnceCompleted` (`CompletedIsFinal`) adds that the numbers behind the promise, the
stage, the sequence and all rows of extractions, stay as they are too.

The assumptions are that pipelines are finitely many, that `NoKey` and `NoInput`
are no key and no input, and that the bounds are natural numbers.

The graph, for any records, bounds and queries, in `GraphFactsProofs`: `GraphSaysIt`
(`GraphIsWhatWasSaid`). `GInv` has the types, that entities differ by name and kind, that
an alias is its entity's own name, that facts differ and name entities that
exist (`EntitiesDiffer`, `OwnNames`, `FactsDiffer`, `FactsNameEntities`), and
both directions of the property: evidence is of a record that says the fact
(`EvidenceSaysSo`), what a published record says is stored with it as evidence
(`AllIsStored`), and no fact is without evidence (`NoFactAlone`). A publication is a
fold over the entities and facts of a record. The induction theorems of the library are
out of reach (they take an operator), so a fold is turned into the function of
positions it is defined by, and the induction made by hand: were there a
position at which the statement fails, there would be a least one
(`LeastNumber`, from well-foundedness of the natural numbers).

What a query gets back, for any queries and limits besides: `MatchesAreNotLost`
(`MatchesAreFound`) and `AnswersKeep` (`AnswersKeepToTheTarget`). Both need of `GInv`
only what the rows are made of (`RowsFit`); the rest is about the functions of `Retrieve`.
`Sorted` counts: the position of a row is one more than the number of rows before it. By
the order these ranks are an injection into the numbers up to the size of the
set, hence onto them, so sorting loses nothing and doubles nothing (`SortedIs`), and the first
few of a sorted set are all of it if it is small and some of it if it has any
(`TopOf`, `Takes`). Every list of seeds `Takes` what matches, so does what is merged of them
(`SeedsMatch`, `SeedsAre`), and nothing else gets into the answer while there is any. For the
speakers in a query, that the choice of spans is possible at all is an induction over its
places (`KeptExists`); of two that are kept the later overlaps no earlier one, and one
that shares its name with another speaker is not the longest alone (`LongestIsOne`).

Assumed: `RecordsAreExtractions` and `QueriesAreTexts`, that texts and the parts of a record
are sequences, and `LimitsAreValidated`, that limits are positive
(`retrieve_context_sync` refuses zero).

Ingest, for all sets of messages, contents, memories and requests, any readings and
any batches, in `MemoryIngestProofs`: `TypeCorrect`, `WholeAnswers`,
`CoveringAnswers`, `ContentReserved`, `LockSuffices`, `FinalAnswers`. Answers are
made in the last step of what the stages before it left, so `IInv` carries each
stage's part until then: what a request reserved has a row with its content
(`ReservedRows`), its evidence is a reading of its candidates (`EvidenceFits`),
its memories are stored before their graphs and the graphs built before the
answer (`StoredFirst`, `GraphsFirst`). These survive the steps of other requests
because rows, records and graphs only grow (`Grown`): that is what replaces a
common transaction. `LockExclusive` says the lock is a lock, and `PendingAtWork`
that where batches do not overlap nobody else answers a message in the meantime;
`FinalAnswers` follows from it step by step. Assumed: batches are sets of messages,
`NoContent` is no content, readings are sets of memories, the switch is Boolean,
the bound a natural number.

The batch program, for any number of windows, any set of answers, any numbers of
attempts and bounds, in `MemoryPipelineProofs`: `PipelineTyped`, `NothingLost` (the
run's `EveryMemoryAccounted`), `CacheFirst` (what a run uses is what the cache holds),
`OutputKept` (`OutputStays`). `PInv` says of the windows the loop has left that nothing
is lost (`LeftWhole`) and that it went by the cache (`LeftByCache`), of the window at
hand what was validated (`AtHand`), of those ahead that there is no trace
(`Ahead`), and of an answer on its way to the cache that it is to the call at hand
(`AnswerFits`), which the cache could not answer (`Missed`). `OneAnswer`, that the
cache answers a call in one way, is what makes the output of a later run the same.
Assumed: `PipelineAssumption`.

The HTTP door, for any principals, finitely many requests, any limits, in
`McpSessionsProofs`: `TablesTyped` and `NobodyPassesALimit` (`LimitsKept`). `SInv` adds
where a request can hold what (`Good`), that reservations and permits are those held
(`ReservationsCounted`, `PermitsCounted`), and that what is active and what is reserved
are within the limits together (`CapsKept`). A step changes one request: `OneChanges`
and the counting lemmas after it turn that into one more, one less or the same.
`IdsAreOfRequests` (`IdsKeptApart`) and `NoSessionIsLost` (`SessionsAreSomeones`) rest on
`KInv` besides: ids are in flight for sessions there have been only (`Bounded`), a
session about to become active is nobody's yet (`Fresh`), and one that is being closed
has stopped being active for good (`Gone`), so no id can be registered behind the back of
the request that drops them.

Confirmations, for any principals, finitely many handlers, any number of calls in flight and
any bounds, in `CaseConfirmationsProofs`: `ExecutedOnceAtATime` (`OneExecution`), `UsedUpForGood`
(`UsedUpStays`) and `AnswersTrue` (`AnswersAreTrue`). `CInv` follows the mark of a token: until
a call with it was told to try again every call that holds it works on it and it is marked
(`Marked`), so nobody else begins with it; two calls work on one token only once it is
`overlapped` (`Alone`), which by `Marked` needs that it was `retried`. A token marked as
executing is worked on (`ExecutingIsHeld`), one that is used up is staged no more and worked
on only if it was overlapped (`UsedUp`), and tokens to come are fresh (`Fresh`). `AnswersTrue`
needs that a change that was carried out can be told from the library, and one that was not
cannot: `AInv` says that tasks and handlers past their change are on the log (`Logged`), that
the change made last still shows unless it was overlapped (`LastShows`), that an upload or
update about to be made has no task yet (`Unmade`), and that what was made twice in a row was
overlapped (`NoRepeat`). Assumed: finitely many handlers, natural bounds, and that `None` is
no principal, no token, no state of a task and no change.

The case store, for any documents, paths, contents, finitely many requests and any
bounds, in `CaseStoreProofs`: `NobodyForgotten`, `IngestedCurrent`, `ReplacedWhole`, which
are the safety properties of `case_store`. `SInv` has the types, what a request knows
(`RequestsKnow`), that nobody is at work while a rebuild holds its lock (`RebuildAlone`) and
that what it has collected is what the rows say (`Collected`). `TInv` has the room for
tasks, which the bound on tasks rests on (`Room`), what the worker knows (`WorkerKnows`),
and two statements that together replace the check `complete_task` does not make:
`RestIsCurrent`, a document without an open task has the chunks of its file, and
`WorkIsCurrent`, unless the document has another open task the worker is at work on the
file the row names and on what it holds. A change of the document adds a task the worker
is not at work on, so both are vacuous until that task is its own. `Untouched` says what
a step may do to a document without undoing any of this; there is one lemma per action
for the others. `SInv` and `TInv` are one induction, since the types of the worker's steps
need `WorkerKnows`. Assumed: the named assumptions of `CaseStore`, among them that `None`
is no row and no task.

Each property above that no run names was checked by TLC before it was proved: `TypeOK`
of the modules with proofs, `Numbering`, `EvictsUnreferenced`, `OneAtATime`, `OneContent`,
`ExtractionNumberFree`, `ResolvesItsExtraction`, `CompletedIsFinal`, `RunAgreesWithCache`. So were the
inductive invariants of sessions (`KInv`), confirmations (`CInv`, `AInv`), the daemon
(`OneEach`, `ClosesKnow`, `StoreInv`) and the graph (`GInv`), on the instances of their
runs.

Model-checked only, and why:

- Liveness: `ReleasedChunksLeave`, `ResumedRunsComplete`, `RepeatedIngestCompletes`,
  `RunEnds`, `RebuildGateOpens`, `TasksSettle`. Fairness and `ENABLED` are out of the
  prover's reach.
- The seven properties of `Algorithms`: what the functions return goes through `SortSeq`,
  `SelectSeq` and `FlattenSeq`, which the prover knows by name only, so that not even an
  induction made by hand reaches what they compute. `GraphFacts` sorts by `Sorted` instead.
- `DeleteSparesOthers`, which is violated.

## 5. Not modelled

- Payload validation, authentication, rate limiters, read-only events and listings,
  `trace_events`, metrics, configuration, the HTTP routes: they refuse or read before
  anything changes.
- `query` and the UCM client, whose evict is a no-op: with UCM, chunks leave by
  the engine's own policy. The SDKs and plugins are the environment of the models.
- Rows that cannot be read back, and a store that cannot be opened.
- Repetitions and order of a hash list (passed through to the prefetch).
- Datasets and templates of the case store, which are created and deleted as rows; the
  model has one dataset that stays. The business database is never lost.
- Two processes on one database, which `http-mcp-deployment.md:297` excludes.
- The tokenizer, prompts, what a model says and how JSON is repaired: a choice of
  answers instead. Vectors, BM25 and floating point: orders and exact fractions instead.
- Run ids of idempotency rows, counts of rejected candidates, metadata that differ
  for one memory with one evidence.
- Benchmarks and evaluation scripts, which measure.

## 6. Plan

Done: the coordinator and its refinement, the daemon, graph runs and their refinement,
ingest, the pipeline, sessions, confirmations, the case store, the graph and the functions.
Proved: every safety property of the runs except those over functions, and both
refinements.

Next, in this order:

1. Proofs over functions: `Retrieval`, `Records` and `Chunks` written with `Sorted` and
   functions of positions, as `GraphFacts` is, so that the lemmas of `GraphFactsProofs` about
   them apply.
2. An abstract specification of the case store: a library whose documents change in one
   step, implemented by `CaseStore`.
3. Compositions: `MemoryIngest` with `GraphRun` in place of its graphs;
   `CaseConfirmations` with `CaseStore` in place of its library.
4. Datasets and templates of the case store.
