# A verification development for the Signet daemon

Signet keeps an agent's memory: a local daemon (`packages/daemon`) stores
memories in SQLite, extracts facts from them with an LLM in the background,
ingests documents, builds an entity graph, and answers recall requests. The
specifications here model the parts of the daemon that run concurrently and
survive crashes: its durable job queues and the workers on them, the memories
and the vector index and entity graph that follow them, sessions and their
checkpoints, scheduled tasks, and what the file watcher sets off. They are
checked with TLC on small instances, and the central invariants are proved with
TLAPS for all values of the constants.

All paths below are relative to `src/`; `daemon/` is `packages/daemon/src/`.

## 1. The system

The daemon is one Node/Bun process with one SQLite database. Its code runs on
one event loop: a stretch of code without an `await` is atomic with respect to
every other callback, and a write transaction (`withWriteTx`) is atomic with
respect to a crash. Everything that is hard follows from three facts: workers
await LLM, embedding and HTTP calls between reading a row and writing it; more
than one timer, request or worker writes the same row meanwhile; and the process
may die between two transactions.

| component | state | operations | what makes it hard | what makes it correct |
|---|---|---|---|---|
| extraction queue (`daemon/pipeline/worker.ts`, `stale-leases.ts`, `extraction-fallback.ts`) | `memory_jobs` rows of type extract, `memories.extraction_status` | enqueue, lease, complete, fail, dead-letter, reap, recover | attempts that outlive their lease; failures at each step; two limits on attempts | facts written at most once, settled results stay, every job settles |
| extraction worker timers (`worker.ts`) | `pollTimer`, `inflight`, `overloaded`, `lastSuccess` | tick, re-check under load, watchdog, nudge, stop | several callbacks arm one timer | exactly one chain while running, none after stop |
| document ingest (`document-worker.ts`, `/api/documents` in `daemon.ts`) | `documents`, `document_memories`, jobs of type document_ingest | submit, lease, fetch, chunk, embed and index, complete, fail, DELETE | ticks overlap; chunk transactions; content replaced meanwhile | done means indexed; no document is left behind |
| chunking (`chunkText`) | loop variables | one call | overlap against window size | terminates, covers the text |
| connectors (`daemon/connectors/`) | `connectors.status`, cursor | full and incremental sync | `syncing` is never reset after a crash | one sync at a time, and always a next one |
| repair and maintenance (`repair-actions.ts`, `pipeline/maintenance-worker.ts`) | rate limiter map, audit rows | requeue dead jobs, release leases, re-embed, clean up | runs beside the workers | within cooldown and budget, breaks no queue |
| retention (`pipeline/retention-worker.ts`) | all tables | sweep: links, embeddings, tombstones, history, jobs | several transactions; deletes rows others hold ids of | only what is expired goes |
| memory store (`transactions.ts`, `db-accessor.ts`) | `memories`, `memory_history` | ingest, modify, forget, recover with version checks | concurrent edits, dedup races, repairs that look at no version | a version names one content, one live memory per content and scope |
| embedding tracker and vector index (`embedding-tracker.ts`, `db-helpers.ts`) | `embeddings`, `vec_embeddings` | poll, fetch, write | content changes across the fetch, four writers | what is live is embedded, what is purged is not |
| entity graph (`pipeline/graph-transactions.ts`, `inline-entity-linker.ts`, `knowledge-graph.ts`) | `entities`, `memory_entity_mentions`, `relations` | upsert, mention, decrement, delete | counters kept by hand in several places; foreign keys are off | a count covers its links, nothing dangles |
| summary worker (`pipeline/summary-worker.ts`) | `summary_jobs` | enqueue, lease, reuse result, fail, recover in batches | recovery beside attempts of a stopped worker | completed jobs stay completed, every job settles |
| scheduler (`scheduler/worker.ts`) | `scheduled_tasks`, `task_runs` | poll, lease, spawn, finish | hand-triggered runs; processes that outlive the daemon or ignore a signal | one running row per task, the limit of the polls, due tasks run |
| session tracker (`session-tracker.ts`) | claims, bypassed, warned | claim, renew, release, bypass, expire | expiry noticed in seven places | one runtime path per session |
| transcript deltas (`hooks.ts`, `/api/hooks` in `daemon.ts`) | `session_extract_cursors`, `session_transcripts` | checkpoint extract, compaction, session end | job and cursor are two transactions; compaction starts a new transcript; the summary worker stores its job's text over it | no part skipped or extracted twice |
| continuity (`continuity-state.ts`, `session-checkpoints.ts`) | pending notes, write queue and its timer, `session_checkpoints` | prompt, remember, pre-compaction, extract, end, flush | four writers of one session's rows, one timer for all sessions | no note lost or kept twice |
| single flight (`single-flight-runner.ts`) | `running`, `rerunRequested` | execute, request | request while a run ends | no request lost, no two runs |
| watcher, harness sync, auto-commit (`daemon.ts`) | two timers, `commitPending`, files, git | change, debounce, compose, commit | files change while they are read; a debounce ends during a commit | the last edit gets everywhere |
| skills (`pipeline/skill-graph.ts`) | entities of type skill | install, read, uninstall | a skill adopts an entity of its name | uninstall leaves nothing behind |
| update system, auth, providers, recall, predictor, clients | see section 6 | | I/O, pure functions, or read-only | |

How they interact. The remember handler inserts a memory, awaits its embedding,
then enqueues a job (`queueExtractionJob`) or dead-letters it when no provider
passed the startup preflight. The extraction worker leases the job, reads the
memory, awaits the LLM, and commits facts, job and status in one transaction.
The document worker leases from the same table with its own query. The reaper,
`requeueDeadJobs`, `releaseStaleLeases`, startup recovery and the retention
sweep act on all rows of the table, whatever their type, and tell neither the
memory nor the document a job belongs to. `restartPipelineRuntime` stops and
starts all workers without restarting the process; the extraction worker's
`stop()` awaits its tick, the document worker's and the summary worker's do not.

The session hooks claim, renew and release a session in memory, note what was
said, and enqueue parts of the transcript as rows of `summary_jobs`, which the
summary worker works off; when it has done one, it stores the job's text as the
transcript of the session, which a checkpoint without a transcript reads. A remember request ends with three transactions that
each follow an await or precede one: the memory, its vector, its entity links.
The extraction worker, the embedding tracker, the repairs and the retention
sweep write the same vectors, links and counts.

`PROJECT.json` lists each of these, what is not modelled and why, and under
"hazards" the lines at which things can go wrong in ways a test hardly reaches.

## 2. The modules

| module | models |
|---|---|
| `JobTable` | a row of `memory_jobs` and the SQL statements on it: lease, complete, fail, dead-letter, reap, recover, requeue, purge, and the thresholds its timestamps cross |
| `ExtractionQueue` (extends `JobTable`) | remember, enqueue, the attempts of the extraction worker, reaper, repair, sweep, pipeline start, pause, block, stop and crash |
| `ExtractionPromise` | the abstract specification: the facts of a memory are written at most once, and never for one that reads as extracted |
| `DocumentIngest` (extends `JobTable`) | submission, update, DELETE, overlapping attempts chunk by chunk, and the daemon's actions on their jobs |
| `WorkerTicks` | the timer discipline that lets `ExtractionQueue` have a single attempt at a time |
| `Chunking` | the loop of `chunkText` |
| `MemoryIndex` | `memories`, `embeddings` and `vec_embeddings` under requests, pipeline, tracker, repairs, sweep and crash |
| `EntityGraph` | `entities`, mention links and relations under requests, extraction, skills, chunk groups, prunes, sweep and crash |
| `SessionTracker` | the calls of the session tracker on one session's entry |
| `SummaryJobs` | a row of `summary_jobs` and the SQL statements on it |
| `SessionLifecycle` (extends both) | the hook routes, the cursor of checkpoint extraction, and the summary worker with a job left in the hands of one that was stopped |
| `Continuity` | pending notes, the queue of checkpoint writes and its timer, `session_checkpoints` |
| `Scheduler` | scheduled tasks, their runs and processes |
| `WorkspaceSync` | the watcher's two debounces, the single-flight runner with the harness sync it runs, and the git auto-commit |
| `MCExtractionQueue`, `MCExtractionProgress`, `MCDocumentIngest`, `MCMemoryIndex`, `MCSessionLifecycle`, `MCContinuity`, `MCEntityGraph`, `MCScheduler` | instances for TLC: symmetry, constants, and the slices of section 3 |
| `ExtractionQueueProofs` (with `WorkerTicks`), `DocumentIngestProofs` (with `Chunking`), `MemoryIndexProofs`, `EntityGraphProofs`, `SessionLifecycleProofs`, `ContinuityProofs`, `SchedulerProofs`, `WorkspaceSyncProofs` | the theorems of section 4 |

### JobTable

A row keeps status, attempts and, of each timestamp, only what the WHERE clauses
can tell: `leased_at` is fresh or expired (lease timeout); `failed_at` is recent
(inside the retry backoff), cooled or old (dead-job retention passed);
`completed_at` recent or old; `created_at` is a number, for the lease queries
order by it. `LeaseAges`, `BackoffEnds` and `RetentionEnds` let time pass.
`max_attempts` is one constant, since every INSERT of the daemon writes 3;
`MaxRetries` is `worker.maxRetries` of the configuration, used by the lease
queries and startup recovery.

### ExtractionQueue

`extraction` is `memories.extraction_status` ("complete" and "completed" are
treated alike by all readers and are one value; "gone" is a purged row).
`request` is the remember handler between its two transactions, `attempt` the
attempt in flight: stage "leased" is the stretch between the lease transaction
and the first await, in which only a crash can intervene (`Yielded`), stage
"awaiting" stands for all LLM and embedding calls. `CommitExtraction` is the
write transaction; its `target` is the memory an accepted update decision
rewrites, which then reads as completed too. `FailExtraction` is any exception
caught by `tick`, `LoseAttempt` an exception while recording that. `LateFailure`
says whether the database read after the write transaction that no try of its
own surrounds (`worker.ts:1411`) may throw; `CommitThenFail` is that case. It is
an assumption of three of the theorems that it does not, because after it the
code really does retry a job whose facts are committed. Modes of the daemon:
running, stopping (awaiting the attempt), paused, blocked (no provider), down.

One extract row per memory is enough: ids are fresh, each is queued by the
request that created it, and `EnqueueExtractionJob` and
`DeadLetterExtractionJob` are applied only when the request has not queued yet.
`factWrites` is a history variable. Memories with a structured payload never
enter the queue and are outside the model.

### DocumentIngest

`status` merges extracting, chunking, embedding and indexing, which no code
tells apart, into "ingesting". A text is the sequence of its non-blank chunks, a
chunk its content hash. `attempt[s]` are the attempts in flight: up to
`MaxOverlap`, for the interval starts ticks without waiting. An attempt is at
the stretch before its first await ("leased"), in `fetchUrlContent`
("fetching"), in the embedding of the next chunk ("embedding"), past the last
one ("indexed"), or between the transaction that then writes the status
(`SetIndexing`) and the one that completes document and job ("finishing").
`SetIngesting` is every status an attempt writes on its way: the first time right
after the lease, later after an await, without a look at the lease or at the
status it overwrites. `Conflict` is the unique index on `content_hash` and scope;
chunks are of one scope. `IndexChunk` is one chunk's transaction;
`FailIngest` a failure at any of the awaits or transactions.
DELETE runs in one stretch without an await but in one transaction per memory;
`DeleteFails` is the case where one of them throws.

`ingested` (the text last completed with), `torn` (a DELETE cut into it, or
failed half way), `forsaken` (documents an error, a crash or the purge of
their dead job gave up) and `reopened` (documents that were done, failed or
deleted when a late attempt put them back into progress) are history variables. Forgetting a chunk's memory
through the memory API is outside this model.

### WorkerTicks

Timer handles; which are armed, which were armed to look at the load again,
which callbacks await their tick; and the worker's `pollTimer`, `inflight` and
`overloaded`. All armings are modelled: `scheduleTick` from its own callback,
the re-check under load, the watchdog, `nudge` and the start. A tick settles
whatever it meets, for its body is wrapped in a try. `stop()` continues right
after the callback it awaits with, which is why `SettleTick` does both.

### Chunking

`chunkText` is a state machine with one action per turn of the loop and
arguments chosen at the start from the ranges the configuration allows:
`memory-config.ts` clamps the window and the overlap separately.

### MemoryIndex

A content stands for its hash. `row` is the `memories` table; deletion times are
kept as ages in days, which is what the recover window and the retention compare.
`emb` is `embeddings` with `vec_embeddings`, keyed as the table is: by the hash,
or by `hash:scope` when a remember request with a scope wrote it. Each of the
writers of vectors (the remember request, an edit or a fact of the pipeline, the
tracker's cycle, the re-embed repair) asks the provider first and writes later:
`asked`, `batch` and `repair` hold what they wait for, and the write does
what its SQL does with whatever the rows are by then. The answers of a batch may
be any of its entries, in any order. The tracker takes the `BatchSize` stale
memories that were changed last; `newer` is the order of `updated_at`. The clause
of its query that compares embedding models is left out. The repairs that forget without a version
(`forgetDeadMemories`, semantic duplicates) are `ForgetQuietly`. The sweep is two
transactions, with a crash in between. A day passes only when nothing is being
awaited, for a request takes minutes.

### EntityGraph

Entities are their canonical names, plus one id for each chunk group; one agent.
`Mention` is what both ways of naming an entity share: the row is found or
inserted once per mention, its count raised each time, and its source linked once.
`linking`, `extracting` and `installing` are the awaits between a memory (or a
skill) and the transaction that links it. The sweep's two relevant transactions
are one action whose second half may be missing. An existing entity that a skill
takes over is "typed": nothing tells it from one that was typed otherwise, which
is why uninstalling does not find it. Foreign keys are off
(`db-accessor.ts` never turns them on), so a statement deletes only what it names.

### SessionTracker, SummaryJobs, SessionLifecycle

`SessionTracker` and `SummaryJobs` have no variables: they are the calls on one
session's entry and the statements on one row. `SessionLifecycle` puts them into
the order of the routes. A transcript is counted in parts of 500 bytes, the least
a checkpoint extracts; `epoch` says which transcript (a compaction starts a new
one); a job's text records the parts it carries and where the transcript ended,
so that a text cut off by the cap is told from one that was skipped. `stored` is
the session's row in `session_transcripts`, with what its text is made of: prompts,
checkpoints and ends store what they were given, a compaction deletes it, and the
worker stores the text of its job over whatever is there (`StoreTranscript`,
`summary-worker.ts:723`). `flaws` are the lapses nothing notices: the cursor is
"stale" after a compaction until its reset, "behind" after a write or read of it
was lost or a checkpoint came between the halves of a compaction, and "restored"
once it counts the parts of a text from the store that is not the present
transcript from its start. The summary worker leases nothing while `leasing` is
false (pipeline disabled or in shadow mode, read at every tick), though the hooks
enqueue all the same. It writes the summary, awaits the scores, stores the text and
completes the job in separate steps, and has two hands: `current`, and `left`, the job of a worker that was stopped without
waiting and is still being worked on. Recovery may throw: then its timer is not
set again, and what is left in processing waits for the next start.

### Continuity

A note is what a prompt or a remember adds to the pending state of a session;
notes are numbered, so losing, repeating and reordering can be seen. Four hooks
turn pending notes into checkpoints: a prompt queues one, the other three write at
once. `queued` and `timer` are the write queue that all sessions share. `lost`
is a history variable: the notes that a failed write, a cap, the retention, a
shutdown or a crash dropped, as the code does at that place.

### Scheduler

Rows of `task_runs` are read only while they are running, so those of a task are
counted by what has become of their process: started by the poll, started by
hand, or without one (`stuck`). Times are an order: `due` is the set of tasks whose
`next_run_at` is over, `before` which of two of them is the earlier. A task that is
deleted keeps its row and its process. `deaf` are the tasks whose process neither
ends nor heeds SIGTERM, which is all that `spawn.ts` ever sends. A restart fails all
running rows and leaves the processes alone (`survived`): nothing calls the worker's
`stop()`, whose handle is only ever assigned (`daemon.ts:12347`), and a crash would
not. The early return of `executeTask` for a cron expression that cannot be computed
is left out: the expression is validated when it is stored (`daemon.ts:7409`, `7487`),
and the `next_run_at` by which the task is due was computed from it.

### WorkspaceSync

A file is the number of its edits. The run of `syncHarnessConfigs` reads AGENTS.md
and then the others one by one, while they change; `SingleFlightRunner` decides
when it runs again. The auto-commit is its chain of child processes. History
variables: `incomplete` (the last run failed or left a file out) and `lapsed` (a
commit was dropped or failed since the last `git add`).

## 3. What is checked

| run | instance | shows |
|---|---|---|
| `extraction_safety` | 2 memories, 2 attempts, 1 crash, 1 requeue; symmetry | attempts within the limit; settled statuses; completed is final; implements `ExtractionPromise` |
| `extraction_progress` | failures also after the commit; slice "alone": 1 memory, 1 crash, 1 requeue; slice "rivals": 2 memories found queued at boot after a crash; fair | every live job settles if the pipeline keeps running |
| `document_ingest` | slice "alone": 1 document, 2 texts that share a chunk, 2 rows, 2 overlapping attempts, an edit, a loss, or a requeue; slice "sharing": 2 documents with a chunk in common, one of them fetched | done means indexed, what an attempt has passed stays linked, nothing is lost |
| `worker_ticks` | 4 timer handles, fair | one unbroken chain, none after stop, polling resumes |
| `chunking` | texts to 14, windows 2 to 5, overlaps 0 to 6, fair | coverage, termination |
| `memory_index` | 2 memories in one scope or two, 2 contents, 2 changes of version, batches of 1, fair | one live memory per content and scope, a version names one content, nothing of a purged memory is left, all live ones that are not starved get embedded |
| `session_lifecycle` | 1 session, transcripts of up to 3 parts, cap 2, 2 jobs, 1 compaction; slice "hooks": all routes, 2 paths; slice "store": one caller, the worker, mishaps; slice "worker": 2 jobs, 2 attempts, batches of 1; fair | cursor covered, nothing extracted twice, claims hold, completed is final, all jobs settle |
| `scheduler` | 2 places, fair; slice "waiting": 3 tasks; slice "surviving": 2 tasks, up to 1 process of each that outlived a daemon | no task with two running rows, bounded processes, due tasks run |
| `workspace_sync` | 3 files, 3 edits, 1 failure or crash, fair | single flight, harness files and git catch up |
| `continuity` | slice "alone": 1 session, 4 notes; slice "sharing": 2 sessions, 2 notes; caps of 2, fair | notes accounted for, the end is the latest, the queue is flushed |
| `entity_graph` | slice "sharing": 2 memories, 2 names; slice "alone": 1 memory, a skill, a chunk group; 2 mentions of a name | counts cover links, nothing dangles, the sweep keeps what is mentioned |
| `auto_commit` | 3 files, 2 edits, no failure, fair | **violated**: see below |

A slice is a choice of initial states, or a restriction of the next-state relation
that a behaviour keeps from its start (`slice` in the MC module). It leaves out combinations of actors whose
states multiply without meeting, and each MC module says which. All actions are
taken in some slice; the theorems of section 4 speak of the whole specification.

Why the bounds are enough. The queues' statements touch one row, except the lease
(the oldest), requeue and recovery (a batch) and the sweeps, so two rows show the
interference there is. Batch sizes of 1 stand for 50 and 100, so that a batch
smaller than the rows that qualify occurs. Two attempts stand for three: there is
a first, a retry, and a last. `MaxOverlap = 2`: an attempt and one that outlives
its lease. Two contents and two changes of version let a memory be edited away
from what a writer awaits, and back. Three parts with a cap of two let a text be
cut off with something after it. A cap of two with four notes overflows, merges
and evicts. Two mentions of one name are one from each memory, or both from one.
Two places and three tasks leave a due task waiting. A batch of one and two
memories let one be passed over by the tracker; one survivor of a task is enough to
meet a new process of it. `HooksLength` keeps the transcripts of the "hooks" slice to two parts, so that
texts cut at the cap occur in the "store" slice; `WorkerJobs` bounds the rows of the
"worker" slice. Each property is broken,
within these bounds, by the faulty variant of some definition that
`PROJECT.json` names under "mutants" (marked "Faulty" in the modules).

Fairness, and why the code justifies it:

- `ExtractionQueue`: taking a job (the timer chain, which `WorkerTicks` shows
  unbroken), the attempt's steps (every provider call has a timeout), the reaper
  and the sweep (intervals), and time. Nothing is assumed of requests, repairs,
  success of attempts, or of the daemon: `LiveJobsSettle` speaks of runs in which
  the pipeline runs from some point on.
- `WorkerTicks`: timers fire, ticks settle; `PollsGoOn` speaks of a host whose
  load stays low from some point on. `Chunking`: the loop takes its turns.
- `MemoryIndex`: a sweep that has begun goes on (no await in it); the tracker
  cycles, and the provider at some time answers for a whole batch, if it is asked
  again and again (strong fairness: an edit may make a query unnecessary for a
  while, a crash takes a batch away). `KeepsEmbedded` excepts a memory that is
  starved: as many others as fill a batch were changed after it and are stale for
  good, since each has a row of another hash that nothing deletes.
- `SessionLifecycle`: the worker's two timers, and the end of each attempt. From
  some point on the worker must stay up and the pipeline enabled and out of shadow
  mode, and repairs must end.
- `Scheduler`: the poll's interval; a child process ends at its timeout if it heeds
  SIGTERM, and nothing is assumed of one that does not. `DueTasksRun` speaks of runs
  in which such processes do not hold all places for good.
- `WorkspaceSync`: change events arrive, timers fire, reads, writes and child
  processes end (the race of 30 seconds is around all of the chain but `git rm`, which is
  assumed to end by itself).
- `Continuity`: the flush timer fires. `DocumentIngest` and `EntityGraph` state
  safety only and assume none.

### Where code and documentation disagree

`auto_commit` is a run that TLC must find violated. `docs/CONFIGURATION.md:1011`
says that file changes are auto-committed after a debounce; the callback returns
when a commit is pending and nothing arms the timer again (`daemon.ts:10547`), so
a change noticed while git runs stays uncommitted until the next one.

The models show the following, too, on which no run is spent. Each property above
is stated so as to hold around them, by a condition or a history variable.

- Jobs of memories: `maxRetries` below 3 leaves a failed job pending until the next
  start rather than dead (`docs/CONFIGURATION.md:422`, `worker.ts:203`). A row that startup recovery dead-letters has no `failed_at` and
  is never purged. A crash between a memory's insert and its enqueue
  (`daemon.ts:3331`) leaves it pending for good.
- Documents: an attempt that outlived its lease takes a document that has been
  completed, failed or deleted since back into progress when its fetch answers, and
  again before it completes it (`document-worker.ts:405`); if it dies there, no job
  is left. `NoLostDocument` excepts these documents (`reopened`). DELETE while an attempt is
  in flight leaves what that attempt links afterwards (`docs/DOCUMENTS.md:131`). An
  update during a live job enqueues nothing and the old text is marked done
  (`docs/CONNECTORS.md:280`, `document-worker.ts:204`). The unique
  index refuses a second document that shares a chunk (`docs/DOCUMENTS.md:210`).
  The reaper dead-letters a job without marking its document failed
  (`docs/DOCUMENTS.md:238`). An overlap as large as the window drops all but one
  chunk (`docs/DOCUMENTS.md:175`).
- Vectors: what the tracker deletes of a memory's rows with another hash is their
  vectors; the rows stay (`db-helpers.ts:160`, against `docs/PIPELINE.md:713`), and the
  memory is stale for good. As many such memories as fill a batch starve those
  changed before them. Two memories of one hash in two scopes make the tracker replace the
  row of one by that of the other again and again (`embedding-tracker.ts:111`). An
  edit's vector goes in under the id of a row that was never inserted when the
  hash was taken (`transactions.ts:440`).
- Sessions: the worker stores the text of its job over what a compaction has cleared
  (`summary-worker.ts:723`, against `daemon.ts:6294`). A prompt has stored a transcript;
  a compaction saves its summary; a checkpoint without a transcript, before the reset,
  enqueues the old text; the reset clears store and cursor; the worker works off that
  job and stores its text; the next checkpoint without a transcript enqueues it again
  (against `hooks.ts:2657`) and moves the new cursor over parts that no job has. No
  write fails and nothing crashes in this behaviour. `session-end` ignores the claim; a checkpoint that is cut at its cap
  advances the cursor over what it cut (`hooks.ts:2740`); the bypass of an expired
  claim is lifted or inherited depending on who notices. Recovery of summary jobs
  runs beside the attempt of a stopped worker, and ends for good when its
  transaction throws (`summary-worker.ts:1594`). In shadow mode the hooks enqueue
  jobs that no tick leases.
- Continuity: pre-compaction and extract rows are written before an older queued
  one, which then is the newest; a shutdown flushes the queue but not what is
  pending; after a restart prompts are untracked until the next session start or
  checkpoint extract; an end after remembers only drops them, and so does an extract
  (`hooks.ts:2756`), though the session goes on; a start that ends
  after the session's end leaves it seen but untracked.
- Graph: repeated mentions raise a count that the sweep lowers once per batch, so
  entities that nothing mentions are never orphaned (`docs/CONFIGURATION.md:725`).
  The sweep deletes every entity with no mention, installed skills and open
  chunk groups included. `pruneChunkGroupEntities` leaves links of the groups
  it deletes; its comment counts on foreign keys. Adopted skills are never
  uninstalled.
- Scheduler: processes of an earlier daemon are not counted, so that more than three
  task processes run and a task may have two (`docs/SCHEDULING.md:81`, `:85`); what is
  sent 5 seconds after SIGTERM is SIGTERM again, and the run waits for the streams
  (`spawn.ts:122`, against `docs/SCHEDULING.md:113`). Runs by hand are outside the limit; a run
  whose result cannot be recorded blocks its task until the next restart; as many
  processes that ignore SIGTERM as there are places stop all scheduled tasks.

## 4. What is proved

All theorems hold for any values of the constants that the named assumptions of
the modules allow; TLC evaluates those assumptions in the runs.

`ExtractionQueueProofs`:

- `TypeCorrect`; `AttemptsBounded`. Not inductive alone: `failJob` writes
  "pending" by the count in memory, so one must know that the row's count has not
  grown past it. `AttemptCounted` says how the attempt in flight and the row are
  related; `CountInv` is the conjunction.
- `SettledForGood`, `CompletedForGood`, `QueueKeepsPromise` (assuming
  `~LateFailure`): from `LifeInv`, which adds to `CountInv` the invariant `Life`
  of each memory: which combinations of request, row, attempt and status can
  occur over its life. A job is not completed twice because at most one attempt
  exists, and the row of a job that was completed is never pending again.
  `QueueKeepsPromise` is the refinement: each action maps to a step of
  `ExtractionPromise` or leaves its variables alone.
- Of `WorkerTicks`, for any set of timers: `TicksTyped`, `OneChainAlways`,
  `ChainNeverBreaks`, `NothingAfterStop`, all from `ChainInv`, which says exactly
  what is armed, awaited and kept in each state of the worker.

`DocumentIngestProofs`, for any documents, texts and number of attempts in flight:

- `TypeCorrect` and `PassedStaysIndexed` from `AttemptInv`: types, what is left of
  its text at each stage of an attempt (`StagesOK`), and that what an attempt has
  passed is linked unless a DELETE cut into it (`PassedInv`). No step but DELETE
  removes a link, so attempts of one document that overlap do not disturb it.
- `DoneMeansIndexed`: `AttemptInv` at the step that completes a document.
- `NothingLost`: a document in progress has a job that can still be run, unless it
  is `forsaken` or `reopened` (`WorkInv`). An attempt that has just taken its job
  still holds it when it first sets the status (`LeaseHeld`: nothing comes between
  the lease and the first await). What it writes later, `SetIndexing` included, is
  written whether or not it holds its lease: a document that was in progress then
  has what it had, and one that was settled becomes `reopened`. Without that
  exception the statement is false of the code.
- Of `Chunking`, for windows, overlaps and texts of any length: `ChunksTyped`
  and `ChunksCoverText`, from `CoverInv`: the text before `start` is covered while
  the loop runs, and all of it once the function returns with an overlap smaller
  than the window.

`MemoryIndexProofs`, for any finite set of memories and any contents and limits:
`TypeCorrect`, `LiveStayUnique`, `NoneOfPurged` and `VersionsName`.

- The first three follow from `IndexInv`: types and counters (`RowsOK`,
  `Counters`), `AwaitOK` (whatever awaits a vector is about a memory that is not
  expired, for a day passes only when nothing is awaited), `SweepOK` (between its
  two transactions the sweep has left no embedding of an expired memory), and the
  two properties. `NoEmbeddingOfPurged` needs the two others: what was asked
  before a sweep is written after it.
- The batches of the tracker and the repair are written by a recursive function
  over the answers. That it exists, and that writing one answer after the other
  keeps `IndexInv`, is induction over natural numbers, carried out in first-order
  form: the least number at which the statement fails is taken from a
  well-founded order (`SetInduction`, `IterationExists`, `AnswersWritten`).
- `VersionsName` is an action property: an edit takes a new version with its
  content, all else keeps both.

`SchedulerProofs`, for any tasks and any limit: `TypeCorrect`, with which goes
that `before` is a strict total order of the due tasks; `NeverTwice`, where
`NoDoubleExecution` is inductive with the types because both the poll and the
request look for a running row in the transaction that inserts one; and
`RoomKept`. For this one, no task has two processes of the present daemon (one has to
have a running row), so `Active` counts tasks, deleted ones among them; a restart
leaves none that count; and the first n of the due
tasks are at most n, since the ranks of different tasks in a strict order differ.
It says nothing of processes that outlived their daemon, for the code does not. By
the same ranks, `EarliestFirst`: no task is started while another that qualifies
and became due before it is passed over. `DueTasksRun` rests on it.

`WorkspaceSyncProofs`, for any files and runs: `WellTyped` and `OneRunAtATime`,
from `SingleFlight` with `RunnerKnows` (the runner's flag is up exactly while a run
is in flight; the theorem states both) and `EditsCounted`, which bounds the versions. Further
`NoEditForgotten` and `NoChangeForgotten`, the safety halves of `SyncCatchesUp`
and `CommitCatchesUp`: whatever is out of date has something on its way that will
bring it up to date, or is one of the two named exceptions. For the first, what
a run has read stays right or has a rerun asked for (`ReadInMind`), which needs a
rerun to be requested only of a runner that is running; for the second, what
is not in the index waits for an event, the debounce or the next `git add`
(`IndexInMind`), and what is not committed for the end of the chain.

`SessionLifecycleProofs`: `ClaimsHold` (each step changes an entry by calls of
the tracker only, and none of these hands over a claim in time), `CompletedForGood`
(rows keep their texts; a failure looks at the status), `NothingSkipped` and
`NothingTwice`, from `CursorInv`: the checkpoints of the present transcript lie
before the cursor and cover what is before it, each with the exception its flaw
describes. It speaks of the store as well: what is stored of the present transcript
from a part other than the first lies behind the cursor, and a text of an epoch that
has not begun is nowhere, so that what the worker writes cannot make a checkpoint
repeat a part of the present transcript. `TypeCorrect` needs more than types: what the worker or its predecessor
has in hand is the place of a row (`HandsOK`; rows are never deleted), a row has a
part of a transcript to summarise, and is leased only below its limit.
`OnlyLapsesForsake` is the safety half of `JobsSettle`: a row comes to be in
processing with nobody to finish or recover it only by a failure that could not be
recorded (`LoseAttempt`) or a recovery that threw (`RecoveryThrows`). The recovery
stops its timer after a batch that is not full, and such a batch has all rows in
processing (`ShortBatch`).

`EntityGraphProofs`, for any memories, names, skills and groups: `TypeCorrect`,
`CountsHold`, `NothingDangles` and `SweepKeeps`, from `GraphOK`: links and
relations have their ends (`EndsOK`), and a count is at least the number of links
(`CountOK`). The sweep takes one from each entity that a memory of its batch is
linked to, and removes at least one link there; an entity it finds without
mentions has no link but those it removes.

`ContinuityProofs`, for any sessions, caps and numbers of notes, assuming that
`None` is neither a state nor a checkpoint: `TypeCorrect`, `NotesAccounted` and
`EndsLatest`, from `LedgerInv`. It keeps a ledger for each session: its rows, what
is queued, what is pending, how many notes there were and which are lost. In it
each note that is not lost is in exactly one place (`Shared`), and rows stand in the
order `EndIsLatest` asks for (`InOrder`, which adds that what is queued is never the
end of a session, is about no later note than the session has, and about none
earlier than an end among the rows). One lemma for each thing that can happen to
a ledger (a drop, a flush, a write, a note, a merge into the queue, a prune)
says that it is kept; every action is one or two of these for each session.
`QueueHasTimer` is the safety half of `QueueIsFlushed`: a queued checkpoint always
has the timer armed, though the flush, a session's end and the daemon's end each
clear it.

Every invariant and every action property that a passing run checks is stated by
one of these theorems, types included. Only model-checked are the liveness properties,
which are beyond the prover: `PollsGoOn`, `Terminates`, `KeepsEmbedded`, `JobsSettle`,
`DueTasksRun`, `SyncCatchesUp`, `CommitCatchesUp`, `LiveJobsSettle`, `QueueIsFlushed`.

## 5. Plan

In this order: an abstract specification of `Continuity` (notes that move forward only);
`ConnectorSync` (`connectors.status` and cursor, `syncing` kept across a crash);
`Maintenance` (cooldown and hourly budget of the repairs).

## 6. What is not modelled, and why

- Update system: child processes and network guarded by two flags.
- Predictor: a child process behind a line protocol; its state is a flag and a
  counter. Structural, prospective, dependency and synthesis workers: job rows of
  the shape of those modelled, with attempts that are best effort and repeated.
- Maintenance worker and the repairs' rate limiter: thresholds on scores that call
  repairs which are modelled. Status and cursors of connectors: one column each; a sync
  cut by a crash keeps the status `syncing` and refuses every later one
  (`daemon.ts:5000`), for no start resets it.
- Providers, extraction, decision and gates: a call answers, throws or times out,
  and what it says is a nondeterministic choice in the modules that call.
- Recall and search, auth, injection of context into prompts, MCP tools: pure
  functions of the request and the tables.
- CLI, dashboard, tray, SDK, web, adapters and connectors of harnesses, and the
  Rust daemon: clients, user interfaces, and a second implementation that is not
  the one shipped. They are most of the repository's lines and keep no state that
  two actors share.

Of the stored transcripts, `POST /api/memory/remember` with a transcript in its body
(`daemon.ts:3193`) writes a row under the source's id; it is left out, since no session
is known by that id unless a client makes it so.

Of what is modelled, left out as data: what texts, facts, digests and summaries
say; types, tags and importance; the audit rows; aspects and attributes of
entities; wording and logging.
