---------------------------- MODULE DocumentIngest ----------------------------
(***************************************************************************)
(* Document ingest: documents submitted over HTTP or by the filesystem      *)
(* connector, their document_ingest jobs in the memory_jobs table, and the  *)
(* worker that splits a document into chunks and writes one linked memory   *)
(* per chunk.  The worker ticks on a setInterval that does not wait for the *)
(* tick before it, and stop() does not wait for the ticks in flight, so     *)
(* attempts overlap whenever one takes longer than the interval.            *)
(*                                                                          *)
(* A text is the sequence of its non-blank chunks; a chunk stands for its   *)
(* content hash.  The statuses extracting, chunking, embedding and indexing *)
(* are one status "ingesting", for nothing reads them apart.                *)
(***************************************************************************)
EXTENDS JobTable, FiniteSets, Sequences

CONSTANTS
  Docs, UrlDocs,  \* the documents, and those fetched when they are ingested
  Chunks,         \* chunk contents
  Texts, NoText,  \* the texts a document may hold, and the empty one
  MaxRows,        \* bound: job rows of one document
  MaxOverlap,     \* bound: attempts in flight at once
  MaxEdits,       \* bound: connector updates and DELETE requests explored
  MaxLosses,      \* bound: crashes and failures to record a failure
  MaxRequeues     \* bound: requeueDeadJobs calls explored

ASSUME IngestAssumption ==
  /\ UrlDocs \subseteq Docs
  /\ Texts \subseteq Seq(Chunks) /\ NoText \notin Texts
  /\ MaxRows \in Nat \ {0} /\ MaxOverlap \in Nat \ {0}
  /\ MaxEdits \in Nat /\ MaxLosses \in Nat /\ MaxRequeues \in Nat

VARIABLES
  status,      \* documents.status
  content,     \* documents.raw_content
  indexed,     \* the chunks of its live linked memories
  job,         \* memory_jobs, by document and row
  clock,       \* source of created_at
  submitting,  \* the document stored but not yet enqueued, if any
  daemon,      \* "down", "running", or "stopped": HTTP without a worker
  attempt,     \* the attempts in flight
  ingested,    \* history: the text the document was last completed with
  torn,        \* history: were chunks of it deleted meanwhile or partly
  forsaken,    \* history: documents that an error, a crash or the sweep lost
  reopened,    \* history: settled documents that a late write took back
  edits, losses, requeues  \* bounded counters

history == <<ingested, torn, forsaken>>
counters == <<edits, losses, requeues>>
standing == <<status, reopened>>
vars == <<standing, content, indexed, job, clock, submitting, daemon, attempt,
          history, counters>>

Jobs == Docs \X (1 .. MaxRows)
DocOf(j) == j[1]
RowsOf(d) == {j \in Jobs : DocOf(j) = d}
Slots == 1 .. MaxOverlap

\* whole is the text the attempt read, rest what is still to be indexed.
Idle == [stage |-> "idle"]
Running(s) == attempt[s] # Idle
Doc(s) == DocOf(attempt[s].job)
Attempt(stage, j, n, whole, rest, cut) ==
  [stage |-> stage, job |-> j, attempts |-> n, whole |-> whole, rest |-> rest,
   cut |-> cut]

Up == daemon # "down"

\* No callback is in the middle of a stretch without an await.
Stretches == {"leased", "indexed", "finishing"}
Yielded ==
  /\ submitting = {}
  /\ \A s \in Slots : attempt[s].stage \notin Stretches

InProgress == {"queued", "ingesting"}

\* Whoever writes the status knows the document's job, or settles it.
SetStatus(d, to) ==
  /\ status' = [status EXCEPT ![d] = to]
  /\ reopened' = reopened \ {d}

\* An attempt goes on with the document: at once after the lease, or after its
\* awaits, when it looks neither at its lease nor at the status it overwrites.
SetIngesting(s) ==
  /\ status' = [status EXCEPT ![Doc(s)] = "ingesting"]
  /\ reopened' = IF attempt[s].stage = "leased" THEN reopened \ {Doc(s)}
                 ELSE IF status[Doc(s)] \in InProgress THEN reopened
                 ELSE reopened \cup {Doc(s)}

(***************************************************************************)
(* Submitting, updating and deleting documents                              *)
(***************************************************************************)

\* POST /api/documents, or a file the connector has not seen before.
SubmitDocument(d, text) ==
  /\ Up /\ Yielded
  /\ status[d] = "absent"
  /\ d \in UrlDocs => text = NoText
  /\ SetStatus(d, "queued")
  /\ content' = [content EXCEPT ![d] = text]
  /\ submitting' = {d}
  /\ UNCHANGED <<indexed, job, clock, daemon, attempt, history, counters>>

\* The connector finds the file changed: the same row takes the new content.
UpdateDocument(d, text) ==
  /\ Up /\ Yielded
  /\ edits < MaxEdits
  /\ status[d] # "absent" /\ d \notin UrlDocs
  /\ edits' = edits + 1
  /\ SetStatus(d, "queued")
  /\ content' = [content EXCEPT ![d] = text]
  /\ submitting' = {d}
  /\ UNCHANGED <<indexed, job, clock, daemon, attempt, history, losses,
                 requeues>>

\* A second transaction; it does nothing while a job of the document is live.
EnqueueDocumentIngestJob(d) ==
  /\ submitting = {d}
  /\ submitting' = {}
  /\ forsaken' = forsaken \ {d}
  /\ IF \E j \in RowsOf(d) : Live(job[j])
     THEN UNCHANGED <<job, clock>>
     ELSE \E j \in RowsOf(d) :
            /\ job[j].status = "absent"
            /\ \A k \in RowsOf(d) : job[k].status = "absent" => j[2] <= k[2]
            /\ job' = [job EXCEPT ![j] = PendingRow(clock)]
            /\ clock' = clock + 1
  /\ UNCHANGED <<standing, content, indexed, daemon, attempt, ingested, torn,
                 counters>>

\* The second transaction throws: the request, or the file, is given up.
EnqueueFails(d) ==
  /\ submitting = {d}
  /\ submitting' = {}
  /\ forsaken' = forsaken \cup {d}
  /\ UNCHANGED <<standing, content, indexed, job, clock, daemon, attempt,
                 ingested, torn, counters>>

\* The bound on rows: updates stop when there is no row left for their job.
RowLeft(d) == \E j \in RowsOf(d) : Live(job[j]) \/ job[j].status = "absent"

\* The chunks of an attempt in flight are cut by a DELETE of its document.
CutAttempts(d) ==
  [s \in Slots |-> IF Running(s) /\ Doc(s) = d
                   THEN [attempt[s] EXCEPT !.cut = TRUE] ELSE attempt[s]]

\* DELETE soft-deletes the linked memories one transaction at a time and sets
\* the status last.
DeleteDocument(d) ==
  /\ Up /\ Yielded
  /\ edits < MaxEdits
  /\ status[d] # "absent"
  /\ edits' = edits + 1
  /\ indexed' = [indexed EXCEPT ![d] = {}]
  /\ SetStatus(d, "deleted")
  /\ attempt' = CutAttempts(d)
  /\ UNCHANGED <<content, job, clock, submitting, daemon, history, losses,
                 requeues>>

\* One of those transactions throws: the request fails half way.
DeleteFails(d, removed) ==
  /\ Up /\ Yielded
  /\ edits < MaxEdits
  /\ status[d] # "absent"
  /\ edits' = edits + 1
  /\ indexed' = [indexed EXCEPT ![d] = @ \ removed]
  /\ torn' = [torn EXCEPT ![d] = TRUE]
  /\ attempt' = CutAttempts(d)
  /\ UNCHANGED <<standing, content, job, clock, submitting, daemon, ingested,
                 forsaken, losses, requeues>>

(***************************************************************************)
(* The document worker                                                      *)
(***************************************************************************)

Leasable(j) == job[j].status = "pending" /\ job[j].attempts < MaxRetries

LeaseDocumentJob(s, j) ==
  /\ daemon = "running" /\ Yielded
  /\ ~Running(s) /\ \A t \in Slots : t < s => Running(t)
  /\ Leasable(j)
  /\ \A k \in Jobs : Leasable(k) => job[j].created_at <= job[k].created_at
  /\ job' = [job EXCEPT ![j] = Lease(@)]
  /\ attempt' = [attempt EXCEPT ![s] =
                   Attempt("leased", j, job[j].attempts + 1, NoText, <<>>,
                           FALSE)]
  /\ UNCHANGED <<standing, content, indexed, clock, submitting, daemon, history,
                 counters>>

\* What an attempt leaves alone whichever way it goes on.
Rest == UNCHANGED <<content, clock, submitting, daemon, forsaken, counters>>

EndAttempt(s) == attempt' = [attempt EXCEPT ![s] = Idle]

\* Faulty: leaves a document that is being ingested to whoever ingests it.
SkipBusy(s) ==
  /\ attempt[s].stage = "leased"
  /\ status[Doc(s)] \in {"done", "ingesting"}
  /\ job' = [job EXCEPT ![attempt[s].job] = CompleteJob(@)]
  /\ EndAttempt(s)
  /\ Rest /\ UNCHANGED <<standing, indexed, ingested, torn>>

\* The document is done already: the job completes and nothing is read.
SkipDone(s) ==
  /\ attempt[s].stage = "leased"
  /\ status[Doc(s)] = "done"
  /\ job' = [job EXCEPT ![attempt[s].job] = CompleteJob(@)]
  /\ EndAttempt(s)
  /\ Rest /\ UNCHANGED <<standing, indexed, ingested, torn>>

FailLease(s) ==
  job' = [job EXCEPT ![attempt[s].job] = FailJob(@, attempt[s].attempts)]

\* The text is at hand: empty content fails the job, else indexing starts.
Index(s, text) ==
  IF text = NoText
  THEN /\ SetStatus(Doc(s), "failed")
       /\ FailLease(s)
       /\ EndAttempt(s)
  ELSE /\ SetIngesting(s)
       /\ attempt' = [attempt EXCEPT
            ![s].stage = IF text = <<>> THEN "indexed" ELSE "embedding",
            ![s].whole = text, ![s].rest = text]
       /\ UNCHANGED job

BeginIngest(s) ==
  /\ attempt[s].stage = "leased"
  /\ status[Doc(s)] # "done"
  /\ IF Doc(s) \in UrlDocs
     THEN /\ SetIngesting(s)
          /\ attempt' = [attempt EXCEPT ![s].stage = "fetching"]
          /\ UNCHANGED job
     ELSE Index(s, content[Doc(s)])
  /\ Rest /\ UNCHANGED <<indexed, ingested, torn>>

\* fetchUrlContent answers.
FetchUrlContent(s, text) ==
  /\ Yielded
  /\ attempt[s].stage = "fetching"
  /\ Index(s, text)
  /\ Rest /\ UNCHANGED <<indexed, ingested, torn>>

\* The unique index on content_hash refuses a chunk that another document, of
\* the same scope as they all are, holds; a chunk of its own is skipped.
Conflict(s) ==
  \E d \in Docs \ {Doc(s)} :
    Head(attempt[s].rest) \in indexed[d] \ indexed[Doc(s)]

\* Faulty: a chunk that cannot be inserted is skipped.
IndexChunkOrSkip(s) ==
  /\ Yielded
  /\ attempt[s].stage = "embedding"
  /\ indexed' = [indexed EXCEPT ![Doc(s)] =
                   IF Conflict(s) THEN @ ELSE @ \cup {Head(attempt[s].rest)}]
  /\ attempt' = [attempt EXCEPT
       ![s].rest = Tail(@),
       ![s].stage = IF Tail(attempt[s].rest) = <<>> THEN "indexed" ELSE @]
  /\ Rest /\ UNCHANGED <<standing, job, ingested, torn>>

\* Faulty: a chunk whose embedding is given up is not written.
IndexChunkIfEmbedded(s) ==
  /\ Yielded
  /\ attempt[s].stage = "embedding"
  /\ ~Conflict(s)
  /\ \E written \in SUBSET {Head(attempt[s].rest)} :
       indexed' = [indexed EXCEPT ![Doc(s)] = @ \cup written]
  /\ attempt' = [attempt EXCEPT
       ![s].rest = Tail(@),
       ![s].stage = IF Tail(attempt[s].rest) = <<>> THEN "indexed" ELSE @]
  /\ Rest /\ UNCHANGED <<standing, job, ingested, torn>>

\* The embedding of the next chunk answers, or is given up: the chunk is
\* written and linked, and the next embedding is asked for.
IndexChunk(s) ==
  /\ Yielded
  /\ attempt[s].stage = "embedding"
  /\ ~Conflict(s)
  /\ indexed' = [indexed EXCEPT ![Doc(s)] = @ \cup {Head(attempt[s].rest)}]
  /\ attempt' = [attempt EXCEPT
       ![s].rest = Tail(@),
       ![s].stage = IF Tail(attempt[s].rest) = <<>> THEN "indexed" ELSE @]
  /\ Rest /\ UNCHANGED <<standing, job, ingested, torn>>

\* All chunks are through: the status says so in a transaction of its own.
SetIndexing(s) ==
  /\ attempt[s].stage = "indexed"
  /\ SetIngesting(s)
  /\ attempt' = [attempt EXCEPT ![s].stage = "finishing"]
  /\ Rest /\ UNCHANGED <<indexed, job, ingested, torn>>

CompleteDocument(s) ==
  /\ attempt[s].stage = "finishing"
  /\ SetStatus(Doc(s), "done")
  /\ ingested' = [ingested EXCEPT ![Doc(s)] = attempt[s].whole]
  /\ torn' = [torn EXCEPT ![Doc(s)] = attempt[s].cut]
  /\ job' = [job EXCEPT ![attempt[s].job] = CompleteJob(@)]
  /\ EndAttempt(s)
  /\ Rest /\ UNCHANGED indexed

\* The await it stands at, or the transaction after it, throws.
Throws(s) ==
  Running(s) /\ (attempt[s].stage \in Stretches \/ Yielded)

FailIngest(s) ==
  /\ Throws(s)
  /\ FailLease(s)
  /\ SetStatus(Doc(s), "failed")
  /\ EndAttempt(s)
  /\ Rest /\ UNCHANGED <<indexed, ingested, torn>>

\* The transaction that is to record the failure throws as well.
LoseIngest(s) ==
  /\ Throws(s)
  /\ losses < MaxLosses
  /\ losses' = losses + 1
  /\ EndAttempt(s)
  /\ UNCHANGED <<standing, content, indexed, job, clock, submitting, daemon,
                 history, edits, requeues>>

(***************************************************************************)
(* What the rest of the daemon does to the jobs                             *)
(***************************************************************************)

RecoverStaleLeases ==
  /\ Up /\ Yielded
  /\ \E j \in Jobs : LeaseExpired(job[j])
  /\ job' = [j \in Jobs |-> RecoverStaleLease(job[j])]
  /\ UNCHANGED <<standing, content, indexed, clock, submitting, daemon, attempt,
                 history, counters>>

RequeueDeadJobs ==
  /\ Up /\ Yielded
  /\ requeues < MaxRequeues
  /\ \E j \in Jobs : job[j].status = "dead"
  /\ requeues' = requeues + 1
  /\ job' = [j \in Jobs |-> IF job[j].status = "dead"
                            THEN RequeueDeadJob(job[j]) ELSE job[j]]
  /\ UNCHANGED <<standing, content, indexed, clock, submitting, daemon, attempt,
                 history, edits, losses>>

StartPipeline ==
  /\ daemon # "running" /\ Yielded
  /\ daemon' = "running"
  /\ job' = [j \in Jobs |-> RecoverMemoryJob(job[j])]
  /\ UNCHANGED <<standing, content, indexed, clock, submitting, attempt,
                 history, counters>>

\* The attempts in flight go on.
StopPipeline ==
  /\ daemon = "running" /\ Yielded
  /\ daemon' = "stopped"
  /\ UNCHANGED <<standing, content, indexed, job, clock, submitting, attempt,
                 history, counters>>

Crash ==
  /\ Up
  /\ losses < MaxLosses
  /\ losses' = losses + 1
  /\ daemon' = "down"
  /\ submitting' = {}
  /\ forsaken' = forsaken \cup submitting
  /\ attempt' = [s \in Slots |-> Idle]
  /\ UNCHANGED <<standing, content, indexed, job, clock, ingested, torn, edits,
                 requeues>>

\* The sweep deletes settled jobs; no document is told.
PurgeJobs ==
  /\ Up /\ Yielded
  /\ \E j \in Jobs : Purgeable(job[j])
  /\ job' = [j \in Jobs |-> IF Purgeable(job[j]) THEN NoRow ELSE job[j]]
  /\ forsaken' = forsaken \cup
       {DocOf(j) : j \in {k \in Jobs : job[k].status = "dead"
                                      /\ Purgeable(job[k])}}
  /\ UNCHANGED <<standing, content, indexed, clock, submitting, daemon, attempt,
                 ingested, torn, counters>>

\* A lease expires or a settled job grows old; the lease query of documents
\* knows no backoff.
Elapse(j) ==
  /\ \E row \in {LeaseAges(job[j]), RetentionEnds(job[j])} \ {job[j]} :
       job' = [job EXCEPT ![j] = row]
  /\ UNCHANGED <<standing, content, indexed, clock, submitting, daemon, attempt,
                 history, counters>>

Init ==
  /\ status = [d \in Docs |-> "absent"]
  /\ content = [d \in Docs |-> NoText]
  /\ indexed = [d \in Docs |-> {}]
  /\ job = [j \in Jobs |-> NoRow]
  /\ clock = 0
  /\ submitting = {}
  /\ daemon = "down"
  /\ attempt = [s \in Slots |-> Idle]
  /\ ingested = [d \in Docs |-> NoText]
  /\ torn = [d \in Docs |-> FALSE]
  /\ forsaken = {}
  /\ reopened = {}
  /\ edits = 0 /\ losses = 0 /\ requeues = 0

Next ==
  \/ \E d \in Docs :
       \/ \E text \in Texts \cup {NoText} :
            \/ SubmitDocument(d, text)
            \/ RowLeft(d) /\ UpdateDocument(d, text)
       \/ EnqueueDocumentIngestJob(d) \/ EnqueueFails(d)
       \/ DeleteDocument(d)
       \/ \E removed \in SUBSET indexed[d] : DeleteFails(d, removed)
  \/ \E s \in Slots :
       \/ \E j \in Jobs : LeaseDocumentJob(s, j)
       \/ SkipDone(s) \/ BeginIngest(s)
       \/ \E text \in Texts \cup {NoText} : FetchUrlContent(s, text)
       \/ IndexChunk(s) \/ SetIndexing(s) \/ CompleteDocument(s)
       \/ FailIngest(s) \/ LoseIngest(s)
  \/ \E j \in Jobs : Elapse(j)
  \/ RecoverStaleLeases \/ RequeueDeadJobs \/ PurgeJobs
  \/ StartPipeline \/ StopPipeline \/ Crash

Spec == Init /\ [][Next]_vars

(***************************************************************************)
(* Properties                                                               *)
(***************************************************************************)

AttemptType ==
  [stage : Stretches \cup {"fetching", "embedding"}, job : Jobs,
   attempts : Nat, whole : Texts \cup {NoText}, rest : Seq(Chunks),
   cut : BOOLEAN]

TypeOK ==
  /\ status \in [Docs -> {"absent", "queued", "ingesting", "done", "failed",
                          "deleted"}]
  /\ content \in [Docs -> Texts \cup {NoText}]
  /\ indexed \in [Docs -> SUBSET Chunks]
  /\ job \in [Jobs -> Row]
  /\ clock \in Nat
  /\ submitting \in SUBSET Docs
  /\ daemon \in {"down", "running", "stopped"}
  /\ attempt \in [Slots -> AttemptType \cup {Idle}]
  /\ ingested \in [Docs -> Texts \cup {NoText}]
  /\ torn \in [Docs -> BOOLEAN]
  /\ forsaken \in SUBSET Docs /\ reopened \in SUBSET Docs
  /\ edits \in Nat /\ losses \in Nat /\ requeues \in Nat

ChunksOf(text) == IF text = NoText THEN {} ELSE {text[i] : i \in DOMAIN text}

\* A document that reads as done has every chunk of the text it was completed
\* with among its live memories, unless a DELETE cut into that attempt
\* (docs/DOCUMENTS.md: "`done` | All chunks embedded and indexed"), over
\* retries, attempts that overlap and documents that share chunks.
DoneIsIndexed ==
  \A d \in Docs :
    status[d] = "done" /\ ~torn[d] => ChunksOf(ingested[d]) \subseteq indexed[d]

\* A document waits or is being ingested, and nothing will finish it: it is not
\* being enqueued, has no attempt in flight and no job that can be run or
\* requeued.
Lost(d) ==
  /\ status[d] \in InProgress
  /\ d \notin submitting
  /\ \A s \in Slots : Running(s) => Doc(s) # d
  /\ \A j \in RowsOf(d) : job[j].status \notin {"pending", "leased", "dead"}

\* A document in progress is not lost, in whatever order leases expire, attempts
\* overlap and end, and processes die, but for three ways (docs/ARCHITECTURE.md:
\* "jobs survive daemon restarts"): a crash or an error between the transactions
\* that store it and its job; the sweep of its dead job; and an attempt that
\* outlived its lease and takes a document that has since been settled back into
\* progress: should that attempt die as well, no job is left.
NoLostDocument == \A d \in Docs \ (reopened \cup forsaken) : ~Lost(d)

\* What an attempt has passed stays linked to its document while it goes on with
\* the rest, whatever other attempts of the same or of other documents do in the
\* meantime, unless a DELETE cuts into it.
PassedIsIndexed ==
  \A s \in Slots :
    Running(s) /\ attempt[s].stage \in {"embedding", "indexed", "finishing"}
               /\ ~attempt[s].cut =>
      LET passed == Len(attempt[s].whole) - Len(attempt[s].rest) IN
        \A i \in 1 .. passed : attempt[s].whole[i] \in indexed[Doc(s)]
=============================================================================
