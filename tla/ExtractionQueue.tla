--------------------------- MODULE ExtractionQueue ---------------------------
(***************************************************************************)
(* The extraction queue: how a remembered memory gets its one extraction    *)
(* job, and how that job is leased, processed, retried, reaped,             *)
(* dead-lettered, requeued and finally purged, across LLM calls that may    *)
(* outlast their lease, pipeline pauses, and daemon crashes.                *)
(*                                                                          *)
(* The memories table is kept to extraction_status ("complete" and          *)
(* "completed" are one value: every reader treats them alike).  A           *)
(* memory id is queued by the one request that created it, so its extract   *)
(* row is kept under the id; the row's own id plays no part.                *)
(***************************************************************************)
EXTENDS JobTable, FiniteSets

CONSTANTS
  Memories,      \* the memory ids requests may create
  NoMemory,      \* no memory: the chain holds no job, or an update no target
  RequeueBatch,  \* DEFAULT_REQUEUE_BATCH
  LateFailure,   \* may the unguarded read after the write transaction throw?
  MaxCrashes,    \* bound: crashes explored
  MaxRequeues    \* bound: requeueDeadJobs calls explored

ASSUME QueueAssumption ==
  /\ NoMemory \notin Memories
  /\ IsFiniteSet(Memories)
  /\ RequeueBatch \in Nat \ {0}
  /\ LateFailure \in BOOLEAN
  /\ MaxCrashes \in Nat /\ MaxRequeues \in Nat

VARIABLES
  extraction,  \* memories.extraction_status, "absent" before, "gone" after
  request,     \* the remember handler between its insert and its enqueue
  job,         \* the memory's extract row in memory_jobs
  clock,       \* source of created_at
  daemon,      \* what runs: see Modes
  attempt,     \* the attempt the tick chain is awaiting
  factWrites,  \* history: how often the facts of the memory were written
  crashes, requeues  \* bounded counters

vars == <<extraction, request, job, clock, daemon, attempt, factWrites,
          crashes, requeues>>

\* running: the worker polls.  stopping: stop() awaits the attempt in flight.
\* paused: HTTP is served without a worker.  blocked: as paused, because no
\* extraction provider passed the startup preflight.
Modes == {"down", "running", "stopping", "paused", "blocked"}

Idle == [stage |-> "idle", mem |-> NoMemory, attempts |-> 0]

Up == daemon # "down"

\* Between the lease and the first await the tick runs without yielding, so no
\* other callback of the process runs; only a crash can come between.
Yielded == attempt.stage # "leased"

Saved(m) == extraction[m] \notin {"absent", "gone"}

\* UPDATE memories SET extraction_status = ... WHERE id = m
SetStatus(m, status) ==
  [extraction EXCEPT ![m] = IF Saved(m) THEN status ELSE @]

(***************************************************************************)
(* The remember request                                                     *)
(***************************************************************************)

\* The insert commits first; the handler then awaits the embedding.
Remember(m) ==
  /\ Up /\ Yielded
  /\ extraction[m] = "absent"
  /\ extraction' = [extraction EXCEPT ![m] = "pending"]
  /\ request' = [request EXCEPT ![m] = "saved"]
  /\ UNCHANGED <<job, clock, daemon, attempt, factWrites, crashes, requeues>>

EnqueueExtractionJob(m) ==
  IF extraction[m] = "completed" \/ Live(job[m])
  THEN UNCHANGED <<job, clock, extraction>>
  ELSE /\ job' = [job EXCEPT ![m] = PendingRow(clock)]
       /\ clock' = clock + 1
       /\ UNCHANGED extraction

DeadLetterExtractionJob(m) ==
  IF ~Saved(m) \/ extraction[m] = "completed"
  THEN UNCHANGED <<job, clock, extraction>>
  ELSE /\ job' = [job EXCEPT ![m] = IF @.status = "pending" THEN DeadLetter(@)
                                    ELSE DeadRow(clock)]
       /\ clock' = clock + 1
       /\ extraction' = IF job[m].status = "leased" THEN extraction
                        ELSE SetStatus(m, "failed")

QueueExtractionJob(m) ==
  /\ Up /\ Yielded
  /\ request[m] = "saved"
  /\ request' = [request EXCEPT ![m] = "none"]
  /\ IF daemon = "blocked" THEN DeadLetterExtractionJob(m)
                           ELSE EnqueueExtractionJob(m)
  /\ UNCHANGED <<daemon, attempt, factWrites, crashes, requeues>>

\* The enqueue transaction throws; the handler marks the memory instead.
QueueExtractionFails(m) ==
  /\ Up /\ Yielded
  /\ request[m] = "saved"
  /\ request' = [request EXCEPT ![m] = "none"]
  /\ extraction' = SetStatus(m, "failed")
  /\ UNCHANGED <<job, clock, daemon, attempt, factWrites, crashes, requeues>>

\* PATCH with new content: txModifyMemory resets the status, queues nothing.
ModifyContent(m) ==
  /\ Up /\ Yielded
  /\ Saved(m)
  /\ extraction' = SetStatus(m, "none")
  /\ UNCHANGED <<request, job, clock, daemon, attempt, factWrites, crashes,
                 requeues>>

(***************************************************************************)
(* The extraction worker: one setTimeout chain, so one attempt at a time    *)
(***************************************************************************)

Leasable(m) ==
  /\ job[m].status = "pending"
  /\ job[m].attempts < MaxRetries
  /\ job[m].failed_at # "recent"

OldestLeasable(m) ==
  /\ Leasable(m)
  /\ \A n \in Memories : Leasable(n) => job[m].created_at <= job[n].created_at

LeaseJob(m) ==
  /\ daemon = "running"
  /\ attempt = Idle
  /\ OldestLeasable(m)
  /\ job' = [job EXCEPT ![m] = Lease(@)]
  /\ attempt' = [stage |-> "leased", mem |-> m,
                 attempts |-> job[m].attempts + 1]
  /\ UNCHANGED <<extraction, request, clock, daemon, factWrites, crashes,
                 requeues>>

\* The tick ends and the chain is free to schedule the next one.
EndTick ==
  /\ attempt' = Idle
  /\ UNCHANGED <<request, clock, daemon, crashes, requeues>>

\* memory_not_found and already_extracted complete the job and write nothing.
SkipExtraction(m) ==
  /\ attempt.stage = "leased" /\ attempt.mem = m
  /\ ~Saved(m) \/ extraction[m] = "completed"
  /\ job' = [job EXCEPT ![m] = CompleteJob(@)]
  /\ EndTick
  /\ UNCHANGED <<extraction, factWrites>>

\* The significance gate rejects the memory.
GateExtraction(m) ==
  /\ attempt.stage = "leased" /\ attempt.mem = m
  /\ Saved(m) /\ extraction[m] # "completed"
  /\ job' = [job EXCEPT ![m] = CompleteJob(@)]
  /\ extraction' = SetStatus(m, "completed")
  /\ EndTick
  /\ UNCHANGED factWrites

\* The memory is read, and the LLM and embedding calls begin.
StartExtraction(m) ==
  /\ attempt.stage = "leased" /\ attempt.mem = m
  /\ Saved(m) /\ extraction[m] # "completed"
  /\ attempt' = [attempt EXCEPT !.stage = "awaiting"]
  /\ UNCHANGED <<extraction, request, job, clock, daemon, factWrites, crashes,
                 requeues>>

\* Faulty: the status is not updated with the facts.
CommitWithoutStatus(m, target) ==
  /\ attempt.stage = "awaiting" /\ attempt.mem = m
  /\ target # NoMemory => Saved(target)
  /\ factWrites' = [factWrites EXCEPT ![m] = @ + 1]
  /\ job' = [job EXCEPT ![m] = CompleteJob(@)]
  /\ EndTick
  /\ UNCHANGED extraction

\* Faulty: the job is to be completed by a transaction of its own, and is not.
CommitWithoutJob(m, target) ==
  /\ attempt.stage = "awaiting" /\ attempt.mem = m
  /\ target # NoMemory => Saved(target)
  /\ factWrites' = [factWrites EXCEPT ![m] = @ + 1]
  /\ extraction' = SetStatus(m, "completed")
  /\ EndTick
  /\ UNCHANGED job

\* The write transaction: facts, job and status commit together.  An update
\* decision may rewrite another memory, which then counts as completed.
CommitExtraction(m, target) ==
  /\ attempt.stage = "awaiting" /\ attempt.mem = m
  /\ target # NoMemory => Saved(target)
  /\ factWrites' = [factWrites EXCEPT ![m] = @ + 1]
  /\ job' = [job EXCEPT ![m] = CompleteJob(@)]
  /\ extraction' = [n \in Memories |->
                      IF n \in {m, target} /\ Saved(n) THEN "completed"
                      ELSE extraction[n]]
  /\ EndTick

\* The same, but looking up the rows of the facts afterwards throws: the only
\* step after the transaction that is not wrapped in a try of its own.
CommitThenFail(m, target) ==
  /\ LateFailure
  /\ attempt.stage = "awaiting" /\ attempt.mem = m
  /\ target # NoMemory => Saved(target)
  /\ factWrites' = [factWrites EXCEPT ![m] = @ + 1]
  /\ job' = [job EXCEPT ![m] = FailJob(CompleteJob(@), attempt.attempts)]
  /\ extraction' = [n \in Memories |->
                      IF n = m /\ Saved(n) /\ attempt.attempts >= MaxAttempts
                      THEN "failed"
                      ELSE IF n \in {m, target} /\ Saved(n) THEN "completed"
                      ELSE extraction[n]]
  /\ EndTick

\* Anything in the attempt throws before its write transaction commits.
FailExtraction(m) ==
  /\ attempt.stage \in {"leased", "awaiting"} /\ attempt.mem = m
  /\ job' = [job EXCEPT ![m] = FailJob(@, attempt.attempts)]
  /\ extraction' = IF attempt.attempts >= MaxAttempts
                   THEN SetStatus(m, "failed") ELSE extraction
  /\ EndTick
  /\ UNCHANGED factWrites

\* The transaction that is to record the failure throws as well.
LoseAttempt(m) ==
  /\ attempt.stage \in {"leased", "awaiting"} /\ attempt.mem = m
  /\ EndTick
  /\ UNCHANGED <<extraction, job, factWrites>>

(***************************************************************************)
(* Lease recovery, repair and retention                                     *)
(***************************************************************************)

RecoverStaleLeases ==
  /\ \E m \in Memories : LeaseExpired(job[m])
  /\ job' = [m \in Memories |-> RecoverStaleLease(job[m])]
  /\ UNCHANGED <<extraction, request, clock, daemon, attempt, factWrites,
                 crashes, requeues>>

\* The worker's 60 s interval, cleared by stop().
ReapStaleLeases == daemon = "running" /\ Yielded /\ RecoverStaleLeases

\* The repair endpoint, served whether or not a worker runs.
ReleaseStaleLeases == Up /\ Yielded /\ RecoverStaleLeases

RequeueDeadJobs ==
  /\ Up /\ Yielded
  /\ requeues < MaxRequeues
  /\ LET dead == {m \in Memories : job[m].status = "dead"} IN
       \E batch \in SUBSET dead \ {{}} :
         /\ \/ Cardinality(batch) = RequeueBatch
            \/ Cardinality(batch) < RequeueBatch /\ batch = dead
         /\ job' = [m \in Memories |-> IF m \in batch
                                       THEN RequeueDeadJob(job[m]) ELSE job[m]]
  /\ requeues' = requeues + 1
  /\ UNCHANGED <<extraction, request, clock, daemon, attempt, factWrites,
                 crashes>>

\* The sweep: expired tombstones, then completed jobs, then dead jobs.  Which
\* memories are expired tombstones is left open here.
RetentionSweep(tombstones) ==
  /\ daemon \in {"running", "paused", "blocked"} /\ Yielded
  /\ \A m \in tombstones : Saved(m) /\ request[m] = "none"
  /\ \/ tombstones # {}
     \/ \E m \in Memories : Purgeable(job[m])
  /\ extraction' = [m \in Memories |-> IF m \in tombstones THEN "gone"
                                       ELSE extraction[m]]
  /\ job' = [m \in Memories |-> IF Purgeable(job[m]) THEN NoRow ELSE job[m]]
  /\ UNCHANGED <<request, clock, daemon, attempt, factWrites, crashes,
                 requeues>>

(***************************************************************************)
(* Pipeline start, stop and crash; time                                     *)
(***************************************************************************)

\* startWorker runs recoverMemoryJobs before its first tick.
StartWorker ==
  /\ daemon' = "running"
  /\ job' = [m \in Memories |-> RecoverMemoryJob(job[m])]
  /\ UNCHANGED extraction

\* deadLetterPendingExtractionJobs: no provider, no worker.
StartBlocked ==
  /\ daemon' = "blocked"
  /\ job' = [m \in Memories |-> IF job[m].status = "pending"
                                THEN DeadLetter(job[m]) ELSE job[m]]
  /\ extraction' = [m \in Memories |->
                      IF job[m].status = "pending" /\ Saved(m) THEN "failed"
                      ELSE extraction[m]]

StartPaused == daemon' = "paused" /\ UNCHANGED <<job, extraction>>

\* At boot, and again whenever the pipeline is paused or resumed.
StartPipelineRuntime ==
  /\ daemon # "running" /\ attempt = Idle
  /\ StartWorker \/ StartBlocked \/ StartPaused
  /\ UNCHANGED <<request, clock, attempt, factWrites, crashes, requeues>>

StopPipeline ==
  /\ daemon = "running" /\ Yielded
  /\ daemon' = "stopping"
  /\ UNCHANGED <<extraction, request, job, clock, attempt, factWrites, crashes,
                 requeues>>

\* The process dies: requests and the attempt in flight are lost.
Crash ==
  /\ Up
  /\ crashes < MaxCrashes
  /\ crashes' = crashes + 1
  /\ daemon' = "down"
  /\ attempt' = Idle
  /\ request' = [m \in Memories |-> "none"]
  /\ UNCHANGED <<extraction, job, clock, factWrites, requeues>>

Elapse(m) ==
  /\ \E row \in Aged(job[m]) : job' = [job EXCEPT ![m] = row]
  /\ UNCHANGED <<extraction, request, clock, daemon, attempt, factWrites,
                 crashes, requeues>>

Init ==
  /\ extraction = [m \in Memories |-> "absent"]
  /\ request = [m \in Memories |-> "none"]
  /\ job = [m \in Memories |-> NoRow]
  /\ clock = 0
  /\ daemon = "down"
  /\ attempt = Idle
  /\ factWrites = [m \in Memories |-> 0]
  /\ crashes = 0
  /\ requeues = 0

Next ==
  \/ \E m \in Memories :
       \/ Remember(m) \/ QueueExtractionJob(m) \/ QueueExtractionFails(m)
       \/ ModifyContent(m)
       \/ LeaseJob(m) \/ SkipExtraction(m) \/ GateExtraction(m)
       \/ StartExtraction(m) \/ FailExtraction(m) \/ LoseAttempt(m)
       \/ \E target \in Memories \cup {NoMemory} :
            CommitExtraction(m, target) \/ CommitThenFail(m, target)
       \/ Elapse(m)
  \/ ReapStaleLeases \/ ReleaseStaleLeases \/ RequeueDeadJobs
  \/ \E tombstones \in SUBSET Memories : RetentionSweep(tombstones)
  \/ StartPipelineRuntime \/ StopPipeline \/ Crash

Spec == Init /\ [][Next]_vars

\* Fairness while the daemon stays up: the tick chain reschedules itself, an
\* attempt ends because every provider call has a timeout, the reaper and the
\* sweep are intervals, and time passes.
Fairness ==
  /\ WF_vars(\E m \in Memories : LeaseJob(m))
  /\ WF_vars(\E m \in Memories : \/ SkipExtraction(m) \/ GateExtraction(m)
                                 \/ StartExtraction(m))
  /\ WF_vars(\E m \in Memories :
               \/ FailExtraction(m) \/ LoseAttempt(m)
               \/ \E target \in Memories \cup {NoMemory} :
                    CommitExtraction(m, target) \/ CommitThenFail(m, target))
  /\ WF_vars(ReapStaleLeases)
  /\ WF_vars(\E tombstones \in SUBSET Memories : RetentionSweep(tombstones))
  /\ \A m \in Memories : WF_vars(Elapse(m))

FairSpec == Spec /\ Fairness

(***************************************************************************)
(* Properties                                                               *)
(***************************************************************************)

TypeOK ==
  /\ extraction \in [Memories -> {"absent", "none", "pending", "completed",
                                  "failed", "gone"}]
  /\ request \in [Memories -> {"none", "saved"}]
  /\ job \in [Memories -> Row]
  /\ clock \in Nat
  /\ daemon \in Modes
  /\ attempt \in [stage : {"idle", "leased", "awaiting"},
                  mem : Memories \cup {NoMemory}, attempts : Nat]
  /\ factWrites \in [Memories -> Nat]
  /\ crashes \in Nat /\ requeues \in Nat

\* A retryable job always has an attempt left, and no job is attempted more
\* often than its row allows, although leaseJob compares attempts only with
\* the configured maxRetries, failJob trusts the count of a lease that may be
\* long lost, and a requeue resets the counter under a running attempt.
AttemptsWithinLimit ==
  \A m \in Memories :
    /\ job[m].attempts <= MaxAttempts
    /\ job[m].status = "pending" => job[m].attempts < MaxAttempts

\* Once a job is completed, or once a memory's facts are written, the memory
\* never reads as pending or failed again: no late failure, dead-lettering or
\* startup recovery reports the loss of an extraction that happened.
SettledStatus ==
  \A m \in Memories :
    job[m].status = "completed" \/ factWrites[m] > 0
      => extraction[m] \in {"completed", "none", "gone"}

\* A completed job is never retried: it stays completed until the retention
\* sweep deletes it, whatever the reaper, the repair actions, a restart or an
\* attempt that lost its lease do.
CompletedIsFinal ==
  [][\A m \in Memories :
       job[m].status = "completed" => job'[m].status \in {"completed", "absent"}
    ]_vars

\* How the status of a memory reads to ExtractionPromise.
PromiseStatus ==
  [m \in Memories |->
     IF extraction[m] \in {"none", "pending", "failed"} THEN "raw"
     ELSE IF extraction[m] = "completed" THEN "extracted" ELSE extraction[m]]

Promise ==
  INSTANCE ExtractionPromise WITH status <- PromiseStatus, facts <- factWrites

\* Over all leases, retries, reaps, requeues and restarts the facts of a memory
\* are written at most once (worker.ts: "Bail if memory was already extracted").
KeepsPromise == Promise!Spec

\* If the pipeline runs from some point on, no extract job stays live for ever:
\* it is completed, dead-lettered or purged, behind whatever slow, failing or
\* lost attempts (docs/CONFIGURATION.md: "A job that exceeds `maxRetries` moves
\* to dead-letter status").
LiveJobsSettle ==
  <>[](daemon = "running") =>
    \A m \in Memories : Live(job[m]) ~> ~Live(job[m])
=============================================================================
