------------------------------ MODULE SummaryJobs ------------------------------
(***************************************************************************)
(* A row of the summary_jobs table and what the SQL statements of the       *)
(* daemon do to it.  A row carries the part of a session's transcript it    *)
(* was enqueued with: the transcript it belongs to (a compaction starts a   *)
(* new one), the first part, the part after the last, and where the         *)
(* transcript ended, which is further if the text has been cut off.         *)
(*                                                                          *)
(* Unlike memory_jobs, a row records no lease: only "processing".           *)
(***************************************************************************)
EXTENDS Naturals

CONSTANT MaxAttempts   \* the max_attempts column, 3 wherever the daemon inserts

ASSUME AttemptsAssumption == MaxAttempts \in Nat \ {0}

Statuses == {"pending", "processing", "completed", "dead"}
Results == {"null", "command-stage-running", "command-stage-complete", "ok"}

PendingJob(text) ==
  [text |-> text, status |-> "pending", attempts |-> 0, result |-> "null"]

Leasable(job) == job.status = "pending" /\ job.attempts < MaxAttempts

LeaseJob(job) == [job EXCEPT !.status = "processing", !.attempts = @ + 1]

AfterAttempt(job) == IF job.attempts >= MaxAttempts THEN "dead" ELSE "pending"

\* The completion names the row by its id and looks at nothing else of it.
CompleteJob(job) == [job EXCEPT !.status = "completed", !.result = "ok"]

\* Faulty: the failure names the row by its id only, too.
FailAnyJob(job) == [job EXCEPT !.status = AfterAttempt(job)]

FailJob(job) ==
  IF job.status = "processing"
  THEN [job EXCEPT !.status = AfterAttempt(job)]
  ELSE job

\* Faulty: a restart always gives the job another attempt.
RecoverAlways(job) ==
  [job EXCEPT !.status = "pending",
              !.result = IF @ = "command-stage-running" THEN "null" ELSE @]

RecoverJob(job) ==
  [job EXCEPT !.status = AfterAttempt(job),
              !.result = IF @ = "command-stage-running" THEN "null" ELSE @]

MarkCommandStageRunning(job) ==
  IF job.status = "processing" /\ job.result = "null"
  THEN [job EXCEPT !.result = "command-stage-running"]
  ELSE job

ClearCommandStageRunning(job) ==
  IF job.status = "processing" /\ job.result = "command-stage-running"
  THEN [job EXCEPT !.result = "null"]
  ELSE job

MarkCommandStageCompleted(job) ==
  IF job.status = "processing"
     /\ job.result \in {"null", "command-stage-running"}
  THEN [job EXCEPT !.result = "command-stage-complete"]
  ELSE job

\* requeueDeadJobs and backfillSkippedSessions.
Requeue(job) == [job EXCEPT !.status = "pending", !.attempts = 0]
=============================================================================
