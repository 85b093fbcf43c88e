------------------------------ MODULE JobTable ------------------------------
(***************************************************************************)
(* A row of the memory_jobs table and what the SQL statements of the daemon *)
(* do to it.  Every worker that leases from the table shares these          *)
(* statements, so they are operators on one row; the modules that EXTEND    *)
(* this one decide which rows they are applied to, and when.                *)
(*                                                                          *)
(* Timestamps are kept by what the WHERE clauses can tell about them.       *)
(* leased_at is "fresh" until the lease timeout has passed.  failed_at is   *)
(* "recent" during the retry backoff, then "cooled", and "old" once the     *)
(* dead-job retention has passed.  completed_at is "recent" until the       *)
(* completed-job retention has passed.  created_at is a number: only the    *)
(* order of the rows matters.                                               *)
(***************************************************************************)
EXTENDS Naturals

CONSTANTS
  MaxAttempts,   \* the max_attempts column, 3 wherever the daemon inserts
  MaxRetries     \* pipelineCfg.worker.maxRetries, 1..10, read at every lease

ASSUME JobLimits == MaxAttempts \in Nat \ {0} /\ MaxRetries \in Nat \ {0}

Row == [status       : {"absent", "pending", "leased", "completed", "dead"},
        attempts     : Nat,
        leased_at    : {"null", "fresh", "expired"},
        failed_at    : {"null", "recent", "cooled", "old"},
        completed_at : {"null", "recent", "old"},
        created_at   : Nat]

\* No row: never inserted, or deleted by the retention worker.
NoRow == [status |-> "absent", attempts |-> 0, leased_at |-> "null",
          failed_at |-> "null", completed_at |-> "null", created_at |-> 0]

PendingRow(time) == [NoRow EXCEPT !.status = "pending", !.created_at = time]

DeadRow(time) ==
  [NoRow EXCEPT !.status = "dead", !.failed_at = "recent", !.created_at = time]

Live(row) == row.status \in {"pending", "leased"}

Lease(row) ==
  [row EXCEPT !.status = "leased", !.leased_at = "fresh", !.attempts = @ + 1]

\* completeJob and failJob name the row by its id and look at nothing else of
\* it: an UPDATE of a deleted row changes nothing, one of a row that has moved
\* on meanwhile does.
CompleteJob(row) ==
  IF row.status = "absent" THEN row
  ELSE [row EXCEPT !.status = "completed", !.completed_at = "recent"]

\* Faulty: writes the intermediate "failed" instead of mapping it to pending.
FailJobUnmapped(row, attempts) ==
  IF row.status = "absent" THEN row
  ELSE [row EXCEPT !.status = IF attempts >= MaxAttempts THEN "dead"
                              ELSE "failed",
                   !.failed_at = "recent"]

\* Faulty: gives up one attempt too late.
FailJobLate(row, attempts) ==
  IF row.status = "absent" THEN row
  ELSE [row EXCEPT !.status = IF attempts > MaxAttempts THEN "dead"
                              ELSE "pending",
                   !.failed_at = "recent"]

\* attempts is the counter the worker saw when it took the lease.
FailJob(row, attempts) ==
  IF row.status = "absent" THEN row
  ELSE [row EXCEPT !.status = IF attempts >= MaxAttempts THEN "dead"
                              ELSE "pending",
                   !.failed_at = "recent"]

DeadLetter(row) == [row EXCEPT !.status = "dead", !.failed_at = "recent"]

\* Faulty: forgets that completed rows keep their leased_at.
LeaseExpiredAnyStatus(row) == row.leased_at = "expired"

LeaseExpired(row) == row.status = "leased" /\ row.leased_at = "expired"

\* Faulty: returns every expired lease to the queue.
RecoverStaleLeaseAlways(row) ==
  IF ~LeaseExpired(row) THEN row
  ELSE [row EXCEPT !.status = "pending", !.leased_at = "null"]

RecoverStaleLease(row) ==
  IF ~LeaseExpired(row) THEN row
  ELSE IF row.attempts >= MaxAttempts
       THEN [DeadLetter(row) EXCEPT !.leased_at = "null"]
       ELSE [row EXCEPT !.status = "pending", !.leased_at = "null"]

Exhausted(row) ==
  /\ row.status = "pending"
  /\ row.attempts >= MaxAttempts \/ row.attempts >= MaxRetries

RecoverMemoryJob(row) ==
  IF Exhausted(row) THEN [row EXCEPT !.status = "dead"] ELSE row

RequeueDeadJob(row) == [row EXCEPT !.status = "pending", !.attempts = 0]

Purgeable(row) ==
  \/ row.status = "completed" /\ row.completed_at = "old"
  \/ row.status = "dead" /\ row.failed_at = "old"

\* Time passes: the timestamp that is read in the row's present status crosses
\* its next threshold.  (One that no statement reads in that status can as well
\* cross it when the row gets to where it is read.)
LeaseAges(row) ==
  IF row.status = "leased" /\ row.leased_at = "fresh"
  THEN [row EXCEPT !.leased_at = "expired"] ELSE row

BackoffEnds(row) ==
  IF row.status = "pending" /\ row.failed_at = "recent"
  THEN [row EXCEPT !.failed_at = "cooled"] ELSE row

RetentionEnds(row) ==
  CASE row.status = "dead" /\ row.failed_at # "null" ->
         [row EXCEPT !.failed_at = "old"]
    [] row.status = "completed" -> [row EXCEPT !.completed_at = "old"]
    [] OTHER -> row

Aged(row) == {LeaseAges(row), BackoffEnds(row), RetentionEnds(row)} \ {row}
=============================================================================
