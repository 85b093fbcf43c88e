------------------------ MODULE ExtractionQueueProofs ------------------------
(***************************************************************************)
(* Proofs about the extraction queue for any set of memories and any limits. *)
(* First what the row operators of JobTable do, then typing, then the two   *)
(* inductive invariants: the attempt counters, and the life of a job; last, *)
(* the timers of the worker that works it.                                  *)
(***************************************************************************)
EXTENDS ExtractionQueue, WorkerTicks, TLAPS

(***************************************************************************)
(* The row operators                                                        *)
(***************************************************************************)

LEMMA NewRows ==
  ASSUME NEW time \in Nat
  PROVE  /\ NoRow \in Row /\ NoRow.status = "absent" /\ NoRow.attempts = 0
         /\ PendingRow(time) \in Row /\ PendingRow(time).status = "pending"
         /\ PendingRow(time).attempts = 0
         /\ DeadRow(time) \in Row /\ DeadRow(time).status = "dead"
         /\ DeadRow(time).attempts = 0
BY DEF NoRow, PendingRow, DeadRow, Row

LEMMA LeasedRow ==
  ASSUME NEW row \in Row
  PROVE  /\ Lease(row) \in Row
         /\ Lease(row).status = "leased"
         /\ Lease(row).attempts = row.attempts + 1
<1>1. row.attempts + 1 \in Nat
  BY DEF Row
<1>2. Lease(row).status = "leased" /\ Lease(row).attempts = row.attempts + 1
  BY DEF Lease, Row
<1>3. Lease(row) \in Row
  BY <1>1 DEF Lease, Row
<1>. QED BY <1>2, <1>3

LEMMA EndedRow ==
  ASSUME NEW row \in Row, NEW n \in Nat
  PROVE  /\ CompleteJob(row) \in Row
         /\ CompleteJob(row).attempts = row.attempts
         /\ CompleteJob(row).status = IF row.status = "absent" THEN "absent"
                                      ELSE "completed"
         /\ FailJob(row, n) \in Row
         /\ FailJob(row, n).attempts = row.attempts
         /\ FailJob(row, n).status = IF row.status = "absent" THEN "absent"
                                     ELSE IF n >= MaxAttempts THEN "dead"
                                     ELSE "pending"
BY DEF CompleteJob, FailJob, Row

LEMMA DeadLetteredRow ==
  ASSUME NEW row \in Row
  PROVE  /\ DeadLetter(row) \in Row
         /\ DeadLetter(row).status = "dead"
         /\ DeadLetter(row).attempts = row.attempts
BY DEF DeadLetter, Row

LEMMA RecoveredRow ==
  ASSUME NEW row \in Row
  PROVE  /\ RecoverStaleLease(row) \in Row
         /\ RecoverStaleLease(row).attempts = row.attempts
         /\ \/ RecoverStaleLease(row).status = row.status
            \/ /\ row.status = "leased"
               /\ RecoverStaleLease(row).status =
                    IF row.attempts >= MaxAttempts THEN "dead" ELSE "pending"
         /\ RecoverMemoryJob(row) \in Row
         /\ RecoverMemoryJob(row).attempts = row.attempts
         /\ \/ RecoverMemoryJob(row).status = row.status
            \/ row.status = "pending" /\ RecoverMemoryJob(row).status = "dead"
BY DEF RecoverStaleLease, LeaseExpired, RecoverMemoryJob, Exhausted,
       DeadLetter, Row

LEMMA RequeuedRow ==
  ASSUME NEW row \in Row
  PROVE  /\ RequeueDeadJob(row) \in Row
         /\ RequeueDeadJob(row).status = "pending"
         /\ RequeueDeadJob(row).attempts = 0
BY DEF RequeueDeadJob, Row

LEMMA AgedRow ==
  ASSUME NEW row \in Row, NEW later \in Aged(row)
  PROVE  later \in Row /\ later.status = row.status
         /\ later.attempts = row.attempts
BY DEF Aged, LeaseAges, BackoffEnds, RetentionEnds, Row

(***************************************************************************)
(* Typing                                                                   *)
(***************************************************************************)

Extractions == {"absent", "none", "pending", "completed", "failed", "gone"}

LEMMA StatusSet ==
  ASSUME NEW m \in Memories, NEW s \in Extractions,
         extraction \in [Memories -> Extractions]
  PROVE  SetStatus(m, s) \in [Memories -> Extractions]
BY DEF SetStatus

LEMMA TypeInit == Init => TypeOK
BY NewRows DEF Init, TypeOK, Idle, Modes

LEMMA TypeRequest ==
  ASSUME TypeOK, NEW m \in Memories,
         \/ Remember(m) \/ QueueExtractionJob(m) \/ QueueExtractionFails(m)
         \/ ModifyContent(m)
  PROVE  TypeOK'
<1>. USE DEF TypeOK
<1>1. CASE Remember(m)
  BY <1>1 DEF Remember
<1>2. CASE QueueExtractionJob(m)
  <2>. clock + 1 \in Nat OBVIOUS
  <2>1. job' \in [Memories -> Row] /\ clock' \in Nat
    BY <1>2, NewRows, DeadLetteredRow
    DEF QueueExtractionJob, EnqueueExtractionJob, DeadLetterExtractionJob
  <2>2. extraction' \in [Memories -> Extractions]
    BY <1>2, StatusSet
    DEF QueueExtractionJob, EnqueueExtractionJob, DeadLetterExtractionJob,
        Extractions
  <2>. QED BY <1>2, <2>1, <2>2 DEF QueueExtractionJob, Extractions
<1>3. CASE QueueExtractionFails(m)
  BY <1>3, StatusSet DEF QueueExtractionFails, Extractions
<1>4. CASE ModifyContent(m)
  BY <1>4, StatusSet DEF ModifyContent, Extractions
<1>. QED BY <1>1, <1>2, <1>3, <1>4

LEMMA TypeTick ==
  ASSUME TypeOK, NEW m \in Memories,
         NEW target \in Memories \cup {NoMemory},
         \/ LeaseJob(m) \/ SkipExtraction(m) \/ GateExtraction(m)
         \/ StartExtraction(m) \/ FailExtraction(m) \/ LoseAttempt(m)
         \/ CommitExtraction(m, target) \/ CommitThenFail(m, target)
  PROVE  TypeOK'
<1>. USE DEF TypeOK
<1>1. CASE LeaseJob(m)
  <2>1. job[m].attempts + 1 \in Nat BY DEF Row
  <2>2. job' \in [Memories -> Row] BY <1>1, LeasedRow DEF LeaseJob
  <2>. QED BY <1>1, <2>1, <2>2 DEF LeaseJob
<1>2. CASE SkipExtraction(m)
  BY <1>2, EndedRow DEF SkipExtraction, EndTick, Idle
<1>3. CASE GateExtraction(m)
  BY <1>3, EndedRow, StatusSet DEF GateExtraction, EndTick, Idle, Extractions
<1>4. CASE StartExtraction(m)
  BY <1>4 DEF StartExtraction
<1>5. CASE FailExtraction(m)
  BY <1>5, EndedRow, StatusSet DEF FailExtraction, EndTick, Idle, Extractions
<1>6. CASE CommitExtraction(m, target)
  <2>1. factWrites' \in [Memories -> Nat] BY <1>6 DEF CommitExtraction
  <2>2. job' \in [Memories -> Row] BY <1>6, EndedRow DEF CommitExtraction
  <2>3. extraction' \in [Memories -> Extractions]
    BY <1>6 DEF CommitExtraction, Extractions
  <2>. QED BY <1>6, <2>1, <2>2, <2>3
           DEF CommitExtraction, EndTick, Idle, Extractions
<1>7. CASE CommitThenFail(m, target)
  <2>1. factWrites' \in [Memories -> Nat] BY <1>7 DEF CommitThenFail
  <2>2. attempt.attempts \in Nat /\ CompleteJob(job[m]) \in Row
    BY EndedRow
  <2>3. job' \in [Memories -> Row]
    <3>1. FailJob(CompleteJob(job[m]), attempt.attempts) \in Row
      <4>. DEFINE row == CompleteJob(job[m])
                  n == attempt.attempts
      <4>1. row \in Row /\ n \in Nat BY <2>2
      <4>. HIDE DEF row, n
      <4>2. FailJob(row, n) \in Row BY <4>1, EndedRow
      <4>. QED BY <4>2 DEF row, n
    <3>. QED BY <1>7, <3>1 DEF CommitThenFail
  <2>4. extraction' \in [Memories -> Extractions]
    BY <1>7 DEF CommitThenFail, Extractions
  <2>. QED BY <1>7, <2>1, <2>3, <2>4
           DEF CommitThenFail, EndTick, Idle, Extractions
<1>8. CASE LoseAttempt(m)
  BY <1>8 DEF LoseAttempt, EndTick, Idle
<1>. QED BY <1>1, <1>2, <1>3, <1>4, <1>5, <1>6, <1>7, <1>8

LEMMA TypeRest ==
  ASSUME TypeOK,
         \/ \E m \in Memories : Elapse(m)
         \/ ReapStaleLeases \/ ReleaseStaleLeases \/ RequeueDeadJobs
         \/ \E tombstones \in SUBSET Memories : RetentionSweep(tombstones)
         \/ StartPipelineRuntime \/ StopPipeline \/ Crash
         \/ UNCHANGED vars
  PROVE  TypeOK'
<1>. USE DEF TypeOK
<1>1. CASE \E m \in Memories : Elapse(m)
  BY <1>1, AgedRow DEF Elapse
<1>2. CASE ReapStaleLeases \/ ReleaseStaleLeases
  <2>1. RecoverStaleLeases
    BY <1>2 DEF ReapStaleLeases, ReleaseStaleLeases
  <2>. QED BY <2>1, RecoveredRow DEF RecoverStaleLeases
<1>3. CASE RequeueDeadJobs
  <2>1. job' \in [Memories -> Row]
    BY <1>3, RequeuedRow DEF RequeueDeadJobs
  <2>. QED BY <1>3, <2>1 DEF RequeueDeadJobs
<1>4. CASE \E tombstones \in SUBSET Memories : RetentionSweep(tombstones)
  BY <1>4, NewRows DEF RetentionSweep
<1>5. CASE StartPipelineRuntime
  BY <1>5, RecoveredRow, DeadLetteredRow
  DEF StartPipelineRuntime, StartWorker, StartBlocked, StartPaused, Modes
<1>6. CASE StopPipeline
  BY <1>6 DEF StopPipeline, Modes
<1>7. CASE Crash
  BY <1>7 DEF Crash, Idle, Modes
<1>8. CASE UNCHANGED vars
  BY <1>8 DEF vars
<1>. QED BY <1>1, <1>2, <1>3, <1>4, <1>5, <1>6, <1>7, <1>8

\* Every reachable state of the queue is well typed: statuses, timestamps and
\* counters stay in the domains the memory_jobs and memories columns have.
THEOREM TypeCorrect == Spec => []TypeOK
<1>1. Init => TypeOK BY TypeInit
<1>2. TypeOK /\ [Next]_vars => TypeOK'
  BY TypeRequest, TypeTick, TypeRest DEF Next
<1>. QED BY <1>1, <1>2, PTL DEF Spec

(***************************************************************************)
(* The attempt counters                                                     *)
(***************************************************************************)

\* An attempt that runs has not been given more tries than its row allows, and
\* the row counts at most the tries the attempt knows of: the row cannot be
\* leased again before the attempt ends, and a requeue only lowers the count.
\* So a retry after the attempt's failure finds an attempt left.
AttemptCounted ==
  /\ attempt.stage = "idle" <=> attempt.mem = NoMemory
  /\ attempt.stage # "idle" =>
       /\ attempt.attempts <= MaxAttempts
       /\ job[attempt.mem].attempts <= attempt.attempts

CountInv == TypeOK /\ AttemptsWithinLimit /\ AttemptCounted

(***************************************************************************)
(* The life of a job                                                        *)
(***************************************************************************)

\* The row of a memory is inserted by the one request that saved it, and stays
\* absent, or completed until it is purged, once the facts are written.  The
\* attempt in flight is for a memory without facts whose row, if there still
\* is one, is not completed, and reads a memory that is not extracted.
Life(m) ==
  /\ extraction[m] = "absent" \/ request[m] = "saved" =>
       job[m].status = "absent" /\ factWrites[m] = 0 /\ attempt.mem # m
  /\ extraction[m] = "absent" => request[m] = "none"
  /\ request[m] = "saved" => extraction[m] # "gone"
  /\ factWrites[m] > 0 =>
       factWrites[m] = 1 /\ job[m].status \in {"completed", "absent"}
  /\ attempt.mem = m =>
       /\ factWrites[m] = 0 /\ job[m].status # "completed"
       /\ attempt.stage = "awaiting" => extraction[m] # "completed"

LifeInv == CountInv /\ SettledStatus /\ \A m \in Memories : Life(m)

LEMMA CountInit == Init => CountInv
BY TypeInit, JobLimits
DEF Init, CountInv, AttemptsWithinLimit, AttemptCounted, NoRow, Idle

LEMMA CountRequest ==
  ASSUME CountInv, TypeOK', NEW m \in Memories,
         \/ Remember(m) \/ QueueExtractionJob(m) \/ QueueExtractionFails(m)
         \/ ModifyContent(m)
  PROVE  CountInv'
<1>. USE JobLimits DEF CountInv
<1>1. CASE Remember(m) \/ QueueExtractionFails(m) \/ ModifyContent(m)
  BY <1>1 DEF Remember, QueueExtractionFails, ModifyContent,
              AttemptsWithinLimit, AttemptCounted
<1>2. CASE QueueExtractionJob(m)
  <2>1. /\ attempt' = attempt
        /\ \A n \in Memories : n # m => job'[n] = job[n]
        /\ \/ job'[m] = job[m]
           \/ job'[m].attempts = 0
           \/ job'[m].attempts = job[m].attempts /\ job'[m].status = "dead"
    BY <1>2, NewRows, DeadLetteredRow
    DEF TypeOK, QueueExtractionJob, EnqueueExtractionJob,
        DeadLetterExtractionJob
  <2>2. job'[m].attempts <= job[m].attempts
    BY <2>1 DEF TypeOK, Row
  <2>3. AttemptsWithinLimit' BY <2>1, <2>2 DEF AttemptsWithinLimit, TypeOK, Row
  <2>4. AttemptCounted' BY <2>1, <2>2 DEF AttemptCounted, TypeOK, Row
  <2>. QED BY <2>3, <2>4
<1>. QED BY <1>1, <1>2

LEMMA CountTick ==
  ASSUME CountInv, TypeOK', NEW m \in Memories,
         NEW target \in Memories \cup {NoMemory},
         \/ LeaseJob(m) \/ SkipExtraction(m) \/ GateExtraction(m)
         \/ StartExtraction(m) \/ FailExtraction(m) \/ LoseAttempt(m)
         \/ CommitExtraction(m, target) \/ CommitThenFail(m, target)
  PROVE  CountInv'
<1>. USE JobLimits, QueueAssumption DEF CountInv
<1>1. CASE LeaseJob(m)
  <2>1. /\ job[m].status = "pending"
        /\ job' = [job EXCEPT ![m] = Lease(job[m])]
        /\ attempt' = [stage |-> "leased", mem |-> m,
                       attempts |-> job[m].attempts + 1]
    BY <1>1 DEF LeaseJob, OldestLeasable, Leasable
  <2>2. /\ job'[m].status = "leased"
        /\ job'[m].attempts = job[m].attempts + 1
        /\ job[m].attempts + 1 <= MaxAttempts
    BY <2>1, LeasedRow DEF TypeOK, AttemptsWithinLimit, Row
  <2>3. AttemptsWithinLimit' BY <2>1, <2>2 DEF AttemptsWithinLimit, TypeOK
  <2>4. AttemptCounted' BY <2>1, <2>2 DEF AttemptCounted, TypeOK, Row
  <2>. QED BY <2>3, <2>4
<1>2. CASE StartExtraction(m)
  BY <1>2 DEF StartExtraction, AttemptsWithinLimit, AttemptCounted, TypeOK
<1>3. CASE \/ SkipExtraction(m) \/ GateExtraction(m)
           \/ CommitExtraction(m, target)
  <2>1. attempt' = Idle /\ job' = [job EXCEPT ![m] = CompleteJob(job[m])]
    BY <1>3 DEF SkipExtraction, GateExtraction, CommitExtraction, EndTick
  <2>2. job'[m].attempts = job[m].attempts /\ job'[m].status # "pending"
    BY <2>1, EndedRow DEF TypeOK
  <2>. QED BY <2>1, <2>2 DEF AttemptsWithinLimit, AttemptCounted, TypeOK, Idle
<1>4. CASE FailExtraction(m) \/ CommitThenFail(m, target)
  <2>1. /\ attempt.mem = m /\ attempt.stage # "idle" /\ attempt' = Idle
        /\ \E row \in {job[m], CompleteJob(job[m])} :
             job' = [job EXCEPT ![m] = FailJob(row, attempt.attempts)]
    BY <1>4 DEF FailExtraction, CommitThenFail, EndTick
  <2>2. /\ attempt.attempts \in Nat /\ job[m].attempts \in Nat
        /\ job[m].attempts <= attempt.attempts
        /\ job[m] \in Row
    BY <2>1 DEF TypeOK, AttemptCounted, Row
  <2>3. PICK row \in {job[m], CompleteJob(job[m])} :
          job' = [job EXCEPT ![m] = FailJob(row, attempt.attempts)]
    BY <2>1
  <2>4. row \in Row /\ row.attempts = job[m].attempts
    BY <2>2, <2>3, EndedRow
  <2>5. job'[m] = FailJob(row, attempt.attempts)
    BY <2>3 DEF TypeOK
  <2>6. /\ job'[m].attempts = job[m].attempts
        /\ job'[m].status = "pending" => ~(attempt.attempts >= MaxAttempts)
    <3>. DEFINE n == attempt.attempts
    <3>1. row \in Row /\ n \in Nat BY <2>2, <2>4
    <3>. HIDE DEF n
    <3>2. /\ FailJob(row, n).attempts = row.attempts
          /\ FailJob(row, n).status = "pending" => ~(n >= MaxAttempts)
      BY <3>1, EndedRow
    <3>. QED BY <2>4, <2>5, <3>2 DEF n
  <2>7. \A k \in Memories : k # m => job'[k] = job[k]
    BY <2>3 DEF TypeOK
  <2>. QED BY <2>1, <2>2, <2>6, <2>7
           DEF AttemptsWithinLimit, AttemptCounted, TypeOK, Idle
<1>5. CASE LoseAttempt(m)
  <2>1. job' = job /\ attempt' = Idle
    BY <1>5 DEF LoseAttempt, EndTick
  <2>2. AttemptsWithinLimit' BY <2>1 DEF AttemptsWithinLimit
  <2>3. AttemptCounted' BY <2>1 DEF AttemptCounted, Idle
  <2>. QED BY <2>2, <2>3
<1>. QED BY <1>1, <1>2, <1>3, <1>4, <1>5

LEMMA RequeueStep ==
  ASSUME RequeueDeadJobs, NEW m \in Memories
  PROVE  /\ UNCHANGED <<extraction, request, attempt, factWrites>>
         /\ \/ job'[m] = job[m]
            \/ job[m].status = "dead" /\ job'[m] = RequeueDeadJob(job[m])
<1>1. UNCHANGED <<extraction, request, attempt, factWrites>>
  BY DEF RequeueDeadJobs
<1>2. PICK batch \in SUBSET {k \in Memories : job[k].status = "dead"} :
        job' = [k \in Memories |-> IF k \in batch THEN RequeueDeadJob(job[k])
                                   ELSE job[k]]
  BY DEF RequeueDeadJobs
<1>. QED BY <1>1, <1>2

LEMMA CountRest ==
  ASSUME CountInv, TypeOK',
         \/ \E m \in Memories : Elapse(m)
         \/ ReapStaleLeases \/ ReleaseStaleLeases \/ RequeueDeadJobs
         \/ \E tombstones \in SUBSET Memories : RetentionSweep(tombstones)
         \/ StartPipelineRuntime \/ StopPipeline \/ Crash
         \/ UNCHANGED vars
  PROVE  CountInv'
<1>. USE JobLimits, QueueAssumption DEF CountInv
<1>0. ASSUME attempt' \in {attempt, Idle},
             \A m \in Memories :
               /\ job'[m].attempts <= job[m].attempts
               /\ job'[m].status = "pending" =>
                    job'[m].attempts < MaxAttempts
      PROVE  CountInv'
  <2>1. AttemptsWithinLimit' BY <1>0 DEF AttemptsWithinLimit, TypeOK, Row
  <2>2. AttemptCounted' BY <1>0 DEF AttemptCounted, TypeOK, Row, Idle
  <2>. QED BY <2>1, <2>2
<1>1. CASE \E m \in Memories : Elapse(m)
  BY <1>1, <1>0, AgedRow DEF Elapse, TypeOK, AttemptsWithinLimit, Row
<1>2. CASE ReapStaleLeases \/ ReleaseStaleLeases
  <2>1. RecoverStaleLeases
    BY <1>2 DEF ReapStaleLeases, ReleaseStaleLeases
  <2>2. /\ attempt' = attempt
        /\ \A m \in Memories : job'[m] = RecoverStaleLease(job[m])
    BY <2>1 DEF RecoverStaleLeases
  <2>3. \A m \in Memories :
          /\ job'[m].attempts = job[m].attempts
          /\ \/ job'[m].status = job[m].status
             \/ job'[m].status =
                  IF job[m].attempts >= MaxAttempts THEN "dead" ELSE "pending"
    BY <2>2, RecoveredRow DEF TypeOK
  <2>4. ASSUME NEW m \in Memories
        PROVE  /\ job'[m].attempts <= job[m].attempts
               /\ job'[m].status = "pending" => job'[m].attempts < MaxAttempts
    <3>1. job[m].attempts \in Nat BY DEF TypeOK, Row
    <3>2. job[m].status = "pending" => job[m].attempts < MaxAttempts
      BY DEF AttemptsWithinLimit
    <3>. QED BY <2>3, <3>1, <3>2
  <2>. QED BY <2>2, <2>4, <1>0
<1>3. CASE RequeueDeadJobs
  <2>1. \A m \in Memories : job'[m] \in {job[m], RequeueDeadJob(job[m])}
    BY <1>3, RequeueStep
  <2>2. ASSUME NEW m \in Memories
        PROVE  /\ job'[m].attempts <= job[m].attempts
               /\ job'[m].status = "pending" => job'[m].attempts < MaxAttempts
    <3>1. CASE job'[m] = job[m]
      BY <3>1 DEF TypeOK, AttemptsWithinLimit, Row
    <3>2. CASE job'[m] = RequeueDeadJob(job[m])
      <4>1. job'[m].attempts = 0 BY <3>2, RequeuedRow DEF TypeOK
      <4>2. job[m].attempts \in Nat BY DEF TypeOK, Row
      <4>. QED BY <4>1, <4>2
    <3>. QED BY <2>1, <3>1, <3>2
  <2>3. attempt' \in {attempt, Idle} BY <1>3 DEF RequeueDeadJobs
  <2>. QED BY <2>2, <2>3, <1>0
<1>4. CASE \E tombstones \in SUBSET Memories : RetentionSweep(tombstones)
  <2>1. /\ attempt' = attempt
        /\ \A m \in Memories : job'[m] \in {job[m], NoRow}
    BY <1>4 DEF RetentionSweep
  <2>2. NoRow.attempts = 0 /\ NoRow.status = "absent" BY DEF NoRow
  <2>3. ASSUME NEW m \in Memories
        PROVE  /\ job'[m].attempts <= job[m].attempts
               /\ job'[m].status = "pending" => job'[m].attempts < MaxAttempts
    BY <2>1, <2>2, <2>3 DEF TypeOK, AttemptsWithinLimit, Row
  <2>4. attempt' \in {attempt, Idle} BY <2>1
  <2>. QED BY <2>3, <2>4, <1>0
<1>5. CASE StartPipelineRuntime
  <2>1. /\ attempt' = attempt
        /\ \A m \in Memories :
             job'[m] \in {job[m], RecoverMemoryJob(job[m]), DeadLetter(job[m])}
    BY <1>5 DEF StartPipelineRuntime, StartWorker, StartBlocked, StartPaused,
                TypeOK
  <2>2. \A m \in Memories :
          /\ job'[m].attempts = job[m].attempts
          /\ job'[m].status \in {job[m].status, "dead"}
    BY <2>1, RecoveredRow, DeadLetteredRow DEF TypeOK
  <2>. QED BY <2>1, <2>2, <1>0 DEF TypeOK, AttemptsWithinLimit, Row
<1>6. CASE StopPipeline \/ Crash \/ UNCHANGED vars
  <2>1. job' = job /\ attempt' \in {attempt, Idle}
    BY <1>6 DEF StopPipeline, Crash, vars
  <2>. QED BY <2>1, <1>0 DEF TypeOK, AttemptsWithinLimit, Row
<1>. QED BY <1>1, <1>2, <1>3, <1>4, <1>5, <1>6

LEMMA CountNext == CountInv /\ [Next]_vars => CountInv'
<1>. SUFFICES ASSUME CountInv, [Next]_vars PROVE CountInv'
  OBVIOUS
<1>1. TypeOK'
  BY TypeRequest, TypeTick, TypeRest DEF CountInv, Next
<1>. QED BY <1>1, CountRequest, CountTick, CountRest DEF Next

\* A pending job always has an attempt left and no job exceeds its limit, for
\* every relation between maxRetries and max_attempts.
THEOREM AttemptsBounded == Spec => []AttemptsWithinLimit
<1>1. CountInv => AttemptsWithinLimit BY DEF CountInv
<1>. QED BY <1>1, CountInit, CountNext, PTL DEF Spec

LEMMA LifeInit == Init => LifeInv
BY CountInit, QueueAssumption
DEF Init, LifeInv, Life, SettledStatus, NoRow, Idle

\* LifeInv is preserved when each memory keeps its part of it.
Keeps(m) ==
  /\ Life(m)'
  /\ (job[m].status = "completed" \/ factWrites[m] > 0 =>
       extraction[m] \in {"completed", "none", "gone"})'

LEMMA LifeRequest ==
  ASSUME LifeInv, CountInv', NEW m \in Memories, NEW n \in Memories,
         \/ Remember(m) \/ QueueExtractionJob(m) \/ QueueExtractionFails(m)
         \/ ModifyContent(m)
  PROVE  Keeps(n)
<1>. USE DEF LifeInv, CountInv, TypeOK, Life, SettledStatus, Keeps
<1>1. CASE Remember(m)
  BY <1>1 DEF Remember
<1>2. CASE QueueExtractionJob(m)
  <2>1. /\ Saved(m) /\ job[m].status = "absent" /\ factWrites[m] = 0
        /\ attempt.mem # m /\ attempt' = attempt /\ factWrites' = factWrites
        /\ request' = [request EXCEPT ![m] = "none"]
    BY <1>2 DEF QueueExtractionJob, Saved
  <2>2. /\ \/ job'[n] = job[n]
           \/ n = m /\ job'[m].status \in {"pending", "dead"}
        /\ \/ extraction'[n] = extraction[n]
           \/ n = m /\ extraction'[m] = "failed"
    BY <1>2, <2>1, NewRows
    DEF QueueExtractionJob, EnqueueExtractionJob, DeadLetterExtractionJob,
        SetStatus
  <2>3. job[n] \in Row /\ job'[n] \in Row OBVIOUS
  <2>4. n = m => job'[m].status # "completed"
    BY <2>1, <2>2
  <2>. QED BY <2>1, <2>2, <2>3, <2>4 DEF Saved
<1>3. CASE QueueExtractionFails(m)
  BY <1>3 DEF QueueExtractionFails, SetStatus, Saved
<1>4. CASE ModifyContent(m)
  BY <1>4 DEF ModifyContent, SetStatus, Saved
<1>. QED BY <1>1, <1>2, <1>3, <1>4

\* What the steps that end an attempt have in common: they touch one row, and
\* the memories they touch become completed, or the attempt's own one failed.
EndsAttempt(m) ==
  /\ attempt.mem = m /\ attempt' = Idle /\ UNCHANGED request
  /\ \A k \in Memories : k # m => job'[k] = job[k]
  /\ job[m].status = "absent" => job'[m].status = "absent"
  /\ \A k \in Memories : k # m => factWrites'[k] = factWrites[k]
  /\ \/ factWrites'[m] = 0
     \/ factWrites'[m] = 1 /\ job'[m].status \in {"completed", "absent"}
  /\ \A k \in Memories : \/ extraction'[k] = extraction[k]
                         \/ Saved(k) /\ extraction'[k] = "completed"
                         \/ k = m /\ Saved(m) /\ extraction'[m] = "failed"
  /\ job'[m].status = "completed" \/ factWrites'[m] = 1 =>
       extraction'[m] \in {"completed", "none", "gone"}

LEMMA LifeEnd ==
  ASSUME LifeInv, CountInv', NEW m \in Memories, NEW n \in Memories,
         EndsAttempt(m)
  PROVE  Keeps(n)
<1>. USE QueueAssumption
     DEF LifeInv, CountInv, TypeOK, Life, SettledStatus, Keeps, EndsAttempt
<1>1. extraction[m] # "absent" /\ request[m] = "none" OBVIOUS
<1>2. CASE n = m BY <1>1, <1>2 DEF Idle, Saved
<1>3. CASE n # m BY <1>3 DEF Idle, Saved
<1>. QED BY <1>2, <1>3

LEMMA TickEnds ==
  ASSUME ~LateFailure, LifeInv, NEW m \in Memories, NEW target \in Memories \cup {NoMemory},
         \/ SkipExtraction(m) \/ GateExtraction(m) \/ FailExtraction(m)
         \/ CommitExtraction(m, target) \/ CommitThenFail(m, target)
         \/ LoseAttempt(m)
  PROVE  EndsAttempt(m)
<1>. USE QueueAssumption
     DEF LifeInv, CountInv, TypeOK, Life, SettledStatus
<1>1. CASE SkipExtraction(m)
  <2>1. /\ attempt.mem = m /\ attempt' = Idle /\ UNCHANGED request
        /\ extraction' = extraction /\ factWrites' = factWrites
        /\ job' = [job EXCEPT ![m] = CompleteJob(job[m])]
        /\ ~Saved(m) \/ extraction[m] = "completed"
    BY <1>1 DEF SkipExtraction, EndTick
  <2>2. /\ \A k \in Memories : k # m => job'[k] = job[k]
        /\ job'[m].status \in {"completed", "absent"}
        /\ job[m].status = "absent" => job'[m].status = "absent"
    BY <2>1, EndedRow
  <2>3. extraction'[m] \in {"completed", "none", "gone"}
    BY <2>1 DEF Saved
  <2>4. factWrites'[m] = 0 BY <2>1
  <2>. QED BY <2>1, <2>2, <2>3, <2>4 DEF EndsAttempt
<1>2. CASE GateExtraction(m)
  <2>1. /\ attempt.mem = m /\ attempt' = Idle /\ UNCHANGED request
        /\ factWrites' = factWrites /\ Saved(m)
        /\ job' = [job EXCEPT ![m] = CompleteJob(job[m])]
        /\ extraction' = SetStatus(m, "completed")
    BY <1>2 DEF GateExtraction, EndTick
  <2>2. /\ \A k \in Memories : k # m => job'[k] = job[k]
        /\ job'[m].status \in {"completed", "absent"}
        /\ job[m].status = "absent" => job'[m].status = "absent"
    BY <2>1, EndedRow
  <2>3. /\ \A k \in Memories : k # m => extraction'[k] = extraction[k]
        /\ extraction'[m] = "completed"
    BY <2>1 DEF SetStatus
  <2>4. factWrites'[m] = 0 BY <2>1
  <2>. QED BY <2>1, <2>2, <2>3, <2>4 DEF EndsAttempt
<1>3. CASE CommitExtraction(m, target)
  <2>1. /\ attempt.mem = m /\ attempt.stage = "awaiting" /\ attempt' = Idle
        /\ UNCHANGED request
        /\ factWrites' = [factWrites EXCEPT ![m] = factWrites[m] + 1]
        /\ job' = [job EXCEPT ![m] = CompleteJob(job[m])]
        /\ \A k \in Memories :
             extraction'[k] = IF k \in {m, target} /\ Saved(k) THEN "completed"
                              ELSE extraction[k]
    BY <1>3 DEF CommitExtraction, EndTick
  <2>2. /\ \A k \in Memories : k # m => job'[k] = job[k]
        /\ job'[m].status \in {"completed", "absent"}
        /\ job[m].status = "absent" => job'[m].status = "absent"
    BY <2>1, EndedRow
  <2>3. /\ \A k \in Memories : k # m => factWrites'[k] = factWrites[k]
        /\ factWrites'[m] = 1
    BY <2>1
  <2>4. extraction[m] # "absent" BY <2>1
  <2>5. extraction'[m] \in {"completed", "none", "gone"}
    BY <2>1, <2>4 DEF Saved
  <2>6. \A k \in Memories : \/ extraction'[k] = extraction[k]
                            \/ Saved(k) /\ extraction'[k] = "completed"
    BY <2>1
  <2>. QED BY <2>1, <2>2, <2>3, <2>5, <2>6 DEF EndsAttempt
<1>4. CASE FailExtraction(m)
  <2>1. /\ attempt.mem = m /\ attempt' = Idle /\ UNCHANGED request
        /\ factWrites' = factWrites
        /\ job' = [job EXCEPT ![m] = FailJob(job[m], attempt.attempts)]
        /\ \/ extraction' = extraction
           \/ extraction' = SetStatus(m, "failed")
    BY <1>4 DEF FailExtraction, EndTick
  <2>2. attempt.attempts \in Nat /\ job[m] \in Row OBVIOUS
  <2>3. /\ \A k \in Memories : k # m => job'[k] = job[k]
        /\ job'[m] = FailJob(job[m], attempt.attempts)
    BY <2>1
  <2>4. /\ job'[m].status \in {"absent", "pending", "dead"}
        /\ job[m].status = "absent" => job'[m].status = "absent"
    <3>. DEFINE row == job[m]
                a == attempt.attempts
    <3>1. row \in Row /\ a \in Nat BY <2>2
    <3>. HIDE DEF row, a, LifeInv, CountInv, TypeOK, Life, SettledStatus
    <3>2. /\ FailJob(row, a).status \in {"absent", "pending", "dead"}
          /\ row.status = "absent" => FailJob(row, a).status = "absent"
      BY <3>1, EndedRow
    <3>. QED BY <2>3, <3>2 DEF row, a
  <2>5. \A k \in Memories : \/ extraction'[k] = extraction[k]
                            \/ /\ k = m /\ Saved(m)
                               /\ extraction'[m] = "failed"
    BY <2>1 DEF SetStatus
  <2>6. factWrites'[m] = 0 BY <2>1
  <2>. QED BY <2>1, <2>3, <2>4, <2>5, <2>6 DEF EndsAttempt
<1>5. CASE CommitThenFail(m, target)
  BY <1>5 DEF CommitThenFail
<1>6. CASE LoseAttempt(m)
  <2>1. /\ attempt.mem = m /\ attempt' = Idle
        /\ UNCHANGED <<request, extraction, factWrites, job>>
    BY <1>6 DEF LoseAttempt, EndTick
  <2>2. factWrites[m] = 0 /\ job[m].status # "completed" BY <2>1
  <2>. QED BY <2>1, <2>2 DEF EndsAttempt
<1>. QED BY <1>1, <1>2, <1>3, <1>4, <1>5, <1>6

LEMMA LifeTick ==
  ASSUME ~LateFailure, LifeInv, CountInv', NEW m \in Memories, NEW n \in Memories,
         NEW target \in Memories \cup {NoMemory},
         \/ LeaseJob(m) \/ SkipExtraction(m) \/ GateExtraction(m)
         \/ StartExtraction(m) \/ FailExtraction(m) \/ LoseAttempt(m)
         \/ CommitExtraction(m, target) \/ CommitThenFail(m, target)
  PROVE  Keeps(n)
<1>. USE QueueAssumption
     DEF LifeInv, CountInv, TypeOK, Life, SettledStatus, Keeps
<1>1. CASE LeaseJob(m)
  <2>1. /\ job[m].status = "pending" /\ job'[m].status = "leased"
        /\ \A k \in Memories : k # m => job'[k] = job[k]
        /\ attempt'.mem = m /\ attempt'.stage = "leased"
        /\ UNCHANGED <<extraction, request, factWrites>>
    BY <1>1, LeasedRow DEF LeaseJob, OldestLeasable, Leasable
  <2>2. extraction[m] # "absent" /\ request[m] = "none" /\ factWrites[m] = 0
    BY <2>1
  <2>3. CASE n = m BY <2>1, <2>2, <2>3
  <2>4. CASE n # m BY <2>1, <2>4
  <2>. QED BY <2>3, <2>4
<1>2. CASE StartExtraction(m)
  BY <1>2 DEF StartExtraction
<1>3. CASE \/ SkipExtraction(m) \/ GateExtraction(m) \/ FailExtraction(m)
           \/ CommitExtraction(m, target) \/ CommitThenFail(m, target)
           \/ LoseAttempt(m)
  <2>1. EndsAttempt(m) BY <1>3, TickEnds
  <2>. QED BY <2>1, LifeEnd
<1>. QED BY <1>1, <1>2, <1>3

LEMMA LifeRest ==
  ASSUME LifeInv, CountInv', NEW n \in Memories,
         \/ \E m \in Memories : Elapse(m)
         \/ ReapStaleLeases \/ ReleaseStaleLeases \/ RequeueDeadJobs
         \/ \E tombstones \in SUBSET Memories : RetentionSweep(tombstones)
         \/ StartPipelineRuntime \/ StopPipeline \/ Crash
         \/ UNCHANGED vars
  PROVE  Keeps(n)
<1>. USE QueueAssumption
     DEF LifeInv, CountInv, TypeOK, Life, SettledStatus, Keeps
<1>0. ASSUME UNCHANGED factWrites, attempt' \in {attempt, Idle},
             request'[n] \in {request[n], "none"},
             \/ extraction'[n] = extraction[n]
             \/ /\ Saved(n) /\ extraction'[n] = "failed"
                /\ job[n].status = "pending"
             \/ /\ Saved(n) /\ extraction'[n] = "gone"
                /\ request[n] = "none",
             \/ job'[n].status = job[n].status
             \/ job'[n].status = "absent"
             \/ /\ job[n].status \notin {"absent", "completed"}
                /\ job'[n].status \in {"pending", "dead"}
      PROVE  Keeps(n)
  <2>1. CASE job'[n].status = job[n].status
    BY <1>0, <2>1 DEF Saved, Idle
  <2>2. CASE job'[n].status = "absent"
    BY <1>0, <2>2 DEF Saved, Idle
  <2>3. CASE /\ job[n].status \notin {"absent", "completed"}
             /\ job'[n].status \in {"pending", "dead"}
    BY <1>0, <2>3 DEF Saved, Idle
  <2>. QED BY <1>0, <2>1, <2>2, <2>3
<1>1. CASE \E m \in Memories : Elapse(m)
  <2>1. /\ UNCHANGED <<factWrites, attempt, request, extraction>>
        /\ job'[n].status = job[n].status
    BY <1>1, AgedRow DEF Elapse
  <2>. QED BY <2>1, <1>0
<1>2. CASE ReapStaleLeases \/ ReleaseStaleLeases
  <2>1. RecoverStaleLeases
    BY <1>2 DEF ReapStaleLeases, ReleaseStaleLeases
  <2>2. /\ UNCHANGED <<factWrites, attempt, request, extraction>>
        /\ job'[n] = RecoverStaleLease(job[n])
    BY <2>1 DEF RecoverStaleLeases
  <2>3. \/ job'[n].status = job[n].status
        \/ /\ job[n].status = "leased"
           /\ job'[n].status \in {"pending", "dead"}
    BY <2>2, RecoveredRow
  <2>. QED BY <2>2, <2>3, <1>0
<1>3. CASE RequeueDeadJobs
  <2>1. /\ UNCHANGED <<factWrites, attempt, request, extraction>>
        /\ \/ job'[n] = job[n]
           \/ job[n].status = "dead" /\ job'[n] = RequeueDeadJob(job[n])
    BY <1>3, RequeueStep
  <2>2. \/ job'[n].status = job[n].status
        \/ job[n].status = "dead" /\ job'[n].status = "pending"
    BY <2>1, RequeuedRow
  <2>. QED BY <2>1, <2>2, <1>0
<1>4. CASE \E tombstones \in SUBSET Memories : RetentionSweep(tombstones)
  <2>1. /\ UNCHANGED <<factWrites, attempt, request>>
        /\ \/ extraction'[n] = extraction[n]
           \/ Saved(n) /\ extraction'[n] = "gone" /\ request[n] = "none"
        /\ job'[n] \in {job[n], NoRow}
    BY <1>4 DEF RetentionSweep
  <2>2. \/ job'[n].status = job[n].status
        \/ job'[n].status = "absent"
    BY <2>1 DEF NoRow
  <2>. QED BY <2>1, <2>2, <1>0
<1>5. CASE StartPipelineRuntime
  <2>1. /\ UNCHANGED <<factWrites, attempt, request>>
        /\ \/ extraction'[n] = extraction[n]
           \/ /\ Saved(n) /\ extraction'[n] = "failed"
              /\ job[n].status = "pending"
        /\ \/ job'[n] = job[n]
           \/ job'[n] = RecoverMemoryJob(job[n])
           \/ job[n].status = "pending" /\ job'[n] = DeadLetter(job[n])
    BY <1>5 DEF StartPipelineRuntime, StartWorker, StartBlocked, StartPaused
  <2>2. \/ job'[n].status = job[n].status
        \/ job[n].status = "pending" /\ job'[n].status = "dead"
    BY <2>1, RecoveredRow, DeadLetteredRow
  <2>. QED BY <2>1, <2>2, <1>0
<1>6. CASE StopPipeline \/ Crash \/ UNCHANGED vars
  <2>1. /\ UNCHANGED <<factWrites, extraction, job>>
        /\ attempt' \in {attempt, Idle}
        /\ request'[n] \in {request[n], "none"}
    BY <1>6 DEF StopPipeline, Crash, vars
  <2>. QED BY <2>1, <1>0
<1>. QED BY <1>1, <1>2, <1>3, <1>4, <1>5, <1>6

LEMMA LifeNext ==
  ASSUME ~LateFailure, LifeInv, [Next]_vars
  PROVE  LifeInv'
<1>1. CountInv' BY CountNext DEF LifeInv
<1>2. ASSUME NEW n \in Memories PROVE Keeps(n)
  BY <1>1, LifeRequest, LifeTick, LifeRest DEF Next
<1>. QED BY <1>1, <1>2 DEF LifeInv, Keeps, SettledStatus

LEMMA LifeAlways ==
  ASSUME ~LateFailure
  PROVE  Spec => []LifeInv
<1>1. LifeInv /\ [Next]_vars => LifeInv' BY LifeNext
<1>. QED BY <1>1, LifeInit, PTL DEF Spec

\* A memory whose job completed, or whose facts are written, never reads as
\* pending or failed.
THEOREM SettledForGood ==
  ASSUME ~LateFailure
  PROVE  Spec => []SettledStatus
<1>1. LifeInv => SettledStatus BY DEF LifeInv
<1>. QED BY <1>1, LifeAlways, PTL

\* No step takes a completed row anywhere but out of the table.
LEMMA CompletedStep ==
  ASSUME ~LateFailure, LifeInv, [Next]_vars, NEW n \in Memories, job[n].status = "completed"
  PROVE  job'[n].status \in {"completed", "absent"}
<1>. USE DEF LifeInv, CountInv, TypeOK
<1>1. ASSUME NEW m \in Memories, QueueExtractionJob(m)
      PROVE  job'[n].status \in {"completed", "absent"}
  <2>1. job[m].status = "absent" /\ n # m
    BY <1>1 DEF QueueExtractionJob, Life
  <2>. QED BY <1>1, <2>1 DEF QueueExtractionJob, EnqueueExtractionJob,
                             DeadLetterExtractionJob
<1>2. ASSUME NEW m \in Memories, LeaseJob(m)
      PROVE  job'[n].status \in {"completed", "absent"}
  BY <1>2 DEF LeaseJob, OldestLeasable, Leasable
<1>3. ASSUME NEW m \in Memories, NEW target \in Memories \cup {NoMemory},
             \/ SkipExtraction(m) \/ GateExtraction(m) \/ FailExtraction(m)
             \/ CommitExtraction(m, target) \/ CommitThenFail(m, target)
             \/ LoseAttempt(m)
      PROVE  job'[n].status \in {"completed", "absent"}
  <2>1. EndsAttempt(m) BY <1>3, TickEnds
  <2>2. n # m BY <2>1 DEF EndsAttempt, Life
  <2>. QED BY <2>1, <2>2 DEF EndsAttempt
<1>4. CASE \E m \in Memories : Elapse(m)
  BY <1>4, AgedRow DEF Elapse
<1>5. CASE ReapStaleLeases \/ ReleaseStaleLeases
  <2>1. job'[n] = RecoverStaleLease(job[n])
    BY <1>5 DEF ReapStaleLeases, ReleaseStaleLeases, RecoverStaleLeases
  <2>. QED BY <2>1, RecoveredRow
<1>6. CASE RequeueDeadJobs
  BY <1>6, RequeueStep
<1>7. CASE \E tombstones \in SUBSET Memories : RetentionSweep(tombstones)
  BY <1>7 DEF RetentionSweep, NoRow
<1>8. CASE StartPipelineRuntime
  <2>1. job'[n] \in {job[n], RecoverMemoryJob(job[n])}
    BY <1>8 DEF StartPipelineRuntime, StartWorker, StartBlocked, StartPaused
  <2>. QED BY <2>1, RecoveredRow
<1>9. CASE \/ \E m \in Memories : \/ Remember(m) \/ QueueExtractionFails(m)
                                  \/ ModifyContent(m) \/ StartExtraction(m)
           \/ StopPipeline \/ Crash \/ UNCHANGED vars
  BY <1>9 DEF Remember, QueueExtractionFails, ModifyContent, StartExtraction,
              StopPipeline, Crash, vars
<1>. QED BY <1>1, <1>2, <1>3, <1>4, <1>5, <1>6, <1>7, <1>8, <1>9 DEF Next

\* A completed job is never retried, whatever the reaper, the repair actions, a
\* restart or an attempt that lost its lease do.
THEOREM CompletedForGood ==
  ASSUME ~LateFailure
  PROVE  Spec => CompletedIsFinal
<1>1. LifeInv /\ [Next]_vars =>
        [\A m \in Memories :
           job[m].status = "completed" =>
             job'[m].status \in {"completed", "absent"}]_vars
  BY CompletedStep
<1>. QED BY <1>1, LifeAlways, PTL DEF Spec, CompletedIsFinal

(***************************************************************************)
(* The queue keeps the promise                                              *)
(***************************************************************************)

LEMMA PromiseInit == Init => Promise!Init
BY DEF Init, Promise!Init, PromiseStatus

LEMMA PromiseReads ==
  ASSUME TypeOK, NEW m \in Memories
  PROVE  /\ PromiseStatus[m] = "absent" <=> extraction[m] = "absent"
         /\ PromiseStatus[m] = "gone" <=> extraction[m] = "gone"
         /\ PromiseStatus[m] = "raw" <=>
              extraction[m] \in {"none", "pending", "failed"}
         /\ PromiseStatus[m] = "extracted" <=> extraction[m] = "completed"
         /\ Promise!Exists(m) <=> Saved(m)
BY DEF TypeOK, PromiseStatus, Promise!Exists, Saved

\* Steps that keep the facts and make some memories read as raw again.
LEMMA PromiseReopen ==
  ASSUME TypeOK, TypeOK', UNCHANGED factWrites, NEW reopened \in SUBSET Memories,
         \A m \in Memories :
           \/ extraction'[m] = extraction[m] /\ m \notin reopened
           \/ /\ Saved(m) /\ extraction'[m] \in {"none", "failed"}
              /\ m \in reopened
  PROVE  Promise!Next
<1>1. \A m \in reopened : Promise!Exists(m)
  BY PromiseReads
<1>2. PromiseStatus' = [m \in Memories |-> IF m \in reopened THEN "raw"
                                           ELSE PromiseStatus[m]]
  BY DEF PromiseStatus
<1>. QED BY <1>1, <1>2 DEF Promise!Next, Promise!Reopen

LEMMA PromiseStep ==
  ASSUME ~LateFailure, LifeInv, TypeOK', [Next]_vars
  PROVE  [Promise!Next]_(Promise!vars)
<1>. USE DEF LifeInv, CountInv
<1>1. ASSUME UNCHANGED <<extraction, factWrites>>
      PROVE  UNCHANGED Promise!vars
  BY <1>1 DEF Promise!vars, PromiseStatus
<1>2. ASSUME NEW m \in Memories, Remember(m) PROVE Promise!Next
  <2>1. PromiseStatus[m] = "absent" /\ UNCHANGED factWrites
    BY <1>2, PromiseReads DEF Remember
  <2>2. PromiseStatus' = [PromiseStatus EXCEPT ![m] = "raw"]
    BY <1>2 DEF Remember, PromiseStatus, TypeOK
  <2>. QED BY <2>1, <2>2 DEF Promise!Next, Promise!Save
<1>3. ASSUME NEW m \in Memories,
             \/ QueueExtractionJob(m) \/ QueueExtractionFails(m)
             \/ ModifyContent(m) \/ FailExtraction(m)
      PROVE  [Promise!Next]_(Promise!vars)
  <2>1. /\ UNCHANGED factWrites
        /\ \/ extraction' = extraction
           \/ extraction' = SetStatus(m, "none")
           \/ extraction' = SetStatus(m, "failed")
    BY <1>3 DEF QueueExtractionJob, EnqueueExtractionJob, Saved,
                DeadLetterExtractionJob, QueueExtractionFails, ModifyContent,
                FailExtraction, EndTick
  <2>2. CASE extraction' = extraction BY <1>1, <2>1, <2>2
  <2>3. CASE extraction' # extraction
    <3>1. \A n \in Memories :
            \/ extraction'[n] = extraction[n] /\ n \notin {m}
            \/ /\ Saved(n) /\ extraction'[n] \in {"none", "failed"}
               /\ n \in {m}
      BY <2>1, <2>3 DEF SetStatus, TypeOK
    <3>. QED BY <2>1, <3>1, PromiseReopen
  <2>. QED BY <2>2, <2>3
<1>4. ASSUME NEW m \in Memories, GateExtraction(m)
      PROVE  [Promise!Next]_(Promise!vars)
  <2>1. PromiseStatus[m] = "raw" /\ UNCHANGED factWrites /\ Saved(m)
    BY <1>4, PromiseReads DEF GateExtraction, TypeOK, Saved
  <2>2. PromiseStatus' = [PromiseStatus EXCEPT ![m] = "extracted"]
    BY <1>4, <2>1 DEF GateExtraction, SetStatus, PromiseStatus, TypeOK
  <2>. QED BY <2>1, <2>2 DEF Promise!Next, Promise!Dismiss
<1>5. ASSUME NEW m \in Memories, NEW target \in Memories \cup {NoMemory},
             CommitExtraction(m, target)
      PROVE  Promise!Next
  <2>1. /\ factWrites[m] = 0 /\ attempt.mem = m /\ attempt.stage = "awaiting"
        /\ extraction[m] \notin {"completed", "absent"}
    BY <1>5 DEF CommitExtraction, Life
  <2>2. PromiseStatus[m] \in {"raw", "gone"}
    BY <2>1 DEF TypeOK, PromiseStatus
  <2>3. factWrites' = [factWrites EXCEPT ![m] = 1]
    BY <1>5, <2>1 DEF CommitExtraction, TypeOK
  <2>4. extraction' = [n \in Memories |->
                         IF n \in {m, target} /\ Saved(n) THEN "completed"
                         ELSE extraction[n]]
    BY <1>5 DEF CommitExtraction
  <2>5. PromiseStatus' = [n \in Memories |->
                            IF n \in {m, target} /\ Promise!Exists(n)
                            THEN "extracted" ELSE PromiseStatus[n]]
    <3>1. \A n \in Memories : Promise!Exists(n) <=> Saved(n)
      BY PromiseReads
    <3>2. \A n \in Memories :
            PromiseStatus'[n] = IF n \in {m, target} /\ Saved(n)
                                THEN "extracted" ELSE PromiseStatus[n]
      BY <2>4 DEF PromiseStatus, Saved
    <3>. QED BY <3>1, <3>2 DEF PromiseStatus
  <2>. QED BY <2>1, <2>2, <2>3, <2>5 DEF Promise!Next, Promise!Extract
<1>6. ASSUME NEW tombstones \in SUBSET Memories, RetentionSweep(tombstones)
      PROVE  Promise!Next
  <2>1. /\ \A m \in tombstones : Promise!Exists(m)
        /\ UNCHANGED factWrites
    BY <1>6, PromiseReads DEF RetentionSweep
  <2>2. PromiseStatus' = [m \in Memories |-> IF m \in tombstones THEN "gone"
                                             ELSE PromiseStatus[m]]
    BY <1>6 DEF RetentionSweep, PromiseStatus
  <2>. QED BY <2>1, <2>2 DEF Promise!Next, Promise!Purge
<1>7. CASE StartPipelineRuntime
  <2>1. CASE StartBlocked
    <3>. DEFINE given == {m \in Memories : job[m].status = "pending"
                                             /\ Saved(m)}
    <3>1. \A m \in Memories :
            \/ extraction'[m] = extraction[m] /\ m \notin given
            \/ /\ Saved(m) /\ extraction'[m] \in {"none", "failed"}
               /\ m \in given
      BY <2>1 DEF StartBlocked
    <3>2. UNCHANGED factWrites BY <1>7 DEF StartPipelineRuntime
    <3>. QED BY <3>1, <3>2, PromiseReopen
  <2>2. CASE StartWorker \/ StartPaused
    BY <1>1, <1>7, <2>2 DEF StartPipelineRuntime, StartWorker, StartPaused
  <2>. QED BY <1>7, <2>1, <2>2 DEF StartPipelineRuntime
<1>8. CASE \/ \E m \in Memories : \/ LeaseJob(m) \/ SkipExtraction(m)
                                  \/ StartExtraction(m) \/ Elapse(m)
                                  \/ LoseAttempt(m)
           \/ ReapStaleLeases \/ ReleaseStaleLeases \/ RequeueDeadJobs
           \/ StopPipeline \/ Crash \/ UNCHANGED vars
  <2>1. UNCHANGED <<extraction, factWrites>>
    BY <1>8 DEF LeaseJob, SkipExtraction, StartExtraction, Elapse,
                LoseAttempt, EndTick,
                ReapStaleLeases, ReleaseStaleLeases, RecoverStaleLeases,
                RequeueDeadJobs, StopPipeline, Crash, vars
  <2>. QED BY <2>1, <1>1
<1>9. ASSUME NEW m \in Memories, NEW target \in Memories \cup {NoMemory},
             CommitThenFail(m, target)
      PROVE  FALSE
  BY <1>9 DEF CommitThenFail
<1>. QED BY <1>2, <1>3, <1>4, <1>5, <1>6, <1>7, <1>8, <1>9 DEF Next

\* The queue, whatever it goes through, implements the promise: the facts of a
\* memory are written at most once, and only while it does not read extracted.
THEOREM QueueKeepsPromise ==
  ASSUME ~LateFailure
  PROVE  Spec => KeepsPromise
<1>1. LifeInv /\ LifeInv' /\ [Next]_vars => [Promise!Next]_(Promise!vars)
  BY PromiseStep DEF LifeInv, CountInv
<1>. QED BY <1>1, PromiseInit, LifeAlways, PTL DEF Spec, KeepsPromise, Promise!Spec

(***************************************************************************)
(* The worker's timers                                                      *)
(*                                                                          *)
(* The worker's timers form one unbroken chain, for any number of handles.  *)
(* The inductive invariant Chain says where the chain is: at the one armed  *)
(* timer, at the one tick in flight, or, after stop(), nowhere.             *)
(***************************************************************************)

Chain ==
  \/ /\ worker = "running" /\ inflight = NoTimer
     /\ pollTimer \in Timers /\ armed = {pollTimer} /\ awaiting = {}
  \/ /\ worker \in {"running", "stopping"} /\ inflight \in Timers
     /\ armed = {} /\ awaiting = {inflight}
  \/ worker = "stopped" /\ armed = {} /\ awaiting = {}

ChainInv == TicksTypeOK /\ Chain

LEMMA InitChain == TicksInit => ChainInv
  BY DEF TicksInit, ChainInv, TicksTypeOK, Chain

\* scheduleTick() with nothing else armed continues the chain if the worker
\* runs, and ends it otherwise.
LEMMA ScheduleTickContinues ==
  ASSUME ChainInv, NEW others, others \subseteq {}, ScheduleTick(others)
  PROVE  /\ worker = "running" =>
              /\ pollTimer' \in Timers /\ armed' = {pollTimer'}
              /\ overloaded' \in BOOLEAN
         /\ worker # "running" =>
              armed' = {} /\ UNCHANGED <<pollTimer, overloaded>>
         /\ recheck' \in SUBSET armed'
<1>1. others = {}
  OBVIOUS
<1>2. CASE worker = "running"
  <2>1. PICK t \in Timers :
          /\ armed' = others \cup {t}
          /\ pollTimer' = t
          /\ overloaded' = (load = "heavy")
          /\ recheck' = IF load = "heavy" THEN (recheck \cap others) \cup {t}
                                          ELSE recheck \cap others
    BY <1>2 DEF ScheduleTick
  <2>. QED BY <1>1, <1>2, <2>1
<1>3. CASE worker # "running"
  BY <1>1, <1>3 DEF ScheduleTick
<1>. QED BY <1>2, <1>3

LEMMA StepChain == ChainInv /\ [TicksNext]_ticksVars => ChainInv'
<1> SUFFICES ASSUME ChainInv, [TicksNext]_ticksVars PROVE ChainInv'
  OBVIOUS
<1> USE TimersAssumption
<1>1. ASSUME NEW t \in Timers, FireRecheck(t) PROVE ChainInv'
  <2>1. worker = "running" /\ armed = {t} /\ awaiting = {} /\ inflight = NoTimer
    BY <1>1 DEF FireRecheck, ChainInv, Chain, TicksTypeOK
  <2>2. armed \ {t} \subseteq {} /\ ScheduleTick(armed \ {t})
    BY <1>1, <2>1 DEF FireRecheck
  <2>3. /\ pollTimer' \in Timers /\ armed' = {pollTimer'}
        /\ overloaded' \in BOOLEAN /\ recheck' \in SUBSET armed'
    BY <2>1, <2>2, ScheduleTickContinues
  <2>. QED BY <1>1, <2>1, <2>3 DEF FireRecheck, ChainInv, Chain, TicksTypeOK
<1>2. ASSUME NEW t \in Timers, FirePoll(t) PROVE ChainInv'
  BY <1>2 DEF FirePoll, ChainInv, Chain, TicksTypeOK
<1>3. ASSUME NEW t \in Timers, NEW success \in BOOLEAN, SettleTick(t, success)
      PROVE  ChainInv'
  <2>1. /\ worker \in {"running", "stopping"}
        /\ armed = {} /\ awaiting = {t}
    BY <1>3 DEF SettleTick, ChainInv, Chain, TicksTypeOK
  <2>2. armed \subseteq {} /\ ScheduleTick(armed)
    BY <1>3, <2>1 DEF SettleTick
  <2>3. awaiting' = {} /\ inflight' = NoTimer /\ UNCHANGED load
        /\ stalled' \in BOOLEAN
    BY <1>3, <2>1 DEF SettleTick
  <2>4. CASE worker = "running"
    <3>1. /\ pollTimer' \in Timers /\ armed' = {pollTimer'}
          /\ overloaded' \in BOOLEAN /\ recheck' \in SUBSET armed'
      BY <2>2, <2>4, ScheduleTickContinues
    <3>2. worker' = "running"
      BY <1>3, <2>4 DEF SettleTick
    <3>. QED BY <2>3, <3>1, <3>2 DEF ChainInv, Chain, TicksTypeOK
  <2>5. CASE worker = "stopping"
    <3>1. /\ armed' = {} /\ UNCHANGED <<pollTimer, overloaded>>
          /\ recheck' \in SUBSET armed'
      BY <2>2, <2>5, ScheduleTickContinues
    <3>2. worker' = "stopped"
      BY <1>3, <2>5 DEF SettleTick
    <3>. QED BY <2>3, <3>1, <3>2 DEF ChainInv, Chain, TicksTypeOK
  <2>. QED BY <2>1, <2>4, <2>5
<1>4. CASE Watchdog
  <2>1. CASE inflight = NoTimer
    <3>1. worker = "running" /\ armed = {pollTimer} /\ awaiting = {}
      BY <1>4, <2>1 DEF Watchdog, ChainInv, Chain
    <3>2. armed \ {pollTimer} \subseteq {} /\ ScheduleTick(armed \ {pollTimer})
      BY <1>4, <2>1, <3>1 DEF Watchdog
    <3>3. /\ pollTimer' \in Timers /\ armed' = {pollTimer'}
          /\ overloaded' \in BOOLEAN /\ recheck' \in SUBSET armed'
      BY <3>1, <3>2, ScheduleTickContinues
    <3>. QED BY <1>4, <2>1, <3>1, <3>3
             DEF Watchdog, ChainInv, Chain, TicksTypeOK
  <2>2. CASE inflight # NoTimer
    BY <1>4, <2>2 DEF Watchdog, ChainInv, Chain, TicksTypeOK
  <2>. QED BY <2>1, <2>2
<1>5. CASE Stall
  BY <1>5 DEF Stall, ChainInv, Chain, TicksTypeOK
<1>6. CASE Nudge
  <2>1. worker = "running" /\ armed = {pollTimer} /\ awaiting = {}
    BY <1>6 DEF Nudge, ChainInv, Chain, TicksTypeOK
  <2>2. PICK t \in Timers :
          /\ Fresh(t, armed \ {pollTimer})
          /\ armed' = (armed \ {pollTimer}) \cup {t}
          /\ recheck' = recheck \ {pollTimer, t}
          /\ pollTimer' = t
    BY <1>6 DEF Nudge
  <2>3. armed' = {pollTimer'} /\ recheck' = {}
    BY <2>1, <2>2 DEF ChainInv, TicksTypeOK
  <2>. QED BY <1>6, <2>1, <2>2, <2>3 DEF Nudge, ChainInv, Chain, TicksTypeOK
<1>7. CASE StartTicks
  <2>1. armed = {} /\ awaiting = {} /\ recheck = {}
    BY <1>7 DEF StartTicks, ChainInv, Chain, TicksTypeOK
  <2>. QED BY <1>7, <2>1 DEF StartTicks, ChainInv, Chain, TicksTypeOK
<1>8. CASE Stop
  BY <1>8 DEF Stop, ChainInv, Chain, TicksTypeOK
<1>9. CASE HostLoad
  BY <1>9 DEF HostLoad, ChainInv, Chain, TicksTypeOK
<1>10. CASE UNCHANGED ticksVars
  BY <1>10 DEF ticksVars, ChainInv, Chain, TicksTypeOK
<1>. QED BY <1>1, <1>2, <1>3, <1>4, <1>5, <1>6, <1>7, <1>8, <1>9, <1>10
         DEF TicksNext

LEMMA ChainAlways == TicksSpec => []ChainInv
  BY InitChain, StepChain, PTL DEF TicksSpec

\* The timers stay well typed; an armed recheck is an armed timer.
THEOREM TicksTyped == TicksSpec => []TicksTypeOK
<1>1. ChainInv => TicksTypeOK
  BY DEF ChainInv
<1>. QED BY <1>1, ChainAlways, PTL

\* No two ticks of the worker ever overlap: what ExtractionQueue assumes of its
\* one attempt in flight.
THEOREM OneChainAlways == TicksSpec => []OneChain
<1>1. ChainInv => OneChain
  BY DEF ChainInv, Chain, OneChain
<1>. QED BY <1>1, ChainAlways, PTL

\* The chain of a running worker never breaks, and the worker knows its end.
THEOREM ChainNeverBreaks == TicksSpec => []ChainUnbroken
<1>1. ChainInv => ChainUnbroken
  BY DEF ChainInv, Chain, ChainUnbroken
<1>. QED BY <1>1, ChainAlways, PTL

\* After stop() no timer and no tick of the worker is left.
THEOREM NothingAfterStop == TicksSpec => []StopIsFinal
<1>1. ChainInv => StopIsFinal
  BY DEF ChainInv, Chain, StopIsFinal
<1>. QED BY <1>1, ChainAlways, PTL
=============================================================================
