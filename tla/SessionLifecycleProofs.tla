------------------------- MODULE SessionLifecycleProofs -------------------------
(***************************************************************************)
(* For any sessions, paths, lengths and caps: claims are not handed over    *)
(* while in time, completed jobs stay so, the cursor of a session's         *)
(* checkpoints neither skips a part of the transcript nor takes one twice,  *)
(* and what a worker or its predecessor has in hand is a row that is there. *)
(*                                                                          *)
(* The argument about the cursor: a checkpoint job of the present           *)
(* transcript never reaches beyond the cursor (CheckpointsPast), unless the *)
(* history says that the cursor is behind or stale; so a new job, which     *)
(* starts at the cursor, overlaps none of them.  Nor does what the worker   *)
(* has stored of them, so that it is never longer than the cursor           *)
(* (StoredPast): a checkpoint from the store brings nothing of the present  *)
(* transcript twice.                                                        *)
(***************************************************************************)
EXTENDS SessionLifecycle, FiniteSetTheorems, WellFoundedInduction, TLAPS

(***************************************************************************)
(* Claims                                                                   *)
(***************************************************************************)

\* What a step may make of an entry.
Legal(t, u) ==
  /\ u \in Entry
  /\ Alive(t) => u.path = t.path \/ u = NoEntry

LEMMA Evicted ==
  ASSUME NEW t \in Entry
  PROVE  /\ NoEntry \in Entry
         /\ EvictStale(t) \in {t, NoEntry}
         /\ \A p \in Callers : Checked(t, p) \in {t, NoEntry}
  BY DEF Entry, NoEntry, EvictStale, Checked

LEMMA Renewed ==
  ASSUME NEW t \in Entry
  PROVE  /\ Renew(t) \in Entry
         /\ Alive(t) => Renew(t).path = t.path
         /\ Renew(NoEntry) = NoEntry
  BY DEF Entry, NoEntry, Renew, Fresh, Claimed, Alive

LEMMA CallsAreLegal ==
  ASSUME NEW t \in Entry
  PROVE  /\ Legal(t, t) /\ Legal(t, NoEntry)
         /\ Legal(t, EvictStale(t))
         /\ Legal(t, Renew(EvictStale(t)))
         /\ Legal(t, [t EXCEPT !.over = TRUE])
         /\ \A on \in BOOLEAN : Legal(t, [EvictStale(t) EXCEPT !.bypassed = on])
         /\ \A p \in Callers : Legal(t, Checked(t, p))
         /\ \A p \in Callers : Legal(t, Renew(Checked(t, p)))
         /\ \A p \in Paths : MayClaim(t, p) => Legal(t, Claim(t, p))
<1>1. Legal(t, t) /\ Legal(t, NoEntry)
  BY Evicted DEF Legal
<1>2. Legal(t, Renew(t)) /\ Legal(t, Renew(NoEntry))
  BY <1>1, Renewed DEF Legal
<1>3. /\ Legal(t, EvictStale(t)) /\ Legal(t, Renew(EvictStale(t)))
      /\ \A p \in Callers : Legal(t, Checked(t, p))
      /\ \A p \in Callers : Legal(t, Renew(Checked(t, p)))
  BY <1>1, <1>2, Evicted
<1>4. Legal(t, [t EXCEPT !.over = TRUE])
  BY DEF Legal, Entry
<1>5. ASSUME NEW on \in BOOLEAN
      PROVE  Legal(t, [EvictStale(t) EXCEPT !.bypassed = on])
  BY <1>1 DEF Legal, Entry, EvictStale, NoEntry, Alive, Claimed
<1>6. ASSUME NEW p \in Paths, MayClaim(t, p) PROVE Legal(t, Claim(t, p))
  BY <1>6 DEF Legal, Entry, Claim, Fresh, MayClaim, Alive, Claimed
<1> QED BY <1>1, <1>3, <1>4, <1>5, <1>6

EntriesOK == tracker \in [Sessions -> Entry]

TrackerStep ==
  /\ tracker' \in [Sessions -> Entry]
  /\ \A k \in Sessions : Legal(tracker[k], tracker'[k])

LEMMA SetEntryStep ==
  ASSUME EntriesOK, NEW k \in Sessions, NEW t, Legal(tracker[k], t),
         SetEntry(k, t)
  PROVE  TrackerStep
<1>1. tracker' = [tracker EXCEPT ![k] = t]
  BY DEF SetEntry
<1>2. tracker' \in [Sessions -> Entry]
  BY <1>1 DEF EntriesOK, Legal
<1>3. \A j \in Sessions : Legal(tracker[j], tracker[j])
  BY CallsAreLegal DEF EntriesOK
<1> QED BY <1>1, <1>2, <1>3 DEF TrackerStep, EntriesOK

LEMMA ClaimStep == EntriesOK /\ [Next]_vars => TrackerStep
<1> SUFFICES ASSUME EntriesOK, [Next]_vars PROVE TrackerStep
  OBVIOUS
<1>0. \A k \in Sessions : tracker[k] \in Entry
  BY DEF EntriesOK
<1>1. CASE UNCHANGED tracker
  BY <1>1, <1>0, CallsAreLegal DEF TrackerStep, EntriesOK
<1>2. CASE SweepSessions
  <2>1. tracker' = [k \in Sessions |-> EvictStale(tracker[k])]
    BY <1>2 DEF SweepSessions
  <2> QED BY <2>1, <1>0, CallsAreLegal DEF TrackerStep, Legal
<1>3. CASE Restart
  <2>1. tracker' = [k \in Sessions |-> NoEntry]
    BY <1>3 DEF Restart
  <2> QED BY <2>1, <1>0, CallsAreLegal DEF TrackerStep, Legal
<1>4. ASSUME NEW k \in Sessions, RenewSession(k) PROVE TrackerStep
  <2>1. tracker' = [j \in Sessions |->
                      IF j = k THEN Renew(EvictStale(tracker[k]))
                      ELSE EvictStale(tracker[j])]
    BY <1>4 DEF RenewSession
  <2> QED BY <2>1, <1>0, CallsAreLegal DEF TrackerStep, Legal
<1>5. ASSUME NEW k \in Sessions, NEW on \in BOOLEAN, SetBypass(k, on)
      PROVE  TrackerStep
  <2>1. tracker' = [j \in Sessions |->
                      IF j = k THEN [EvictStale(tracker[k]) EXCEPT !.bypassed = on]
                      ELSE EvictStale(tracker[j])]
    BY <1>5 DEF SetBypass
  <2> QED BY <2>1, <1>0, CallsAreLegal DEF TrackerStep, Legal
<1>6. ASSUME NEW k \in Sessions,
             \/ SubmitPrompt(k) \/ ClaimRunsOut(k) \/ EndSession(k)
             \/ \E n \in 1 .. MaxLength : EndSessionWith(k, n)
      PROVE  TrackerStep
  <2>1. \E t : Legal(tracker[k], t) /\ SetEntry(k, t)
    BY <1>0, <1>6, CallsAreLegal
    DEF SubmitPrompt, ClaimRunsOut, EndSession, EndSessionWith, Release
  <2> QED BY <2>1, SetEntryStep
<1>7. ASSUME NEW k \in Sessions, NEW p \in Callers, StartSession(k, p)
      PROVE  TrackerStep
  BY <1>0, <1>7, CallsAreLegal, SetEntryStep DEF StartSession
<1>8. ASSUME NEW k \in Sessions, NEW p \in Callers,
             \/ CheckClaim(k, p) \/ CheckpointSkips(k, p) \/ SaveCompaction(k, p)
             \/ \E t \in Offered(k) :
                  \/ CheckpointExtract(k, p, t) \/ JobWithoutCursor(k, p, t)
                  \/ CheckpointRereads(k, p, t)
      PROVE  TrackerStep
  <2>1. \E t : Legal(tracker[k], t) /\ SetEntry(k, t)
    BY <1>0, <1>8, CallsAreLegal
    DEF CheckClaim, CheckpointSkips, SaveCompaction, CheckpointExtract,
        JobWithoutCursor, CheckpointRereads
  <2> QED BY <2>1, SetEntryStep
<1>9. ASSUME NEW k \in Sessions, ResetCursor(k) \/ ResetFails(k)
      PROVE  TrackerStep
  BY <1>1, <1>9 DEF ResetCursor, ResetFails
<1>10. ASSUME \/ \E i \in DOMAIN jobs : Tick(i)
              \/ \E h \in Hands : Attempts(h)
              \/ RecoverSummaryJobs \/ RecoveryThrows
              \/ StopWorker \/ StartWorker \/ Reconfigure
              \/ RequeueDeadJobs \/ BackfillSkippedSessions
       PROVE  TrackerStep
  BY <1>1, <1>10
  DEF Tick, Attempts, BeginCommand, CommandSucceeds, CommandFails, BeginSummary,
      SkipJob, WriteSummary, StoreTranscript, FinishJob, FailAttempt, LoseAttempt,
      RecoverSummaryJobs, RecoveryThrows, StopWorker, StartWorker, Reconfigure,
      RequeueDeadJobs, BackfillSkippedSessions, sessionVars
<1>11. CASE UNCHANGED vars
  BY <1>1, <1>11 DEF vars, sessionVars
<1> QED
  BY <1>2, <1>3, <1>4, <1>5, <1>6, <1>7, <1>8, <1>9, <1>10, <1>11
  DEF Next, SessionNext, WorkerNext

\* A session is not handed from one path to the other while its claim is in
\* time, whatever the number of sessions and paths.
THEOREM ClaimsHold == Spec => ClaimHolds
<1>1. Init => EntriesOK
  BY Evicted DEF Init, EntriesOK, NoEntry, Entry
<1>2. EntriesOK /\ [Next]_vars => EntriesOK'
  BY ClaimStep DEF TrackerStep, EntriesOK
<1>3. EntriesOK /\ [Next]_vars =>
        [\A k \in Sessions :
           Alive(tracker[k]) =>
             tracker'[k].path = tracker[k].path \/ tracker'[k] = NoEntry]_vars
  <2>1. ASSUME EntriesOK, [Next]_vars, NEW k \in Sessions, Alive(tracker[k])
        PROVE  tracker'[k].path = tracker[k].path \/ tracker'[k] = NoEntry
    BY <2>1, ClaimStep DEF TrackerStep, Legal
  <2> QED BY <2>1
<1> QED BY <1>1, <1>2, <1>3, PTL DEF Spec, ClaimHolds

(***************************************************************************)
(* Jobs: what a step may do to the rows                                     *)
(***************************************************************************)

Texts ==
  [session : Sessions, epoch : Nat, from : Nat, upto : Nat, end : Nat,
   checkpoint : BOOLEAN]
Jobs == [text : Texts, status : Statuses, attempts : Nat, result : Results]

JobsOK == jobs \in Seq(Jobs)

\* The statements of the worker leave the text of a row alone, and bring none
\* back that is completed.
LEMMA RowOperators ==
  ASSUME NEW job \in Jobs
  PROVE  \A next \in {LeaseJob(job), CompleteJob(job), FailJob(job),
                      RecoverJob(job), MarkCommandStageRunning(job),
                      MarkCommandStageCompleted(job),
                      FailJob(ClearCommandStageRunning(job)), Requeue(job)} :
           next \in Jobs /\ next.text = job.text
<1> USE DEF Jobs, Statuses, Results
<1>1. LeaseJob(job) \in Jobs /\ LeaseJob(job).text = job.text
  <2>1. job.attempts + 1 \in Nat
    OBVIOUS
  <2>2. \A n \in Nat :
          LET next == [job EXCEPT !.status = "processing", !.attempts = n]
          IN  next \in Jobs /\ next.text = job.text
    OBVIOUS
  <2> QED BY <2>1, <2>2 DEF LeaseJob
<1>2. CompleteJob(job) \in Jobs /\ CompleteJob(job).text = job.text
  BY DEF CompleteJob
<1>3. \A j \in Jobs : FailJob(j) \in Jobs /\ FailJob(j).text = j.text
  BY DEF FailJob, AfterAttempt
<1>4. RecoverJob(job) \in Jobs /\ RecoverJob(job).text = job.text
  BY DEF RecoverJob, AfterAttempt
<1>5. /\ MarkCommandStageRunning(job) \in Jobs
      /\ MarkCommandStageRunning(job).text = job.text
  BY DEF MarkCommandStageRunning
<1>6. /\ MarkCommandStageCompleted(job) \in Jobs
      /\ MarkCommandStageCompleted(job).text = job.text
  BY DEF MarkCommandStageCompleted
<1>7. /\ ClearCommandStageRunning(job) \in Jobs
      /\ ClearCommandStageRunning(job).text = job.text
  BY DEF ClearCommandStageRunning
<1>8. Requeue(job) \in Jobs /\ Requeue(job).text = job.text
  BY DEF Requeue
<1> HIDE DEF Jobs
<1> QED BY <1>1, <1>2, <1>3, <1>4, <1>5, <1>6, <1>7, <1>8

LEMMA CompletedRow ==
  ASSUME NEW job \in Jobs, job.status = "completed"
  PROVE  /\ ~Leasable(job)
         /\ \A next \in {CompleteJob(job), FailJob(job),
                         MarkCommandStageRunning(job),
                         MarkCommandStageCompleted(job),
                         FailJob(ClearCommandStageRunning(job))} :
              next.status = "completed"
  BY DEF Jobs, Leasable, CompleteJob, FailJob, MarkCommandStageRunning,
         MarkCommandStageCompleted, ClearCommandStageRunning

\* The rows before a step keep their places and texts.
SameTexts ==
  /\ jobs' \in Seq(Jobs)
  /\ DOMAIN jobs' = DOMAIN jobs
  /\ \A i \in DOMAIN jobs : jobs'[i].text = jobs[i].text

CompletedStay ==
  \A i \in DOMAIN jobs :
    jobs[i].status = "completed" => jobs'[i].status = "completed"

\* One row is set by its id.
LEMMA SetJobKeeps ==
  ASSUME JobsOK, NEW i, NEW next, SetJob(i, next),
         i \in DOMAIN jobs => next \in Jobs /\ next.text = jobs[i].text
  PROVE  /\ SameTexts
         /\ (i \in DOMAIN jobs /\ jobs[i].status = "completed"
               => next.status = "completed") => CompletedStay
<1>1. /\ jobs' = [jobs EXCEPT ![i] = next]
      /\ jobs \in Seq(Jobs)
  BY DEF SetJob, JobsOK
<1>2. DOMAIN jobs' = DOMAIN jobs /\ \A j \in DOMAIN jobs : j # i => jobs'[j] = jobs[j]
  BY <1>1
<1>3. i \in DOMAIN jobs => jobs'[i] = next
  BY <1>1
<1>4. jobs' \in Seq(Jobs)
  <2>1. CASE i \in DOMAIN jobs
    BY <1>1, <2>1
  <2>2. CASE i \notin DOMAIN jobs
    <3>1. \A j \in DOMAIN jobs : jobs'[j] = jobs[j]
      BY <1>2, <2>2
    <3>2. jobs' = [j \in DOMAIN jobs |-> jobs[j]]
      BY <1>1, <3>1, <1>2
    <3>3. jobs' = jobs
      BY <1>1, <3>2
    <3> QED BY <1>1, <3>3
  <2> QED BY <2>1, <2>2
<1> QED BY <1>2, <1>3, <1>4 DEF SameTexts, CompletedStay

LEMMA RowsSet ==
  ASSUME JobsOK, NEW S, NEW next \in [DOMAIN jobs -> Jobs],
         jobs' = [i \in DOMAIN jobs |-> IF i \in S THEN next[i] ELSE jobs[i]],
         \A i \in DOMAIN jobs : next[i].text = jobs[i].text
  PROVE  SameTexts
<1>1. \A i \in DOMAIN jobs : jobs[i] \in Jobs
  BY DEF JobsOK
<1>2. DOMAIN jobs = 1 .. Len(jobs) /\ Len(jobs) \in Nat
  BY DEF JobsOK
<1>3. jobs' \in [1 .. Len(jobs) -> Jobs]
  BY <1>1, <1>2
<1>4. jobs' \in Seq(Jobs)
  BY <1>2, <1>3
<1> QED BY <1>3, <1>4, <1>2 DEF SameTexts

\* Attempts, repairs and recovery work on the rows that are there.
WorkerStep ==
  \/ \E i \in DOMAIN jobs : Tick(i)
  \/ \E h \in Hands : Attempts(h)
  \/ RecoverSummaryJobs

LEMMA AttemptRows ==
  ASSUME JobsOK, NEW h \in Hands, Attempts(h)
  PROVE  SameTexts /\ CompletedStay
<1>0. ASSUME UNCHANGED jobs PROVE SameTexts /\ CompletedStay
  BY <1>0 DEF SameTexts, CompletedStay, JobsOK
<1> DEFINE i == attempt[h].job
<1>1. i \in DOMAIN jobs => JobOf(h) \in Jobs /\ JobOf(h) = jobs[i]
  BY DEF JobOf, JobsOK
<1>2. ASSUME NEW next, SetJob(i, next),
             next \in {CompleteJob(JobOf(h)), FailJob(JobOf(h)),
                       MarkCommandStageRunning(JobOf(h)),
                       MarkCommandStageCompleted(JobOf(h)),
                       FailJob(ClearCommandStageRunning(JobOf(h)))}
      PROVE  SameTexts /\ CompletedStay
  <2>1. i \in DOMAIN jobs => next \in Jobs /\ next.text = jobs[i].text
    BY <1>1, <1>2, RowOperators
  <2>2. i \in DOMAIN jobs /\ jobs[i].status = "completed"
          => next.status = "completed"
    BY <1>1, <1>2, CompletedRow
  <2> QED BY <1>2, <2>1, <2>2, SetJobKeeps
<1>3. CASE BeginCommand(h)
  BY <1>2, <1>3 DEF BeginCommand
<1>4. CASE CommandSucceeds(h)
  BY <1>2, <1>4 DEF CommandSucceeds
<1>5. CASE CommandFails(h)
  BY <1>2, <1>5 DEF CommandFails
<1>6. CASE SkipJob(h)
  BY <1>2, <1>6 DEF SkipJob
<1>7. CASE FinishJob(h)
  BY <1>2, <1>7 DEF FinishJob
<1>8. CASE FailAttempt(h)
  BY <1>2, <1>8 DEF FailAttempt
<1>9. CASE \/ BeginSummary(h) \/ StoreTranscript(h) \/ LoseAttempt(h)
           \/ \E written \in BOOLEAN : WriteSummary(h, written)
  BY <1>0, <1>9 DEF BeginSummary, StoreTranscript, WriteSummary, LoseAttempt
<1> QED BY <1>3, <1>4, <1>5, <1>6, <1>7, <1>8, <1>9 DEF Attempts

LEMMA WorkerRows ==
  ASSUME JobsOK, WorkerStep
  PROVE  SameTexts /\ CompletedStay
<1>1. ASSUME NEW i \in DOMAIN jobs, Tick(i) PROVE SameTexts /\ CompletedStay
  <2>1. jobs[i] \in Jobs /\ Leasable(jobs[i])
    BY <1>1 DEF JobsOK, Tick, NextJob
  <2>2. SetJob(i, LeaseJob(jobs[i]))
    BY <1>1 DEF Tick, SetJob
  <2>3. jobs[i].status # "completed"
    BY <2>1 DEF Leasable
  <2> QED BY <2>1, <2>2, <2>3, RowOperators, SetJobKeeps
<1>2. CASE RecoverSummaryJobs
  <2> DEFINE next == [i \in DOMAIN jobs |-> RecoverJob(jobs[i])]
  <2>1. \A i \in DOMAIN jobs : jobs[i] \in Jobs
    BY DEF JobsOK
  <2>2. next \in [DOMAIN jobs -> Jobs] /\ \A i \in DOMAIN jobs :
          next[i].text = jobs[i].text
    BY <2>1, RowOperators
  <2>3. jobs' = [i \in DOMAIN jobs |->
                   IF i \in Batch THEN next[i] ELSE jobs[i]]
    BY <1>2 DEF RecoverSummaryJobs
  <2>4. CompletedStay
    BY <2>3 DEF CompletedStay, Batch, Processing
  <2> HIDE DEF next
  <2> QED BY <2>2, <2>3, <2>4, RowsSet
<1> QED BY <1>1, <1>2, AttemptRows DEF WorkerStep

LEMMA RequeueKeeps ==
  ASSUME JobsOK, NEW rows, RequeueRows(rows)
  PROVE  SameTexts
<1> DEFINE next == [i \in DOMAIN jobs |-> Requeue(jobs[i])]
<1>1. \A i \in DOMAIN jobs : jobs[i] \in Jobs
  BY DEF JobsOK
<1>2. next \in [DOMAIN jobs -> Jobs] /\ \A i \in DOMAIN jobs :
        next[i].text = jobs[i].text
  BY <1>1, RowOperators
<1>3. jobs' = [i \in DOMAIN jobs |-> IF i \in rows THEN next[i] ELSE jobs[i]]
  BY DEF RequeueRows
<1> HIDE DEF next
<1> QED BY <1>2, <1>3, RowsSet

LEMMA RepairRows ==
  ASSUME JobsOK, RequeueDeadJobs \/ BackfillSkippedSessions
  PROVE  SameTexts /\ (RequeueDeadJobs => CompletedStay)
<1>1. SameTexts
  BY RequeueKeeps DEF RequeueDeadJobs, BackfillSkippedSessions
<1>2. ASSUME RequeueDeadJobs PROVE CompletedStay
  BY <1>2 DEF RequeueDeadJobs, RequeueRows, Dead, CompletedStay
<1> QED BY <1>1, <1>2

(***************************************************************************)
(* Sessions: what a step may do to the cursors                              *)
(***************************************************************************)

StateOK ==
  /\ epoch \in [Sessions -> Nat] /\ cursor \in [Sessions -> Nat]
  /\ stored \in [Sessions -> Transcript]
  /\ flaws \in [Sessions -> SUBSET {"stale", "behind", "restored"}]

\* A step that enqueues nothing and leaves the cursors and the store alone.
QuietStep == SameTexts /\ UNCHANGED <<epoch, cursor, stored, flaws>>

\* A prompt, a checkpoint that enqueues nothing or the end of a session stores
\* what it was given.
KeepStep(k) ==
  /\ \E n \in Nat : Upsert(k, Given(k, n))
  /\ UNCHANGED <<epoch, cursor, flaws, jobs>>

\* The worker stores the text of a row.
StoreStep(i) ==
  /\ Upsert(jobs[i].text.session,
            [epoch |-> jobs[i].text.epoch, from |-> jobs[i].text.from,
             upto |-> jobs[i].text.upto])
  /\ UNCHANGED <<epoch, cursor, flaws, jobs>>

EnqueueStep(text) == jobs' = Append(jobs, PendingJob(text))

CaptureStep(k, n) ==
  /\ Upsert(k, Given(k, n))
  /\ EnqueueStep([session |-> k, epoch |-> epoch[k], from |-> 0,
                  upto |-> Least(n, Cap), end |-> n, checkpoint |-> FALSE])
  /\ UNCHANGED <<epoch, cursor, flaws>>

\* The text of a checkpoint: of the request, or the stored one.
Offer(k, t) == t = stored[k] \/ \E n \in Nat : t = Given(k, n)

ExtractStep(k, t) ==
  /\ Offer(k, t) /\ Size(t) > cursor[k]
  /\ Upsert(k, t)
  /\ EnqueueStep(Delta(k, t, cursor[k]))
  /\ UNCHANGED epoch
  /\ \/ cursor' = [cursor EXCEPT ![k] = Size(t)] /\ MarkFlaw(k, Restored(k, t))
     \/ UNCHANGED cursor /\ MarkFlaw(k, {"behind"})

RereadStep(k, t) ==
  /\ Offer(k, t) /\ Size(t) > 0
  /\ Upsert(k, t)
  /\ EnqueueStep(Delta(k, t, 0))
  /\ UNCHANGED epoch
  /\ cursor' = [cursor EXCEPT ![k] = Size(t)]
  /\ MarkFlaw(k, {"behind"} \cup Restored(k, t))

CompactStep(k) ==
  /\ epoch' = [epoch EXCEPT ![k] = @ + 1]
  /\ flaws' = [flaws EXCEPT ![k] = IF cursor[k] = 0 THEN {} ELSE {"stale"}]
  /\ UNCHANGED <<cursor, stored, jobs>>

ResetStep(k) ==
  /\ stored' = [stored EXCEPT ![k] = NoTranscript]
  /\ cursor' = [cursor EXCEPT ![k] = 0]
  /\ flaws' = [flaws EXCEPT ![k] = IF Checkpoints(k) = {} THEN {} ELSE {"behind"}]
  /\ UNCHANGED <<epoch, jobs>>

LEMMA OfferedAre ==
  ASSUME NEW k \in Sessions, NEW t \in Offered(k)
  PROVE  Offer(k, t)
  BY DEF Offered, Offer

LEMMA Kept ==
  ASSUME StateOK, NEW k \in Sessions, NEW t, Keep(k, t)
  PROVE  Upsert(k, t)
  BY DEF Keep, Upsert

\* What an attempt holds is the place of a row.
HandsOK ==
  /\ attempt \in [Hands -> Attempt \cup {Idle}]
  /\ \A h \in Hands : attempt[h] # Idle => attempt[h].job \in DOMAIN jobs

LEMMA AttemptSteps ==
  ASSUME JobsOK, HandsOK, NEW h \in Hands, Attempts(h)
  PROVE  QuietStep \/ \E i \in DOMAIN jobs : StoreStep(i)
<1>1. CASE StoreTranscript(h)
  <2>1. attempt[h].job \in DOMAIN jobs
    BY <1>1 DEF StoreTranscript, At, HandsOK
  <2> QED BY <1>1, <2>1 DEF StoreTranscript, JobOf, StoreStep
<1>2. CASE ~StoreTranscript(h)
  BY <1>2, AttemptRows DEF QuietStep, Attempts, BeginCommand, CommandSucceeds,
     CommandFails, BeginSummary, SkipJob, WriteSummary, FinishJob, FailAttempt,
     LoseAttempt, sessionVars
<1> QED BY <1>1, <1>2

LEMMA NextSteps ==
  ASSUME JobsOK, StateOK, HandsOK, [Next]_vars
  PROVE  \/ QuietStep
         \/ \E i \in DOMAIN jobs : StoreStep(i)
         \/ \E k \in Sessions : \/ KeepStep(k)
                                \/ \E n \in Nat : CaptureStep(k, n)
                                \/ \E t : ExtractStep(k, t) \/ RereadStep(k, t)
                                \/ CompactStep(k) \/ ResetStep(k)
<1>0. ASSUME UNCHANGED <<epoch, cursor, stored, flaws, jobs>> PROVE QuietStep
  BY <1>0 DEF QuietStep, SameTexts, JobsOK
<1>1. CASE UNCHANGED vars
  BY <1>0, <1>1 DEF vars, sessionVars
<1>2. CASE SweepSessions
  BY <1>0, <1>2 DEF SweepSessions
<1>3. ASSUME NEW k \in Sessions,
             \/ RenewSession(k) \/ ClaimRunsOut(k) \/ ResetFails(k)
             \/ \E on \in BOOLEAN : SetBypass(k, on)
             \/ \E p \in Callers : StartSession(k, p) \/ CheckClaim(k, p)
      PROVE  QuietStep
  BY <1>0, <1>3 DEF RenewSession, ClaimRunsOut, ResetFails, SetBypass,
     StartSession, CheckClaim
<1>4. ASSUME NEW k \in Sessions, ResetCursor(k) PROVE ResetStep(k)
  BY <1>4 DEF ResetCursor, ResetStep, Checkpoints
<1>5. ASSUME NEW k \in Sessions, NEW p \in Callers, SaveCompaction(k, p)
      PROVE  CompactStep(k)
  BY <1>5 DEF SaveCompaction, CompactStep
<1>6. ASSUME NEW k \in Sessions, NEW n \in 1 .. MaxLength, EndSessionWith(k, n)
      PROVE  CaptureStep(k, n) /\ n \in Nat
  BY <1>6 DEF EndSessionWith, CaptureStep, Enqueue, EnqueueStep
<1>7. ASSUME NEW k \in Sessions, NEW p \in Callers, NEW t \in Offered(k),
             CheckpointExtract(k, p, t) \/ JobWithoutCursor(k, p, t)
      PROVE  ExtractStep(k, t)
  BY <1>7, OfferedAre, Kept DEF CheckpointExtract, JobWithoutCursor,
     ExtractStep, Enqueue, EnqueueStep
<1>13. ASSUME NEW k \in Sessions, NEW p \in Callers, NEW t \in Offered(k),
              CheckpointRereads(k, p, t)
       PROVE  RereadStep(k, t)
  BY <1>13, OfferedAre, Kept DEF CheckpointRereads, RereadStep, Enqueue,
     EnqueueStep
<1>14. ASSUME NEW k \in Sessions, SubmitPrompt(k) \/ EndSession(k)
       PROVE  QuietStep \/ KeepStep(k)
  <2>1. UNCHANGED <<epoch, cursor, flaws, jobs>>
    BY <1>14 DEF SubmitPrompt, EndSession
  <2>2. UNCHANGED stored \/ \E n \in Nat : Upsert(k, Given(k, n))
    BY <1>14 DEF SubmitPrompt, EndSession
  <2> QED BY <1>0, <2>1, <2>2 DEF KeepStep
<1>15. ASSUME NEW k \in Sessions, NEW p \in Callers, CheckpointSkips(k, p)
       PROVE  QuietStep \/ KeepStep(k)
  <2>1. UNCHANGED <<epoch, cursor, flaws, jobs>>
    BY <1>15 DEF CheckpointSkips
  <2>2. CASE UNCHANGED stored
    BY <1>0, <2>1, <2>2
  <2>3. ASSUME NEW t \in Offered(k), Upsert(k, t)
        PROVE  QuietStep \/ KeepStep(k)
    <3>1. CASE t = stored[k]
      <4>1. UNCHANGED stored
        BY <2>3, <3>1 DEF Upsert, StateOK
      <4> QED BY <1>0, <2>1, <4>1
    <3>2. CASE \E n \in Nat : t = Given(k, n)
      BY <2>1, <2>3, <3>2 DEF KeepStep
    <3> QED BY <2>3, <3>1, <3>2, OfferedAre DEF Offer
  <2> QED BY <1>15, <2>2, <2>3, Kept DEF CheckpointSkips
<1>8. ASSUME NEW h \in Hands, Attempts(h)
      PROVE  QuietStep \/ \E i \in DOMAIN jobs : StoreStep(i)
  BY <1>8, AttemptSteps
<1>16. CASE (\E i \in DOMAIN jobs : Tick(i)) \/ RecoverSummaryJobs
  BY <1>16, WorkerRows DEF WorkerStep, QuietStep, Tick, RecoverSummaryJobs,
     sessionVars
<1>9. CASE \/ RecoveryThrows \/ StopWorker \/ StartWorker \/ Reconfigure
           \/ Restart
  BY <1>0, <1>9 DEF RecoveryThrows, StopWorker, StartWorker, Reconfigure,
     Restart, sessionVars
<1>10. CASE RequeueDeadJobs \/ BackfillSkippedSessions
  BY <1>10, RepairRows DEF QuietStep, RequeueDeadJobs, BackfillSkippedSessions,
       sessionVars
<1>11. CASE SessionNext
  BY <1>2, <1>3, <1>4, <1>5, <1>6, <1>7, <1>13, <1>14, <1>15, <1>11
  DEF SessionNext
<1>12. CASE WorkerNext
  BY <1>8, <1>9, <1>10, <1>16, <1>12 DEF WorkerNext
<1> QED BY <1>1, <1>11, <1>12 DEF Next

LEMMA Appended ==
  ASSUME JobsOK, NEW text \in Texts, EnqueueStep(text)
  PROVE  /\ jobs' \in Seq(Jobs)
         /\ DOMAIN jobs' = DOMAIN jobs \cup {Len(jobs) + 1}
         /\ Len(jobs) + 1 \notin DOMAIN jobs
         /\ \A i \in DOMAIN jobs : jobs'[i] = jobs[i]
         /\ jobs'[Len(jobs) + 1].text = text
<1>1. PendingJob(text) \in Jobs /\ PendingJob(text).text = text
  BY DEF PendingJob, Jobs, Statuses, Results
<1>2. jobs \in Seq(Jobs) /\ jobs' = Append(jobs, PendingJob(text))
  BY DEF JobsOK, EnqueueStep
<1> HIDE DEF Jobs
<1> QED BY <1>1, <1>2

LEMMA OffersAreTranscripts ==
  ASSUME StateOK, NEW k \in Sessions
  PROVE  /\ \A n \in Nat : Given(k, n) \in Transcript
         /\ \A t : Offer(k, t) => t \in Transcript
         /\ NoTranscript \in Transcript
<1>1. ASSUME NEW n \in Nat PROVE Given(k, n) \in Transcript
  BY DEF StateOK, Given, Transcript
<1>2. NoTranscript \in Transcript
  BY DEF NoTranscript, Transcript
<1> QED BY <1>1, <1>2 DEF StateOK, Offer

LEMMA DeltasAreTexts ==
  ASSUME StateOK, NEW k \in Sessions, NEW t \in Transcript, NEW skip \in Nat
  PROVE  Delta(k, t, skip) \in Texts
<1>1. t.epoch \in Nat /\ t.from \in Nat /\ t.upto \in Nat /\ Cap \in Nat
  BY LifecycleAssumption DEF Transcript
<1>2. /\ t.from + skip \in Nat /\ t.from + skip + Cap \in Nat
      /\ Least(t.upto, t.from + skip + Cap) \in Nat
  BY <1>1 DEF Least
<1> QED BY <1>1, <1>2 DEF Delta, Texts

LEMMA CapturesAreTexts ==
  ASSUME StateOK, NEW k \in Sessions, NEW n \in Nat
  PROVE  [session |-> k, epoch |-> epoch[k], from |-> 0,
          upto |-> Least(n, Cap), end |-> n, checkpoint |-> FALSE] \in Texts
<1>1. epoch[k] \in Nat /\ Least(n, Cap) \in Nat
  BY LifecycleAssumption DEF StateOK, Least
<1> QED BY <1>1 DEF Texts

LEMMA Upserted ==
  ASSUME StateOK, NEW k \in Sessions, NEW t \in Transcript, Upsert(k, t)
  PROVE  /\ stored' \in [Sessions -> Transcript]
         /\ stored'[k] \in {stored[k], t}
         /\ \A j \in Sessions : j # k => stored'[j] = stored[j]
  BY DEF StateOK, Upsert

LEMMA RowsAndCursors ==
  ASSUME StateOK, JobsOK, HandsOK, [Next]_vars
  PROVE  StateOK' /\ JobsOK'
<1>1. CASE QuietStep
  BY <1>1 DEF QuietStep, SameTexts, StateOK, JobsOK
<1>2. ASSUME NEW k \in Sessions, NEW n \in Nat, CaptureStep(k, n)
      PROVE  StateOK' /\ JobsOK'
  <2>1. JobsOK'
    BY <1>2, CapturesAreTexts, Appended DEF CaptureStep, JobsOK
  <2>2. stored' \in [Sessions -> Transcript]
    BY <1>2, OffersAreTranscripts, Upserted DEF CaptureStep
  <2> QED BY <1>2, <2>1, <2>2 DEF CaptureStep, StateOK
<1>3. ASSUME NEW k \in Sessions, NEW t, Offer(k, t), Size(t) > 0
      PROVE  t \in Transcript /\ Size(t) \in Nat
  <2>1. t \in Transcript
    BY <1>3, OffersAreTranscripts
  <2> QED BY <1>3, <2>1 DEF Transcript, Size
<1>4. ASSUME NEW k \in Sessions, NEW t, ExtractStep(k, t)
      PROVE  StateOK' /\ JobsOK'
  <2>1. cursor[k] \in Nat /\ t \in Transcript
    BY <1>4, OffersAreTranscripts DEF ExtractStep, StateOK
  <2>2. Size(t) \in Nat
    BY <1>4, <2>1 DEF ExtractStep, Size, Transcript
  <2>3. JobsOK'
    BY <1>4, <2>1, DeltasAreTexts, Appended DEF ExtractStep, JobsOK
  <2>4. stored' \in [Sessions -> Transcript]
    BY <1>4, <2>1, Upserted DEF ExtractStep
  <2>5. Restored(k, t) \subseteq {"restored"}
    BY DEF Restored
  <2>6. /\ epoch' \in [Sessions -> Nat] /\ cursor' \in [Sessions -> Nat]
        /\ flaws' \in [Sessions -> SUBSET {"stale", "behind", "restored"}]
    BY <1>4, <2>2, <2>5 DEF ExtractStep, MarkFlaw, StateOK
  <2> QED BY <2>3, <2>4, <2>6 DEF StateOK
<1>5. ASSUME NEW k \in Sessions, NEW t, RereadStep(k, t)
      PROVE  StateOK' /\ JobsOK'
  <2>1. t \in Transcript /\ Size(t) \in Nat
    BY <1>3, <1>5 DEF RereadStep
  <2>2. JobsOK'
    BY <1>5, <2>1, DeltasAreTexts, Appended DEF RereadStep, JobsOK
  <2>3. stored' \in [Sessions -> Transcript]
    BY <1>5, <2>1, Upserted DEF RereadStep
  <2>4. Restored(k, t) \subseteq {"restored"}
    BY DEF Restored
  <2>5. /\ epoch' \in [Sessions -> Nat] /\ cursor' \in [Sessions -> Nat]
        /\ flaws' \in [Sessions -> SUBSET {"stale", "behind", "restored"}]
    BY <1>5, <2>1, <2>4 DEF RereadStep, MarkFlaw, StateOK
  <2> QED BY <2>2, <2>3, <2>5 DEF StateOK
<1>6. ASSUME NEW k \in Sessions, CompactStep(k) PROVE StateOK' /\ JobsOK'
  BY <1>6 DEF CompactStep, StateOK, JobsOK
<1>7. ASSUME NEW k \in Sessions, ResetStep(k) PROVE StateOK' /\ JobsOK'
  BY <1>7, OffersAreTranscripts DEF ResetStep, StateOK, JobsOK
<1>8. ASSUME NEW k \in Sessions, KeepStep(k) PROVE StateOK' /\ JobsOK'
  <2>1. stored' \in [Sessions -> Transcript]
    BY <1>8, OffersAreTranscripts, Upserted DEF KeepStep
  <2> QED BY <1>8, <2>1 DEF KeepStep, StateOK, JobsOK
<1>9. ASSUME NEW i \in DOMAIN jobs, StoreStep(i) PROVE StateOK' /\ JobsOK'
  <2>0. jobs[i] \in Jobs
    BY DEF JobsOK
  <2>1. jobs[i].text \in Texts
    BY <2>0 DEF Jobs
  <2>2. /\ jobs[i].text.session \in Sessions
        /\ [epoch |-> jobs[i].text.epoch, from |-> jobs[i].text.from,
            upto |-> jobs[i].text.upto] \in Transcript
    BY <2>1 DEF Texts, Transcript
  <2>3. stored' \in [Sessions -> Transcript]
    BY <1>9, <2>2, Upserted DEF StoreStep
  <2> QED BY <1>9, <2>3 DEF StoreStep, StateOK, JobsOK
<1> QED BY <1>1, <1>2, <1>4, <1>5, <1>6, <1>7, <1>8, <1>9, NextSteps

\* What the hook routes leave alone, apart from their own part of the state.
Enqueues ==
  \E k \in Sessions :
    \/ \E n \in 1 .. MaxLength : EndSessionWith(k, n)
    \/ \E p \in Callers, t \in Offered(k) :
         \/ CheckpointExtract(k, p, t) \/ JobWithoutCursor(k, p, t)
         \/ CheckpointRereads(k, p, t)

Compacts ==
  \E k \in Sessions : \/ ResetCursor(k) \/ ResetFails(k)
                      \/ \E p \in Callers : SaveCompaction(k, p)

LEMMA SessionFrame ==
  ASSUME SessionNext
  PROVE  /\ UNCHANGED <<up, leasing, recovering, attempt>>
         /\ Enqueues \/ UNCHANGED jobs
         /\ Compacts \/ UNCHANGED <<compacting, summarised>>
<1>1. CASE SweepSessions
  BY <1>1 DEF SweepSessions, workerVars
<1>2. ASSUME NEW k \in Sessions,
             \/ SubmitPrompt(k) \/ RenewSession(k) \/ ClaimRunsOut(k)
             \/ EndSession(k) \/ \E on \in BOOLEAN : SetBypass(k, on)
      PROVE  UNCHANGED <<up, leasing, recovering, attempt, jobs, compacting, summarised>>
  BY <1>2 DEF SubmitPrompt, RenewSession, ClaimRunsOut, EndSession, SetBypass,
     workerVars
<1>3. ASSUME NEW k \in Sessions, NEW p \in Callers,
             StartSession(k, p) \/ CheckClaim(k, p) \/ CheckpointSkips(k, p)
      PROVE  UNCHANGED <<up, leasing, recovering, attempt, jobs, compacting, summarised>>
  BY <1>3 DEF StartSession, CheckClaim, CheckpointSkips, workerVars
<1>4. CASE Compacts
  <2>1. UNCHANGED <<up, leasing, recovering, attempt, jobs>>
    BY <1>4 DEF Compacts, ResetCursor, ResetFails, SaveCompaction, workerVars
  <2> QED BY <1>4, <2>1
<1>5. CASE Enqueues
  <2>1. UNCHANGED <<up, leasing, recovering, attempt, compacting, summarised>>
    BY <1>5 DEF Enqueues, EndSessionWith, CheckpointExtract, JobWithoutCursor,
       CheckpointRereads, workerVars
  <2> QED BY <1>5, <2>1
<1> QED BY <1>1, <1>2, <1>3, <1>4, <1>5 DEF SessionNext, Enqueues, Compacts

\* The routes that enqueue do so for a text that is not empty.
LEMMA Enqueued ==
  ASSUME StateOK, Enqueues
  PROVE  \E text \in Texts : text.from < text.upto /\ EnqueueStep(text)
<1>0. Cap \in Nat /\ Cap >= 1
  BY LifecycleAssumption
<1>1. ASSUME NEW k \in Sessions, NEW n \in 1 .. MaxLength, EndSessionWith(k, n)
      PROVE  \E text \in Texts : text.from < text.upto /\ EnqueueStep(text)
  <2> DEFINE text == [session |-> k, epoch |-> epoch[k], from |-> 0,
                upto |-> Least(n, Cap), end |-> n, checkpoint |-> FALSE]
  <2>1. text \in Texts /\ EnqueueStep(text)
    BY <1>1, CapturesAreTexts DEF EndSessionWith, Enqueue, EnqueueStep
  <2>2. text.from < text.upto
    BY <1>0 DEF Least
  <2> HIDE DEF text
  <2> QED BY <2>1, <2>2
<1>2. ASSUME NEW k \in Sessions, NEW t \in Offered(k), NEW skip \in Nat,
             Size(t) > skip, EnqueueStep(Delta(k, t, skip))
      PROVE  \E text \in Texts : text.from < text.upto /\ EnqueueStep(text)
  <2>1. t \in Transcript
    BY OfferedAre, OffersAreTranscripts
  <2>2. t.from \in Nat /\ t.upto \in Nat /\ t.upto - t.from > skip
    BY <1>2, <2>1 DEF Transcript, Size
  <2>3. Delta(k, t, skip).from < Delta(k, t, skip).upto
    BY <1>0, <2>2 DEF Delta, Least
  <2> QED BY <1>2, <2>1, <2>3, DeltasAreTexts
<1>3. ASSUME NEW k \in Sessions, NEW p \in Callers, NEW t \in Offered(k),
             CheckpointExtract(k, p, t) \/ JobWithoutCursor(k, p, t)
      PROVE  \E text \in Texts : text.from < text.upto /\ EnqueueStep(text)
  <2>1. /\ cursor[k] \in Nat /\ Size(t) > cursor[k]
        /\ EnqueueStep(Delta(k, t, cursor[k]))
    BY <1>3 DEF CheckpointExtract, JobWithoutCursor, Enqueue, EnqueueStep,
       StateOK
  <2> QED BY <1>2, <2>1
<1>4. ASSUME NEW k \in Sessions, NEW p \in Callers, NEW t \in Offered(k),
             CheckpointRereads(k, p, t)
      PROVE  \E text \in Texts : text.from < text.upto /\ EnqueueStep(text)
  <2>1. Size(t) > 0 /\ EnqueueStep(Delta(k, t, 0))
    BY <1>4 DEF CheckpointRereads, Enqueue, EnqueueStep
  <2> QED BY <1>2, <2>1
<1> QED BY <1>1, <1>3, <1>4 DEF Enqueues

\* What is in hand stays the place of a row, since rows are never deleted.
RowsStay == DOMAIN jobs \subseteq DOMAIN jobs'

LEMMA RowsStayStep ==
  ASSUME JobsOK, StateOK, HandsOK, [Next]_vars
  PROVE  RowsStay
<1>1. ASSUME NEW text, EnqueueStep(text) PROVE RowsStay
  <2>1. DOMAIN jobs = 1 .. Len(jobs) /\ Len(jobs) \in Nat
    BY DEF JobsOK
  <2>2. DOMAIN jobs' = 1 .. Len(jobs) + 1
    BY <1>1 DEF EnqueueStep, JobsOK
  <2> QED BY <2>1, <2>2 DEF RowsStay
<1>2. CASE QuietStep
  BY <1>2 DEF QuietStep, SameTexts, RowsStay
<1>3. CASE UNCHANGED jobs
  BY <1>3 DEF RowsStay
<1> QED BY <1>1, <1>2, <1>3, NextSteps
  DEF KeepStep, StoreStep, CaptureStep, ExtractStep, RereadStep, CompactStep,
      ResetStep

LEMMA AttemptHands ==
  ASSUME HandsOK, NEW h \in Hands, Attempts(h)
  PROVE  /\ attempt' \in [Hands -> Attempt \cup {Idle}]
         /\ \A g \in Hands : attempt'[g] = Idle \/ attempt'[g].job = attempt[g].job
         /\ \A g \in Hands : attempt'[g] # Idle => attempt[g] # Idle
<1> USE DEF HandsOK
<1>1. CASE Done(h)
  BY <1>1 DEF Done
<1>2. ASSUME NEW at \in {"command", "summary", "scoring", "stored"},
             Proceed(h, at), attempt[h] # Idle
      PROVE  /\ attempt' \in [Hands -> Attempt \cup {Idle}]
             /\ \A g \in Hands :
                  attempt'[g] = Idle \/ attempt'[g].job = attempt[g].job
             /\ \A g \in Hands : attempt'[g] # Idle => attempt[g] # Idle
  <2>1. attempt[h] \in Attempt
    BY <1>2
  <2>2. /\ [attempt[h] EXCEPT !.at = at] \in Attempt
        /\ [attempt[h] EXCEPT !.at = at].job = attempt[h].job
    BY <2>1 DEF Attempt
  <2>3. attempt' = [attempt EXCEPT ![h] = [attempt[h] EXCEPT !.at = at]]
    BY <1>2 DEF Proceed
  <2> QED BY <1>2, <2>2, <2>3
<1>3. CASE \/ BeginCommand(h) \/ CommandSucceeds(h) \/ BeginSummary(h)
           \/ StoreTranscript(h)
           \/ \E written \in BOOLEAN : WriteSummary(h, written)
  BY <1>2, <1>3 DEF BeginCommand, CommandSucceeds, BeginSummary, WriteSummary,
     StoreTranscript, At
<1> QED BY <1>1, <1>3 DEF Attempts, CommandFails, SkipJob, FailAttempt,
   LoseAttempt, FinishJob

LEMMA HandsStep ==
  ASSUME StateOK, JobsOK, HandsOK, [Next]_vars
  PROVE  HandsOK'
<1>0. RowsStay
  BY RowsStayStep
<1>1. CASE UNCHANGED attempt
  BY <1>0, <1>1 DEF HandsOK, RowsStay
<1>2. ASSUME NEW h \in Hands, Attempts(h) PROVE HandsOK'
  <2>1. /\ attempt' \in [Hands -> Attempt \cup {Idle}]
        /\ \A g \in Hands : attempt'[g] = Idle \/ attempt'[g].job = attempt[g].job
        /\ \A g \in Hands : attempt'[g] # Idle => attempt[g] # Idle
    BY <1>2, AttemptHands
  <2> QED BY <1>0, <2>1 DEF HandsOK, RowsStay
<1>3. ASSUME NEW i \in DOMAIN jobs, Tick(i) PROVE HandsOK'
  <2>1. attempt' = [attempt EXCEPT !["current"] = [job |-> i, at |-> "leased"]]
    BY <1>3 DEF Tick
  <2>2. i \in Nat
    BY DEF JobsOK
  <2>3. [job |-> i, at |-> "leased"] \in Attempt
    BY <2>2 DEF Attempt
  <2>4. /\ attempt' \in [Hands -> Attempt \cup {Idle}]
        /\ \A g \in Hands : attempt'[g] = attempt[g] \/ attempt'[g].job = i
    BY <2>1, <2>3 DEF HandsOK, Hands
  <2> QED BY <1>0, <2>4 DEF HandsOK, RowsStay
<1>4. CASE StopWorker
  <2>1. attempt' = [current |-> Idle, left |-> attempt.current]
    BY <1>4 DEF StopWorker
  <2>2. attempt["current"] \in Attempt \cup {Idle}
    BY DEF HandsOK, Hands
  <2>3. /\ attempt'["current"] = Idle /\ attempt'["left"] = attempt["current"]
        /\ attempt' \in [Hands -> Attempt \cup {Idle}]
    BY <2>1, <2>2 DEF Hands
  <2> QED BY <1>0, <2>3 DEF HandsOK, RowsStay, Hands
<1>5. CASE Restart
  BY <1>5 DEF Restart, HandsOK
<1>6. CASE SessionNext \/ UNCHANGED vars
  BY <1>1, <1>6, SessionFrame DEF vars, workerVars
<1>7. CASE \/ RecoverSummaryJobs \/ RecoveryThrows \/ StartWorker
           \/ Reconfigure \/ RequeueDeadJobs \/ BackfillSkippedSessions
  BY <1>1, <1>7 DEF RecoverSummaryJobs, RecoveryThrows, StartWorker,
     Reconfigure, RequeueDeadJobs, BackfillSkippedSessions, workerVars
<1> QED BY <1>2, <1>3, <1>4, <1>5, <1>6, <1>7 DEF Next, WorkerNext

\* What every argument below rests on: rows, cursors and store have their types,
\* and what is in hand is a row.
BaseOK == StateOK /\ JobsOK /\ HandsOK

LEMMA BaseStep == BaseOK /\ [Next]_vars => BaseOK'
  BY RowsAndCursors, HandsStep DEF BaseOK

LEMMA BaseInit == Init => BaseOK
<1> SUFFICES ASSUME Init PROVE BaseOK
  OBVIOUS
<1>1. NoTranscript \in Transcript
  BY DEF NoTranscript, Transcript
<1> QED BY <1>1 DEF Init, BaseOK, StateOK, JobsOK, HandsOK

(***************************************************************************)
(* A completed job is final                                                 *)
(***************************************************************************)

LEMMA CompletedStep ==
  ASSUME BaseOK, [Next]_vars, ~BackfillSkippedSessions
  PROVE  CompletedStay
<1> USE DEF BaseOK
<1>1. CASE UNCHANGED jobs
  BY <1>1 DEF CompletedStay
<1>2. CASE WorkerStep
  BY <1>2, WorkerRows
<1>3. CASE RequeueDeadJobs
  BY <1>3, RepairRows
<1>4. CASE \E text \in Texts : EnqueueStep(text)
  BY <1>4, Appended DEF CompletedStay
<1>5. CASE SessionNext
  BY <1>1, <1>4, <1>5, SessionFrame, Enqueued
<1>6. CASE UNCHANGED vars
  BY <1>6, <1>1 DEF vars
<1>7. CASE \/ RecoveryThrows \/ StopWorker \/ StartWorker \/ Reconfigure
           \/ Restart
  BY <1>7, <1>1 DEF RecoveryThrows, StopWorker, StartWorker, Reconfigure, Restart
<1> QED BY <1>2, <1>3, <1>5, <1>6, <1>7 DEF Next, WorkerNext, WorkerStep

\* No attempt of a stopped or a started worker brings a completed job back.
THEOREM CompletedForGood == Spec => CompletedIsFinal
<1>1. BaseOK /\ [Next]_vars =>
        [\A i \in DOMAIN jobs :
           (jobs[i].status = "completed" /\ jobs'[i].status # "completed")
             => BackfillSkippedSessions]_vars
  BY CompletedStep DEF CompletedStay
<1> QED BY BaseInit, BaseStep, <1>1, PTL DEF Spec, CompletedIsFinal

(***************************************************************************)
(* Checkpoints and the cursor                                               *)
(***************************************************************************)

EpochsPast ==
  \A i \in DOMAIN jobs : jobs[i].text.epoch <= epoch[jobs[i].text.session]

\* The end of a session enqueues a transcript from its start.
CapturesWhole ==
  \A i \in DOMAIN jobs : jobs[i].text.checkpoint \/ jobs[i].text.from = 0

\* Where the history says that all is in order, the cursor is behind no
\* checkpoint of the transcript; after a compaction there is none at first.
CheckpointsPast ==
  \A k \in Sessions : "behind" \notin flaws[k] =>
    IF "stale" \in flaws[k] THEN Checkpoints(k) = {}
    ELSE \A i \in Checkpoints(k) : jobs[i].text.upto <= cursor[k]

\* Nor behind what the worker has stored of one.
StoredIsPast(k) ==
  /\ stored[k].epoch <= epoch[k]
  /\ (/\ "behind" \notin flaws[k]
      /\ stored[k].epoch = epoch[k] /\ stored[k].from > 0)
     => "stale" \notin flaws[k] /\ stored[k].upto <= cursor[k]

StoredPast == \A k \in Sessions : StoredIsPast(k)

CursorInv ==
  /\ BaseOK /\ EpochsPast /\ CapturesWhole /\ StoredPast
  /\ CheckpointsPast /\ CursorCovered /\ ExtractedOnce

LEMMA RowTexts ==
  ASSUME JobsOK
  PROVE  \A i \in DOMAIN jobs : /\ jobs[i].text \in Texts
                              /\ jobs[i].text.session \in Sessions
                              /\ jobs[i].text.epoch \in Nat
                              /\ jobs[i].text.from \in Nat
                              /\ jobs[i].text.upto \in Nat
<1>1. \A i \in DOMAIN jobs : jobs[i] \in Jobs
  BY DEF JobsOK
<1>2. \A i \in DOMAIN jobs : jobs[i].text \in Texts
  BY <1>1 DEF Jobs
<1> QED BY <1>2 DEF Texts

\* What a row holds depends on its text only.
LEMMA SameCheckpoints ==
  ASSUME SameTexts, UNCHANGED epoch, NEW k \in Sessions
  PROVE  Checkpoints(k)' = Checkpoints(k)
  BY DEF SameTexts, Checkpoints

LEMMA QuietKeeps ==
  ASSUME CursorInv, SameTexts, UNCHANGED <<epoch, cursor, flaws>>
  PROVE  EpochsPast' /\ CheckpointsPast' /\ CursorCovered' /\ ExtractedOnce'
<1>1. /\ \A k \in Sessions : Checkpoints(k)' = Checkpoints(k)
      /\ \A k \in Sessions : Checkpoints(k) \subseteq DOMAIN jobs
      /\ \A i \in DOMAIN jobs : jobs'[i].text = jobs[i].text
      /\ DOMAIN jobs' = DOMAIN jobs
      /\ UNCHANGED <<epoch, cursor, flaws>>
  BY SameCheckpoints DEF SameTexts, Checkpoints
<1>2. EpochsPast'
  BY <1>1 DEF CursorInv, EpochsPast
<1>3. CheckpointsPast'
  BY <1>1 DEF CursorInv, CheckpointsPast
<1>4. CursorCovered'
  BY <1>1 DEF CursorInv, CursorCovered, CursorIsCovered, Has, CutOff
<1>5. ExtractedOnce'
  BY <1>1 DEF CursorInv, ExtractedOnce, Has
<1> QED BY <1>2, <1>3, <1>4, <1>5

LEMMA AppendedCheckpoints ==
  ASSUME JobsOK, NEW text \in Texts, EnqueueStep(text), UNCHANGED epoch,
         NEW k \in Sessions
  PROVE  Checkpoints(k)' =
           IF text.session = k /\ text.epoch = epoch[k] /\ text.checkpoint
           THEN Checkpoints(k) \cup {Len(jobs) + 1}
           ELSE Checkpoints(k)
  BY Appended DEF Checkpoints

LEMMA CaptureKeeps ==
  ASSUME CursorInv, NEW k \in Sessions, NEW n \in Nat, CaptureStep(k, n)
  PROVE  EpochsPast' /\ CheckpointsPast' /\ CursorCovered' /\ ExtractedOnce'
<1> DEFINE text == [session |-> k, epoch |-> epoch[k], from |-> 0,
                    upto |-> Least(n, Cap), end |-> n, checkpoint |-> FALSE]
<1>1. text \in Texts /\ EnqueueStep(text) /\ UNCHANGED <<epoch, cursor, flaws>>
  BY CapturesAreTexts DEF CursorInv, BaseOK, CaptureStep
<1>2. ~text.checkpoint /\ text.session = k /\ text.epoch = epoch[k]
  OBVIOUS
<1> HIDE DEF text
<1>3. /\ \A j \in Sessions : Checkpoints(j)' = Checkpoints(j)
      /\ \A j \in Sessions : Checkpoints(j) \subseteq DOMAIN jobs
      /\ \A i \in DOMAIN jobs : jobs'[i] = jobs[i]
      /\ DOMAIN jobs' = DOMAIN jobs \cup {Len(jobs) + 1}
      /\ jobs'[Len(jobs) + 1].text = text
  <2>1. JobsOK
    BY DEF CursorInv, BaseOK
  <2>2. \A j \in Sessions : Checkpoints(j)' = Checkpoints(j)
    BY <2>1, <1>1, <1>2, AppendedCheckpoints
  <2> QED BY <2>1, <2>2, <1>1, Appended DEF Checkpoints
<1>4. EpochsPast'
  <2>1. epoch[k] <= epoch[k]
    BY DEF CursorInv, BaseOK, StateOK
  <2> QED BY <1>1, <1>2, <1>3, <2>1 DEF CursorInv, EpochsPast
<1>5. CheckpointsPast'
  BY <1>1, <1>3 DEF CursorInv, CheckpointsPast
<1>6. CursorCovered'
  BY <1>1, <1>3 DEF CursorInv, CursorCovered, CursorIsCovered, Has, CutOff
<1>7. ExtractedOnce'
  BY <1>1, <1>3 DEF CursorInv, ExtractedOnce, Has
<1> QED BY <1>4, <1>5, <1>6, <1>7

\* The place of the row that an enqueue adds.
NewRow == Len(jobs) + 1

\* What a checkpoint's delta adds to the rows.
LEMMA DeltaAdded ==
  ASSUME CursorInv, NEW k \in Sessions, NEW t, Offer(k, t), NEW skip \in Nat,
         EnqueueStep(Delta(k, t, skip)), UNCHANGED epoch
  PROVE  /\ NewRow \notin DOMAIN jobs
         /\ DOMAIN jobs' = DOMAIN jobs \cup {NewRow}
         /\ \A i \in DOMAIN jobs : jobs'[i] = jobs[i]
         /\ jobs'[NewRow].text = Delta(k, t, skip)
         /\ Checkpoints(k)' =
              IF t.epoch = epoch[k] THEN Checkpoints(k) \cup {NewRow}
              ELSE Checkpoints(k)
         /\ \A j \in Sessions : j # k => Checkpoints(j)' = Checkpoints(j)
<1> DEFINE text == Delta(k, t, skip)
<1>0. PICK new : new = NewRow /\ new = Len(jobs) + 1
  BY DEF NewRow
<1>1. text \in Texts /\ text.session = k /\ text.epoch = t.epoch /\ text.checkpoint
  BY OffersAreTranscripts, DeltasAreTexts DEF CursorInv, BaseOK, Delta
<1> HIDE DEF text
<1>2. EnqueueStep(text)
  BY DEF text
<1>3. /\ new \notin DOMAIN jobs /\ DOMAIN jobs' = DOMAIN jobs \cup {new}
      /\ \A i \in DOMAIN jobs : jobs'[i] = jobs[i]
      /\ jobs'[new].text = text
  BY <1>0, <1>1, <1>2, Appended DEF CursorInv, BaseOK
<1>4. \A j \in Sessions : Checkpoints(j)' =
        IF text.session = j /\ text.epoch = epoch[j] /\ text.checkpoint
        THEN Checkpoints(j) \cup {new} ELSE Checkpoints(j)
  BY <1>0, <1>1, <1>2, AppendedCheckpoints DEF CursorInv, BaseOK
<1> QED BY <1>0, <1>1, <1>3, <1>4 DEF text

\* Where it lies in the transcript.
LEMMA DeltaLies ==
  ASSUME StateOK, NEW k \in Sessions, NEW t, Offer(k, t), NEW skip \in Nat
  PROVE  LET text == Delta(k, t, skip)
         IN  /\ t \in Transcript
             /\ t.from \in Nat /\ t.upto \in Nat /\ t.epoch \in Nat
             /\ Size(t) = t.upto - t.from
             /\ text.epoch = t.epoch /\ text.session = k
             /\ text.from = t.from + skip /\ text.end = t.upto
             /\ text.upto \in Nat /\ text.upto <= t.upto
<1>1. t \in Transcript
  BY OffersAreTranscripts
<1>2. t.from \in Nat /\ t.upto \in Nat /\ t.epoch \in Nat /\ Cap \in Nat
  BY <1>1, LifecycleAssumption DEF Transcript
<1> QED BY <1>1, <1>2 DEF Delta, Least, Size

\* Nothing of the present transcript that a checkpoint can extract is a part of
\* it that the worker has stored.
LEMMA OfferedFromStart ==
  ASSUME CursorInv, NEW k \in Sessions, NEW t, Offer(k, t),
         Size(t) > cursor[k], t.epoch = epoch[k], "behind" \notin flaws[k]
  PROVE  t.from = 0 /\ Size(t) = t.upto
<1>1. /\ t.from \in Nat /\ t.upto \in Nat /\ Size(t) = t.upto - t.from
      /\ cursor[k] \in Nat
  BY DeltaLies DEF CursorInv, BaseOK, StateOK
<1>2. CASE t = stored[k]
  <2>1. t.from > 0 => t.upto <= cursor[k]
    BY <1>2 DEF CursorInv, StoredPast, StoredIsPast
  <2> QED BY <1>1, <2>1
<1>3. CASE \E n \in Nat : t = Given(k, n)
  BY <1>1, <1>3 DEF Given
<1> QED BY <1>2, <1>3 DEF Offer

LEMMA EpochsKept ==
  ASSUME CursorInv, NEW k \in Sessions, NEW t, Offer(k, t), NEW skip \in Nat,
         EnqueueStep(Delta(k, t, skip)), UNCHANGED epoch
  PROVE  EpochsPast'
<1>1. t.epoch \in Nat /\ epoch[k] \in Nat /\ t.epoch <= epoch[k]
  BY DeltaLies DEF Offer, Given, CursorInv, BaseOK, StateOK, StoredPast,
     StoredIsPast
<1>2. /\ Delta(k, t, skip).epoch = t.epoch /\ Delta(k, t, skip).session = k
  BY DEF Delta
<1>3. /\ DOMAIN jobs' = DOMAIN jobs \cup {NewRow}
      /\ \A i \in DOMAIN jobs : jobs'[i] = jobs[i]
      /\ jobs'[NewRow].text = Delta(k, t, skip)
  BY DeltaAdded
<1> QED BY <1>1, <1>2, <1>3 DEF CursorInv, EpochsPast

\* The delta begins at the cursor, and the cursor goes to where it ends.
LEMMA ExtractKeeps ==
  ASSUME CursorInv, NEW k \in Sessions, NEW t, ExtractStep(k, t)
  PROVE  EpochsPast' /\ CheckpointsPast' /\ CursorCovered' /\ ExtractedOnce'
<1> DEFINE text == Delta(k, t, cursor[k])
<1>1. /\ EnqueueStep(text) /\ UNCHANGED epoch /\ Offer(k, t)
      /\ Size(t) > cursor[k]
  BY DEF ExtractStep
<1>2. cursor[k] \in Nat /\ epoch[k] \in Nat
  BY DEF CursorInv, BaseOK, StateOK
<1>3. /\ t.from \in Nat /\ t.upto \in Nat /\ Size(t) = t.upto - t.from
      /\ text.from = t.from + cursor[k] /\ text.end = t.upto
      /\ text.upto \in Nat /\ text.upto <= t.upto
  BY <1>1, <1>2, DeltaLies DEF CursorInv, BaseOK
<1>4. /\ cursor'[k] \in {Size(t), cursor[k]}
      /\ cursor'[k] = Size(t) \/ "behind" \in flaws'[k]
      /\ "stale" \in flaws'[k] <=> "stale" \in flaws[k]
      /\ "behind" \notin flaws'[k]
           => "behind" \notin flaws[k] /\ "stale" \notin flaws[k]
      /\ "restored" \notin flaws'[k] => "restored" \notin flaws[k]
      /\ "restored" \notin flaws'[k]
           => cursor'[k] = cursor[k] \/ (t.epoch = epoch[k] /\ t.from = 0)
      /\ \A j \in Sessions : j # k => cursor'[j] = cursor[j]
                                     /\ flaws'[j] = flaws[j]
  BY DEF CursorInv, BaseOK, StateOK, ExtractStep, MarkFlaw, Restored
<1>0. PICK new : new = NewRow
  OBVIOUS
<1>5. /\ new \notin DOMAIN jobs /\ DOMAIN jobs' = DOMAIN jobs \cup {new}
      /\ \A i \in DOMAIN jobs : jobs'[i] = jobs[i]
      /\ jobs'[new].text = text
      /\ Checkpoints(k)' =
           IF t.epoch = epoch[k] THEN Checkpoints(k) \cup {new}
           ELSE Checkpoints(k)
      /\ \A j \in Sessions : j # k => Checkpoints(j)' = Checkpoints(j)
  BY <1>0, <1>1, <1>2, DeltaAdded
<1>6. /\ \A j \in Sessions : Checkpoints(j) \subseteq DOMAIN jobs
      /\ \A i \in DOMAIN jobs : jobs[i].text.upto \in Nat
  BY RowTexts DEF CursorInv, BaseOK, Checkpoints
<1>7. EpochsPast'
  BY <1>1, <1>2, EpochsKept
<1>11. ASSUME "behind" \notin flaws'[k], t.epoch = epoch[k]
       PROVE  t.from = 0 /\ Size(t) = t.upto
  BY <1>1, <1>4, <1>11, OfferedFromStart
<1> HIDE DEF text
<1>8. CheckpointsPast'
  <2>1. ASSUME NEW j \in Sessions, j # k, "behind" \notin flaws'[j]
        PROVE  IF "stale" \in flaws'[j] THEN Checkpoints(j)' = {}
               ELSE \A i \in Checkpoints(j)' : jobs'[i].text.upto <= cursor'[j]
    BY <2>1, <1>4, <1>5, <1>6 DEF CursorInv, CheckpointsPast
  <2>2. ASSUME "behind" \notin flaws'[k], NEW i \in Checkpoints(k)'
        PROVE  "stale" \notin flaws'[k] /\ jobs'[i].text.upto <= cursor'[k]
    <3>1. cursor'[k] = Size(t) /\ "stale" \notin flaws'[k]
      BY <2>2, <1>4
    <3>2. CASE i = new /\ t.epoch = epoch[k]
      BY <3>1, <3>2, <2>2, <1>3, <1>5, <1>11
    <3>3. CASE i \in Checkpoints(k)
      <4>1. jobs[i].text.upto <= cursor[k]
        BY <2>2, <1>4, <3>3 DEF CursorInv, CheckpointsPast
      <4>2. jobs[i].text.upto \in Nat /\ jobs'[i] = jobs[i]
        BY <1>5, <1>6, <3>3
      <4> QED BY <4>1, <4>2, <3>1, <1>1, <1>2, <1>3
    <3> QED BY <3>2, <3>3, <1>5, <2>2
  <2>3. "behind" \notin flaws'[k] => "stale" \notin flaws'[k]
    BY <1>4
  <2> QED BY <2>1, <2>2, <2>3 DEF CheckpointsPast
<1>9. CursorCovered'
  <2>1. ASSUME NEW j \in Sessions, j # k,
               flaws'[j] \cap {"stale", "restored"} = {},
               NEW part \in 0 .. cursor'[j] - 1
        PROVE  \E i \in Checkpoints(j)' : Has(i, part)' \/ CutOff(i, part)'
    BY <2>1, <1>4, <1>5, <1>6
    DEF CursorInv, CursorCovered, CursorIsCovered, Has, CutOff
  <2>2. ASSUME flaws'[k] \cap {"stale", "restored"} = {},
               NEW part \in 0 .. cursor'[k] - 1
        PROVE  \E i \in Checkpoints(k)' : Has(i, part)' \/ CutOff(i, part)'
    <3>0. flaws[k] \cap {"stale", "restored"} = {}
      BY <2>2, <1>4
    <3>1. CASE part < cursor[k]
      <4>1. part \in 0 .. cursor[k] - 1
        BY <3>1, <1>2, <2>2
      <4>2. PICK i \in Checkpoints(k) : Has(i, part) \/ CutOff(i, part)
        BY <4>1, <3>0 DEF CursorInv, CursorCovered, CursorIsCovered
      <4> QED BY <4>2, <1>5, <1>6 DEF Has, CutOff
    <3>2. CASE part >= cursor[k]
      <4>1. cursor'[k] = Size(t) /\ part < Size(t) /\ part \in Nat
        BY <3>2, <1>1, <1>2, <1>3, <1>4, <2>2
      <4>2. t.epoch = epoch[k] /\ t.from = 0
        BY <4>1, <2>2, <1>1, <1>2, <1>3, <1>4
      <4>3. Has(new, part)' \/ CutOff(new, part)'
        BY <4>1, <4>2, <3>2, <1>2, <1>3, <1>5 DEF Has, CutOff
      <4> QED BY <4>2, <4>3, <1>5
    <3> QED BY <3>1, <3>2, <1>2, <2>2
  <2> QED BY <2>1, <2>2 DEF CursorCovered, CursorIsCovered
<1>10. ExtractedOnce'
  <2>1. ASSUME NEW j \in Sessions, j # k, "behind" \notin flaws'[j],
               NEW a \in Checkpoints(j)', NEW b \in Checkpoints(j)', a # b,
               NEW part \in 0 .. MaxLength - 1
        PROVE  ~(Has(a, part)' /\ Has(b, part)')
    BY <2>1, <1>4, <1>5, <1>6 DEF CursorInv, ExtractedOnce, Has
  <2>2. ASSUME "behind" \notin flaws'[k],
               NEW a \in Checkpoints(k)', NEW b \in Checkpoints(k)', a # b,
               NEW part \in 0 .. MaxLength - 1
        PROVE  ~(Has(a, part)' /\ Has(b, part)')
    <3>1. \A i \in Checkpoints(k) : /\ jobs[i].text.upto <= cursor[k]
                                    /\ jobs[i].text.upto \in Nat
                                    /\ jobs'[i] = jobs[i]
      BY <2>2, <1>4, <1>5, <1>6 DEF CursorInv, CheckpointsPast
    <3>2. ASSUME t.epoch = epoch[k], NEW i \in Checkpoints(k)
          PROVE  ~(Has(i, part)' /\ Has(new, part)')
      <4>1. t.from = 0
        BY <3>2, <2>2, <1>11
      <4> QED BY <4>1, <3>1, <3>2, <1>2, <1>3, <1>5 DEF Has
    <3>3. CASE a \in Checkpoints(k) /\ b \in Checkpoints(k)
      BY <3>3, <3>1, <2>2, <1>4 DEF CursorInv, ExtractedOnce, Has
    <3> QED BY <3>2, <3>3, <2>2, <1>5
  <2> QED BY <2>1, <2>2 DEF ExtractedOnce
<1> QED BY <1>7, <1>8, <1>9, <1>10

\* From the start again: everything up to the cursor is in the new job, or cut
\* off from it.
LEMMA RereadKeeps ==
  ASSUME CursorInv, NEW k \in Sessions, NEW t, RereadStep(k, t)
  PROVE  EpochsPast' /\ CheckpointsPast' /\ CursorCovered' /\ ExtractedOnce'
<1> DEFINE text == Delta(k, t, 0)
<1>1. EnqueueStep(text) /\ UNCHANGED epoch /\ Offer(k, t) /\ 0 \in Nat
  BY DEF RereadStep
<1>2. /\ t.from \in Nat /\ t.upto \in Nat /\ Size(t) = t.upto - t.from
      /\ text.from = t.from + 0 /\ text.end = t.upto
      /\ text.upto \in Nat
  BY <1>1, DeltaLies DEF CursorInv, BaseOK
<1>3. /\ cursor'[k] = Size(t) /\ "behind" \in flaws'[k]
      /\ "restored" \notin flaws'[k] => t.epoch = epoch[k] /\ t.from = 0
      /\ \A j \in Sessions : j # k => cursor'[j] = cursor[j]
                                     /\ flaws'[j] = flaws[j]
  BY DEF CursorInv, BaseOK, StateOK, RereadStep, MarkFlaw, Restored
<1>0. PICK new : new = NewRow
  OBVIOUS
<1>4. /\ DOMAIN jobs' = DOMAIN jobs \cup {new}
      /\ \A i \in DOMAIN jobs : jobs'[i] = jobs[i]
      /\ jobs'[new].text = text
      /\ Checkpoints(k)' =
           IF t.epoch = epoch[k] THEN Checkpoints(k) \cup {new}
           ELSE Checkpoints(k)
      /\ \A j \in Sessions : j # k => Checkpoints(j)' = Checkpoints(j)
  BY <1>0, <1>1, DeltaAdded
<1>9. \A j \in Sessions : Checkpoints(j) \subseteq DOMAIN jobs
  BY DEF Checkpoints
<1>5. EpochsPast'
  BY <1>1, EpochsKept
<1> HIDE DEF text
<1>6. CheckpointsPast'
  BY <1>3, <1>4, <1>9 DEF CursorInv, CheckpointsPast
<1>7. CursorCovered'
  <2>1. ASSUME NEW j \in Sessions, j # k,
               flaws'[j] \cap {"stale", "restored"} = {},
               NEW part \in 0 .. cursor'[j] - 1
        PROVE  \E i \in Checkpoints(j)' : Has(i, part)' \/ CutOff(i, part)'
    BY <2>1, <1>3, <1>4, <1>9
    DEF CursorInv, CursorCovered, CursorIsCovered, Has, CutOff
  <2>2. ASSUME flaws'[k] \cap {"stale", "restored"} = {},
               NEW part \in 0 .. cursor'[k] - 1
        PROVE  new \in Checkpoints(k)' /\ (Has(new, part)' \/ CutOff(new, part)')
    <3>1. t.epoch = epoch[k] /\ t.from = 0
      BY <2>2, <1>3
    <3> QED BY <2>2, <3>1, <1>2, <1>3, <1>4 DEF Has, CutOff
  <2> QED BY <2>1, <2>2 DEF CursorCovered, CursorIsCovered
<1>8. ExtractedOnce'
  BY <1>3, <1>4, <1>9 DEF CursorInv, ExtractedOnce, Has
<1> QED BY <1>5, <1>6, <1>7, <1>8

\* No job is of the transcript that a compaction starts.
LEMMA CompactKeeps ==
  ASSUME CursorInv, NEW k \in Sessions, CompactStep(k)
  PROVE  EpochsPast' /\ CheckpointsPast' /\ CursorCovered' /\ ExtractedOnce'
<1>1. /\ epoch[k] \in Nat /\ epoch'[k] = epoch[k] + 1 /\ jobs' = jobs
      /\ flaws'[k] = IF cursor[k] = 0 THEN {} ELSE {"stale"}
      /\ cursor' = cursor
      /\ \A j \in Sessions : j # k => epoch'[j] = epoch[j] /\ flaws'[j] = flaws[j]
  BY DEF CursorInv, BaseOK, StateOK, CompactStep
<1>2. \A i \in DOMAIN jobs : /\ jobs[i].text.session \in Sessions
                            /\ jobs[i].text.epoch \in Nat
                            /\ jobs[i].text.epoch <= epoch[jobs[i].text.session]
  BY RowTexts DEF CursorInv, BaseOK, EpochsPast
<1>3. /\ Checkpoints(k)' = {}
      /\ \A j \in Sessions : j # k => Checkpoints(j)' = Checkpoints(j)
  BY <1>1, <1>2 DEF Checkpoints
<1>4. EpochsPast'
  <2>1. ASSUME NEW i \in DOMAIN jobs
        PROVE  jobs[i].text.epoch <= epoch'[jobs[i].text.session]
    <3>1. CASE jobs[i].text.session = k
      BY <1>1, <1>2, <3>1
    <3>2. CASE jobs[i].text.session # k
      BY <1>1, <1>2, <3>2
    <3> QED BY <3>1, <3>2
  <2> QED BY <2>1, <1>1 DEF EpochsPast
<1>5. CheckpointsPast'
  BY <1>1, <1>3 DEF CursorInv, CheckpointsPast
<1>6. CursorCovered'
  BY <1>1, <1>3 DEF CursorInv, CursorCovered, CursorIsCovered, Has, CutOff
<1>7. ExtractedOnce'
  BY <1>1, <1>3 DEF CursorInv, ExtractedOnce, Has
<1> QED BY <1>4, <1>5, <1>6, <1>7

LEMMA ResetKeeps ==
  ASSUME CursorInv, NEW k \in Sessions, ResetStep(k)
  PROVE  EpochsPast' /\ CheckpointsPast' /\ CursorCovered' /\ ExtractedOnce'
<1>1. /\ cursor'[k] = 0 /\ jobs' = jobs /\ epoch' = epoch
      /\ flaws'[k] = IF Checkpoints(k) = {} THEN {} ELSE {"behind"}
      /\ \A j \in Sessions : j # k => cursor'[j] = cursor[j]
                                     /\ flaws'[j] = flaws[j]
  BY DEF CursorInv, BaseOK, StateOK, ResetStep
<1>2. \A j \in Sessions : Checkpoints(j)' = Checkpoints(j)
  BY <1>1 DEF Checkpoints
<1>3. EpochsPast'
  BY <1>1 DEF CursorInv, EpochsPast
<1>4. CheckpointsPast'
  BY <1>1, <1>2 DEF CursorInv, CheckpointsPast
<1>5. CursorCovered'
  BY <1>1, <1>2 DEF CursorInv, CursorCovered, CursorIsCovered, Has, CutOff
<1>6. ExtractedOnce'
  BY <1>1, <1>2 DEF CursorInv, ExtractedOnce, Has
<1> QED BY <1>3, <1>4, <1>5, <1>6

\* A text that is stored is given from its start, or a row's, or was there.
LEMMA StoresPast ==
  ASSUME CursorInv, BaseOK', NEW k \in Sessions, NEW t \in Transcript,
         Upsert(k, t), UNCHANGED epoch,
         t = stored[k] \/ (t.epoch <= epoch[k] /\ t.from = 0),
         cursor'[k] >= cursor[k] \/ "behind" \in flaws'[k],
         "behind" \notin flaws'[k] =>
           /\ "behind" \notin flaws[k]
           /\ "stale" \in flaws[k] <=> "stale" \in flaws'[k],
         \A j \in Sessions : j # k => cursor'[j] = cursor[j]
                                     /\ flaws'[j] = flaws[j]
  PROVE  StoredPast'
<1>1. /\ stored'[k] \in {stored[k], t}
      /\ \A j \in Sessions : j # k => stored'[j] = stored[j]
  BY Upserted DEF CursorInv, BaseOK
<1>2. ASSUME NEW j \in Sessions, j # k PROVE StoredIsPast(j)'
  BY <1>1, <1>2 DEF CursorInv, StoredPast, StoredIsPast
<1>3. /\ cursor[k] \in Nat /\ cursor'[k] \in Nat
      /\ stored[k].upto \in Nat /\ stored[k].from \in Nat
  BY DEF BaseOK, StateOK, CursorInv, Transcript
<1>4. StoredIsPast(k)'
  <2>1. CASE stored'[k] = stored[k]
    BY <2>1, <1>3 DEF CursorInv, StoredPast, StoredIsPast
  <2>2. CASE stored'[k] = t /\ t.epoch <= epoch[k] /\ t.from = 0
    BY <2>2 DEF StoredIsPast
  <2> QED BY <1>1, <2>1, <2>2
<1> QED BY <1>2, <1>4 DEF StoredPast

LEMMA CapturesStay ==
  ASSUME CursorInv, NEW text \in Texts, EnqueueStep(text),
         text.checkpoint \/ text.from = 0
  PROVE  CapturesWhole'
  BY Appended DEF CursorInv, BaseOK, CapturesWhole

\* The parts of a checkpoint that the worker stores lie before the cursor.
LEMMA StoreKeeps ==
  ASSUME CursorInv, NEW i \in DOMAIN jobs, StoreStep(i)
  PROVE  StoredPast'
<1> DEFINE k == jobs[i].text.session
           t == [epoch |-> jobs[i].text.epoch, from |-> jobs[i].text.from,
                 upto |-> jobs[i].text.upto]
<1>1. k \in Sessions /\ t \in Transcript
  BY RowTexts DEF CursorInv, BaseOK, Transcript
<1>2. Upsert(k, t) /\ UNCHANGED <<epoch, cursor, flaws>>
  BY DEF StoreStep
<1>3. /\ t.epoch <= epoch[k] /\ t.epoch = jobs[i].text.epoch
      /\ t.from = jobs[i].text.from /\ t.upto = jobs[i].text.upto
  BY DEF CursorInv, EpochsPast
<1>4. ASSUME "behind" \notin flaws[k], t.epoch = epoch[k], t.from > 0
      PROVE  "stale" \notin flaws[k] /\ t.upto <= cursor[k]
  <2>1. i \in Checkpoints(k)
    BY <1>3, <1>4 DEF CursorInv, CapturesWhole, Checkpoints
  <2> QED BY <1>1, <1>3, <1>4, <2>1 DEF CursorInv, CheckpointsPast
<1> HIDE DEF k, t
<1>5. /\ stored'[k] \in {stored[k], t}
      /\ \A j \in Sessions : j # k => stored'[j] = stored[j]
  BY <1>1, <1>2, Upserted DEF CursorInv, BaseOK
<1>6. \A j \in Sessions : StoredIsPast(j)
  BY DEF CursorInv, StoredPast
<1>7. ASSUME NEW j \in Sessions PROVE StoredIsPast(j)'
  BY <1>2, <1>3, <1>4, <1>5, <1>6 DEF StoredIsPast
<1> QED BY <1>7 DEF StoredPast

LEMMA StoreAndCaptures ==
  ASSUME CursorInv, BaseOK', [Next]_vars
  PROVE  StoredPast' /\ CapturesWhole'
<1> USE DEF CursorInv
<1>0. /\ StateOK /\ JobsOK
      /\ \A k \in Sessions : epoch[k] \in Nat /\ cursor[k] \in Nat
      /\ \A i \in DOMAIN jobs : jobs[i].text.checkpoint \/ jobs[i].text.from = 0
  BY DEF BaseOK, StateOK, CapturesWhole
<1>1. CASE QuietStep
  BY <1>1 DEF QuietStep, SameTexts, StoredPast, StoredIsPast, CapturesWhole
<1>2. ASSUME NEW i \in DOMAIN jobs, StoreStep(i)
      PROVE  StoredPast' /\ CapturesWhole'
  BY <1>2, StoreKeeps DEF StoreStep, CapturesWhole
<1>3. ASSUME NEW k \in Sessions, NEW n \in Nat, Upsert(k, Given(k, n)),
             UNCHANGED <<epoch, cursor, flaws>>
      PROVE  StoredPast'
  <2>1. /\ Given(k, n) \in Transcript
        /\ Given(k, n).epoch <= epoch[k] /\ Given(k, n).from = 0
    BY <1>0, OffersAreTranscripts DEF Given
  <2>2. PICK t \in Transcript : t = Given(k, n)
    BY <2>1
  <2>3. t.epoch <= epoch[k] /\ t.from = 0 /\ Upsert(k, t)
    BY <1>3, <2>1, <2>2
  <2> QED BY <1>0, <1>3, <2>3, StoresPast
<1>4. ASSUME NEW k \in Sessions, KeepStep(k)
      PROVE  StoredPast' /\ CapturesWhole'
  BY <1>3, <1>4 DEF KeepStep, CapturesWhole
<1>5. ASSUME NEW k \in Sessions, NEW n \in Nat, CaptureStep(k, n)
      PROVE  StoredPast' /\ CapturesWhole'
  <2>1. StoredPast'
    BY <1>3, <1>5 DEF CaptureStep
  <2>2. CapturesWhole'
    BY <1>0, <1>5, CapturesAreTexts, CapturesStay DEF CaptureStep
  <2> QED BY <2>1, <2>2
<1>6. ASSUME NEW k \in Sessions, NEW t, Offer(k, t)
      PROVE  /\ t \in Transcript
             /\ t = stored[k] \/ (t.epoch <= epoch[k] /\ t.from = 0)
             /\ \A skip \in Nat : /\ Delta(k, t, skip) \in Texts
                                  /\ Delta(k, t, skip).checkpoint
  <2>1. t \in Transcript
    BY <1>0, <1>6, OffersAreTranscripts
  <2>2. t = stored[k] \/ (t.epoch <= epoch[k] /\ t.from = 0)
    BY <1>0, <1>6 DEF Offer, Given
  <2> QED BY <1>0, <2>1, <2>2, DeltasAreTexts DEF Delta
<1>7. ASSUME NEW k \in Sessions, NEW t, ExtractStep(k, t)
      PROVE  StoredPast' /\ CapturesWhole'
  <2>1. /\ Offer(k, t) /\ Size(t) > cursor[k] /\ Upsert(k, t) /\ UNCHANGED epoch
        /\ EnqueueStep(Delta(k, t, cursor[k]))
    BY <1>7 DEF ExtractStep
  <2>2. /\ cursor'[k] \in {Size(t), cursor[k]}
        /\ "behind" \notin flaws'[k] =>
             /\ "behind" \notin flaws[k]
             /\ "stale" \in flaws[k] <=> "stale" \in flaws'[k]
        /\ \A j \in Sessions : j # k => cursor'[j] = cursor[j]
                                       /\ flaws'[j] = flaws[j]
    BY <1>0, <1>7 DEF ExtractStep, MarkFlaw, Restored, StateOK
  <2>3. Size(t) \in Int
    BY <1>6, <2>1 DEF Size, Transcript
  <2>4. cursor'[k] >= cursor[k]
    BY <1>0, <2>1, <2>2, <2>3
  <2>5. StoredPast'
    BY <1>6, <2>1, <2>2, <2>4, StoresPast
  <2>6. CapturesWhole'
    BY <1>0, <1>6, <2>1, CapturesStay
  <2> QED BY <2>5, <2>6
<1>8. ASSUME NEW k \in Sessions, NEW t, RereadStep(k, t)
      PROVE  StoredPast' /\ CapturesWhole'
  <2>1. /\ Offer(k, t) /\ Upsert(k, t) /\ UNCHANGED epoch
        /\ EnqueueStep(Delta(k, t, 0)) /\ 0 \in Nat
    BY <1>8 DEF RereadStep
  <2>2. /\ "behind" \in flaws'[k]
        /\ \A j \in Sessions : j # k => cursor'[j] = cursor[j]
                                       /\ flaws'[j] = flaws[j]
    BY <1>0, <1>8 DEF RereadStep, MarkFlaw, Restored, StateOK
  <2>3. StoredPast'
    BY <1>6, <2>1, <2>2, StoresPast
  <2>4. CapturesWhole'
    BY <1>6, <2>1, CapturesStay
  <2> QED BY <2>3, <2>4
<1>9. ASSUME NEW k \in Sessions, CompactStep(k)
      PROVE  StoredPast' /\ CapturesWhole'
  <2>1. /\ epoch'[k] = epoch[k] + 1 /\ UNCHANGED <<cursor, stored, jobs>>
        /\ \A j \in Sessions : j # k => epoch'[j] = epoch[j] /\ flaws'[j] = flaws[j]
    BY <1>0, <1>9 DEF CompactStep, StateOK
  <2>2. stored[k].epoch \in Nat /\ stored[k].epoch <= epoch[k]
    BY <1>0 DEF StateOK, Transcript, StoredPast, StoredIsPast
  <2>3. StoredIsPast(k)'
    BY <1>0, <2>1, <2>2 DEF StoredIsPast
  <2>4. ASSUME NEW j \in Sessions, j # k PROVE StoredIsPast(j)'
    BY <2>1, <2>4 DEF StoredPast, StoredIsPast
  <2> QED BY <2>1, <2>3, <2>4 DEF StoredPast, CapturesWhole
<1>10. ASSUME NEW k \in Sessions, ResetStep(k)
       PROVE  StoredPast' /\ CapturesWhole'
  <2>1. /\ stored'[k] = NoTranscript /\ UNCHANGED <<epoch, jobs>>
        /\ \A j \in Sessions : j # k => /\ stored'[j] = stored[j]
                                        /\ cursor'[j] = cursor[j]
                                        /\ flaws'[j] = flaws[j]
    BY <1>0, <1>10 DEF ResetStep, StateOK
  <2>2. StoredIsPast(k)'
    BY <1>0, <2>1 DEF StoredIsPast, NoTranscript
  <2>3. ASSUME NEW j \in Sessions, j # k PROVE StoredIsPast(j)'
    BY <2>1, <2>3 DEF StoredPast, StoredIsPast
  <2> QED BY <2>1, <2>2, <2>3 DEF StoredPast, CapturesWhole
<1> QED BY <1>1, <1>2, <1>4, <1>5, <1>7, <1>8, <1>9, <1>10, NextSteps DEF BaseOK

LEMMA CursorInductive == Init => CursorInv
  BY BaseInit DEF Init, CursorInv, EpochsPast, CapturesWhole, StoredPast,
     StoredIsPast, NoTranscript, CheckpointsPast, CursorCovered,
     CursorIsCovered, ExtractedOnce, Checkpoints

LEMMA CursorStep == CursorInv /\ [Next]_vars => CursorInv'
<1> SUFFICES ASSUME CursorInv, [Next]_vars PROVE CursorInv'
  OBVIOUS
<1>1. BaseOK'
  BY BaseStep DEF CursorInv
<1>2. StoredPast' /\ CapturesWhole'
  BY <1>1, StoreAndCaptures
<1>3. EpochsPast' /\ CheckpointsPast' /\ CursorCovered' /\ ExtractedOnce'
  <2>1. CASE QuietStep
    BY <2>1, QuietKeeps DEF QuietStep
  <2>2. CASE \/ \E i \in DOMAIN jobs : StoreStep(i)
             \/ \E k \in Sessions : KeepStep(k)
    <3>1. UNCHANGED <<epoch, cursor, flaws, jobs>>
      BY <2>2 DEF StoreStep, KeepStep
    <3> QED BY <3>1, QuietKeeps DEF SameTexts, CursorInv, BaseOK, JobsOK
  <2> QED BY <2>1, <2>2, NextSteps, CaptureKeeps, ExtractKeeps, RereadKeeps,
          CompactKeeps, ResetKeeps DEF CursorInv, BaseOK
<1> QED BY <1>1, <1>2, <1>3 DEF CursorInv

\* For every length, cap and number of sessions: a cursor is ahead of what has
\* been enqueued only after a compaction whose reset is missing, or where a
\* checkpoint took a text of the worker's from the store for the transcript.
THEOREM NothingSkipped == Spec => []CursorCovered
<1>1. CursorInv => CursorCovered
  BY DEF CursorInv
<1> QED BY <1>1, CursorInductive, CursorStep, PTL DEF Spec

\* And nothing of the present transcript is enqueued by two checkpoints, unless a
\* cursor was not written, also from a store that the worker writes.
THEOREM NothingTwice == Spec => []ExtractedOnce
<1>1. CursorInv => ExtractedOnce
  BY DEF CursorInv
<1> QED BY <1>1, CursorInductive, CursorStep, PTL DEF Spec

(***************************************************************************)
(* Types                                                                    *)
(***************************************************************************)

\* A row has something to summarise and is not attempted too often.
RowInBounds(job) ==
  job.text.from < job.text.upto /\ job.attempts <= MaxAttempts
RowsInBounds == \A i \in DOMAIN jobs : RowInBounds(jobs[i])

RestOK ==
  /\ compacting \in [Sessions -> BOOLEAN]
  /\ summarised \subseteq Sessions
  /\ up \in BOOLEAN /\ leasing \in BOOLEAN /\ recovering \in BOOLEAN

TypeInv ==
  EntriesOK /\ BaseOK /\ RowsInBounds /\ RestOK

LEMMA BoundsKept ==
  ASSUME NEW job \in Jobs, RowInBounds(job)
  PROVE  /\ \A next \in {CompleteJob(job), FailJob(job), RecoverJob(job),
                         MarkCommandStageRunning(job),
                         MarkCommandStageCompleted(job),
                         FailJob(ClearCommandStageRunning(job)),
                         Requeue(job)} : RowInBounds(next)
         /\ Leasable(job) => RowInBounds(LeaseJob(job))
<1> USE AttemptsAssumption DEF Jobs, RowInBounds
<1>1. RowInBounds(CompleteJob(job)) /\ RowInBounds(RecoverJob(job))
  BY DEF CompleteJob, RecoverJob
<1>2. RowInBounds(FailJob(job)) /\ RowInBounds(MarkCommandStageRunning(job))
  BY DEF FailJob, MarkCommandStageRunning
<1>3. RowInBounds(MarkCommandStageCompleted(job))
  BY DEF MarkCommandStageCompleted
<1>4. RowInBounds(FailJob(ClearCommandStageRunning(job)))
  BY DEF FailJob, ClearCommandStageRunning
<1>5. RowInBounds(Requeue(job))
  BY DEF Requeue
<1>6. ASSUME Leasable(job) PROVE RowInBounds(LeaseJob(job))
  BY <1>6 DEF Leasable, LeaseJob
<1> QED BY <1>1, <1>2, <1>3, <1>4, <1>5, <1>6

LEMMA SetJobInBounds ==
  ASSUME JobsOK, RowsInBounds, NEW i, NEW next, SetJob(i, next),
         i \in DOMAIN jobs => RowInBounds(next)
  PROVE  RowsInBounds'
<1>1. /\ DOMAIN jobs' = DOMAIN jobs
      /\ \A j \in DOMAIN jobs : jobs'[j] = IF j = i THEN next ELSE jobs[j]
  BY DEF SetJob, JobsOK
<1> QED BY <1>1 DEF RowsInBounds

LEMMA AttemptInBounds ==
  ASSUME JobsOK, RowsInBounds, NEW h \in Hands, Attempts(h)
  PROVE  RowsInBounds'
<1> DEFINE i == attempt[h].job
<1>1. i \in DOMAIN jobs =>
        JobOf(h) \in Jobs /\ RowInBounds(JobOf(h)) /\ JobOf(h) = jobs[i]
  BY DEF JobOf, JobsOK, RowsInBounds
<1>2. ASSUME NEW next, SetJob(i, next),
             next \in {CompleteJob(JobOf(h)), FailJob(JobOf(h)),
                       MarkCommandStageRunning(JobOf(h)),
                       MarkCommandStageCompleted(JobOf(h)),
                       FailJob(ClearCommandStageRunning(JobOf(h)))}
      PROVE  RowsInBounds'
  <2>1. i \in DOMAIN jobs => RowInBounds(next)
    BY <1>1, <1>2, BoundsKept
  <2> QED BY <1>2, <2>1, SetJobInBounds
<1>3. CASE BeginCommand(h) \/ CommandSucceeds(h) \/ CommandFails(h)
  BY <1>2, <1>3 DEF BeginCommand, CommandSucceeds, CommandFails
<1>4. CASE SkipJob(h) \/ FailAttempt(h)
  BY <1>2, <1>4 DEF SkipJob, FailAttempt
<1>5. CASE FinishJob(h)
  BY <1>2, <1>5 DEF FinishJob
<1>6. CASE \/ BeginSummary(h) \/ StoreTranscript(h) \/ LoseAttempt(h)
           \/ \E written \in BOOLEAN : WriteSummary(h, written)
  BY <1>6 DEF BeginSummary, WriteSummary, StoreTranscript, LoseAttempt,
     RowsInBounds
<1> QED BY <1>3, <1>4, <1>5, <1>6 DEF Attempts

LEMMA BoundsStep ==
  ASSUME StateOK, JobsOK, RowsInBounds, [Next]_vars
  PROVE  RowsInBounds'
<1>1. CASE UNCHANGED jobs
  BY <1>1 DEF RowsInBounds
<1>2. ASSUME NEW i \in DOMAIN jobs, Tick(i) PROVE RowsInBounds'
  <2>1. jobs[i] \in Jobs /\ Leasable(jobs[i]) /\ RowInBounds(jobs[i])
    BY <1>2 DEF JobsOK, RowsInBounds, Tick, NextJob
  <2>2. SetJob(i, LeaseJob(jobs[i])) /\ RowInBounds(LeaseJob(jobs[i]))
    BY <1>2, <2>1, BoundsKept DEF Tick, SetJob
  <2> QED BY <2>2, SetJobInBounds
<1>3. CASE RecoverSummaryJobs \/ RequeueDeadJobs \/ BackfillSkippedSessions
  <2>1. \A i \in DOMAIN jobs : jobs[i] \in Jobs /\ RowInBounds(jobs[i])
    BY DEF JobsOK, RowsInBounds
  <2>2. \A i \in DOMAIN jobs : /\ RowInBounds(RecoverJob(jobs[i]))
                              /\ RowInBounds(Requeue(jobs[i]))
    BY <2>1, BoundsKept
  <2>3. /\ DOMAIN jobs' = DOMAIN jobs
        /\ \A i \in DOMAIN jobs :
             jobs'[i] \in {jobs[i], RecoverJob(jobs[i]), Requeue(jobs[i])}
    BY <1>3 DEF RecoverSummaryJobs, RequeueDeadJobs, BackfillSkippedSessions,
       RequeueRows
  <2> QED BY <2>1, <2>2, <2>3 DEF RowsInBounds
<1>6. ASSUME NEW text \in Texts, text.from < text.upto, EnqueueStep(text)
      PROVE  RowsInBounds'
  <2>1. jobs'[Len(jobs) + 1] = PendingJob(text)
    BY <1>6 DEF JobsOK, EnqueueStep
  <2>2. RowInBounds(PendingJob(text))
    BY <1>6, AttemptsAssumption DEF RowInBounds, PendingJob
  <2> QED BY <1>6, <2>1, <2>2, Appended DEF RowsInBounds
<1>4. CASE SessionNext
  BY <1>1, <1>4, <1>6, SessionFrame, Enqueued
<1>5. CASE \/ RecoveryThrows \/ StopWorker \/ StartWorker \/ Reconfigure
           \/ Restart \/ UNCHANGED vars
  BY <1>1, <1>5 DEF RecoveryThrows, StopWorker, StartWorker, Reconfigure,
     Restart, vars
<1> QED BY <1>1, <1>2, <1>3, <1>4, <1>5, AttemptInBounds DEF Next, WorkerNext

LEMMA RestStep ==
  ASSUME JobsOK, HandsOK, RestOK, [Next]_vars
  PROVE  RestOK'
<1>1. CASE UNCHANGED <<compacting, summarised, up, leasing, recovering>>
  BY <1>1 DEF RestOK
<1>2. ASSUME NEW h \in Hands, Attempts(h) PROVE RestOK'
  <2>1. ASSUME NEW written \in BOOLEAN, WriteSummary(h, written)
        PROVE  RestOK'
    <3>1. attempt[h].job \in DOMAIN jobs
      BY <2>1 DEF WriteSummary, At, HandsOK
    <3>2. JobOf(h).text.session \in Sessions
      <4>1. \A i \in DOMAIN jobs : jobs[i] \in Jobs
        BY DEF JobsOK
      <4> QED BY <3>1, <4>1 DEF JobOf, Jobs, Texts
    <3>3. summarised' \subseteq summarised \cup {JobOf(h).text.session}
      BY <2>1 DEF WriteSummary
    <3>4. UNCHANGED <<compacting, up, leasing, recovering>>
      BY <2>1 DEF WriteSummary, sessionVars
    <3> QED BY <3>2, <3>3, <3>4 DEF RestOK
  <2> QED BY <1>1, <1>2, <2>1 DEF Attempts, BeginCommand, CommandSucceeds,
     CommandFails, BeginSummary, SkipJob, StoreTranscript, FinishJob,
     FailAttempt, LoseAttempt, sessionVars
<1>3. ASSUME NEW k \in Sessions, ResetCursor(k) \/ ResetFails(k) PROVE RestOK'
  BY <1>3 DEF ResetCursor, ResetFails, RestOK, workerVars
<1>4. ASSUME NEW k \in Sessions, NEW p \in Callers, SaveCompaction(k, p)
      PROVE  RestOK'
  BY <1>4 DEF SaveCompaction, RestOK
<1>5. CASE \/ RecoveryThrows \/ StopWorker \/ StartWorker \/ Reconfigure
           \/ Restart
  BY <1>5 DEF RecoveryThrows, StopWorker, StartWorker, Reconfigure, Restart,
     RestOK, sessionVars
<1>6. CASE RecoverSummaryJobs
  <2>1. recovering' \in BOOLEAN /\ UNCHANGED <<compacting, summarised, up, leasing>>
    BY <1>6 DEF RecoverSummaryJobs, sessionVars
  <2> QED BY <2>1 DEF RestOK
<1>7. ASSUME NEW i \in DOMAIN jobs, Tick(i) PROVE RestOK'
  BY <1>1, <1>7 DEF Tick, sessionVars
<1>8. CASE RequeueDeadJobs \/ BackfillSkippedSessions \/ UNCHANGED vars
  BY <1>1, <1>8 DEF RequeueDeadJobs, BackfillSkippedSessions, vars, sessionVars,
     workerVars
<1>9. CASE SessionNext
  BY <1>1, <1>3, <1>4, <1>9, SessionFrame DEF Compacts, RestOK
<1> QED BY <1>2, <1>5, <1>6, <1>7, <1>8, <1>9 DEF Next, WorkerNext

LEMMA TypeStep == TypeInv /\ [Next]_vars => TypeInv'
<1> SUFFICES ASSUME TypeInv, [Next]_vars PROVE TypeInv'
  OBVIOUS
<1>1. EntriesOK'
  BY ClaimStep DEF TypeInv, TrackerStep, EntriesOK
<1>2. BaseOK'
  BY BaseStep DEF TypeInv
<1>3. RowsInBounds' /\ RestOK'
  BY BoundsStep, RestStep DEF TypeInv, BaseOK
<1> QED BY <1>1, <1>2, <1>3 DEF TypeInv

LEMMA TypeInit == Init => TypeInv
<1> SUFFICES ASSUME Init PROVE TypeInv
  OBVIOUS
<1>1. EntriesOK
  BY Evicted DEF Init, EntriesOK, NoEntry, Entry
<1>2. RowsInBounds
  BY DEF Init, RowsInBounds
<1>3. RestOK
  BY DEF Init, RestOK
<1> QED BY <1>1, <1>2, <1>3, BaseInit DEF TypeInv

LEMMA TypesFollow == TypeInv => TypeOK
<1> SUFFICES ASSUME TypeInv PROVE TypeOK
  OBVIOUS
<1>1. ASSUME NEW i \in DOMAIN jobs
      PROVE  /\ jobs[i].text.session \in Sessions
             /\ jobs[i].text.from < jobs[i].text.upto
             /\ jobs[i].status \in Statuses /\ jobs[i].result \in Results
             /\ jobs[i].attempts \in 0 .. MaxAttempts
  <2>1. jobs[i] \in Jobs /\ RowInBounds(jobs[i])
    BY DEF TypeInv, BaseOK, JobsOK, RowsInBounds
  <2> QED BY <2>1, AttemptsAssumption DEF Jobs, Texts, RowInBounds
<1>2. \A h \in Hands : attempt[h] = Idle \/ attempt[h] \in Attempt
  BY DEF TypeInv, BaseOK, HandsOK
<1> QED BY <1>1, <1>2 DEF TypeInv, BaseOK, EntriesOK, StateOK, RestOK, TypeOK

\* Rows, entries and what the worker and its predecessor hold keep their types,
\* and every row has something to summarise and at most MaxAttempts attempts.
THEOREM TypeCorrect == Spec => []TypeOK
BY TypeInit, TypeStep, TypesFollow, PTL DEF Spec

(***************************************************************************)
(* Who is left with a row in processing                                     *)
(***************************************************************************)

\* The row in the hands of a worker or of one that was stopped.
Held(i) == \E h \in Hands : attempt[h] # Idle /\ attempt[h].job = i

\* Leased, and nobody will touch it before the worker is started again.
Forsaken == {i \in Processing : ~(Held(i) \/ recovering \/ ~up)}

\* A failure that could not be recorded, and a recovery that threw.
Lapse(i) ==
  RecoveryThrows \/ \E h \in Hands : LoseAttempt(h) /\ attempt[h].job = i

\* A batch that is not full has all rows that are in processing.
LEMMA ShortBatch ==
  ASSUME JobsOK, ~(Cardinality(Batch) >= RecoverBatch)
  PROVE  Batch = Processing
<1>. DEFINE rest == Processing \ Batch
            R == OpToRel(<, Nat)
<1>1. Processing \subseteq 1 .. Len(jobs) /\ Len(jobs) \in Nat
  BY DEF Processing, JobsOK
<1>2. IsFiniteSet(Processing)
  <2>1. IsFiniteSet(1 .. Len(jobs))
    BY <1>1, FS_Interval
  <2>. QED BY <1>1, <2>1, FS_Subset
<1>3. Batch \subseteq Processing
  BY DEF Batch
<1>4. IsFiniteSet(Batch) /\ Cardinality(Batch) \in Nat
  BY <1>2, <1>3, FS_Subset, FS_CardinalityType
<1>5. SUFFICES ASSUME rest # {} PROVE FALSE
  BY <1>3
<1>6. rest \subseteq Nat
  <2>1. 1 .. Len(jobs) \subseteq Nat
    OBVIOUS
  <2>. QED BY <1>1, <2>1
<1>7. PICK i \in rest : \A j \in rest : <<j, i>> \notin R
  <2>1. IsWellFoundedOn(R, Nat)
    BY NatLessThanWellFounded DEF OpToRel
  <2>. HIDE DEF R, rest
  <2>. QED BY <1>5, <1>6, <2>1, WFMin
<1>8. \A j \in rest : ~(j < i)
  BY <1>6, <1>7 DEF OpToRel
<1>. DEFINE below == {j \in Processing : j < i}
<1>9. below \subseteq Batch
  BY <1>8
<1>10. Cardinality(below) <= Cardinality(Batch) /\ Cardinality(below) \in Nat
  BY <1>4, <1>9, FS_Subset, FS_CardinalityType
<1>11. ~(Cardinality(below) < RecoverBatch)
  BY DEF Batch
<1>. QED BY <1>4, <1>10, <1>11, LifecycleAssumption

LEMMA AttemptLapse ==
  ASSUME TypeInv, NEW h \in Hands, Attempts(h),
         NEW i \in Processing', ~Held(i)'
  PROVE  (i \in Processing /\ ~Held(i)) \/ Lapse(i)
<1>0. PICK j : j = attempt[h].job
  OBVIOUS
<1>1. /\ attempt[h] # Idle /\ attempt[h] \in Attempt /\ j \in DOMAIN jobs
      /\ attempt \in [Hands -> Attempt \cup {Idle}]
  <2>1. attempt[h] # Idle
    BY DEF Attempts, BeginCommand, CommandSucceeds, CommandFails, BeginSummary,
           SkipJob, WriteSummary, StoreTranscript, FinishJob, FailAttempt,
           LoseAttempt, At
  <2>. QED BY <1>0, <2>1 DEF TypeInv, BaseOK, HandsOK
<1>2. jobs \in Seq(Jobs) /\ JobOf(h) = jobs[j] /\ jobs[j] \in Jobs
  BY <1>0, <1>1 DEF TypeInv, BaseOK, JobsOK, JobOf
<1>3. ASSUME NEW at \in {"command", "summary", "scoring", "stored"},
             Proceed(h, at)
      PROVE  /\ Held(j)'
             /\ \A k : Held(k) => Held(k)'
  <2>1. /\ [attempt[h] EXCEPT !.at = at] \in Attempt
        /\ [attempt[h] EXCEPT !.at = at].job = j
    BY <1>0, <1>1 DEF Attempt
  <2>2. attempt' = [attempt EXCEPT ![h] = [attempt[h] EXCEPT !.at = at]]
    BY <1>3 DEF Proceed
  <2>3. attempt'[h] # Idle /\ attempt'[h].job = j
    BY <1>1, <2>1, <2>2, LifecycleAssumption
  <2>4. \A g \in Hands \ {h} : attempt'[g] = attempt[g]
    BY <1>1, <2>2
  <2>. QED BY <1>0, <2>3, <2>4 DEF Held
<1>4. ASSUME Done(h), NEW k, k # j, Held(k) PROVE Held(k)'
  BY <1>0, <1>1, <1>4 DEF Done, Held
<1>5. ASSUME NEW next, SetJob(j, next)
      PROVE  /\ jobs'[j] = next
             /\ \A k : k \in Processing' /\ k # j => k \in Processing
  <2>1. jobs' = [jobs EXCEPT ![j] = next]
    BY <1>5 DEF SetJob
  <2>. QED BY <1>1, <2>1 DEF Processing
<1>6. CASE \/ BeginCommand(h) \/ CommandSucceeds(h) \/ BeginSummary(h)
           \/ StoreTranscript(h)
           \/ \E written \in BOOLEAN : WriteSummary(h, written)
  <2>1. PICK at \in {"command", "summary", "scoring", "stored"} : Proceed(h, at)
    BY <1>6 DEF BeginCommand, CommandSucceeds, BeginSummary, WriteSummary,
       StoreTranscript
  <2>2. i # j /\ ~Held(i)
    BY <1>3, <2>1
  <2>3. CASE UNCHANGED jobs
    BY <2>2, <2>3 DEF Processing
  <2>4. ASSUME NEW next, SetJob(j, next) PROVE i \in Processing
    BY <1>5, <2>2, <2>4
  <2>. QED BY <1>0, <1>6, <2>2, <2>3, <2>4
       DEF BeginCommand, CommandSucceeds, BeginSummary, WriteSummary,
           StoreTranscript
<1>7. ASSUME NEW next, SetJob(j, next), Done(h),
             next \in {CompleteJob(JobOf(h)), FailJob(JobOf(h)),
                       FailJob(ClearCommandStageRunning(JobOf(h)))}
      PROVE  i \in Processing /\ ~Held(i)
  <2>1. next.status # "processing"
    BY <1>2, <1>7 DEF Jobs, CompleteJob, FailJob, AfterAttempt,
                      ClearCommandStageRunning
  <2>2. i # j
    BY <1>5, <1>7, <2>1 DEF Processing
  <2>. QED BY <1>4, <1>5, <1>7, <2>2
<1>8. CASE LoseAttempt(h)
  <2>1. i \in Processing /\ Done(h)
    BY <1>8 DEF LoseAttempt, Processing
  <2>. QED BY <1>0, <1>4, <1>8, <2>1 DEF Lapse
<1>9. CASE CommandFails(h)
  BY <1>0, <1>7, <1>9 DEF CommandFails
<1>10. CASE SkipJob(h)
  BY <1>0, <1>7, <1>10 DEF SkipJob
<1>11. CASE FinishJob(h)
  BY <1>0, <1>7, <1>11 DEF FinishJob
<1>12. CASE FailAttempt(h)
  BY <1>0, <1>7, <1>12 DEF FailAttempt
<1>. QED BY <1>6, <1>8, <1>9, <1>10, <1>11, <1>12 DEF Attempts

LEMMA LapseStep ==
  ASSUME TypeInv, [Next]_vars, NEW i \in Forsaken' \ Forsaken
  PROVE  Lapse(i)
<1>1. i \in Processing' /\ ~Held(i)' /\ ~recovering' /\ up'
  BY DEF Forsaken
<1>2. i \in Processing /\ ~Held(i) => recovering \/ ~up
  BY DEF Forsaken
<1>3. jobs \in Seq(Jobs) /\ \A j \in DOMAIN jobs : jobs[j] \in Jobs
  BY DEF TypeInv, BaseOK, JobsOK
<1>4. ASSUME UNCHANGED <<up, recovering, attempt>>,
             i \in Processing' => i \in Processing
      PROVE  FALSE
  BY <1>1, <1>2, <1>4 DEF Held
<1>5. CASE SessionNext
  <2>1. UNCHANGED <<up, recovering, attempt>> /\ (Enqueues \/ UNCHANGED jobs)
    BY <1>5, SessionFrame
  <2>2. ASSUME NEW text, EnqueueStep(text) PROVE i \in Processing
    <3>1. /\ DOMAIN jobs' = 1 .. Len(jobs) + 1 /\ DOMAIN jobs = 1 .. Len(jobs)
          /\ \A j \in DOMAIN jobs : jobs'[j] = jobs[j]
          /\ jobs'[Len(jobs) + 1] = PendingJob(text)
      BY <1>3, <2>2 DEF EnqueueStep
    <3>. QED BY <1>1, <1>3, <3>1 DEF Processing, PendingJob
  <2>3. ASSUME Enqueues PROVE \E text : EnqueueStep(text)
    BY <2>3, Enqueued DEF TypeInv, BaseOK
  <2>. QED BY <1>1, <1>4, <2>1, <2>2, <2>3 DEF Processing
<1>6. ASSUME NEW j \in DOMAIN jobs, Tick(j) PROVE Lapse(i)
  <2>1. /\ jobs' = [jobs EXCEPT ![j] = LeaseJob(jobs[j])]
        /\ attempt["current"] = Idle
        /\ attempt' = [attempt EXCEPT !["current"] =
                         [job |-> j, at |-> "leased"]]
        /\ UNCHANGED <<up, recovering>>
    BY <1>6 DEF Tick
  <2>2. [job |-> j, at |-> "leased"] \in Attempt
    BY DEF Attempt, TypeInv, BaseOK, JobsOK
  <2>3. /\ attempt'["current"] # Idle /\ attempt'["current"].job = j
        /\ attempt'["left"] = attempt["left"]
    BY <2>1, <2>2, LifecycleAssumption DEF TypeInv, BaseOK, HandsOK, Hands
  <2>4. i # j /\ (Held(i) => Held(i)')
    BY <1>1, <2>1, <2>3 DEF Held, Hands
  <2>5. i \in Processing
    BY <1>1, <2>1, <2>4 DEF Processing
  <2>. QED BY <1>1, <1>2, <2>1, <2>4, <2>5
<1>7. ASSUME NEW h \in Hands, Attempts(h) PROVE Lapse(i)
  <2>1. UNCHANGED <<up, recovering>>
    BY <1>7 DEF Attempts, BeginCommand, CommandSucceeds, CommandFails,
       BeginSummary, SkipJob, WriteSummary, StoreTranscript, FinishJob,
       FailAttempt, LoseAttempt
  <2>. QED BY <1>1, <1>2, <1>7, <2>1, AttemptLapse
<1>8. CASE RecoverSummaryJobs
  <2>1. /\ Batch = Processing
        /\ jobs' = [j \in DOMAIN jobs |->
                      IF j \in Batch THEN RecoverJob(jobs[j]) ELSE jobs[j]]
    BY <1>1, <1>8, ShortBatch DEF RecoverSummaryJobs, TypeInv, BaseOK
  <2>2. \A j \in DOMAIN jobs : RecoverJob(jobs[j]).status # "processing"
    BY <1>3 DEF RecoverJob, AfterAttempt, Jobs
  <2>. QED BY <1>1, <2>1, <2>2 DEF Processing
<1>9. CASE RecoveryThrows
  BY <1>9 DEF Lapse
<1>10. CASE StopWorker \/ StartWorker \/ Restart
  <2>1. ~up' \/ recovering'
    BY <1>10 DEF StopWorker, StartWorker, Restart
  <2>. QED BY <1>1, <2>1
<1>11. CASE RequeueDeadJobs \/ BackfillSkippedSessions
  <2>1. PICK rows : RequeueRows(rows)
    BY <1>11 DEF RequeueDeadJobs, BackfillSkippedSessions
  <2>2. \A j \in DOMAIN jobs : Requeue(jobs[j]).status # "processing"
    BY <1>3 DEF Requeue, Jobs
  <2>3. i \in Processing
    BY <1>1, <2>1, <2>2 DEF RequeueRows, Processing
  <2>. QED BY <1>4, <1>11, <2>3
       DEF RequeueDeadJobs, BackfillSkippedSessions, workerVars
<1>13. CASE Reconfigure
  BY <1>1, <1>4, <1>13 DEF Reconfigure, Processing
<1>12. CASE UNCHANGED vars
  BY <1>1, <1>4, <1>12 DEF vars, workerVars, Processing
<1>. QED BY <1>5, <1>6, <1>7, <1>8, <1>9, <1>10, <1>11, <1>12,
        <1>13
     DEF Next, WorkerNext

\* What JobsSettle rests on: no row is left in processing with nobody to finish
\* or recover it, however attempts, stops, starts and recoveries overlap, except
\* by a failure that could not be recorded or a recovery that threw.
THEOREM OnlyLapsesForsake ==
  Spec => [][\A i \in Forsaken' \ Forsaken : Lapse(i)]_vars
<1>1. TypeInv /\ [Next]_vars => \A i \in Forsaken' \ Forsaken : Lapse(i)
  BY LapseStep
<1>. QED BY TypeInit, TypeStep, <1>1, PTL DEF Spec
=============================================================================
