--------------------------- MODULE SessionLifecycle ---------------------------
(***************************************************************************)
(* A harness session from its first hook to the summary of its transcript:  *)
(* the hook routes claim, renew and release the session; checkpoints and    *)
(* the end of a session enqueue parts of the transcript; compactions start  *)
(* the transcript anew; the summary worker, which may be stopped and        *)
(* started with a job in its hands, works the jobs off.  Hooks and worker   *)
(* share session_transcripts: a prompt, a checkpoint and the end of a       *)
(* session store the transcript they were given, the worker stores the text *)
(* of its job over it, and a checkpoint without a transcript reads it.      *)
(*                                                                          *)
(* The length of a transcript is counted in parts of 500 bytes, the least a *)
(* checkpoint extracts.  A request carries the transcript as the harness    *)
(* had it some time before: any length.                                     *)
(***************************************************************************)
EXTENDS SessionTracker, SummaryJobs, SequencesExt

CONSTANTS
  Sessions,      \* session keys
  MaxLength,     \* bound: parts of a transcript
  Cap,           \* MAX_DELTA_CHARS and MAX_TRANSCRIPT_CHARS, in parts
  MaxEpochs,     \* bound: compactions of a session
  MaxJobs,       \* bound: rows of summary_jobs
  RecoverBatch,  \* RECOVER_BATCH
  Idle           \* no attempt

\* What a hand holds: the place of a row, and how far it is with it.
Attempt ==
  [job : Nat, at : {"leased", "command", "summary", "scoring", "stored"}]

\* Some of a session's transcript: of which of its transcripts, from which part
\* on, and the part after the last.
Transcript == [epoch : Nat, from : Nat, upto : Nat]
Size(t) == t.upto - t.from
NoTranscript == [epoch |-> 0, from |-> 0, upto |-> 0]

ASSUME LifecycleAssumption ==
  /\ MaxLength \in Nat /\ MaxEpochs \in Nat /\ MaxJobs \in Nat
  /\ Cap \in Nat \ {0} /\ RecoverBatch \in Nat \ {0}
  /\ Idle \notin Attempt

VARIABLES
  tracker,     \* the entry of each session in the session tracker
  epoch,       \* which transcript the session is at
  cursor,      \* session_extract_cursors, of the session's present or past
               \* transcript
  stored,      \* session_transcripts
  compacting,  \* compaction-complete has saved the summary, not yet more
  flaws,       \* history: what of the present transcript's cursor is not in
               \* order: "stale" from before the compaction, "behind" a job,
               \* "restored": set by a text that was not this transcript
  jobs,        \* summary_jobs, oldest first
  summarised,  \* the sessions with a row in session_summaries
  up,          \* does a summary worker run
  leasing,     \* the pipeline is enabled, and not in shadow mode
  recovering,  \* its recovery timer is armed
  attempt      \* the job in the hands of the worker and of one it replaced

sessionVars == <<tracker, epoch, cursor, stored, compacting, flaws>>
workerVars == <<summarised, up, leasing, recovering, attempt>>
vars == <<sessionVars, jobs, workerVars>>

Hands == {"current", "left"}

Least(a, b) == IF a <= b THEN a ELSE b

Callers == Paths \cup {NoPath}

(***************************************************************************)
(* Hook routes                                                              *)
(***************************************************************************)

SetEntry(k, t) == tracker' = [tracker EXCEPT ![k] = t]

\* What a request carries of the transcript, be it less than one part.
Given(k, n) == [epoch |-> epoch[k], from |-> 0, upto |-> n]

\* upsertSessionTranscript, whose failure is only logged.
Upsert(k, t) == stored' \in {stored, [stored EXCEPT ![k] = t]}

\* session-start.  A request that names no path claims nothing.
StartSession(k, p) ==
  /\ p \in Paths /\ MayClaim(tracker[k], p)
  /\ SetEntry(k, Claim(tracker[k], p))
  /\ UNCHANGED <<epoch, cursor, stored, compacting, flaws, jobs, workerVars>>

\* user-prompt-submit looks the session up before anything else, and stores the
\* transcript it is given.
SubmitPrompt(k) ==
  /\ SetEntry(k, EvictStale(tracker[k]))
  /\ UNCHANGED <<epoch, cursor, compacting, flaws, jobs, workerVars>>
  /\ \/ UNCHANGED stored
     \/ /\ ~EvictStale(tracker[k]).bypassed
        /\ \E n \in 0 .. MaxLength : Upsert(k, Given(k, n))

\* remember, recall and pre-compaction, and every other hook refused for its
\* path or for the bypass, change at most a claim that is over.
CheckClaim(k, p) ==
  /\ SetEntry(k, Checked(tracker[k], p))
  /\ UNCHANGED <<epoch, cursor, stored, compacting, flaws, jobs, workerVars>>

\* The routes that list the sessions, and the cleanup timer.
SweepSessions ==
  /\ tracker' = [k \in Sessions |-> EvictStale(tracker[k])]
  /\ UNCHANGED <<epoch, cursor, stored, compacting, flaws, jobs, workerVars>>

\* The bypass route lists the sessions first.  A session without a claim can be
\* bypassed as long as its presence is known.
SetBypass(k, on) ==
  /\ tracker' = [j \in Sessions |->
                   IF j = k THEN [EvictStale(tracker[k]) EXCEPT !.bypassed = on]
                   ELSE EvictStale(tracker[j])]
  /\ UNCHANGED <<epoch, cursor, stored, compacting, flaws, jobs, workerVars>>

\* The renew route.
RenewSession(k) ==
  /\ tracker' = [j \in Sessions |->
                   IF j = k THEN Renew(EvictStale(tracker[k]))
                   ELSE EvictStale(tracker[j])]
  /\ UNCHANGED <<epoch, cursor, stored, compacting, flaws, jobs, workerVars>>

ClaimRunsOut(k) ==
  /\ Alive(tracker[k])
  /\ SetEntry(k, [tracker[k] EXCEPT !.over = TRUE])
  /\ UNCHANGED <<epoch, cursor, stored, compacting, flaws, jobs, workerVars>>

Enqueue(text) ==
  /\ Len(jobs) < MaxJobs
  /\ jobs' = Append(jobs, PendingJob(text))

\* session-end: any path may end any session.  Without a transcript, with a
\* reason to discard it, or bypassed, nothing is enqueued; nor is a transcript
\* of less than one part, but it is stored.
EndSession(k) ==
  /\ SetEntry(k, Release(tracker[k]))
  /\ UNCHANGED <<epoch, cursor, compacting, flaws, jobs, workerVars>>
  /\ \/ UNCHANGED stored
     \/ ~tracker[k].bypassed /\ Upsert(k, Given(k, 0))

EndSessionWith(k, n) ==
  /\ ~tracker[k].bypassed
  /\ SetEntry(k, Release(tracker[k]))
  /\ Upsert(k, Given(k, n))
  /\ Enqueue([session |-> k, epoch |-> epoch[k], from |-> 0,
              upto |-> Least(n, Cap), end |-> n, checkpoint |-> FALSE])
  /\ UNCHANGED <<epoch, cursor, compacting, flaws, workerVars>>

(***************************************************************************)
(* session-checkpoint-extract                                               *)
(***************************************************************************)

CheckpointAllowed(k, p) ==
  ~Conflict(tracker[k], p) /\ ~Checked(tracker[k], p).bypassed

\* The transcript of the request, or, without one, the stored one.
Offered(k) == {Given(k, n) : n \in 0 .. MaxLength} \cup {stored[k]}

\* A transcript is stored unless it is shorter than the one that is.  (If that
\* one cannot be read, it is stored in any case, as by a prompt.)
Keep(k, t) ==
  IF Size(t) >= Size(stored[k]) THEN Upsert(k, t) ELSE UNCHANGED stored

Delta(k, t, skip) ==
  [session |-> k, epoch |-> t.epoch, from |-> t.from + skip,
   upto |-> Least(t.upto, t.from + skip + Cap), end |-> t.upto,
   checkpoint |-> TRUE]

\* The cursor is about to count the parts of a text that is not the session's
\* present transcript from its start.
Restored(k, t) ==
  IF t.epoch = epoch[k] /\ t.from = 0 THEN {} ELSE {"restored"}

MarkFlaw(k, more) ==
  flaws' = [flaws EXCEPT ![k] =
              @ \cup more \cup (IF "stale" \in @ THEN {"behind"} ELSE {})]

\* Faulty: the cursor follows every transcript, also one that has nothing new.
ExtractAlways(k, p, t) ==
  /\ CheckpointAllowed(k, p)
  /\ SetEntry(k, Renew(Checked(tracker[k], p)))
  /\ Keep(k, t)
  /\ IF Size(t) > cursor[k]
     THEN Enqueue(Delta(k, t, cursor[k])) /\ MarkFlaw(k, Restored(k, t))
     ELSE UNCHANGED <<jobs, flaws>>
  /\ cursor' = [cursor EXCEPT ![k] = Size(t)]
  /\ UNCHANGED <<epoch, compacting, workerVars>>

\* Faulty: the cursor is advanced first.
CursorWithoutJob(k, p, t) ==
  /\ CheckpointAllowed(k, p)
  /\ Size(t) > cursor[k]
  /\ SetEntry(k, Renew(Checked(tracker[k], p)))
  /\ Keep(k, t)
  /\ cursor' = [cursor EXCEPT ![k] = Size(t)]
  /\ MarkFlaw(k, Restored(k, t))
  /\ UNCHANGED <<epoch, compacting, jobs, workerVars>>

\* Faulty: a delta of nothing is enqueued, too.
ExtractNothing(k, p, t) ==
  /\ CheckpointAllowed(k, p)
  /\ Size(t) >= cursor[k]
  /\ SetEntry(k, Renew(Checked(tracker[k], p)))
  /\ Keep(k, t)
  /\ Enqueue(Delta(k, t, cursor[k]))
  /\ cursor' = [cursor EXCEPT ![k] = Size(t)]
  /\ MarkFlaw(k, Restored(k, t))
  /\ UNCHANGED <<epoch, compacting, workerVars>>

\* The part of the transcript behind the cursor is enqueued, then the cursor
\* advanced to its end, over what the cap has cut off as well.
CheckpointExtract(k, p, t) ==
  /\ CheckpointAllowed(k, p)
  /\ Size(t) > cursor[k]
  /\ SetEntry(k, Renew(Checked(tracker[k], p)))
  /\ Keep(k, t)
  /\ Enqueue(Delta(k, t, cursor[k]))
  /\ cursor' = [cursor EXCEPT ![k] = Size(t)]
  /\ MarkFlaw(k, Restored(k, t))
  /\ UNCHANGED <<epoch, compacting, workerVars>>

\* There is no pipeline or no transcript, or less than one part to extract.
CheckpointSkips(k, p) ==
  /\ CheckpointAllowed(k, p)
  /\ SetEntry(k, Renew(Checked(tracker[k], p)))
  /\ UNCHANGED <<epoch, cursor, compacting, flaws, jobs, workerVars>>
  /\ \/ UNCHANGED stored
     \/ \E t \in Offered(k) : Size(t) <= cursor[k] /\ Keep(k, t)

\* The job is enqueued, but the cursor's write fails, which is only logged, or
\* is cut off by a crash (which is a step of its own).
JobWithoutCursor(k, p, t) ==
  /\ CheckpointAllowed(k, p)
  /\ Size(t) > cursor[k]
  /\ SetEntry(k, Renew(Checked(tracker[k], p)))
  /\ Keep(k, t)
  /\ Enqueue(Delta(k, t, cursor[k]))
  /\ MarkFlaw(k, {"behind"})
  /\ UNCHANGED <<epoch, cursor, compacting, workerVars>>

\* The cursor cannot be read: it counts as 0, and goes to where the transcript
\* ends, be that before the place it had.
CheckpointRereads(k, p, t) ==
  /\ CheckpointAllowed(k, p)
  /\ Size(t) > 0
  /\ SetEntry(k, Renew(Checked(tracker[k], p)))
  /\ Keep(k, t)
  /\ Enqueue(Delta(k, t, 0))
  /\ cursor' = [cursor EXCEPT ![k] = Size(t)]
  /\ MarkFlaw(k, {"behind"} \cup Restored(k, t))
  /\ UNCHANGED <<epoch, compacting, workerVars>>

(***************************************************************************)
(* compaction-complete                                                      *)
(***************************************************************************)

\* The harness has replaced the transcript by a summary, which is saved.
SaveCompaction(k, p) ==
  /\ epoch[k] < MaxEpochs /\ ~compacting[k]
  /\ CheckpointAllowed(k, p)
  /\ SetEntry(k, Checked(tracker[k], p))
  /\ epoch' = [epoch EXCEPT ![k] = @ + 1]
  /\ compacting' = [compacting EXCEPT ![k] = TRUE]
  /\ flaws' = [flaws EXCEPT ![k] = IF cursor[k] = 0 THEN {} ELSE {"stale"}]
  /\ summarised' = summarised \cup {k}
  /\ UNCHANGED <<cursor, stored, jobs, up, leasing, recovering, attempt>>

\* After the artifact is written, for which the route waits, the stored
\* transcript and the cursor are deleted.
ResetCursor(k) ==
  /\ compacting[k]
  /\ compacting' = [compacting EXCEPT ![k] = FALSE]
  /\ stored' = [stored EXCEPT ![k] = NoTranscript]
  /\ cursor' = [cursor EXCEPT ![k] = 0]
  /\ flaws' = [flaws EXCEPT ![k] =
                 IF \E i \in DOMAIN jobs : /\ jobs[i].text.session = k
                                           /\ jobs[i].text.checkpoint
                                           /\ jobs[i].text.epoch = epoch[k]
                 THEN {"behind"} ELSE {}]
  /\ UNCHANGED <<tracker, epoch, jobs, workerVars>>

\* The reset throws, which is only logged.
ResetFails(k) ==
  /\ compacting[k]
  /\ compacting' = [compacting EXCEPT ![k] = FALSE]
  /\ UNCHANGED <<tracker, epoch, cursor, stored, flaws, jobs, workerVars>>

(***************************************************************************)
(* The summary worker                                                       *)
(***************************************************************************)

NextJob(i) ==
  Leasable(jobs[i]) /\ \A j \in 1 .. i - 1 : ~Leasable(jobs[j])

\* The tick leases nothing while the pipeline is off or in shadow mode, in which
\* the hooks enqueue all the same.
Tick(i) ==
  /\ up /\ leasing /\ attempt.current = Idle
  /\ NextJob(i)
  /\ jobs' = [jobs EXCEPT ![i] = LeaseJob(@)]
  /\ attempt' = [attempt EXCEPT !.current = [job |-> i, at |-> "leased"]]
  /\ UNCHANGED <<sessionVars, summarised, up, leasing, recovering>>

SetJob(i, job) == jobs' = [jobs EXCEPT ![i] = job]
Done(h) == attempt' = [attempt EXCEPT ![h] = Idle]
Proceed(h, at) == attempt' = [attempt EXCEPT ![h].at = at]
At(h, places) == attempt[h] # Idle /\ attempt[h].at \in places
JobOf(h) == jobs[attempt[h].job]

\* processJob with the command provider: the command runs unless the row says
\* that it has been run, or is being run.
BeginCommand(h) ==
  /\ At(h, {"leased"}) /\ JobOf(h).result \in {"null", "ok"}
  /\ SetJob(attempt[h].job, MarkCommandStageRunning(JobOf(h)))
  /\ Proceed(h, "command")
  /\ UNCHANGED <<sessionVars, summarised, up, leasing, recovering>>

CommandSucceeds(h) ==
  /\ At(h, {"command"})
  /\ SetJob(attempt[h].job, MarkCommandStageCompleted(JobOf(h)))
  /\ Proceed(h, "summary")
  /\ UNCHANGED <<sessionVars, summarised, up, leasing, recovering>>

CommandFails(h) ==
  /\ At(h, {"command"})
  /\ SetJob(attempt[h].job, FailJob(ClearCommandStageRunning(JobOf(h))))
  /\ Done(h)
  /\ UNCHANGED <<sessionVars, summarised, up, leasing, recovering>>

\* Another provider, or a command stage that is behind the job already.
BeginSummary(h) ==
  /\ At(h, {"leased"})
  /\ Proceed(h, "summary")
  /\ UNCHANGED <<sessionVars, jobs, summarised, up, leasing, recovering>>

\* Not significant: the job is completed without a summary.
SkipJob(h) ==
  /\ At(h, {"leased"})
  /\ SetJob(attempt[h].job, CompleteJob(JobOf(h)))
  /\ Done(h)
  /\ UNCHANGED <<sessionVars, summarised, up, leasing, recovering>>

\* The row in session_summaries, unless its write fails.  Scores are waited for
\* before anything else.
WriteSummary(h, written) ==
  /\ At(h, {"summary"})
  /\ Proceed(h, "scoring")
  /\ summarised' = summarised \cup
                     (IF written THEN {JobOf(h).text.session} ELSE {})
  /\ UNCHANGED <<sessionVars, jobs, up, leasing, recovering>>

\* The text of the job is stored as the transcript of its session, whatever is
\* stored there by now.
StoreTranscript(h) ==
  LET text == JobOf(h).text
  IN  /\ At(h, {"scoring"})
      /\ Proceed(h, "stored")
      /\ Upsert(text.session, [epoch |-> text.epoch, from |-> text.from,
                               upto |-> text.upto])
      /\ UNCHANGED <<tracker, epoch, cursor, compacting, flaws, jobs,
                     summarised, up, leasing, recovering>>

FinishJob(h) ==
  /\ At(h, {"stored"})
  /\ SetJob(attempt[h].job, CompleteJob(JobOf(h)))
  /\ Done(h)
  /\ UNCHANGED <<sessionVars, summarised, up, leasing, recovering>>

\* The completion's transaction may throw as well.
FailAttempt(h) ==
  /\ At(h, {"leased", "summary", "stored"})
  /\ SetJob(attempt[h].job, FailJob(JobOf(h)))
  /\ Done(h)
  /\ UNCHANGED <<sessionVars, summarised, up, leasing, recovering>>

\* The attempt fails and so does the transaction that would say so.
LoseAttempt(h) ==
  /\ attempt[h] # Idle
  /\ Done(h)
  /\ UNCHANGED <<sessionVars, jobs, summarised, up, leasing, recovering>>

Attempts(h) ==
  \/ BeginCommand(h) \/ CommandSucceeds(h) \/ CommandFails(h)
  \/ BeginSummary(h) \/ SkipJob(h) \/ FailAttempt(h) \/ LoseAttempt(h)
  \/ \E written \in BOOLEAN : WriteSummary(h, written)
  \/ StoreTranscript(h) \/ FinishJob(h)

\* The first RecoverBatch rows in processing; the timer is set anew after a full
\* batch.
Processing == {i \in DOMAIN jobs : jobs[i].status = "processing"}
Batch ==
  {i \in Processing :
     Cardinality({j \in Processing : j < i}) < RecoverBatch}

RecoverSummaryJobs ==
  /\ recovering
  /\ jobs' = [i \in DOMAIN jobs |->
                IF i \in Batch THEN RecoverJob(jobs[i]) ELSE jobs[i]]
  /\ recovering' = (Cardinality(Batch) >= RecoverBatch)
  /\ UNCHANGED <<sessionVars, summarised, up, leasing, attempt>>

\* Its transaction throws, which is only logged: the timer is not set again.
RecoveryThrows ==
  /\ recovering
  /\ recovering' = FALSE
  /\ UNCHANGED <<sessionVars, jobs, summarised, up, leasing, attempt>>

\* The pipeline is restarted or shut down: stop does not wait for the job.
StopWorker ==
  /\ up /\ attempt.left = Idle
  /\ up' = FALSE /\ recovering' = FALSE
  /\ attempt' = [current |-> Idle, left |-> attempt.current]
  /\ UNCHANGED <<sessionVars, jobs, summarised, leasing>>

StartWorker ==
  /\ ~up
  /\ up' = TRUE /\ recovering' = TRUE
  /\ UNCHANGED <<sessionVars, jobs, summarised, leasing, attempt>>

\* The configuration is edited; every tick reads it.
Reconfigure ==
  /\ leasing' = ~leasing
  /\ UNCHANGED <<sessionVars, jobs, summarised, up, recovering, attempt>>

\* The daemon ends, in order or not, and starts again.
Restart ==
  /\ tracker' = [k \in Sessions |-> NoEntry]
  /\ compacting' = [k \in Sessions |-> FALSE]
  /\ attempt' = [h \in Hands |-> Idle]
  /\ \E starts \in BOOLEAN : up' = starts /\ recovering' = starts
  /\ UNCHANGED <<epoch, cursor, stored, flaws, jobs, summarised, leasing>>

RequeueRows(rows) ==
  jobs' = [i \in DOMAIN jobs |->
             IF i \in rows THEN Requeue(jobs[i]) ELSE jobs[i]]

\* requeueDeadJobs: the batch it shares with the jobs of the memories is filled
\* with dead rows in no order.
Dead == {i \in DOMAIN jobs : jobs[i].status = "dead"}

RequeueDeadJobs ==
  /\ \E rows \in SUBSET Dead \ {{}} : RequeueRows(rows)
  /\ UNCHANGED <<sessionVars, workerVars>>

\* backfillSkippedSessions, up to its limit.
Skipped ==
  {i \in DOMAIN jobs : /\ jobs[i].status = "completed"
                       /\ jobs[i].text.session \notin summarised}

BackfillSkippedSessions ==
  /\ \E rows \in SUBSET Skipped \ {{}} : RequeueRows(rows)
  /\ UNCHANGED <<sessionVars, workerVars>>

Init ==
  /\ tracker = [k \in Sessions |-> NoEntry]
  /\ epoch = [k \in Sessions |-> 0]
  /\ cursor = [k \in Sessions |-> 0]
  /\ stored = [k \in Sessions |-> NoTranscript]
  /\ compacting = [k \in Sessions |-> FALSE]
  /\ flaws = [k \in Sessions |-> {}]
  /\ jobs = <<>>
  /\ summarised = {}
  /\ up = TRUE /\ recovering = TRUE /\ leasing \in BOOLEAN
  /\ attempt = [h \in Hands |-> Idle]

SessionNext ==
  \/ SweepSessions
  \/ \E k \in Sessions :
       \/ SubmitPrompt(k) \/ RenewSession(k) \/ ClaimRunsOut(k)
       \/ EndSession(k) \/ ResetCursor(k) \/ ResetFails(k)
       \/ \E on \in BOOLEAN : SetBypass(k, on)
       \/ \E n \in 1 .. MaxLength : EndSessionWith(k, n)
       \/ \E p \in Callers :
            \/ StartSession(k, p) \/ CheckClaim(k, p)
            \/ CheckpointSkips(k, p) \/ SaveCompaction(k, p)
            \/ \E t \in Offered(k) :
                 \/ CheckpointExtract(k, p, t) \/ JobWithoutCursor(k, p, t)
                 \/ CheckpointRereads(k, p, t)

WorkerNext ==
  \/ \E i \in DOMAIN jobs : Tick(i)
  \/ \E h \in Hands : Attempts(h)
  \/ RecoverSummaryJobs \/ RecoveryThrows
  \/ StopWorker \/ StartWorker \/ Reconfigure \/ Restart
  \/ RequeueDeadJobs \/ BackfillSkippedSessions

Next == SessionNext \/ WorkerNext

Spec == Init /\ [][Next]_vars

\* The worker's timers go on, and every call of a provider ends or times out.
Fairness ==
  /\ WF_vars(\E i \in DOMAIN jobs : Tick(i))
  /\ WF_vars(RecoverSummaryJobs)
  /\ \A h \in Hands : WF_vars(Attempts(h))

FairSpec == Spec /\ Fairness

(***************************************************************************)
(* Properties                                                               *)
(***************************************************************************)

TypeOK ==
  /\ tracker \in [Sessions -> Entry]
  /\ epoch \in [Sessions -> Nat] /\ cursor \in [Sessions -> Nat]
  /\ stored \in [Sessions -> Transcript]
  /\ compacting \in [Sessions -> BOOLEAN]
  /\ flaws \in [Sessions -> SUBSET {"stale", "behind", "restored"}]
  /\ \A i \in DOMAIN jobs :
       /\ jobs[i].text.session \in Sessions
       /\ jobs[i].text.from < jobs[i].text.upto
       /\ jobs[i].status \in Statuses /\ jobs[i].result \in Results
       /\ jobs[i].attempts \in 0 .. MaxAttempts
  /\ summarised \subseteq Sessions
  /\ up \in BOOLEAN /\ leasing \in BOOLEAN /\ recovering \in BOOLEAN
  /\ \A h \in Hands : attempt[h] = Idle \/ attempt[h] \in Attempt

\* Checkpoint jobs of the present transcript of a session, and the parts that
\* one of them was made of, or had to cut off.
Checkpoints(k) ==
  {i \in DOMAIN jobs : /\ jobs[i].text.session = k
                       /\ jobs[i].text.epoch = epoch[k]
                       /\ jobs[i].text.checkpoint}
Has(i, part) == jobs[i].text.from <= part /\ part < jobs[i].text.upto
CutOff(i, part) == jobs[i].text.upto <= part /\ part < jobs[i].text.end

CursorIsCovered(k) ==
  \A part \in 0 .. cursor[k] - 1 :
    \E i \in Checkpoints(k) : Has(i, part) \/ CutOff(i, part)

\* A delta of the transcript is never skipped for good: whatever lies before the
\* cursor has been enqueued, or cut off by the cap, through crashes, failed
\* writes, sessions that end and start again, compactions and a worker that
\* stores transcripts of its own, unless the reset of the cursor that belongs to
\* a compaction is missing, or a checkpoint took from the store what the worker
\* had put there: a delta, or the text of a job from before the compaction.
CursorCovered ==
  \A k \in Sessions :
    flaws[k] \cap {"stale", "restored"} = {} => CursorIsCovered(k)

\* Only the delta since the last extraction is enqueued: no part of the present
\* transcript goes into two checkpoints, whatever is in the store, unless a
\* write or a read of the cursor was lost or one came between the two halves of
\* a compaction.
ExtractedOnce ==
  \A k \in Sessions : "behind" \notin flaws[k] =>
    \A i, j \in Checkpoints(k) :
      i # j => \A part \in 0 .. MaxLength - 1 : ~(Has(i, part) /\ Has(j, part))

\* A session is never handed from one path to the other while its claim is in
\* time: it ends in between, and a bypass does not outlive it.
ClaimHolds ==
  [][\A k \in Sessions :
       Alive(tracker[k]) =>
         tracker'[k].path = tracker[k].path \/ tracker'[k] = NoEntry]_vars

\* A job that is completed is not given to the worker again by an attempt that
\* fails later, however attempts of stopped and started workers overlap; only
\* the backfill of sessions without a summary brings it back.
CompletedIsFinal ==
  [][\A i \in DOMAIN jobs :
       (jobs[i].status = "completed" /\ jobs'[i].status # "completed")
         => BackfillSkippedSessions]_vars

\* Nothing will touch the row before the worker is started again.
Abandoned(i) ==
  /\ i \in DOMAIN jobs
  /\ jobs[i].status = "processing" /\ ~recovering
  /\ \A h \in Hands : attempt[h] = Idle \/ attempt[h].job # i

Repair == RequeueDeadJobs \/ BackfillSkippedSessions

Settled(i) ==
  i \in DOMAIN jobs /\ jobs[i].status \in {"completed", "dead"}

\* Every job is settled in the end, through restarts and lost attempts, as long
\* as the worker stays up, the pipeline enabled and out of shadow mode, and
\* repairs do not go on for ever; only a failure that could not be recorded, or
\* a recovery that threw, leaves a row in processing, until the next start.
JobsSettle ==
  (<>[](up /\ leasing) /\ <>[][~Repair]_vars) =>
    \A i \in 1 .. MaxJobs :
      (i \in DOMAIN jobs) ~> (Settled(i) \/ Abandoned(i))
=============================================================================
