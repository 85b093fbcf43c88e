-------------------------- MODULE MCSessionLifecycle --------------------------
(***************************************************************************)
(* Slices of SessionLifecycle for TLC.  Hooks and worker share two          *)
(* tables: no hook reads the status of a job, and the worker reads of a     *)
(* session only whether it has a summary, but both write the stored         *)
(* transcript and a checkpoint reads it.  So:                               *)
(*   - "hooks" has all routes, with both paths, and restarts, with jobs     *)
(*     that nobody takes;                                                   *)
(*   - "store" has what bears on the stored transcript: one caller, and a   *)
(*     worker that takes one job after the other, keeps it for as long as   *)
(*     it likes, and may lose it in a restart, with no repair or retry, and *)
(*     sessions that end with as long a transcript as can be;               *)
(*   - "worker" has sessions that only end while the worker, its restarts,  *)
(*     the gate of its tick and the repairs go on; the gate closes only     *)
(*     while nothing is in hand, for an attempt does not read it; every     *)
(*     write of a transcript fails, as none of them reads it, and every     *)
(*     write of a summary, so that the backfill takes any completed job.    *)
(* A behaviour keeps the slice it starts in; the worker's fairness says     *)
(* nothing of the first one, which has no worker.                           *)
(***************************************************************************)
EXTENDS SessionLifecycle

CONSTANTS
  WorkerJobs,   \* bound: rows of summary_jobs in the worker's slice
  HooksLength   \* bound: parts of a transcript in the hooks' slice

VARIABLE slice

MCInit ==
  /\ Init
  /\ slice \in {"hooks", "store", "worker"}
  /\ slice = "worker" \/ leasing

Short(k) == Size(stored'[k]) <= HooksLength /\ cursor'[k] <= HooksLength

HooksNext ==
  /\ \/ SessionNext
     \/ Restart /\ up' = TRUE
  /\ \A k \in Sessions : Short(k)

StoreNext ==
  \/ \E k \in Sessions :
       \/ SubmitPrompt(k) \/ ResetCursor(k) \/ ResetFails(k)
       \/ CheckpointSkips(k, NoPath) \/ SaveCompaction(k, NoPath)
       \/ EndSessionWith(k, MaxLength)
       \/ \E t \in Offered(k) : \/ CheckpointExtract(k, NoPath, t)
                                \/ JobWithoutCursor(k, NoPath, t)
                                \/ CheckpointRereads(k, NoPath, t)
  \/ \E i \in DOMAIN jobs : Tick(i)
  \/ BeginSummary("current") \/ WriteSummary("current", FALSE)
  \/ StoreTranscript("current") \/ FinishJob("current")
  \/ Restart /\ up' = TRUE

JobsNext ==
  /\ \/ WorkerNext
     \/ \E k \in Sessions : Len(jobs) < WorkerJobs /\ EndSessionWith(k, 1)
  /\ leasing' \/ \A h \in Hands : attempt'[h] = Idle
  /\ UNCHANGED <<stored, summarised>>

MCNext ==
  /\ \/ slice = "hooks" /\ HooksNext
     \/ slice = "store" /\ StoreNext
     \/ slice = "worker" /\ JobsNext
  /\ UNCHANGED slice

MCSpec == MCInit /\ [][MCNext]_<<vars, slice>> /\ Fairness
=============================================================================
