------------------------------- MODULE Scheduler -------------------------------
(***************************************************************************)
(* Scheduled tasks: the requests that create, change, delete and trigger    *)
(* them, and the worker that polls for due tasks and runs a bounded number  *)
(* of them at once as child processes.                                      *)
(*                                                                          *)
(* A run's row in task_runs is read only while its status is running, so    *)
(* the rows of a task are counted by what has become of their processes.    *)
(* Times are kept as an order: due lists the tasks whose next_run_at has    *)
(* passed, and before which of them is the earlier one.                     *)
(*                                                                          *)
(* A task has at most one process of this daemon, so that what a process    *)
(* does with a signal is kept by task.                                      *)
(***************************************************************************)
EXTENDS Naturals, FiniteSets

CONSTANTS
  Tasks,          \* task ids
  MaxConcurrent,  \* MAX_CONCURRENT
  MaxSurvivors    \* bound: processes of one task that outlived their daemon

ASSUME SchedulerAssumption ==
  MaxConcurrent \in Nat \ {0} /\ IsFiniteSet(Tasks) /\ MaxSurvivors \in Nat

VARIABLES
  task,     \* scheduled_tasks: "absent", "enabled", "disabled" or "deleted"
  harness,  \* is the task's harness a known one
  due,      \* the tasks whose next_run_at is over
  before,   \* the pairs of them in the order of next_run_at
  polled,   \* running rows of a task whose process the poll started
  manual,   \* running rows of a task whose process a request started
  stuck,    \* running rows of a task without a process
  deaf,     \* the tasks whose polled process neither ends nor heeds SIGTERM
  survived  \* processes of a task that the polls of dead daemons started

runs == <<polled, manual, stuck>>
vars == <<task, harness, due, before, runs, deaf, survived>>

Exists(t) == task[t] \in {"enabled", "disabled"}
RunningRows(t) == polled[t] + manual[t] + stuck[t]
NoneRunning == [t \in Tasks |-> 0]

\* activeProcesses; those of deleted tasks are among them.
Processes == UNION {{t} \X (1 .. polled[t]) : t \in Tasks}
Active == Cardinality(Processes)

Forget(ts) ==
  /\ due' = due \ ts
  /\ before' = {p \in before : p[1] \notin ts /\ p[2] \notin ts}

(***************************************************************************)
(* Requests and time                                                        *)
(***************************************************************************)

CreateTask(t) ==
  /\ task[t] = "absent"
  /\ task' = [task EXCEPT ![t] = "enabled"]
  /\ UNCHANGED <<harness, due, before, runs, deaf, survived>>

BecomeDue(t) ==
  /\ task[t] = "enabled" /\ t \notin due
  /\ due' = due \cup {t}
  /\ before' = before \cup (due \X {t})
  /\ UNCHANGED <<task, harness, runs, deaf, survived>>

\* PATCH of the cron expression or of enabled: next_run_at is computed anew; a
\* disabled task keeps it, but it counts for nothing until then.
PatchSchedule(t, status) ==
  /\ Exists(t)
  /\ task' = [task EXCEPT ![t] = status]
  /\ Forget({t})
  /\ UNCHANGED <<harness, runs, deaf, survived>>

\* PATCH of the harness, which is not validated.
PatchHarness(t, known) ==
  /\ Exists(t)
  /\ harness' = [harness EXCEPT ![t] = known]
  /\ UNCHANGED <<task, due, before, runs, deaf, survived>>

\* DELETE: its process stays, and nobody reads the rows of its runs any more.
DeleteTask(t) ==
  /\ Exists(t)
  /\ task' = [task EXCEPT ![t] = "deleted"]
  /\ Forget({t})
  /\ UNCHANGED <<harness, runs, deaf, survived>>

\* Faulty: the request does not look for a running row.
RunAnyway(t) ==
  /\ Exists(t)
  /\ manual' = [manual EXCEPT ![t] = @ + 1]
  /\ UNCHANGED <<task, harness, due, before, polled, stuck, deaf, survived>>

\* POST run: the row is inserted before the harness is looked at.
RunByHand(t) ==
  /\ Exists(t)
  /\ RunningRows(t) = 0
  /\ IF harness[t]
     THEN manual' = [manual EXCEPT ![t] = @ + 1] /\ UNCHANGED stuck
     ELSE stuck' = [stuck EXCEPT ![t] = @ + 1] /\ UNCHANGED manual
  /\ UNCHANGED <<task, harness, due, before, polled, deaf, survived>>

(***************************************************************************)
(* The worker                                                               *)
(***************************************************************************)

\* selectDueTasks: the due tasks that qualify, and the first n of them.
Selectable == {t \in due : task[t] = "enabled" /\ RunningRows(t) = 0}
SelectDueTasks(n) ==
  {t \in Selectable : Cardinality({u \in Selectable : <<u, t>> \in before}) < n}

\* computeNextRun does not throw: it has computed the next_run_at that is over
\* from the same expression.
StartAll(ts) ==
  /\ ts # {}
  /\ polled' = [t \in Tasks |-> polled[t] + (IF t \in ts THEN 1 ELSE 0)]
  /\ Forget(ts)
  /\ UNCHANGED <<task, harness, manual, stuck, deaf, survived>>

\* Faulty: takes the tasks that became due last.
PollLatest ==
  /\ Active < MaxConcurrent
  /\ StartAll({t \in Selectable :
                 Cardinality({u \in Selectable : <<t, u>> \in before})
                   < MaxConcurrent - Active})

\* Faulty: the number of due tasks is not limited by the active ones.
PollUnlimited ==
  /\ Active < MaxConcurrent
  /\ StartAll(SelectDueTasks(MaxConcurrent))

\* A poll starts as many of the due tasks as there is room for; each gets its
\* row and its next_run_at in one transaction.
Poll ==
  /\ Active < MaxConcurrent
  /\ StartAll(SelectDueTasks(MaxConcurrent - Active))

\* Faulty: the result of a run that is given up is recorded as well.
FinishAny(t) ==
  /\ polled[t] + stuck[t] > 0
  /\ polled' = [polled EXCEPT ![t] = @ - 1]
  /\ deaf' = deaf \ {t}
  /\ UNCHANGED <<task, harness, due, before, manual, stuck, survived>>

\* The process ends or fails, by itself or when SIGTERM is sent at the timeout,
\* its streams are closed, and the result is recorded.
FinishPolled(t) ==
  /\ polled[t] > 0
  /\ polled' = [polled EXCEPT ![t] = @ - 1]
  /\ deaf' = deaf \ {t}
  /\ UNCHANGED <<task, harness, due, before, manual, stuck, survived>>

FinishManual(t) ==
  /\ manual[t] > 0
  /\ manual' = [manual EXCEPT ![t] = @ - 1]
  /\ UNCHANGED <<task, harness, due, before, polled, stuck, deaf, survived>>

\* The process hangs and ignores SIGTERM, or a child of it keeps the streams
\* open: what is sent five seconds later is SIGTERM again.
IgnoreSignal(t) ==
  /\ polled[t] > 0 /\ t \notin deaf
  /\ deaf' = deaf \cup {t}
  /\ UNCHANGED <<task, harness, due, before, runs, survived>>

\* Ten minutes are over for a process that heeds the signal.
TimeOut(t) == t \notin deaf /\ FinishPolled(t)

\* The transaction that records the result throws, or the manual run's process
\* could not even be started: nothing will update the row any more.
LosePolled(t) ==
  /\ polled[t] > 0
  /\ polled' = [polled EXCEPT ![t] = @ - 1]
  /\ stuck' = [stuck EXCEPT ![t] = @ + 1]
  /\ deaf' = deaf \ {t}
  /\ UNCHANGED <<task, harness, due, before, manual, survived>>

LoseManual(t) ==
  /\ manual[t] > 0
  /\ manual' = [manual EXCEPT ![t] = @ - 1]
  /\ stuck' = [stuck EXCEPT ![t] = @ + 1]
  /\ UNCHANGED <<task, harness, due, before, polled, deaf, survived>>

\* The daemon ends and starts again: all running rows are marked failed, but the
\* processes live on, for nothing calls the worker's stop() (and a crash would
\* not); the new daemon knows nothing of them.
Restart ==
  /\ \A t \in Tasks : survived[t] + polled[t] <= MaxSurvivors
  /\ survived' = [t \in Tasks |-> survived[t] + polled[t]]
  /\ polled' = NoneRunning /\ manual' = NoneRunning /\ stuck' = NoneRunning
  /\ deaf' = {}
  /\ UNCHANGED <<task, harness, due, before>>

SurvivorEnds(t) ==
  /\ survived[t] > 0
  /\ survived' = [survived EXCEPT ![t] = @ - 1]
  /\ UNCHANGED <<task, harness, due, before, runs, deaf>>

Init ==
  /\ task = [t \in Tasks |-> "absent"]
  /\ harness = [t \in Tasks |-> TRUE]
  /\ due = {} /\ before = {}
  /\ polled = NoneRunning /\ manual = NoneRunning /\ stuck = NoneRunning
  /\ deaf = {} /\ survived = NoneRunning

Next ==
  \/ \E t \in Tasks :
       \/ CreateTask(t) \/ BecomeDue(t) \/ DeleteTask(t) \/ RunByHand(t)
       \/ \E status \in {"enabled", "disabled"} : PatchSchedule(t, status)
       \/ \E known \in BOOLEAN : PatchHarness(t, known)
       \/ FinishPolled(t) \/ FinishManual(t) \/ LosePolled(t) \/ LoseManual(t)
       \/ IgnoreSignal(t) \/ SurvivorEnds(t)
  \/ Poll \/ Restart

Spec == Init /\ [][Next]_vars

\* The poll's timer goes on, and a process that heeds SIGTERM ends at its
\* timeout at the latest.
Fairness == WF_vars(Poll) /\ \A t \in Tasks : WF_vars(TimeOut(t))

FairSpec == Spec /\ Fairness

(***************************************************************************)
(* Properties                                                               *)
(***************************************************************************)

TypeOK ==
  /\ task \in [Tasks -> {"absent", "enabled", "disabled", "deleted"}]
  /\ harness \in [Tasks -> BOOLEAN]
  /\ due \subseteq Tasks /\ before \subseteq due \X due
  /\ polled \in [Tasks -> Nat] /\ manual \in [Tasks -> Nat]
  /\ stuck \in [Tasks -> Nat]
  /\ deaf \subseteq Tasks /\ survived \in [Tasks -> Nat]

\* No task has two rows in task_runs that read as running: polls and requests that
\* overlap, lost results and restarts never get past the row that each of them
\* looks for.  Processes are another matter: one that outlived its daemon may
\* have a second one of its task beside it.
NoDoubleExecution == \A t \in Tasks : RunningRows(t) <= 1

\* The processes that the polls of the present daemon have started and that have
\* not ended stay within MAX_CONCURRENT, also when tasks are deleted under them
\* and results are lost.  Those of an earlier daemon come on top of them.
BoundedConcurrency == Active <= MaxConcurrent

\* Unless processes that do not heed SIGTERM come to hold all places, nothing
\* keeps a due task from running for good, however many others become due, except
\* a running row that nothing will update.
DueTasksRun ==
  <>[](Cardinality(deaf) < MaxConcurrent) =>
    \A t \in Tasks : t \in due ~> (t \notin due \/ RunningRows(t) > 0)
=============================================================================
