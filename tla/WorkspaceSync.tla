----------------------------- MODULE WorkspaceSync -----------------------------
(***************************************************************************)
(* What the file watcher sets off when a workspace file changes: after a    *)
(* debounce the harness files are composed anew, through a runner that has  *)
(* one run in flight and remembers that another was asked for; and after    *)
(* another debounce the workspace is committed to git by child processes.   *)
(*                                                                          *)
(* A file is the number of times it was edited.  That a timer is re-armed   *)
(* while armed changes nothing but when it fires.  Chokidar, git and the    *)
(* user are modelled by what the daemon sees of them.                       *)
(***************************************************************************)
EXTENDS Naturals, FiniteSets

CONSTANTS
  Files,           \* the watched files
  SyncFiles,       \* SYNC_TRIGGER_FILES
  Agents,          \* AGENTS.md, which is read first
  Slots,           \* runs of syncHarnessConfigs there is room for
  MaxEdits,        \* bound: edits explored
  MaxFaults        \* bound: failures, timeouts and crashes explored

ASSUME SyncAssumption ==
  /\ SyncFiles \subseteq Files /\ Agents \in SyncFiles
  /\ MaxEdits \in Nat /\ MaxFaults \in Nat

VARIABLES
  source,         \* the files
  notices,        \* files whose change event is on its way
  syncTimer,      \* is syncTimer armed
  running, rerunRequested,  \* the single-flight runner
  run,            \* the runs in flight, with what they have read
  harness,        \* the versions the harness files were composed from
  incomplete,     \* history: the last run failed, was partial or was lost
  commitTimer,    \* is commitTimer armed
  commitPending,
  git,            \* the child process in flight, or "none"
  index,          \* what git has staged
  committed,      \* what git has committed
  lapsed,         \* history: a commit was dropped, or failed, since the last add
  edits, faults   \* bounded counters

sync == <<syncTimer, running, rerunRequested, run, harness, incomplete>>
autocommit == <<commitTimer, commitPending, git, index, committed, lapsed>>
vars == <<source, notices, sync, autocommit, edits, faults>>

Versions == 0 .. MaxEdits
Blank == MaxEdits + 1  \* stands for a file that could not be read
Unread == MaxEdits + 2

Idle == [stage |-> "idle"]
Begun == [stage |-> "reading", seen |-> [f \in SyncFiles |-> Unread]]
Busy(s) == run[s] # Idle

\* The bound on faults.
CountFault == faults < MaxFaults /\ faults' = faults + 1

(***************************************************************************)
(* The watcher                                                              *)
(***************************************************************************)

Edit(f) ==
  /\ edits < MaxEdits /\ edits' = edits + 1
  /\ source' = [source EXCEPT ![f] = @ + 1]
  /\ notices' = notices \cup {f}
  /\ UNCHANGED <<sync, autocommit, faults>>

\* Faulty: leaves the timer alone while a commit is pending.
NoticeChangeIfIdle(f) ==
  /\ f \in notices
  /\ notices' = notices \ {f}
  /\ commitTimer' = (commitTimer \/ ~commitPending)
  /\ syncTimer' = (syncTimer \/ f \in SyncFiles)
  /\ UNCHANGED <<source, running, rerunRequested, run, harness, incomplete,
                 commitPending, git, index, committed, lapsed, edits, faults>>

\* watcher.on("change"): both debounces start, or start again.
NoticeChange(f) ==
  /\ f \in notices
  /\ notices' = notices \ {f}
  /\ commitTimer' = TRUE
  /\ syncTimer' = (syncTimer \/ f \in SyncFiles)
  /\ UNCHANGED <<source, edits, running, rerunRequested, run, harness,
                 incomplete, commitPending, git, index, committed, lapsed,
                 faults>>

(***************************************************************************)
(* Harness sync and its runner                                              *)
(***************************************************************************)

\* execute() of an idle runner.
Execute ==
  \E s \in Slots :
    /\ ~Busy(s)
    /\ run' = [run EXCEPT ![s] = Begun]
    /\ running' = TRUE
    /\ rerunRequested' = FALSE

\* Faulty: runs whether or not a run is in flight.
FireSyncTimerAlways ==
  /\ syncTimer
  /\ syncTimer' = FALSE
  /\ Execute
  /\ UNCHANGED <<source, edits, notices, harness, incomplete, autocommit,
                 faults>>

\* The debounce ends: run, or ask the run in flight for another.
FireSyncTimer ==
  /\ syncTimer
  /\ syncTimer' = FALSE
  /\ IF running
     THEN rerunRequested' = TRUE /\ UNCHANGED <<running, run>>
     ELSE Execute
  /\ UNCHANGED <<source, edits, notices, harness, incomplete, autocommit,
                 faults>>

\* AGENTS.md is read first, then the identity files side by side; one of those
\* that cannot be read is left out.
ReadFile(s, f, v) ==
  /\ run[s].stage = "reading"
  /\ run[s].seen[f] = Unread
  /\ f # Agents => run[s].seen[Agents] # Unread
  /\ \/ v = source[f] /\ UNCHANGED faults
     \/ v = Blank /\ f # Agents /\ CountFault
  /\ run' = [run EXCEPT ![s].seen[f] = v]
  /\ UNCHANGED <<source, edits, notices, syncTimer, running, rerunRequested,
                 harness, incomplete, autocommit>>

\* Faulty: writes as soon as AGENTS.md is read.
WriteHarnessEarly(s, ok) ==
  /\ run[s].stage = "reading"
  /\ run[s].seen[Agents] # Unread
  /\ ok
  /\ harness' = run[s].seen
  /\ incomplete' = FALSE
  /\ run' = [run EXCEPT ![s] = [stage |-> "written"]]
  /\ UNCHANGED <<source, edits, notices, syncTimer, running, rerunRequested,
                 autocommit, faults>>

\* The harness files are written; an error of a write is caught and logged.
WriteHarness(s, ok) ==
  /\ run[s].stage = "reading"
  /\ \A f \in SyncFiles : run[s].seen[f] # Unread
  /\ IF ok
     THEN /\ harness' = run[s].seen
          /\ incomplete' = (\E f \in SyncFiles : run[s].seen[f] = Blank)
          /\ UNCHANGED faults
     ELSE /\ CountFault
          /\ incomplete' = TRUE
          /\ UNCHANGED harness
  /\ run' = [run EXCEPT ![s] = [stage |-> "written"]]
  /\ UNCHANGED <<source, edits, notices, syncTimer, running, rerunRequested,
                 autocommit>>

\* Faulty: forgets the request it has not acted upon.
StopAlways(s) ==
  /\ rerunRequested' = FALSE
  /\ running' = FALSE
  /\ run' = [run EXCEPT ![s] = Idle]

\* The loop of execute() goes round, or the runner is idle again.
LoopOrStop(s) ==
  /\ rerunRequested' = FALSE
  /\ running' = rerunRequested
  /\ run' = [run EXCEPT ![s] = IF rerunRequested THEN Begun ELSE Idle]

EndRun(s) ==
  /\ run[s].stage = "written"
  /\ LoopOrStop(s)
  /\ UNCHANGED <<source, edits, notices, syncTimer, harness, incomplete,
                 autocommit, faults>>

\* AGENTS.md cannot be read: the run throws.
RunThrows(s) ==
  /\ run[s] = Begun
  /\ CountFault
  /\ LoopOrStop(s)
  /\ incomplete' = TRUE
  /\ UNCHANGED <<source, edits, notices, syncTimer, harness, autocommit>>

(***************************************************************************)
(* Auto-commit                                                              *)
(***************************************************************************)

\* The debounce ends: nothing is done while a commit is pending.
FireCommitTimer ==
  /\ commitTimer
  /\ commitTimer' = FALSE
  /\ IF commitPending
     THEN lapsed' = TRUE /\ UNCHANGED <<commitPending, git>>
     ELSE /\ commitPending' = TRUE
          /\ git' = "untrack"
          /\ UNCHANGED lapsed
  /\ UNCHANGED <<source, edits, notices, sync, index, committed, faults>>

GitStep(from, to) ==
  /\ git = from
  /\ git' = to
  /\ commitPending' = (to # "none")
  /\ UNCHANGED <<source, edits, notices, sync, commitTimer, faults>>

\* git rm --cached of the protected paths, whatever it answers.
GitUntrack ==
  /\ GitStep("untrack", "add")
  /\ UNCHANGED <<index, committed, lapsed>>

\* git add -A.
GitAdd ==
  /\ GitStep("add", "status")
  /\ index' = source
  /\ lapsed' = FALSE
  /\ UNCHANGED committed

\* git status --porcelain: clean trees are not committed.
GitStatus ==
  /\ GitStep("status", IF source = index /\ index = committed
                       THEN "none" ELSE "commit")
  /\ UNCHANGED <<index, committed, lapsed>>

GitCommit ==
  /\ GitStep("commit", "none")
  /\ committed' = index
  /\ UNCHANGED <<index, lapsed>>

\* A child fails, or the 30 seconds are over and it is killed.
GitFails ==
  /\ git \in {"add", "status", "commit"}
  /\ CountFault
  /\ git' = "none"
  /\ commitPending' = FALSE
  /\ lapsed' = TRUE
  /\ UNCHANGED <<source, edits, notices, sync, commitTimer, index, committed>>

\* .gitignore cannot be written: the callback throws and commitPending stays.
AutoCommitThrows ==
  /\ git = "untrack"
  /\ CountFault
  /\ git' = "none"
  /\ lapsed' = TRUE
  /\ UNCHANGED <<source, edits, notices, sync, commitTimer, commitPending,
                 index, committed>>

\* The daemon dies and is started again; the new watcher ignores what is there.
Crash ==
  /\ CountFault
  /\ notices' = {}
  /\ syncTimer' = FALSE /\ commitTimer' = FALSE
  /\ running' = FALSE /\ rerunRequested' = FALSE
  /\ run' = [s \in Slots |-> Idle]
  /\ incomplete' = TRUE
  /\ commitPending' = FALSE /\ git' = "none"
  /\ lapsed' = TRUE
  /\ UNCHANGED <<source, edits, harness, index, committed>>

Init ==
  /\ source = [f \in Files |-> 0]
  /\ notices = {}
  /\ syncTimer = FALSE
  /\ running = FALSE /\ rerunRequested = FALSE
  /\ run = [s \in Slots |-> Idle]
  /\ harness = [f \in SyncFiles |-> 0]
  /\ incomplete = FALSE
  /\ commitTimer = FALSE
  /\ commitPending = FALSE
  /\ git = "none"
  /\ index = source /\ committed = source
  /\ lapsed = FALSE
  /\ edits = 0 /\ faults = 0

Next ==
  \/ \E f \in Files : Edit(f) \/ NoticeChange(f)
  \/ FireSyncTimer
  \/ \E s \in Slots :
       \/ \E f \in SyncFiles : \E v \in {source[f], Blank} : ReadFile(s, f, v)
       \/ \E ok \in BOOLEAN : WriteHarness(s, ok)
       \/ EndRun(s) \/ RunThrows(s)
  \/ FireCommitTimer \/ GitUntrack \/ GitAdd \/ GitStatus \/ GitCommit
  \/ GitFails \/ AutoCommitThrows
  \/ Crash

Spec == Init /\ [][Next]_vars

\* Events arrive, timers fire, reads and writes and child processes end.
Fairness ==
  /\ \A f \in Files : WF_vars(NoticeChange(f))
  /\ WF_vars(FireSyncTimer)
  /\ \A s \in Slots :
       /\ \A f \in SyncFiles : WF_vars(ReadFile(s, f, source[f]))
       /\ WF_vars(WriteHarness(s, TRUE))
       /\ WF_vars(EndRun(s))
  /\ WF_vars(FireCommitTimer)
  /\ WF_vars(GitUntrack) /\ WF_vars(GitAdd)
  /\ WF_vars(GitStatus) /\ WF_vars(GitCommit)

FairSpec == Spec /\ Fairness

(***************************************************************************)
(* Properties                                                               *)
(***************************************************************************)

TypeOK ==
  /\ source \in [Files -> Versions]
  /\ notices \subseteq Files
  /\ syncTimer \in BOOLEAN /\ running \in BOOLEAN /\ rerunRequested \in BOOLEAN
  /\ run \in [Slots -> {Idle, [stage |-> "written"]} \cup
                [stage : {"reading"}, seen : [SyncFiles -> 0 .. Unread]]]
  /\ harness \in [SyncFiles -> 0 .. Blank]
  /\ incomplete \in BOOLEAN
  /\ commitTimer \in BOOLEAN /\ commitPending \in BOOLEAN
  /\ git \in {"none", "untrack", "add", "status", "commit"}
  /\ index \in [Files -> Versions] /\ committed \in [Files -> Versions]
  /\ lapsed \in BOOLEAN
  /\ edits \in 0 .. MaxEdits /\ faults \in 0 .. MaxFaults

\* Two runs never write the harness files side by side, whenever the timer
\* fires and however runs end.
SingleFlight ==
  \A s, t \in Slots : Busy(s) /\ Busy(t) => s = t

\* A run reads the files one after the other while they change, and a rerun may
\* be asked for at any moment of it: once the edits are over, the harness files
\* are composed from what the workspace holds, unless the last run failed.
SyncCatchesUp ==
  <>[](incomplete \/ \A f \in SyncFiles : harness[f] = source[f])

\* Once the edits are over git has what the workspace holds, unless a commit
\* was dropped for one in flight, or failed, after the last add.
CommitCatchesUp == <>[](lapsed \/ committed = source)

\* "the daemon auto-commits file changes with a 5-second debounce after the last
\* detected change": once the edits are over everything is committed.
ChangesCommitted == <>[](committed = source)
=============================================================================
