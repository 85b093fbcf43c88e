-------------------------- MODULE WorkspaceSyncProofs --------------------------
(***************************************************************************)
(* For any set of files, any room for runs and any bounds: the state is     *)
(* well typed, and the harness files are never written by two runs side by  *)
(* side.  That needs more than the property itself: the runner must know of *)
(* the run in flight (RunnerKnows), or the timer would start a second one.  *)
(* Last, that nothing is out of date with nothing on its way.               *)
(***************************************************************************)
EXTENDS WorkspaceSync, TLAPS

\* The runner's flag says whether a run is in flight.
RunnerKnows == running <=> \E s \in Slots : Busy(s)

\* No file has been edited more often than edits were counted.
EditsCounted == \A f \in Files : source[f] <= edits

Inv == TypeOK /\ SingleFlight /\ RunnerKnows /\ EditsCounted

Runs ==
  {Idle, [stage |-> "written"]} \cup
    [stage : {"reading"}, seen : [SyncFiles -> 0 .. Unread]]

LEMMA Stages ==
  /\ Begun \in Runs /\ Begun # Idle
  /\ [stage |-> "written"] # Idle
  /\ \A r \in Runs : r.stage = "reading" =>
       /\ r # Idle
       /\ r.seen \in [SyncFiles -> 0 .. Unread]
       /\ \A f \in SyncFiles : \A v \in 0 .. Unread :
            [r EXCEPT !.seen[f] = v] \in Runs
  /\ \A r \in Runs : r.stage = "written" => r # Idle
<1> USE SyncAssumption DEF Runs, Begun, Idle, Unread, Blank
<1>1. Begun \in Runs /\ Begun # Idle
  <2>1. [f \in SyncFiles |-> Unread] \in [SyncFiles -> 0 .. Unread]
    OBVIOUS
  <2>2. Begun.stage = "reading"
    OBVIOUS
  <2> QED BY <2>1, <2>2
<1>2. [stage |-> "written"] # Idle
  OBVIOUS
<1>3. ASSUME NEW r \in Runs, r.stage = "reading"
      PROVE  /\ r # Idle
             /\ r \in [stage : {"reading"}, seen : [SyncFiles -> 0 .. Unread]]
  BY <1>3
<1>4. ASSUME NEW r \in [stage : {"reading"}, seen : [SyncFiles -> 0 .. Unread]],
             NEW f \in SyncFiles, NEW v \in 0 .. Unread
      PROVE  /\ r.seen \in [SyncFiles -> 0 .. Unread]
             /\ [r EXCEPT !.seen[f] = v] \in
                  [stage : {"reading"}, seen : [SyncFiles -> 0 .. Unread]]
  BY <1>4
<1>5. \A r \in Runs : r.stage = "written" => r # Idle
  OBVIOUS
<1>6. \A r \in Runs : r.stage = "reading" =>
        r.seen \in [SyncFiles -> 0 .. Unread]
  BY <1>3
<1> QED BY <1>1, <1>2, <1>3, <1>4, <1>5, <1>6

LEMMA StartsRight == Init => Inv
<1> SUFFICES ASSUME Init PROVE Inv
  OBVIOUS
<1>1. 0 \in Versions /\ 0 \in 0 .. Blank /\ 0 \in 0 .. MaxFaults
  BY SyncAssumption DEF Versions, Blank
<1>2. \A s \in Slots : run[s] = Idle
  BY DEF Init
<1>3. run \in [Slots -> Runs]
  BY DEF Init, Runs
<1>4. source \in [Files -> Versions] /\ index = source /\ committed = source
  BY <1>1 DEF Init
<1>5. harness \in [SyncFiles -> 0 .. Blank]
  BY <1>1 DEF Init
<1>6. EditsCounted
  BY DEF Init, EditsCounted
<1>7. SingleFlight /\ RunnerKnows
  BY <1>2 DEF Init, SingleFlight, RunnerKnows, Busy
<1>8. TypeOK
  BY <1>1, <1>3, <1>4, <1>5 DEF Init, TypeOK, Runs, Versions
<1> QED BY <1>6, <1>7, <1>8 DEF Inv

\* What concerns the runner: its two flags and its runs.
RunnerInv ==
  /\ running \in BOOLEAN /\ rerunRequested \in BOOLEAN
  /\ run \in [Slots -> Runs]
  /\ SingleFlight /\ RunnerKnows

LEMMA ExecuteKeeps ==
  ASSUME RunnerInv, ~running, Execute
  PROVE  RunnerInv'
<1>1. PICK s \in Slots : /\ ~Busy(s)
                         /\ run' = [run EXCEPT ![s] = Begun]
                         /\ running' = TRUE /\ rerunRequested' = FALSE
  BY DEF Execute
<1>2. run' \in [Slots -> Runs]
  BY <1>1, Stages DEF RunnerInv
<1>3. Busy(s)' /\ \A t \in Slots : t # s => ~Busy(t)'
  BY <1>1, Stages DEF RunnerInv, RunnerKnows, Busy
<1> QED BY <1>1, <1>2, <1>3 DEF RunnerInv, SingleFlight, RunnerKnows

LEMMA LoopKeeps ==
  ASSUME RunnerInv, NEW s \in Slots, Busy(s), LoopOrStop(s)
  PROVE  RunnerInv'
<1>1. \A t \in Slots : t # s => ~Busy(t) /\ run'[t] = run[t]
  BY DEF RunnerInv, SingleFlight, LoopOrStop
<1>2. run' \in [Slots -> Runs]
  BY Stages DEF RunnerInv, LoopOrStop, Runs
<1>3. \A t \in Slots : t # s => ~Busy(t)'
  BY <1>1 DEF Busy
<1>4. Busy(s)' <=> rerunRequested
  BY Stages DEF LoopOrStop, RunnerInv, Busy
<1> QED BY <1>2, <1>3, <1>4 DEF RunnerInv, LoopOrStop, SingleFlight, RunnerKnows

\* A run that goes on is busy before and after.
LEMMA GoingOnKeeps ==
  ASSUME RunnerInv, NEW s \in Slots, Busy(s), NEW r \in Runs, r # Idle,
         run' = [run EXCEPT ![s] = r], UNCHANGED <<running, rerunRequested>>
  PROVE  RunnerInv'
<1>1. \A t \in Slots : Busy(t)' <=> Busy(t)
  BY DEF RunnerInv, Busy
<1>2. run' \in [Slots -> Runs]
  BY DEF RunnerInv
<1> QED BY <1>1, <1>2 DEF RunnerInv, SingleFlight, RunnerKnows

LEMMA RunnerStep == Inv /\ [Next]_vars => RunnerInv'
<1> SUFFICES ASSUME Inv, [Next]_vars PROVE RunnerInv'
  OBVIOUS
<1>0. RunnerInv
  BY DEF Inv, TypeOK, RunnerInv, Runs
<1>1. CASE UNCHANGED <<running, rerunRequested, run>>
  BY <1>0, <1>1 DEF RunnerInv, SingleFlight, RunnerKnows, Busy
<1>2. CASE FireSyncTimer
  <2>1. CASE running
    BY <1>0, <1>2, <2>1
    DEF FireSyncTimer, RunnerInv, SingleFlight, RunnerKnows, Busy
  <2>2. CASE ~running
    BY <1>0, <1>2, <2>2, ExecuteKeeps DEF FireSyncTimer
  <2> QED BY <2>1, <2>2
<1>3. ASSUME NEW s \in Slots, NEW f \in SyncFiles, NEW v \in {source[f], Blank},
             ReadFile(s, f, v)
      PROVE  RunnerInv'
  <2>1. v \in 0 .. Unread
    BY SyncAssumption DEF Inv, TypeOK, Versions, Blank, Unread
  <2>2. run[s] \in Runs /\ run[s].stage = "reading"
    BY <1>0, <1>3 DEF ReadFile, RunnerInv
  <2> DEFINE r == [run[s] EXCEPT !.seen[f] = v]
  <2>3. r \in Runs /\ r.stage = "reading" /\ Busy(s)
    BY <2>1, <2>2, Stages DEF Busy
  <2>4. r # Idle
    BY <2>3, Stages
  <2>5. run' = [run EXCEPT ![s] = r] /\ UNCHANGED <<running, rerunRequested>>
    BY <1>3 DEF ReadFile
  <2> HIDE DEF r
  <2> QED BY <1>0, <2>3, <2>4, <2>5, GoingOnKeeps
<1>4. ASSUME NEW s \in Slots, NEW ok \in BOOLEAN, WriteHarness(s, ok)
      PROVE  RunnerInv'
  <2>1. Busy(s)
    BY <1>0, <1>4, Stages DEF WriteHarness, RunnerInv, Busy
  <2>2. [stage |-> "written"] \in Runs
    BY DEF Runs
  <2>3. /\ run' = [run EXCEPT ![s] = [stage |-> "written"]]
        /\ UNCHANGED <<running, rerunRequested>>
    BY <1>4 DEF WriteHarness
  <2> QED BY <1>0, <2>1, <2>2, <2>3, Stages, GoingOnKeeps
<1>5. ASSUME NEW s \in Slots, EndRun(s) PROVE RunnerInv'
  <2>1. Busy(s)
    BY <1>0, <1>5, Stages DEF EndRun, RunnerInv, Busy
  <2> QED BY <1>0, <1>5, <2>1, LoopKeeps DEF EndRun
<1>6. ASSUME NEW s \in Slots, RunThrows(s) PROVE RunnerInv'
  <2>1. Busy(s)
    BY <1>6, Stages DEF RunThrows, Busy
  <2> QED BY <1>0, <1>6, <2>1, LoopKeeps DEF RunThrows
<1>7. CASE Crash
  BY <1>7 DEF Crash, RunnerInv, Runs, SingleFlight, RunnerKnows, Busy
<1>8. CASE \/ \E f \in Files : Edit(f) \/ NoticeChange(f)
           \/ FireCommitTimer \/ GitUntrack \/ GitAdd \/ GitStatus \/ GitCommit
           \/ GitFails \/ AutoCommitThrows \/ UNCHANGED vars
  <2>1. UNCHANGED <<running, rerunRequested, run>>
    BY <1>8 DEF Edit, NoticeChange, FireCommitTimer, GitUntrack, GitAdd,
                GitStatus, GitCommit, GitStep, GitFails, AutoCommitThrows,
                sync, vars
  <2> QED BY <1>1, <2>1
<1> QED BY <1>2, <1>3, <1>4, <1>5, <1>6, <1>7, <1>8 DEF Next

\* Everything else that is typed.
RestOK ==
  /\ source \in [Files -> Versions]
  /\ notices \subseteq Files
  /\ syncTimer \in BOOLEAN
  /\ harness \in [SyncFiles -> 0 .. Blank]
  /\ incomplete \in BOOLEAN
  /\ commitTimer \in BOOLEAN /\ commitPending \in BOOLEAN
  /\ git \in {"none", "untrack", "add", "status", "commit"}
  /\ index \in [Files -> Versions] /\ committed \in [Files -> Versions]
  /\ lapsed \in BOOLEAN
  /\ edits \in 0 .. MaxEdits /\ faults \in 0 .. MaxFaults
  /\ EditsCounted

LEMMA FaultCounted ==
  ASSUME faults \in 0 .. MaxFaults, CountFault
  PROVE  faults' \in 0 .. MaxFaults
  BY SyncAssumption DEF CountFault

LEMMA RestStep == Inv /\ [Next]_vars => RestOK'
<1> SUFFICES ASSUME Inv, [Next]_vars PROVE RestOK'
  OBVIOUS
<1>0. RestOK
  BY DEF Inv, TypeOK, RestOK
<1> USE DEF RestOK, EditsCounted
<1>1. ASSUME NEW f \in Files, Edit(f) PROVE RestOK'
  <2>1. source[f] \in Nat /\ source[f] + 1 <= edits + 1 /\ edits + 1 <= MaxEdits
    BY <1>0, <1>1, SyncAssumption DEF Edit, Versions
  <2>2. source' \in [Files -> Versions] /\ EditsCounted'
    BY <1>0, <1>1, <2>1, SyncAssumption DEF Edit, Versions
  <2> QED BY <1>0, <1>1, <2>1, <2>2, SyncAssumption
          DEF Edit, sync, autocommit
<1>2. ASSUME NEW f \in Files, NoticeChange(f) PROVE RestOK'
  BY <1>0, <1>2 DEF NoticeChange
<1>3. CASE FireSyncTimer
  BY <1>0, <1>3 DEF FireSyncTimer, autocommit
<1>4. ASSUME NEW s \in Slots, NEW f \in SyncFiles, NEW v \in {source[f], Blank},
             ReadFile(s, f, v)
      PROVE  RestOK'
  <2>1. faults' \in 0 .. MaxFaults
    BY <1>0, <1>4, FaultCounted DEF ReadFile
  <2> QED BY <1>0, <1>4, <2>1 DEF ReadFile, autocommit
<1>5. ASSUME NEW s \in Slots, NEW ok \in BOOLEAN, WriteHarness(s, ok)
      PROVE  RestOK'
  <2>1. faults' \in 0 .. MaxFaults
    BY <1>0, <1>5, FaultCounted DEF WriteHarness
  <2>2. incomplete' \in BOOLEAN
    BY <1>5 DEF WriteHarness
  <2>3. harness' \in [SyncFiles -> 0 .. Blank]
    <3>1. run[s].seen \in [SyncFiles -> 0 .. Unread]
      BY <1>5, Stages DEF WriteHarness, Inv, TypeOK, Runs
    <3>2. \A f \in SyncFiles : run[s].seen[f] # Unread
      BY <1>5 DEF WriteHarness
    <3>3. run[s].seen \in [SyncFiles -> 0 .. Blank]
      BY <3>1, <3>2, SyncAssumption DEF Blank, Unread
    <3> QED BY <1>0, <1>5, <3>3 DEF WriteHarness
  <2> QED BY <1>0, <1>5, <2>1, <2>2, <2>3 DEF WriteHarness, autocommit
<1>6. ASSUME NEW s \in Slots, EndRun(s) PROVE RestOK'
  BY <1>0, <1>6 DEF EndRun, autocommit
<1>7. ASSUME NEW s \in Slots, RunThrows(s) PROVE RestOK'
  <2>1. faults' \in 0 .. MaxFaults
    BY <1>0, <1>7, FaultCounted DEF RunThrows
  <2> QED BY <1>0, <1>7, <2>1 DEF RunThrows, autocommit
<1>8. CASE FireCommitTimer
  BY <1>0, <1>8 DEF FireCommitTimer, sync
<1>9. CASE GitUntrack \/ GitAdd \/ GitStatus \/ GitCommit
  BY <1>0, <1>9 DEF GitUntrack, GitAdd, GitStatus, GitCommit, GitStep, sync
<1>10. CASE GitFails \/ AutoCommitThrows
  <2>1. faults' \in 0 .. MaxFaults
    BY <1>0, <1>10, FaultCounted DEF GitFails, AutoCommitThrows
  <2> QED BY <1>0, <1>10, <2>1 DEF GitFails, AutoCommitThrows, sync
<1>11. CASE Crash
  <2>1. faults' \in 0 .. MaxFaults
    BY <1>0, <1>11, FaultCounted DEF Crash
  <2> QED BY <1>0, <1>11, <2>1 DEF Crash
<1>12. CASE UNCHANGED vars
  BY <1>0, <1>12 DEF vars, sync, autocommit
<1> QED
  BY <1>1, <1>2, <1>3, <1>4, <1>5, <1>6, <1>7, <1>8, <1>9, <1>10, <1>11, <1>12
  DEF Next

LEMMA Inductive == Inv /\ [Next]_vars => Inv'
<1>1. RunnerInv' /\ RestOK' => Inv'
  BY DEF RunnerInv, RestOK, Inv, TypeOK, Runs
<1> QED BY <1>1, RunnerStep, RestStep

\* Every variable keeps its type, the counters their bounds.
THEOREM WellTyped == Spec => []TypeOK
<1>1. Inv => TypeOK
  BY DEF Inv
<1> QED BY StartsRight, Inductive, <1>1, PTL DEF Spec

\* Two runs never write the harness files side by side, whenever the debounce
\* ends and whether runs end, throw or are lost with the daemon; and the runner
\* counts as running exactly while a run is in flight, so that no request waits
\* for a run that has ended.
THEOREM OneRunAtATime ==
  Spec => [](SingleFlight /\ (running <=> \E s \in Slots : Busy(s)))
<1>1. Inv => SingleFlight /\ (running <=> \E s \in Slots : Busy(s))
  BY DEF Inv, RunnerKnows
<1> QED BY StartsRight, Inductive, <1>1, PTL DEF Spec

(***************************************************************************)
(* No edit is forgotten                                                     *)
(*                                                                          *)
(* What the liveness properties rest on: while something is out of date     *)
(* there is something on its way that will bring it up to date.             *)
(***************************************************************************)

\* An edit of the file will lead to a run that begins after it.
Asked(f) == f \in notices \/ syncTimer \/ rerunRequested

Reading == \E s \in Slots : run[s].stage = "reading"

\* Of what a run has read, only that is old for which another run is due.
ReadInMind ==
  \A f \in SyncFiles, s \in Slots :
    run[s].stage = "reading" =>
      run[s].seen[f] \in {Unread, Blank, source[f]} \/ Asked(f)

HarnessInMind ==
  \A f \in SyncFiles :
    incomplete \/ harness[f] = source[f] \/ Asked(f) \/ Reading

SyncInv == Inv /\ ReadInMind /\ HarnessInMind /\ (rerunRequested => running)

\* A harness file is composed from what the workspace holds, or the last run
\* failed, or the edit's event, the debounce or the runner has it in mind.
SyncInMind ==
  \A f \in SyncFiles :
    \/ incomplete \/ harness[f] = source[f]
    \/ f \in notices \/ syncTimer \/ running

LEMMA ReadingRuns ==
  ASSUME Inv, NEW s \in Slots, run[s].stage = "reading" PROVE running
<1>1. run[s] \in Runs
  BY DEF Inv, TypeOK, Runs
<1>. QED BY <1>1, Stages DEF Inv, RunnerKnows, Busy

LEMMA BegunReads ==
  Begun.stage = "reading" /\ Idle.stage # "reading"
    /\ \A f \in SyncFiles : Begun.seen[f] = Unread
  BY DEF Begun, Idle

LEMMA SyncInit == Init => SyncInv
<1> SUFFICES ASSUME Init PROVE SyncInv
  OBVIOUS
<1>1. \A s \in Slots : run[s].stage # "reading"
  BY BegunReads DEF Init
<1>2. \A f \in SyncFiles : harness[f] = source[f]
  BY SyncAssumption DEF Init
<1>. QED BY <1>1, <1>2, StartsRight
         DEF Init, SyncInv, ReadInMind, HarnessInMind

\* A run that begins has everything to read yet.
LEMMA BeginReads ==
  ASSUME SyncInv, NEW s \in Slots, run' = [run EXCEPT ![s] = Begun],
         \A t \in Slots \ {s} : ~Busy(t)
  PROVE  ReadInMind' /\ HarnessInMind'
<1>1. run'[s] = Begun
  BY DEF SyncInv, Inv, TypeOK
<1>2. \A t \in Slots \ {s} : run'[t].stage # "reading"
  BY BegunReads DEF SyncInv, Inv, TypeOK, Busy
<1>. QED BY <1>1, <1>2, BegunReads DEF ReadInMind, HarnessInMind, Reading

\* The runner goes round or is idle: what it was asked for is done next.
LEMMA LoopInMind ==
  ASSUME SyncInv, NEW s \in Slots, Busy(s), LoopOrStop(s),
         UNCHANGED <<source, notices, syncTimer, harness>>,
         \/ run[s].stage = "written" /\ incomplete' = incomplete
         \/ incomplete'
  PROVE  ReadInMind' /\ HarnessInMind' /\ (rerunRequested' => running')
<1>1. \A t \in Slots \ {s} : ~Busy(t)
  BY DEF SyncInv, Inv, SingleFlight
<1>2. rerunRequested' = FALSE /\ running' = rerunRequested
  BY DEF LoopOrStop
<1>3. CASE rerunRequested
  <2>1. run' = [run EXCEPT ![s] = Begun]
    BY <1>3 DEF LoopOrStop
  <2>. QED BY <1>1, <1>2, <2>1, BeginReads
<1>4. CASE ~rerunRequested
  <2>1. run' = [run EXCEPT ![s] = Idle]
    BY <1>4 DEF LoopOrStop
  <2>2. \A t \in Slots : run'[t].stage # "reading"
    BY <1>1, <2>1, BegunReads DEF SyncInv, Inv, TypeOK, Busy
  <2>3. ReadInMind'
    BY <2>2 DEF ReadInMind
  <2>4. HarnessInMind'
    <3>1. CASE incomplete'
      BY <3>1 DEF HarnessInMind
    <3>2. CASE run[s].stage = "written" /\ incomplete' = incomplete
      <4>1. ~Reading
        BY <1>1, <3>2, BegunReads DEF Reading, Busy
      <4>. QED BY <1>4, <3>2, <4>1 DEF SyncInv, HarnessInMind, Asked
    <3>. QED BY <3>1, <3>2
  <2>. QED BY <1>2, <2>3, <2>4
<1>. QED BY <1>3, <1>4 DEF SyncInv, Inv, TypeOK

LEMMA SyncStep == SyncInv /\ [Next]_vars => SyncInv'
<1> SUFFICES ASSUME SyncInv, [Next]_vars
             PROVE  ReadInMind' /\ HarnessInMind' /\ (rerunRequested' => running')
  BY Inductive DEF SyncInv
<1> USE DEF SyncInv
<1>1. ASSUME NEW f \in Files, Edit(f)
      PROVE  ReadInMind' /\ HarnessInMind' /\ (rerunRequested' => running')
  <2>1. /\ notices' = notices \cup {f}
        /\ \A g \in Files : g = f \/ source'[g] = source[g]
        /\ UNCHANGED <<syncTimer, running, rerunRequested, run, harness, incomplete>>
    BY <1>1 DEF Edit, sync, Inv, TypeOK
  <2>2. \A g \in SyncFiles : Asked(g)' \/ (source'[g] = source[g] /\ ~Asked(g))
    BY <2>1, SyncAssumption DEF Asked
  <2>. QED BY <2>1, <2>2 DEF ReadInMind, HarnessInMind, Reading
<1>2. ASSUME NEW f \in Files, NoticeChange(f)
      PROVE  ReadInMind' /\ HarnessInMind' /\ (rerunRequested' => running')
  <2>1. \A g \in SyncFiles : Asked(g) => Asked(g)'
    BY <1>2 DEF NoticeChange, Asked
  <2>2. UNCHANGED <<source, running, rerunRequested, run, harness, incomplete>>
    BY <1>2 DEF NoticeChange
  <2>. QED BY <2>1, <2>2 DEF ReadInMind, HarnessInMind, Reading
<1>3. CASE FireSyncTimer
  <2>1. UNCHANGED <<source, notices, harness, incomplete>>
    BY <1>3 DEF FireSyncTimer
  <2>2. CASE running
    <3>1. rerunRequested' = TRUE /\ running' = running
      BY <1>3, <2>2 DEF FireSyncTimer
    <3>. QED BY <2>2, <3>1 DEF ReadInMind, HarnessInMind, Asked
  <2>3. CASE ~running
    <3>1. PICK s \in Slots : /\ run' = [run EXCEPT ![s] = Begun]
                             /\ running' = TRUE
      BY <1>3, <2>3 DEF FireSyncTimer, Execute
    <3>2. \A t \in Slots \ {s} : ~Busy(t)
      BY <2>3 DEF Inv, RunnerKnows
    <3>. QED BY <3>1, <3>2, BeginReads
  <2>. QED BY <2>2, <2>3
<1>4. ASSUME NEW s \in Slots, NEW f \in SyncFiles, NEW v \in {source[f], Blank},
             ReadFile(s, f, v)
      PROVE  ReadInMind' /\ HarnessInMind' /\ (rerunRequested' => running')
  <2>1. run[s] \in Runs /\ run[s].stage = "reading"
    BY <1>4 DEF ReadFile, Inv, TypeOK, Runs
  <2>2. /\ run[s] \in [stage : {"reading"}, seen : [SyncFiles -> 0 .. Unread]]
    BY <2>1 DEF Runs, Idle
  <2>3. /\ run' = [run EXCEPT ![s] = [run[s] EXCEPT !.seen[f] = v]]
        /\ UNCHANGED <<source, notices, syncTimer, running, rerunRequested,
                       harness, incomplete>>
    BY <1>4 DEF ReadFile
  <2>4. /\ run'[s].stage = "reading" /\ run'[s].seen[f] = v
        /\ \A g \in SyncFiles \ {f} : run'[s].seen[g] = run[s].seen[g]
        /\ \A t \in Slots \ {s} : run'[t] = run[t]
    BY <2>2, <2>3 DEF Inv, TypeOK
  <2>5. ReadInMind'
    <3> SUFFICES ASSUME NEW g \in SyncFiles, NEW t \in Slots,
                        run'[t].stage = "reading"
                 PROVE  run'[t].seen[g] \in {Unread, Blank, source[g]} \/ Asked(g)
      BY <2>3 DEF ReadInMind, Asked, Unread, Blank
    <3>1. CASE t = s /\ g = f
      BY <2>4, <3>1
    <3>2. CASE t = s /\ g # f
      BY <2>1, <2>4, <3>2 DEF ReadInMind
    <3>3. CASE t # s
      BY <2>4, <3>3 DEF ReadInMind
    <3>. QED BY <3>1, <3>2, <3>3
  <2>. QED BY <2>3, <2>4, <2>5 DEF HarnessInMind, Reading
<1>5. ASSUME NEW s \in Slots, NEW ok \in BOOLEAN, WriteHarness(s, ok)
      PROVE  ReadInMind' /\ HarnessInMind' /\ (rerunRequested' => running')
  <2>1. /\ run[s].stage = "reading"
        /\ \A f \in SyncFiles : run[s].seen[f] # Unread
        /\ run' = [run EXCEPT ![s] = [stage |-> "written"]]
        /\ UNCHANGED <<source, notices, syncTimer, running, rerunRequested>>
    BY <1>5 DEF WriteHarness
  <2>2. \A t \in Slots : run'[t].stage = "reading" =>
                           run'[t] = run[t]
    BY <2>1 DEF Inv, TypeOK
  <2>3. ReadInMind'
    BY <2>1, <2>2 DEF ReadInMind, Asked, Unread, Blank
  <2>4. HarnessInMind'
    <3>1. CASE ~ok
      BY <1>5, <3>1 DEF WriteHarness, HarnessInMind
    <3>2. CASE ok
      <4>1. /\ harness' = run[s].seen
            /\ incomplete' = (\E f \in SyncFiles : run[s].seen[f] = Blank)
        BY <1>5, <3>2 DEF WriteHarness
      <4>2. \A f \in SyncFiles :
              run[s].seen[f] \in {Unread, Blank, source[f]} \/ Asked(f)
        BY <2>1 DEF ReadInMind
      <4>. QED BY <2>1, <4>1, <4>2 DEF HarnessInMind, Asked
    <3>. QED BY <3>1, <3>2
  <2>. QED BY <2>1, <2>3, <2>4
<1>6. ASSUME NEW s \in Slots, EndRun(s)
      PROVE  ReadInMind' /\ HarnessInMind' /\ (rerunRequested' => running')
  <2>1. Busy(s)
    BY <1>6, Stages DEF EndRun, Inv, TypeOK, Runs, Busy
  <2>. QED BY <1>6, <2>1, LoopInMind DEF EndRun
<1>7. ASSUME NEW s \in Slots, RunThrows(s)
      PROVE  ReadInMind' /\ HarnessInMind' /\ (rerunRequested' => running')
  <2>1. Busy(s)
    BY <1>7, Stages DEF RunThrows, Busy
  <2>. QED BY <1>7, <2>1, LoopInMind DEF RunThrows
<1>8. CASE Crash
  <2>1. /\ run' = [s \in Slots |-> Idle] /\ incomplete' = TRUE
        /\ rerunRequested' = FALSE
    BY <1>8 DEF Crash
  <2>. QED BY <2>1, BegunReads DEF ReadInMind, HarnessInMind
<1>9. CASE \/ FireCommitTimer \/ GitUntrack \/ GitAdd \/ GitStatus
           \/ GitCommit \/ GitFails \/ AutoCommitThrows \/ UNCHANGED vars
  <2>1. UNCHANGED <<source, notices, sync>>
    BY <1>9 DEF FireCommitTimer, GitUntrack, GitAdd, GitStatus, GitCommit,
                GitStep, GitFails, AutoCommitThrows, vars
  <2>. QED BY <2>1 DEF sync, ReadInMind, HarnessInMind, Reading, Asked,
                       Unread, Blank
<1>. QED BY <1>1, <1>2, <1>3, <1>4, <1>5, <1>6, <1>7, <1>8, <1>9 DEF Next

\* Whenever files are edited while others are read, a rerun is asked for and
\* runs end: no harness file stays behind the workspace with nothing on its way.
THEOREM NoEditForgotten == Spec => []SyncInMind
<1>1. SyncInv => SyncInMind
  BY ReadingRuns DEF SyncInv, HarnessInMind, SyncInMind, Asked, Reading
<1>. QED BY SyncInit, SyncStep, <1>1, PTL DEF Spec

IndexInMind ==
  \A f \in Files :
    \/ index[f] = source[f] \/ lapsed
    \/ f \in notices \/ commitTimer \/ git \in {"untrack", "add"}

CommitInv ==
  Inv /\ IndexInMind /\ (index = committed \/ lapsed \/ git # "none")

\* The workspace is committed, or a commit was dropped or failed after the last
\* add, or an event, the debounce or a child process has the change in mind.
CommitInMind ==
  committed = source \/ lapsed \/ notices # {} \/ commitTimer \/ git # "none"

LEMMA CommitStep == CommitInv /\ [Next]_vars => CommitInv'
<1> SUFFICES ASSUME CommitInv, [Next]_vars
             PROVE  IndexInMind' /\ (index' = committed' \/ lapsed' \/ git' # "none")
  BY Inductive DEF CommitInv
<1> USE DEF CommitInv
<1>1. ASSUME NEW f \in Files, Edit(f)
      PROVE  IndexInMind' /\ (index' = committed' \/ lapsed' \/ git' # "none")
  <2>1. /\ notices' = notices \cup {f}
        /\ \A g \in Files : g = f \/ source'[g] = source[g]
        /\ UNCHANGED <<index, committed, lapsed, commitTimer, git>>
    BY <1>1 DEF Edit, autocommit, Inv, TypeOK
  <2>. QED BY <2>1 DEF IndexInMind
<1>2. ASSUME NEW f \in Files, NoticeChange(f)
      PROVE  IndexInMind' /\ (index' = committed' \/ lapsed' \/ git' # "none")
  BY <1>2 DEF NoticeChange, IndexInMind
<1>3. CASE FireCommitTimer
  BY <1>3 DEF FireCommitTimer, IndexInMind, sync
<1>4. CASE GitUntrack
  BY <1>4 DEF GitUntrack, GitStep, IndexInMind
<1>5. CASE GitAdd
  BY <1>5 DEF GitAdd, GitStep, IndexInMind
<1>6. CASE GitStatus
  BY <1>6 DEF GitStatus, GitStep, IndexInMind
<1>7. CASE GitCommit
  BY <1>7 DEF GitCommit, GitStep, IndexInMind
<1>8. CASE GitFails \/ AutoCommitThrows \/ Crash
  BY <1>8 DEF GitFails, AutoCommitThrows, Crash, IndexInMind
<1>9. CASE \/ FireSyncTimer
           \/ \E s \in Slots :
                \/ \E f \in SyncFiles : \E v \in {source[f], Blank} :
                     ReadFile(s, f, v)
                \/ \E ok \in BOOLEAN : WriteHarness(s, ok)
                \/ EndRun(s) \/ RunThrows(s)
           \/ UNCHANGED vars
  <2>1. UNCHANGED <<source, notices, autocommit>>
    BY <1>9 DEF FireSyncTimer, ReadFile, WriteHarness, EndRun, RunThrows, vars
  <2>. QED BY <2>1 DEF autocommit, IndexInMind
<1>. QED BY <1>1, <1>2, <1>3, <1>4, <1>5, <1>6, <1>7, <1>8, <1>9 DEF Next

\* No change stays uncommitted with nothing on its way, but where a commit was
\* dropped for one in flight or failed.
THEOREM NoChangeForgotten == Spec => []CommitInMind
<1>1. Init => CommitInv
  BY StartsRight DEF Init, CommitInv, IndexInMind
<1>2. CommitInv => CommitInMind
  <2> SUFFICES ASSUME CommitInv, ~lapsed, notices = {}, ~commitTimer, git = "none"
               PROVE  committed = source
    BY DEF CommitInMind
  <2>1. index = committed /\ \A f \in Files : index[f] = source[f]
    BY DEF CommitInv, IndexInMind
  <2>2. index \in [Files -> Versions] /\ source \in [Files -> Versions]
    BY DEF CommitInv, Inv, TypeOK
  <2>. QED BY <2>1, <2>2
<1>. QED BY <1>1, <1>2, CommitStep, PTL DEF Spec
=============================================================================
