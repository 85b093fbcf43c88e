---------------------------- MODULE SchedulerProofs ----------------------------
(***************************************************************************)
(* For any number of tasks and any MAX_CONCURRENT: types, that no task ever *)
(* has two running rows, and that the poll never starts more processes than *)
(* there is room for, nor any out of turn, however polls, requests, lost    *)
(* results and restarts follow each other.                                  *)
(***************************************************************************)
EXTENDS Scheduler, FiniteSetTheorems, TLAPS

\* next_run_at orders the due tasks.
DueOrder ==
  /\ \A t \in due : <<t, t>> \notin before
  /\ \A t, u \in due : t = u \/ <<t, u>> \in before \/ <<u, t>> \in before
  /\ \A t, u, w \in due : <<t, u>> \in before /\ <<u, w>> \in before
                            => <<t, w>> \in before

Typed == TypeOK /\ DueOrder

(***************************************************************************)
(* Types and the order of the due tasks                                     *)
(***************************************************************************)

LEMMA ForgetOrder ==
  ASSUME Typed, NEW ts, Forget(ts)
  PROVE  due' \subseteq due /\ before' \subseteq due' \X due' /\ DueOrder'
BY DEF Typed, TypeOK, DueOrder, Forget

LEMMA TypedRequest ==
  ASSUME Typed, NEW t \in Tasks,
         \/ CreateTask(t) \/ BecomeDue(t) \/ DeleteTask(t) \/ RunByHand(t)
         \/ \E status \in {"enabled", "disabled"} : PatchSchedule(t, status)
         \/ \E known \in BOOLEAN : PatchHarness(t, known)
  PROVE  Typed'
<1>. USE DEF Typed
<1>1. CASE CreateTask(t) \/ RunByHand(t)
  BY <1>1 DEF CreateTask, RunByHand, TypeOK, DueOrder, runs
<1>2. CASE BecomeDue(t)
  <2>1. /\ due' = due \cup {t} /\ before' = before \cup (due \X {t})
        /\ t \notin due
        /\ UNCHANGED <<task, harness, polled, manual, stuck, deaf, survived>>
    BY <1>2 DEF BecomeDue, runs
  <2>2. before \subseteq due \X due
    BY DEF TypeOK
  <2>3. \A u, w : <<u, w>> \in before' <=>
                    <<u, w>> \in before \/ (u \in due /\ w = t)
    BY <2>1
  <2>4. \A u, w : <<u, w>> \in before => u \in due /\ w \in due
    BY <2>2
  <2>5. DueOrder'
    BY <2>1, <2>3, <2>4 DEF DueOrder
  <2>6. TypeOK'
    BY <2>1, <2>2 DEF TypeOK
  <2>. QED BY <2>5, <2>6
<1>3. CASE DeleteTask(t)
  <2>1. due' \subseteq due /\ before' \subseteq due' \X due' /\ DueOrder'
    BY <1>3, ForgetOrder DEF DeleteTask
  <2>2. /\ task' = [task EXCEPT ![t] = "deleted"]
        /\ UNCHANGED <<harness, polled, manual, stuck, deaf, survived>>
    BY <1>3 DEF DeleteTask, runs
  <2>. QED BY <2>1, <2>2 DEF TypeOK
<1>4. ASSUME NEW status \in {"enabled", "disabled"}, PatchSchedule(t, status)
      PROVE  Typed'
  <2>1. due' \subseteq due /\ before' \subseteq due' \X due' /\ DueOrder'
    BY <1>4, ForgetOrder DEF PatchSchedule
  <2>2. /\ task' = [task EXCEPT ![t] = status]
        /\ UNCHANGED <<harness, polled, manual, stuck, deaf, survived>>
    BY <1>4 DEF PatchSchedule, runs
  <2>. QED BY <2>1, <2>2 DEF TypeOK
<1>5. ASSUME NEW known \in BOOLEAN, PatchHarness(t, known) PROVE Typed'
  BY <1>5 DEF PatchHarness, TypeOK, DueOrder, runs
<1>. QED BY <1>1, <1>2, <1>3, <1>4, <1>5

LEMMA TypedResult ==
  ASSUME Typed, NEW t \in Tasks,
         \/ FinishPolled(t) \/ FinishManual(t)
         \/ LosePolled(t) \/ LoseManual(t)
         \/ IgnoreSignal(t) \/ SurvivorEnds(t)
  PROVE  Typed'
<1>. USE DEF FinishPolled, FinishManual, LosePolled, LoseManual, IgnoreSignal,
             SurvivorEnds, runs
<1>1. UNCHANGED <<task, harness, due, before>>
  OBVIOUS
<1>2. polled' \in [Tasks -> Nat] /\ manual' \in [Tasks -> Nat]
  BY DEF Typed, TypeOK
<1>3. stuck' \in [Tasks -> Nat] /\ survived' \in [Tasks -> Nat]
  BY DEF Typed, TypeOK
<1>4. deaf' \subseteq Tasks
  BY DEF Typed, TypeOK
<1>. QED BY <1>1, <1>2, <1>3, <1>4 DEF Typed, TypeOK, DueOrder

LEMMA TypedPoll ==
  ASSUME Typed, NEW ts, StartAll(ts)
  PROVE  Typed'
<1>1. due' \subseteq due /\ before' \subseteq due' \X due' /\ DueOrder'
  BY ForgetOrder DEF StartAll
<1>2. /\ polled' = [t \in Tasks |-> polled[t] + (IF t \in ts THEN 1 ELSE 0)]
      /\ UNCHANGED <<task, harness, manual, stuck, deaf, survived>>
  BY DEF StartAll
<1>3. polled' \in [Tasks -> Nat]
  BY <1>2 DEF Typed, TypeOK
<1>. QED BY <1>1, <1>2, <1>3 DEF Typed, TypeOK

LEMMA TypedStep == Typed /\ [Next]_vars => Typed'
<1> SUFFICES ASSUME Typed, [Next]_vars PROVE Typed'
  OBVIOUS
<1>1. CASE Poll
  BY <1>1, TypedPoll DEF Poll
<1>2. ASSUME NEW t \in Tasks,
             \/ CreateTask(t) \/ BecomeDue(t) \/ DeleteTask(t) \/ RunByHand(t)
             \/ \E status \in {"enabled", "disabled"} : PatchSchedule(t, status)
             \/ \E known \in BOOLEAN : PatchHarness(t, known)
      PROVE  Typed'
  BY <1>2, TypedRequest
<1>3. ASSUME NEW t \in Tasks,
             \/ FinishPolled(t) \/ FinishManual(t)
             \/ LosePolled(t) \/ LoseManual(t)
             \/ IgnoreSignal(t) \/ SurvivorEnds(t)
      PROVE  Typed'
  BY <1>3, TypedResult
<1>4. CASE UNCHANGED vars
  BY <1>4 DEF vars, runs, Typed, TypeOK, DueOrder
<1>5. CASE Restart
  BY <1>5 DEF Restart, NoneRunning, Typed, TypeOK, DueOrder
<1>. QED BY <1>1, <1>2, <1>3, <1>4, <1>5 DEF Next

LEMMA TypedInit == Init => Typed
BY DEF Init, NoneRunning, Typed, TypeOK, DueOrder

\* The variables of Scheduler keep their types.
THEOREM TypeCorrect == Spec => []TypeOK
<1>1. Typed => TypeOK
  BY DEF Typed
<1>. QED BY TypedInit, TypedStep, <1>1, PTL DEF Spec

(***************************************************************************)
(* At most one running row of a task                                        *)
(***************************************************************************)

Inv == Typed /\ NoDoubleExecution

\* A poll starts only tasks that have no running row.
LEMMA SelectedAreIdle ==
  ASSUME NEW n, NEW t \in SelectDueTasks(n)
  PROVE  RunningRows(t) = 0
BY DEF SelectDueTasks, Selectable

LEMMA PollStep == Inv /\ Poll => NoDoubleExecution'
<1> SUFFICES ASSUME Inv, Poll PROVE NoDoubleExecution'
  OBVIOUS
<1> USE DEF Inv, Typed, TypeOK
<1> DEFINE ts == SelectDueTasks(MaxConcurrent - Active)
<1>1. /\ polled' = [t \in Tasks |-> polled[t] + (IF t \in ts THEN 1 ELSE 0)]
      /\ UNCHANGED <<manual, stuck>>
  BY DEF Poll, StartAll
<1>2. \A t \in ts : RunningRows(t) = 0
  BY SelectedAreIdle
<1> HIDE DEF ts
<1>3. ASSUME NEW t \in Tasks PROVE RunningRows(t)' <= 1
  <2>1. CASE t \in ts
    BY <1>1, <1>2, <2>1 DEF RunningRows
  <2>2. CASE t \notin ts
    BY <1>1, <2>2 DEF RunningRows, NoDoubleExecution
  <2>. QED BY <2>1, <2>2
<1>. QED BY <1>3 DEF NoDoubleExecution

LEMMA RequestStep ==
  ASSUME Inv, NEW t \in Tasks,
         \/ CreateTask(t) \/ BecomeDue(t) \/ DeleteTask(t) \/ RunByHand(t)
         \/ \E status \in {"enabled", "disabled"} : PatchSchedule(t, status)
         \/ \E known \in BOOLEAN : PatchHarness(t, known)
  PROVE  NoDoubleExecution'
<1> USE DEF Inv, Typed, TypeOK, NoDoubleExecution, RunningRows
<1>1. CASE \/ CreateTask(t) \/ BecomeDue(t)
           \/ \E status \in {"enabled", "disabled"} : PatchSchedule(t, status)
           \/ \E known \in BOOLEAN : PatchHarness(t, known)
  BY <1>1 DEF CreateTask, BecomeDue, PatchSchedule, PatchHarness, runs
<1>2. CASE DeleteTask(t)
  BY <1>2 DEF DeleteTask, runs
<1>3. CASE RunByHand(t)
  BY <1>3 DEF RunByHand
<1>. QED BY <1>1, <1>2, <1>3

LEMMA ResultStep ==
  ASSUME Inv, NEW t \in Tasks,
         \/ FinishPolled(t) \/ FinishManual(t)
         \/ LosePolled(t) \/ LoseManual(t)
         \/ IgnoreSignal(t) \/ SurvivorEnds(t)
  PROVE  NoDoubleExecution'
<1> USE DEF Inv, Typed, TypeOK, NoDoubleExecution, RunningRows
<1>1. CASE FinishPolled(t) \/ FinishManual(t)
  BY <1>1 DEF FinishPolled, FinishManual
<1>2. CASE LosePolled(t)
  <2>1. \A u \in Tasks \ {t} : polled'[u] = polled[u] /\ stuck'[u] = stuck[u]
    BY <1>2 DEF LosePolled
  <2>2. /\ polled'[t] = polled[t] - 1 /\ stuck'[t] = stuck[t] + 1
        /\ manual' = manual /\ polled[t] > 0
    BY <1>2 DEF LosePolled
  <2>. QED BY <2>1, <2>2
<1>3. CASE LoseManual(t)
  <2>1. \A u \in Tasks \ {t} : manual'[u] = manual[u] /\ stuck'[u] = stuck[u]
    BY <1>3 DEF LoseManual
  <2>2. /\ manual'[t] = manual[t] - 1 /\ stuck'[t] = stuck[t] + 1
        /\ polled' = polled /\ manual[t] > 0
    BY <1>3 DEF LoseManual
  <2>. QED BY <2>1, <2>2
<1>4. CASE IgnoreSignal(t) \/ SurvivorEnds(t)
  BY <1>4 DEF IgnoreSignal, SurvivorEnds, runs
<1>. QED BY <1>1, <1>2, <1>3, <1>4

LEMMA InvStep == Inv /\ [Next]_vars => Inv'
<1> SUFFICES ASSUME Inv, [Next]_vars PROVE NoDoubleExecution'
  BY TypedStep DEF Inv
<1>1. CASE Poll
  BY <1>1, PollStep
<1>2. ASSUME NEW t \in Tasks,
             \/ CreateTask(t) \/ BecomeDue(t) \/ DeleteTask(t) \/ RunByHand(t)
             \/ \E status \in {"enabled", "disabled"} : PatchSchedule(t, status)
             \/ \E known \in BOOLEAN : PatchHarness(t, known)
      PROVE  NoDoubleExecution'
  BY <1>2, RequestStep
<1>3. ASSUME NEW t \in Tasks,
             \/ FinishPolled(t) \/ FinishManual(t)
             \/ LosePolled(t) \/ LoseManual(t)
             \/ IgnoreSignal(t) \/ SurvivorEnds(t)
      PROVE  NoDoubleExecution'
  BY <1>3, ResultStep
<1>4. CASE UNCHANGED vars
  BY <1>4 DEF vars, runs, Inv, NoDoubleExecution, RunningRows
<1>5. CASE Restart
  BY <1>5 DEF Restart, NoneRunning, NoDoubleExecution, RunningRows
<1>. QED BY <1>1, <1>2, <1>3, <1>4, <1>5 DEF Next

LEMMA InvInit == Init => Inv
BY TypedInit DEF Init, Inv, NoDoubleExecution, RunningRows, NoneRunning

\* No task has two running rows in task_runs, for every set of tasks and every
\* limit: the poll and the request both look for one.
THEOREM NeverTwice == Spec => []NoDoubleExecution
<1>1. Inv => NoDoubleExecution
  BY DEF Inv
<1>. QED BY InvInit, InvStep, <1>1, PTL DEF Spec

(***************************************************************************)
(* The number of processes                                                  *)
(***************************************************************************)

\* The tasks that have a process the poll started: one each.
Polled == {t \in Tasks : polled[t] > 0}

OneProcessEach ==
  /\ IsFiniteSet(Polled) /\ Cardinality(Polled) \in Nat
  /\ Active = Cardinality(Polled)

LEMMA ProcessesCounted == Inv => OneProcessEach
<1>. SUFFICES ASSUME Inv PROVE OneProcessEach
  OBVIOUS
<1>1. IsFiniteSet(Polled)
  BY SchedulerAssumption, FS_Subset DEF Polled
<1>2. ASSUME NEW t \in Tasks PROVE polled[t] \in {0, 1}
  <2>1. polled[t] + manual[t] + stuck[t] <= 1
    BY DEF Inv, NoDoubleExecution, RunningRows
  <2>2. polled[t] \in Nat /\ manual[t] \in Nat /\ stuck[t] \in Nat
    BY DEF Inv, Typed, TypeOK
  <2>. QED BY <2>1, <2>2
<1>3. \A p : p \in Processes <=> \E t \in Polled : p = <<t, 1>>
  <2>1. \A t \in Tasks : t \in Polled => 1 .. polled[t] = {1}
    BY <1>2 DEF Polled
  <2>2. \A t \in Tasks : t \notin Polled => 1 .. polled[t] = {}
    BY <1>2 DEF Polled
  <2>3. Polled \subseteq Tasks
    BY DEF Polled
  <2>4. \A p : p \in Processes <=>
                 \E t \in Tasks : p \in {t} \X (1 .. polled[t])
    BY DEF Processes
  <2>. QED BY <2>1, <2>2, <2>3, <2>4
<1>. DEFINE pair == [t \in Polled |-> <<t, 1>>]
            first == [p \in Processes |-> p[1]]
<1>4. first \in Injection(Processes, Polled)
  BY <1>3 DEF Injection, IsInjective
<1>5. pair \in Injection(Polled, Processes)
  BY <1>3 DEF Injection, IsInjective
<1>6. IsFiniteSet(Processes) /\ Cardinality(Processes) <= Cardinality(Polled)
  BY <1>1, <1>4, FS_Injection
<1>7. Cardinality(Polled) <= Cardinality(Processes)
  BY <1>5, <1>6, FS_Injection
<1>8. Cardinality(Polled) \in Nat /\ Cardinality(Processes) \in Nat
  BY <1>1, <1>6, FS_CardinalityType
<1>. QED BY <1>1, <1>6, <1>7, <1>8 DEF OneProcessEach, Active

\* The tasks that a poll takes before this one.
Ahead(t) == {u \in Selectable : <<u, t>> \in before}

\* Fewer tasks are ahead of the one that is due first.
LEMMA FewerAhead ==
  ASSUME Typed, NEW t \in Selectable, NEW u \in Selectable,
         <<t, u>> \in before
  PROVE  /\ Cardinality(Ahead(t)) \in Nat /\ Cardinality(Ahead(u)) \in Nat
         /\ Cardinality(Ahead(t)) < Cardinality(Ahead(u))
<1>1. IsFiniteSet(Selectable)
  <2>1. Selectable \subseteq Tasks
    BY DEF Selectable, Typed, TypeOK
  <2>. QED BY <2>1, SchedulerAssumption, FS_Subset
<1>2. \A w : IsFiniteSet(Ahead(w)) /\ Cardinality(Ahead(w)) \in Nat
  BY <1>1, FS_Subset, FS_CardinalityType DEF Ahead
<1>3. Ahead(t) \cup {t} \subseteq Ahead(u)
  BY DEF Ahead, Selectable, Typed, DueOrder
<1>4. t \notin Ahead(t)
  BY DEF Ahead, Selectable, Typed, DueOrder
<1>5. Cardinality(Ahead(t) \cup {t}) = Cardinality(Ahead(t)) + 1
  BY <1>2, <1>4, FS_AddElement
<1>6. Cardinality(Ahead(t) \cup {t}) <= Cardinality(Ahead(u))
  BY <1>2, <1>3, FS_Subset
<1>. QED BY <1>2, <1>5, <1>6

\* The first n of the due tasks are n at most.
LEMMA AtMostSelected ==
  ASSUME Typed, NEW n \in Nat
  PROVE  /\ IsFiniteSet(SelectDueTasks(n))
         /\ Cardinality(SelectDueTasks(n)) <= n
<1>1. IsFiniteSet(Selectable)
  <2>1. Selectable \subseteq Tasks
    BY DEF Selectable, Typed, TypeOK
  <2>. QED BY <2>1, SchedulerAssumption, FS_Subset
<1>2. \A t : IsFiniteSet(Ahead(t)) /\ Cardinality(Ahead(t)) \in Nat
  BY <1>1, FS_Subset, FS_CardinalityType DEF Ahead
<1>. DEFINE S == SelectDueTasks(n)
            rank == [t \in S |-> Cardinality(Ahead(t))]
<1>3. S = {t \in Selectable : Cardinality(Ahead(t)) < n}
  BY DEF SelectDueTasks, Ahead
<1>4. ASSUME NEW t \in Selectable, NEW u \in Selectable, <<t, u>> \in before
      PROVE  Cardinality(Ahead(t)) < Cardinality(Ahead(u))
  BY <1>4, FewerAhead
<1>5. \A t, u \in S : rank[t] = rank[u] => t = u
  <2>. SUFFICES ASSUME NEW t \in S, NEW u \in S, t # u
                PROVE  Cardinality(Ahead(t)) # Cardinality(Ahead(u))
    BY Zenon
  <2>1. t \in Selectable /\ u \in Selectable
    BY <1>3
  <2>2. <<t, u>> \in before \/ <<u, t>> \in before
    BY <2>1 DEF Selectable, Typed, DueOrder
  <2>. QED BY <1>2, <1>4, <2>1, <2>2
<1>6. \A t \in S : rank[t] \in 0 .. n - 1
  BY <1>2, <1>3
<1>7. rank \in Injection(S, 0 .. n - 1)
  BY <1>5, <1>6, Zenon DEF Injection, IsInjective
<1>8. IsFiniteSet(0 .. n - 1) /\ Cardinality(0 .. n - 1) <= n
  <2>1. /\ IsFiniteSet(0 .. n - 1)
        /\ Cardinality(0 .. n - 1) = IF 0 > n - 1 THEN 0 ELSE n - 1 - 0 + 1
    BY FS_Interval
  <2>. QED BY <2>1
<1>9. IsFiniteSet(S) /\ Cardinality(S) <= Cardinality(0 .. n - 1)
  BY <1>7, <1>8, FS_Injection
<1>10. Cardinality(S) \in Nat /\ Cardinality(0 .. n - 1) \in Nat
  BY <1>8, <1>9, FS_CardinalityType
<1>. QED BY <1>8, <1>9, <1>10

RoomInv == Inv /\ BoundedConcurrency

LEMMA CountedAfter == Inv' => OneProcessEach'
BY ProcessesCounted, PTL

\* Nothing but a poll adds to the processes.
LEMMA PolledChanges ==
  ASSUME Typed, [Next]_vars, ~Poll
  PROVE  Polled' \subseteq Polled
<1>. USE DEF Typed, TypeOK, Polled
<1>1. ASSUME NEW t \in Tasks, FinishPolled(t) \/ LosePolled(t)
      PROVE  Polled' \subseteq Polled
  BY <1>1 DEF FinishPolled, LosePolled
<1>2. CASE Restart
  BY <1>2 DEF Restart, NoneRunning
<1>3. CASE UNCHANGED polled
  BY <1>3
<1>. QED BY <1>1, <1>2, <1>3 DEF Next, vars, runs, CreateTask, BecomeDue,
     PatchSchedule, PatchHarness, DeleteTask, RunByHand, FinishManual,
     LoseManual, IgnoreSignal, SurvivorEnds

\* A poll starts no more than there is room for.
LEMMA PollRoom ==
  ASSUME Inv, Inv', BoundedConcurrency, Poll
  PROVE  BoundedConcurrency'
<1>1. OneProcessEach /\ OneProcessEach'
  BY ProcessesCounted, CountedAfter
<1>. DEFINE n == MaxConcurrent - Active
            ts == SelectDueTasks(n)
<1>2. n \in Nat
  BY <1>1, SchedulerAssumption DEF OneProcessEach, BoundedConcurrency
<1>3. IsFiniteSet(ts) /\ Cardinality(ts) <= n
  BY <1>2, AtMostSelected DEF Inv
<1>4. Cardinality(ts) \in Nat
  BY <1>3, FS_CardinalityType
<1>5. polled' = [t \in Tasks |-> polled[t] + (IF t \in ts THEN 1 ELSE 0)]
  BY DEF Poll, StartAll
<1>6. Polled' \subseteq Polled \cup ts
  BY <1>5 DEF Polled, Inv, Typed, TypeOK
<1>. HIDE DEF n, ts
<1>7. /\ IsFiniteSet(Polled \cup ts)
      /\ Cardinality(Polled \cup ts) =
           Cardinality(Polled) + Cardinality(ts) - Cardinality(Polled \cap ts)
  BY <1>1, <1>3, FS_Union DEF OneProcessEach
<1>8. Cardinality(Polled \cap ts) \in Nat
  BY <1>3, FS_Subset, FS_CardinalityType
<1>9. Cardinality(Polled') <= Cardinality(Polled \cup ts)
  BY <1>6, <1>7, FS_Subset
<1>10. Active' <= Active + n
  BY <1>1, <1>2, <1>3, <1>4, <1>5, <1>7, <1>8, <1>9 DEF OneProcessEach
<1>11. Active + n = MaxConcurrent
  BY <1>1, SchedulerAssumption DEF OneProcessEach, n
<1>. QED BY <1>10, <1>11 DEF BoundedConcurrency

LEMMA RoomStep == RoomInv /\ [Next]_vars => RoomInv'
<1>. SUFFICES ASSUME Inv, BoundedConcurrency, [Next]_vars PROVE RoomInv'
  BY DEF RoomInv
<1>1. Inv'
  BY InvStep
<1>2. CASE Poll
  BY <1>1, <1>2, PollRoom DEF RoomInv
<1>3. CASE ~Poll
  <2>1. OneProcessEach /\ OneProcessEach'
    BY <1>1, ProcessesCounted, CountedAfter
  <2>2. Polled' \subseteq Polled
    BY <1>3, PolledChanges DEF Inv
  <2>3. Cardinality(Polled') <= Cardinality(Polled)
    BY <2>1, <2>2, FS_Subset DEF OneProcessEach
  <2>4. Active' <= Active
    BY <2>1, <2>2, <2>3 DEF OneProcessEach
  <2>5. BoundedConcurrency'
    BY <2>1, <2>4, SchedulerAssumption DEF OneProcessEach, BoundedConcurrency
  <2>. QED BY <1>1, <2>5 DEF RoomInv
<1>. QED BY <1>2, <1>3

LEMMA RoomInit == Init => RoomInv
<1>. SUFFICES ASSUME Init PROVE RoomInv
  OBVIOUS
<1>1. Inv /\ OneProcessEach
  BY InvInit, ProcessesCounted
<1>2. Polled = {}
  BY DEF Init, NoneRunning, Polled
<1>3. Active = 0
  BY <1>1, <1>2, FS_EmptySet DEF OneProcessEach
<1>. QED BY <1>1, <1>3, SchedulerAssumption DEF RoomInv, BoundedConcurrency

\* The processes the present daemon's polls have started stay within the limit,
\* for any tasks and any limit, also those of tasks that were deleted; those
\* that outlived an earlier daemon come on top.
THEOREM RoomKept == Spec => []BoundedConcurrency
<1>1. RoomInv => BoundedConcurrency
  BY DEF RoomInv
<1>. QED BY RoomInit, RoomStep, <1>1, PTL DEF Spec

(***************************************************************************)
(* Whose turn it is                                                         *)
(***************************************************************************)

\* Who is selected does not pass over a task that is due before.
Overtaken(t, u) ==
  /\ t \in Selectable /\ u \in Selectable /\ <<t, u>> \in before
  /\ polled'[u] > polled[u] /\ ~(polled'[t] > polled[t])

\* A poll that starts a task starts every task that qualifies and was due
\* before it: whatever else happens, no process is started out of turn.
THEOREM EarliestFirst ==
  Spec => [][\A t, u \in Tasks : ~Overtaken(t, u)]_vars
<1>1. ASSUME Inv, [Next]_vars
      PROVE  \A t, u \in Tasks : ~Overtaken(t, u)
  <2> SUFFICES ASSUME NEW t \in Tasks, NEW u \in Tasks, Overtaken(t, u)
               PROVE  FALSE
    OBVIOUS
  <2> USE DEF Overtaken
  <2>0. polled \in [Tasks -> Nat]
    BY <1>1 DEF Inv, Typed, TypeOK
  <2>1. CASE Poll
    <3>. DEFINE n == MaxConcurrent - Active
                ts == SelectDueTasks(n)
    <3>1. \A w \in Tasks : polled'[w] = polled[w] + (IF w \in ts THEN 1 ELSE 0)
      BY <2>1 DEF Poll, StartAll
    <3>2. u \in ts /\ t \notin ts
      BY <2>0, <3>1
    <3>3. Cardinality(Ahead(u)) < n /\ ~(Cardinality(Ahead(t)) < n)
      BY <3>2 DEF SelectDueTasks, Ahead
    <3>4. /\ Cardinality(Ahead(t)) \in Nat /\ Cardinality(Ahead(u)) \in Nat
          /\ Cardinality(Ahead(t)) < Cardinality(Ahead(u))
      BY <1>1, FewerAhead DEF Inv
    <3>5. n \in Int
      BY <1>1, ProcessesCounted, SchedulerAssumption DEF OneProcessEach
    <3>. HIDE DEF n
    <3>. QED BY <3>3, <3>4, <3>5
  <2>2. ASSUME NEW w \in Tasks, FinishPolled(w) \/ LosePolled(w) PROVE FALSE
    BY <2>0, <2>2 DEF FinishPolled, LosePolled
  <2>3. CASE Restart
    BY <2>0, <2>3 DEF Restart, NoneRunning
  <2>4. CASE UNCHANGED polled
    BY <2>0, <2>4
  <2>. QED BY <1>1, <2>1, <2>2, <2>3, <2>4
       DEF Next, vars, runs, CreateTask, BecomeDue, PatchSchedule, PatchHarness,
           DeleteTask, RunByHand, FinishManual, LoseManual, IgnoreSignal,
           SurvivorEnds
<1>. QED BY InvInit, InvStep, <1>1, PTL DEF Spec
=============================================================================
