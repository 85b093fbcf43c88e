----------------------------- MODULE WorkerTicks -----------------------------
(***************************************************************************)
(* The timers of the extraction worker.  A poll timer fires a tick; when    *)
(* the tick has settled its callback arms the next timer.  The load check,  *)
(* the stall watchdog, nudge() and stop() arm and clear that same timer     *)
(* from outside.  ExtractionQueue takes from here that there is one chain   *)
(* of ticks, that it does not break, and that stop() leaves none behind.    *)
(*                                                                          *)
(* A timer is its handle.  The delays are left out: which delay a timer was *)
(* armed with decides only when it fires.                                   *)
(***************************************************************************)
CONSTANTS
  Timers,   \* timer handles; one no longer in use may be given out again
  NoTimer   \* null

ASSUME TimersAssumption == NoTimer \notin Timers

VARIABLES
  worker,      \* "running", "stopping" (stop() awaits a tick) or "stopped"
  armed,       \* timers that have not fired
  recheck,     \* those of them that were armed to look at the load again
  awaiting,    \* timers that fired, their callbacks awaiting their ticks
  pollTimer,   \* the handle kept
  inflight,    \* the tick kept, named by the timer that began it
  overloaded,  \* the flag of the last load check
  stalled,     \* is the last success, or stall, STALL_THRESHOLD ago?
  load         \* the load of the host: "light" or "heavy"

ticksVars == <<worker, armed, recheck, awaiting, pollTimer, inflight,
               overloaded, stalled, load>>

\* setTimeout gives out a handle that nothing refers to.
Fresh(t, others) == t \notin others \cup awaiting \cup {pollTimer}

\* scheduleTick(), others being the timers still armed when it is called.
ScheduleTick(others) ==
  IF worker = "running"
  THEN \E t \in Timers :
         /\ Fresh(t, others)
         /\ armed' = others \cup {t}
         /\ pollTimer' = t
         /\ overloaded' = (load = "heavy")
         /\ recheck' = IF load = "heavy" THEN (recheck \cap others) \cup {t}
                                         ELSE recheck \cap others
  ELSE /\ armed' = others
       /\ recheck' = recheck \cap others
       /\ UNCHANGED <<pollTimer, overloaded>>

\* The timer of an overloaded host fires: the load is looked at again.
FireRecheck(t) ==
  /\ t \in recheck
  /\ ScheduleTick(armed \ {t})
  /\ UNCHANGED <<worker, awaiting, inflight, stalled, load>>

\* Faulty: begins a tick whatever the timer was armed for.
FirePollAny(t) ==
  /\ t \in armed
  /\ armed' = armed \ {t}
  /\ awaiting' = awaiting \cup {t}
  /\ inflight' = t
  /\ UNCHANGED <<worker, recheck, pollTimer, overloaded, stalled, load>>

\* A poll timer fires: the callback begins a tick and awaits it.
FirePoll(t) ==
  /\ t \in armed \ recheck
  /\ armed' = armed \ {t}
  /\ awaiting' = awaiting \cup {t}
  /\ inflight' = t
  /\ UNCHANGED <<worker, recheck, pollTimer, overloaded, stalled, load>>

\* Faulty: schedules the next tick only when the tick found a job.
SettleTickIfBusy(t, success) ==
  /\ t \in awaiting
  /\ awaiting' = awaiting \ {t}
  /\ inflight' = NoTimer
  /\ \/ ScheduleTick(armed)
     \/ ~success /\ UNCHANGED <<armed, recheck, pollTimer, overloaded>>
  /\ worker' = IF worker = "stopping" THEN "stopped" ELSE worker
  /\ stalled' = (stalled /\ ~success)
  /\ UNCHANGED load

\* The tick has settled, however it went: its callback goes on, and after it,
\* before any other callback runs, the stop() that awaits the tick.
SettleTick(t, success) ==
  /\ t \in awaiting
  /\ awaiting' = awaiting \ {t}
  /\ inflight' = NoTimer
  /\ ScheduleTick(armed)
  /\ worker' = IF worker = "stopping" THEN "stopped" ELSE worker
  /\ stalled' = (stalled /\ ~success)
  /\ UNCHANGED load

\* Faulty: does not look whether a tick is in flight.
WatchdogAlways ==
  /\ worker = "running" /\ ~overloaded /\ stalled
  /\ stalled' = FALSE
  /\ ScheduleTick(armed \ {pollTimer})
  /\ UNCHANGED <<worker, awaiting, inflight, load>>

\* The watchdog finds pending jobs and no success for long: the chain is begun
\* anew, unless a tick is in flight, which will go on with it.
Watchdog ==
  /\ worker = "running" /\ ~overloaded /\ stalled
  /\ stalled' = FALSE
  /\ IF inflight = NoTimer
     THEN ScheduleTick(armed \ {pollTimer})
     ELSE UNCHANGED <<armed, recheck, pollTimer, overloaded>>
  /\ UNCHANGED <<worker, awaiting, inflight, load>>

Stall ==
  /\ worker = "running" /\ ~stalled
  /\ stalled' = TRUE
  /\ UNCHANGED <<worker, armed, recheck, awaiting, pollTimer, inflight,
                 overloaded, load>>

\* Polls at once, whatever the load.  Callers reach the worker by a handle that
\* is dropped when stop() returns.
Nudge ==
  /\ worker # "stopped"
  /\ inflight = NoTimer
  /\ \E t \in Timers :
       /\ Fresh(t, armed \ {pollTimer})
       /\ armed' = (armed \ {pollTimer}) \cup {t}
       /\ recheck' = recheck \ {pollTimer, t}
       /\ pollTimer' = t
  /\ UNCHANGED <<worker, awaiting, inflight, overloaded, stalled, load>>

\* Faulty: leaves the timer armed.
StopWithoutClear ==
  /\ worker = "running"
  /\ worker' = IF inflight = NoTimer THEN "stopped" ELSE "stopping"
  /\ UNCHANGED <<armed, recheck, awaiting, pollTimer, inflight, overloaded,
                 stalled, load>>

\* stop() clears the timer, then awaits the tick in flight, if any.
Stop ==
  /\ worker = "running"
  /\ worker' = IF inflight = NoTimer THEN "stopped" ELSE "stopping"
  /\ armed' = armed \ {pollTimer}
  /\ recheck' = recheck \ {pollTimer}
  /\ UNCHANGED <<awaiting, pollTimer, inflight, overloaded, stalled, load>>

\* startWorker() again: a worker of its own, with no timer yet.
StartTicks ==
  /\ worker = "stopped"
  /\ worker' = "running"
  /\ inflight' = NoTimer
  /\ stalled' = FALSE
  /\ \E t \in Timers :
       /\ Fresh(t, armed)
       /\ armed' = armed \cup {t}
       /\ pollTimer' = t
       /\ overloaded' = (load = "heavy")
       /\ recheck' = IF load = "heavy" THEN recheck \cup {t} ELSE recheck
  /\ UNCHANGED <<awaiting, load>>

HostLoad ==
  /\ load' = IF load = "light" THEN "heavy" ELSE "light"
  /\ UNCHANGED <<worker, armed, recheck, awaiting, pollTimer, inflight,
                 overloaded, stalled>>

TicksInit ==
  /\ worker = "stopped"
  /\ armed = {} /\ recheck = {} /\ awaiting = {}
  /\ pollTimer = NoTimer /\ inflight = NoTimer
  /\ overloaded = FALSE /\ stalled = FALSE
  /\ load \in {"light", "heavy"}

TicksNext ==
  \/ \E t \in Timers :
       \/ FireRecheck(t) \/ FirePoll(t)
       \/ \E success \in BOOLEAN : SettleTick(t, success)
  \/ Watchdog \/ Stall \/ Nudge
  \/ StartTicks \/ Stop
  \/ HostLoad

TicksSpec == TicksInit /\ [][TicksNext]_ticksVars

\* Timers fire, and a tick settles because each call in it has a timeout.
TicksFairness ==
  /\ WF_ticksVars(\E t \in Timers : FireRecheck(t) \/ FirePoll(t))
  /\ WF_ticksVars(\E t \in Timers, success \in BOOLEAN : SettleTick(t, success))

TicksFairSpec == TicksSpec /\ TicksFairness

(***************************************************************************)
(* Properties                                                               *)
(***************************************************************************)

TicksTypeOK ==
  /\ worker \in {"running", "stopping", "stopped"}
  /\ armed \in SUBSET Timers
  /\ recheck \in SUBSET armed
  /\ awaiting \in SUBSET Timers
  /\ pollTimer \in Timers \cup {NoTimer}
  /\ inflight \in Timers \cup {NoTimer}
  /\ overloaded \in BOOLEAN /\ stalled \in BOOLEAN
  /\ load \in {"light", "heavy"}

\* There is one chain: over the worker's own callbacks, the watchdog, nudges
\* and restarts, at most one timer is armed or one tick in flight, so that no
\* two attempts of the extraction worker run at once.
OneChain ==
  /\ \A s, t \in armed \cup awaiting : s = t
  /\ armed \cap awaiting = {}

\* The chain does not break: while the worker runs there is a timer that will
\* fire or a tick that will settle, and it is the one the worker knows of, so
\* that clearing pollTimer or awaiting inflight never misses it.
ChainUnbroken ==
  worker = "running" =>
    \/ armed = {pollTimer} /\ inflight = NoTimer
    \/ awaiting = {inflight} /\ armed = {}

\* Once stop() has returned nothing of the worker is left that could begin or
\* finish a tick: what reinitialises the pipeline does not race with it.
StopIsFinal == worker = "stopped" => armed \cup awaiting = {}

\* A host that is no longer overloaded is polled again and again, whatever the
\* watchdog and nudges do to the timer, so that load shedding starves no job.
PollsGoOn ==
  <>[](worker = "running" /\ load = "light") => []<>(awaiting # {})
=============================================================================
