------------------------------ MODULE MCScheduler ------------------------------
(***************************************************************************)
(* Slices of Scheduler for TLC, each with all actions.  Processes that      *)
(* outlived their daemon bear on nothing that polls and requests read, and  *)
(* multiply the states:                                                     *)
(*   - "waiting" has more tasks than places and no such process, so that    *)
(*     the daemon restarts only when no polled process is left;             *)
(*   - "surviving" has them, with the daemon's restart at any time, and     *)
(*     leaves the spare tasks out.                                          *)
(* A behaviour keeps the slice it starts in.                                *)
(***************************************************************************)
EXTENDS Scheduler

CONSTANT Spare  \* the tasks that are left out of one slice

VARIABLE slice

MCInit == Init /\ slice \in {"waiting", "surviving"}

MCNext ==
  /\ Next
  /\ slice = "waiting" => survived' = NoneRunning
  /\ slice = "surviving" => \A t \in Spare : task'[t] = "absent"
  /\ UNCHANGED slice

MCSpec == MCInit /\ [][MCNext]_<<vars, slice>> /\ Fairness
===============================================================================
