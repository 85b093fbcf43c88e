------------------------- MODULE MCExtractionProgress -------------------------
(***************************************************************************)
(* Two slices of ExtractionQueue for TLC to check progress on, set apart by *)
(* their initial states.  In one, a memory is alone, the others purged long *)
(* ago, with a crash and a requeue to come.  In the other, the daemon boots *)
(* after a crash and finds a row of every memory, rivals for its worker.    *)
(***************************************************************************)
EXTENDS ExtractionQueue

CONSTANT m1

Alone ==
  /\ extraction = [m \in Memories |-> IF m = m1 THEN "absent" ELSE "gone"]
  /\ job = [m \in Memories |-> NoRow]
  /\ clock = 0
  /\ crashes = 0 /\ requeues = 0

Rivals ==
  /\ extraction = [m \in Memories |-> "pending"]
  /\ job = [m \in Memories |-> PendingRow(IF m = m1 THEN 0 ELSE 1)]
  /\ clock = 2
  /\ crashes = MaxCrashes /\ requeues = MaxRequeues

MCInit ==
  /\ Alone \/ Rivals
  /\ request = [m \in Memories |-> "none"]
  /\ daemon = "down"
  /\ attempt = Idle
  /\ factWrites = [m \in Memories |-> 0]

MCFairSpec == MCInit /\ [][Next]_vars /\ Fairness
=============================================================================
