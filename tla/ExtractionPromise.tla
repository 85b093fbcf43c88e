-------------------------- MODULE ExtractionPromise --------------------------
(***************************************************************************)
(* What the extraction pipeline promises about one memory, whatever its     *)
(* queue goes through: the facts of a memory are written at most once, never*)
(* for a memory that was not saved and never for one that already reads as  *)
(* extracted.  A memory may be extracted, dismissed without facts, reopened *)
(* (edited, or its extraction given up) and purged.                         *)
(***************************************************************************)
EXTENDS Naturals

CONSTANTS Memories, NoMemory

VARIABLES
  status,  \* "absent", "raw", "extracted" or "gone"
  facts    \* how often the memory's facts were written

vars == <<status, facts>>

Exists(m) == status[m] \in {"raw", "extracted"}

Save(m) ==
  /\ status[m] = "absent"
  /\ status' = [status EXCEPT ![m] = "raw"]
  /\ UNCHANGED facts

\* target is the memory an update decision rewrites, if any.
Extract(m, target) ==
  /\ status[m] \in {"raw", "gone"}
  /\ facts[m] = 0
  /\ facts' = [facts EXCEPT ![m] = 1]
  /\ status' = [n \in Memories |-> IF n \in {m, target} /\ Exists(n)
                                   THEN "extracted" ELSE status[n]]

Dismiss(m) ==
  /\ status[m] = "raw"
  /\ status' = [status EXCEPT ![m] = "extracted"]
  /\ UNCHANGED facts

Reopen(reopened) ==
  /\ \A m \in reopened : Exists(m)
  /\ status' = [m \in Memories |-> IF m \in reopened THEN "raw" ELSE status[m]]
  /\ UNCHANGED facts

Purge(purged) ==
  /\ \A m \in purged : Exists(m)
  /\ status' = [m \in Memories |-> IF m \in purged THEN "gone" ELSE status[m]]
  /\ UNCHANGED facts

Init ==
  /\ status = [m \in Memories |-> "absent"]
  /\ facts = [m \in Memories |-> 0]

Next ==
  \/ \E changed \in SUBSET Memories : Reopen(changed) \/ Purge(changed)
  \/ \E m \in Memories :
       \/ Save(m) \/ Dismiss(m)
       \/ \E target \in Memories \cup {NoMemory} : Extract(m, target)

Spec == Init /\ [][Next]_vars
=============================================================================
