----------------------------- MODULE MCContinuity -----------------------------
(***************************************************************************)
(* Two slices of Continuity for TLC; a behaviour keeps the slice it starts  *)
(* in.  In one, a session is alone and has many notes; in the other,      *)
(* sessions share the queue and its timer, each tracked by its checkpoint   *)
(* extracts, without the overlap of starts and ends.                        *)
(***************************************************************************)
EXTENDS Continuity

CONSTANTS s1, SharedNotes  \* bound: notes in the second slice

VARIABLE slice

Alone ==
  \A k \in Sessions \ {s1} : noted'[k] = 0 /\ k \notin starting' /\ ~Tracked(k)'

Sharing ==
  /\ starting' = {}
  /\ FoldFunction(+, 0, noted') <= SharedNotes

MCInit == Init /\ slice \in {"alone", "sharing"}

MCNext ==
  /\ Next
  /\ \/ slice = "alone" /\ Alone
     \/ slice = "sharing" /\ Sharing
  /\ UNCHANGED slice

MCSpec == MCInit /\ [][MCNext]_<<vars, slice>> /\ Fairness
=============================================================================
