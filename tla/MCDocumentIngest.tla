--------------------------- MODULE MCDocumentIngest ---------------------------
(***************************************************************************)
(* Two slices of DocumentIngest for TLC; a behaviour keeps the slice it     *)
(* starts in.  In one, a single document is edited and requeued and attempts *)
(* on it are lost; in the other, two documents that share a chunk are       *)
(* ingested side by side, each with one job.                                *)
(***************************************************************************)
EXTENDS DocumentIngest

CONSTANTS c1, c2, d1, d2

VARIABLE slice

\* Two texts that share a chunk.
SharedTexts == {<<c1, c2>>, <<c2>>}

Alone ==
  /\ status'[d2] = "absent"
  /\ requeues' = 0 \/ edits' + losses' = 0

Sharing ==
  /\ edits' + losses' + requeues' = 0
  /\ \A d \in Docs : job'[<<d, 2>>].status = "absent"

MCInit == Init /\ slice \in {"alone", "sharing"}

MCNext ==
  /\ Next
  /\ \/ slice = "alone" /\ Alone
     \/ slice = "sharing" /\ Sharing
  /\ UNCHANGED slice

MCSpec == MCInit /\ [][MCNext]_<<vars, slice>>
=============================================================================
