---------------------------- MODULE MCEntityGraph ----------------------------
(***************************************************************************)
(* Two slices of EntityGraph for TLC; a behaviour keeps the slice it starts *)
(* in.  In one, two memories share entities, without skills and chunks; in  *)
(* the other, one memory is at most a chunk and a skill is installed.       *)
(***************************************************************************)
EXTENDS EntityGraph

CONSTANT m1  \* the only memory of the second slice

VARIABLE slice

Sharing ==
  /\ installing' = {}
  /\ \A g \in Groups : group'[g] = "new"

Alone == \A m \in Memories \ {m1} : memory'[m] = "absent"

MCInit == Init /\ slice \in {"sharing", "alone"}

MCNext ==
  /\ Next
  /\ \/ slice = "sharing" /\ Sharing
     \/ slice = "alone" /\ Alone
  /\ UNCHANGED slice

MCSpec == MCInit /\ [][MCNext]_<<vars, slice>>
=============================================================================
