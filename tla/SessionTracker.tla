---------------------------- MODULE SessionTracker ----------------------------
(***************************************************************************)
(* What the daemon holds in memory about one session: which runtime path    *)
(* has claimed it, whether the claim has run out, and whether the session   *)
(* is bypassed.  Every hook goes through these calls, several of which drop *)
(* an expired claim on the way, so they are operators on one entry; the     *)
(* modules that EXTEND this one decide in which order a route makes them.   *)
(*                                                                          *)
(* The 4 hours of a claim are kept by what the code can tell about them: a  *)
(* claim is in time or over.  The warning that is given once before the end *)
(* is wording of a reply and is left out.                                   *)
(***************************************************************************)

CONSTANTS
  Paths,    \* the runtime paths, "plugin" and "legacy" in the code
  NoPath    \* no claim, or a request that does not name its path

ASSUME PathsAssumption == NoPath \notin Paths

Entry == [path : Paths \cup {NoPath}, over : BOOLEAN, bypassed : BOOLEAN]

NoEntry == [path |-> NoPath, over |-> FALSE, bypassed |-> FALSE]

Claimed(t) == t.path # NoPath
Alive(t) == Claimed(t) /\ ~t.over

Fresh(path, bypassed) ==
  [path |-> path, over |-> FALSE, bypassed |-> bypassed]

\* releaseSession: the bypass goes with the claim.
Release(t) == NoEntry

\* hasSession, getSessionPath, getActiveSessions and the cleanup timer: a claim
\* that is over is dropped, and the bypass with it.
EvictStale(t) == IF Claimed(t) /\ t.over THEN NoEntry ELSE t

\* Faulty: does not ask whether the other path's claim is over.
MayTakeOver(t, path) == TRUE

MayClaim(t, path) == t.path \in {NoPath, path} \/ t.over

\* claimSession: another path's claim that is over is deleted without the bypass,
\* and the same path's is only refreshed.
Claim(t, path) == Fresh(path, t.bypassed)

\* renewSession: never brings back a claim that is over.
Renew(t) ==
  IF Claimed(t) THEN IF t.over THEN NoEntry ELSE Fresh(t.path, t.bypassed)
  ELSE t

\* checkSessionClaim, for a request that names its path.
Checked(t, path) == IF path = NoPath THEN t ELSE EvictStale(t)
Conflict(t, path) ==
  path # NoPath /\ Checked(t, path).path \notin {NoPath, path}
=============================================================================
