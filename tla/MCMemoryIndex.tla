---------------------------- MODULE MCMemoryIndex ----------------------------
(* Instances of MemoryIndex for TLC.                                         *)
EXTENDS MemoryIndex

CONSTANTS m1, m2

\* Both memories outside the scope, or one of them in it.
OneOrTwoScopes == {{}, {m2}}
=============================================================================
