-------------------------- MODULE MCExtractionQueue --------------------------
(* Instances of ExtractionQueue for TLC: memories are interchangeable.      *)
EXTENDS ExtractionQueue, TLC

MemorySymmetry == Permutations(Memories)
=============================================================================
