------------------------------ MODULE Chunking ------------------------------
(***************************************************************************)
(* chunkText: how a document is cut into windows that overlap.  The loop of *)
(* the function is a state machine, run once for a text of some length and  *)
(* some configured window and overlap.  Both are clamped on their own when  *)
(* the configuration is loaded; nothing compares them.                      *)
(*                                                                          *)
(* A chunk is the interval of characters it covers, to not included.        *)
(***************************************************************************)
EXTENDS Integers, FiniteSets

CONSTANTS
  MinSize, MaxSize,  \* range of pipeline.documents.chunkSize
  MaxChunkOverlap,   \* pipeline.documents.chunkOverlap is at most this
  MaxLength          \* bound: longest text explored

ASSUME ChunkingAssumption ==
  /\ MinSize \in Nat \ {0} /\ MaxSize \in Nat /\ MinSize <= MaxSize
  /\ MaxChunkOverlap \in Nat /\ MaxLength \in Nat \ {0}

VARIABLES
  length, chunkSize, overlap,  \* the arguments; they do not change
  start,                       \* where the next chunk begins
  chunks,                      \* those cut so far
  returned

chunkingVars == <<length, chunkSize, overlap, start, chunks, returned>>

Chunk(from, to) == [from |-> from, to |-> to]

Shorter(a, b) == IF a <= b THEN a ELSE b

ShortText ==
  /\ ~returned /\ chunks = {}
  /\ length <= chunkSize
  /\ chunks' = {Chunk(0, length)}
  /\ returned' = TRUE
  /\ UNCHANGED <<length, chunkSize, overlap, start>>

\* Faulty: takes the last character of a window for the first one after it.
CutChunkApart ==
  /\ ~returned
  /\ length > chunkSize /\ start < length
  /\ LET end == Shorter(start + chunkSize, length)
         next == end - overlap + 1
     IN  /\ chunks' = chunks \cup {Chunk(start, end)}
         /\ IF next <= start
            THEN returned' = TRUE /\ UNCHANGED start
            ELSE start' = next /\ UNCHANGED returned
  /\ UNCHANGED <<length, chunkSize, overlap>>

\* Faulty: steps back without a look, before the text even.
CutChunkBack ==
  /\ ~returned
  /\ length > chunkSize /\ start < length
  /\ LET end == Shorter(start + chunkSize, length)
     IN  /\ chunks' = chunks \cup {Chunk(start, end)}
         /\ start' = end - overlap
  /\ UNCHANGED <<length, chunkSize, overlap, returned>>

\* Faulty: does not look whether the next chunk begins any later.
CutChunkOn ==
  /\ ~returned
  /\ length > chunkSize /\ start < length
  /\ LET end == Shorter(start + chunkSize, length)
     IN  /\ chunks' = chunks \cup {Chunk(start, end)}
         /\ start' = IF end - overlap >= 0 THEN end - overlap ELSE 0
  /\ UNCHANGED <<length, chunkSize, overlap, returned>>

\* One turn of the loop; it is left when the next chunk would begin no later.
CutChunk ==
  /\ ~returned
  /\ length > chunkSize /\ start < length
  /\ LET end == Shorter(start + chunkSize, length)
         next == end - overlap
     IN  /\ chunks' = chunks \cup {Chunk(start, end)}
         /\ IF next <= start
            THEN returned' = TRUE /\ UNCHANGED start
            ELSE start' = next /\ UNCHANGED returned
  /\ UNCHANGED <<length, chunkSize, overlap>>

EndLoop ==
  /\ ~returned
  /\ length > chunkSize /\ start >= length
  /\ returned' = TRUE
  /\ UNCHANGED <<length, chunkSize, overlap, start, chunks>>

\* Empty content fails the job before it is chunked.
ChunkingInit ==
  /\ length \in 1 .. MaxLength
  /\ chunkSize \in MinSize .. MaxSize
  /\ overlap \in 0 .. MaxChunkOverlap
  /\ start = 0
  /\ chunks = {}
  /\ returned = FALSE

ChunkingNext == ShortText \/ CutChunk \/ EndLoop

ChunkingSpec == ChunkingInit /\ [][ChunkingNext]_chunkingVars

ChunkingFairSpec == ChunkingSpec /\ WF_chunkingVars(ChunkingNext)

(***************************************************************************)
(* Properties                                                               *)
(***************************************************************************)

ChunkingTypeOK ==
  /\ length \in Nat /\ chunkSize \in Nat \ {0} /\ overlap \in Nat
  /\ start \in Nat
  /\ chunks \in SUBSET [from : Nat, to : Nat]
  /\ returned \in BOOLEAN

Covered(position) ==
  \E chunk \in chunks : chunk.from <= position /\ position < chunk.to

\* With an overlap that fits the window, no character of the text falls between
\* the chunks or behind the last one, though the loop is left in two ways.
CoversText ==
  returned /\ overlap < chunkSize =>
    \A position \in 0 .. length - 1 : Covered(position)

\* The loop ends whatever the overlap is (chunkText: "Avoid infinite loop if
\* overlap >= chunkSize").
Terminates == <>returned
=============================================================================
