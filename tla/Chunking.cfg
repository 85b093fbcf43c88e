SPECIFICATION ChunkingFairSpec
CONSTANTS
  MinSize = 2
  MaxSize = 5
  MaxChunkOverlap = 6
  MaxLength = 14
CHECK_DEADLOCK FALSE
INVARIANTS
  CoversText
PROPERTY Terminates
