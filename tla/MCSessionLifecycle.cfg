SPECIFICATION MCSpec
CONSTANTS
  Paths = {plugin, legacy}
  NoPath = NoPath
  Sessions = {s1}
  WorkerJobs = 2
  HooksLength = 2
  MaxLength = 3
  Cap = 2
  MaxEpochs = 1
  MaxJobs = 2
  MaxAttempts = 2
  RecoverBatch = 1
  Idle = Idle
CHECK_DEADLOCK FALSE
INVARIANTS
  TypeOK
  CursorCovered
  ExtractedOnce
PROPERTIES
  ClaimHolds
  CompletedIsFinal
  JobsSettle
