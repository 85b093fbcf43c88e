SPECIFICATION Spec
CONSTANTS
  Memories = {m1, m2}
  NoMemory = NoMemory
  MaxAttempts = 2
  MaxRetries = 2
  RequeueBatch = 1
  LateFailure = FALSE
  MaxCrashes = 1
  MaxRequeues = 1
SYMMETRY MemorySymmetry
INVARIANTS
  AttemptsWithinLimit
  SettledStatus
PROPERTIES
  CompletedIsFinal
  KeepsPromise
