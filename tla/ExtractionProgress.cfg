SPECIFICATION MCFairSpec
CONSTANTS
  m1 = m1
  Memories = {m1, m2}
  NoMemory = NoMemory
  MaxAttempts = 2
  MaxRetries = 2
  RequeueBatch = 1
  LateFailure = TRUE
  MaxCrashes = 1
  MaxRequeues = 1
PROPERTY LiveJobsSettle
