SPECIFICATION FairSpec
CONSTANTS
  Mem = {m1, m2}
  m1 = m1
  m2 = m2
  Scopings <- OneOrTwoScopes
  Contents = {c1, c2}
  RecoverWindow = 0
  TombstoneRetention = 0
  BatchSize = 1
  MaxEdits = 2
  None = None
CHECK_DEADLOCK FALSE
INVARIANTS
  TypeOK
  UniqueLive
  NoEmbeddingOfPurged
PROPERTIES
  VersionNamesContent
  KeepsEmbedded
