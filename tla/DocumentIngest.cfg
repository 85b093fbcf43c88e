SPECIFICATION MCSpec
CONSTANTS
  c1 = c1
  c2 = c2
  d1 = d1
  d2 = d2
  Docs = {d1, d2}
  UrlDocs = {d2}
  Chunks = {c1, c2}
  Texts <- SharedTexts
  NoText = NoText
  MaxAttempts = 2
  MaxRetries = 2
  MaxRows = 2
  MaxOverlap = 2
  MaxEdits = 1
  MaxLosses = 1
  MaxRequeues = 1
INVARIANTS
  TypeOK
  DoneIsIndexed
  NoLostDocument
  PassedIsIndexed
