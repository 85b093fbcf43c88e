SPECIFICATION MCSpec
CONSTANTS
  s1 = s1
  Sessions = {s1, s2}
  None = None
  Keep = 2
  MaxRows = 2
  MaxNoted = 4
  SharedNotes = 2
CHECK_DEADLOCK FALSE
INVARIANTS
  TypeOK
  NotesAccountedFor
  EndIsLatest
PROPERTY QueueIsFlushed
