SPECIFICATION MCSpec
CONSTANTS
  Tasks = {t1, t2, t3}
  Spare = {t3}
  MaxConcurrent = 2
  MaxSurvivors = 1
CHECK_DEADLOCK FALSE
INVARIANTS
  TypeOK
  NoDoubleExecution
  BoundedConcurrency
PROPERTY DueTasksRun
