CONSTANTS
  w1 = w1
  w2 = w2
  s1 = s1
  s2 = s2
  EmptyTask = EmptyTask
  Worker <- TwoWorkers
  Session <- TwoSessions
  MaxSize = 2
  MaxBatches = 2
  SortInput = TRUE
SPECIFICATION FairSpec
PROPERTIES
  StopReturns
CHECK_DEADLOCK FALSE
