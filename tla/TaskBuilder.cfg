CONSTANTS
  MaxSubtasks = 3
  MaxTasks = 3
  RunLoop = TRUE
  Faults <- EveryFault
SPECIFICATION FairSpec
INVARIANTS
  TypeOK
  SendsBatch
PROPERTIES
  TaskArrives
  StopJoins
CHECK_DEADLOCK FALSE
