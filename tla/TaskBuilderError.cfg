CONSTANTS
  MaxSubtasks = 2
  MaxTasks = 2
  RunLoop = TRUE
  Faults <- EveryFault
SPECIFICATION FairSpec
PROPERTIES ErrorReported
CHECK_DEADLOCK FALSE
