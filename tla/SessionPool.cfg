CONSTANTS
  t1 = t1
  t2 = t2
  f1 = f1
  f2 = f2
  tcp = tcp
  fifo = fifo
  None = None
  Type <- BothTypes
  TypeOf <- KindOf
  Session <- FourSessions
  MaxOfType <- OneTcpTwoFifo
  Slots = 4
  Uses <- ManyOrStop
  Wrap = 16
SPECIFICATION ClientsLeave
INVARIANTS
  TypeOK
  RunsOnce
  WithinTotal
PROPERTIES
  WaitingRuns
  StopJoins
CHECK_DEADLOCK FALSE
