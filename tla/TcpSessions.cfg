SPECIFICATION FairSpec
CONSTANTS
  c1 = c1
  c2 = c2
  Client <- Two
  MaxRequests = 2
  MaxBeats = 2
  Uses <- TroubleOrStop
  None = None
INVARIANTS TypeOK OneMessage
PROPERTIES ImplementsConversation ClientsEnd StopReturns
CHECK_DEADLOCK FALSE
