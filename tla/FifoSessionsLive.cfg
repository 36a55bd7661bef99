SPECIFICATION FairSpec
CONSTANTS
  c1 = c1
  c2 = c2
  Client <- Two
  MaxRequests = 2
  Late = FALSE
  Uses <- CalmStoppedOrCrashed
  Acceptor = Acceptor
  Server = Server
  None = None
PROPERTIES ClientsEnd Reconnects ImplementsConversation StopReturns
CHECK_DEADLOCK FALSE
