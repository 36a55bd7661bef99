SPECIFICATION Spec
CONSTANTS
  c1 = c1
  c2 = c2
  Client <- Two
  MaxRequests = 2
  Late = TRUE
  Uses <- TwiceTwo
  Acceptor = Acceptor
  Server = Server
  None = None
SYMMETRY Alike
INVARIANTS TypeOK ReaderIsAddressee OwnSession InStep
CHECK_DEADLOCK FALSE
