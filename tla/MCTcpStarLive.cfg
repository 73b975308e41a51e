CONSTANTS
  c1 = c1
  c2 = c2
  L = L
  Clients = {c1, c2}
  Parts = 2
  ConsoleOf <- OtherConsole
  MaxConns = 2
  MaxClients = 1
  MaxBuffered = 1
  MaxOps <- OneLine
  Async = {FALSE, TRUE}
SPECIFICATION FairSpec
PROPERTIES
  HandshakeEnds
  EchoArrives
CHECK_DEADLOCK FALSE
