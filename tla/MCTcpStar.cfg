CONSTANTS
  c1 = c1
  c2 = c2
  L = L
  Clients = {c1, c2}
  Parts = 2
  ConsoleOf <- SameConsole
  MaxConns = 3
  MaxClients = 2
  MaxBuffered = 1
  MaxOps <- OneCommand
  Async = {FALSE}
SPECIFICATION Spec
SYMMETRY Swap
INVARIANTS
  TypeOK
  StreamsWhole
  SenderOrder
PROPERTIES
  KeepsLog
CHECK_DEADLOCK FALSE
