SPECIFICATION Spec
CONSTANTS
  Base = 16
  MaxDepth = 2
  BufLines = 5
  KeepLast = 1
  MinDrop = 2
  ChangesMax = 2
  MaxLine = 1
  Users <- MCUsers
  Views = 1
  Rows = 2
  MaxDamage = 3
  Here = 1
  There = 2
  MaxOps <- StoreOps
INVARIANTS NewestStay NoTwins
PROPERTY TailIsLastWithRoom
CHECK_DEADLOCK FALSE
