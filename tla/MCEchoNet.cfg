SPECIFICATION FairSpec
CONSTANTS
  MaxConns = 2
  Fds <- MCFds
  MaxStarts = 2
  Bytes = 1
  Room = 1
  Cap = 1
  ReadBudget = 1
  WriteBudget = 2
  AcceptBudget = 2
INVARIANTS TypeOK TableMatches CallsLive
PROPERTY GoneIsFreed
CHECK_DEADLOCK FALSE
