CONSTANTS
  c1 = c1
  c2 = c2
  L = L
  Clients = {c1, c2}
  PendingMax = 5
  AppliedMax = 2
  Leavers = {}
  Actor <- Actors
  Lines <- Color
  MaxJoins = 1
  MaxHlc = 3
  Budgets <- Drags
  MaxId = 2
SPECIFICATION Spec
INVARIANTS
  ColoursConverge
CHECK_DEADLOCK FALSE
