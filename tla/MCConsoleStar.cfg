CONSTANTS
  c1 = c1
  c2 = c2
  L = L
  Clients = {c1, c2}
  PendingMax = 5
  AppliedMax = 2
  Leavers = {c2}
  Actor <- Actors
  Lines <- Color
  MaxJoins = 2
  MaxHlc = 3
  Budgets <- EditOrDrags
  MaxId = 6
SPECIFICATION FairSpec
INVARIANTS
  TypeOK
  AppliedOnce
  HearsAll
  ColoursAgree
PROPERTIES
  SpeculationEnds
CHECK_DEADLOCK FALSE
