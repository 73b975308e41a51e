CONSTANTS
  a = a
  b = b
  c = c
  Nodes = {a, b, c}
  MaxLinks = 2
  MaxPeers = 2
  Seeds <- Chain
  Movers = {b}
  Mortal = {b}
  MaxOps <- OneCommand
SPECIFICATION FairSpec
INVARIANTS
  TypeOK
  HeardOnce
  CrossesOnce
  LinkAgree
PROPERTIES
  Spreads
CHECK_DEADLOCK FALSE
