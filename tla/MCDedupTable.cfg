CONSTANTS
  k1 = k1
  k2 = k2
  k3 = k3
  k4 = k4
  Empty = Empty
  Keys = {k1, k2, k3, k4}
  DedupCap = 2
  MaxHash = 6
SPECIFICATION TableSpec
INVARIANT TableIsSet
