CONSTANTS
  t1 = t1
  t2 = t2
  t3 = t3
  s1 = s1
  s2 = s2
  Free = Free
  Topics = {t1, t2, t3}
  Slots = {s1, s2}
  InstOf <- MCInstOf
  NBackends = 3
  Prio <- MCPrio
  Caps <- MCCaps
  SyncBackends = {0, 2}
  FlakyBackends = {0, 1}
  HubCaps <- MCHubCaps
  SnapshotTopics = {t1}
  MaxRoutes = 2
  Pins <- MCPins
  ReqCaps <- MCReqCaps
  Targets <- MCTargets
  MaxOps = 2
SPECIFICATION Spec
SYMMETRY Bystanders
INVARIANTS
  TypeOK
  ListenerPlacement
  BufferDrained
  HandedOverOnce
  ConfirmedOnce
  PolicyScanIsBest
PROPERTIES
  PinHolds
