SPECIFICATION Spec
CONSTANTS
  Irps = {i1}
  Ops <- HoldOps
  DevLen = 2
  Protected = {}
  InitialAreas = {1}
  IsFilterDevice = TRUE
  ItemCount = 2
  RequestCount = 2
  MaxWorkItems = 1
  MaxHolds = 0
  HoldTimesOut = TRUE
  MayFail = FALSE
  MayStop = TRUE
SYMMETRY Symmetry
INVARIANTS PoolIdleWhenFreed
CHECK_DEADLOCK FALSE
