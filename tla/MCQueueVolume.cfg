SPECIFICATION Spec
CONSTANTS
  Irps = {i1, i2}
  Ops <- ProtectOps
  DevLen = 3
  Protected = {2}
  InitialAreas = {3}
  IsFilterDevice = FALSE
  ItemCount = 1
  RequestCount = 3
  MaxWorkItems = 1
  MaxHolds = 0
  HoldTimesOut = TRUE
  MayFail = TRUE
  MayStop = FALSE
SYMMETRY Symmetry
INVARIANTS ProtectionHolds FragmentBuffersExclusive PoolBuffersLive
PROPERTIES IsTransparentDisk
CHECK_DEADLOCK FALSE
