SPECIFICATION Spec
CONSTANTS
  Irps = {i1, i2}
  Ops <- HoldOps
  DevLen = 2
  Protected = {}
  InitialAreas = {1}
  IsFilterDevice = TRUE
  ItemCount = 2
  RequestCount = 2
  MaxWorkItems = 1
  MaxHolds = 1
  HoldTimesOut = TRUE
  MayFail = FALSE
  MayStop = FALSE
SYMMETRY Symmetry
INVARIANTS TypeOK HeldMeansQuiescent MediumMatchesArea ReadAheadCoherent
PROPERTIES IsTransparentDisk
CHECK_DEADLOCK FALSE
