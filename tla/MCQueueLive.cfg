SPECIFICATION FairSpec
CONSTANTS
  Irps = {i1, i2}
  Ops <- LiveOps
  DevLen = 1
  Protected = {}
  InitialAreas = {1}
  IsFilterDevice = TRUE
  ItemCount = 2
  RequestCount = 1
  MaxWorkItems = 1
  MaxHolds = 1
  HoldTimesOut = FALSE
  MayFail = FALSE
  MayStop = TRUE
INVARIANTS WorkItemAvailable StopDrains OutstandingExact
PROPERTIES EveryIrpCompletes HoldEnds StopEnds
CHECK_DEADLOCK FALSE
CONSTRAINTS HoldOrStop OneWriter
