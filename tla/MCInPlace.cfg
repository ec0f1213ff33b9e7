SPECIFICATION Spec
CONSTANTS
  N = 7
  O = 2
  ChunkSize = 3
  Interval = 6
  MaxStarts = 3
  MaxFailures = 1
  MaxCrashes = 2
INVARIANTS TypeOK FinishedLeavesNothing TracesAgree MountTellsTruth
PROPERTIES IsSafeConversion
CHECK_DEADLOCK FALSE
