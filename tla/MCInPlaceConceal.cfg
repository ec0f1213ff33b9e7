SPECIFICATION Spec
CONSTANTS
  N = 5
  O = 1
  ChunkSize = 2
  Interval = 4
  MaxStarts = 2
  MaxFailures = 0
  MaxCrashes = 1
INVARIANTS ResumedSafely
ACTION_CONSTRAINT LossAfterCheck
CHECK_DEADLOCK FALSE
