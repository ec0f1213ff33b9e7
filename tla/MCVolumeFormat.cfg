SPECIFICATION Spec
CONSTANTS
  Sizes = {4, 6, 9}
  OldSize = 4
  BufferSize = 2
  MaxJobs = 3
  MaxFailures = 2
  MaxCrashes = 2
INVARIANTS TypeOK SuccessMeansWritten VolumeOpens
