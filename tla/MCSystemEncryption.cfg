SPECIFICATION FairSpec
CONSTANTS
  Size = 3
  BlockSize = 2
  Threshold = 2
  MaxStarts = 2
  MaxCrashes = 1
  MaxShutdowns = 1
  MaxFailures = 1
  MaxPasswords = 1
INVARIANTS TypeOK SuccessIsSaved NoStaleHeaderWrite
PROPERTIES IsSafeConversion AbortReturns SetupEnds
