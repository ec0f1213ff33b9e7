SPECIFICATION FairSpec
CONSTANTS
  Workers = {w1, w2}
  Callers = {c1, c2}
  KeyCallers = {c2}
  QueueSize = 2
  UnitCounts = {1, 3}
  MaxCalls = 2
  MayStop = TRUE
INVARIANTS TypeOK OwnGroupCounted EachUnitOnce ExceptionReported
PROPERTIES CallsReturn StopReturns
CHECK_DEADLOCK FALSE
