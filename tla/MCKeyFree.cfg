SPECIFICATION Spec
CONSTANTS
  Workers = {w1, w2}
  ThreadCount = 2
  PrfCount = 3
INVARIANTS FreedAfterWorkers
CHECK_DEADLOCK FALSE
