SPECIFICATION FairSpec
CONSTANTS
  Workers = {w1, w2}
  ThreadCount = 2
  PrfCount = 3
INVARIANTS TypeOK EveryPrfTriedOnce ResultNamesPrf FreeItemsUntouched
PROPERTIES ReaderReturns
CHECK_DEADLOCK FALSE
