SPECIFICATION Spec
CONSTANTS
  Period = 2
  Kept = 2
  Timeout = 2
  CacheAge = 1
  Aheads <- MCAheads
  MaxTime = 9
  MaxRate = 1
INVARIANTS
  TypeOK
  RatesMakeSense
  MemoryBounded
CHECK_DEADLOCK FALSE
