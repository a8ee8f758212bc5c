SPECIFICATION FairRollupSpec
CONSTANTS
  MaxSafe = 3
  OldCounts = {2}
  MaxBlock = 3
  BalanceAfter <- MCBalanceAfter
  Heavy = {3}
  PgWhales = {1, 2}
  Workers = {w1, w2}
  FirstHead = 2
  ChunkSize = 2
  ChunkFloor = 1
  RangeSize = 2
  RangeFloor = 1
  TaskChunks = 1
  MaxSeed = 1
  Overlap = FALSE
  TornStart = FALSE
  Slow = FALSE
  MaxRuns = 3
  Mishaps <- MCMishaps
CHECK_DEADLOCK FALSE
INVARIANTS RollupTypeOK RollupIsExact
PROPERTIES EventuallyHandedOver
