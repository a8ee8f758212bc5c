SPECIFICATION FairSpec
CONSTANTS
  AllSafes = {1, 2}
  OldSafes <- MCOldSafes
  Workers = {w1, w2}
  MaxSeed = 1
  ChunkSize = 2
  Floor = 1
  MaxBlock = 2
  MaxRuns = 3
  Mishaps <- MCMishaps
CHECK_DEADLOCK FALSE
INVARIANTS TypeOK RowsAreExact
PROPERTIES EventuallyHandedOver
