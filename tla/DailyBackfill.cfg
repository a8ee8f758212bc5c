SPECIFICATION FairSpec
CONSTANTS
  Days = {1, 2, 3}
  ChunkDays = 1
  Ranges <- MCRanges
  MaxRuns = 5
  MaxFaults = 1
  MaxDelays = 1
CHECK_DEADLOCK FALSE
INVARIANTS TypeOK LateHandOffOnce LiveShardKeepsRunning
PROPERTIES EventuallyBackfilled
