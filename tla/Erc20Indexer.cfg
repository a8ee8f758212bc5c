SPECIFICATION Spec
CONSTANTS
  Procs = {p1}
  Safes = {"s1", "s2"}
  Transfers <- MCTransfers
  CreatedIn <- MCCreatedIn
  KnownSafes = {"s1"}
  Regular = "regular"
  Command = "command"
  Limits = {2}
  BlockProcessLimitMax = 2
  BlocksToReindexAgain = 1
  LoadChunk = 1
  NumberOfAddresses = 2
  EthReorgBlocks = 1
  Hours = 2
  ReindexLimit = 1
  LateCommits = FALSE
  MaxHead = 2
  MaxBusy = 2
  MaxTroubles = 1
CHECK_DEADLOCK FALSE
INVARIANTS TypeOK 
PROPERTIES EventuallyStored
