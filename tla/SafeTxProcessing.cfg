SPECIFICATION FairSpec
CONSTANTS
  o1 = o1  o2 = o2
  NumRows = 6
  Call <- MCCall
  Timestamp <- MCTimestamp
  NoStatus = NoStatus
  BatchSize = 2
  Together = FALSE
  Overlap = FALSE
  SplitBlocks = FALSE
  MaxUpsets = 3
INVARIANTS TypeOK HistoryIsReplay SettledIsReplay
PROPERTIES ImplementsLedger EventuallySettled
CHECK_DEADLOCK FALSE
