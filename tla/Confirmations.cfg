SPECIFICATION Spec
CONSTANTS
  Owners = {o1, o2}
  NonceOf <- MCNonceOf
  Threshold = 1
  Clients = {c1, c2}
  BatchSize = 2
  MaxCalls = 3
  MaxReorgs = 1
  MaxRequests = 3
SYMMETRY MCSymmetry
CHECK_DEADLOCK FALSE
INVARIANTS TypeOK BoundIsTrusted RowsAreOnChain
PROPERTIES SignersConfirmed
