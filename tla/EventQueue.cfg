SPECIFICATION Spec
CONSTANTS
  Event = {e1, e2, e3, e4}
  Conn = {c1, c2, c3, c4}
  NoConn = NoConn
  Limit = 2
  MaxOutages = 2
  MaxTimeouts = 1
SYMMETRY Symmetry
CHECK_DEADLOCK FALSE
INVARIANTS TypeOK ConnectionIsExclusive CounterIsRight OutagesLoseNothing UnsentIsOnce
