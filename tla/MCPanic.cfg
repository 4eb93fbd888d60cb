CONSTANTS
  c1 = c1
  c2 = c2
  NONE = NONE
  Cpu = {c1, c2}
  MaxStack = 8
SPECIFICATION FairSpec
INVARIANTS LinesNotMixed LockAccounted
PROPERTIES PanicStopsAll
CHECK_DEADLOCK FALSE
