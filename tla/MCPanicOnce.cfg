CONSTANTS
  c1 = c1
  c2 = c2
  NONE = NONE
  Cpu = {c1, c2}
  MaxStack = 6
SPECIFICATION Spec
INVARIANT PanicOnlyWhereThrown
CHECK_DEADLOCK FALSE
