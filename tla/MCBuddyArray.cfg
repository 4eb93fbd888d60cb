CONSTANTS
  Level = 2
  Pow <- MCPow
SPECIFICATION Spec
INVARIANT NodesFitArray
CHECK_DEADLOCK FALSE
