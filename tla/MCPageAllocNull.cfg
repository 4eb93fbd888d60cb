CONSTANTS
  Level = 1
  Pow <- MCPow
  Base = 3
  Total = 6
  PageBytes = 8
  Word = 1024
  Structs = {s1}
  Wild = Wild
  PgSizes = {1, 2}
  Aligns = {2}
  MaxOwned = 2
  MaxCalls = 5
  FlagSets = {{}}
  Strays = {4}
SPECIFICATION Spec
INVARIANT NeverHandedTwice
SYMMETRY Sym
CHECK_DEADLOCK FALSE
