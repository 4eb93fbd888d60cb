CONSTANTS
  Level = 2
  Pow <- MCPow
  Base = 3
  Total = 13
  PageBytes = 8
  Word = 1024
  Structs = {s1, s2, s3}
  Wild = Wild
  PgSizes = {0, 1, 2}
  Aligns = {4}
  MaxOwned = 2
  MaxCalls = 5
  FlagSets = {{"zero"}, {"unsafe"}}
  Strays = {4}
SPECIFICATION Spec
INVARIANT HandedOnceUnlessShared
PROPERTY PagesKept
SYMMETRY Sym
CHECK_DEADLOCK FALSE
