CONSTANTS
  m1 = m1
  m2 = m2
  MM = {m1, m2}
  Frames = {1, 2, 3, 4, 5, 6, 7, 8}
  NULL = NULL
  PAGE_SIZE = 2
  NPTENTRIES = 2
  NPDENTRIES = 2
  Flags <- MCFlags
  Val = {0, 1}
  Data <- MCData
  Addr = {0, 2, 4}
  Lens = {0, 1, 2, 4}
  MaxCalls = 3
SPECIFICATION Spec
INVARIANTS VmaRules Conserved
PROPERTIES CopiesExact CloneExact
SYMMETRY MCSymmetry
CHECK_DEADLOCK FALSE
