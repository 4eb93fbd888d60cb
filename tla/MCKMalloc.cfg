CONSTANTS
  g1 = g1
  g2 = g2
  g3 = g3
  Page = {g1, g2, g3}
  STACK = STACK
  NULL = NULL
  BLOCKSIZE <- Blocksize3
  NBLOCKS <- Nblocks3
  Request = {1500, 2032, 2033, 2049}
  BootSize = 124
  Nesting = 1
SPECIFICATION FairSpec
INVARIANTS HeapExact
PROPERTIES GivesBackUnused CallsReturn
CHECK_DEADLOCK FALSE
