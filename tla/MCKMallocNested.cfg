CONSTANTS
  g1 = g1
  g2 = g2
  g3 = g3
  Page = {g1, g2}
  STACK = STACK
  NULL = NULL
  BLOCKSIZE <- Blocksize3
  NBLOCKS <- Nblocks3
  Request = {1500}
  BootSize = 124
  Nesting = 2
SPECIFICATION Spec
INVARIANT HandedOnce
CHECK_DEADLOCK FALSE
