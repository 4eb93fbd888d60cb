CONSTANTS
  g1 = g1
  g2 = g2
  g3 = g3
  Page = {g1, g2, g3}
  STACK = STACK
  NULL = NULL
  BLOCKSIZE <- Blocksize3
  NBLOCKS <- Nblocks3
  Request = {200, 1500}
  BootSize = 124
  Nesting = 1
SPECIFICATION Spec
INVARIANT BootstrapPageHidden
CHECK_DEADLOCK FALSE
