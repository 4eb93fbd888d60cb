CONSTANTS
  Modes = {"proc", "sleep"}
  c1 = c1
  c2 = c2
  c3 = c3
  p1 = p1
  p2 = p2
  p3 = p3
  NULL = NULL
  Ctx <- MCCtx
  gs <- MCgs
  CPU <- MCCPU
  NoCpu = NoCpu
  MaxDepth = 2
  User <- MCUser
  NoUser = NoUser
  Val = 1
  MaxRaise = 1
  ProcMem <- MCProcMem
  Stack <- MCStack
  Null = Null
  MAX_PROCESSES = 4
  Cpus <- MCCPU
  Procs <- MCProcs
  Free = Free
  HEAD = HEAD
SPECIFICATION MCSpec
INVARIANT KpidsUnique
PROPERTY SleepsUntilWoken
CHECK_DEADLOCK FALSE
