SPECIFICATION Spec
CONSTANTS
  Modes = {"loader", "queue", "mmu", "smp", "trap", "intr", "memory"}
  SECTSIZE = 2
  REG = 2
  LBA = 1
  Addr = {0,1,2,3,4,5,6,7,8,9,10,11,12,13,14,15}
  Images <- MCImages
  KERN_BASE = 16
  KMMAP_BASE = 20
  RESERVED_BASE = 24
  DEVSPACE = 28
  DEVSIZE = 4
  KERN_START = 1
  Top = 31
  PIECE = 2
  EXTRA = 2
  QUEUE_LENGTH = 3
  Ends = {1, 2, 3, 4, 5}
  Sizes = {1, 2, 3}
  NCPU = 3
  BSP = 0
  APs = {1, 2, 3}
  Tables <- MCTables
  Vectors = {0, 13, 17, 32, 46, 51, 70, 128}
  MaxNest = 3
  Irqs = {1, 4, 14}
  Cpus = {0, 1, 3}
  MaxIntr = 15
  Maps <- MCMaps
  Stale = {0, 1}
  Leftover <- MCLeftover
  TableSize = 5
  WORD = 64
  PGSIZE = 4
  ImageEnds = {7, 8, 9, 13}
INVARIANTS ImageLoaded MappingsApart ImageStaysMapped ProcessorsApart TrapUndone ControllersExact AreaRight
PROPERTY BootingEnds
CHECK_DEADLOCK FALSE
