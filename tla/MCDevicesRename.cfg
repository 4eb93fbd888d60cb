SPECIFICATION Spec
CONSTANTS
  Pool <- MCPool
  Clients = {"d1", "d2"}
  ClientNos = {1, 9}
  Devtrees <- MCDevtrees
  Cpus = {c0, c1}
  BootCpu = c0
  Text <- MCText
  Input <- MCInput
  Builds = {TRUE, FALSE}
  BITS_PER_LONG = 4
  LONG_SIZE = 2
  MaxBits = 7
  WSIZE = 4
  MemSize = 12
  PORTS = 16
  Formats <- MCFormats
  BusChains <- MCBusChains
  Modes = {"devices"}
INVARIANT RenamesSame
CHECK_DEADLOCK FALSE
