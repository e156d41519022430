SPECIFICATION Spec
CONSTANTS
  Pages = {1, 2, 3, 4, 5, 6}
  SLAB_SIZE = 8
  SlabHeader = 1
  DCacheLine = 2
  PaeEntries = 2
  NoPaeEntries = 3
  KlimitDirectory = 3
  KlimitEntry = 2
  KernelDirectory = 7
  Systems <- MCSystems
  Procs = {p1, p2}
  MaxThreads = 1
  MaxMisuse = 1
INVARIANTS
  PdptReloaded
CHECK_DEADLOCK FALSE
