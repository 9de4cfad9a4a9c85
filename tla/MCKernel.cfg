SPECIFICATION Spec
CONSTANTS
  k1 = k1
  KThread = {k1}
  p1 = p1
  p2 = p2
  Program = {p1, p2}
  WithArgs = {p1}
  j1 = j1
  Joiner = {j1}
  NoThread = NoThread
  CountMod = 4
  Worker = {1, 2}
  i1 = i1
  i2 = i2
  Item = {i1, i2}
  None = None
  MayFail = TRUE
  HeapSize = 200
  HeaderSize = 24
  KHEAP_MIN_BLOCK_SIZE = 16
  Request = {1, 20, 50}
  t1 = t1
  t2 = t2
  HeapThread = {t1, t2}
  BlocksCount = 7
  BlocksPerGroup = 4
  InodesPerGroup = 2
  Slots = 3
  Direct = 1
  Ptrs = 1
  Path <- TwoNames
  Content <- TwoBlocks
  MaxCrashes = 1
  SHELL_HISTORY_SIZE = 2
  SHELL_LINE_MAX = 3
  Letter = {"a", "b"}
  Octet = {100}
  Preset = {}
  Memmap <- Memories
  PMM_MAX_MEMORY = 128
  PMM_BLOCK_SIZE = 4
  BlocksPerByte = 8
  LowMemory = 8
  HEAP_PAGES = 2
  KernelEntries <- HigherHalf
  Prog = {1, 2}
  Image <- CodeAndStack
  MaxPreemptions = 2
  Preempted = FALSE
  Tested = {"lifecycle", "pool", "heap", "volume", "shell", "frames"}
INVARIANTS   WorkExact HeapSound   CountersExact SavedReadsBack FramesSound
PROPERTIES AcceptedGetsRun 
