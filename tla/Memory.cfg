SPECIFICATION MemorySpec
CONSTANTS
  MaxOrder = 2
  BlockSize <- MCPageBlockSize
  Base = 3
  Limit = 9
  HeapBase = 12
  HeapLimit = 32
  HeapBlockSize <- MCHeapBlockSize
  Sizes = {0, 2, 3, 14}
  Aligns = {1, 2, 4}
  Tasks = {t1, t2}
  MaxLive = 3
  Kinds = {"Page", "PageBlock", "L1Table", "L2Table"}
  BlockOrder = 1
  NoEntry = NoEntry
  PageSize = 2
  PdEntries = 4
  PtEntries = 2
  PoolCount = 2
  TablePages = {2}
  X86Maps <- MCX86Maps
  X86Unmaps <- MCX86Unmaps
  SectionSize = 2
  L1Entries = 7
  Ram <- MCRam
  Peripherals <- MCPeripherals
  Vectors = 1
  TableSection = 0
  ArmMaps <- MCArmMaps
  ArmUnmaps <- MCArmUnmaps
SYMMETRY TaskSymmetry
INVARIANTS HeapSound ReallocSourceKept DropReturnsWhatAllocTook FreshIsZero TlbCoherent TablesRight
