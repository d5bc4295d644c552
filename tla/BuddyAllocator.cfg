SPECIFICATION FairSpec
CONSTANTS
  MinBlockSize = 2
  MaxOrder = 2
  StartAddr = 5
  EndAddr = 23
  BlockSize <- MCBlockSize
INVARIANTS
  NoOverlap
  NoLeak
  NoInternalFragmentation
PROPERTIES
  CallsReturn
  ImplementsBlockAllocator
