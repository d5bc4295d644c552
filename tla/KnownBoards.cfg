SPECIFICATION KernelSpec
CONSTANTS
  Lines <- TimerAndUart
  TimerLine = 1
  Registered <- TimerHandler
  DeviceSets <- DeviceChoices
  Starts = {"kernel_init", "main_loop"}
  CPUs <- TwoCPUs
  MaxNest = 2
  Pids <- MCPids
  Class <- MCClass
  CycleMod = 16
  None = None
  Builds <- PiBuilds
  PageSize = 4
  HeapCap = 16384
  AddressSpace = 4194304
  MAX_MEMORY_REGIONS = 4
  MAX_DEVICES = 5
  TIMER_BASE <- TimerBase
  EMMC_BASE <- EmmcBase
  Rank <- AlphabeticalRank
  DeviceTrees <- MCTrees
  Compatibles <- SomeCompatibles
  FirmwareMaps <- PcMaps
  FirmwareTags <- MCTags
  Trees <- TreeMemory
  Midrs <- PiMidrs
  Boards <- PiBoards
  FallbackRam <- PcRam
  IsaHole <- PcIsaHole
INVARIANT KnownBoardsBoot
