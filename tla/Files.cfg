SPECIFICATION FilesSpec
CONSTANTS
  Nil = Nil
  Opens <- MCOpens
  Mounts <- MCMounts
  RootFiles <- MCRootFiles
  Devices <- MCDevices
  SeekOffsets <- MCSeekOffsets
  RootSize = 1
  FbSize = 1
  BufLens = {1}
  MaxFds = 5
  MaxOpen = 3
  MaxMoved = 1
  MaxFlagged = 1
  MaxOffset = 2
  MaxHandles = 1
  Root = 2
  Volumes <- MCVolumes
  DirPaths <- MCDirPaths
  Fold <- MCFold
INVARIANTS FramebufferInBounds NamesFound
PROPERTY ImplementsDescriptorMap
CHECK_DEADLOCK FALSE
