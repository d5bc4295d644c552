SPECIFICATION DevicesSpec
CONSTANTS
  None = None
  Cards <- MCCards
  BLOCK_SIZE = 2
  BlockCount = 3
  MaxRetries = 2
  Word = 4
  Reload = 8
  PitMax = 9
  Million = 5
  PIT_FREQUENCY_HZ = 6
  Delays = {2, 3}
  Intervals = {2, 3}
  MaxLag = 2
  MaxTime = 12
  Texts <- MCTexts
  Configs <- MCConfigs
  FifoDepth = 2
  PL011_CLOCK_HZ = 200
  UART_CLOCK_HZ = 1840
  DivMax = 120
  U32 = 256
  MaxOut = 3
  MaxIn = 3
INVARIANTS RightBlocks TimersRight SerialSound
PROPERTIES DriverReturns SerialReturns
CHECK_DEADLOCK FALSE
