SPECIFICATION DisplaySpec
CONSTANTS
  Queries = {"arm_memory", "serial"}
  Leftovers <- MCLeftovers
  FifoDepth = 3
  MaxNoise = 1
  Tags <- MCTags
  U32 = 1024
  Coords = {0, 1, 3, 5}
  Extents = {0, 1, 2, 3}
  Ink <- MCInk
  Guard = 4
  MaxCalls = 1
  VGA_COLS = 2
  VGA_ROWS = 2
  Printed = {"a"}
  Colors = {"gray", "red"}
  Default = "gray"
  MaxScrolls = 1
INVARIANTS AnswersMatchCalls
PROPERTIES MailboxReturns ImplementsCanvas ImplementsTerminal
CHECK_DEADLOCK FALSE
