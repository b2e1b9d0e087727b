CONSTANTS
  Msg <- MCMsg
  Links <- MCLongBlocks
  PackSize = 4
  MaxLen = 5
SPECIFICATION Spec
INVARIANT HeaderAccepted
CHECK_DEADLOCK FALSE
