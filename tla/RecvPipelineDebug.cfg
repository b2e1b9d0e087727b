CONSTANTS
  BufferSize = 5
  PackSize = 2
  MaxBytes = 13
  Build = "debug"
  ParseBlocks = TRUE
SPECIFICATION Spec
INVARIANT StaysInPool
