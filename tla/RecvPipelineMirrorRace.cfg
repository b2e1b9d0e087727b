CONSTANTS
  BufferSize = 4
  PackSize = 2
  MaxBytes = 8
  Build = "debug"
  ParseBlocks = TRUE
SPECIFICATION Spec
INVARIANT FullMeansFull
