CONSTANTS
  BufferSize = 5
  PackSize = 2
  MaxBytes = 13
  Build = "release"
  ParseBlocks = TRUE
SPECIFICATION FairSpec
INVARIANTS
  InOrder
  NoStrandedData
PROPERTIES
  DropOnlyWhenFull
  EveryByteParsed
