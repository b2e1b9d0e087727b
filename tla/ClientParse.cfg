CONSTANTS
  Msg <- MCMsg
  Links <- MCLinks
  PackSize = 3
  MaxLen = 5
SPECIFICATION FairSpec
INVARIANTS
  OwnsItsFile
  CleanStart
  RestsInNoneOrData
  StoredAsReceived
  CrcAccepts
PROPERTIES
  OnlyAppends
  CallReturns
  EveryMessageStored
  MessageEnds
CHECK_DEADLOCK FALSE
