CONSTANTS
  Memo = {"m1", "m2"}
  Weather = {"w1", "w2"}
  MaxSaves = 3
  MaxCuts = 3
  CutInSave = TRUE
  FlashMayFail = TRUE
SPECIFICATION StoreSpec
INVARIANTS
  FileIsLastSave
  ConfiguredUnlessSpoilt
PROPERTY RestartRestores
CHECK_DEADLOCK FALSE
