CONSTANTS
  Page = {0, 1}
  MaxPass = 2
  MaxUpdates = 1
  MaxEvents = 2
SPECIFICATION Spec
INVARIANTS
  PanelShowsUi
  RefreshScheduled
  DataBeforeDisplay
PROPERTIES
  AssertionsHold
  LabelMovesForward
  RefreshEnds
  ClearEnds
CHECK_DEADLOCK FALSE
