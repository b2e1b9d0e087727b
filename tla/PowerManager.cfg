SPECIFICATION Spec
CONSTANTS
    Worker = {"main", "mfbd"}
    Period = 3
    IdleDelay = 2
    AlarmMayFail = TRUE
    MaxCommands = 3
INVARIANTS WorkConserving StopHasWakeup RestoredWhenAwake SleepIsRequested
PROPERTIES StopEnds SecondEntryRestores
CHECK_DEADLOCK FALSE
