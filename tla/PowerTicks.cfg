SPECIFICATION Spec
CONSTANTS
    Worker = {"main", "mfbd"}
    Period = 3
    IdleDelay = 2
    AlarmMayFail = FALSE
    MaxCommands = 3

PROPERTIES TicksResume
CHECK_DEADLOCK FALSE
