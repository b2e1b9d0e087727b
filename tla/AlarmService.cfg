SPECIFICATION AlarmSpec
CONSTANTS
    Day = 7
    Intervals = {3, 5}
    RT_ALARM_DELAY = 2
    ServiceLag = 2
    CommandLag = 1
    MaxAlarms = 3
    MaxTime = 18
INVARIANTS CurrentIsListed ArmedForStarted NeverMissed
PROPERTY EveryAlarmRings
CHECK_DEADLOCK FALSE
