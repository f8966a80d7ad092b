CONSTANTS
    Timers <- MCTimers
    Repeating <- MCRepeating
    Interval = 2
    MaxTime = 5
    MaxSets = 1
SPECIFICATION Spec
INVARIANTS
    TypeOK
    ArmedInTime
PROPERTIES
    FailsAsForeseen
    TimersRun
    ImplementsTimetable
CHECK_DEADLOCK FALSE
