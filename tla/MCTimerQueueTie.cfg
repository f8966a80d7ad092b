CONSTANTS
    Timers <- MCTimers
    Repeating <- MCRepeating
    Interval = 2
    MaxTime = 5
    MaxSets = 0
SPECIFICATION Spec
INVARIANTS
    NoAssertFails
