CONSTANTS
    own = own
    t1 = t1
    a = a
    b = b
    c = c
    Threads <- MCThreads
    Tasks <- MCTasks
    EarlyTasks <- MCEarly
    Owner <- own
SPECIFICATION ThreadSpec
CHECK_DEADLOCK FALSE
INVARIANTS
    ThreadTypeOK
    NoLostWakeup
    StartedLoopExists
PROPERTIES
    ImplementsTaskQueue
    QueuedRuns
    QuitStops
    StartReturns
    JoinReturns
