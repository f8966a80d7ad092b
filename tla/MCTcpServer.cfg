CONSTANTS
    c1 = c1
    c2 = c2
    None = None
    Conns <- MCConns
    MaxPool = 2
    Programs <- MCPrograms
    MaxTimers = 1
    MaxQueue = 2
SPECIFICATION Spec
INVARIANTS
    TypeOK
    NoFault
    HandlersAlive
    RegisteredAlive
    RemovedOnce
    QuietOnceClosed
    InLoopThread
PROPERTIES
    ImplementsLifecycle
    ClosedInTheEnd
    StaysGone
CHECK_DEADLOCK FALSE
