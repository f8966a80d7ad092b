CONSTANTS
    c1 = c1
    c2 = c2
    None = None
    Conns <- MCConns
    MaxPool = 2
    Programs <- Closing
    MaxTimers = 2
    MaxQueue = 2
SPECIFICATION Spec
INVARIANTS
    NoneUsedFreed
CHECK_DEADLOCK FALSE
