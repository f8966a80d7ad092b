CONSTANTS
    c1 = c1
    c2 = c2
    None = None
    Conns <- MCConns
    MaxPool = 2
    Programs <- Resending
    MaxTimers = 0
    MaxQueue = 2
SPECIFICATION Spec
INVARIANTS
    NoAssertFails
CHECK_DEADLOCK FALSE
