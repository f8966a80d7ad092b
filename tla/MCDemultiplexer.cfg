CONSTANTS
    c1 = c1
    c2 = c2
    c3 = c3
    None = None
    Chans <- MCChans
    Fds = {3, 4, 5}
    Uses <- MCUses
    InitEventListSize = 1
    MaxSize = 4
SPECIFICATION Spec
INVARIANTS
    TypeOK
    TablesAgree
    NoAssertFails
PROPERTIES
    ImplementsSelector
    DueIsReported
