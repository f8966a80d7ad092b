CONSTANTS
    c1 = c1
    c2 = c2
    c3 = c3
    c4 = c4
    Clients <- MCClients
    MaxThreads = 3
    MaxConns = 2
SPECIFICATION Spec
INVARIANTS
    TypeOK
    Balanced
    NobodyLost
PROPERTIES
    AcceptedInTheEnd
