CONSTANTS
    Byte <- MCByte
    Zero = 0
    CheapPrepend = 1
    InitialSize = 2
    Messages <- MCMessages
    t1 = t1
    Threads <- MCThreads
    LoopThread = LoopThread
    Sender <- MCSender
    None = None
    Incoming <- MCIncoming
    ExtraSize = 1
SPECIFICATION Spec
INVARIANTS
    TypeOK
    BuffersOK
    WritingWhileWaiting
    InputInOrder
    LoopSendsArrive
PROPERTIES
    ImplementsOutput
    OutputDrains
    ShutInTheEnd
CHECK_DEADLOCK FALSE
