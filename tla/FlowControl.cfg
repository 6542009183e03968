SPECIFICATION Spec
CONSTANTS
    W = 7
    Unit = 2
    MaxPayload = 2
    TxCap = 1
    RxCap = 1
    Buf = 3
    HostWindow = 3
    ClientBytes = 7
    DevBytes = 2
    MaxRead = 3
INVARIANTS
    TypeOK
    WindowRespected
    DeviceSeesContiguousBytes
    AckedBytesTaken
    NothingElseLost
PROPERTY
    StallEnds
CHECK_DEADLOCK FALSE
