SPECIFICATION Spec
CONSTANTS
    RENEWAL_INTERVAL = 2
    ASSERTION_TIMEOUT = 4
    MaxWait = 5
INVARIANTS
    TypeOK
    ClosedMeansTwoMisses
    RegisteredIsWatched
    AssertionCovers
PROPERTIES
    DeadDeviceLeaves
    NothingOutlivesDevice
    HotplugSpec
CHECK_DEADLOCK FALSE
