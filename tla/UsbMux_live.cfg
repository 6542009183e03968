SPECIFICATION Spec
CONSTANTS
    Conns = {c1, c2}
    None = None
    PortMod = 3
    TxCap = 1
    RxCap = 1
    ShardOf <- OneShard
    DevCap = 1
    MaxData = 2
    MaxResets = 0
    MaxReads = 0
    Endings = {"unplug"}
INVARIANTS
    LiveConnRouted
PROPERTIES
    CloseCompletesUnlessStuck
    ShutdownEndsConnections
CHECK_DEADLOCK FALSE
