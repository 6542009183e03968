SPECIFICATION Spec
CONSTANTS
    Conns = {c1, c2}
    None = None
    PortMod = 3
    TxCap = 1
    RxCap = 2
    ShardOf <- OneShard
    DevCap = 1
    MaxData = 2
    MaxResets = 1
    MaxReads = 1
    Endings = {"cleanup"}
SYMMETRY Symmetry
INVARIANTS
    TypeOK
    StreamsInOrder
    PacketsForOpenPeers
CHECK_DEADLOCK FALSE
