SPECIFICATION Spec
CONSTANTS
    Conns = {c1}
    None = None
    PortMod = 2
    TxCap = 1
    RxCap = 1
    ShardOf <- OneShard
    DevCap = 1
    MaxData = 1
    MaxResets = 0
    MaxReads = 0
    Endings = {"unplug"}
PROPERTY
    UnplugForgetsDevice
CHECK_DEADLOCK FALSE
