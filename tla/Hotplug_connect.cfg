SPECIFICATION Spec
CONSTANTS
    Serials = {s1}
    None = None
    Listeners = {l1}
    EventCap = 1
    IoCap = 1
    MaxId = 1
    MaxPlugs = 1
    MaxAgain = 0
    MaxIoErrors = 0
    Adders = {}
PROPERTY
    ConnectIsBroadcast
CHECK_DEADLOCK FALSE
