SPECIFICATION Spec
CONSTANTS
    Serials = {s1}
    None = None
    Listeners = {}
    EventCap = 1
    IoCap = 1
    MaxId = 4
    MaxPlugs = 2
    MaxAgain = 2
    MaxIoErrors = 2
    Adders = {}
INVARIANT
    UsbEntryWatched
PROPERTY
    UnpluggedForgotten
CHECK_DEADLOCK FALSE
