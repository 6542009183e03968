SPECIFICATION Spec
CONSTANTS
    Serials = {s1}
    None = None
    Listeners = {l1}
    EventCap = 2
    IoCap = 1
    MaxId = 2
    MaxPlugs = 1
    MaxAgain = 1
    MaxIoErrors = 1
    Adders = {a1, a2}
SYMMETRY Symmetry
INVARIANTS
    TypeOK
    ListedOnce
    NetworkGhostsLeave
CHECK_DEADLOCK FALSE
