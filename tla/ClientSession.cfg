SPECIFICATION Spec
CONSTANTS
    Sessions = {s1, s2}
    short = short
    long = long
    Records = {short, long}
    Size <- TwoSizes
    None = None
    MaxRequests = 2
INVARIANTS
    TypeOK
    OneAnswerEach
    OkMeansStored
    BuidAgreed
PROPERTY
    SessionEnds
CHECK_DEADLOCK FALSE
