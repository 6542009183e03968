SPECIFICATION Spec
CONSTANTS
    Backends <- MCBackends
    Opaques = {1, 2}
    MaxPlugs = 3
INVARIANTS
    TypeOK
    DrainedFeedExact
    DoublesOnlyFromStart
PROPERTIES
    FeedSettles
CHECK_DEADLOCK FALSE
