SPECIFICATION Spec
CONSTANTS
    MaxId = 2
    MaxConns = 2
    BatchSize = 1
    Cap = 1
    MaxPings = 2
    MaxEpoch = 1
    Careful = TRUE
INVARIANTS
    NothingLost
PROPERTIES
    FollowsLog
    EventsArrive
CHECK_DEADLOCK FALSE
