SPECIFICATION MCSpec
CONSTANTS
    Replicas = {"r1", "r2"}
    Bindings <- TwoUsers
    TTL = 2
    Idle = 1
    Connect = 1
    MaxPerCodespace = 2
    MaxPerUser = 1
    MaxIds = 2
    MaxLive = 2
    MaxTime = 3
    MaxRestarts = 1
INVARIANTS
    CountsExact
PROPERTIES
    RemovedIsCut
    IdleStaysOut
CHECK_DEADLOCK FALSE
