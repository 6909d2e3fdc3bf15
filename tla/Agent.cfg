SPECIFICATION MCSpec
CONSTANTS
    LastVersion = 5
    MaxFaults = 4
    LastJournaled = 2
    Kind <- MCKind
    LastPod = 2
    Steps = {s1, s2}
    Times = {1, 2}
    Keys = {"k1", "k2"}
    NoKey = NoKey
    MaxStages = 3
    MaxJournalFaults = 2
    LastLog = 2
    MaxBatches = 4
    MaxLogFaults = 3
    Initial = 1
    MaxFile = 6
    Reserve = 2
    BatchSize = 2
    MaxRemote = 3
    References = {1, 2, 3}
    Repository <- MCRepository
    Platform = {2}
    Digests = {"x", "y", "z"}
    Wishes = {{1, 3}}
    Overrides <- MCOverrides
    DependsOn <- MCDependsOn
    InstallsAfter <- MCInstallsAfter
    Published <- MCPublished
    MaxCreates = 2
    MaxMoves = 1
    Ids = {"web", "api"}
    ForwardPorts <- MCForwardPorts
    MaxEndpointCount = 2
    Replicas = {"m1", "m2"}
    Early = FALSE
    MaxChanges = 2
    MaxLost = 1
    LastOperation = 3
INVARIANTS
    AtMostOnce
    RecordTrue
    SuccessIsReal
    OrderIsTopological
    TicketLeadsWhereNamed
PROPERTIES
    DataNeverFormatted
    
    
    ImplementsDelivery
    
    LockHolds
    EndpointsAppear
CHECK_DEADLOCK FALSE
