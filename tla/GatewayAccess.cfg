SPECIFICATION Spec
CONSTANTS
    Requests = {1, 2, 3}
    Ip <- MCIp
    MaxInflightTotal = 2
    Limit <- MCLimit
    ValidationMaxInflight = 1
    AllowedTTL = 1
    RevalidateInterval = 2
    CallTime = 1
    ProxyChanges = 1
    Hosts = {"h1", "h2"}
    PublicHosts = {"h2"}
    Tabs = {"t1", "t2"}
    Chunks = 1
    Clients = {1, 2, 3}
    Items <- MCItems
    KeyLimit <- MCKeyLimit
    Minute = 2
    FailureWindow = 3
    BackoffBase = 1
    BackoffMax = 2
    MaxKeys = 5
    MaxFailures = 3
INVARIANTS
    ReservationsExact
    RevokedIsCut
    
    LandsWhereAsked
    
    WindowBounded
PROPERTIES
    ChannelEnds
    Reopens
