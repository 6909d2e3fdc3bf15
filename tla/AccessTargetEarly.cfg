SPECIFICATION TargetSpec
CONSTANTS
    Ids = {"api"}
    ForwardPorts = {}
    MaxEndpointCount = 2
    Replicas = {m1}
    Early = TRUE
    MaxChanges = 1
    MaxLost = 0
    LastOperation = 1
PROPERTY
    ExposedAppears
CHECK_DEADLOCK FALSE
