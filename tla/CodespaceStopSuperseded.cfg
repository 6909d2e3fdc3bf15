SPECIFICATION Spec
CONSTANTS
    LastVersion = 3
    LastPod = 2
    MaxFaults = 1
    Interference = FALSE
INVARIANT
    StopSuperseded
CHECK_DEADLOCK FALSE
