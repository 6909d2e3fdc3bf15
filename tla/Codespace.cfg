SPECIFICATION Spec
CONSTANTS
    LastVersion = 3
    LastPod = 2
    MaxFaults = 2
    Interference = TRUE
INVARIANTS
    OneWriter
PROPERTIES
    DataKept
    FinalIsTrue
CHECK_DEADLOCK FALSE
