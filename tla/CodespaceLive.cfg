SPECIFICATION MCFairSpec
CONSTANTS
    LastVersion = 3
    LastPod = 2
    MaxFaults = 2
    Interference = FALSE
PROPERTIES
    
    CleanedUp
CHECK_DEADLOCK FALSE
