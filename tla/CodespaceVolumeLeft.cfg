SPECIFICATION Spec
CONSTANTS
    LastVersion = 1
    LastPod = 2
    MaxFaults = 0
    Interference = FALSE
INVARIANT
    NoVolumeLeft
CHECK_DEADLOCK FALSE
