SPECIFICATION Spec
CONSTANTS
    LastVersion = 1
    LastPod = 2
    MaxFaults = 1
    Interference = FALSE
INVARIANT
    AcknowledgementDurable
CHECK_DEADLOCK FALSE
