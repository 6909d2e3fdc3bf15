SPECIFICATION Spec
CONSTANTS
    LastVersion = 2
    Leases <- MCLeases
    MaxTime = 3
INVARIANTS
    RunsUnderLease
CHECK_DEADLOCK FALSE
