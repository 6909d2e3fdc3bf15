SPECIFICATION FairSpec
CONSTANTS
    TTL = 2
    IdleTimeout = 3
    Slack = 3
    MaxChanges = 1
    MaxFaults = 1
PROPERTIES
    UsedIsNotStopped
    IdleIsStopped
