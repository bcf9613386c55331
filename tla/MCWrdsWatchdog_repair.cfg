CONSTANTS
    Wedge = 2
    Backoff = 1
    IdleExit = 1
    MaxFailed = 2
    MaxLaunches = 2
    MaxFaults = 1
SPECIFICATION FairSpec
PROPERTIES
    StopsOnlySilent
    HealingEnds
