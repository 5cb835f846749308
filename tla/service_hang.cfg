SPECIFICATION FairSpec
CONSTANTS
    MaxClaims = 3
    MaxSignals = 1
    MaxFaults = 0
PROPERTY ShutdownEnds
CHECK_DEADLOCK FALSE
