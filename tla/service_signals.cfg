SPECIFICATION FairSpec
CONSTANTS
    MaxClaims = 3
    MaxSignals = 2
    MaxFaults = 1
INVARIANTS WorkIsLeased OnlyBearer
PROPERTIES NoWorkAfterStop LocalShutdownEnds
CHECK_DEADLOCK FALSE
