SPECIFICATION FairSpec
CONSTANTS
    Process = {d1, d2}
    Token = {t1, t2, t3, t4}
    NoToken = none
    Duration = 2
    Extension = 2
    Threshold = 1
    MinGrant = 2
    MaxClaim = 4
    MaxExtend = 3
    MaxLatency = 1
    OwnerReclaims = FALSE
    NumericExpiry = TRUE
    LocalPlane = TRUE
    MaxFaults = 0
    MaxCrashes = 1
    HaltCap = 0
PROPERTY Recovers
