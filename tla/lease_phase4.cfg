SPECIFICATION Spec
CONSTANTS
    Process = {d1, d2}
    Token = {t1, t2, t3, t4, t5}
    NoToken = none
    Duration = 3
    Extension = 3
    Threshold = 2
    MinGrant = 2
    MaxClaim = 4
    MaxExtend = 3
    MaxLatency = 1
    OwnerReclaims = FALSE
    NumericExpiry = FALSE
    LocalPlane = FALSE
    MaxFaults = 1
    MaxCrashes = 1
    HaltCap = 5
SYMMETRY Interchangeable
INVARIANTS TypeOK BoundedOverlap HaltBound NoOrphan
PROPERTY KeepsPromise
