SPECIFICATION Spec
CONSTANTS
    MessageId = {m1, m2}
    NoId = noid
    FirstValidity = 1
    Modes = {TRUE}
    Batch = 2
    SeenCap = 2
    MaxMail = 3
    MaxRebuilds = 1
    MaxExpunged = 1
    MaxAborts = 1
    MaxLosses = 0
    MaxCrashes = 0
SYMMETRY Interchangeable
INVARIANTS NoSilentLoss AnalysedOnce
CHECK_DEADLOCK FALSE
