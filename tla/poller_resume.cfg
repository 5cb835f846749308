SPECIFICATION Spec
CONSTANTS
    MessageId = {m1}
    NoId = noid
    FirstValidity = 2
    Modes = {TRUE}
    Batch = 2
    SeenCap = 2
    MaxMail = 3
    MaxRebuilds = 0
    MaxExpunged = 0
    MaxAborts = 0
    MaxLosses = 0
    MaxCrashes = 1
INVARIANT NoSilentLoss
CHECK_DEADLOCK FALSE
