SPECIFICATION Spec
CONSTANTS
    MessageId = {m1}
    NoId = noid
    FirstValidity = 1
    Modes = {TRUE}
    Batch = 2
    SeenCap = 2
    MaxMail = 3
    MaxRebuilds = 0
    MaxExpunged = 1
    MaxAborts = 1
    MaxLosses = 1
    MaxCrashes = 1
INVARIANTS TypeOK NoSilentLoss AnalysedOnce TotalsHold DroppedHasTwin CaseKept
CHECK_DEADLOCK FALSE
