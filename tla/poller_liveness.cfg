SPECIFICATION FairSpec
CONSTANTS
    MessageId = {m1}
    NoId = noid
    FirstValidity = 1
    Modes = {TRUE, FALSE}
    Batch = 1
    SeenCap = 1
    MaxMail = 2
    MaxRebuilds = 0
    MaxExpunged = 1
    MaxAborts = 1
    MaxLosses = 1
    MaxCrashes = 1
PROPERTY EveryMailReached
CHECK_DEADLOCK FALSE
