SPECIFICATION Spec
CONSTANT MaxSigns = 1
INVARIANT NeverByScoreAlone
CHECK_DEADLOCK FALSE
