SPECIFICATION Spec
CONSTANTS
    NumDisks = 1
    Day = 1
    JulianLimit = 1
    UnixEpochJD = 0
    EarliestClock = 1
    Leftovers <- MCLeftovers
    MaxRounds = 2
    Limit <- LimitCalm
INVARIANT
    CullRemovesOld
CHECK_DEADLOCK FALSE
