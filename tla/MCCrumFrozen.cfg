SPECIFICATION FairSpec
CONSTANTS
    NumDisks = 1
    Day = 1
    JulianLimit = 1
    UnixEpochJD = 0
    EarliestClock = 1
    Leftovers <- MCLeftovers
    MaxRounds = 2
    Limit <- LimitFault
PROPERTY
    KeepsGathering
CHECK_DEADLOCK FALSE
