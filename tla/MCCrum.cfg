SPECIFICATION FairSpec
CONSTANTS
    NumDisks = 2
    Day = 1
    JulianLimit = 1
    UnixEpochJD = 0
    EarliestClock = 1
    Leftovers <- MCLeftovers
    MaxRounds = 3
    Limit <- LimitAll
INVARIANTS
    TypeOK
    RoundsAligned
    StartsEmpty
    NoOrphans
    NoHalfRound
    ZombieOnlyByFault
    PanelsCurrent
    DiskPanelsCurrent
    ChartsWhole
    IInv
PROPERTIES
    SampleShown
    WindowOpens
CHECK_DEADLOCK FALSE
