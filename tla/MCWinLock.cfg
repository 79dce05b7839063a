SPECIFICATION FairSpec
CONSTANTS
    Procs = {p1, p2, p3}
INVARIANTS
    LevelsExclude
    ReadersKeepLock
    IInv
PROPERTIES
    NoNewReaders
    Contract
    PendingWins
CHECK_DEADLOCK FALSE
