SPECIFICATION Spec
CONSTANTS
    NumStores = 2
    MaxDrives = 3
    MaxStart = 1
    MaxBytes = 3
    MaxRounds = 3
    MaxMisses = 1
INVARIANTS
    TypeOK
    RowsAddUp
    LagBounded
    NeverRunsBackwards
    MapFindsDisk
    IInv
CHECK_DEADLOCK FALSE
