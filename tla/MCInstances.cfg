SPECIFICATION Spec
CONSTANTS
    Instances = {p1, p2}
    MaxStarts = 3
    MaxRounds = 2
    MaxClock = 1
SYMMETRY Symmetry
INVARIANTS
    MissingIsComing
    OneProcessPerStamp
    CleanRoundsWhole
CHECK_DEADLOCK FALSE
