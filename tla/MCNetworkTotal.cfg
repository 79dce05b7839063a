SPECIFICATION Spec
CONSTANTS
    NumIFs = 2
    Megabit = 8
    MaxStart = 1
    MaxBytes = 3
    MaxRounds = 2
    MaxResets = 0
INVARIANT
    TotalIsSum
CHECK_DEADLOCK FALSE
