SPECIFICATION Spec
CONSTANTS
    NumIFs = 3
    Megabit = 8
    MaxStart = 1
    MaxBytes = 3
    MaxRounds = 3
    MaxResets = 1
INVARIANTS
    TypeOK
    SteadyExact
    IInv
CHECK_DEADLOCK FALSE
