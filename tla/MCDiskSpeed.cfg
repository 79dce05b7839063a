SPECIFICATION Spec
CONSTANTS
    NumStores = 2
    MaxDrives = 1
    MaxStart = 1
    MaxBytes = 1
    MaxRounds = 1
    MaxMisses = 0
INVARIANT
    SpeedIsOfDisk
CHECK_DEADLOCK FALSE
