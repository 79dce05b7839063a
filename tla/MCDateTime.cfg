SPECIFICATION Spec
CONSTANTS
    FirstDays <- MCFirstDays
    Years <- MCYears
    Times <- MCTimes
    Zones <- MCZones
CHECK_DEADLOCK FALSE
INVARIANTS
    ZonesCancel
    NumbersAreNoons
    DayOldAreSelected
