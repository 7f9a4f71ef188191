SPECIFICATION Spec

CONSTANTS
    DayLength = 2
    MaxDays = 2
    MaxSchedules = 3

CHECK_DEADLOCK FALSE

INVARIANTS
    TypeOK
    OncePerDay

PROPERTIES
    ServedAtItsTime
