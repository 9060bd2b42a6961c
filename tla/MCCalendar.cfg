SPECIFICATION Spec
CONSTANTS
    NSlots = 2
    MaxRange = 3
    MaxDay = 5
INVARIANTS StreakIsRun CalendarAgrees
CHECK_DEADLOCK FALSE
