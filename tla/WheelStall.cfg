CONSTANTS
    Sessions = {s1, s2}
    WheelSize = 4
    SlotRoom = 2
    SynTimes = {1, 2}
    MaxLag = 3
    WheelEnd = 9
SPECIFICATION WheelSpec
INVARIANTS
    UnsentHasTimer
CHECK_DEADLOCK FALSE
