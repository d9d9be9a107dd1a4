SPECIFICATION Spec
CONSTANTS
    ActiveMax = 2
    Caps = {2, 3}
    Retention = 1
    DayLength = 2
    a1 = a1
    Admins = {a1}
    MaxLines = 6
    MaxTime = 3
    MaxFaults = 2
INVARIANTS TypeOK KeepsNewest LogsBounded
CHECK_DEADLOCK FALSE
