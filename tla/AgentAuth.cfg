SPECIFICATION Spec
CONSTANTS
    r1 = r1  r2 = r2  r3 = r3
    Requests = {r1, r2, r3}
    h1 = h1  h2 = h2
    Handlers = {h1, h2}
    NoRequest = NoRequest
    Window = 1
    Retention = 2
    TableCap = 2
    Trim = 1
    Offsets <- ClockOffsets
    MaxTime = 4
    MaxRestarts = 1
SYMMETRY Symmetry
INVARIANTS TypeOK AcceptedOnce TableBounded RemembersExactly
CHECK_DEADLOCK FALSE
