SPECIFICATION Spec
CONSTANTS
    n1 = n1
    Nodes = {n1}
    h1 = h1  h2 = h2
    Handlers = {h1, h2}
    NoNode = NoNode
    Capacity = 3
    Gap = 2
    Window = 6
    MaxTime = 9
    MaxRestarts = 1
INVARIANTS TypeOK HourIsExact
PROPERTIES ImplementsRecentPoints
CHECK_DEADLOCK FALSE
