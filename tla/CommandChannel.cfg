SPECIFICATION FairSpec
CONSTANTS
    c1 = c1  c2 = c2  c3 = c3
    Calls = {c1, c2, c3}
    p1 = p1  p2 = p2
    Polls = {p1, p2}
    NoCall = NoCall
    ViaHelper = {c1, c3}
    Backlog <- OneLeft
    QueueCap = 2
    CallTimeout = 0
    StaleAfter = 0
    Skew = 0
    MaxTime = 1
    MaxTests = 1
    MaxFaults = 1
INVARIANTS TypeOK OneCopy PendingIsOpenCalls DeclinedNeverRuns
PROPERTIES RunsInQueueOrder ImplementsRemoteCall CallsEnd QueuedIsHandled
CHECK_DEADLOCK FALSE
