SPECIFICATION FairSpec
CONSTANTS
    Lifetime = 2
    RenewBefore = 1
    MaxFaults = 2
    MaxNumber = 7
INVARIANTS TypeOK HttpsBacked
PROPERTIES HealsItself
CHECK_DEADLOCK FALSE
