SPECIFICATION Spec
CONSTANTS
    Lifetime = 2
    RenewBefore = 1
    MaxFaults = 1
    MaxNumber = 7
INVARIANTS RenewedIsServed
CHECK_DEADLOCK FALSE
