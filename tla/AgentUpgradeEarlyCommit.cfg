SPECIFICATION Spec
CONSTANTS
    MaxVersion = 1
    Healthy = {0}
    MaxBacklog = 2
    MaxUpgrades = 1
    MaxFaults = 0
INVARIANTS CommitByInstalled
CHECK_DEADLOCK FALSE
