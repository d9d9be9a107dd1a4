SPECIFICATION FairSpec
CONSTANTS
    MaxVersion = 2
    Healthy = {0, 2}
    MaxBacklog = 2
    MaxUpgrades = 2
    MaxFaults = 2
INVARIANTS TypeOK LastGoodKept Bootable
PROPERTIES BadVersionGoes
CHECK_DEADLOCK FALSE
