SPECIFICATION FairConfigSpec
CONSTANTS
    Intervals = {1, 3}
    Missed = 2
    MinThreshold = 2
    Urls = {"old", "new"}
    FirstUrl = "old"
    MaxUrlChanges = 1
    Edits = {1, 2}
    MaxDisturbances = 2
    MaxAgentRestarts = 1
INVARIANTS ConfigTypeOK
PROPERTIES Converges AgreementStays SettlesOnline
CHECK_DEADLOCK FALSE
