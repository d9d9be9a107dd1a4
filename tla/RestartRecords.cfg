SPECIFICATION Spec
CONSTANTS
    app = app  web = web  vault = vault  job = job  sshd = sshd
    Direct = {app}
    Services = {web}
    Sensitive = {vault}
    Unstartable = {job}
    Protected = {sshd}
    MaxRecords = 2
    MaxStops = 3
    MaxFaults = 2
INVARIANTS TypeOK Recoverable NoSecondCopy
PROPERTIES RecordsStay
CHECK_DEADLOCK FALSE
