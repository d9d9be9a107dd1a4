SPECIFICATION Spec
CONSTANTS
    m1 = m1  m2 = m2  n1 = n1  t1 = t1  t2 = t2
    Machines = {m1, m2}
    EnrollmentIds = {m1, m2}
    EnrollmentID <- OwnNames
    NodeIds = {n1}
    NoNode = NoNode
    OneTimeTokens = {t1, t2}
    CommonTokens = {}
    NoToken = NoToken
    TokenTTL = 2
    CommonTTLs = {}
    ReceiptTTL = 2
    GraceTTL = 1
    MaxTime = 3
    MaxSecrets = 3
    MaxSaveFailures = 1
    MaxSecretsAtFailure = 1
SYMMETRY Symmetry
INVARIANTS CredentialKept
CHECK_DEADLOCK FALSE
