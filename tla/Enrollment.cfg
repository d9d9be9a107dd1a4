SPECIFICATION Spec
CONSTANTS
    m1 = m1  m2 = m2  n1 = n1  n2 = n2  t1 = t1  tc = tc
    Machines = {m1, m2}
    EnrollmentIds = {m1, m2}
    EnrollmentID <- OwnNames
    NodeIds = {n1, n2}
    NoNode = NoNode
    OneTimeTokens = {t1}
    CommonTokens = {tc}
    NoToken = NoToken
    TokenTTL = 1
    CommonTTLs = {0}
    ReceiptTTL = 1
    GraceTTL = 1
    MaxTime = 2
    MaxSecrets = 3
    MaxSaveFailures = 1
    MaxSecretsAtFailure = 1
SYMMETRY Symmetry
INVARIANTS TypeOK AnsweredIsDurable OneTimeOnce KeptUntilReplaced OwnIdentity
PROPERTIES RetryGetsSame
CHECK_DEADLOCK FALSE
