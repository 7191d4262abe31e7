CONSTANTS
    Http = {"h1", "h2"}
    Stdio = {"s1"}
    Configs <- MCConfigs
    FailThreshold = 2
    TTL = 2
    NoStatus = NoStatus
SPECIFICATION FairSpec
CHECK_DEADLOCK FALSE
INVARIANTS
    AlarmExpires
PROPERTIES
    DeadIsReported
    BackIsReported
    ReadyzAnswers
