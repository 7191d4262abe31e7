CONSTANTS
    Calls = {c1, c2}
    Callbacks = {h1, h2}
    Lifetime = 2
    Skew = 1
    Timeout = 1
    StateTTL = 1
    MaxTime = 4
    MaxGrants = 2
    NoToken = NoToken
SPECIFICATION Spec
SYMMETRY Symmetry
CHECK_DEADLOCK FALSE
INVARIANTS
    TypeOK
    ConnectionSurvives
PROPERTIES
    GoodTokenIsValid
    DeletedStaysDeleted
