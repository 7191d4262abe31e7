CONSTANTS
    Instances = {i1, i2}
    Requests = {q1, q2}
    Callers = {alice}
    Hashes = {h1}
    Roles = {reader}
    TTL = 1
    MaxTime = 3
    MaxWrites = 1
    None = None
SPECIFICATION MCSpec
SYMMETRY Symmetry
CONSTRAINT OnlyBusyListen
CHECK_DEADLOCK FALSE
INVARIANTS
    IndexComplete
    KeyStalenessBounded
    RoleStalenessBounded
    SharedCallerStaleness
