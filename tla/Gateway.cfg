CONSTANTS
    c1 = c1
    t1 = t1
    t2 = t2
    u1 = u1
    r1 = r1
    r2 = r2
    r3 = r3
    NoLimit = NoLimit
    NotRegistered = NotRegistered
    NoBucket = NoBucket
    Callers = {c1}
    Tools = {t1, t2}
    Upstreams = {u1}
    Roles = {1, 2}
    Requests = {r1, r2, r3}
    CallerOf <- MCCallerOf
    ToolOf <- MCToolOf
    UpstreamOf <- MCUpstreamOf
    AllowedTools <- MCAllowedTools
    Default <- MCDefault
    RoleLimit <- MCRoleLimit
    UpstreamLimit <- MCUpstreamLimit
    MaxTools = 1
    Delay = 1
    Skew = 0
    Grain = 2
    MaxTime = 4
SYMMETRY Symmetry
SPECIFICATION Spec
CHECK_DEADLOCK FALSE
INVARIANTS
    BucketBounded
    ForwardedWasCounted
PROPERTY WindowBounded
