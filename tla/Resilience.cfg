CONSTANTS
    Calls = {c1, c2, c3}
    Threshold = 2
    Cooldown = 2
    MaxAttempts = 2
SPECIFICATION FairSpec
INVARIANTS
    TypeOK
    ClosedIffBelowThreshold
    ProbeInFlight
PROPERTIES
    GateSafety
    OpenRelents
