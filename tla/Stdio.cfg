CONSTANTS
    Calls = {m1, m2, m3}
    Notifications = {m3}
    MaxProcs = 3
    MaxRestarts = 2
    MaxSkip = 1
    Chatter = {"log"}
    MaxChatter = 2
SPECIFICATION AnsweringSpec
CHECK_DEADLOCK FALSE
INVARIANTS
    BlockedCallOwnsChild
    ResponseMatchesRequest
    AtMostTwice
PROPERTIES
    ServiceSafety
    RoundTripReturns
