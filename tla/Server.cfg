CONSTANTS
    c1 = c1
    t1 = t1
    t2 = t2
    Requests = {q1, q2}
    q1 = q1
    q2 = q2
    Scenarios <- MCScenarios
    Tools = {t1, t2}
    OAuthTools = {t2}
    StdioTools = {t1}
    Callers = {c1}
    CallerOf <- MCCallerOf
    MaxBatch = 3
SPECIFICATION FairSpec
CHECK_DEADLOCK FALSE
INVARIANTS
    AnswersMatch
    ListedIsCallable
    CallsAreAudited
    DrainBeforeClose
    BackgroundStopsFirst
PROPERTY Answered
