SPECIFICATION FairSpec
CONSTANTS
    c1 = c1
    c2 = c2
    Callers <- MCCallers
    Kinds <- MCKinds
    FailureThreshold = 2
    HalfOpenMaxCalls = 1
    MaxFailures = 3
INVARIANT TypeOK
INVARIANT ShieldedBothWays
INVARIANT NoSessionForgotten
INVARIANT StuckNeedsCrossing
PROPERTY Recovers
CHECK_DEADLOCK FALSE
