SPECIFICATION FairSpec
CONSTANTS
    Jobs = {hook, other}
    Webhooks = {hook}
    Workers = {w1, w2}
    Slots = {s1, s2, s3}
    WorkerOf <- MCWorkerOf
    NoJob = NoJob
    NoWorker = NoWorker
    hook = hook
    other = other
    w1 = w1
    w2 = w2
    s1 = s1
    s2 = s2
    s3 = s3
    MaxAttempts = 2
    MaxFaults = 1
INVARIANT TypeOK
INVARIANT NoStrandedJob
INVARIANT OverlapNeedsLapse
INVARIANT NoEarlyGiveUp
PROPERTY SettledIsFinal
PROPERTY PromiseKept
PROPERTY EveryJobSettles
CHECK_DEADLOCK FALSE
