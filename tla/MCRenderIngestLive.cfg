SPECIFICATION FairSpec
CONSTANTS
    Workers = {w1, w2}
    Dispatchers <- Db
    MaxJobs = 1
    MaxTries = 2
    MaxPolls = 2
    MaxRenders = 2
    MaxActions = 1
    MaxFaults = 1
    MaxFailures = 1
    w1 = w1
    w2 = w2
PROPERTY RenderEndsWait
CHECK_DEADLOCK FALSE
