SPECIFICATION FairSpec
CONSTANTS
    Workers = {w1}
    Dispatchers <- Db
    MaxJobs = 2
    MaxTries = 2
    MaxPolls = 2
    MaxRenders = 2
    MaxActions = 1
    MaxFaults = 0
    MaxFailures = 0
    w1 = w1
    w2 = w1
PROPERTY PollAdvances
CHECK_DEADLOCK FALSE
