SPECIFICATION FairSpec
CONSTANTS
    N = 2
    Dispatchers = {"db", "inprocess"}
    Providers = {"real"}
    Workers = {w1, w2}
    w1 = w1
    w2 = w2
    Forces = {}
    MaxTries = 2
    MaxPolls = 2
    MaxFaults = 1
    MaxFailures = 1
    MaxRepairs = 0
INVARIANT TypeOK
PROPERTY PollingEndsWait
PROPERTY WebhooksEndWait
CHECK_DEADLOCK FALSE
