SPECIFICATION FairSpec
CONSTANTS
    Callers = {c1}
    Decisions <- Approvals
    MaxTries = 2
    MaxFaults = 1
    MaxApiCalls = 0
    MaxFailures = 0
    c1 = c1
    c2 = c2
PROPERTY AcceptedRunsGetGoing
CHECK_DEADLOCK FALSE
