SPECIFICATION FairSpec
CONSTANTS
    Callers = {c1, c2}
    Decisions <- AllOfThem
    MaxTries = 1
    MaxFaults = 0
    MaxApiCalls = 0
    MaxFailures = 1
    c1 = c1
    c2 = c2
PROPERTY AcceptedRunsGetGoing
CHECK_DEADLOCK FALSE
