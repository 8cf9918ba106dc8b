SPECIFICATION Spec
CONSTANTS
    Callers = {c1, c2}
    Decisions <- Approvals
    MaxTries = 2
    MaxFaults = 1
    MaxApiCalls = 1
    MaxFailures = 0
    c1 = c1
    c2 = c2
INVARIANT TypeOK
INVARIANT NothingUnapproved
INVARIANT SecondSpendNeedsRace
INVARIANT EndIsProjected
SYMMETRY Symmetry
CHECK_DEADLOCK FALSE
