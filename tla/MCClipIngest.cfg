SPECIFICATION Spec
CONSTANTS
    N = 2
    Dispatchers = {"db", "inprocess"}
    Providers = {"real", "fake"}
    Workers = {w1, w2}
    w1 = w1
    w2 = w2
    Forces = {TRUE, FALSE}
    MaxTries = 2
    MaxPolls = 1
    MaxFaults = 0
    MaxFailures = 0
    MaxRepairs = 1
INVARIANT SecondClipNeedsRace
INVARIANT EarlyResumeExplained
PROPERTY LastClipWakes
PROPERTY NoStaleClips
SYMMETRY Symmetry
CHECK_DEADLOCK FALSE
