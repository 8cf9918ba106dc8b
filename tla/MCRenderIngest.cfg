SPECIFICATION Spec
CONSTANTS
    Workers = {w1, w2}
    Dispatchers <- Either
    MaxJobs = 2
    MaxTries = 1
    MaxPolls = 2
    MaxRenders = 2
    MaxActions = 2
    MaxFaults = 1
    MaxFailures = 1
    w1 = w1
    w2 = w2
SYMMETRY Symmetry
INVARIANT TypeOK
INVARIANT OneVideoPerRender
INVARIANT VideosAreRecorded
INVARIANT GateHasVideo
INVARIANT RowFollowsThread
CHECK_DEADLOCK FALSE
