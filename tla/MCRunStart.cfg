SPECIFICATION Spec
CONSTANTS
    Handlers = {h1, h2}
    Runs = {r1, r2}
    Updates = {u1}
    Chats = {c1}
    MaxRuns = 1
    MaxMessages = 2
    MaxCrashes = 1
    NoRun = NoRun
    NoMessage = NoMessage
CHECK_DEADLOCK FALSE
SYMMETRY Symmetry
INVARIANT TypeOK
INVARIANT OneRunPerUpdate
INVARIANT RowMirrorsThread
INVARIANT NoOrphan
PROPERTY ImplementsBudget
