SPECIFICATION Spec
CONSTANTS
    Runs = {r1, r2}
    Calls = {c1, c2}
    Skipped = {"awaiting_ideation_approval", "awaiting_video_generation", "awaiting_publish", "completed"}
    NoRun = NoRun
CHECK_DEADLOCK FALSE
SYMMETRY Symmetry
CONSTRAINT OneIsSound
CONSTRAINT AstrayIsEnough
CONSTRAINT OneList
INVARIANT TypeOK
INVARIANT GateIsOffered
INVARIANT ActiveIsShown
INVARIANT SavedIsTrue
INVARIANT KeepsWatching
