SPECIFICATION Spec
CONSTANTS
    Writers = {w1, w2}
    None = None
    Window = 2
    Zone = "utc"
    MaxEvents = 4
    MaxFailures = 1
    Ids = {1, 2, 3}
    Limit = 1
    Recent = 1
    TTL = 2
    MaxTime = 3
    MaxEpoch = 1
    JobStarts = {"staged", "running", "failed"}
    MaxChanges = 3
INVARIANTS
    ChainIntact
    StablePages
    TruthfulView
PROPERTY VerdictIsRight
CHECK_DEADLOCK FALSE
