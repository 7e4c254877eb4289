SPECIFICATION LockSpec
CONSTANTS
    None = None
    MaxHeight = 1
    Window = 1
    Batch = 2
    MaxMishaps = 2
INVARIANT LockTypeOK
INVARIANT LatencyIsDerived
INVARIANT PendingIsFlagged
PROPERTY LocksArrive
PROPERTY AllApplied
