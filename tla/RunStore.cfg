SPECIFICATION MCSpec
CONSTANTS
    None = None
    r1 = r1
    r2 = r2
    w1 = w1
    w2 = w2
    Requests = {r1, r2}
    Writers = {w1, w2}
    Sweeper = sweeper
    Starts <- SweepStarts
    Asked <- MCAsked
    RunExpires = 2
    CooldownBudget = 1
    Live = TRUE
    Horizon = 2
    MaxAttempts = 2
INVARIANT StoreTypeOK
INVARIANT ProjectionOnRecord
INVARIANT AnsweredIsOnRecord
INVARIANT NoFaultLeftBehind
INVARIANT AbortSticks
INVARIANT CanBeReplayed
PROPERTY AuditIsALog
PROPERTY ProjectionNeverGoesBack
PROPERTY ExpiredRunsMoveOn
