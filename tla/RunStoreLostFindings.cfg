SPECIFICATION MCSpec
CONSTANTS
    None = None
    r1 = r1
    r2 = r2
    w1 = w1
    w2 = w2
    Requests = {r1, r2}
    Writers = {w1, w2}
    Sweeper = sweeper
    Starts <- SweepStarts
    Asked <- MCAsked
    RunExpires = 1
    CooldownBudget = 1
    Live = TRUE
    Horizon = 1
    MaxAttempts = 2
INVARIANT FindingsOnRecord
