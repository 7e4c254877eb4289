SPECIFICATION ControlSpec
CONSTANTS
    None = None
    Run = {"A", "B"}
    born <- TwoBorn
    Operator = {"ann", "bob"}
    Request = {"start1", "start2", "startB"}
    asks <- TwiceAsks
    Action = {}
    actionOf <- NoActions
    ActivateBy = 1
    FaultEnd = 1
    RunExpires = 3
    CooldownBudget = 1
    ActionLease = 1
    Callings <- OnceEach
    LoadsFail = FALSE
    MaxCrashes = 0
    Horizon = 2
CHECK_DEADLOCK FALSE
INVARIANT OneLiveRun
