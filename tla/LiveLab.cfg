SPECIFICATION FairControl
CONSTANTS
    None = None
    Run = {"A", "B", "C"}
    born <- ThreeBorn
    Operator = {"ann", "bob", "system"}
    Request = {"startA", "endA", "startB", "abortA", "startC", "recoverB"}
    asks <- LabAsks
    Action = {"stop", "end"}
    actionOf <- LabSchedule
    ActivateBy = 0
    FaultEnd = 3
    RunExpires = 3
    CooldownBudget = 1
    ActionLease = 1
    Callings <- LabCallings
    LoadsFail = FALSE
    MaxCrashes = 1
    Horizon = 3
CHECK_DEADLOCK FALSE
INVARIANT ControlTypeOK
 
INVARIANT EveryFaultIsAnnounced
INVARIANT CompletedRanItsFault
INVARIANT AbortIsKept
PROPERTY SettledIsFinal
PROPERTY ActionsSettle
