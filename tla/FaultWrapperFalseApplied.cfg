SPECIFICATION WrapperSpec
CONSTANTS
    None = None
    Container = {"node"}
    Fault = {"delay"}
    Command = {"delay"}
    slotOf <- OneFault
    opOf <- OneCommand
    faultOf <- OneTarget
    leaseOf <- OneLease
    MaxAttempts = 2
    Horizon = 1
INVARIANT AppliedMeansOn
