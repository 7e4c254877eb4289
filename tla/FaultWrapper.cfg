SPECIFICATION WrapperSpec
CONSTANTS
    None = None
    Container = {"node"}
    Fault = {"delay", "stop"}
    Command = {"stop", "delay", "start"}
    slotOf <- TwoFaults
    opOf <- ThreeCommands
    faultOf <- ThreeTargets
    leaseOf <- ThreeLeases
    MaxAttempts = 2
    Horizon = 2
INVARIANT WrapperTypeOK
INVARIANT NothingForgotten
INVARIANT RefusedIsFinal
PROPERTY KeepsLedger
PROPERTY FaultsEnd
PROPERTY CommandsSettle
