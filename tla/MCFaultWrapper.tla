--------------------------- MODULE MCFaultWrapper ---------------------------
(***************************************************************************)
(* Constants for the runs of the fault wrapper: one container.             *)
(***************************************************************************)
EXTENDS FaultWrapper

\* A container that is slowed down and one that is stopped are one container.
TwoFaults == [delay |-> <<"node", "netem">>, stop |-> <<"node", "service">>]
ThreeCommands == [stop |-> "apply", delay |-> "apply", start |-> "clear"]
ThreeTargets == [stop |-> "stop", delay |-> "delay", start |-> "stop"]
ThreeLeases == [stop |-> 1, delay |-> 2, start |-> 0]

OneFault == [delay |-> <<"node", "netem">>]
OneCommand == [delay |-> "apply"]
OneTarget == [delay |-> "delay"]
OneLease == [delay |-> 1]
=============================================================================
