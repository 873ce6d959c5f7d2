-------------------------- MODULE MCHealthMonitor --------------------------
(* Instances of HealthMonitor for TLC: the Mac bridge and the iMessage      *)
(* bridge, whose checker is suppressed while the Mac bridge is not healthy. *)
EXTENDS HealthMonitor, TLC

CONSTANTS mac_bridge, imessage_bridge

MCDependsOn == (mac_bridge :> None) @@ (imessage_bridge :> mac_bridge)
=============================================================================
