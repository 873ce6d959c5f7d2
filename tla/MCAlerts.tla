------------------------------ MODULE MCAlerts ------------------------------
(* Instances of Alerts for TLC.                                             *)
EXTENDS Alerts

MCConsole == {"web", "im"}

=============================================================================
