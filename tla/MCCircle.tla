------------------------------ MODULE MCCircle ------------------------------
(* Instances of Circle for TLC.                                            *)
EXTENDS Circle

CONSTANTS j1, j2, c1, c2

\* Two default grants out of three tools, not in alphabetical order.
MCDefaults == <<2, 1>>

AllKinds == {"status", "setting", "person", "add", "delete", "grant", "rest"}
=============================================================================
