------------------------------ MODULE MCSpeech ------------------------------
(* Instances of Speech for TLC. *)
EXTENDS Speech, TLC

CONSTANTS c1, c2, p1, p2

=============================================================================
