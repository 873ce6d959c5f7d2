---------------------------- MODULE MCHandsFree ----------------------------
(* Instances of HandsFree for TLC. *)
EXTENDS HandsFree

MCSentence == 1..3

=============================================================================
