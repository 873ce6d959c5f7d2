---------------------------- MODULE MCDispatcher ----------------------------
(* Instances of Dispatcher for TLC. *)
EXTENDS Dispatcher, TLC

CONSTANTS s1, s2, m1, m2, m3, c1, c2

\* Two messages of one sender, of two kinds, and one of another sender.
MCFrom == (m1 :> s1) @@ (m2 :> s1) @@ (m3 :> s2)
MCKind == (m1 :> "bare") @@ (m2 :> "captioned") @@ (m3 :> "text")

=============================================================================
