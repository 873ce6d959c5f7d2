----------------------------- MODULE MCGateway ------------------------------
(* An instance of Gateway for TLC: the Master asks something or sends a       *)
(* picture, and one VIP writes the urgent phrase; each may be delivered again.*)
EXTENDS Gateway, TLC

CONSTANTS master, vip, m1, m2, g1, g2

MCFrom == (m1 :> master) @@ (m2 :> vip)
MCForm == (m1 :> {"text", "media"}) @@ (m2 :> {"urgent", "branded", "nothing"})

\* The transport's goroutines are interchangeable.
CallerSymmetry == Permutations({g1, g2})

=============================================================================
