----------------------------- MODULE MCWebChat -----------------------------
(* Instances of WebChat for TLC.                                            *)
EXTENDS WebChat, TLC

CONSTANTS t1, t2
MCTab == {t1, t2}
MCSymmetry == Permutations(MCTab)

=============================================================================
