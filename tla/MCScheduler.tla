----------------------------- MODULE MCScheduler -----------------------------
(* Instances of Scheduler for TLC. *)
EXTENDS Scheduler, TLC

CONSTANTS a, b, t1, t2, c1, c2

\* A one-time schedule left by an earlier life of the process.
MCPreloaded == {[name |-> a, task |-> t1, kind |-> "once", spec |-> "", at |-> 2, enabled |-> TRUE]}

=============================================================================
