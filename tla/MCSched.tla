------------------------------- MODULE MCSched -------------------------------
(* Instances of the scheduler for model checking.                           *)
EXTENDS Sched

(* The threads start with any affinity.                                     *)
AnyAffinity == [Threads -> CPUs \union {NO_AFF}]
=============================================================================
