--------------------------- MODULE MCNotification ---------------------------
(* Instances of the notifications for model checking.                       *)
EXTENDS Notification

CONSTANT t3

(* The thread t3 is bound to CPU 1, the others may run on every CPU.        *)
Mixed == {[t \in Threads |-> IF t = t3 THEN 1 ELSE NO_AFF]}

(* The other threads share a CPU, t3 is on the other one.                   *)
Together == {[t \in Threads |-> IF t = t3 THEN 1 ELSE 0]}
=============================================================================
