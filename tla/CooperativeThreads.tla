------------------------- MODULE CooperativeThreads -------------------------
(***************************************************************************)
(* What a client of the coroutine library relies on: at most one thread    *)
(* has the processor, it keeps it until it gives it up, and a thread that  *)
(* waits gets it again and again, whatever the others do.                  *)
(***************************************************************************)
CONSTANTS Threads, Nobody

VARIABLES
  live,    \* the threads that were created and have not exited
  active   \* the thread that has the processor, or Nobody

vars == <<live, active>>

Init == live = {} /\ active = Nobody

Create(t) ==
  /\ t \notin live
  /\ live' = live \union {t}
  /\ UNCHANGED active

Resume(t) ==
  /\ active = Nobody
  /\ t \in live
  /\ active' = t
  /\ UNCHANGED live

Yield == active # Nobody /\ active' = Nobody /\ UNCHANGED live

Exit == active # Nobody /\ active' = Nobody /\ live' = live \ {active}

(* There is no thread left to create: a client that tries loses them all.   *)
Fail == live = Threads /\ live' = {} /\ active' = Nobody

Next == (\E t \in Threads : Create(t) \/ Resume(t)) \/ Yield \/ Exit \/ Fail

Safety == Init /\ [][Next]_vars

(* A thread gives the processor up, and strong fairness of Resume: a thread *)
(* that could have the processor infinitely often has it infinitely often.  *)
Spec ==
  /\ Safety
  /\ WF_vars(Yield \/ Exit)
  /\ \A t \in Threads : SF_vars(Resume(t))
=============================================================================
