------------------------------ MODULE XvSleep ------------------------------
(***************************************************************************)
(* The process states of xv6 (kernel/proc.c): scheduler, yield, sleep,     *)
(* wakeup and kill, each under the lock of the process it is about.  The   *)
(* modules that extend this one add what processes do in system calls.     *)
(*                                                                         *)
(* A section that takes the lock of one process and gives it back before   *)
(* it takes another is one action, enabled when the lock is free; a lock   *)
(* that is kept over several actions is recorded in plock.  There are as   *)
(* many CPUs as processes that want one.                                   *)
(***************************************************************************)
CONSTANTS
  Proc,      \* the entries of the process table
  NoProc, NoChan

VARIABLES
  state, chan, killed,
  plock,     \* plock[q]: the process that holds q's lock between two actions
  pc,        \* where a process is in the kernel; "user" outside of it
  panicked

procVars == <<state, chan, killed, plock, pc, panicked>>

State == {"UNUSED", "SLEEPING", "RUNNABLE", "RUNNING", "ZOMBIE"}

Unlocked(q) == plock[q] = NoProc

\* Process p executes at `from' and goes on at `to'.
At(p, from) == ~panicked /\ state[p] = "RUNNING" /\ pc[p] = from

Step(p, from, to) ==
  /\ At(p, from)
  /\ pc' = [pc EXCEPT ![p] = to]
  /\ UNCHANGED panicked

\* The process scheduler() picks holds its own lock when it resumes: the code
\* after sched() releases it, unless the lock is the one sleep() was given.
scheduler(p, keeps) ==
  /\ ~panicked
  /\ state[p] = "RUNNABLE"
  /\ Unlocked(p)
  /\ state' = [state EXCEPT ![p] = "RUNNING"]
  /\ chan' = [chan EXCEPT ![p] = NoChan]
  /\ plock' = IF keeps THEN [plock EXCEPT ![p] = p] ELSE plock
  /\ UNCHANGED <<killed, pc, panicked>>

yield(p) ==
  /\ Step(p, "user", "user")
  /\ Unlocked(p)
  /\ ~killed[p]
  /\ state' = [state EXCEPT ![p] = "RUNNABLE"]
  /\ UNCHANGED <<chan, killed, plock>>

\* The processes after wakeup(c), which calls wakeup1's test on each.
Awake(c, Q) ==
  [q \in Proc |-> IF q \in Q /\ state[q] = "SLEEPING" /\ chan[q] = c
                  THEN "RUNNABLE" ELSE state[q]]

\* The end of sleep(c, lk): p holds its lock, which the scheduler releases.
fall_asleep(p, c) ==
  /\ state' = [state EXCEPT ![p] = "SLEEPING"]
  /\ chan' = [chan EXCEPT ![p] = c]
  /\ plock' = [plock EXCEPT ![p] = NoProc]

(* Mutant: a sleeping process is not woken.                                 *)
kill_silent(p, q) ==
  /\ Step(p, "user", "user")
  /\ ~killed[p]
  /\ Unlocked(q)
  /\ state[q] # "UNUSED"
  /\ killed' = [killed EXCEPT ![q] = TRUE]
  /\ UNCHANGED <<state, chan, plock>>

kill(p, q) ==
  /\ Step(p, "user", "user")
  /\ ~killed[p]
  /\ Unlocked(q)
  /\ state[q] # "UNUSED"
  /\ killed' = [killed EXCEPT ![q] = TRUE]
  /\ state' = IF state[q] = "SLEEPING" THEN [state EXCEPT ![q] = "RUNNABLE"] ELSE state
  /\ UNCHANGED <<chan, plock>>

\* panic() spins for ever with the locks its caller holds; what the other CPUs
\* still do after it is not modelled.
halted ==
  /\ panicked
  /\ UNCHANGED procVars
=============================================================================
