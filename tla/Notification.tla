----------------------------- MODULE Notification -----------------------------
(***************************************************************************)
(* Notifications, timeouts and sleeping threads of the ChCore kernel, on   *)
(* top of the scheduler.                                                   *)
(*                                                                         *)
(* A thread waits for a notification, possibly with a timeout, or sleeps;  *)
(* a notifying thread or the timer interrupt of the CPU on which it went   *)
(* to sleep wakes it up.  Between the notification, its timer and its      *)
(* scheduling the code uses the lock of the notification, one lock for the *)
(* sleep list of each CPU, and unlocked reads; each of these is a step.    *)
(***************************************************************************)
EXTENDS Sched, SequencesExt

CONSTANTS
  Notifiers,     \* threads that call sys_notify
  TimedWaiters,  \* threads that call sys_wait with a timeout
  Sleepers,      \* threads that call sys_clock_nanosleep
  SameTimeout,   \* all timeouts are equal: a sleep list is a queue
  MaxPending     \* bound: undelivered notifications

VARIABLES
  pending,      \* notifc->not_delivered_notifc_count
  waiting,      \* notifc->waiting_threads
  notifc_lock,  \* notifc->notifc_lock is held
  sleep_list,   \* time_states[c].sleep_list
  sleep_lock,   \* time_states[c].sleep_list_lock is held
  cb,           \* sleep_state.cb of each thread: the callback, or "NULL"
  sleep_cpu,    \* sleep_state.sleep_cpu
  pnotific,     \* sleep_state.pending_notific is set
  timed,        \* history: the thread's last wait, or sleep, has a timeout
  target,       \* the thread CPU c is waking up
  direct        \* signal_notific on CPU c switches directly to the target

notifcVars == <<pending, waiting, notifc_lock, timed>>
timerVars == <<sleep_list, sleep_lock, cb, sleep_cpu, pnotific>>
wakeVars == <<target, direct>>
vars == <<schedVars, notifcVars, timerVars, wakeVars>>

Init ==
  /\ SchedInit
  /\ pending = 0
  /\ waiting = <<>>
  /\ notifc_lock = FALSE
  /\ sleep_list = [c \in CPUs |-> <<>>]
  /\ sleep_lock = [c \in CPUs |-> FALSE]
  /\ cb = [t \in Threads |-> "NULL"]
  /\ sleep_cpu = [t \in Threads |-> 0]
  /\ pnotific = [t \in Threads |-> FALSE]
  /\ timed = [t \in Threads |-> FALSE]
  /\ target = [c \in CPUs |-> c]
  /\ direct = [c \in CPUs |-> FALSE]

InUser(c) == kpc[c] = "user"
InThread(c, S) == InUser(c) /\ current[c] \in S

(* The local variables of CPU c go out of scope.                            *)
Forget(c) ==
  /\ target' = [target EXCEPT ![c] = c]
  /\ direct' = [direct EXCEPT ![c] = FALSE]

(* A BUG_ON stops the CPU; the rest of the step is of no consequence.       *)
Unless(bug, pc) == IF bug THEN "panic" ELSE pc
-----------------------------------------------------------------------------
(* wait_notific.  A pending notification is consumed at once; a wait that   *)
(* does not block, and finds none, changes nothing.                         *)
wait_consume(c) ==
  /\ InThread(c, Threads)
  /\ ~notifc_lock
  /\ pending > 0
  /\ pending' = pending - 1
  /\ UNCHANGED <<schedVars, waiting, notifc_lock, timed, timerVars, wakeVars>>

(* A blocking wait keeps the lock of the notification ...                   *)
wait_enqueue(c) ==
  LET t == current[c]
  IN /\ InThread(c, Threads)
     /\ ~notifc_lock
     /\ pending = 0
     /\ notifc_lock' = TRUE
     /\ waiting' = Append(waiting, t)
     /\ state' = [state EXCEPT ![t] = "WAITING"]
     /\ \/ /\ t \in TimedWaiters
           /\ timed' = [timed EXCEPT ![t] = TRUE]
           /\ pnotific' = [pnotific EXCEPT ![t] = TRUE]
           /\ KGoto(c, "arm")
        \/ /\ timed' = [timed EXCEPT ![t] = FALSE]
           /\ KGoto(c, "block")
           /\ UNCHANGED pnotific
     /\ UNCHANGED <<ks, prev, queue, current, affinity, sp, pending,
                    sleep_list, sleep_lock, cb, sleep_cpu, wakeVars>>

(* enqueue_sleeper: the position in the sleep list depends on the timeouts. *)
Positions(s) == IF SameTimeout THEN {Len(s) + 1} ELSE 1 .. Len(s) + 1

(* Mutant: the callback is not set.                                         *)
enqueue_sleeper_nocb(c, f) ==
  LET t == current[c]
  IN /\ ~sleep_lock[c]
     /\ \E i \in Positions(sleep_list[c]) :
          sleep_list' = [sleep_list EXCEPT ![c] = InsertAt(@, i, t)]
     /\ sleep_cpu' = [sleep_cpu EXCEPT ![t] = c]
     /\ UNCHANGED cb

enqueue_sleeper(c, f) ==
  LET t == current[c]
  IN /\ ~sleep_lock[c]
     /\ \E i \in Positions(sleep_list[c]) :
          sleep_list' = [sleep_list EXCEPT ![c] = InsertAt(@, i, t)]
     /\ cb' = [cb EXCEPT ![t] = f]
     /\ sleep_cpu' = [sleep_cpu EXCEPT ![t] = c]

(* ... while it arms the timer ...                                          *)
wait_arm(c) ==
  /\ kpc[c] = "arm"
  /\ enqueue_sleeper(c, "notific")
  /\ KGoto(c, "block")
  /\ UNCHANGED <<ctxVars, affinity, sp, notifcVars, sleep_lock, pnotific,
                 wakeVars>>

(* Mutant: the lock of the notification is not released.                    *)
wait_block_locked(c) ==
  /\ kpc[c] = "block"
  /\ rr_sched(c, queue, state)
  /\ KGoto(c, "eret")
  /\ UNCHANGED <<affinity, sp, notifcVars, timerVars, wakeVars>>

(* ... and until it has switched to another thread.                         *)
wait_block(c) ==
  /\ kpc[c] = "block"
  /\ rr_sched(c, queue, state)
  /\ notifc_lock' = FALSE
  /\ KGoto(c, "eret")
  /\ UNCHANGED <<affinity, sp, pending, waiting, timed, timerVars, wakeVars>>

(* sys_clock_nanosleep                                                      *)
sys_clock_nanosleep(c) ==
  /\ InThread(c, Sleepers)
  /\ enqueue_sleeper(c, "sleep")
  /\ rr_sched(c, queue, [state EXCEPT ![current[c]] = "WAITING"])
  /\ KGoto(c, "eret")
  /\ timed' = [timed EXCEPT ![current[c]] = TRUE]
  /\ UNCHANGED <<affinity, sp, pending, waiting, notifc_lock, sleep_lock,
                 pnotific, wakeVars>>
-----------------------------------------------------------------------------
(* Mutant: a notification is always counted.                                *)
signal_pending_always(c) ==
  /\ InThread(c, Notifiers)
  /\ ~notifc_lock
  /\ pending < MaxPending
  /\ pending' = pending + 1
  /\ UNCHANGED <<schedVars, waiting, notifc_lock, timed, timerVars, wakeVars>>

(* signal_notific: nobody waits, ...                                        *)
signal_pending(c) ==
  /\ InThread(c, Notifiers)
  /\ ~notifc_lock
  /\ pending > 0 \/ waiting = <<>>
  /\ pending < MaxPending
  /\ pending' = pending + 1
  /\ UNCHANGED <<schedVars, waiting, notifc_lock, timed, timerVars, wakeVars>>

(* ... or the first waiting thread is taken from the list.  If it may run   *)
(* on this CPU the notifying thread queues itself and will switch to it;    *)
(* otherwise it is queued.  Either way the lock is released first and the   *)
(* timer of the thread removed afterwards.                                  *)
WakeFirst(c, here, queued, rest) ==
  /\ InThread(c, Notifiers)
  /\ ~notifc_lock
  /\ pending = 0 /\ waiting # <<>>
  /\ waiting' = rest
  /\ target' = [target EXCEPT ![c] = Head(waiting)]
  /\ direct' = [direct EXCEPT ![c] = here]
  /\ queue' = Enqueued(queue, queued, c)
  /\ state' = EnqueuedState(state, queued)
  /\ KGoto(c, "rm_test")
  /\ UNCHANGED <<ks, prev, current, affinity, sp, pending, notifc_lock, timed,
                 timerVars>>

MayRunHere(t, c) == affinity[t] = NO_AFF \/ affinity[t] = c

(* Mutants: a thread is switched to on any CPU; a thread that may not run   *)
(* here is forgotten.                                                       *)
signal_wake_anywhere(c) ==
  waiting # <<>> /\ WakeFirst(c, TRUE, current[c], Tail(waiting))
signal_wake_lost(c) ==
  waiting # <<>> /\ WakeFirst(c, FALSE, c, Tail(waiting))

signal_wake(c) ==
  /\ waiting # <<>>
  /\ LET here == MayRunHere(Head(waiting), c)
     IN WakeFirst(c, here, IF here THEN current[c] ELSE Head(waiting), Tail(waiting))

(* try_remove_timeout: an unlocked test, ...                                *)
remove_test(c) ==
  /\ kpc[c] = "rm_test"
  /\ KGoto(c, IF cb[target[c]] = "NULL" THEN "resume" ELSE "rm_dequeue")
  /\ UNCHANGED <<ctxVars, affinity, sp, notifcVars, timerVars, wakeVars>>

(* Mutant: the timer stays armed.                                           *)
try_dequeue_sleeper_none(c) ==
  /\ kpc[c] = "rm_dequeue"
  /\ ~sleep_lock[sleep_cpu[target[c]]]
  /\ KGoto(c, "rm_clear")
  /\ UNCHANGED <<ctxVars, affinity, sp, notifcVars, timerVars, wakeVars>>

(* ... try_dequeue_sleeper under the lock of the sleep list, ...            *)
try_dequeue_sleeper(c) ==
  LET t == target[c]
  IN /\ kpc[c] = "rm_dequeue"
     /\ ~sleep_lock[sleep_cpu[t]]
     /\ \/ /\ cb[t] # "NULL"
           /\ sleep_list' = [sleep_list EXCEPT ![sleep_cpu[t]] = Remove(@, t)]
           /\ cb' = [cb EXCEPT ![t] = "NULL"]
        \/ cb[t] = "NULL" /\ UNCHANGED <<sleep_list, cb>>
     /\ KGoto(c, "rm_clear")
     /\ UNCHANGED <<ctxVars, affinity, sp, notifcVars, sleep_lock, sleep_cpu,
                    pnotific, wakeVars>>

(* ... and an unlocked store.                                               *)
remove_clear(c) ==
  /\ kpc[c] = "rm_clear"
  /\ pnotific' = [pnotific EXCEPT ![target[c]] = FALSE]
  /\ KGoto(c, "resume")
  /\ UNCHANGED <<ctxVars, affinity, sp, notifcVars, sleep_list, sleep_lock, cb,
                 sleep_cpu, wakeVars>>

(* The end of signal_notific: the direct switch, or the return.  The switch *)
(* does not look at the kernel stack of the target.                         *)
signal_finish(c) ==
  LET t == target[c]
  IN /\ kpc[c] = "resume"
     /\ \/ ~direct[c] /\ KGoto(c, "user") /\ UNCHANGED ctxVars
        \/ /\ direct[c]
           /\ switch_to_thread(c, t, state)
           /\ KGoto(c, Unless(state[t] = "READY", "eret"))
           /\ UNCHANGED queue
     /\ Forget(c)
     /\ UNCHANGED <<affinity, sp, notifcVars, timerVars>>
-----------------------------------------------------------------------------
(* handle_timer_irq: the sleep list of the CPU is locked, ...               *)
irq_enter(c) ==
  /\ InUser(c)
  /\ ~sleep_lock[c]
  /\ sleep_lock' = [sleep_lock EXCEPT ![c] = TRUE]
  /\ KGoto(c, "irq_scan")
  /\ UNCHANGED <<ctxVars, affinity, sp, notifcVars, sleep_list, cb, sleep_cpu,
                 pnotific, wakeVars>>

(* ... and each expired thread taken from it.  A thread that slept is put   *)
(* into a ready queue (sleep_timer_cb), ...                                 *)
irq_wake_sleeper(c) ==
  LET t == Head(sleep_list[c])
  IN /\ kpc[c] = "irq_scan"
     /\ sleep_list[c] # <<>>
     /\ cb[t] = "sleep"
     /\ sleep_list' = [sleep_list EXCEPT ![c] = Tail(@)]
     /\ queue' = Enqueued(queue, t, c)
     /\ state' = EnqueuedState(state, t)
     /\ cb' = [cb EXCEPT ![t] = "NULL"]
     /\ KGoto(c, Unless(state[t] # "WAITING", "irq_scan"))
     /\ UNCHANGED <<ks, prev, current, affinity, sp, notifcVars, sleep_lock,
                    sleep_cpu, pnotific, wakeVars>>

(* ... one that waited for a notification is left to notific_timer_cb.      *)
irq_expire(c) ==
  LET t == Head(sleep_list[c])
  IN /\ kpc[c] = "irq_scan"
     /\ sleep_list[c] # <<>>
     /\ cb[t] # "sleep"
     /\ sleep_list' = [sleep_list EXCEPT ![c] = Tail(@)]
     /\ target' = [target EXCEPT ![c] = t]
     /\ pnotific' = [pnotific EXCEPT ![t] = FALSE]
     /\ KGoto(c, Unless(cb[t] = "NULL" \/ ~pnotific[t], "irq_cb"))
     /\ UNCHANGED <<ctxVars, affinity, sp, notifcVars, sleep_lock, cb,
                    sleep_cpu, direct>>

(* notific_timer_cb: unless it was signalled, the thread leaves the list of *)
(* the notification and returns -EAGAIN.                                    *)
notific_timer_cb(c) ==
  LET t == target[c]
  IN /\ kpc[c] = "irq_cb"
     /\ ~notifc_lock
     /\ \/ /\ state[t] # "WAITING"
           /\ KGoto(c, "irq_clear")
           /\ UNCHANGED <<waiting, queue, state>>
        \/ /\ state[t] = "WAITING"
           /\ waiting' = Remove(waiting, t)
           /\ queue' = Enqueued(queue, t, c)
           /\ state' = EnqueuedState(state, t)
           /\ KGoto(c, Unless(~Contains(waiting, t), "irq_clear"))
     /\ UNCHANGED <<ks, prev, current, affinity, sp, pending, notifc_lock,
                    timed, timerVars, wakeVars>>

irq_clear(c) ==
  /\ kpc[c] = "irq_clear"
  /\ cb' = [cb EXCEPT ![target[c]] = "NULL"]
  /\ Forget(c)
  /\ KGoto(c, "irq_scan")
  /\ UNCHANGED <<ctxVars, affinity, sp, notifcVars, sleep_list, sleep_lock,
                 sleep_cpu, pnotific>>

(* No other thread has expired: the running thread has used up its budget.  *)
irq_leave(c) ==
  /\ kpc[c] = "irq_scan"
  /\ sleep_lock' = [sleep_lock EXCEPT ![c] = FALSE]
  /\ rr_sched(c, queue, state)
  /\ KGoto(c, "eret")
  /\ UNCHANGED <<affinity, sp, notifcVars, sleep_list, cb, sleep_cpu, pnotific,
                 wakeVars>>
-----------------------------------------------------------------------------
SwitchOnly(c) == SwitchStep(c) /\ UNCHANGED <<notifcVars, timerVars, wakeVars>>

(* The steps a CPU takes once it is in the kernel, ...                      *)
KernelStep(c) ==
  \/ SwitchOnly(c) \/ wait_arm(c) \/ wait_block(c)
  \/ remove_test(c) \/ try_dequeue_sleeper(c) \/ remove_clear(c)
  \/ signal_finish(c)
  \/ irq_wake_sleeper(c) \/ irq_expire(c) \/ notific_timer_cb(c)
  \/ irq_clear(c) \/ irq_leave(c)

(* ... and those by which it enters it.                                     *)
EnterStep(c) ==
  \/ wait_consume(c) \/ wait_enqueue(c) \/ sys_clock_nanosleep(c)
  \/ signal_pending(c) \/ signal_wake(c) \/ irq_enter(c)
  \/ (sys_yield(c) \/ other_irq(c)) /\ UNCHANGED <<notifcVars, timerVars, wakeVars>>

Next == \E c \in CPUs : KernelStep(c) \/ EnterStep(c)

Spec == Init /\ [][Next]_vars

(* A CPU goes on in the kernel, also past a lock that others take again and *)
(* again (a ticket lock is first come, first served), its timer fires, and  *)
(* time passes: a thread at the head of a sleep list expires some day.      *)
Fairness ==
  \A c \in CPUs :
    /\ SF_vars(KernelStep(c))
    /\ SF_vars(irq_enter(c))
    /\ SF_vars(irq_wake_sleeper(c) \/ irq_expire(c))

FairSpec == Spec /\ Fairness
-----------------------------------------------------------------------------
(* Properties.                                                              *)

(* Every variable has its type.                                             *)
TypeOK ==
  /\ SchedTypeOK
  /\ pending \in 0 .. MaxPending
  /\ waiting \in Seq(Threads)
  /\ notifc_lock \in BOOLEAN
  /\ sleep_list \in [CPUs -> Seq(Threads)]
  /\ sleep_lock \in [CPUs -> BOOLEAN]
  /\ cb \in [Threads -> {"NULL", "notific", "sleep"}]
  /\ sleep_cpu \in [Threads -> CPUs]
  /\ pnotific \in [Threads -> BOOLEAN]
  /\ target \in [CPUs -> AllThreads]

(* No thread sleeps in wait_notific while a notification is undelivered.    *)
NoMissedNotification == pending > 0 => waiting = <<>>

(* A thread is not awoken twice: neither the timer nor signal_notific meets *)
(* a thread the other one has taken from its list, which is what the        *)
(* BUG_ONs of notific_timer_cb, handle_timer_irq and switch_to_thread say.  *)
AwokenOnce == \A c \in CPUs : kpc[c] # "panic"

(* A thread is in the lists its state asks for: a ready one in one ready    *)
(* queue, once; a waiting one in the list of the notification or asleep,    *)
(* unless a CPU has taken it from there and is about to run it; and none is *)
(* linked into the sleep lists twice.                                       *)
ListedOnce ==
  /\ QueuedOnce
  /\ \A t \in Threads :
       /\ state[t] = "WAITING" =>
            \/ Contains(waiting, t)
            \/ Contains(sleep_list[sleep_cpu[t]], t)
            \/ \E c \in CPUs : direct[c] /\ target[c] = t
       /\ Cardinality(UNION {{c} \X {i \in DOMAIN sleep_list[c] : sleep_list[c][i] = t} :
                               c \in CPUs}) <= 1

(* A thread that waits with a timeout, or sleeps, has its timer armed as    *)
(* soon as it has given up the CPU: a thread whose callback is NULL does    *)
(* not wait for a timeout.                                                  *)
TimeoutArmed ==
  \A t \in Threads :
    (state[t] = "WAITING" /\ timed[t] /\ ~notifc_lock) =>
      \/ cb[t] # "NULL"
      \/ \E c \in CPUs : target[c] = t

(* A CPU that enters the kernel leaves it: although wait_notific takes the  *)
(* lock of a sleep list under the lock of the notification, and the timer   *)
(* interrupt takes them the other way round, they do not wait for each      *)
(* other.                                                                   *)
KernelExits == \A c \in CPUs : (kpc[c] # "user") ~> (kpc[c] = "user")

(* A wait with a timeout and a sleep end, even if nobody notifies.          *)
TimedWaitEnds ==
  \A t \in Threads :
    (state[t] = "WAITING" /\ timed[t]) ~> (state[t] = "RUNNING")
=============================================================================
