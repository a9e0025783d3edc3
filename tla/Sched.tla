-------------------------------- MODULE Sched --------------------------------
(***************************************************************************)
(* The scheduler of the ChCore kernel: the context of a thread, the ready  *)
(* queues of the round-robin policy and the switch from one thread to      *)
(* another.                                                                *)
(*                                                                         *)
(* The kernel runs with interrupts disabled on the kernel stack of the     *)
(* thread that entered it.  A switch makes another thread the current one  *)
(* while the CPU still uses the stack of the old one; the CPU leaves that  *)
(* stack in eret_to_thread, and finish_switch then marks it free.  Until   *)
(* then no other CPU may run the old thread, although it may be in a ready *)
(* queue already.  The queue locks protect single steps and are left out.  *)
(***************************************************************************)
EXTENDS Naturals, Sequences, FiniteSets

CONSTANTS
  PLAT_CPU_NUM,  \* number of CPUs
  Threads,       \* user threads
  NO_AFF,        \* affinity of a thread that may run on every CPU
  Affinities,    \* the affinities the threads may start with
  NewAffinities, \* affinities that sys_set_affinity is called with
  OtherIrqs      \* interrupts other than the timer's occur

CPUs == 0 .. PLAT_CPU_NUM - 1

ASSUME SchedAssumption ==
  /\ PLAT_CPU_NUM \in Nat \ {0} /\ IsFiniteSet(Threads)
  /\ Threads \intersect CPUs = {} /\ NO_AFF \notin CPUs
  /\ Affinities \subseteq [Threads -> CPUs \union {NO_AFF}]
  /\ NewAffinities \subseteq CPUs \union {NO_AFF}

(* idle_threads[c] is named by its CPU.                                     *)
AllThreads == Threads \union CPUs

VARIABLES
  state,     \* thread_ctx->state
  ks,        \* thread_ctx->kernel_stack_state
  prev,      \* prev_thread; the thread itself for THREAD_ITSELF and NULL
  affinity,  \* thread_ctx->affinity
  queue,     \* rr_ready_queue of each CPU
  current,   \* current_threads[c]
  sp,        \* the thread whose kernel stack CPU c uses (or will enter on)
  kpc        \* where CPU c is: in user mode, or in which kernel step

ctxVars == <<state, ks, prev, queue, current>>
schedVars == <<ctxVars, affinity, sp, kpc>>

ThreadStates == {"INTER", "READY", "RUNNING", "WAITING"}

(* The members of a list, and the lists without repetition over a set.      *)
Members(q) == {q[i] : i \in DOMAIN q}

Orders(S) == UNION {{q \in [1 .. n -> S] : \A i, j \in 1 .. n : q[i] = q[j] => i = j} :
                      n \in 0 .. Cardinality(S)}

(* S has exactly one member.                                                *)
IsSingleton(S) == \E x \in S : S = {x}

(* create_thread has put the ready threads into the queue of its CPU, and   *)
(* those bound by sys_set_affinity have moved; the passive threads of IPC   *)
(* wait for their first call; every CPU runs its idle thread.               *)
InitWith(ready) ==
  /\ affinity \in Affinities
  /\ queue \in [CPUs -> Orders(ready)]
  /\ \A c \in CPUs : Members(queue[c]) =
       {t \in ready : affinity[t] = c \/ (affinity[t] = NO_AFF /\ c = 0)}
  /\ state = [t \in AllThreads |->
                CASE t \in CPUs -> "RUNNING"
                  [] t \in ready -> "READY"
                  [] OTHER -> "WAITING"]
  /\ ks = [t \in AllThreads |-> IF t \in CPUs THEN "LOCKED" ELSE "FREE"]
  /\ prev = [t \in AllThreads |-> t]
  /\ current = [c \in CPUs |-> c]
  /\ sp = [c \in CPUs |-> c]
  /\ kpc = [c \in CPUs |-> "user"]

SchedInit == InitWith(Threads)

KGoto(c, pc) == kpc' = [kpc EXCEPT ![c] = pc]
-----------------------------------------------------------------------------
(* The operations below compute the new value of one or two variables from  *)
(* intermediate ones, because a kernel step performs several of them.       *)

(* rr_sched_enqueue: the queue a thread is appended to by CPU c.            *)
TargetCpu(t, c) == IF affinity[t] = NO_AFF THEN c ELSE affinity[t]

Enqueued(q, t, c) ==
  IF t \in CPUs THEN q ELSE [q EXCEPT ![TargetCpu(t, c)] = Append(@, t)]

EnqueuedState(st, t) == [st EXCEPT ![t] = IF t \in CPUs THEN "INTER" ELSE "READY"]

(* list_del, of the thread at place i of a queue.                           *)
list_del(q, i) == SubSeq(q, 1, i - 1) \o SubSeq(q, i + 1, Len(q))

(* Mutant: the kernel stack is not looked at.                               *)
Runnable_any(q, c) == DOMAIN q[c]

(* find_next_runnable_thread_in_list: a thread whose kernel stack another   *)
(* CPU still uses is passed over.                                           *)
Runnable(q, c) == {i \in DOMAIN q[c] : ks[q[c][i]] = "FREE" \/ q[c][i] = current[c]}

(* rr_sched_choose_thread: the place in the queue of the first of them.     *)
Chosen(q, c) == {i \in Runnable(q, c) : \A j \in Runnable(q, c) : i <= j}

(* switch_to_thread, given the thread states so far.                        *)
switch_to_thread(c, target, st) ==
  /\ state' = [st EXCEPT ![target] = "RUNNING"]
  /\ prev' = [prev EXCEPT ![target] = current[c]]
  /\ ks' = IF target = current[c] THEN ks ELSE [ks EXCEPT ![target] = "LOCKED"]
  /\ current' = [current EXCEPT ![c] = target]

(* Mutant: the chosen thread stays in the queue.                            *)
SwitchToChosen_queued(c, q, st) ==
  /\ queue' = q
  /\ \/ Runnable(q, c) = {} /\ switch_to_thread(c, c, st)
     \/ \E i \in Chosen(q, c) : switch_to_thread(c, q[c][i], st)

(* Switch to the chosen thread, which leaves the queue, or to the idle one. *)
SwitchToChosen(c, q, st) ==
  \/ /\ Runnable(q, c) = {}
     /\ queue' = q
     /\ switch_to_thread(c, c, st)
  \/ \E i \in Chosen(q, c) :
       /\ queue' = [q EXCEPT ![c] = list_del(@, i)]
       /\ switch_to_thread(c, q[c][i], st)

(* rr_sched, called with the budget of a running thread used up.            *)
rr_sched(c, q, st) ==
  LET old == current[c]
  IN IF st[old] = "RUNNING"
     THEN SwitchToChosen(c, Enqueued(q, old, c), EnqueuedState(st, old))
     ELSE SwitchToChosen(c, q, st)
-----------------------------------------------------------------------------
(* eret_to_thread: the CPU moves to the stack of the new thread, ...        *)
eret_to_thread(c) ==
  /\ kpc[c] = "eret"
  /\ sp' = [sp EXCEPT ![c] = current[c]]
  /\ KGoto(c, "finish")
  /\ UNCHANGED <<ctxVars, affinity>>

(* Mutant: the stack of the old thread is never marked free.                *)
finish_switch_none(c) ==
  /\ kpc[c] = "finish"
  /\ KGoto(c, "user")
  /\ UNCHANGED <<ctxVars, affinity, sp>>

(* ... and finish_switch gives the old stack free.                          *)
finish_switch(c) ==
  /\ kpc[c] = "finish"
  /\ LET p == prev[current[c]]
     IN ks' = IF p = current[c] THEN ks ELSE [ks EXCEPT ![p] = "FREE"]
  /\ KGoto(c, "user")
  /\ UNCHANGED <<state, prev, queue, current, affinity, sp>>

(* sys_yield                                                                *)
sys_yield(c) ==
  /\ kpc[c] = "user"
  /\ current[c] \in Threads
  /\ rr_sched(c, queue, state)
  /\ KGoto(c, "eret")
  /\ UNCHANGED <<affinity, sp>>

(* handle_irq, for a timer interrupt when no thread sleeps.                 *)
timer_tick(c) ==
  /\ kpc[c] = "user"
  /\ rr_sched(c, queue, state)
  /\ KGoto(c, "eret")
  /\ UNCHANGED <<affinity, sp>>

(* handle_irq, for an interrupt of another source: the budget of the        *)
(* running thread is not used up, and rr_sched returns without a switch.    *)
other_irq(c) ==
  /\ OtherIrqs
  /\ kpc[c] = "user"
  /\ KGoto(c, "eret")
  /\ UNCHANGED <<ctxVars, affinity, sp>>

(* sys_set_affinity, for the calling thread.                                *)
sys_set_affinity(c, aff) ==
  /\ kpc[c] = "user"
  /\ current[c] \in Threads
  /\ affinity[current[c]] # aff
  /\ affinity' = [affinity EXCEPT ![current[c]] = aff]
  /\ UNCHANGED <<ctxVars, sp, kpc>>

SwitchStep(c) == eret_to_thread(c) \/ finish_switch(c)

(* The scheduler by itself, with timer interrupts only; the modules above   *)
(* it add other_irq to their own steps.                                     *)
SchedStep(c) ==
  \/ SwitchStep(c) \/ sys_yield(c) \/ timer_tick(c)
  \/ \E aff \in NewAffinities : sys_set_affinity(c, aff)

SchedNext == \E c \in CPUs : SchedStep(c)

SchedSpec == SchedInit /\ [][SchedNext]_schedVars

(* A CPU that is in the kernel goes on, and the timer of each CPU fires.    *)
FairSchedSpec ==
  SchedSpec /\ \A c \in CPUs : WF_schedVars(SwitchStep(c) \/ timer_tick(c))
-----------------------------------------------------------------------------
(* Properties.                                                              *)

(* Every variable has its type.                                             *)
SchedTypeOK ==
  /\ state \in [AllThreads -> ThreadStates]
  /\ ks \in [AllThreads -> {"FREE", "LOCKED"}]
  /\ prev \in [AllThreads -> AllThreads]
  /\ affinity \in [Threads -> CPUs \union {NO_AFF}]
  /\ queue \in [CPUs -> Seq(Threads)]
  /\ current \in [CPUs -> AllThreads]
  /\ sp \in [CPUs -> AllThreads]

(* No two CPUs use the kernel stack of one thread, and none of them runs a  *)
(* thread whose kernel stack another one still uses: find_next_runnable_    *)
(* thread_in_list and finish_switch hand a migrating thread over safely.    *)
StackExclusive ==
  \A c, d \in CPUs : c # d =>
    /\ current[c] # current[d]
    /\ sp[c] # sp[d]
    /\ sp[c] # current[d]

Places(t) == UNION {{c} \X {i \in DOMAIN queue[c] : queue[c][i] = t} : c \in CPUs}

(* A thread is in the ready queues exactly when its state is TS_READY, and  *)
(* then once: no thread is lost, none is queued on two CPUs.                *)
QueuedOnce ==
  \A t \in Threads :
    IF state[t] = "READY" THEN IsSingleton(Places(t)) ELSE Places(t) = {}

(* A thread is in one place: ready and queued once, or in TS_RUNNING and    *)
(* the current thread of a CPU.                                             *)
OnePlace ==
  /\ QueuedOnce
  /\ \A t \in Threads : state[t] = "RUNNING" <=> \E c \in CPUs : current[c] = t

(* A ready thread gets to run, however the threads migrate.                 *)
ReadyRuns == \A t \in Threads : (state[t] = "READY") ~> (state[t] = "RUNNING")
=============================================================================
