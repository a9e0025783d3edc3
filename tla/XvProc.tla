------------------------------- MODULE XvProc -------------------------------
(***************************************************************************)
(* fork, exit and wait of xv6 (kernel/proc.c): processes that are born,    *)
(* die, are handed to init when their parent dies first, and are reaped by *)
(* whoever is their parent then.  The order in which the locks of parents  *)
(* and children are taken, the unlocked reads of p->parent and the copy of *)
(* it in exit are those of the code.                                       *)
(***************************************************************************)
EXTENDS XvSleep, Naturals

CONSTANTS NPROC, initproc

ASSUME ProcAssumption ==
  /\ NPROC \in Nat
  /\ Proc = 1 .. NPROC
  /\ initproc \in Proc
  /\ NoProc \notin Proc

VARIABLES
  parent,
  orig,       \* orig[p]: original_parent in exit
  np,         \* np[p]: the entry wait or reparent looks at next
  havekids,
  sh          \* the shell init has started (pid in user/init.c)

vars == <<procVars, parent, orig, np, havekids, sh>>

Exiting == {"exit", "exit_parent", "lock_parent", "lock_self", "reparent"}

TypeOK ==
  /\ state \in [Proc -> State]
  /\ chan \in [Proc -> Proc \cup {NoChan}]
  /\ killed \in [Proc -> BOOLEAN]
  /\ panicked \in BOOLEAN
  /\ plock \in [Proc -> Proc \cup {NoProc}]
  /\ pc \in [Proc -> Exiting \cup {"user", "wait", "sched", "gone"}]
  /\ parent \in [Proc -> Proc \cup {NoProc}]
  /\ orig \in [Proc -> Proc \cup {NoProc}]
  /\ np \in [Proc -> 1 .. NPROC + 1]
  /\ havekids \in [Proc -> BOOLEAN]
  /\ sh \in Proc \cup {NoProc}

\* userinit: init is there and nobody else.
Init ==
  /\ state = [p \in Proc |-> IF p = initproc THEN "RUNNABLE" ELSE "UNUSED"]
  /\ chan = [p \in Proc |-> NoChan]
  /\ killed = [p \in Proc |-> FALSE]
  /\ panicked = FALSE
  /\ plock = [p \in Proc |-> NoProc]
  /\ pc = [p \in Proc |-> IF p = initproc THEN "user" ELSE "gone"]
  /\ parent = [p \in Proc |-> NoProc]
  /\ orig = [p \in Proc |-> NoProc]
  /\ np = [p \in Proc |-> 1]
  /\ havekids = [p \in Proc |-> FALSE]
  /\ sh = NoProc

(***************************************************************************)
(* fork: allocproc finds an unused entry and returns with its lock, which  *)
(* is kept until the child is RUNNABLE.  init forks when it has no shell.  *)
(***************************************************************************)
fork(p, c) ==
  /\ At(p, "user")
  /\ ~killed[p]
  /\ p = initproc => sh = NoProc
  /\ Unlocked(c)
  /\ state[c] = "UNUSED"
  /\ state' = [state EXCEPT ![c] = "RUNNABLE"]
  /\ pc' = [pc EXCEPT ![c] = "user"]
  /\ parent' = [parent EXCEPT ![c] = p]
  /\ sh' = IF p = initproc THEN c ELSE sh
  /\ UNCHANGED <<chan, killed, plock, panicked, orig, np, havekids>>

\* With the table full init cannot start its shell, and exits: a panic.
fork_fails ==
  /\ At(initproc, "user")
  /\ sh = NoProc
  /\ \A c \in Proc : state[c] # "UNUSED"
  /\ panicked' = TRUE
  /\ UNCHANGED <<state, chan, killed, plock, pc, parent, orig, np, havekids, sh>>

(***************************************************************************)
(* exit, called by the process or by usertrap when it finds it killed.     *)
(***************************************************************************)
exit(p) ==
  /\ p # initproc
  /\ Step(p, "user", "exit")
  /\ UNCHANGED <<state, chan, killed, plock, parent, orig, np, havekids, sh>>

\* wakeup1(initproc) under init's lock
wake_init(p) ==
  /\ Step(p, "exit", "exit_parent")
  /\ Unlocked(initproc)
  /\ state' = Awake(initproc, {initproc})
  /\ UNCHANGED <<chan, killed, plock, parent, orig, np, havekids, sh>>

\* original_parent = p->parent under p's lock
copy_parent(p) ==
  /\ Step(p, "exit_parent", "lock_parent")
  /\ Unlocked(p)
  /\ orig' = [orig EXCEPT ![p] = parent[p]]
  /\ UNCHANGED <<state, chan, killed, plock, parent, np, havekids, sh>>

lock_parent(p) ==
  /\ Step(p, "lock_parent", "lock_self")
  /\ Unlocked(orig[p])
  /\ plock' = [plock EXCEPT ![orig[p]] = p]
  /\ UNCHANGED <<state, chan, killed, parent, orig, np, havekids, sh>>

lock_self(p) ==
  /\ Step(p, "lock_self", "reparent")
  /\ Unlocked(p)
  /\ plock' = [plock EXCEPT ![p] = p]
  /\ np' = [np EXCEPT ![p] = 1]
  /\ UNCHANGED <<state, chan, killed, parent, orig, havekids, sh>>

\* reparent looks at the entries one by one, without their locks, and gives a
\* child, under its lock, to init.
reparent(p) ==
  LET c == np[p] IN
  /\ Step(p, "reparent", "reparent")
  /\ c <= NPROC
  /\ parent[c] = p => Unlocked(c)
  /\ parent' = IF parent[c] = p THEN [parent EXCEPT ![c] = initproc] ELSE parent
  /\ np' = [np EXCEPT ![p] = @ + 1]
  /\ UNCHANGED <<state, chan, killed, plock, orig, havekids, sh>>

(* Mutant: the children stay behind.                                        *)
become_zombie_leaving(p) ==
  /\ Step(p, "reparent", "sched")
  /\ state' = [Awake(orig[p], {orig[p]}) EXCEPT ![p] = "ZOMBIE"]
  /\ plock' = [plock EXCEPT ![orig[p]] = NoProc]
  /\ UNCHANGED <<chan, killed, parent, orig, np, havekids, sh>>

(* Mutant: init is woken in place of the parent.                            *)
become_zombie_init(p) ==
  /\ Step(p, "reparent", "sched")
  /\ np[p] = NPROC + 1
  /\ state' = [Awake(initproc, {initproc}) EXCEPT ![p] = "ZOMBIE"]
  /\ plock' = [plock EXCEPT ![orig[p]] = NoProc]
  /\ UNCHANGED <<chan, killed, parent, orig, np, havekids, sh>>

(* Mutant: the lock is released before sched.                               *)
become_zombie_unlocked(p) ==
  /\ Step(p, "reparent", "sched")
  /\ np[p] = NPROC + 1
  /\ state' = [Awake(orig[p], {orig[p]}) EXCEPT ![p] = "ZOMBIE"]
  /\ plock' = [plock EXCEPT ![orig[p]] = NoProc, ![p] = NoProc]
  /\ UNCHANGED <<chan, killed, parent, orig, np, havekids, sh>>

\* After the last entry: wakeup1(original_parent), and p is a zombie.
become_zombie(p) ==
  /\ Step(p, "reparent", "sched")
  /\ np[p] = NPROC + 1
  /\ state' = [Awake(orig[p], {orig[p]}) EXCEPT ![p] = "ZOMBIE"]
  /\ plock' = [plock EXCEPT ![orig[p]] = NoProc]
  /\ UNCHANGED <<chan, killed, parent, orig, np, havekids, sh>>

\* sched: p leaves its stack, and the scheduler releases its lock.
leave(p) ==
  /\ ~panicked
  /\ state[p] = "ZOMBIE"
  /\ pc[p] = "sched"
  /\ pc' = [pc EXCEPT ![p] = "gone"]
  /\ plock' = [plock EXCEPT ![p] = NoProc]
  /\ orig' = [orig EXCEPT ![p] = NoProc]
  /\ np' = [np EXCEPT ![p] = 1]
  /\ UNCHANGED <<state, chan, killed, panicked, parent, havekids, sh>>

(***************************************************************************)
(* wait: p keeps its lock while it looks at the entries, one by one.  init *)
(* calls it while its shell lives.                                         *)
(***************************************************************************)
wait(p) ==
  /\ Step(p, "user", "wait")
  /\ ~killed[p]
  /\ p = initproc => sh # NoProc
  /\ Unlocked(p)
  /\ plock' = [plock EXCEPT ![p] = p]
  /\ np' = [np EXCEPT ![p] = 1]
  /\ havekids' = [havekids EXCEPT ![p] = FALSE]
  /\ UNCHANGED <<state, chan, killed, parent, orig, sh>>

\* The entry is not a child of p; p->parent is read without a lock.
wait_other(p) ==
  /\ Step(p, "wait", "wait")
  /\ np[p] <= NPROC
  /\ parent[np[p]] # p
  /\ np' = [np EXCEPT ![p] = @ + 1]
  /\ UNCHANGED <<state, chan, killed, plock, parent, orig, havekids, sh>>

wait_alive(p) ==
  /\ Step(p, "wait", "wait")
  /\ np[p] <= NPROC
  /\ parent[np[p]] = p
  /\ Unlocked(np[p])
  /\ state[np[p]] # "ZOMBIE"
  /\ np' = [np EXCEPT ![p] = @ + 1]
  /\ havekids' = [havekids EXCEPT ![p] = TRUE]
  /\ UNCHANGED <<state, chan, killed, plock, parent, orig, sh>>

\* A zombie: freeproc, and wait returns its pid.
wait_reap(p) ==
  LET c == np[p] IN
  /\ Step(p, "wait", "user")
  /\ c <= NPROC
  /\ parent[c] = p
  /\ Unlocked(c)
  /\ state[c] = "ZOMBIE"
  /\ state' = [state EXCEPT ![c] = "UNUSED"]
  /\ chan' = [chan EXCEPT ![c] = NoChan]
  /\ killed' = [killed EXCEPT ![c] = FALSE]
  /\ parent' = [parent EXCEPT ![c] = NoProc]
  /\ plock' = [plock EXCEPT ![p] = NoProc]
  /\ sh' = IF p = initproc /\ c = sh THEN NoProc ELSE sh
  /\ UNCHANGED <<orig, np, havekids>>

\* The address of the status is bad: wait returns -1, and the zombie stays.
wait_badaddr(p) ==
  LET c == np[p] IN
  /\ Step(p, "wait", "user")
  /\ p # initproc
  /\ c <= NPROC
  /\ parent[c] = p
  /\ Unlocked(c)
  /\ state[c] = "ZOMBIE"
  /\ plock' = [plock EXCEPT ![p] = NoProc]
  /\ UNCHANGED <<state, chan, killed, parent, orig, np, havekids, sh>>

\* wait returns -1 when it has found no child or p is killed ...
wait_none(p) ==
  /\ Step(p, "wait", "user")
  /\ np[p] = NPROC + 1
  /\ ~havekids[p] \/ killed[p]
  /\ plock' = [plock EXCEPT ![p] = NoProc]
  /\ UNCHANGED <<state, chan, killed, parent, orig, np, havekids, sh>>

\* ... or sleeps, on its own entry and its own lock, and starts over.
wait_sleep(p) ==
  /\ Step(p, "wait", "wait")
  /\ np[p] = NPROC + 1
  /\ havekids[p] /\ ~killed[p]
  /\ fall_asleep(p, p)
  /\ np' = [np EXCEPT ![p] = 1]
  /\ havekids' = [havekids EXCEPT ![p] = FALSE]
  /\ UNCHANGED <<killed, parent, orig, sh>>

childVars == <<parent, orig, np, havekids, sh>>

\* The rest of a call a process has begun, and its turn on a CPU.
Resume(p) == scheduler(p, pc[p] = "wait") /\ UNCHANGED childVars

Continue(p) ==
  \/ Resume(p)
  \/ wake_init(p) \/ copy_parent(p) \/ lock_parent(p) \/ lock_self(p)
  \/ reparent(p) \/ become_zombie(p) \/ leave(p)
  \/ wait_other(p) \/ wait_alive(p) \/ wait_reap(p) \/ wait_badaddr(p)
  \/ wait_none(p) \/ wait_sleep(p)

Next ==
  \/ \E p \in Proc :
       \/ Continue(p)
       \/ exit(p) \/ wait(p)
       \/ \E c \in Proc : fork(p, c)
       \/ yield(p) /\ UNCHANGED childVars
       \/ \E q \in Proc \ {initproc} : kill(p, q) /\ UNCHANGED childVars
  \/ fork_fails
  \/ halted /\ UNCHANGED childVars

Spec == Init /\ [][Next]_vars

(***************************************************************************)
(* A runnable process gets a CPU, a process in the kernel goes on, one     *)
(* that waits for a lock gets it in the end (the locks are test-and-set,   *)
(* so this is an assumption on the hardware's arbitration), and a killed   *)
(* process traps, at the latest on a timer interrupt.                      *)
(***************************************************************************)
FairSpec ==
  /\ Spec
  /\ \A p \in Proc : SF_vars(Continue(p)) /\ WF_vars(killed[p] /\ exit(p))

-----------------------------------------------------------------------------
(***************************************************************************)
(* WaitMissesNoChild: a child's exit and its parent's wait never cross so  *)
(* that the parent sleeps on: when nobody is in the middle of waking it, a *)
(* process asleep in wait has no zombie to reap.  (init is excepted: exit  *)
(* wakes it before the children of the exiting process are its own.)       *)
(***************************************************************************)
WaitMissesNoChild ==
  \A p \in Proc \ {initproc} :
    state[p] = "SLEEPING" => \A c \in Proc : parent[c] = p => state[c] # "ZOMBIE"

(***************************************************************************)
(* FreedIsGone: wait frees an entry only after its process has left its    *)
(* kernel stack for good: the zombie keeps its lock until it is switched   *)
(* away from, and freeproc needs that lock.                                *)
(***************************************************************************)
FreedIsGone ==
  \A p \in Proc : state[p] = "UNUSED" => pc[p] = "gone" /\ \A q \in Proc : plock[q] # p

(***************************************************************************)
(* NoOrphan: every process has a parent that can still reap it: reparent   *)
(* misses no child, although it reads pp->parent without a lock, and the   *)
(* entry of the parent is not reused under its children.                   *)
(***************************************************************************)
NoOrphan ==
  \A p \in Proc \ {initproc} :
    state[p] # "UNUSED" =>
      /\ parent[p] \in Proc
      /\ state[parent[p]] \notin {"UNUSED", "ZOMBIE"}

(***************************************************************************)
(* KilledExits: a killed process becomes a zombie, wherever kill finds it: *)
(* asleep in wait, about to sleep there, or in the middle of exit, and     *)
(* whatever locks of parents and children are wanted meanwhile.            *)
(***************************************************************************)
KilledExits ==
  \A p \in Proc \ {initproc} :
    killed[p] ~> panicked \/ state[p] \in {"ZOMBIE", "UNUSED"}

-----------------------------------------------------------------------------
(***************************************************************************)
(* InitReaps: "this call to wait() returns if the shell exits, or if a     *)
(* parentless process exits" (user/init.c), for an init that goes on with  *)
(* its loop.                                                               *)
(***************************************************************************)
init_forks == fork_fails \/ \E c \in Proc : fork(initproc, c)

InitSpec == FairSpec /\ SF_vars(wait(initproc)) /\ SF_vars(init_forks)

InitReaps ==
  \A p \in Proc \ {initproc} :
    (state[p] = "ZOMBIE" /\ parent[p] = initproc) ~> panicked \/ state[p] = "UNUSED"
=============================================================================
