---------------------------- MODULE XvSleepProofs ----------------------------
(***************************************************************************)
(* Proofs about the two users of XvSleep.  Processes: the safety of fork,  *)
(* exit and wait, for a process table of any size.  Pipes: no wakeup is    *)
(* lost, the page is freed once and the ring is a bounded channel, for any *)
(* number of readers and writers, any size of the ring and of its counters.*)
(***************************************************************************)
EXTENDS XvProc, XvPipe, TLAPS

(* Where a process is in the kernel agrees with its state.                  *)
Control ==
  \A p \in Proc :
    /\ state[p] = "UNUSED" => pc[p] = "gone"
    /\ state[p] = "ZOMBIE" => pc[p] \in {"sched", "gone"}
    /\ state[p] = "RUNNABLE" => pc[p] \in {"user", "wait"}
    /\ state[p] = "SLEEPING" => pc[p] = "wait" /\ chan[p] = p
    /\ state[p] = "RUNNING" => pc[p] \notin {"sched", "gone"}
    /\ pc[p] = "wait" /\ state[p] # "RUNNING" => np[p] = 1

(* Process p holds the lock of q: its own in wait and at the end of exit,   *)
(* and there that of the parent it has copied.                              *)
Holds(p, q) ==
  \/ q = p /\ (pc[p] \in {"reparent", "sched"} \/ (pc[p] = "wait" /\ state[p] = "RUNNING"))
  \/ q = orig[p] /\ pc[p] \in {"lock_self", "reparent"}

Locks == \A p, q \in Proc : plock[q] = p <=> Holds(p, q)

(* init lives and has no parent; every other process has one, which lives.  *)
Family ==
  /\ parent[initproc] = NoProc /\ pc[initproc] \in {"user", "wait"}
  /\ \A p \in Proc : state[p] = "UNUSED" => parent[p] = NoProc
  /\ \A p \in Proc \ {initproc} : state[p] # "UNUSED" => parent[p] \in Proc
  /\ \A p, c \in Proc : parent[c] = p => p # c /\ state[p] \notin {"UNUSED", "ZOMBIE"}

(* What exit has copied is the parent still, unless it is init by now.      *)
Dying ==
  \A p \in Proc : pc[p] \in {"lock_parent", "lock_self", "reparent", "sched"} =>
    orig[p] \in Proc \ {p} /\ parent[p] \in {orig[p], initproc}

(* reparent has left no child behind, wait no zombie.                       *)
Scans ==
  \A p, c \in Proc : c < np[p] =>
    /\ pc[p] = "reparent" => parent[c] # p
    /\ p # initproc /\ pc[p] = "wait" /\ state[p] = "RUNNING" /\ parent[c] = p =>
         state[c] # "ZOMBIE"

IInv == TypeOK /\ Control /\ Locks /\ Family /\ Dying /\ Scans /\ WaitMissesNoChild
(* A step leaves a process as it is, or wakes it.                           *)
AtMostWoken(q) == state'[q] = state[q] \/ (state[q] = "SLEEPING" /\ state'[q] = "RUNNABLE")

-----------------------------------------------------------------------------
(* The steps of exit.                                                       *)
LEMMA ExitStep ==
  ASSUME IInv, NEW p \in Proc
  PROVE  (\/ exit(p) \/ wake_init(p) \/ copy_parent(p) \/ lock_parent(p)
          \/ lock_self(p) \/ reparent(p) \/ become_zombie(p) \/ leave(p))
         => IInv'
<1>1. ASSUME exit(p) PROVE IInv'
  <2> USE <1>1
  <2>1. TypeOK'
    BY Zenon DEF exit, Step, Exiting, IInv, TypeOK
  <2>2. Control'
    BY Zenon DEF exit, Step, At, Control, IInv, TypeOK
  <2>3. Locks'
    BY SMTT(30) DEF exit, Step, At, Locks, Holds, IInv
  <2>4. Family'
    BY SMTT(30) DEF exit, Step, Family, IInv
  <2>5. Dying'
    BY Zenon DEF exit, Step, Dying, IInv, TypeOK
  <2>6. Scans'
    BY Zenon DEF exit, Step, Scans, IInv, TypeOK
  <2>7. WaitMissesNoChild'
    BY Zenon DEF exit, WaitMissesNoChild, IInv
  <2> QED BY <2>1, <2>2, <2>3, <2>4, <2>5, <2>6, <2>7, Zenon DEF IInv
<1>2. ASSUME wake_init(p) PROVE IInv'
  <2> USE <1>2
  <2>1. TypeOK'
    BY Zenon DEF wake_init, Step, Awake, State, Exiting, IInv, TypeOK
  <2>2. Control'
    BY Zenon DEF wake_init, Step, At, Awake, Control, IInv, TypeOK
  <2>3. Locks'
    BY SMTT(30) DEF wake_init, Step, At, Awake, Locks, Holds, IInv
  <2>4. Family'
    BY SMTT(30) DEF wake_init, Step, At, Awake, Family, IInv
  <2>5. Dying'
    BY Zenon DEF wake_init, Step, Dying, IInv, TypeOK
  <2>6. Scans'
    BY Zenon DEF wake_init, Step, Awake, Scans, IInv, TypeOK
  <2>7. WaitMissesNoChild'
    BY Zenon DEF wake_init, Awake, WaitMissesNoChild, IInv
  <2> QED BY <2>1, <2>2, <2>3, <2>4, <2>5, <2>6, <2>7, Zenon DEF IInv
<1>3. ASSUME copy_parent(p) PROVE IInv'
  <2> USE <1>3
  <2>1. TypeOK'
    BY Zenon DEF copy_parent, Step, Exiting, IInv, TypeOK
  <2>2. Control'
    BY Zenon DEF copy_parent, Step, At, Control, IInv, TypeOK
  <2>3. Locks'
    BY SMTT(30) DEF copy_parent, Step, At, Locks, Holds, IInv
  <2>4. Family'
    BY SMTT(30) DEF copy_parent, Step, At, Family, IInv
  <2>5. Dying'
    BY SMTT(30)
       DEF copy_parent, Step, At, Unlocked, Control, Family, Dying, IInv, TypeOK
  <2>6. Scans'
    BY Zenon DEF copy_parent, Step, Scans, IInv, TypeOK
  <2>7. WaitMissesNoChild'
    BY Zenon DEF copy_parent, WaitMissesNoChild, IInv
  <2> QED BY <2>1, <2>2, <2>3, <2>4, <2>5, <2>6, <2>7, Zenon DEF IInv
<1>4. ASSUME lock_parent(p) PROVE IInv'
  <2> USE <1>4
  <2>1. TypeOK'
    BY Zenon DEF lock_parent, Step, Exiting, IInv, TypeOK
  <2>2. Control'
    BY Zenon DEF lock_parent, Step, At, Control, IInv, TypeOK
  <2>3. Locks'
    BY ProcAssumption, SMTT(30)
       DEF lock_parent, Step, At, Unlocked, Locks, Holds, IInv, TypeOK
  <2>4. Family'
    BY SMTT(30) DEF lock_parent, Step, At, Unlocked, Family, IInv
  <2>5. Dying'
    BY Zenon DEF lock_parent, Step, At, Dying, IInv, TypeOK
  <2>6. Scans'
    BY Zenon DEF lock_parent, Step, Scans, IInv, TypeOK
  <2>7. WaitMissesNoChild'
    BY Zenon DEF lock_parent, Unlocked, Control, WaitMissesNoChild, IInv
  <2> QED BY <2>1, <2>2, <2>3, <2>4, <2>5, <2>6, <2>7, Zenon DEF IInv
<1>5. ASSUME lock_self(p) PROVE IInv'
  <2> USE <1>5
  <2>1. TypeOK'
    BY ProcAssumption, SMTT(30) DEF lock_self, Step, State, Exiting, IInv, TypeOK
  <2>2. Control'
    BY Zenon DEF lock_self, Step, At, Control, IInv, TypeOK
  <2>3. Locks'
    BY ProcAssumption, SMTT(30)
       DEF lock_self, Step, At, Unlocked, Locks, Holds, IInv, TypeOK
  <2>4. Family'
    BY SMTT(30) DEF lock_self, Step, At, Family, IInv
  <2>5. Dying'
    BY Zenon DEF lock_self, Step, At, Dying, Holds, IInv, TypeOK
  <2>6. Scans'
    BY ProcAssumption, SMTT(30) DEF lock_self, Step, Scans, IInv, TypeOK
  <2>7. WaitMissesNoChild'
    BY Zenon DEF lock_self, WaitMissesNoChild, IInv
  <2> QED BY <2>1, <2>2, <2>3, <2>4, <2>5, <2>6, <2>7, Zenon DEF IInv
<1>6. ASSUME reparent(p) PROVE IInv'
  <2> USE <1>6
  <2>1. TypeOK'
    <3>1. parent' \in [Proc -> Proc \cup {NoProc}]
      BY ProcAssumption, Zenon DEF reparent, IInv, TypeOK
    <3>2. np' \in [Proc -> 1 .. NPROC + 1]
      BY ProcAssumption, SMTT(30) DEF reparent, IInv, TypeOK
    <3>3. pc' \in [Proc -> Exiting \cup {"user", "wait", "sched", "gone"}] /\ panicked' = panicked
      BY Zenon DEF reparent, Step, At, Exiting, IInv, TypeOK
    <3>4. UNCHANGED <<state, chan, killed, plock, orig, havekids, sh>>
      BY Zenon DEF reparent
    <3> QED BY <3>1, <3>2, <3>3, <3>4, Zenon DEF IInv, TypeOK
  <2>2. Control'
    BY Zenon DEF reparent, Step, At, Control, IInv, TypeOK
  <2>3. Locks'
    BY SMTT(30) DEF reparent, Step, At, Locks, Holds, IInv
  <2>4. Family'
    <3>1. /\ UNCHANGED <<state, pc>> /\ pc[initproc] \in {"user", "wait"}
          /\ state[initproc] \notin {"UNUSED", "ZOMBIE"}
      BY ProcAssumption, SMTT(30) DEF reparent, Step, At, Control, Family, IInv, TypeOK
    <3>2. \A c \in Proc : parent'[c] = parent[c] \/ (parent[c] = p /\ parent'[c] = initproc)
      BY Zenon DEF reparent, TypeOK, IInv
    <3>3. parent[initproc] = NoProc
      BY Zenon DEF Family, IInv
    <3>4. \A c, q \in Proc : parent'[c] = q =>
            parent[c] = q \/ (parent[c] = p /\ q = initproc /\ c # initproc)
      BY <3>2, <3>3, ProcAssumption, Zenon
    <3>5. \A q, c \in Proc : parent'[c] = q => q # c /\ state'[q] \notin {"UNUSED", "ZOMBIE"}
      BY <3>1, <3>4, ZenonT(60) DEF Family, IInv
    <3>6. \A q \in Proc : /\ parent[q] = NoProc => parent'[q] = NoProc
                          /\ parent[q] \in Proc => parent'[q] \in Proc
      BY <3>2, ProcAssumption, Zenon
    <3> QED BY <3>1, <3>5, <3>6, ProcAssumption, Zenon DEF Family, IInv
  <2>5. Dying'
    BY Zenon DEF reparent, Step, At, Dying, IInv, TypeOK
  <2>6. Scans'
    <3>1. /\ UNCHANGED <<state, pc>> /\ pc[initproc] \in {"user", "wait"} /\ p # initproc
          /\ np' = [np EXCEPT ![p] = @ + 1] /\ np[p] \in Proc /\ pc[p] = "reparent"
      BY ProcAssumption, SMTT(30) DEF reparent, Step, At, Family, IInv, TypeOK
    <3>2. \A c \in Proc : parent'[c] = parent[c] \/ (parent[c] = p /\ parent'[c] = initproc)
      BY Zenon DEF reparent, TypeOK, IInv
    <3>3. parent'[np[p]] # p
      BY <3>1, Zenon DEF reparent, IInv, TypeOK
    <3> QED BY <3>1, <3>2, <3>3, ProcAssumption, SMTT(30) DEF Scans, IInv
  <2>7. WaitMissesNoChild'
    BY Zenon DEF reparent, At, WaitMissesNoChild, IInv, TypeOK
  <2> QED BY <2>1, <2>2, <2>3, <2>4, <2>5, <2>6, <2>7, Zenon DEF IInv
<1>7. ASSUME become_zombie(p) PROVE IInv'
  <2> USE <1>7
  <2>1. TypeOK'
    BY Zenon DEF become_zombie, Step, Awake, State, IInv, TypeOK
  <2>2. Control'
    BY Zenon DEF become_zombie, Step, Awake, Control, IInv, TypeOK
  <2>3. Locks'
    <3>1. orig[p] \in Proc \ {p} /\ pc[p] = "reparent"
      BY Zenon DEF become_zombie, Step, At, Dying, IInv
    <3>2. /\ pc' = [pc EXCEPT ![p] = "sched"] /\ orig' = orig
          /\ plock' = [plock EXCEPT ![orig[p]] = NoProc]
          /\ \A q \in Proc \ {p} : AtMostWoken(q)
      BY Zenon DEF become_zombie, Step, Awake, AtMostWoken
    <3> QED BY <3>1, <3>2, ProcAssumption, SMTT(30)
          DEF Locks, Holds, AtMostWoken, IInv, TypeOK
  <2>4. Family'
    <3>1. \A c \in Proc : parent[c] # p
      BY ProcAssumption, SMTT(30) DEF become_zombie, Step, At, Scans, IInv
    <3>2. /\ UNCHANGED parent /\ pc' = [pc EXCEPT ![p] = "sched"] /\ pc[p] = "reparent"
          /\ state[p] = "RUNNING" /\ state'[p] = "ZOMBIE"
          /\ \A q \in Proc \ {p} : AtMostWoken(q)
      BY Zenon DEF become_zombie, Step, At, Awake, AtMostWoken
    <3>3. p # initproc /\ pc'[initproc] \in {"user", "wait"}
      BY <3>2, SMTT(30) DEF Family, IInv
    <3>4. \A q \in Proc : state'[q] = "UNUSED" <=> state[q] = "UNUSED"
      BY <3>2, Zenon DEF AtMostWoken
    <3>5. \A q, c \in Proc : parent[c] = q => q # c /\ state'[q] \notin {"UNUSED", "ZOMBIE"}
      BY <3>1, <3>2, ZenonT(60) DEF Family, AtMostWoken, IInv, TypeOK
    <3> QED BY <3>2, <3>4, <3>5, SMTT(30) DEF Family, IInv
  <2>5. Dying'
    BY Zenon DEF become_zombie, Step, At, Dying, IInv, TypeOK
  <2>6. Scans'
    <3>1. /\ pc' = [pc EXCEPT ![p] = "sched"] /\ UNCHANGED <<parent, np>>
          /\ \A q \in Proc \ {p} : AtMostWoken(q)
      BY Zenon DEF become_zombie, Step, Awake, AtMostWoken
    <3>2. parent[p] \in {orig[p], initproc} /\ plock[orig[p]] = p
      BY Zenon DEF become_zombie, Step, At, Dying, Locks, Holds, IInv
    <3>3. ASSUME NEW q \in Proc, q # initproc, pc[q] = "wait", state[q] = "RUNNING"
          PROVE  parent[p] # q
      BY <3>2, <3>3, SMTT(30) DEF Locks, Holds, become_zombie, Step, At, IInv
    <3> SUFFICES ASSUME NEW q \in Proc, NEW c \in Proc, c < np[q]
                 PROVE  /\ pc'[q] = "reparent" => parent[c] # q
                        /\ q # initproc /\ pc'[q] = "wait" /\ state'[q] = "RUNNING"
                             /\ parent[c] = q => state'[c] # "ZOMBIE"
      BY <3>1, Zenon DEF Scans
    <3>4. q # p => pc'[q] = pc[q] /\ (state'[q] = "RUNNING" => state[q] = "RUNNING")
      BY <3>1, Zenon DEF AtMostWoken, TypeOK, IInv
    <3>5. pc'[p] = "sched"
      BY <3>1, Zenon DEF IInv, TypeOK
    <3>6. c # p /\ state'[c] = "ZOMBIE" => state[c] = "ZOMBIE"
      BY <3>1, Zenon DEF AtMostWoken
    <3> QED BY <3>3, <3>4, <3>5, <3>6, Zenon DEF Scans, IInv
  <2>7. WaitMissesNoChild'
    <3>3. pc[p] = "reparent" /\ UNCHANGED parent
      BY Zenon DEF become_zombie, Step, At
    <3>4. state'[p] = "ZOMBIE"
      BY Zenon DEF become_zombie, Awake
    <3>1. /\ UNCHANGED parent /\ state'[p] = "ZOMBIE" /\ orig[p] \in Proc /\ orig[p] # p
          /\ parent[p] \in {orig[p], initproc}
      BY <3>3, <3>4, Zenon DEF Dying, IInv
    <3>2. /\ \A q \in Proc \ {p} : AtMostWoken(q)
          /\ state'[orig[p]] # "SLEEPING"
      BY <3>1, Zenon DEF become_zombie, Awake, AtMostWoken, Control, IInv
    <3> SUFFICES ASSUME NEW q \in Proc \ {initproc}, state'[q] = "SLEEPING",
                        NEW c \in Proc, parent[c] = q
                 PROVE  state'[c] # "ZOMBIE"
      BY <3>1, Zenon DEF WaitMissesNoChild
    <3>5. q # p /\ state[q] = "SLEEPING" /\ c # p
      BY <3>1, <3>2, Zenon DEF AtMostWoken
    <3>6. state[c] # "ZOMBIE"
      BY <3>5, Zenon DEF WaitMissesNoChild, IInv
    <3> QED BY <3>2, <3>5, <3>6, Zenon DEF AtMostWoken
  <2> QED BY <2>1, <2>2, <2>3, <2>4, <2>5, <2>6, <2>7, Zenon DEF IInv
<1>8. ASSUME leave(p) PROVE IInv'
  <2> USE <1>8
  <2>1. TypeOK'
    BY ProcAssumption, SMTT(30) DEF leave, Unlocked, IInv, TypeOK
  <2>2. Control'
    BY Zenon DEF leave, Control, IInv, TypeOK
  <2>3. Locks'
    BY ProcAssumption, SMTT(30) DEF leave, Unlocked, Control, Locks, Holds, IInv, TypeOK
  <2>4. Family'
    BY SMTT(30) DEF leave, Family, Holds, IInv
  <2>5. Dying'
    BY Zenon DEF leave, Dying, IInv, TypeOK
  <2>6. Scans'
    BY Zenon DEF leave, Scans, Holds, IInv, TypeOK
  <2>7. WaitMissesNoChild'
    BY Zenon DEF leave, WaitMissesNoChild, IInv
  <2> QED BY <2>1, <2>2, <2>3, <2>4, <2>5, <2>6, <2>7, Zenon DEF IInv
<1> QED BY <1>1, <1>2, <1>3, <1>4, <1>5, <1>6, <1>7, <1>8, Zenon

(* The steps of wait.                                                       *)
LEMMA WaitStep ==
  ASSUME IInv, NEW p \in Proc
  PROVE  (\/ wait(p) \/ wait_other(p) \/ wait_alive(p) \/ wait_reap(p)
          \/ wait_badaddr(p) \/ wait_none(p) \/ wait_sleep(p))
         => IInv'
<1>1. ASSUME wait(p) PROVE IInv'
  <2> USE <1>1
  <2>1. TypeOK'
    BY ProcAssumption, SMTT(30) DEF wait, Step, At, Exiting, IInv, TypeOK
  <2>2. Control'
    BY Zenon DEF wait, Step, At, Control, IInv, TypeOK
  <2>3. Locks'
    BY ProcAssumption, SMTT(30)
       DEF wait, Step, At, Unlocked, Control, Locks, Holds, IInv, TypeOK
  <2>4. Family'
    BY SMTT(30) DEF wait, Step, At, Unlocked, Family, IInv
  <2>5. Dying'
    BY Zenon DEF wait, Step, Unlocked, Dying, IInv, TypeOK
  <2>6. Scans'
    BY ProcAssumption, SMTT(30) DEF wait, Step, At, Unlocked, Scans, IInv, TypeOK
  <2>7. WaitMissesNoChild'
    BY Zenon DEF wait, Unlocked, WaitMissesNoChild, IInv
  <2> QED BY <2>1, <2>2, <2>3, <2>4, <2>5, <2>6, <2>7, Zenon DEF IInv
<1>2. ASSUME wait_other(p) PROVE IInv'
  <2> USE <1>2
  <2>1. TypeOK'
    BY ProcAssumption, SMTT(30) DEF wait_other, Step, At, Exiting, IInv, TypeOK
  <2>2. Control'
    BY Zenon DEF wait_other, Step, At, Control, IInv, TypeOK
  <2>3. Locks'
    BY SMTT(30) DEF wait_other, Step, At, Locks, Holds, IInv
  <2>4. Family'
    BY SMTT(30) DEF wait_other, Step, Family, IInv
  <2>5. Dying'
    BY Zenon DEF wait_other, Step, Dying, IInv, TypeOK
  <2>6. Scans'
    BY ProcAssumption, SMTT(30) DEF wait_other, Step, At, Unlocked, Scans, IInv, TypeOK
  <2>7. WaitMissesNoChild'
    BY Zenon DEF wait_other, WaitMissesNoChild, IInv
  <2> QED BY <2>1, <2>2, <2>3, <2>4, <2>5, <2>6, <2>7, Zenon DEF IInv
<1>3. ASSUME wait_alive(p) PROVE IInv'
  <2> USE <1>3
  <2>1. TypeOK'
    BY ProcAssumption, SMTT(30)
       DEF wait_alive, Step, At, Unlocked, State, Exiting, IInv, TypeOK
  <2>2. Control'
    BY Zenon DEF wait_alive, Step, At, Control, IInv, TypeOK
  <2>3. Locks'
    BY SMTT(30) DEF wait_alive, Step, At, Locks, Holds, IInv
  <2>4. Family'
    BY SMTT(30) DEF wait_alive, Step, Family, IInv
  <2>5. Dying'
    BY Zenon DEF wait_alive, Step, Dying, IInv, TypeOK
  <2>6. Scans'
    BY ProcAssumption, SMTT(30)
       DEF wait_alive, Step, At, Dying, Scans, Locks, IInv, TypeOK
  <2>7. WaitMissesNoChild'
    BY Zenon DEF wait_alive, WaitMissesNoChild, IInv
  <2> QED BY <2>1, <2>2, <2>3, <2>4, <2>5, <2>6, <2>7, Zenon DEF IInv
<1>4. ASSUME wait_reap(p) PROVE IInv'
  <2> USE <1>4
  <2>1. TypeOK'
    BY Zenon DEF wait_reap, Step, State, Exiting, IInv, TypeOK
  <2>2. Control'
    <3>1. pc[np[p]] = "gone"
      BY ProcAssumption, SMTT(30)
         DEF wait_reap, Unlocked, Control, Locks, Holds, IInv, TypeOK
    <3> QED BY <3>1, ZenonT(60) DEF wait_reap, Step, At, Control, IInv, TypeOK
  <2>3. Locks'
    BY ProcAssumption, SMTT(30)
       DEF wait_reap, Step, At, Unlocked, Control, Locks, Holds, IInv, TypeOK
  <2>4. Family'
    BY ProcAssumption, SMTT(30)
       DEF wait_reap, Step, At, Control, Family, Locks, IInv, TypeOK
  <2>5. Dying'
    BY ProcAssumption, SMTT(30)
       DEF wait_reap, Step, Unlocked, Control, Dying, Locks, Holds, IInv
  <2>6. Scans'
    BY ProcAssumption, SMTT(30) DEF wait_reap, Step, Scans, IInv
  <2>7. WaitMissesNoChild'
    BY ProcAssumption, SMTT(30) DEF wait_reap, WaitMissesNoChild, IInv
  <2> QED BY <2>1, <2>2, <2>3, <2>4, <2>5, <2>6, <2>7, Zenon DEF IInv
<1>5. ASSUME wait_badaddr(p) PROVE IInv'
  <2> USE <1>5
  <2>1. TypeOK'
    BY Zenon DEF wait_badaddr, Step, State, Exiting, IInv, TypeOK
  <2>2. Control'
    BY Zenon DEF wait_badaddr, Step, At, Control, IInv, TypeOK
  <2>3. Locks'
    BY ProcAssumption, SMTT(30)
       DEF wait_badaddr, Step, At, Control, Locks, Holds, IInv, TypeOK
  <2>4. Family'
    BY SMTT(30) DEF wait_badaddr, Step, Family, Locks, Holds, IInv
  <2>5. Dying'
    BY SMTT(30) DEF wait_badaddr, Step, At, Dying, Locks, Holds, IInv
  <2>6. Scans'
    BY Zenon DEF wait_badaddr, Step, At, Scans, IInv, TypeOK
  <2>7. WaitMissesNoChild'
    BY Zenon DEF wait_badaddr, WaitMissesNoChild, IInv
  <2> QED BY <2>1, <2>2, <2>3, <2>4, <2>5, <2>6, <2>7, Zenon DEF IInv
<1>6. ASSUME wait_none(p) PROVE IInv'
  <2> USE <1>6
  <2>1. TypeOK'
    BY Zenon DEF wait_none, Step, IInv, TypeOK
  <2>2. Control'
    BY Zenon DEF wait_none, Step, At, Control, IInv, TypeOK
  <2>3. Locks'
    <3>1. plock' = [plock EXCEPT ![p] = NoProc] /\ pc[p] = "wait" /\ state[p] = "RUNNING"
      BY Zenon DEF wait_none, Step, At
    <3>4. plock[p] = p
      BY <3>1, Zenon DEF Locks, Holds, IInv
    <3>2. ~Holds(p, p)' /\ \A q \in Proc \ {p} : ~Holds(p, q) /\ ~Holds(p, q)'
      BY Zenon DEF wait_none, Step, At, Holds, IInv, TypeOK
    <3>3. \A r \in Proc \ {p} : \A q \in Proc : Holds(r, q)' <=> Holds(r, q)
      BY ZenonT(60) DEF wait_none, Step, Holds, TypeOK, IInv
    <3> SUFFICES ASSUME NEW r \in Proc, NEW q \in Proc PROVE plock'[q] = r <=> Holds(r, q)'
      BY Zenon DEF Locks
    <3>5. plock[q] = r <=> Holds(r, q)
      BY Zenon DEF Locks, IInv
    <3>6. CASE r = p
      BY <3>1, <3>2, <3>5, <3>6, ProcAssumption, Zenon DEF IInv, TypeOK
    <3>7. CASE r # p
      BY <3>1, <3>3, <3>4, <3>5, <3>7, ProcAssumption, SMTT(30)
    <3> QED BY <3>6, <3>7, Zenon
  <2>4. Family'
    BY SMTT(30) DEF wait_none, Step, Family, IInv
  <2>5. Dying'
    BY Zenon DEF wait_none, Step, Dying, IInv, TypeOK
  <2>6. Scans'
    BY ZenonT(60) DEF wait_none, Step, Scans, IInv, TypeOK
  <2>7. WaitMissesNoChild'
    BY Zenon DEF wait_none, Unlocked, WaitMissesNoChild, IInv
  <2> QED BY <2>1, <2>2, <2>3, <2>4, <2>5, <2>6, <2>7, Zenon DEF IInv
<1>7. ASSUME wait_sleep(p) PROVE IInv'
  <2> USE <1>7
  <2>1. TypeOK'
    BY SMTT(30) DEF wait_sleep, Step, fall_asleep, State, IInv, TypeOK
  <2>2. Control'
    BY Zenon DEF wait_sleep, Step, Unlocked, fall_asleep, Control, IInv, TypeOK
  <2>3. Locks'
    <3>1. plock' = [plock EXCEPT ![p] = NoProc] /\ pc[p] = "wait" /\ state[p] = "RUNNING"
      BY Zenon DEF wait_sleep, Step, At, fall_asleep
    <3>4. plock[p] = p
      BY <3>1, Zenon DEF Locks, Holds, IInv
    <3>2. ~Holds(p, p)' /\ \A q \in Proc \ {p} : ~Holds(p, q) /\ ~Holds(p, q)'
      BY Zenon DEF wait_sleep, Step, At, fall_asleep, Holds, IInv, TypeOK
    <3>3. \A r \in Proc \ {p} : \A q \in Proc : Holds(r, q)' <=> Holds(r, q)
      BY ZenonT(60) DEF wait_sleep, Step, fall_asleep, Holds, TypeOK, IInv
    <3> SUFFICES ASSUME NEW r \in Proc, NEW q \in Proc PROVE plock'[q] = r <=> Holds(r, q)'
      BY Zenon DEF Locks
    <3>5. plock[q] = r <=> Holds(r, q)
      BY Zenon DEF Locks, IInv
    <3>6. CASE r = p
      BY <3>1, <3>2, <3>5, <3>6, ProcAssumption, Zenon DEF IInv, TypeOK
    <3>7. CASE r # p
      BY <3>1, <3>3, <3>4, <3>5, <3>7, ProcAssumption, SMTT(30)
    <3> QED BY <3>6, <3>7, Zenon
  <2>4. Family'
    BY SMTT(30) DEF wait_sleep, Step, At, fall_asleep, Control, Family, IInv
  <2>5. Dying'
    BY SMTT(30) DEF wait_sleep, Step, At, fall_asleep, Dying, Locks, Holds, IInv
  <2>6. Scans'
    BY ProcAssumption, SMTT(30)
       DEF wait_sleep, Step, At, fall_asleep, Scans, Holds, IInv
  <2>7. WaitMissesNoChild'
    BY ProcAssumption, SMTT(30)
       DEF wait_sleep, Step, At, fall_asleep, Scans, WaitMissesNoChild, IInv
  <2> QED BY <2>1, <2>2, <2>3, <2>4, <2>5, <2>6, <2>7, Zenon DEF IInv
<1> QED BY <1>1, <1>2, <1>3, <1>4, <1>5, <1>6, <1>7, Zenon

(* Processes are born, are scheduled and preempted, and killed.             *)
LEMMA OtherStep ==
  ASSUME IInv, NEW p \in Proc, NEW q \in Proc
  PROVE  (fork(p, q) \/ ((Resume(p) \/ yield(p) \/ kill(p, q)) /\ UNCHANGED childVars))
         => IInv'
<1>1. ASSUME fork(p, q) PROVE IInv'
  <2> USE <1>1
  <2>1. TypeOK'
    BY Zenon DEF fork, State, IInv, TypeOK
  <2>2. Control'
    BY Zenon DEF fork, Control, IInv, TypeOK
  <2>3. Locks'
    BY SMTT(30) DEF fork, Control, Locks, Holds, IInv
  <2>4. Family'
    BY SMTT(30) DEF fork, At, Control, Family, IInv, TypeOK
  <2>5. Dying'
    BY Zenon DEF fork, Control, Dying, IInv, TypeOK
  <2>6. Scans'
    BY ZenonT(60) DEF fork, At, Scans, IInv, TypeOK
  <2>7. WaitMissesNoChild'
    BY Zenon DEF fork, WaitMissesNoChild, IInv, TypeOK
  <2> QED BY <2>1, <2>2, <2>3, <2>4, <2>5, <2>6, <2>7, Zenon DEF IInv
<1>2. ASSUME Resume(p) PROVE IInv'
  <2> USE <1>2
  <2>1. TypeOK'
    BY Zenon DEF Resume, scheduler, State, IInv, TypeOK, childVars
  <2>2. Control'
    BY Zenon DEF Resume, scheduler, Control, IInv, childVars, TypeOK
  <2>3. Locks'
    BY ProcAssumption, SMTT(30)
       DEF Resume, scheduler, Unlocked, Locks, Holds, IInv, TypeOK, childVars
  <2>4. Family'
    BY ZenonT(60) DEF Resume, scheduler, Family, IInv, childVars, TypeOK
  <2>5. Dying'
    BY Zenon DEF Resume, scheduler, Dying, IInv, childVars
  <2>6. Scans'
    BY ProcAssumption, SMTT(30) DEF Resume, scheduler, Control, Scans, IInv, childVars
  <2>7. WaitMissesNoChild'
    BY Zenon DEF Resume, scheduler, WaitMissesNoChild, IInv, childVars, TypeOK
  <2> QED BY <2>1, <2>2, <2>3, <2>4, <2>5, <2>6, <2>7, Zenon DEF IInv
<1>3. ASSUME yield(p) /\ UNCHANGED childVars PROVE IInv'
  <2> USE <1>3
  <2>1. TypeOK'
    BY Zenon DEF yield, Step, State, IInv, TypeOK, childVars
  <2>2. Control'
    BY ZenonT(60) DEF yield, Step, At, Control, Family, IInv, childVars, TypeOK
  <2>3. Locks'
    BY SMTT(30) DEF yield, Step, At, Locks, Holds, IInv, childVars
  <2>4. Family'
    BY SMTT(30) DEF yield, Step, At, Family, IInv, childVars
  <2>5. Dying'
    BY Zenon DEF yield, Step, Dying, IInv, childVars, TypeOK
  <2>6. Scans'
    BY Zenon DEF yield, Step, Scans, IInv, childVars, TypeOK
  <2>7. WaitMissesNoChild'
    BY Zenon DEF yield, WaitMissesNoChild, IInv, childVars, TypeOK
  <2> QED BY <2>1, <2>2, <2>3, <2>4, <2>5, <2>6, <2>7, Zenon DEF IInv
<1>4. ASSUME kill(p, q) /\ UNCHANGED childVars PROVE IInv'
  <2> USE <1>4
  <2>1. TypeOK'
    BY Zenon DEF kill, Step, State, IInv, TypeOK, childVars
  <2>2. Control'
    BY ZenonT(60) DEF kill, Step, At, Control, IInv, childVars, TypeOK
  <2>3. Locks'
    BY SMTT(30) DEF kill, Step, At, Locks, Holds, IInv, childVars
  <2>4. Family'
    BY SMTT(30) DEF kill, Step, Family, IInv, childVars
  <2>5. Dying'
    BY Zenon DEF kill, Step, Unlocked, Dying, IInv, childVars, TypeOK
  <2>6. Scans'
    BY Zenon DEF kill, Step, Scans, IInv, childVars, TypeOK
  <2>7. WaitMissesNoChild'
    BY Zenon DEF kill, WaitMissesNoChild, IInv, childVars, TypeOK
  <2> QED BY <2>1, <2>2, <2>3, <2>4, <2>5, <2>6, <2>7, Zenon DEF IInv
<1> QED BY <1>1, <1>2, <1>3, <1>4, Zenon

-----------------------------------------------------------------------------
(* In every reachable state the parts above agree.                          *)
THEOREM ProcInvariant == Spec => []IInv
<1>1. Init => IInv
  <2> SUFFICES ASSUME Init PROVE IInv
    OBVIOUS
  <2>1. TypeOK
    <3>1. state \in [Proc -> State]
      BY Zenon DEF Init, State
    <3>2. pc \in [Proc -> Exiting \cup {"user", "wait", "sched", "gone"}]
      BY Zenon DEF Init
    <3>3. np \in [Proc -> 1 .. NPROC + 1]
      BY ProcAssumption, SMTT(30) DEF Init
    <3>4. /\ chan \in [Proc -> Proc \cup {NoChan}] /\ killed \in [Proc -> BOOLEAN]
          /\ panicked \in BOOLEAN /\ plock \in [Proc -> Proc \cup {NoProc}]
      BY Zenon DEF Init
    <3>5. /\ parent \in [Proc -> Proc \cup {NoProc}] /\ orig \in [Proc -> Proc \cup {NoProc}]
          /\ havekids \in [Proc -> BOOLEAN] /\ sh \in Proc \cup {NoProc}
      BY Zenon DEF Init
    <3> QED BY <3>1, <3>2, <3>3, <3>4, <3>5, Zenon DEF TypeOK
  <2> QED BY <2>1, ProcAssumption, Zenon
        DEF Init, IInv, Control, Locks, Holds, Family, Dying, Scans,
            WaitMissesNoChild, TypeOK
<1>2. IInv /\ [Next]_vars => IInv'
  <2> SUFFICES ASSUME IInv, [Next]_vars PROVE IInv'
    OBVIOUS
  <2>1. ASSUME NEW p \in Proc,
               Continue(p) \/ exit(p) \/ wait(p) \/ (yield(p) /\ UNCHANGED childVars)
        PROVE  IInv'
    <3>1. Resume(p) => Resume(p) /\ UNCHANGED childVars
      BY Zenon DEF Resume
    <3> QED BY <2>1, <3>1, ExitStep, WaitStep, OtherStep, Zenon DEF Continue
  <2>2. ASSUME NEW p \in Proc, NEW q \in Proc,
               fork(p, q) \/ (kill(p, q) /\ UNCHANGED childVars)
        PROVE  IInv'
    BY <2>2, OtherStep, ZenonT(60)
  <2>3. ASSUME UNCHANGED <<state, chan, killed, plock, pc, parent, orig, np, havekids, sh>>,
               panicked' \in BOOLEAN
        PROVE  IInv'
    BY <2>3, SMTT(30)
       DEF IInv, TypeOK, Control, Locks, Holds, Family, Dying, Scans,
           WaitMissesNoChild
  <2>4. fork_fails => IInv'
    BY <2>3, Zenon DEF fork_fails
  <2>5. (halted /\ UNCHANGED childVars) \/ UNCHANGED vars => IInv'
    BY <2>3, Zenon DEF halted, childVars, vars, procVars, IInv, TypeOK
  <2> QED BY <2>1, <2>2, <2>4, <2>5, Zenon DEF Next
<1> QED BY <1>1, <1>2, PTL DEF Spec

(* A parent never sleeps in wait past the exit of a child.                  *)
THEOREM NoMissedChild == Spec => []WaitMissesNoChild
<1>1. IInv => WaitMissesNoChild
  BY Zenon DEF IInv
<1> QED BY <1>1, ProcInvariant, PTL

(* wait frees no entry whose process still runs on its kernel stack.        *)
THEOREM FreedAfterLeaving == Spec => []FreedIsGone
<1>1. IInv => FreedIsGone
  BY ZenonT(60) DEF IInv, TypeOK, FreedIsGone, Control, Locks, Holds
<1> QED BY <1>1, ProcInvariant, PTL

(* Whoever exits, every process keeps a parent that can reap it.            *)
THEOREM AlwaysParent == Spec => []NoOrphan
<1>1. IInv => NoOrphan
  BY Zenon DEF IInv, NoOrphan, Family
<1> QED BY <1>1, ProcInvariant, PTL

-----------------------------------------------------------------------------
Closing(p) == pc[p] \in {"close", "exit_close"}

(* The processes with a reference to end e.                                 *)
Holders(e) == {p \in Proc : e \in fds[p]}

Open(e) == IF e = "r" THEN readopen ELSE writeopen

Sleeping == {"read_sched", "write_sched"}

(* What the references need of cardinalities.                               *)
Counting ==
  /\ \A S : IsFiniteSet(S) => Cardinality(S) \in Nat /\ (Cardinality(S) = 0 <=> S = {})
  /\ \A S : \A x \in S : IsFiniteSet(S) =>
       IsFiniteSet(S \ {x}) /\ Cardinality(S \ {x}) = Cardinality(S) - 1
  /\ \A S : \A T \in SUBSET S : IsFiniteSet(S) => IsFiniteSet(T)

(* Where a process is in the kernel agrees with its state, with the locks   *)
(* it holds and with the ends it has open.                                  *)
PipeControl ==
  /\ \A p \in Proc :
       /\ state[p] = "SLEEPING" => \/ pc[p] = "read" /\ chan[p] = "nread"
                                   \/ pc[p] = "write" /\ chan[p] = "nwrite"
       /\ pc[p] \in Sleeping \cup {"read_sleep", "write_sleep"} => state[p] = "RUNNING"
       /\ plock[p] = (IF pc[p] \in Sleeping THEN p ELSE NoProc)
       /\ pc[p] \in {"read_sleep", "write_sleep"} => lk = p
       /\ lk = p => pc[p] \in {"write", "read_sleep", "write_sleep"} /\ state[p] = "RUNNING"
       /\ pc[p] \in Reading => "r" \in fds[p]
       /\ pc[p] \in Writing => "w" \in fds[p]
       /\ pc[p] = "gone" => fds[p] = {}

(* An end is open while a file refers to it or its last reference is being  *)
(* dropped, by one process.                                                 *)
Files ==
  /\ \A e \in End : ref[e] = Cardinality(Holders(e))
  /\ \A p \in Proc : ff[p] # "none" <=> Closing(p)
  /\ \A p, q \in Proc : ff[p] = ff[q] /\ ff[p] # "none" => p = q
  /\ \A e \in End : Open(e) <=> Holders(e) # {} \/ \E p \in Proc : ff[p] = e
  /\ \A p \in Proc, e \in End : ff[p] = e => Holders(e) = {}
  /\ kfreed = IF readopen \/ writeopen THEN 0 ELSE 1

(* Who reads and is asleep, or has committed to sleep, has a reason to be,  *)
(* or a writer holds the lock that has still to wake it.                    *)
ReaderWaits ==
  /\ writeopen
  /\ Empty \/ (\E q \in Proc : killed[q]) \/ (\E q \in Proc : lk = q /\ pc[q] = "write")

Causes ==
  \A p \in Proc :
    /\ (state[p] = "SLEEPING" /\ pc[p] = "read") \/ pc[p] \in {"read_sleep", "read_sched"} =>
         ReaderWaits
    /\ (state[p] = "SLEEPING" /\ pc[p] = "write") \/ pc[p] \in {"write_sleep", "write_sched"} =>
         Full /\ readopen

(* The part of the type that concerns processes, files and locks.           *)
CtlType ==
  /\ state \in [Proc -> State]
  /\ chan \in [Proc -> {"nread", "nwrite", NoChan}]
  /\ killed \in [Proc -> BOOLEAN]
  /\ plock \in [Proc -> Proc \cup {NoProc}]
  /\ pc \in [Proc -> Reading \cup Writing \cup {"user", "close", "exit", "exit_close", "gone"}]
  /\ lk \in Proc \cup {NoProc}
  /\ readopen \in BOOLEAN /\ writeopen \in BOOLEAN
  /\ fds \in [Proc -> SUBSET End]
  /\ ref \in [End -> Nat]
  /\ ff \in [Proc -> End \cup {"none"}]

PipeInv == CtlType /\ PipeControl /\ Files /\ Causes
-----------------------------------------------------------------------------
(* Only the steps of fileclose and pipeclose concern the files.             *)
LEMMA FilesFrame ==
  ASSUME Files, UNCHANGED <<fds, ref, ff, readopen, writeopen, kfreed>>,
         \A q \in Proc : Closing(q)' <=> Closing(q)
  PROVE  Files'
<1>1. \A e \in End : Holders(e)' = Holders(e) /\ Open(e)' = Open(e)
  BY Zenon DEF Holders, Open
<1> QED BY <1>1, Zenon DEF Files

(* The steps of pipewrite.                                                  *)
LEMMA WriteStep ==
  ASSUME PipeInv, NEW p \in Proc
  PROVE  (\/ \E b \in Byte : write_byte(p, b)
          \/ write_fails(p)
          \/ write_waits(p)
          \/ write_done(p)
          \/ \E len \in Length : pipewrite(p, len))
         => PipeInv'
<1>1. ASSUME NEW b \in Byte, write_byte(p, b) PROVE PipeInv'
  <2> USE <1>1
  <2>1. CtlType'
    BY PipeAssumption, ZenonT(60)
       DEF CtlType, write_byte, Step, HasLock, fileVars, Reading, Writing, End,
           PipeInv
  <2>2. PipeControl'
    BY PipeAssumption, SMTT(30)
       DEF PipeControl, write_byte, Step, At, HasLock, fileVars, Reading, PipeInv
  <2>3. Files'
    <3>1. /\ UNCHANGED <<fds, ref, ff, readopen, writeopen, kfreed>>
          /\ \A q \in Proc : Closing(q)' <=> Closing(q)
      BY Zenon DEF Closing, write_byte, Step, At, fileVars, CtlType, PipeInv
    <3> QED BY <3>1, FilesFrame, Zenon DEF PipeInv
  <2>4. Causes'
    BY ZenonT(60) DEF Causes, ReaderWaits, write_byte, Step, At, PipeInv, CtlType
  <2> QED BY <2>1, <2>2, <2>3, <2>4, Zenon DEF PipeInv
<1>2. ASSUME write_fails(p) PROVE PipeInv'
  <2> USE <1>2
  <2>1. CtlType'
    BY PipeAssumption, Zenon
       DEF CtlType, write_fails, Return, Step, fileVars, End, PipeInv
  <2>2. PipeControl'
    BY PipeAssumption, SMTT(30)
       DEF PipeControl, write_fails, Return, Step, At, HasLock, fileVars, Sleeping,
           Reading, Writing, PipeInv
  <2>3. Files'
    <3>1. /\ UNCHANGED <<fds, ref, ff, readopen, writeopen, kfreed>>
          /\ \A q \in Proc : Closing(q)' <=> Closing(q)
      BY Zenon DEF Closing, write_fails, Return, Step, At, fileVars, CtlType, PipeInv
    <3> QED BY <3>1, FilesFrame, Zenon DEF PipeInv
  <2>4. Causes'
    <3>1. /\ ~readopen \/ killed[p]
          /\ pc' = [pc EXCEPT ![p] = "user"]
          /\ lk \in {NoProc, p} /\ lk' = NoProc
          /\ UNCHANGED <<state, killed, nread, nwrite, readopen, writeopen>>
      BY Zenon DEF write_fails, Return, Step, HasLock
    <3>2. ~readopen => \A q \in Proc : "r" \notin fds[q]
      BY Zenon DEF Files, Open, Holders, End, PipeInv
    <3>3. ASSUME NEW q \in Proc, pc[q] \in Reading PROVE \E r \in Proc : killed[r]
      BY <3>1, <3>2, <3>3, Zenon DEF PipeControl, PipeInv
    <3> QED BY <3>1, <3>3, Zenon
          DEF CtlType, Causes, ReaderWaits, Full, Reading, PipeInv
  <2> QED BY <2>1, <2>2, <2>3, <2>4, Zenon DEF PipeInv
<1>3. ASSUME write_waits(p) PROVE PipeInv'
  <2> USE <1>3
  <2>1. CtlType'
    BY PipeAssumption, ZenonT(60)
       DEF CtlType, write_waits, Step, wakeup, Awake, fileVars, State, Writing,
           PipeInv
  <2>2. PipeControl'
    BY PipeAssumption, SMTT(30)
       DEF PipeControl, write_waits, Step, At, HasLock, wakeup, Awake, fileVars, Sleeping,
           Reading, Writing, PipeInv
  <2>3. Files'
    <3>1. /\ UNCHANGED <<fds, ref, ff, readopen, writeopen, kfreed>>
          /\ \A q \in Proc : Closing(q)' <=> Closing(q)
      BY ZenonT(60)
         DEF Closing, write_waits, Step, At, HasLock, fileVars, CtlType, PipeInv
    <3> QED BY <3>1, FilesFrame, Zenon DEF PipeInv
  <2>4. Causes'
    BY PipeAssumption, SMTT(30)
       DEF PipeControl, Causes, Full, write_waits, Step, At, HasLock, wakeup, Awake,
           Unlocked, fileVars, Sleeping, Reading, PipeInv
  <2> QED BY <2>1, <2>2, <2>3, <2>4, Zenon DEF PipeInv
<1>4. ASSUME write_done(p) PROVE PipeInv'
  <2> USE <1>4
  <2>1. CtlType'
    BY Zenon
       DEF CtlType, write_done, Return, Step, HasLock, wakeup, Awake, fileVars, State,
           PipeInv
  <2>2. PipeControl'
    BY PipeAssumption, SMTT(30)
       DEF CtlType, PipeControl, write_done, Return, Step, At, HasLock, wakeup, Awake,
           fileVars, Sleeping, Reading, Writing, PipeInv
  <2>3. Files'
    <3>1. /\ UNCHANGED <<fds, ref, ff, readopen, writeopen, kfreed>>
          /\ \A q \in Proc : Closing(q)' <=> Closing(q)
      BY ZenonT(60)
         DEF Closing, write_done, Return, Step, At, fileVars, CtlType, PipeInv
    <3> QED BY <3>1, FilesFrame, Zenon DEF PipeInv
  <2>4. Causes'
    BY PipeAssumption, SMTT(30)
       DEF PipeControl, Causes, Full, write_done, Return, Step, At, HasLock, wakeup,
           Awake, Unlocked, Sleeping, PipeInv
  <2> QED BY <2>1, <2>2, <2>3, <2>4, Zenon DEF PipeInv
<1>5. ASSUME NEW len \in Length, pipewrite(p, len) PROVE PipeInv'
  <2> USE <1>5
  <2>1. CtlType'
    BY Zenon DEF CtlType, pipewrite, Step, pipeVars, fileVars, Writing, End, PipeInv
  <2>2. PipeControl'
    BY ZenonT(60)
       DEF PipeControl, pipewrite, Step, At, pipeVars, fileVars, Sleeping, Reading,
           PipeInv, CtlType
  <2>3. Files'
    <3>1. /\ UNCHANGED <<fds, ref, ff, readopen, writeopen, kfreed>>
          /\ \A q \in Proc : Closing(q)' <=> Closing(q)
      BY Zenon DEF Closing, pipewrite, Step, At, pipeVars, fileVars, CtlType, PipeInv
    <3> QED BY <3>1, FilesFrame, Zenon DEF PipeInv
  <2>4. Causes'
    BY Zenon
       DEF Causes, ReaderWaits, Empty, Full, pipewrite, Step, At, pipeVars, PipeInv,
           CtlType
  <2> QED BY <2>1, <2>2, <2>3, <2>4, Zenon DEF PipeInv
<1> QED BY <1>1, <1>2, <1>3, <1>4, <1>5, Zenon

(* The steps of piperead.                                                   *)
LEMMA ReadStep ==
  ASSUME PipeInv, NEW p \in Proc
  PROVE  (\/ piperead(p)
          \/ read_fails(p)
          \/ read_waits(p)
          \/ \E len \in Length, got \in 0 .. PIPESIZE : read_copies(p, len, got))
         => PipeInv'
<1>1. ASSUME piperead(p) PROVE PipeInv'
  <2> USE <1>1
  <2>1. CtlType'
    BY Zenon DEF CtlType, piperead, Step, pipeVars, fileVars, Reading, PipeInv
  <2>2. PipeControl'
    <3>1. /\ UNCHANGED <<state, chan, plock, lk, fds>> /\ "r" \in fds[p]
          /\ pc[p] = "user" /\ pc' = [pc EXCEPT ![p] = "read"] /\ state[p] = "RUNNING"
      BY Zenon DEF piperead, Step, At, pipeVars, fileVars
    <3>2. pc'[p] = "read" /\ \A q \in Proc : q # p => pc'[q] = pc[q]
      BY <3>1, Zenon DEF CtlType, PipeInv
    <3>3. lk # p /\ plock[p] = NoProc
      BY <3>1, Zenon DEF PipeControl, Sleeping, PipeInv
    <3> QED BY <3>1, <3>2, <3>3, ZenonT(60) DEF PipeControl, Sleeping, Writing, PipeInv
  <2>3. Files'
    <3>1. /\ UNCHANGED <<fds, ref, ff, readopen, writeopen, kfreed>>
          /\ \A q \in Proc : Closing(q)' <=> Closing(q)
      BY Zenon DEF Closing, piperead, Step, At, pipeVars, fileVars, CtlType, PipeInv
    <3> QED BY <3>1, FilesFrame, Zenon DEF PipeInv
  <2>4. Causes'
    BY Zenon
       DEF Causes, ReaderWaits, Empty, Full, piperead, Step, At, pipeVars, PipeInv,
           CtlType
  <2> QED BY <2>1, <2>2, <2>3, <2>4, Zenon DEF PipeInv
<1>2. ASSUME read_fails(p) PROVE PipeInv'
  <2> USE <1>2
  <2>1. CtlType'
    BY Zenon DEF CtlType, read_fails, Return, Step, fileVars, Writing, PipeInv
  <2>2. PipeControl'
    BY ZenonT(60)
       DEF CtlType, PipeControl, read_fails, Return, Step, At, HasLock, fileVars,
           Sleeping, Reading, Writing, PipeInv
  <2>3. Files'
    <3>1. /\ UNCHANGED <<fds, ref, ff, readopen, writeopen, kfreed>>
          /\ \A q \in Proc : Closing(q)' <=> Closing(q)
      BY Zenon
         DEF Closing, read_fails, Return, Step, At, HasLock, fileVars, CtlType,
             PipeInv
    <3> QED BY <3>1, FilesFrame, Zenon DEF PipeInv
  <2>4. Causes'
    BY Zenon
       DEF Causes, ReaderWaits, Full, read_fails, Return, Step, At, HasLock, Reading,
           Writing, PipeInv, CtlType
  <2> QED BY <2>1, <2>2, <2>3, <2>4, Zenon DEF PipeInv
<1>3. ASSUME read_waits(p) PROVE PipeInv'
  <2> USE <1>3
  <2>1. CtlType'
    BY Zenon
       DEF CtlType, read_waits, Step, At, fileVars, State, Reading, Writing, End,
           PipeInv
  <2>2. PipeControl'
    BY PipeAssumption, SMTT(30)
       DEF CtlType, PipeControl, read_waits, Step, At, HasLock, fileVars, Sleeping,
           Writing, PipeInv
  <2>3. Files'
    <3>1. /\ UNCHANGED <<fds, ref, ff, readopen, writeopen, kfreed>>
          /\ \A q \in Proc : Closing(q)' <=> Closing(q)
      BY PipeAssumption, Zenon
         DEF Closing, read_waits, Step, At, fileVars, CtlType, PipeInv
    <3> QED BY <3>1, FilesFrame, Zenon DEF PipeInv
  <2>4. Causes'
    BY Zenon DEF CtlType, Causes, ReaderWaits, Empty, Full, read_waits, Step, PipeInv
  <2> QED BY <2>1, <2>2, <2>3, <2>4, Zenon DEF PipeInv
<1>4. ASSUME NEW len \in Length, NEW got \in 0 .. PIPESIZE, read_copies(p, len, got)
      PROVE  PipeInv'
  <2> USE <1>4
  <2>1. CtlType'
    BY ZenonT(60)
       DEF CtlType, read_copies, Return, Step, wakeup, Awake, Unlocked, fileVars,
           State, Reading, PipeInv
  <2>2. PipeControl'
    BY PipeAssumption, SMTT(30)
       DEF PipeControl, read_copies, Return, Step, At, HasLock, wakeup, Awake, Unlocked,
           fileVars, Sleeping, Reading, Writing, PipeInv
  <2>3. Files'
    <3>1. /\ UNCHANGED <<fds, ref, ff, readopen, writeopen, kfreed>>
          /\ \A q \in Proc : Closing(q)' <=> Closing(q)
      BY ZenonT(60)
         DEF Closing, CtlType, read_copies, Return, Step, At, HasLock, fileVars,
             PipeInv
    <3> QED BY <3>1, FilesFrame, Zenon DEF PipeInv
  <2>4. Causes'
    BY PipeAssumption, SMTT(30)
       DEF CtlType, PipeControl, Causes, ReaderWaits, Empty, Full, read_copies, Return,
           Step, At, HasLock, wakeup, Awake, Unlocked, Sleeping, PipeInv
  <2> QED BY <2>1, <2>2, <2>3, <2>4, Zenon DEF PipeInv
<1> QED BY <1>1, <1>2, <1>3, <1>4, Zenon

(* The steps of sleep, and those that touch neither the ring nor a file.    *)
LEMMA SleepStep ==
  ASSUME PipeInv, NEW p \in Proc
  PROVE  (\/ sleep(p, "read_sleep", "read_sched")
          \/ sleep(p, "write_sleep", "write_sched")
          \/ sched(p, "read_sched", "read", "nread")
          \/ sched(p, "write_sched", "write", "nwrite")
          \/ Dispatch(p)
          \/ \E q \in Proc : kill(p, q) /\ UNCHANGED <<pipeVars, fileVars, n>>
          \/ pipe_exit(p)
          \/ pipe_zombie(p))
         => PipeInv'
<1>1. ASSUME sleep(p, "read_sleep", "read_sched") PROVE PipeInv'
  <2> USE <1>1
  <2>1. CtlType'
    BY PipeAssumption, ZenonT(60)
       DEF CtlType, sleep, Step, Unlocked, fileVars, Reading, End, PipeInv
  <2>2. PipeControl'
    BY PipeAssumption, SMTT(30)
       DEF CtlType, PipeControl, sleep, Step, At, Unlocked, fileVars, Sleeping, Reading,
           Writing, PipeInv
  <2>3. Files'
    <3>1. /\ UNCHANGED <<fds, ref, ff, readopen, writeopen, kfreed>>
          /\ \A q \in Proc : Closing(q)' <=> Closing(q)
      BY ZenonT(60) DEF Closing, sleep, Step, At, fileVars, CtlType, PipeInv
    <3> QED BY <3>1, FilesFrame, Zenon DEF PipeInv
  <2>4. Causes'
    BY PipeAssumption, SMTT(30)
       DEF PipeControl, Causes, ReaderWaits, Empty, Full, sleep, Step, At, fileVars,
           Sleeping, Reading, Writing, PipeInv
  <2> QED BY <2>1, <2>2, <2>3, <2>4, Zenon DEF PipeInv
<1>2. ASSUME sleep(p, "write_sleep", "write_sched") PROVE PipeInv'
  <2> USE <1>2
  <2>1. CtlType'
    BY ZenonT(60)
       DEF CtlType, sleep, Step, Unlocked, fileVars, State, Reading, Writing, PipeInv
  <2>2. PipeControl'
    BY PipeAssumption, SMTT(30)
       DEF CtlType, PipeControl, sleep, Step, At, fileVars, Sleeping, Reading, Writing,
           PipeInv
  <2>3. Files'
    <3>1. /\ UNCHANGED <<fds, ref, ff, readopen, writeopen, kfreed>>
          /\ \A q \in Proc : Closing(q)' <=> Closing(q)
      BY Zenon DEF Closing, sleep, Step, At, fileVars, CtlType, PipeInv
    <3> QED BY <3>1, FilesFrame, Zenon DEF PipeInv
  <2>4. Causes'
    <3>1. /\ UNCHANGED <<state, nread, nwrite, readopen, writeopen>>
          /\ pc[p] = "write_sleep" /\ pc' = [pc EXCEPT ![p] = "write_sched"]
      BY Zenon DEF sleep, Step, At
    <3>2. pc'[p] = "write_sched" /\ \A q \in Proc : q # p => pc'[q] = pc[q]
      BY <3>1, Zenon DEF CtlType, PipeInv
    <3>3. UNCHANGED killed /\ ~ \E q \in Proc : lk = q /\ pc[q] = "write"
      BY <3>1, Zenon DEF sleep, PipeControl, PipeInv
    <3>4. (ReaderWaits => ReaderWaits') /\ (Full => Full') /\ readopen' = readopen
      BY <3>1, <3>3, Zenon DEF ReaderWaits, Empty, Full
    <3> SUFFICES ASSUME NEW q \in Proc
                 PROVE  /\ (state'[q] = "SLEEPING" /\ pc'[q] = "read")
                             \/ pc'[q] \in {"read_sleep", "read_sched"} => ReaderWaits'
                        /\ (state'[q] = "SLEEPING" /\ pc'[q] = "write")
                             \/ pc'[q] \in {"write_sleep", "write_sched"} => Full' /\ readopen'
      BY Zenon DEF Causes
    <3>5. CASE q = p
      BY <3>1, <3>2, <3>4, <3>5, SMTT(30) DEF Causes, PipeInv
    <3>6. CASE q # p
      BY <3>1, <3>2, <3>4, <3>6, SMTT(30) DEF Causes, PipeInv
    <3> QED BY <3>5, <3>6, Zenon
  <2> QED BY <2>1, <2>2, <2>3, <2>4, Zenon DEF PipeInv
<1>3. ASSUME sched(p, "read_sched", "read", "nread") PROVE PipeInv'
  <2> USE <1>3
  <2>1. CtlType'
    BY Zenon
       DEF CtlType, sched, Step, fall_asleep, pipeVars, fileVars, State, Reading,
           PipeInv
  <2>2. PipeControl'
    BY ZenonT(60)
       DEF CtlType, PipeControl, sched, Step, At, fall_asleep, pipeVars, fileVars,
           Sleeping, Reading, Writing, PipeInv
  <2>3. Files'
    <3>1. /\ UNCHANGED <<fds, ref, ff, readopen, writeopen, kfreed>>
          /\ \A q \in Proc : Closing(q)' <=> Closing(q)
      BY Zenon DEF Closing, sched, Step, At, pipeVars, fileVars, CtlType, PipeInv
    <3> QED BY <3>1, FilesFrame, Zenon DEF PipeInv
  <2>4. Causes'
    BY Zenon
       DEF Causes, ReaderWaits, Empty, Full, sched, Step, At, fall_asleep, pipeVars,
           Sleeping, PipeInv, CtlType
  <2> QED BY <2>1, <2>2, <2>3, <2>4, Zenon DEF PipeInv
<1>4. ASSUME sched(p, "write_sched", "write", "nwrite") PROVE PipeInv'
  <2> USE <1>4
  <2>1. CtlType'
    BY Zenon
       DEF CtlType, sched, Step, fall_asleep, pipeVars, fileVars, State, Writing,
           PipeInv
  <2>2. PipeControl'
    BY PipeAssumption, SMTT(30)
       DEF CtlType, PipeControl, sched, Step, At, fall_asleep, pipeVars, fileVars,
           Sleeping, Reading, PipeInv
  <2>3. Files'
    <3>1. /\ UNCHANGED <<fds, ref, ff, readopen, writeopen, kfreed>>
          /\ \A q \in Proc : Closing(q)' <=> Closing(q)
      BY Zenon DEF Closing, sched, Step, At, pipeVars, fileVars, CtlType, PipeInv
    <3> QED BY <3>1, FilesFrame, Zenon DEF PipeInv
  <2>4. Causes'
    BY SMTT(30)
       DEF PipeControl, Causes, ReaderWaits, Empty, Full, sched, Step, At,
           fall_asleep,
           pipeVars, Sleeping, Reading, PipeInv
  <2> QED BY <2>1, <2>2, <2>3, <2>4, Zenon DEF PipeInv
<1>5. ASSUME Dispatch(p) PROVE PipeInv'
  <2> USE <1>5
  <2>1. CtlType'
    BY Zenon DEF CtlType, Dispatch, scheduler, pipeVars, fileVars, State, PipeInv
  <2>2. PipeControl'
    BY ZenonT(60)
       DEF PipeControl, Dispatch, scheduler, pipeVars, fileVars, PipeInv, CtlType
  <2>3. Files'
    <3>1. /\ UNCHANGED <<fds, ref, ff, readopen, writeopen, kfreed>>
          /\ \A q \in Proc : Closing(q)' <=> Closing(q)
      BY PipeAssumption, Zenon
         DEF Closing, Dispatch, scheduler, pipeVars, Unlocked, fileVars
    <3> QED BY <3>1, FilesFrame, Zenon DEF PipeInv
  <2>4. Causes'
    BY Zenon
       DEF Causes, ReaderWaits, Empty, Full, Dispatch, scheduler, pipeVars, Sleeping,
           Reading, PipeInv, CtlType
  <2> QED BY <2>1, <2>2, <2>3, <2>4, Zenon DEF PipeInv
<1>6. ASSUME NEW r \in Proc, kill(p, r), UNCHANGED <<pipeVars, fileVars, n>> PROVE PipeInv'
  <2> USE <1>6
  <2>1. CtlType'
    BY Zenon DEF CtlType, kill, Step, pipeVars, Unlocked, fileVars, State, PipeInv
  <2>2. PipeControl'
    BY SMTT(30) DEF PipeControl, kill, Step, At, pipeVars, fileVars, Sleeping, PipeInv
  <2>3. Files'
    <3>1. /\ UNCHANGED <<fds, ref, ff, readopen, writeopen, kfreed>>
          /\ \A q \in Proc : Closing(q)' <=> Closing(q)
      BY Zenon DEF Closing, kill, Step, At, pipeVars, fileVars, CtlType, PipeInv
    <3> QED BY <3>1, FilesFrame, Zenon DEF PipeInv
  <2>4. Causes'
    BY Zenon
       DEF Causes, ReaderWaits, Empty, Full, kill, Step, At, pipeVars, PipeInv,
           CtlType
  <2> QED BY <2>1, <2>2, <2>3, <2>4, Zenon DEF PipeInv
<1>7. ASSUME pipe_exit(p) PROVE PipeInv'
  <2> USE <1>7
  <2>1. CtlType'
    BY Zenon DEF CtlType, pipe_exit, Step, pipeVars, fileVars, PipeInv
  <2>2. PipeControl'
    BY ZenonT(60)
       DEF PipeControl, pipe_exit, Step, At, pipeVars, fileVars, Sleeping, Reading,
           Writing,
           PipeInv, CtlType
  <2>3. Files'
    <3>1. /\ UNCHANGED <<fds, ref, ff, readopen, writeopen, kfreed>>
          /\ \A q \in Proc : Closing(q)' <=> Closing(q)
      BY Zenon DEF Closing, pipe_exit, Step, At, pipeVars, fileVars, CtlType, PipeInv
    <3> QED BY <3>1, FilesFrame, Zenon DEF PipeInv
  <2>4. Causes'
    BY Zenon
       DEF Causes, ReaderWaits, Empty, Full, pipe_exit, Step, At, pipeVars, PipeInv,
           CtlType
  <2> QED BY <2>1, <2>2, <2>3, <2>4, Zenon DEF PipeInv
<1>8. ASSUME pipe_zombie(p) PROVE PipeInv'
  <2> USE <1>8
  <2>1. CtlType'
    BY Zenon
       DEF CtlType, pipe_zombie, Step, pipeVars, fileVars, State, Reading, Writing,
           PipeInv
  <2>2. PipeControl'
    BY PipeAssumption, SMTT(30)
       DEF PipeControl, pipe_zombie, Step, pipeVars, fileVars, Sleeping, Reading,
           Writing, PipeInv
  <2>3. Files'
    <3>1. /\ UNCHANGED <<fds, ref, ff, readopen, writeopen, kfreed>>
          /\ \A q \in Proc : Closing(q)' <=> Closing(q)
      BY Zenon
         DEF Closing, pipe_zombie, Step, At, pipeVars, Unlocked, fileVars, CtlType,
             PipeInv
    <3> QED BY <3>1, FilesFrame, Zenon DEF PipeInv
  <2>4. Causes'
    BY ZenonT(60)
       DEF Causes, ReaderWaits, Empty, Full, pipe_zombie, Step, At, pipeVars, PipeInv,
           CtlType
  <2> QED BY <2>1, <2>2, <2>3, <2>4, Zenon DEF PipeInv
<1> QED BY <1>1, <1>2, <1>3, <1>4, <1>5, <1>6, <1>7, <1>8, PipeAssumption, Zenon

(* fileclose drops a reference; pipeclose follows on the last one.          *)
LEMMA CloseStep ==
  ASSUME Counting, PipeInv, NEW p \in Proc
  PROVE  ((\E e \in End : fileclose(p, e)) \/ pipeclose(p))
         => PipeInv'
<1>1. ASSUME NEW e \in End, fileclose(p, e) PROVE PipeInv'
  <2>1. PICK from \in {"user", "exit"} :
          /\ pc[p] = from /\ state[p] = "RUNNING" /\ e \in fds[p]
          /\ pc' = [pc EXCEPT ![p] = IF ref[e] > 1 THEN from ELSE Closes[from]]
          /\ fds' = [fds EXCEPT ![p] = @ \ {e}]
          /\ ref' = [ref EXCEPT ![e] = @ - 1]
          /\ ff' = IF ref[e] > 1 THEN ff ELSE [ff EXCEPT ![p] = e]
    BY <1>1, Zenon DEF fileclose, Closes, Step, At
  <2>2. UNCHANGED <<state, chan, killed, plock, lk, nread, nwrite, readopen, writeopen, kfreed>>
    BY <1>1, Zenon DEF fileclose, pipeVars, PipeInv
  <2>3. Closes[from] \in {"close", "exit_close"}
    BY SMTT(30) DEF Closes, PipeInv
  <2>4. /\ IsFiniteSet(Holders(e)) /\ Holders(e)' = Holders(e) \ {p} /\ p \in Holders(e)
        /\ \A d \in End \ {e} : Holders(d)' = Holders(d)
    <3>1. IsFiniteSet(Holders(e))
      BY PipeAssumption, Zenon DEF Counting, Holders
    <3> QED BY <2>1, <3>1, Zenon DEF Holders, CtlType, PipeInv
  <2>5. /\ Cardinality(Holders(e)) \in Nat
        /\ Cardinality(Holders(e)') = Cardinality(Holders(e)) - 1
        /\ Cardinality(Holders(e)') \in Nat
        /\ Cardinality(Holders(e)') = 0 <=> Holders(e)' = {}
    BY <2>4, Zenon DEF Counting
  <2>6. ref[e] = Cardinality(Holders(e))
    BY PipeAssumption, Zenon DEF Files, PipeInv
  <2>7. CtlType'
    BY <2>1, <2>2, <2>3, <2>5, <2>6, ZenonT(60) DEF CtlType, PipeInv
  <2>8. PipeControl'
    BY <2>1, <2>2, <2>3, SMTT(30) DEF PipeControl, Sleeping, Reading, Writing, PipeInv
  <2>9. Causes'
    BY <2>1, <2>2, <2>3, ZenonT(60)
       DEF Causes, ReaderWaits, Empty, Full, PipeInv, CtlType
  <2>10. Files'
    <3>1. \A d \in End : ref'[d] = Cardinality(Holders(d)')
      <4>1. ref'[e] = Cardinality(Holders(e)')
        BY <2>1, <2>5, <2>6, Zenon DEF CtlType, PipeInv
      <4>2. ASSUME NEW d \in End, d # e PROVE ref'[d] = Cardinality(Holders(d)')
        BY <2>1, <2>4, <4>2, ZenonT(60) DEF Files, PipeInv, CtlType
      <4> QED BY <4>1, <4>2, Zenon
    <3>2. \A q \in Proc : ff'[q] # "none" <=> Closing(q)'
      BY <2>1, <2>3, ZenonT(60) DEF CtlType, Files, End, Closing, PipeInv
    <3>3. \A q \in Proc : ff[q] # e
      BY <2>4, Zenon DEF Files, PipeInv
    <3>4. \A q, r \in Proc : ff'[q] = ff'[r] /\ ff'[q] # "none" => q = r
      BY <2>1, <3>3, PipeAssumption, ZenonT(60) DEF CtlType, Files, PipeInv
    <3>5. ref[e] > 1 <=> Holders(e)' # {}
      BY <2>5, <2>6, SMTT(30) DEF PipeInv
    <3>6. ff[p] = "none"
      BY <2>1, Zenon DEF Files, Closing, PipeInv
    <3>7. \A d \in End : Open(d)' <=> Holders(d)' # {} \/ \E q \in Proc : ff'[q] = d
      <4>1. \A d \in End : Open(d)' <=> Open(d)
        BY <2>2, Zenon DEF Open
      <4>2. Open(e) /\ (Holders(e)' # {} \/ ff'[p] = e)
        BY <2>1, <2>4, <3>5, ZenonT(60) DEF Files, CtlType, PipeInv
      <4>3. \A d \in End \ {e} : (\E q \in Proc : ff'[q] = d) <=> (\E q \in Proc : ff[q] = d)
        BY <2>1, <3>6, Zenon DEF End, CtlType, PipeInv
      <4> QED BY <2>4, <4>1, <4>2, <4>3, PipeAssumption, Zenon DEF Files, PipeInv
    <3>8. ASSUME NEW q \in Proc, NEW d \in End, ff'[q] = d PROVE Holders(d)' = {}
      <4>1. CASE d = e
        BY <2>1, <3>3, <3>5, <3>8, <4>1, Zenon
      <4>2. CASE d # e
        <5>1. ff[q] = d
          BY <2>1, <3>8, <4>2, Zenon DEF PipeInv, CtlType
        <5> QED BY <2>4, <5>1, Zenon DEF Files, PipeInv, CtlType
      <4> QED BY <4>1, <4>2, PipeAssumption, Zenon
    <3>9. kfreed' = IF readopen' \/ writeopen' THEN 0 ELSE 1
      BY <2>2, Zenon DEF Files, PipeInv
    <3> QED BY <3>1, <3>2, <3>4, <3>7, <3>8, <3>9, PipeAssumption, Zenon DEF Files
  <2> QED BY <2>7, <2>8, <2>9, <2>10, Zenon DEF PipeInv
<1>2. ASSUME pipeclose(p) PROVE PipeInv'
  <2>1. PICK to \in {"user", "exit"} :
          /\ pc[p] = Closes[to] /\ state[p] = "RUNNING"
          /\ pc' = [pc EXCEPT ![p] = to]
    BY <1>2, Zenon DEF pipeclose, Closes, Step, At
  <2>2. pc[p] \in {"close", "exit_close"} /\ Closing(p)
    BY <2>1, SMTT(30) DEF Closes, Closing
  <2>3. /\ UNCHANGED <<chan, killed, plock, lk, nread, nwrite, fds, ref>>
        /\ ff' = [ff EXCEPT ![p] = "none"] /\ lk \in {NoProc, p}
        /\ kfreed' = IF readopen' \/ writeopen' THEN kfreed ELSE kfreed + 1
        /\ \/ /\ ff[p] = "w" /\ writeopen' = FALSE /\ readopen' = readopen
              /\ state' = Awake("nread", Proc)
           \/ /\ ff[p] = "r" /\ readopen' = FALSE /\ writeopen' = writeopen
              /\ state' = Awake("nwrite", Proc)
        /\ \A q \in Proc : plock[q] = NoProc
    <3>1. ff[p] \in End
      BY <2>2, ZenonT(60) DEF Files, CtlType, PipeInv
    <3> QED BY <1>2, <3>1, PipeAssumption, Zenon
          DEF pipeclose, HasLock, wakeup, Unlocked, End, PipeInv
  <2>4. CtlType'
    <3>1. \A c : Awake(c, Proc) \in [Proc -> State]
      BY Zenon DEF CtlType, Awake, State, PipeInv
    <3>2. state' \in [Proc -> State]
      BY <2>3, <3>1, Zenon
    <3>3. readopen' \in BOOLEAN /\ writeopen' \in BOOLEAN
      BY <2>3, Zenon DEF CtlType, PipeInv
    <3> QED BY <2>1, <2>3, <3>2, Zenon DEF CtlType, PipeInv
  <2>5. PipeControl'
    BY <2>1, <2>2, <2>3, SMTT(30)
       DEF CtlType, PipeControl, Awake, Sleeping, Reading, Writing, PipeInv
  <2>6. Causes'
    BY <2>1, <2>2, <2>3, PipeAssumption, SMTT(30)
       DEF PipeControl, Causes, ReaderWaits, Empty, Full, Awake, Sleeping, PipeInv
  <2>7. Files'
    <3>1. \A e : Holders(e)' = Holders(e)
      BY <2>3, PipeAssumption, Zenon DEF Holders
    <3>2. \A q \in Proc : ff'[q] # "none" <=> Closing(q)'
      BY <2>1, <2>3, ZenonT(60) DEF CtlType, Files, Closing, PipeInv
    <3>3. \A q, r \in Proc : ff'[q] = ff'[r] /\ ff'[q] # "none" => q = r
      BY <2>3, PipeAssumption, ZenonT(60) DEF CtlType, Files, PipeInv
    <3>4. PICK e \in End : ff[p] = e
      BY <2>2, Zenon DEF Files, CtlType, PipeInv
    <3>a. Holders(e) = {} /\ \A q \in Proc : ff'[q] # e
      BY <2>3, <3>4, ZenonT(60) DEF Files, CtlType, PipeInv
    <3>b. Open(e)
      BY <3>4, Zenon DEF Files, PipeInv
    <3>5. ~Open(e)' /\ \A d \in End \ {e} : Open(d)' <=> Open(d)
      <4>1. CASE e = "r"
        <5>1. ~readopen' /\ writeopen' = writeopen /\ "w" # "r"
          BY <2>3, <3>4, <4>1, Zenon
        <5> QED BY <4>1, <5>1, Zenon DEF Open, End
      <4>2. CASE e = "w"
        <5>1. ~writeopen' /\ readopen' = readopen /\ "w" # "r"
          BY <2>3, <3>4, <4>2, Zenon
        <5> QED BY <4>2, <5>1, Zenon DEF Open, End
      <4> QED BY <4>1, <4>2, Zenon DEF End
    <3>6. \A d \in End \ {e} : (\E q \in Proc : ff'[q] = d) <=> (\E q \in Proc : ff[q] = d)
      BY <2>3, <3>4, Zenon DEF End, CtlType, PipeInv
    <3>7. ASSUME NEW d \in End PROVE Open(d)' <=> Holders(d)' # {} \/ \E q \in Proc : ff'[q] = d
      <4>1. CASE d = e
        BY <3>1, <3>5, <3>a, <4>1, Zenon
      <4>2. CASE d # e
        BY <3>1, <3>5, <3>6, <4>2, Zenon DEF Files, PipeInv
      <4> QED BY <4>1, <4>2, Zenon
    <3>8. \A q \in Proc, d \in End : ff'[q] = d => Holders(d)' = {}
      BY <2>3, <3>1, ZenonT(60) DEF Files, End, PipeInv, CtlType
    <3>9. kfreed' = IF readopen' \/ writeopen' THEN 0 ELSE 1
      <4>1. kfreed = 0
        BY <3>b, Zenon DEF Files, Open, PipeInv
      <4>2. kfreed' = IF readopen' \/ writeopen' THEN kfreed ELSE kfreed + 1
        BY <2>3, Zenon
      <4> QED BY <4>1, <4>2, SMTT(30)
    <3>10. \A d \in End : ref'[d] = Cardinality(Holders(d)')
      BY <2>3, <3>1, Zenon DEF Files, PipeInv
    <3> QED BY <3>2, <3>3, <3>7, <3>8, <3>9, <3>10, Zenon DEF Files
  <2> QED BY <2>4, <2>5, <2>6, <2>7, Zenon DEF PipeInv
<1> QED BY <1>1, <1>2, Zenon

-----------------------------------------------------------------------------
(* Division with remainder.                                                 *)
LEMMA DivMod ==
  ASSUME NEW b \in Nat \ {0}, NEW x \in Int
  PROVE  x % b \in 0 .. b - 1 /\ \E q \in Int : x = b * q + (x % b)
<1>1. x = b * (x \div b) + (x % b)
  OBVIOUS
<1>2. x \div b \in Int
  OBVIOUS
<1>3. x % b \in 0 .. b - 1
  OBVIOUS
<1> QED BY <1>1, <1>2, <1>3, Zenon

(* A multiple of b between -b and b is 0.                                   *)
LEMMA NoMultiple ==
  ASSUME NEW b \in Nat \ {0}, NEW q \in Int, -b < b * q, b * q < b
  PROVE  b * q = 0
<1>1. CASE q >= 1
  <2>1. b * q >= b
    BY <1>1, SMTT(30)
  <2> QED BY <2>1, SMTT(30)
<1>2. CASE q <= -1
  <2>1. b * q <= -b
    BY <1>2, SMTT(30)
  <2> QED BY <2>1, SMTT(30)
<1>3. CASE q = 0
  BY <1>3, SMTT(30)
<1> QED BY <1>1, <1>2, <1>3, SMTT(30)

(* Numbers less than b apart with the same remainder are equal.             *)
LEMMA ModNear ==
  ASSUME NEW b \in Nat \ {0}, NEW x \in Int, NEW y \in Int,
         x % b = y % b, x - y < b, y - x < b
  PROVE  x = y
<1>1. PICK q \in Int : x = b * q + (x % b)
  BY DivMod, Zenon
<1>2. PICK r \in Int : y = b * r + (y % b)
  BY DivMod, Zenon
<1>3. q - r \in Int /\ b * (q - r) = x - y
  BY <1>1, <1>2, DivMod, SMTT(30)
<1>4. b * (q - r) = 0
  BY <1>3, NoMultiple, SMTT(30)
<1> QED BY <1>3, <1>4, SMTT(30)

(* Multiples of b do not change the remainder.                              *)
LEMMA ModShift ==
  ASSUME NEW b \in Nat \ {0}, NEW x \in Int, NEW y \in Int, NEW s \in Int, x = y + b * s
  PROVE  x % b = y % b
<1>1. PICK q \in Int : x = b * q + (x % b)
  BY DivMod, Zenon
<1>2. PICK r \in Int : y = b * r + (y % b)
  BY DivMod, Zenon
<1> DEFINE k == r + s - q
<1>3. k \in Int
  OBVIOUS
<1>4. b * k = (b * r) + (b * s) - (b * q)
  OBVIOUS
<1>5. (x % b) \in 0 .. b - 1 /\ (y % b) \in 0 .. b - 1
  BY DivMod, Zenon
<1> HIDE DEF k
<1>6. b * k = (x % b) - (y % b)
  BY <1>1, <1>2, <1>4, <1>5, SMTT(30)
<1>7. b * k = 0
  BY <1>3, <1>5, <1>6, NoMultiple, SMTT(30)
<1> QED BY <1>5, <1>6, <1>7, SMTT(30)

(* The remainder of what has wrapped once, up or down.                      *)
LEMMA ModSmall ==
  ASSUME NEW u \in Nat, u > 0, NEW x \in Int
  PROVE  /\ x \in 0 .. u - 1 => x % u = x
         /\ x \in u .. 2 * u - 1 => x % u = x - u
         /\ x \in -u .. -1 => x % u = x + u
  OBVIOUS

(* The bytes in the ring: w - r, also when the counters have wrapped.       *)
LEMMA UsedIs ==
  ASSUME NEW r \in 0 .. UINT - 1, NEW w \in 0 .. UINT - 1
  PROVE  /\ (w - r) % UINT \in 0 .. UINT - 1
         /\ (w - r) % UINT = IF w >= r THEN w - r ELSE w - r + UINT
BY PipeAssumption, ModSmall, SMTT(30)

(* pipewrite stores a byte when the ring is not full.                       *)
LEMMA UsedPut ==
  ASSUME NEW r \in 0 .. UINT - 1, NEW w \in 0 .. UINT - 1, NEW v,
         (w - r) % UINT \in 0 .. PIPESIZE, w # (r + PIPESIZE) % UINT, v = (w + 1) % UINT
  PROVE  /\ (w - r) % UINT < PIPESIZE
         /\ v \in 0 .. UINT - 1 /\ (v - r) % UINT = ((w - r) % UINT) + 1
<1> DEFINE u == (w - r) % UINT
<1>1. u \in 0 .. UINT - 1 /\ u = IF w >= r THEN w - r ELSE w - r + UINT
  BY UsedIs, Zenon
<1>2. (r + PIPESIZE) % UINT = IF r + PIPESIZE < UINT THEN r + PIPESIZE ELSE r + PIPESIZE - UINT
  BY PipeAssumption, ModSmall, SMTT(30)
<1>3. v = IF w + 1 < UINT THEN w + 1 ELSE 0
  BY PipeAssumption, ModSmall, SMTT(30)
<1>4. u < PIPESIZE /\ v \in 0 .. UINT - 1
  BY <1>1, <1>2, <1>3, PipeAssumption, SMTT(30)
<1>5. (v - r) % UINT = IF v >= r THEN v - r ELSE v - r + UINT
  BY <1>4, UsedIs, Zenon
<1> QED BY <1>1, <1>3, <1>4, <1>5, PipeAssumption, SMTT(30)

(* piperead takes k bytes.                                                  *)
LEMMA UsedGet ==
  ASSUME NEW r \in 0 .. UINT - 1, NEW w \in 0 .. UINT - 1, NEW k \in Nat, NEW v,
         k <= (w - r) % UINT, v = (r + k) % UINT
  PROVE  v \in 0 .. UINT - 1 /\ (w - v) % UINT = ((w - r) % UINT) - k
<1> DEFINE u == (w - r) % UINT
<1>1. u \in 0 .. UINT - 1 /\ u = IF w >= r THEN w - r ELSE w - r + UINT
  BY UsedIs, Zenon
<1>2. v = IF r + k < UINT THEN r + k ELSE r + k - UINT
  BY <1>1, PipeAssumption, ModSmall, SMTT(30)
<1>3. v \in 0 .. UINT - 1
  BY <1>1, <1>2, PipeAssumption, SMTT(30)
<1>4. (w - v) % UINT = IF w >= v THEN w - v ELSE w - v + UINT
  BY <1>3, UsedIs, Zenon
<1> QED BY <1>1, <1>2, <1>3, <1>4, PipeAssumption, SMTT(30)

(* The counters wrap at a multiple of the size of the ring.                 *)
LEMMA SlotWraps ==
  ASSUME NEW x \in Int
  PROVE  (x - UINT) % PIPESIZE = x % PIPESIZE
<1>1. PIPESIZE \in Nat \ {0} /\ UINT \in Int /\ UINT % PIPESIZE = 0
  BY PipeAssumption, SMTT(30)
<1>2. PICK q \in Int : UINT = PIPESIZE * q + (UINT % PIPESIZE)
  BY <1>1, DivMod, Zenon
<1> DEFINE y == x - UINT
<1>3. y \in Int /\ x = y + PIPESIZE * q
  BY <1>1, <1>2, SMTT(30)
<1> HIDE DEF y
<1>4. x % PIPESIZE = y % PIPESIZE
  BY <1>1, <1>3, ModShift, Zenon
<1> QED BY <1>4, Zenon DEF y

(* The place after the last byte, where pipewrite stores the next.          *)
LEMMA SlotPut ==
  ASSUME NEW r \in 0 .. UINT - 1, NEW w \in 0 .. UINT - 1
  PROVE  w % PIPESIZE = (r + ((w - r) % UINT)) % PIPESIZE
<1>1. (w - r) % UINT = IF w >= r THEN w - r ELSE w - r + UINT
  BY UsedIs, Zenon
<1>2. r + ((w - r) % UINT) \in {w, w + UINT} /\ w + UINT \in Int /\ (w + UINT) - UINT = w
  BY <1>1, PipeAssumption, SMTT(30)
<1> QED BY <1>2, SlotWraps, Zenon

(* The places of the bytes that are left after k have been read.            *)
LEMMA SlotGet ==
  ASSUME NEW r \in 0 .. UINT - 1, NEW k \in 0 .. UINT - 1, NEW i \in Nat
  PROVE  (((r + k) % UINT) + i - 1) % PIPESIZE = (r + (i + k) - 1) % PIPESIZE
<1> DEFINE x == r + (i + k) - 1
<1>1. x \in Int /\ ((r + k) % UINT) + i - 1 \in {x, x - UINT}
  <2>1. (r + k) % UINT \in {r + k, r + k - UINT}
    BY PipeAssumption, ModSmall, SMTT(30)
  <2> QED BY <2>1, PipeAssumption, SMTT(30)
<1> HIDE DEF x
<1>2. (((r + k) % UINT) + i - 1) % PIPESIZE = x % PIPESIZE
  BY <1>1, SlotWraps, Zenon
<1> QED BY <1>2, Zenon DEF x

(* Two places less than the size of the ring apart are different.           *)
LEMMA SlotApart ==
  ASSUME NEW r \in Nat, NEW i \in 1 .. PIPESIZE, NEW j \in 1 .. PIPESIZE, i # j
  PROVE  (r + i - 1) % PIPESIZE # (r + j - 1) % PIPESIZE
<1>1. /\ PIPESIZE \in Nat \ {0} /\ r + i - 1 \in Int /\ r + j - 1 \in Int
      /\ (r + i - 1) - (r + j - 1) < PIPESIZE /\ (r + j - 1) - (r + i - 1) < PIPESIZE
      /\ r + i - 1 # r + j - 1
  BY PipeAssumption, SMTT(30)
<1> QED BY <1>1, ModNear, Zenon

(* The ring and its counters.                                               *)
Ring ==
  /\ data \in [0 .. PIPESIZE - 1 -> Byte]
  /\ nread \in 0 .. UINT - 1 /\ nwrite \in 0 .. UINT - 1
  /\ Used \in 0 .. PIPESIZE

(* The bytes under way are a sequence.                                      *)
LEMMA QueueIs ==
  ASSUME Ring, NEW q, q = [i \in 1 .. Used |-> data[(nread + i - 1) % PIPESIZE]]
  PROVE  q \in Seq(Byte) /\ Len(q) = Used /\ Used \in Nat
<1>1. Used \in Nat
  BY SMTT(30) DEF Ring
<1>2. ASSUME NEW i \in 1 .. Used PROVE data[(nread + i - 1) % PIPESIZE] \in Byte
  <2>1. PIPESIZE \in Nat \ {0} /\ nread + i - 1 \in Int
    BY <1>1, PipeAssumption, SMTT(30) DEF Ring
  <2>2. (nread + i - 1) % PIPESIZE \in 0 .. PIPESIZE - 1
    BY <2>1, DivMod, Zenon
  <2> QED BY <2>2, Zenon DEF Ring
<1>3. q \in [1 .. Used -> Byte]
  BY <1>2, Zenon
<1> QED BY <1>1, <1>3, SMTT(30)

(* Storing a byte appends it to the bytes under way.                        *)
LEMMA RingPut ==
  ASSUME Ring, ~Full, NEW b \in Byte, nread' = nread, nwrite' = (nwrite + 1) % UINT,
         data' = [data EXCEPT ![nwrite % PIPESIZE] = b],
         NEW q, q = [i \in 1 .. Used |-> data[(nread + i - 1) % PIPESIZE]]
  PROVE  /\ Ring' /\ Len(q) < PIPESIZE
         /\ [i \in 1 .. Used |-> data[(nread + i - 1) % PIPESIZE]]' = Append(q, b)
<1>1. /\ Used < PIPESIZE /\ nwrite' \in 0 .. UINT - 1 /\ Used' = Used + 1
  BY UsedPut, Zenon DEF Ring, Full, Used
<1>2. q \in Seq(Byte) /\ Len(q) = Used /\ Used \in Nat
  BY QueueIs, Zenon
<1>3. nwrite % PIPESIZE = (nread + Used) % PIPESIZE
  BY SlotPut, Zenon DEF Ring, Used
<1>4. nwrite % PIPESIZE \in 0 .. PIPESIZE - 1
  BY PipeAssumption, SMTT(30) DEF Ring
<1>5. data' \in [0 .. PIPESIZE - 1 -> Byte]
  BY <1>4, Zenon DEF Ring
<1>6. Ring'
  BY <1>1, <1>2, <1>5, PipeAssumption, SMTT(30) DEF Ring
<1>7. ASSUME NEW i \in 1 .. Used + 1
      PROVE  data'[(nread' + i - 1) % PIPESIZE] = IF i = Used + 1 THEN b ELSE q[i]
  <2>1. (nread + i - 1) % PIPESIZE \in 0 .. PIPESIZE - 1
    <3>1. PIPESIZE \in Nat \ {0} /\ nread + i - 1 \in Int
      BY <1>2, PipeAssumption, SMTT(30) DEF Ring
    <3> QED BY <3>1, DivMod, Zenon
  <2>2. CASE i = Used + 1
    <3>1. nread + i - 1 = nread + Used
      BY <1>2, <2>2, SMTT(30) DEF Ring
    <3> QED BY <1>3, <1>4, <2>2, <3>1, Zenon DEF Ring
  <2>3. CASE i # Used + 1
    <3>1. /\ i \in 1 .. Used /\ i \in 1 .. PIPESIZE /\ Used + 1 \in 1 .. PIPESIZE
          /\ nread \in Nat /\ nread + (Used + 1) - 1 = nread + Used
      BY <1>1, <1>2, <2>3, PipeAssumption, SMTT(30) DEF Ring
    <3>2. (nread + i - 1) % PIPESIZE # nwrite % PIPESIZE
      BY <1>3, <2>3, <3>1, SlotApart, Zenon
    <3>3. q[i] = data[(nread + i - 1) % PIPESIZE]
      BY <3>1, Zenon
    <3> QED BY <1>4, <2>1, <2>3, <3>2, <3>3, Zenon DEF Ring
  <2> QED BY <2>2, <2>3, Zenon
<1> DEFINE s == [i \in 1 .. Used + 1 |-> data'[(nread' + i - 1) % PIPESIZE]]
<1>8. s = [i \in 1 .. Used + 1 |-> IF i = Used + 1 THEN b ELSE q[i]]
  BY <1>7, SMTT(30)
<1>9. [i \in 1 .. Used |-> data[(nread + i - 1) % PIPESIZE]]' = s
  BY <1>1, Zenon
<1> HIDE DEF s
<1>10. s = Append(q, b)
  BY <1>2, <1>8, SMTT(30)
<1> QED BY <1>1, <1>2, <1>6, <1>9, <1>10, Zenon

(* Advancing nread by k takes k bytes from the front.                       *)
LEMMA RingGet ==
  ASSUME Ring, NEW k \in Nat, k <= Used, nread' = (nread + k) % UINT, UNCHANGED <<data, nwrite>>,
         NEW q, q = [i \in 1 .. Used |-> data[(nread + i - 1) % PIPESIZE]]
  PROVE  /\ Ring'
         /\ [i \in 1 .. Used |-> data[(nread + i - 1) % PIPESIZE]]' = SubSeq(q, k + 1, Len(q))
<1>1. q \in Seq(Byte) /\ Len(q) = Used /\ Used \in Nat
  BY QueueIs, Zenon
<1>2. nread' \in 0 .. UINT - 1 /\ Used' = Used - k
  BY UsedGet, SMTT(30) DEF Ring, Used
<1>3. Ring'
  BY <1>1, <1>2, PipeAssumption, SMTT(30) DEF Ring
<1>4. ASSUME NEW i \in 1 .. Used - k
      PROVE  data'[(nread' + i - 1) % PIPESIZE] = q[i + k]
  <2>1. k \in 0 .. UINT - 1 /\ i \in Nat /\ i + k \in 1 .. Used
    BY <1>1, PipeAssumption, SMTT(30) DEF Ring
  <2>2. (nread' + i - 1) % PIPESIZE = (nread + (i + k) - 1) % PIPESIZE
    BY <2>1, SlotGet, Zenon DEF Ring
  <2> QED BY <2>1, <2>2, Zenon
<1> DEFINE s == [i \in 1 .. Used - k |-> data'[(nread' + i - 1) % PIPESIZE]]
<1>5. s = [i \in 1 .. Used - k |-> q[i + k]]
  BY <1>4, Zenon
<1>6. SubSeq(q, k + 1, Len(q)) = [i \in 1 .. Used - k |-> q[i + k]]
  BY <1>1, SMTT(30)
<1>7. [i \in 1 .. Used |-> data[(nread + i - 1) % PIPESIZE]]' = s
  BY <1>2, Zenon
<1> QED BY <1>3, <1>5, <1>6, <1>7, Zenon

-----------------------------------------------------------------------------
(* Steps that leave the ring alone.                                         *)
LEMMA RestStep ==
  ASSUME UNCHANGED <<data, nread, nwrite, writeopen>>, out' = <<>>
  PROVE  Channel!Next
<1>1. [i \in 1 .. Used |-> data[(nread + i - 1) % PIPESIZE]]'
        = [i \in 1 .. Used |-> data[(nread + i - 1) % PIPESIZE]]
  BY Zenon DEF Used
<1> QED BY <1>1, Zenon DEF Channel!Next, Channel!Else

(* A byte written is put at the end of the channel.                         *)
LEMMA PutStep ==
  ASSUME Ring, writeopen, NEW p \in Proc, NEW b \in Byte, write_byte(p, b)
  PROVE  Ring' /\ Channel!Next
<1> DEFINE q == [i \in 1 .. Used |-> data[(nread + i - 1) % PIPESIZE]]
<1>1. /\ ~Full /\ nread' = nread /\ nwrite' = (nwrite + 1) % UINT
      /\ data' = [data EXCEPT ![nwrite % PIPESIZE] = b]
      /\ writeopen' = writeopen /\ out' = <<>>
  BY Zenon DEF write_byte
<1>2. /\ Ring' /\ Len(q) < PIPESIZE
      /\ [i \in 1 .. Used |-> data[(nread + i - 1) % PIPESIZE]]' = Append(q, b)
  BY <1>1, RingPut, Zenon
<1> QED BY <1>1, <1>2, Zenon DEF Channel!Next, Channel!Put

(* A read takes its bytes from the front, and loses one if it fails.        *)
LEMMA GetStep ==
  ASSUME Ring, NEW p \in Proc, NEW len \in Length, NEW got \in 0 .. PIPESIZE,
         read_copies(p, len, got)
  PROVE  Ring' /\ Channel!Next
<1> DEFINE q == [i \in 1 .. Used |-> data[(nread + i - 1) % PIPESIZE]]
           most == IF len <= Used THEN len ELSE Used
           gone == IF got < most THEN got + 1 ELSE got
<1>1. /\ ~(Empty /\ writeopen) /\ got <= most
      /\ out' = [i \in 1 .. got |-> data[(nread + i - 1) % PIPESIZE]]
      /\ nread' = (nread + gone) % UINT /\ UNCHANGED <<data, nwrite, writeopen>>
  BY Zenon DEF read_copies
<1>2. q \in Seq(Byte) /\ Len(q) = Used /\ Used \in Nat
  BY QueueIs, Zenon
<1>3. len \in Nat /\ got \in Nat /\ most \in Nat /\ most <= Used
  BY <1>2, PipeAssumption, SMTT(30)
<1>4. gone \in Nat /\ got <= gone /\ gone <= Used
  BY <1>1, <1>2, <1>3, SMTT(30)
<1>5. /\ Ring'
      /\ [i \in 1 .. Used |-> data[(nread + i - 1) % PIPESIZE]]' = SubSeq(q, gone + 1, Len(q))
  BY <1>1, <1>4, RingGet, Zenon
<1>6. out' = SubSeq(q, 1, got)
  <2>1. SubSeq(q, 1, got) = [i \in 1 .. got |-> q[i]]
    <3> HIDE DEF q
    <3> QED BY <1>2, <1>3, <1>4, SMTT(30)
  <2>2. \A i \in 1 .. got : q[i] = data[(nread + i - 1) % PIPESIZE]
    <3>1. \A i \in 1 .. got : i \in 1 .. Used
      BY <1>2, <1>3, <1>4, SMTT(30)
    <3> QED BY <3>1, Zenon
  <2> HIDE DEF q
  <2> QED BY <1>1, <2>1, <2>2, Zenon
<1>7. got \in 0 .. Len(q)
  BY <1>2, <1>3, <1>4, SMTT(30)
<1>8. CASE got < most
  <2>1. gone + 1 = got + 2 /\ got < Len(q)
    BY <1>2, <1>3, <1>8, SMTT(30)
  <2>2. Channel!GetAndLose(got)
    BY <1>1, <1>5, <1>6, <2>1, Zenon DEF Channel!GetAndLose
  <2> QED BY <1>5, <1>7, <2>2, Zenon DEF Channel!Next
<1>9. CASE ~(got < most)
  <2>1. gone = got
    BY <1>9, Zenon
  <2>2. CASE got > 0
    <3>1. Channel!Get(got)
      BY <1>1, <1>5, <1>6, <2>1, <2>2, Zenon DEF Channel!Get
    <3> QED BY <1>5, <1>7, <3>1, Zenon DEF Channel!Next
  <2>3. CASE got = 0
    <3>1. SubSeq(q, gone + 1, Len(q)) = q /\ out' = <<>>
      <4> HIDE DEF q
      <4> QED BY <1>2, <1>6, <2>1, <2>3, SMTT(30)
    <3> QED BY <1>1, <1>5, <3>1, Zenon DEF Channel!Next, Channel!Else
  <2> QED BY <1>3, <2>2, <2>3, SMTT(30)
<1> QED BY <1>8, <1>9, Zenon

(* Every step of a process is one of the channel, or changes nothing of it. *)
LEMMA ChannelStep ==
  ASSUME Ring, \A p \in Proc : pc[p] = "write" => writeopen, [PipeNext]_pipeSpecVars
  PROVE  Ring' /\ [Channel!Next]_(Channel!vars)
<1>1. ASSUME UNCHANGED <<data, nread, nwrite, writeopen>>, out' = <<>>
      PROVE  Ring' /\ Channel!Next
  <2>1. Ring'
    BY <1>1, Zenon DEF Ring, Used
  <2> QED BY <1>1, <2>1, RestStep, Zenon
<1>2. CASE UNCHANGED pipeSpecVars
  <2>1. UNCHANGED <<data, nread, nwrite, writeopen, out>>
    BY <1>2, Zenon DEF pipeSpecVars, pipeVars
  <2>2. Ring'
    BY <2>1, Zenon DEF Ring, Used
  <2>3. [i \in 1 .. Used |-> data[(nread + i - 1) % PIPESIZE]]'
          = [i \in 1 .. Used |-> data[(nread + i - 1) % PIPESIZE]]
    BY <2>1, Zenon DEF Used
  <2> QED BY <2>1, <2>2, <2>3, Zenon DEF Channel!vars
<1>3. ASSUME NEW p \in Proc, NEW b \in Byte, write_byte(p, b) PROVE Ring' /\ Channel!Next
  <2>1. writeopen
    BY <1>3, Zenon DEF write_byte, Step, At
  <2> QED BY <1>3, <2>1, PutStep, Zenon
<1>4. ASSUME NEW p \in Proc, NEW len \in Length, NEW got \in 0 .. PIPESIZE, read_copies(p, len, got)
      PROVE  Ring' /\ Channel!Next
  BY <1>4, GetStep, Zenon
<1>5. ASSUME NEW p \in Proc, pipeclose(p) PROVE Ring' /\ Channel!Next
  <2>1. UNCHANGED <<data, nread, nwrite>> /\ out' = <<>> /\ writeopen' \in {FALSE, writeopen}
    BY <1>5, Zenon DEF pipeclose
  <2>2. Ring'
    BY <2>1, Zenon DEF Ring, Used
  <2>3. [i \in 1 .. Used |-> data[(nread + i - 1) % PIPESIZE]]'
          = [i \in 1 .. Used |-> data[(nread + i - 1) % PIPESIZE]]
    BY <2>1, Zenon DEF Used
  <2> QED BY <2>1, <2>2, <2>3, Zenon DEF Channel!Next, Channel!HangUp, Channel!Else
<1>6. ASSUME NEW p \in Proc, Call(p) PROVE Ring' /\ Channel!Next
  <2>1. UNCHANGED <<data, nread, nwrite, writeopen>> /\ out' = <<>>
    BY <1>6, Zenon DEF Call, pipewrite, piperead, fileclose, pipe_exit, pipeVars
  <2> QED BY <1>1, <2>1, Zenon
<1>7. ASSUME NEW p \in Proc, Proceed(p), ~ \E b \in Byte : write_byte(p, b), ~pipeclose(p),
             ~ \E len \in Length, got \in 0 .. PIPESIZE : read_copies(p, len, got)
      PROVE  Ring' /\ Channel!Next
  <2>1. UNCHANGED <<data, nread, nwrite, writeopen>> /\ out' = <<>>
    BY <1>7, Zenon
       DEF Proceed, Dispatch, write_fails, write_waits, write_done, read_fails,
           read_waits,
         sleep, sched, fileclose, pipe_zombie, pipeVars
  <2> QED BY <1>1, <2>1, Zenon
<1> QED BY <1>2, <1>3, <1>4, <1>5, <1>6, <1>7, Zenon DEF PipeNext

-----------------------------------------------------------------------------
INSTANCE FiniteSetTheorems

(* The facts about cardinality that the lemmas on closing assume.           *)
LEMMA CountingHolds == Counting
<1>1. ASSUME NEW S, IsFiniteSet(S)
      PROVE  Cardinality(S) \in Nat /\ (Cardinality(S) = 0 <=> S = {})
  BY <1>1, FS_CardinalityType, FS_EmptySet, SMTT(30)
<1>2. ASSUME NEW S, IsFiniteSet(S), NEW x \in S
      PROVE  IsFiniteSet(S \ {x}) /\ Cardinality(S \ {x}) = Cardinality(S) - 1
  BY <1>2, FS_RemoveElement, Zenon
<1>3. ASSUME NEW S, IsFiniteSet(S), NEW T \in SUBSET S PROVE IsFiniteSet(T)
  BY <1>3, FS_Subset, Zenon
<1> QED BY <1>1, <1>2, <1>3, Zenon DEF Counting

-----------------------------------------------------------------------------
(* In every reachable state control, files and reasons to sleep agree.      *)
THEOREM PipeInvariant == PipeSpec => []PipeInv
<1>1. PipeInit => PipeInv
  <2> SUFFICES ASSUME PipeInit PROVE PipeInv
    OBVIOUS
  <2>1. \A e \in End : Holders(e) = {p \in Proc : e \in Ends[p]} /\ Holders(e) # {}
    BY PipeAssumption, Zenon DEF Holders, End, PipeInit
  <2>2. \A e \in End : Cardinality(Holders(e)) \in Nat
    <3>1. ASSUME NEW e \in End PROVE IsFiniteSet(Holders(e))
      BY FS_Subset, PipeAssumption, Zenon DEF Holders
    <3> QED BY <3>1, FS_CardinalityType, PipeAssumption, Zenon DEF PipeInit
  <2>3. CtlType
    <3>1. ref \in [End -> Nat]
      BY <2>1, <2>2, Zenon DEF PipeInit
    <3>2. killed \in [Proc -> BOOLEAN] /\ readopen \in BOOLEAN /\ writeopen \in BOOLEAN
      BY Zenon, PipeAssumption DEF PipeInit
    <3> QED BY <3>1, PipeAssumption, Zenon DEF CtlType, State, End, PipeInit
  <2>4. PipeControl
    BY PipeAssumption, Zenon DEF PipeControl, Sleeping, Reading, Writing, PipeInit
  <2>5. Files
    BY <2>1, Zenon DEF Files, Open, End, Closing, PipeInit
  <2>6. Causes
    BY Zenon DEF Causes, PipeInit
  <2> QED BY <2>3, <2>4, <2>5, <2>6, Zenon DEF PipeInv
<1>2. PipeInv /\ [PipeNext]_pipeSpecVars => PipeInv'
  <2> SUFFICES ASSUME PipeInv, [PipeNext]_pipeSpecVars PROVE PipeInv'
    OBVIOUS
  <2>1. ASSUME NEW p \in Proc, Proceed(p) PROVE PipeInv'
    BY <2>1, WriteStep, ReadStep, SleepStep, CloseStep, CountingHolds, ZenonT(60)
       DEF Proceed
  <2>2. ASSUME NEW p \in Proc, Call(p) PROVE PipeInv'
    BY <2>2, WriteStep, ReadStep, SleepStep, CloseStep, CountingHolds, ZenonT(60)
       DEF Call
  <2>3. CASE UNCHANGED pipeSpecVars
    <3>1. UNCHANGED <<state, chan, killed, plock, pc, lk, nread, nwrite, readopen, writeopen,
                      fds, ref, ff, kfreed>>
      BY <2>3, Zenon DEF pipeSpecVars, procVars, pipeVars, fileVars
    <3>2. Files'
      BY <3>1, FilesFrame, Zenon DEF PipeInv, Closing
    <3> QED BY <3>1, <3>2, ZenonT(60)
          DEF PipeInv, CtlType, PipeControl, Causes, ReaderWaits, Empty, Full
  <2> QED BY <2>1, <2>2, <2>3, Zenon DEF PipeNext
<1> QED BY <1>1, <1>2, PTL DEF PipeSpec

(* No wakeup is lost: while the lock is free, who sleeps on the pipe has a  *)
(* reason to, but for the readers a killed writer leaves asleep.            *)
THEOREM NoLostWakeup == PipeSpec => []SleepsForCause
<1>1. PipeInv => SleepsForCause
  BY PipeAssumption, ZenonT(60)
     DEF PipeInv, SleepsForCause, PipeControl, Causes, ReaderWaits
<1> QED BY <1>1, PipeInvariant, PTL

(* The page of the pipe is freed once, with nobody in a call that uses it,  *)
(* and it is freed when all processes are gone.                             *)
THEOREM PageFreedOnce == PipeSpec => []FreedOnce
<1>1. PipeInv => FreedOnce
  <2> SUFFICES ASSUME PipeInv PROVE FreedOnce
    BY SMTT(30)
  <2>1. kfreed = 1 <=> ~readopen /\ ~writeopen
    BY SMTT(30) DEF PipeInv, Files
  <2>2. /\ readopen <=> Holders("r") # {} \/ \E p \in Proc : ff[p] = "r"
        /\ writeopen <=> Holders("w") # {} \/ \E p \in Proc : ff[p] = "w"
    BY Zenon DEF PipeInv, Files, Open, End
  <2>3. ASSUME kfreed = 1, NEW p \in Proc PROVE fds[p] = {} /\ pc[p] \in {"user", "exit", "gone"}
    <3>1. fds[p] = {} /\ ff[p] = "none"
      BY <2>1, <2>2, <2>3, SMTT(30) DEF PipeInv, CtlType, End, Holders
    <3>2. pc[p] \notin Reading \cup Writing \cup {"close", "exit_close"}
      BY <3>1, Zenon DEF PipeInv, PipeControl, Files, Closing
    <3> QED BY <3>1, <3>2, ZenonT(60) DEF PipeInv, CtlType
  <2>4. ASSUME \A p \in Proc : pc[p] = "gone" PROVE kfreed = 1
    <3>1. Holders("r") = {} /\ Holders("w") = {}
      BY <2>4, Zenon DEF PipeInv, PipeControl, Holders
    <3>2. \A p \in Proc : ff[p] = "none"
      BY <2>4, Zenon DEF PipeInv, Files, Closing
    <3> QED BY <2>1, <2>2, <3>1, <3>2, ZenonT(60)
  <2>5. kfreed = IF readopen \/ writeopen THEN 0 ELSE 1
    BY Zenon DEF PipeInv, Files
  <2> QED BY <2>3, <2>4, <2>5, Zenon DEF FreedOnce
<1> QED BY <1>1, PipeInvariant, PTL

(* The ring with its wrapping counters, the sleeping readers and writers    *)
(* and the files that lead to it are a bounded channel: for any processes,  *)
(* any size of the ring and counters that wrap at any multiple of it.       *)
THEOREM PipeIsChannel == PipeSpec => IsByteChannel
<1>1. PipeInit => Ring /\ Channel!Init
  <2> SUFFICES ASSUME PipeInit PROVE Ring /\ Channel!Init
    OBVIOUS
  <2>1. PICK junk \in Byte : data = [i \in 0 .. PIPESIZE - 1 |-> junk]
    BY Zenon DEF PipeInit
  <2>2. data \in [0 .. PIPESIZE - 1 -> Byte]
    BY <2>1, Zenon
  <2>a. nread = 0 /\ nwrite = 0
    BY Zenon DEF PipeInit
  <2>b. Used = (0 - 0) % UINT
    BY <2>a, Zenon DEF Used
  <2>3. nread = 0 /\ nwrite = 0 /\ Used = 0
    BY <2>a, <2>b, PipeAssumption, SMTT(30)
  <2>4. Ring
    BY <2>2, <2>3, PipeAssumption, SMTT(30) DEF Ring
  <2> DEFINE q == [i \in 1 .. Used |-> data[(nread + i - 1) % PIPESIZE]]
  <2>5. q \in Seq(Byte) /\ Len(q) = 0
    BY <2>3, <2>4, QueueIs, Zenon
  <2> HIDE DEF q
  <2>6. q = <<>>
    BY <2>5, SMTT(30)
  <2> QED BY <2>4, <2>6, Zenon DEF PipeInit, Channel!Init, q
<1>2. PipeInv => \A p \in Proc : pc[p] = "write" => writeopen
  BY Zenon DEF PipeInv, PipeControl, Files, Writing, End, Open, Holders
<1>3. PipeInv /\ Ring /\ [PipeNext]_pipeSpecVars => Ring' /\ [Channel!Next]_(Channel!vars)
  BY <1>2, ChannelStep, Zenon
<1> QED BY <1>1, <1>3, PipeInvariant, PTL DEF PipeSpec, IsByteChannel, Channel!Spec
=============================================================================
