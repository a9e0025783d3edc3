---------------------------- MODULE SchedProofs ----------------------------
(***************************************************************************)
(* The hand-over of kernel stacks is safe, and no thread is lost or queued *)
(* twice, for any number of CPUs and threads, whatever affinities the      *)
(* threads take on.                                                        *)
(***************************************************************************)
EXTENDS Sched, TLAPS

(* Inside a switch the CPU is in one of two steps; the others are those of  *)
(* the system calls built on the scheduler.                                 *)
Switching == {"eret", "finish"}
Steps == {"user", "reg_spin", "call_spin", "back"} \union Switching

SchedType == SchedTypeOK /\ kpc \in [CPUs -> Steps]

(* The stacks CPU c needs: of the thread it runs, of the one it is still on *)
(* and, inside a switch, of the thread whose stack finish_switch will free. *)
HeldBy(c) ==
  {current[c], sp[c]} \union (IF kpc[c] \in Switching THEN {prev[current[c]]} ELSE {})

(* prev_thread names the stack left behind from the switch to finish_switch;*)
(* a stack a CPU needs is marked in use and needed by no other, and an idle *)
(* thread never leaves its CPU.                                             *)
HandOver ==
  /\ \A c \in CPUs : kpc[c] # "eret" => sp[c] = current[c]
  /\ \A c \in CPUs : kpc[c] = "eret" => sp[c] = prev[current[c]]
  /\ \A c, d \in CPUs : c # d => HeldBy(c) \intersect HeldBy(d) = {}
  /\ \A c \in CPUs : \A t \in HeldBy(c) : ks[t] = "LOCKED"
  /\ \A c, d \in CPUs : d \in HeldBy(c) => d = c

(* The queues hold the threads of S, each of them once.                     *)
Queues(q, S) ==
  /\ q \in [CPUs -> Seq(Threads)]
  /\ \A d \in CPUs : \A i \in DOMAIN q[d] : q[d][i] \in S
  /\ \A d, e \in CPUs : \A i \in DOMAIN q[d], j \in DOMAIN q[e] :
       q[d][i] = q[e][j] => d = e /\ i = j
  /\ \A t \in S : \E d \in CPUs : \E i \in DOMAIN q[d] : q[d][i] = t

Ready(st) == {t \in Threads : st[t] = "READY"}

(* The threads are where their states say; under IPC a passive thread that  *)
(* has returned keeps TS_RUNNING, so the last part is the scheduler's own.  *)
Placed == Queues(queue, Ready(state)) /\ \A c \in CPUs : state[current[c]] = "RUNNING"
NoneLost == \A t \in Threads : state[t] = "RUNNING" => \E c \in CPUs : current[c] = t

SchedInv == SchedType /\ HandOver /\ Placed

-----------------------------------------------------------------------------
(* What list_del leaves of a queue.                                         *)
LEMMA DelIs ==
  ASSUME NEW s \in Seq(Threads), NEW i \in DOMAIN s
  PROVE  /\ list_del(s, i) \in Seq(Threads)
         /\ DOMAIN list_del(s, i) = 1 .. Len(s) - 1
         /\ DOMAIN s = 1 .. Len(s) /\ Len(s) \in Nat
         /\ \A k \in 1 .. Len(s) - 1 : list_del(s, i)[k] = IF k < i THEN s[k] ELSE s[k + 1]
<1> DEFINE a == SubSeq(s, 1, i - 1)
           b == SubSeq(s, i + 1, Len(s))
<1>1. /\ a \in Seq(Threads) /\ Len(a) = i - 1 /\ \A k \in 1 .. i - 1 : a[k] = s[k]
  OBVIOUS
<1>2. b \in Seq(Threads) /\ Len(b) = Len(s) - i /\ \A k \in 1 .. Len(s) - i : b[k] = s[k + i]
  OBVIOUS
<1>3. list_del(s, i) = a \o b
  BY Zenon DEF list_del
<1>4. i \in 1 .. Len(s) /\ Len(s) \in Nat /\ DOMAIN s = 1 .. Len(s)
  OBVIOUS
<1> HIDE DEF a, b
<1>5. a \o b \in Seq(Threads) /\ Len(a \o b) = Len(s) - 1
  <2>0. a \in Seq(Threads) /\ b \in Seq(Threads)
    BY <1>1, <1>2, Zenon
  <2>1. a \o b \in Seq(Threads) /\ Len(a \o b) = Len(a) + Len(b)
    BY <2>0
  <2> QED BY <1>1, <1>2, <1>4, <2>1, SMTT(30)
<1>6. DOMAIN (a \o b) = 1 .. Len(s) - 1
  BY <1>5
<1>7. ASSUME NEW k \in 1 .. Len(s) - 1 PROVE (a \o b)[k] = IF k < i THEN s[k] ELSE s[k + 1]
  <2>1. CASE k < i
    <3>1. k \in 1 .. Len(a) /\ k \in 1 .. i - 1
      BY <1>1, <1>4, <2>1
    <3>2. (a \o b)[k] = a[k]
      BY <1>1, <1>2, <3>1
    <3> QED BY <1>1, <2>1, <3>1, <3>2, Zenon
  <2>2. CASE ~(k < i)
    <3>1. /\ k \in 1 .. Len(a) + Len(b) /\ ~(k <= Len(a))
          /\ k - Len(a) = k - (i - 1) /\ k - (i - 1) \in 1 .. Len(s) - i
          /\ (k - (i - 1)) + i = k + 1
      BY <1>1, <1>2, <1>4, <2>2, SMTT(30)
    <3>2. (a \o b)[k] = b[k - Len(a)]
      BY <1>1, <1>2, <3>1, SMTT(30)
    <3> QED BY <1>2, <2>2, <3>1, <3>2, Zenon
  <2> QED BY <2>1, <2>2, Zenon
<1> QED BY <1>3, <1>4, <1>5, <1>6, <1>7, Zenon

(* rr_sched_enqueue and the choice of a thread keep the queues in order.    *)
LEMMA EnqueueQueues ==
  ASSUME NEW q, NEW S, Queues(q, S), NEW t \in Threads, t \notin S, NEW e \in CPUs
  PROVE  Queues([q EXCEPT ![e] = Append(@, t)], S \union {t})
<1> DEFINE r == [q EXCEPT ![e] = Append(@, t)]
           n == Len(q[e]) + 1
<1>1. q \in [CPUs -> Seq(Threads)] /\ q[e] \in Seq(Threads)
  BY Zenon DEF Queues
<1>2. /\ r \in [CPUs -> Seq(Threads)] /\ r[e] = Append(q[e], t)
      /\ \A d \in CPUs : d # e => r[d] = q[d]
  BY <1>1
<1>3. /\ n \in Nat /\ DOMAIN q[e] = 1 .. n - 1 /\ n \notin 1 .. n - 1
      /\ r[e][n] = t /\ \A i \in DOMAIN q[e] : r[e][i] = q[e][i]
      /\ DOMAIN r[e] = (1 .. n - 1) \union {n}
  BY <1>1, <1>2
<1> HIDE DEF r, n
<1>4. \A d \in CPUs : \A k \in DOMAIN r[d] :
        (k \in DOMAIN q[d] /\ r[d][k] = q[d][k]) \/ (d = e /\ k = n /\ r[d][k] = t)
  <2>1. \A k \in DOMAIN r[e] :
          (k \in DOMAIN q[e] /\ r[e][k] = q[e][k]) \/ (k = n /\ r[e][k] = t)
    BY <1>3, Zenon
  <2> QED BY <1>2, <2>1, Zenon
<1>5. \A d \in CPUs : \A i \in DOMAIN q[d] : i \in DOMAIN r[d] /\ r[d][i] = q[d][i]
  BY <1>2, <1>3, Zenon
<1>6. \A d \in CPUs : \A i \in DOMAIN r[d] : r[d][i] \in S \union {t}
  BY <1>4, Zenon DEF Queues
<1>u. /\ \A d, d2 \in CPUs : \A i \in DOMAIN q[d], j \in DOMAIN q[d2] :
           q[d][i] = q[d2][j] => d = d2 /\ i = j
      /\ \A d \in CPUs : \A i \in DOMAIN q[d] : q[d][i] # t
  BY DEF Queues
<1>7. ASSUME NEW d \in CPUs, NEW d2 \in CPUs, NEW i \in DOMAIN r[d], NEW j \in DOMAIN r[d2],
             r[d][i] = r[d2][j]
      PROVE  d = d2 /\ i = j
  <2>1. CASE i \in DOMAIN q[d] /\ r[d][i] = q[d][i] /\ j \in DOMAIN q[d2] /\ r[d2][j] = q[d2][j]
    <3>1. q[d][i] = q[d2][j]
      BY <1>7, <2>1, Zenon
    <3> QED BY <1>u, <2>1, <3>1
  <2>2. CASE i \in DOMAIN q[d] /\ r[d][i] = q[d][i] /\ r[d2][j] = t
    BY <1>7, <1>u, <2>2, Zenon
  <2>3. CASE j \in DOMAIN q[d2] /\ r[d2][j] = q[d2][j] /\ r[d][i] = t
    BY <1>7, <1>u, <2>3, Zenon
  <2>4. CASE d = e /\ i = n /\ d2 = e /\ j = n
    BY <2>4, Zenon
  <2> QED BY <1>4, <2>1, <2>2, <2>3, <2>4, Zenon
<1>8. \A u \in S \union {t} : \E d \in CPUs : \E i \in DOMAIN r[d] : r[d][i] = u
  BY <1>3, <1>5 DEF Queues
<1>9. Queues(r, S \union {t})
  BY <1>2, <1>6, <1>7, <1>8, Zenon DEF Queues
<1> QED BY <1>9, Zenon DEF r

(* list_del takes one thread out of one queue and keeps the order.          *)
LEMMA RemoveQueues ==
  ASSUME NEW q, NEW S, Queues(q, S), NEW c \in CPUs, NEW i \in DOMAIN q[c]
  PROVE  Queues([q EXCEPT ![c] = list_del(@, i)], S \ {q[c][i]})
<1> DEFINE r == [q EXCEPT ![c] = list_del(@, i)]
           x == q[c][i]
           n == Len(q[c])
<1>1. q \in [CPUs -> Seq(Threads)] /\ q[c] \in Seq(Threads)
  BY Zenon DEF Queues
<1>2. /\ list_del(q[c], i) \in Seq(Threads) /\ DOMAIN list_del(q[c], i) = 1 .. n - 1
      /\ n \in Nat /\ DOMAIN q[c] = 1 .. n /\ i \in 1 .. n
      /\ \A k \in 1 .. n - 1 : list_del(q[c], i)[k] = IF k < i THEN q[c][k] ELSE q[c][k + 1]
  BY <1>1, DelIs, Zenon
<1>3. /\ r \in [CPUs -> Seq(Threads)] /\ r[c] = list_del(q[c], i)
      /\ \A d \in CPUs : d # c => r[d] = q[d]
  BY <1>1, <1>2, Zenon
<1> HIDE DEF r, n
<1> DEFINE old(k) == IF k < i THEN k ELSE k + 1
<1>4. \A k \in 1 .. n - 1 : old(k) \in 1 .. n /\ old(k) # i /\ r[c][k] = q[c][old(k)]
  BY <1>2, <1>3
<1>5. \A k, l \in 1 .. n - 1 : old(k) = old(l) => k = l
  BY <1>2
<1>u. \A d, e \in CPUs : \A j \in DOMAIN q[d], k \in DOMAIN q[e] :
           q[d][j] = q[e][k] => d = e /\ j = k
  BY Zenon DEF Queues
<1>6. \A k \in 1 .. n : k # i => \E l \in 1 .. n - 1 : old(l) = k
  <2> SUFFICES ASSUME NEW k \in 1 .. n, k # i PROVE \E l \in 1 .. n - 1 : old(l) = k
    OBVIOUS
  <2>1. CASE k < i
    <3>1. k \in 1 .. n - 1 /\ old(k) = k
      BY <1>2, <2>1
    <3> QED BY <3>1, Zenon
  <2>2. CASE k > i
    <3>1. k - 1 \in 1 .. n - 1 /\ old(k - 1) = k
      BY <1>2, <2>2
    <3> QED BY <3>1, Zenon
  <2> QED BY <1>2, <2>1, <2>2
<1> HIDE DEF old
<1>7. DOMAIN r[c] = 1 .. n - 1
  BY <1>2, <1>3, Zenon
<1>8. \A d \in CPUs : \A j \in DOMAIN r[d] : r[d][j] \in S \ {x}
  <2>1. \A j \in DOMAIN r[c] : r[c][j] \in S \ {x}
    BY <1>2, <1>4, <1>7, SMTT(30) DEF Queues
  <2>2. \A d \in CPUs : d # c => \A j \in DOMAIN r[d] : r[d][j] \in S \ {x}
    BY <1>3 DEF Queues
  <2> QED BY <2>1, <2>2, Zenon
<1>9. ASSUME NEW d \in CPUs, NEW e \in CPUs, NEW j \in DOMAIN r[d], NEW k \in DOMAIN r[e],
             r[d][j] = r[e][k]
      PROVE  d = e /\ j = k
  <2>1. CASE d = c /\ e = c
    <3>1. j \in 1 .. n - 1 /\ k \in 1 .. n - 1 /\ q[c][old(j)] = q[c][old(k)]
      BY <1>4, <1>7, <1>9, <2>1, Zenon
    <3>2. old(j) = old(k)
      BY <1>2, <1>4, <1>u, <3>1
    <3> QED BY <1>5, <2>1, <3>1, <3>2, Zenon
  <2>2. CASE d = c /\ e # c
    BY <1>2, <1>3, <1>4, <1>7, <1>9, <2>2 DEF Queues
  <2>3. CASE d # c /\ e = c
    BY <1>2, <1>3, <1>4, <1>7, <1>9, <2>3 DEF Queues
  <2>4. CASE d # c /\ e # c
    BY <1>3, <1>9, <2>4 DEF Queues
  <2> QED BY <2>1, <2>2, <2>3, <2>4, Zenon
<1>10. ASSUME NEW t \in S \ {x} PROVE \E d \in CPUs : \E j \in DOMAIN r[d] : r[d][j] = t
  <2>1. PICK d \in CPUs : \E j \in DOMAIN q[d] : q[d][j] = t
    BY Zenon DEF Queues
  <2>2. PICK j \in DOMAIN q[d] : q[d][j] = t
    BY <2>1, Zenon
  <2>3. CASE d # c
    BY <1>3, <2>2, <2>3, Zenon
  <2>4. CASE d = c
    <3>1. j \in 1 .. n /\ j # i
      BY <1>2, <2>2, <2>4, Zenon
    <3>2. PICK l \in 1 .. n - 1 : old(l) = j
      BY <1>6, <3>1, Zenon
    <3>3. r[c][l] = t /\ l \in DOMAIN r[c]
      BY <1>4, <1>7, <2>2, <2>4, <3>2, Zenon
    <3> QED BY <3>3, Zenon
  <2> QED BY <2>3, <2>4, Zenon
<1>11. Queues(r, S \ {x})
  BY <1>3, <1>8, <1>9, <1>10, Zenon DEF Queues
<1> QED BY <1>11, Zenon DEF r

(* No other CPU needs the stack of a thread that is marked free, of the     *)
(* thread that runs already or of the idle thread of the CPU.               *)
LEMMA Unheld ==
  ASSUME HandOver, NEW c \in CPUs, NEW new, new \in {c, current[c]} \/ ks[new] = "FREE"
  PROVE  \A d \in CPUs : d # c => new \notin HeldBy(d)
BY DEF HandOver, HeldBy

(* What a switch of CPU c means for it and for the other CPUs.              *)
LEMMA SwitchFacts ==
  ASSUME SchedType, HandOver, NEW c \in CPUs, kpc[c] \notin Switching,
         NEW new \in AllThreads, \A d \in CPUs : d # c => new \notin HeldBy(d),
         NEW st, switch_to_thread(c, new, st), KGoto(c, "eret")
  PROVE  /\ current'[c] = new /\ prev'[new] = current[c] /\ kpc'[c] = "eret"
         /\ \A d \in CPUs : d # c =>
              /\ current'[d] = current[d] /\ kpc'[d] = kpc[d]
              /\ prev'[current[d]] = prev[current[d]]
              /\ {current[c], new} \intersect HeldBy(d) = {}
<1>1. /\ current' = [current EXCEPT ![c] = new] /\ prev' = [prev EXCEPT ![new] = current[c]]
      /\ kpc' = [kpc EXCEPT ![c] = "eret"] /\ current \in [CPUs -> AllThreads]
      /\ prev \in [AllThreads -> AllThreads] /\ kpc \in [CPUs -> Steps]
  BY Zenon DEF switch_to_thread, KGoto, SchedType, SchedTypeOK
<1>2. current'[c] = new /\ prev'[new] = current[c] /\ kpc'[c] = "eret"
  BY <1>1, Zenon
<1>3. ASSUME NEW d \in CPUs, d # c
      PROVE  /\ current'[d] = current[d] /\ kpc'[d] = kpc[d]
             /\ prev'[current[d]] = prev[current[d]]
             /\ {current[c], new} \intersect HeldBy(d) = {}
  <2>1. current[c] \notin HeldBy(d) /\ new \notin HeldBy(d)
    BY <1>3, Zenon DEF HandOver, HeldBy
  <2>2. new # current[d]
    BY <2>1, Zenon DEF HeldBy
  <2> QED BY <1>1, <1>3, <2>1, <2>2, Zenon
<1> QED BY <1>2, <1>3, Zenon

(* A switch hands the stacks over.                                          *)
LEMMA SwitchSafe ==
  ASSUME SchedType, HandOver, NEW c \in CPUs, kpc[c] \notin Switching,
         NEW new \in AllThreads, new \in CPUs => new = c,
         \A d \in CPUs : d # c => new \notin HeldBy(d),
         NEW st, switch_to_thread(c, new, st), sp' = sp, KGoto(c, "eret")
  PROVE  HandOver'
<1> USE SchedAssumption DEF SchedType, SchedTypeOK, AllThreads, Switching, Steps
<1>1. sp[c] = current[c]
  BY Zenon DEF HandOver
<1>2. /\ current' = [current EXCEPT ![c] = new] /\ prev' = [prev EXCEPT ![new] = current[c]]
      /\ ks' = IF new = current[c] THEN ks ELSE [ks EXCEPT ![new] = "LOCKED"]
      /\ kpc' = [kpc EXCEPT ![c] = "eret"]
  BY Zenon DEF switch_to_thread, KGoto
<1>a. current[c] \in HeldBy(c) /\ ks[current[c]] = "LOCKED"
  BY ZenonT(60) DEF HandOver, HeldBy
<1>3. ASSUME NEW d \in CPUs, d # c PROVE new \notin HeldBy(d) /\ current[c] \notin HeldBy(d)
  BY <1>3, <1>a, Zenon DEF HandOver
<1>4. HeldBy(c)' = {new, current[c]}
  BY <1>1, <1>2, Zenon DEF HeldBy
<1>5. \A d \in CPUs : d # c => HeldBy(d)' = HeldBy(d)
  BY <1>2, <1>3, Zenon DEF HeldBy
<1>6. \A d \in CPUs : \A t \in HeldBy(d)' : ks'[t] = "LOCKED"
  <2>2. ks'[new] = "LOCKED" /\ ks'[current[c]] = "LOCKED"
    BY <1>2, <1>a, Zenon
  <2>3. ASSUME NEW d \in CPUs, d # c, NEW t \in HeldBy(d) PROVE ks'[t] = "LOCKED"
    <3>1. t # new /\ ks[t] = "LOCKED"
      BY <1>3, <2>3 DEF HandOver
    <3> QED BY <1>2, <3>1
  <2> HIDE SchedAssumption DEF SchedType, SchedTypeOK, AllThreads
  <2> SUFFICES ASSUME NEW d \in CPUs, NEW t \in HeldBy(d)' PROVE ks'[t] = "LOCKED"
    OBVIOUS
  <2>4. CASE d = c
    BY <1>4, <2>2, <2>4, Zenon
  <2>5. CASE d # c
    BY <1>5, <2>3, <2>5, Zenon
  <2> QED BY <2>4, <2>5, Zenon
<1>7. \A d, e \in CPUs : d # e => HeldBy(d)' \intersect HeldBy(e)' = {}
  <2>1. \A d, e \in CPUs : d # e => HeldBy(d) \intersect HeldBy(e) = {}
    BY Zenon DEF HandOver
  <2> HIDE DEF HeldBy, SchedType
  <2> QED BY <1>3, <1>4, <1>5, <2>1
<1>8. \A d, e \in CPUs : e \in HeldBy(d)' => e = d
  <2>1. \A d, e \in CPUs : e \in HeldBy(d) => e = d
    BY Zenon DEF HandOver
  <2>2. \A e \in CPUs : e = new \/ e = current[c] => e = c
    BY <1>a, <2>1
  <2> HIDE SchedAssumption DEF SchedType, SchedTypeOK, AllThreads
  <2> SUFFICES ASSUME NEW d \in CPUs, NEW e \in CPUs, e \in HeldBy(d)' PROVE e = d
    OBVIOUS
  <2>3. CASE d = c
    BY <1>4, <2>2, <2>3, Zenon
  <2>4. CASE d # c
    BY <1>5, <2>1, <2>4, Zenon
  <2> QED BY <2>3, <2>4, Zenon
<1>9. \A d \in CPUs : /\ kpc'[d] # "eret" => sp'[d] = current'[d]
                      /\ kpc'[d] = "eret" => sp'[d] = prev'[current'[d]]
  <2>1. sp'[c] = prev'[current'[c]]
    BY <1>1, <1>2, Zenon
  <2>2. ASSUME NEW d \in CPUs, d # c
        PROVE  current'[d] = current[d] /\ prev'[current[d]] = prev[current[d]]
    BY <1>2, <1>3, <2>2, Zenon DEF HeldBy
  <2> QED BY <1>2, <2>1, <2>2 DEF HandOver
<1> QED BY <1>6, <1>7, <1>8, <1>9, Zenon DEF HandOver

(* rr_sched chooses such a thread.  It queues the old thread and takes the  *)
(* new one out of the queue.                                                *)
LEMMA RrSched ==
  ASSUME SchedType, NEW c \in CPUs, Queues(queue, Ready(state)),
         state[current[c]] = "RUNNING", rr_sched(c, queue, state)
  PROVE  \E new \in AllThreads :
           /\ \/ new = c
              \/ new \in Threads /\ new = current[c]
              \/ new \in Threads /\ ks[new] = "FREE" /\ state[new] = "READY"
           /\ switch_to_thread(c, new, EnqueuedState(state, current[c]))
           /\ Queues(queue', Ready(state'))
<1> DEFINE old == current[c]
           q == Enqueued(queue, old, c)
           st == EnqueuedState(state, old)
<1>0. /\ old \in AllThreads /\ state \in [AllThreads -> ThreadStates]
      /\ affinity \in [Threads -> CPUs \union {NO_AFF}]
      /\ AllThreads = Threads \union CPUs /\ Threads \intersect CPUs = {}
  BY SchedAssumption, Zenon DEF SchedType, SchedTypeOK, AllThreads
<1>1. Queues(q, Ready(st))
  <2>1. CASE old \in CPUs
    <3>1. q = queue /\ Ready(st) = Ready(state)
      BY <1>0, <2>1, Zenon DEF Enqueued, EnqueuedState, Ready
    <3> QED BY <3>1, Zenon
  <2>2. CASE old \notin CPUs
    <3>1. old \in Threads /\ old \notin Ready(state) /\ TargetCpu(old, c) \in CPUs
      BY <1>0, <2>2, Zenon DEF Ready, TargetCpu
    <3>2. Ready(st) = Ready(state) \union {old}
      BY <1>0, <2>2, Zenon DEF EnqueuedState, Ready
    <3>3. q = [queue EXCEPT ![TargetCpu(old, c)] = Append(@, old)]
      BY <2>2, Zenon DEF Enqueued
    <3>4. Queues([queue EXCEPT ![TargetCpu(old, c)] = Append(@, old)], Ready(state) \union {old})
      BY <3>1, EnqueueQueues, Zenon
    <3> QED BY <3>2, <3>3, <3>4, Zenon
  <2> QED BY <2>1, <2>2, Zenon
<1>2. SwitchToChosen(c, q, st)
  BY Zenon DEF rr_sched
<1>3. st \in [AllThreads -> ThreadStates] /\ \A t \in AllThreads : t # old => st[t] = state[t]
  BY <1>0, Zenon DEF EnqueuedState, ThreadStates
<1> HIDE DEF q, st
<1>4. CASE Runnable(q, c) = {} /\ queue' = q /\ switch_to_thread(c, c, st)
  <2>1. Ready(state') = Ready(st)
    BY <1>0, <1>3, <1>4, Zenon DEF switch_to_thread, Ready
  <2>2. c \in AllThreads /\ switch_to_thread(c, c, EnqueuedState(state, current[c]))
    BY <1>0, <1>4, Zenon DEF st
  <2> QED BY <1>1, <1>4, <2>1, <2>2, Zenon
<1>5. ASSUME NEW i \in Chosen(q, c), queue' = [q EXCEPT ![c] = list_del(@, i)],
             switch_to_thread(c, q[c][i], st)
      PROVE  \E new \in AllThreads :
               /\ \/ new = c
                  \/ new \in Threads /\ new = current[c]
                  \/ new \in Threads /\ ks[new] = "FREE" /\ state[new] = "READY"
               /\ switch_to_thread(c, new, EnqueuedState(state, current[c]))
               /\ Queues(queue', Ready(state'))
  <2> DEFINE new == q[c][i]
  <2>1. i \in DOMAIN q[c] /\ (ks[new] = "FREE" \/ new = current[c])
    BY <1>5, Zenon DEF Chosen, Runnable
  <2>2. new \in Ready(st)
    BY <1>1, <2>1, Zenon DEF Queues
  <2>3. new \in Threads /\ st[new] = "READY" /\ new \in AllThreads
    BY <1>0, <2>2, Zenon DEF Ready
  <2>4. Ready(state') = Ready(st) \ {new}
    BY <1>0, <1>3, <1>5, <2>3, Zenon DEF switch_to_thread, Ready
  <2>5. Queues(queue', Ready(state'))
    <3>1. Queues([q EXCEPT ![c] = list_del(@, i)], Ready(st) \ {new})
      BY <1>1, <2>1, RemoveQueues, Zenon
    <3> QED BY <1>5, <2>4, <3>1, Zenon
  <2>6. switch_to_thread(c, new, EnqueuedState(state, current[c]))
    BY <1>5, Zenon DEF st
  <2>7. new = current[c] \/ (ks[new] = "FREE" /\ state[new] = "READY")
    BY <1>3, <2>1, <2>3, Zenon
  <2> QED BY <2>3, <2>5, <2>6, <2>7, Zenon
<1> QED BY <1>2, <1>4, <1>5, Zenon DEF SwitchToChosen

(* A CPU that has called rr_sched runs the chosen thread.                   *)
LEMMA SchedSafe ==
  ASSUME SchedInv, NEW c \in CPUs, kpc[c] \notin Switching,
         rr_sched(c, queue, state), sp' = sp, affinity' = affinity, KGoto(c, "eret")
  PROVE  /\ SchedInv'
         /\ \E new \in AllThreads :
              /\ \/ new = c
                 \/ new \in Threads /\ new = current[c]
                 \/ new \in Threads /\ ks[new] = "FREE" /\ state[new] = "READY"
              /\ \A d \in CPUs : d # c => new \notin HeldBy(d)
              /\ switch_to_thread(c, new, EnqueuedState(state, current[c]))
<1>0. SchedType /\ HandOver /\ Placed
  BY Zenon DEF SchedInv
<1> DEFINE old == current[c]
           st == EnqueuedState(state, old)
<1>1. PICK new \in AllThreads :
        /\ \/ new = c
           \/ new \in Threads /\ new = current[c]
           \/ new \in Threads /\ ks[new] = "FREE" /\ state[new] = "READY"
        /\ switch_to_thread(c, new, st)
        /\ Queues(queue', Ready(state'))
  BY <1>0, RrSched, Zenon DEF Placed
<1>u. \A d \in CPUs : d # c => new \notin HeldBy(d)
  BY <1>0, <1>1, Unheld, Zenon
<1>2. HandOver'
  <2>1. new \in CPUs => new = c
    BY <1>0, <1>1, SchedAssumption, Zenon DEF HandOver, HeldBy
  <2> QED BY <1>0, <1>1, <1>u, <2>1, SwitchSafe, Zenon
<1>3. /\ old \in AllThreads /\ state \in [AllThreads -> ThreadStates]
      /\ AllThreads = Threads \union CPUs /\ Threads \intersect CPUs = {}
      /\ current \in [CPUs -> AllThreads]
  BY <1>0, SchedAssumption, Zenon DEF SchedType, SchedTypeOK, AllThreads
<1>4. /\ state' = [st EXCEPT ![new] = "RUNNING"] /\ st \in [AllThreads -> ThreadStates]
      /\ st = [state EXCEPT ![old] = IF old \in CPUs THEN "INTER" ELSE "READY"]
      /\ current' = [current EXCEPT ![c] = new]
  BY <1>1, <1>3, Zenon DEF switch_to_thread, EnqueuedState, ThreadStates
<1>5. SchedType'
  <2>1. queue' \in [CPUs -> Seq(Threads)]
    BY <1>1, Zenon DEF Queues
  <2>2. state' \in [AllThreads -> ThreadStates] /\ current' \in [CPUs -> AllThreads]
    BY <1>3, <1>4, Zenon DEF ThreadStates
  <2>3. /\ ks' \in [AllThreads -> {"FREE", "LOCKED"}] /\ prev' \in [AllThreads -> AllThreads]
        /\ kpc' \in [CPUs -> Steps]
    BY <1>0, <1>1, <1>3, Zenon
       DEF SchedType, SchedTypeOK, switch_to_thread, KGoto, Steps, Switching
  <2> QED BY <1>0, <2>1, <2>2, <2>3, Zenon DEF SchedType, SchedTypeOK
<1>6. \A d \in CPUs : d # c => current[d] # old /\ current'[d] = current[d]
  BY <1>0, <1>3, <1>4 DEF HandOver, HeldBy
<1>7. \A d \in CPUs : state'[current'[d]] = "RUNNING"
  BY <1>0, <1>3, <1>4, <1>6 DEF Placed
<1>8. Placed'
  BY <1>1, <1>7, Zenon DEF Placed
<1> QED BY <1>1, <1>2, <1>5, <1>8, <1>u, Zenon DEF SchedInv

(* So does the rest of a switch.                                            *)
LEMMA LeaveSafe ==
  ASSUME SchedInv, NEW c \in CPUs, SwitchStep(c)
  PROVE  SchedInv'
<1> USE SchedAssumption DEF SchedType, SchedTypeOK, Switching, Steps
<1>s. SchedType /\ HandOver /\ Placed
  BY Zenon DEF SchedInv
<1>0. ASSUME UNCHANGED <<state, queue, current>> PROVE Placed'
  BY <1>0, <1>s, Zenon DEF Placed
<1>1. CASE eret_to_thread(c)
  <2>1. /\ kpc[c] = "eret" /\ sp' = [sp EXCEPT ![c] = current[c]]
        /\ kpc' = [kpc EXCEPT ![c] = "finish"]
        /\ UNCHANGED <<state, ks, prev, queue, current, affinity>>
    BY <1>s, <1>1, Zenon DEF eret_to_thread, KGoto, ctxVars
  <2>2. \A d \in CPUs : HeldBy(d)' \subseteq HeldBy(d)
    BY <1>s, <2>1 DEF HeldBy
  <2>3. SchedType'
    BY <1>s, <2>1, Zenon
  <2>4. \A d \in CPUs : /\ kpc'[d] # "eret" => sp'[d] = current'[d]
                        /\ kpc'[d] = "eret" => sp'[d] = prev'[current'[d]]
    BY <1>s, <2>1, Zenon DEF HandOver
  <2>5. HandOver'
    BY <1>s, <2>1, <2>2, <2>4 DEF HandOver
  <2> QED BY <1>0, <2>1, <2>3, <2>5, Zenon DEF SchedInv
<1>2. CASE finish_switch(c)
  <2> DEFINE p == prev[current[c]]
  <2>1. /\ kpc[c] = "finish" /\ kpc' = [kpc EXCEPT ![c] = "user"]
        /\ ks' = IF p = current[c] THEN ks ELSE [ks EXCEPT ![p] = "FREE"]
        /\ UNCHANGED <<state, prev, queue, current, affinity, sp>>
    BY <1>s, <1>2, Zenon DEF finish_switch, KGoto
  <2>2. sp[c] = current[c] /\ p \in HeldBy(c)
    BY <1>s, <2>1, Zenon DEF HandOver, HeldBy
  <2>8. HeldBy(c)' = {current[c]} /\ current[c] \in HeldBy(c)
    BY <1>s, <2>1, <2>2, Zenon DEF HeldBy
  <2>9. \A d \in CPUs : d # c => HeldBy(d)' = HeldBy(d)
    BY <1>s, <2>1, Zenon DEF HeldBy
  <2>10. \A d \in CPUs : d # c => p \notin HeldBy(d)
    BY <1>s, <2>2, Zenon DEF HandOver
  <2>3. /\ HeldBy(c)' = {current[c]} /\ current[c] \in HeldBy(c)
        /\ \A d \in CPUs : d # c => HeldBy(d)' = HeldBy(d) /\ p \notin HeldBy(d)
    BY <1>s, <2>8, <2>9, <2>10, Zenon
  <2>4. SchedType'
    BY <1>s, <2>1, Zenon
  <2>5. \A d \in CPUs : \A t \in HeldBy(d)' : ks'[t] = "LOCKED"
    <3>1. ks[current[c]] = "LOCKED"
      BY <1>s, <2>3, Zenon DEF HandOver
    <3>2. ks'[current[c]] = "LOCKED"
      BY <1>s, <2>1, <3>1, Zenon
    <3>3. ASSUME NEW d \in CPUs, d # c, NEW t \in HeldBy(d) PROVE ks'[t] = "LOCKED"
      BY <1>s, <2>1, <2>3, <3>3 DEF HandOver
    <3> QED BY <1>s, <2>3, <3>2, <3>3, SMTT(30)
  <2>6. \A d \in CPUs : HeldBy(d)' \subseteq HeldBy(d)
    BY <1>s, <2>3, Zenon
  <2>7. \A d \in CPUs : /\ kpc'[d] # "eret" => sp'[d] = current'[d]
                        /\ kpc'[d] = "eret" => sp'[d] = prev'[current'[d]]
    BY <1>s, <2>1, <2>2, Zenon DEF HandOver
  <2>11. HandOver'
    BY <1>s, <2>5, <2>6, <2>7 DEF HandOver
  <2> QED BY <1>0, <2>1, <2>4, <2>11, Zenon DEF SchedInv
<1> QED BY <1>1, <1>2, Zenon DEF SwitchStep

(* Every step of the scheduler keeps the stacks and the threads in place.   *)
LEMMA SchedStepSafe ==
  ASSUME SchedInv, NoneLost, [SchedNext]_schedVars
  PROVE  SchedInv' /\ NoneLost'
<1>1. ASSUME NEW c \in CPUs, SwitchStep(c) PROVE SchedInv' /\ NoneLost'
  <2>1. UNCHANGED <<state, current>>
    BY <1>1, Zenon DEF SwitchStep, eret_to_thread, finish_switch, ctxVars
  <2> QED BY <1>1, <2>1, LeaveSafe, Zenon DEF NoneLost
<1>2. ASSUME NEW c \in CPUs, sys_yield(c) \/ timer_tick(c) PROVE SchedInv' /\ NoneLost'
  <2>1. /\ kpc[c] = "user" /\ rr_sched(c, queue, state) /\ KGoto(c, "eret")
        /\ affinity' = affinity /\ sp' = sp
    BY <1>2, Zenon DEF sys_yield, timer_tick
  <2>2. kpc[c] \notin Switching
    BY <2>1, Zenon DEF Switching
  <2> DEFINE old == current[c]
             st == EnqueuedState(state, old)
  <2>3. SchedInv'
    BY <2>1, <2>2, SchedSafe, Zenon
  <2>4. PICK new \in AllThreads :
          /\ \A d \in CPUs : d # c => new \notin HeldBy(d)
          /\ switch_to_thread(c, new, st)
    BY <2>1, <2>2, SchedSafe, Zenon
  <2>5. /\ current'[c] = new
        /\ \A d \in CPUs : d # c => current'[d] = current[d]
    BY <2>1, <2>2, <2>4, SwitchFacts, ZenonT(60) DEF SchedInv
  <2>6. /\ state \in [AllThreads -> ThreadStates] /\ old \in AllThreads
        /\ \A t \in Threads : t \in AllThreads
    BY Zenon DEF SchedInv, SchedType, SchedTypeOK, AllThreads
  <2>7. ASSUME NEW t \in Threads, state'[t] = "RUNNING" PROVE \E d \in CPUs : current'[d] = t
    <3>1. CASE t = new
      BY <2>5, <3>1, Zenon
    <3>2. CASE t # new
      <4>1. t # old /\ state[t] = "RUNNING"
        BY <2>4, <2>6, <2>7, <3>2, Zenon DEF switch_to_thread, EnqueuedState
      <4>2. PICK d \in CPUs : current[d] = t
        BY <4>1, Zenon DEF NoneLost
      <4> QED BY <2>5, <4>1, <4>2, Zenon
    <3> QED BY <3>1, <3>2, Zenon
  <2> QED BY <2>3, <2>7, Zenon DEF NoneLost
<1>3. ASSUME UNCHANGED <<ctxVars, sp, kpc>>, affinity' \in [Threads -> CPUs \union {NO_AFF}]
      PROVE  SchedInv' /\ NoneLost'
  <2>1. UNCHANGED <<state, queue, current, sp, kpc, prev, ks>>
    BY <1>3, Zenon DEF ctxVars
  <2>2. \A c \in CPUs : HeldBy(c)' = HeldBy(c)
    BY <2>1, Zenon DEF HeldBy
  <2>3. HandOver'
    BY <2>1, <2>2 DEF HandOver, SchedInv
  <2>4. SchedType'
    BY <1>3, <2>1, Zenon DEF SchedInv, SchedType, SchedTypeOK
  <2> QED BY <2>1, <2>3, <2>4, Zenon DEF SchedInv, Placed, NoneLost
<1>4. ASSUME NEW c \in CPUs, NEW aff \in NewAffinities, sys_set_affinity(c, aff)
      PROVE  SchedInv' /\ NoneLost'
  <2>1. affinity' \in [Threads -> CPUs \union {NO_AFF}]
    BY <1>4, SchedAssumption, Zenon
       DEF sys_set_affinity, SchedInv, SchedType, SchedTypeOK
  <2> QED BY <1>3, <1>4, <2>1, Zenon DEF sys_set_affinity
<1>5. CASE UNCHANGED schedVars
  BY <1>3, <1>5, Zenon DEF schedVars, SchedInv, SchedType, SchedTypeOK
<1> QED BY <1>1, <1>2, <1>4, <1>5, Zenon DEF SchedNext, SchedStep

(* The kernel starts with every ready thread in one queue.                  *)
LEMMA InitSafe ==
  ASSUME NEW ready \in SUBSET Threads, InitWith(ready)
  PROVE  SchedInv /\ NoneLost
<1>1. ASSUME NEW c \in CPUs
      PROVE  /\ queue[c] \in Seq(Threads)
             /\ \A i, j \in DOMAIN queue[c] : queue[c][i] = queue[c][j] => i = j
             /\ {queue[c][i] : i \in DOMAIN queue[c]} =
                  {t \in ready : affinity[t] = c \/ (affinity[t] = NO_AFF /\ c = 0)}
  <2>1. PICK n \in 0 .. Cardinality(ready) :
          /\ queue[c] \in [1 .. n -> ready]
          /\ \A i, j \in 1 .. n : queue[c][i] = queue[c][j] => i = j
    <3>1. queue[c] \in Orders(ready)
      BY DEF InitWith
    <3> QED BY <3>1 DEF Orders
  <2>2. n \in Nat
    OBVIOUS
  <2>4. queue[c] \in Seq(Threads) /\ \A i, j \in DOMAIN queue[c] : queue[c][i] = queue[c][j] => i = j
    BY <2>1, <2>2
  <2>5. {queue[c][i] : i \in DOMAIN queue[c]} =
          {t \in ready : affinity[t] = c \/ (affinity[t] = NO_AFF /\ c = 0)}
    BY Zenon DEF InitWith, Members
  <2> QED BY <2>4, <2>5, Zenon
<1>2. /\ queue \in [CPUs -> Seq(Threads)]
      /\ affinity \in [Threads -> CPUs \union {NO_AFF}]
      /\ Ready(state) = ready
      /\ \A t \in Threads : state[t] # "RUNNING"
      /\ \A c \in CPUs : state[c] = "RUNNING" /\ current[c] = c
  <2>1. queue \in [CPUs -> Seq(Threads)]
    BY <1>1, Zenon DEF InitWith
  <2>2. affinity \in [Threads -> CPUs \union {NO_AFF}]
    BY SchedAssumption, Zenon DEF InitWith
  <2> QED BY <2>1, <2>2, SchedAssumption, Zenon DEF InitWith, AllThreads, Ready
<1>3. SchedType
  BY <1>2, SchedAssumption, Zenon
     DEF InitWith, SchedType, SchedTypeOK, AllThreads, ThreadStates, Steps
<1>4. HandOver
  <2>1. \A c \in CPUs : HeldBy(c) = {c}
    BY Zenon DEF InitWith, HeldBy, Switching
  <2> QED BY <2>1, Zenon DEF InitWith, HandOver, AllThreads
<1>5. Queues(queue, ready)
  <2>1. \A d \in CPUs : \A i \in DOMAIN queue[d] :
          /\ queue[d][i] \in ready
          /\ affinity[queue[d][i]] = d \/ (affinity[queue[d][i]] = NO_AFF /\ d = 0)
    BY <1>1
  <2>2. \A d, e \in CPUs : \A i \in DOMAIN queue[d], j \in DOMAIN queue[e] :
          queue[d][i] = queue[e][j] => d = e /\ i = j
    BY <1>1, <2>1, SchedAssumption
  <2>3. ASSUME NEW t \in ready PROVE \E d \in CPUs : \E i \in DOMAIN queue[d] : queue[d][i] = t
    <3>1. affinity[t] \in CPUs \/ affinity[t] = NO_AFF
      BY <1>2, Zenon
    <3>2. CASE affinity[t] \in CPUs
      <4>1. t \in {queue[affinity[t]][i] : i \in DOMAIN queue[affinity[t]]}
        BY <1>1, <3>2, Zenon
      <4> QED BY <3>2, <4>1, Zenon
    <3>3. CASE affinity[t] = NO_AFF
      <4>1. 0 \in CPUs
        BY SchedAssumption DEF CPUs
      <4>2. t \in {queue[0][i] : i \in DOMAIN queue[0]}
        BY <1>1, <3>3, <4>1, Zenon
      <4> QED BY <4>1, <4>2, Zenon
    <3> QED BY <3>1, <3>2, <3>3, Zenon
  <2> QED BY <1>2, <2>1, <2>2, <2>3, Zenon DEF Queues
<1>6. Placed
  BY <1>2, <1>5, Zenon DEF Placed
<1> QED BY <1>2, <1>3, <1>4, <1>6, Zenon DEF SchedInv, NoneLost

(* The hand-over of stacks and the places of the threads are invariant.     *)
THEOREM SchedInvariant == SchedSpec => [](SchedInv /\ NoneLost)
<1>1. SchedInit => SchedInv /\ NoneLost
  BY InitSafe, Zenon DEF SchedInit
<1>2. SchedInv /\ NoneLost /\ [SchedNext]_schedVars => (SchedInv /\ NoneLost)'
  BY SchedStepSafe, Zenon
<1> QED BY <1>1, <1>2, PTL DEF SchedSpec

(* No two CPUs use the kernel stack of one thread, and none runs a thread   *)
(* whose stack another one has not left: for every number of CPUs.          *)
THEOREM StacksExclusive == SchedSpec => []StackExclusive
<1>1. SchedInv => StackExclusive
  BY DEF SchedInv, HandOver, HeldBy, StackExclusive
<1> QED BY <1>1, SchedInvariant, PTL

(* A thread is in one place, whatever migrates: ready and queued once on    *)
(* one CPU, or running as the current thread of one.                        *)
THEOREM ThreadsInOnePlace == SchedSpec => []OnePlace
<1>1. SchedInv /\ NoneLost => OnePlace
  <2> SUFFICES ASSUME Placed, NoneLost PROVE OnePlace
    BY Zenon DEF SchedInv
  <2>1. ASSUME NEW t \in Threads
        PROVE  IF state[t] = "READY" THEN IsSingleton(Places(t)) ELSE Places(t) = {}
    <3>1. CASE state[t] # "READY"
      <4>1. Places(t) = {}
        BY <3>1 DEF Places, Placed, Queues, Ready
      <4> QED BY <3>1, <4>1, Zenon
    <3>2. CASE state[t] = "READY"
      <4>1. t \in Ready(state)
        BY <3>2, Zenon DEF Ready
      <4>2. PICK d \in CPUs : \E i \in DOMAIN queue[d] : queue[d][i] = t
        BY <4>1, Zenon DEF Placed, Queues
      <4>3. PICK i \in DOMAIN queue[d] : queue[d][i] = t
        BY <4>2, Zenon
      <4>4. \A e \in CPUs : \A j \in DOMAIN queue[e] : queue[e][j] = t => e = d /\ j = i
        BY <4>3 DEF Placed, Queues
      <4>5. <<d, i>> \in Places(t)
        BY <4>3 DEF Places
      <4>6. \A x \in Places(t) : x = <<d, i>>
        BY <4>4 DEF Places
      <4>7. Places(t) = {<<d, i>>}
        BY <4>5, <4>6, Zenon
      <4> QED BY <3>2, <4>7, Zenon DEF IsSingleton
    <3> QED BY <3>1, <3>2, Zenon
  <2>2. \A t \in Threads : state[t] = "RUNNING" <=> \E c \in CPUs : current[c] = t
    BY Zenon DEF Placed, NoneLost
  <2> QED BY <2>1, <2>2, Zenon DEF OnePlace, QueuedOnce
<1> QED BY <1>1, SchedInvariant, PTL
=============================================================================
