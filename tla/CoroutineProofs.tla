-------------------------- MODULE CoroutineProofs --------------------------
(***************************************************************************)
(* Proofs about the coroutine library, for every size of its table: the    *)
(* wait queue holds the live coroutines and no other, a coroutine is only  *)
(* resumed in a context of its own, the table grows no further than the    *)
(* coroutines alive at once, the choice is round robin, and every step of  *)
(* the library is a step of the cooperative threads its clients rely on.   *)
(***************************************************************************)
EXTENDS Coroutine, FiniteSetTheorems, WellFoundedInduction, TLAPS

Dequeued == loc \in {"none", "done"} => wait_queue = <<>>

(* The entries in use are the first ones of the table.                      *)
InUse == \A i \in Ids : state[i] = "NULL" <=> coroutine_count <= i

(* The coroutine that has the kernel thread is alive.                       *)
OnCpu ==
  loc = "func" => running_coroutine \in Ids /\ state[running_coroutine] = "RUNNING"

(* A coroutine that was resumed has yielded since it was created, or has    *)
(* the kernel thread now.                                                   *)
Saved ==
  \A i \in Ids : state[i] = "RUNNING" =>
    context[i] = life[i] \/ (loc \in {"func", "overflow"} /\ i = running_coroutine)

(* Who was resumed while a coroutine waits is behind it in the queue.       *)
Behind(q, p) == \A j, k \in DOMAIN q : q[k] \in p[q[j]] => j < k

(* The queue q holds each member of S once, and nothing else.               *)
Holds(q, S) ==
  /\ q \in Seq(Ids) /\ S \subseteq Ids
  /\ \A k \in DOMAIN q : q[k] \in S
  /\ \A i \in S : \E k \in DOMAIN q : q[k] = i
  /\ \A j, k \in DOMAIN q : q[j] = q[k] => j = k

Full == loc = "overflow" => Live = Ids

Inv ==
  /\ TypeOK /\ Holds(wait_queue, Live)
  /\ Dequeued /\ InUse /\ OnCpu /\ Saved /\ Full
  /\ Behind(wait_queue, passed)
  /\ coroutine_count <= peak

-----------------------------------------------------------------------------
(* A set of natural numbers has a least member.                             *)
LEMMA Least ==
  ASSUME NEW S, S \subseteq Nat, S # {}
  PROVE  \E i \in S : \A j \in S : i <= j
<1> DEFINE R == OpToRel(<, Nat)
<1>1. IsWellFoundedOn(R, Nat)
  BY NatLessThanWellFounded, Zenon
<1> HIDE DEF R
<1>2. PICK i \in S : \A j \in S : ~(<<j, i>> \in R)
  BY <1>1, WFMin, Zenon
<1>3. \A j \in S : ~(j < i)
  BY <1>2, Zenon DEF R, OpToRel
<1> QED BY <1>3

(* list_del takes one node out of a queue and keeps the order of the rest.  *)
LEMMA DelIs ==
  ASSUME NEW q \in Seq(Ids), NEW k \in DOMAIN q
  PROVE  /\ list_del(q, k) \in Seq(Ids)
         /\ DOMAIN q = 1 .. Len(q) /\ Len(q) \in Nat
         /\ DOMAIN list_del(q, k) = 1 .. Len(q) - 1
         /\ Len(list_del(q, k)) = Len(q) - 1
         /\ \A j \in 1 .. Len(q) - 1 :
              list_del(q, k)[j] = IF j < k THEN q[j] ELSE q[j + 1]
<1>1. DOMAIN q = 1 .. Len(q) /\ Len(q) \in Nat /\ \A j \in 1 .. Len(q) : q[j] \in Ids
  OBVIOUS
<1>2. Len(q) - 1 \in Nat
  BY <1>1
<1>3. list_del(q, k) \in [1 .. Len(q) - 1 -> Ids]
  BY <1>1 DEF list_del
<1>4. list_del(q, k) \in Seq(Ids) /\ Len(list_del(q, k)) = Len(q) - 1
  BY <1>2, <1>3
<1> QED BY <1>1, <1>3, <1>4, Zenon DEF list_del

(* list_append puts the coroutine behind those that are queued.             *)
LEMMA AppendIs ==
  ASSUME NEW q \in Seq(Ids), NEW i \in Ids
  PROVE  /\ list_append(q, i) \in Seq(Ids)
         /\ DOMAIN q = 1 .. Len(q) /\ Len(q) \in Nat
         /\ DOMAIN list_append(q, i) = 1 .. Len(q) + 1
         /\ list_append(q, i)[Len(q) + 1] = i
         /\ \A j \in 1 .. Len(q) : list_append(q, i)[j] = q[j]
BY DEF list_append

(* A queue without one of its nodes.                                        *)
LEMMA DelHolds ==
  ASSUME NEW q, NEW S, NEW p, Holds(q, S), Behind(q, p), NEW k \in DOMAIN q
  PROVE  /\ Holds(list_del(q, k), S \ {q[k]})
         /\ Behind(list_del(q, k), p)
<1> DEFINE r == list_del(q, k)
           n == Len(q)
<1>1. /\ q \in Seq(Ids) /\ S \subseteq Ids
      /\ \A j \in DOMAIN q : q[j] \in S
      /\ \A i \in S : \E j \in DOMAIN q : q[j] = i
      /\ \A i, j \in DOMAIN q : q[i] = q[j] => i = j
  BY Zenon DEF Holds
<1>2. /\ r \in Seq(Ids) /\ DOMAIN q = 1 .. n /\ n \in Nat /\ DOMAIN r = 1 .. n - 1
      /\ \A j \in 1 .. n - 1 : r[j] = IF j < k THEN q[j] ELSE q[j + 1]
  BY <1>1, DelIs
<1> DEFINE at(j) == IF j < k THEN j ELSE j + 1
<1>a. \A j \in 1 .. n - 1 : r[j] = q[at(j)] /\ at(j) \in 1 .. n /\ at(j) # k
  BY <1>2
<1>b. \A i, j \in 1 .. n - 1 :
        /\ at(i) = at(j) => i = j
        /\ at(i) < at(j) => i < j
  BY <1>2
<1> HIDE DEF r, n, at
<1>3. \A j \in DOMAIN r : r[j] \in S \ {q[k]}
  BY <1>1, <1>2, <1>a
<1>4. ASSUME NEW i \in S \ {q[k]} PROVE \E j \in DOMAIN r : r[j] = i
  <2>1. PICK j \in DOMAIN q : q[j] = i
    BY <1>1, Zenon
  <2>2. CASE j < k
    <3>1. j \in DOMAIN r /\ r[j] = i
      BY <1>2, <2>1, <2>2
    <3> QED BY <3>1, Zenon
  <2>3. CASE ~(j < k)
    <3>1. j - 1 \in DOMAIN r /\ r[j - 1] = i
      BY <1>2, <2>1, <2>3
    <3> QED BY <3>1, Zenon
  <2> QED BY <2>2, <2>3, Zenon
<1>5. \A i, j \in DOMAIN r : r[i] = r[j] => i = j
  BY <1>1, <1>2, <1>a, <1>b
<1>6. \A i, j \in DOMAIN r : r[j] \in p[r[i]] => i < j
  BY <1>2, <1>a, <1>b DEF Behind
<1> QED BY <1>1, <1>2, <1>3, <1>4, <1>5, <1>6, Zenon DEF Holds, Behind, r

(* A queue with one node more at its end, which nobody has passed.          *)
LEMMA AppendHolds ==
  ASSUME NEW q, NEW S, NEW p, Holds(q, S), Behind(q, p),
         NEW i \in Ids, i \notin S, NEW pp, pp[i] = {},
         \A j \in S : pp[j] \subseteq p[j] \union {i}
  PROVE  /\ Holds(list_append(q, i), S \union {i})
         /\ Behind(list_append(q, i), pp)
<1> DEFINE r == list_append(q, i)
           n == Len(q)
<1>1. /\ q \in Seq(Ids) /\ S \subseteq Ids
      /\ \A j \in DOMAIN q : q[j] \in S
      /\ \A h \in S : \E j \in DOMAIN q : q[j] = h
      /\ \A h, j \in DOMAIN q : q[h] = q[j] => h = j
  BY Zenon DEF Holds
<1>2. /\ r \in Seq(Ids) /\ DOMAIN q = 1 .. n /\ n \in Nat /\ DOMAIN r = 1 .. n + 1
      /\ r[n + 1] = i /\ \A j \in 1 .. n : r[j] = q[j]
  BY <1>1, AppendIs
<1> HIDE DEF r, n
<1>3. \A j \in DOMAIN r : r[j] \in S \union {i}
  BY <1>1, <1>2
<1>4. \A h \in S \union {i} : \E j \in DOMAIN r : r[j] = h
  BY <1>1, <1>2
<1>5. \A h, j \in DOMAIN r : r[h] = r[j] => h = j
  BY <1>1, <1>2
<1>6. ASSUME NEW h \in DOMAIN r, NEW j \in DOMAIN r, r[j] \in pp[r[h]]
      PROVE  h < j
  <2>1. h \in 1 .. n
    BY <1>2, <1>6
  <2>2. CASE j = n + 1
    BY <1>2, <2>1, <2>2
  <2>3. CASE j \in 1 .. n
    <3>1. r[j] = q[j] /\ r[h] = q[h] /\ q[h] \in S /\ q[j] \in S
      BY <1>1, <1>2, <2>1, <2>3, Zenon
    <3>2. q[j] \in p[q[h]]
      BY <1>6, <3>1, Zenon
    <3> QED BY <1>2, <2>1, <2>3, <3>2, Zenon DEF Behind
  <2> QED BY <1>2, <2>2, <2>3
<1> QED BY <1>1, <1>2, <1>3, <1>4, <1>5, <1>6, Zenon DEF Holds, Behind, r

(* The table is finite.                                                     *)
LEMMA Table ==
  /\ IsFiniteSet(Ids) /\ Cardinality(Ids) = MAX_COROUTINE
  /\ \A S \in SUBSET Ids : IsFiniteSet(S) /\ Cardinality(S) \in 0 .. MAX_COROUTINE
<1>1. IsFiniteSet(Ids) /\ Cardinality(Ids) = MAX_COROUTINE
  BY CoroutineAssumption, FS_Interval DEF Ids
<1>2. ASSUME NEW S \in SUBSET Ids
      PROVE  IsFiniteSet(S) /\ Cardinality(S) \in 0 .. MAX_COROUTINE
  <2>1. IsFiniteSet(S) /\ Cardinality(S) <= Cardinality(Ids)
    BY <1>1, FS_Subset, Zenon
  <2>2. Cardinality(S) \in Nat
    BY <2>1, FS_CardinalityType, Zenon
  <2> QED BY <1>1, <2>1, <2>2, CoroutineAssumption
<1> QED BY <1>1, <1>2, Zenon

(* The entry that create_coroutine takes is not alive; when it is a new     *)
(* one, every entry before it is.                                           *)
LEMMA EntryIs ==
  ASSUME TypeOK, InUse, NEW i \in Ids, Entry(i)
  PROVE  /\ i \notin Live
         /\ i <= coroutine_count
         /\ i = coroutine_count => Cardinality(Live \union {i}) = i + 1
<1>1. coroutine_count \in Nat /\ i \in Nat /\ \A j \in Ids : j \in Nat
  BY DEF TypeOK, Ids
<1>2. i \notin Live /\ i <= coroutine_count
  BY <1>1 DEF Entry, Dead, Live, InUse
<1>3. ASSUME i = coroutine_count PROVE Cardinality(Live \union {i}) = i + 1
  <2>1. \A j \in Ids : ~Dead(j)
    BY <1>1, <1>3 DEF Entry, Dead
  <2>2. \A j \in Ids : j < i => state[j] # "NULL" /\ state[j] # "DEAD"
    BY <1>1, <1>3, <2>1 DEF Dead, InUse
  <2>3. \A j \in Ids : j < i => j \in Live
    BY <2>2, Zenon DEF TypeOK, Live
  <2>4. \A j \in Live : j < i
    BY <1>1, <1>3 DEF Live, InUse
  <2>5. \A j \in 0 .. i : j \in Ids
    BY CoroutineAssumption DEF Ids
  <2>6. ASSUME NEW j PROVE j \in Live \union {i} <=> j \in 0 .. i
    <3>1. j \in Live => j \in 0 .. i
      BY <1>1, <2>4 DEF Live
    <3>2. j \in 0 .. i /\ j # i => j \in Live
      BY <1>1, <2>3, <2>5
    <3> QED BY <1>1, <3>1, <3>2
  <2>7. Live \union {i} = 0 .. i
    BY <2>6, Zenon
  <2>8. Cardinality(0 .. i) = IF 0 > i THEN 0 ELSE i - 0 + 1
    BY <1>1, FS_Interval
  <2>9. Cardinality(0 .. i) = i + 1
    <3>1. ~(0 > i) /\ i - 0 + 1 = i + 1
      BY <1>1
    <3> QED BY <2>8, <3>1, Zenon
  <2> QED BY <2>7, <2>9, Zenon
<1> QED BY <1>2, <1>3, Zenon

(* When create_coroutine finds no entry, every entry is alive.              *)
LEMMA NoEntry ==
  ASSUME TypeOK, InUse, ~\E i \in Ids : Entry(i)
  PROVE  Live = Ids
<1> DEFINE D == {i \in Ids : Dead(i)}
<1>1. D = {}
  <2> SUFFICES ASSUME D # {} PROVE FALSE
    OBVIOUS
  <2>1. D \subseteq Nat
    BY DEF Ids
  <2>2. PICK i \in D : \A j \in D : i <= j
    BY <2>1, Least, Zenon
  <2>3. Entry(i)
    BY <2>2, Zenon DEF Entry
  <2> QED BY <2>3, Zenon
<1>2. coroutine_count \notin Ids
  BY <1>1, Zenon DEF Entry
<1>3. coroutine_count = MAX_COROUTINE
  BY <1>2, CoroutineAssumption DEF TypeOK, Ids
<1>4. ASSUME NEW i \in Ids PROVE i \in Live
  <2>1. i < coroutine_count /\ ~(coroutine_count <= i)
    BY <1>3, CoroutineAssumption DEF Ids
  <2>2. state[i] # "NULL" /\ state[i] # "DEAD"
    BY <1>1, <2>1, Zenon DEF InUse, Dead
  <2> QED BY <2>2, Zenon DEF TypeOK, Live
<1> QED BY <1>4, Zenon DEF Live

(* init_coroutine establishes the invariant.                                *)
LEMMA InitInv == Init => Inv
<1> SUFFICES ASSUME Init PROVE Inv
  OBVIOUS
<1>1. TypeOK
  BY CoroutineAssumption DEF Init, TypeOK, Locs
<1>2. Live = {}
  BY Zenon DEF Init, Live
<1>3. Holds(wait_queue, Live) /\ Behind(wait_queue, passed)
  BY <1>2 DEF Init, Holds, Behind
<1>4. InUse
  BY DEF Init, InUse, Ids
<1> QED
  BY <1>1, <1>3, <1>4, CoroutineAssumption DEF Init, Inv, Dequeued, OnCpu, Saved, Full

(* create_scheduler and close_scheduler, which clear the table.             *)
LEMMA ClearStep ==
  ASSUME Inv, create_scheduler \/ close_scheduler PROVE Inv' /\ Live = {} /\ Live' = {}
<1>0. /\ loc \in {"none", "done"} /\ loc' \in {"none", "main"}
      /\ running_coroutine' = NoId /\ coroutine_count' = 0
      /\ state' = [i \in Ids |-> "NULL"] /\ wait_queue' = <<>>
      /\ life' = life /\ context' = context /\ created' = created
      /\ peak' = peak /\ passed' = passed
  BY Zenon DEF create_scheduler, close_scheduler
<1>1. TypeOK'
  BY <1>0, CoroutineAssumption DEF Inv, TypeOK, Locs
<1>2. Live' = {}
  BY <1>0, Zenon DEF Live
<1>3. Live = {}
  BY <1>0 DEF Inv, Dequeued, Holds
<1>4. Holds(wait_queue, Live)' /\ Behind(wait_queue, passed)'
  BY <1>0, <1>2 DEF Holds, Behind
<1>5. InUse'
  BY <1>0 DEF InUse, Ids
<1>6. (Dequeued /\ OnCpu /\ Saved /\ Full)'
  BY <1>0, Zenon DEF Dequeued, OnCpu, Saved, Full
<1>7. coroutine_count' <= peak'
  BY <1>0 DEF Inv, TypeOK
<1> QED BY <1>1, <1>2, <1>3, <1>4, <1>5, <1>6, <1>7, Zenon DEF Inv

(* create_coroutine, when it finds an entry.                                *)
LEMMA CreateStep ==
  ASSUME Inv, create_coroutine, NEW i \in Ids, Entry(i), Fill(i), Grow(i),
         wait_queue' = list_append(wait_queue, i),
         life' = [life EXCEPT ![i] = created + 1],
         passed' = [passed EXCEPT ![i] = {}],
         peak' = (LET alive == Cardinality(Live \union {i})
                  IN IF alive > peak THEN alive ELSE peak),
         loc' = IF loc = "done" THEN "main" ELSE loc
  PROVE  Inv' /\ i \notin Live /\ Live' = Live \union {i}
<1>0. /\ loc \in {"main", "func", "done"} /\ created < MaxCreate
      /\ created' = created + 1
      /\ running_coroutine' = running_coroutine /\ context' = context
  BY Zenon DEF create_coroutine
<1>t. /\ TypeOK /\ InUse /\ Holds(wait_queue, Live) /\ Behind(wait_queue, passed)
      /\ OnCpu /\ Saved /\ coroutine_count <= peak
  BY Zenon DEF Inv
<1>1. /\ i \notin Live /\ i <= coroutine_count
      /\ i = coroutine_count => Cardinality(Live \union {i}) = i + 1
  BY <1>t, EntryIs, Zenon
<1>2. state' = [state EXCEPT ![i] = "IDLE"]
  BY Zenon DEF Fill
<1>3. Live' = Live \union {i}
  BY <1>t, <1>2, Zenon DEF Live, TypeOK
<1>4. /\ Cardinality(Live \union {i}) \in 0 .. MAX_COROUTINE
      /\ peak \in 0 .. MAX_COROUTINE
  BY <1>t, Table, Zenon DEF Live, TypeOK
<1> DEFINE alive == Cardinality(Live \union {i})
<1>5. peak' = IF alive > peak THEN alive ELSE peak
  OBVIOUS
<1>6. alive \in 0 .. MAX_COROUTINE /\ (i = coroutine_count => alive = i + 1)
  BY <1>1, <1>4, Zenon
<1> HIDE DEF alive
<1>7. coroutine_count' = IF i = coroutine_count THEN i + 1 ELSE coroutine_count
  BY Zenon DEF Grow
<1>8. /\ peak' \in 0 .. MAX_COROUTINE
      /\ coroutine_count' \in 0 .. MAX_COROUTINE
      /\ coroutine_count' <= peak'
  <2>1. /\ coroutine_count \in 0 .. MAX_COROUTINE /\ MAX_COROUTINE \in Nat
        /\ peak \in 0 .. MAX_COROUTINE /\ i \in 0 .. MAX_COROUTINE - 1
    BY <1>t, CoroutineAssumption, Zenon DEF TypeOK, Ids
  <2>2. peak' \in 0 .. MAX_COROUTINE /\ peak <= peak' /\ alive <= peak'
    BY <1>5, <1>6, <2>1
  <2>3. CASE i = coroutine_count
    BY <1>6, <1>7, <2>1, <2>2, <2>3, Zenon
  <2>4. CASE i # coroutine_count
    BY <1>7, <1>t, <2>1, <2>2, <2>4
  <2> QED BY <2>3, <2>4, Zenon
<1>9. Holds(wait_queue, Live)' /\ Behind(wait_queue, passed)'
  <2>1. passed'[i] = {} /\ \A j \in Live : passed'[j] \subseteq passed[j] \union {i}
    BY <1>t, Zenon DEF TypeOK, Live
  <2>2. /\ Holds(list_append(wait_queue, i), Live \union {i})
        /\ Behind(list_append(wait_queue, i), passed')
    BY <1>1, <1>t, <2>1, AppendHolds, Zenon
  <2> QED BY <1>3, <2>2, Zenon DEF Holds, Behind
<1>10. TypeOK'
  <2>1. created' \in 0 .. MaxCreate /\ loc' \in Locs
    BY <1>0, <1>t, CoroutineAssumption DEF TypeOK, Locs
  <2>2. wait_queue' \in Seq(Ids)
    BY <1>9, Zenon DEF Holds
  <2>3. state' \in [Ids -> {"NULL", "IDLE", "RUNNING", "DEAD"}]
    BY <1>2, <1>t, Zenon DEF TypeOK
  <2>4. life' \in [Ids -> 0 .. MaxCreate] /\ passed' \in [Ids -> SUBSET Ids]
    BY <1>0, <1>t, <2>1, Zenon DEF TypeOK
  <2> QED BY <1>0, <1>8, <1>t, <2>1, <2>2, <2>3, <2>4, Zenon DEF TypeOK
<1>11. InUse'
  BY <1>1, <1>2, <1>7, <1>t DEF InUse, TypeOK, Ids
<1>12. OnCpu' /\ Saved'
  <2>1. loc = "func" => running_coroutine # i
    BY <1>1, <1>t, Zenon DEF OnCpu, Live
  <2>2. OnCpu'
    BY <1>0, <1>2, <1>t, <2>1, Zenon DEF OnCpu, TypeOK
  <2>3. ASSUME NEW j \in Ids, state'[j] = "RUNNING"
        PROVE  \/ context'[j] = life'[j]
               \/ loc' \in {"func", "overflow"} /\ j = running_coroutine'
    <3>1. j # i /\ state[j] = "RUNNING"
      BY <1>2, <1>t, <2>3, Zenon DEF TypeOK
    <3>2. life'[j] = life[j]
      BY <1>t, <3>1, Zenon DEF TypeOK
    <3> QED BY <1>0, <1>t, <3>1, <3>2, Zenon DEF Saved
  <2> QED BY <2>2, <2>3, Zenon DEF Saved
<1>13. Dequeued' /\ Full'
  BY <1>0, Zenon DEF Dequeued, Full
<1> QED BY <1>1, <1>3, <1>8, <1>9, <1>10, <1>11, <1>12, <1>13, Zenon DEF Inv

(* create_coroutine, when it finds none.                                    *)
LEMMA OverflowStep ==
  ASSUME Inv, create_coroutine, ~\E i \in Ids : Entry(i), loc' = "overflow",
         coroutine_count' = coroutine_count, state' = state,
         wait_queue' = wait_queue, life' = life, peak' = peak, passed' = passed
  PROVE  Inv' /\ Live = Ids
<1>0. /\ loc \in {"main", "func", "done"} /\ created < MaxCreate
      /\ created' = created + 1
      /\ running_coroutine' = running_coroutine /\ context' = context
  BY Zenon DEF create_coroutine
<1>1. Live = Ids
  BY NoEntry, Zenon DEF Inv
<1>2. Live' = Live
  BY Zenon DEF Live
<1>3. TypeOK'
  BY <1>0, CoroutineAssumption DEF Inv, TypeOK, Locs
<1>4. Holds(wait_queue, Live)' /\ Behind(wait_queue, passed)'
  BY <1>2, Zenon DEF Inv, Holds, Behind
<1>5. Saved'
  BY <1>0, Zenon DEF Inv, Saved
<1>6. (Dequeued /\ InUse /\ OnCpu)'
  BY Zenon DEF Inv, Dequeued, InUse, OnCpu
<1>7. Full'
  BY <1>1, <1>2, Zenon DEF Full
<1> QED BY <1>1, <1>3, <1>4, <1>5, <1>6, <1>7, Zenon DEF Inv

(* The first node of the queue is the one that schedule resumes.            *)
LEMMA PolicyIs ==
  ASSUME Inv, NEW k \in DOMAIN wait_queue, default_sched_policy(k)
  PROVE  k = 1 /\ \A j \in DOMAIN wait_queue : Runnable(j)
<1>1. \A j \in DOMAIN wait_queue : Runnable(j)
  BY Zenon DEF Inv, Holds, Live, Runnable
<1>2. DOMAIN wait_queue = 1 .. Len(wait_queue) /\ Len(wait_queue) \in Nat
  BY DEF Inv, TypeOK
<1>3. \A j \in 1 .. k - 1 : ~Runnable(j)
  BY Zenon DEF default_sched_policy
<1>4. k > 1 => 1 \in 1 .. k - 1 /\ 1 \in DOMAIN wait_queue
  BY <1>2
<1> QED BY <1>1, <1>2, <1>3, <1>4

(* schedule, when it resumes a coroutine.                                   *)
LEMMA ResumeStep ==
  ASSUME Inv, schedule, NEW k \in DOMAIN wait_queue, NEW i, i = wait_queue[k],
         default_sched_policy(k), running_coroutine' = i,
         state' = [state EXCEPT ![i] = "RUNNING"],
         passed' = [j \in Ids |-> IF j = i THEN {} ELSE passed[j] \union {i}],
         loc' = "func"
  PROVE  Inv' /\ i \in Live /\ Live' = Live
<1>0. /\ loc = "run" /\ coroutine_count' = coroutine_count /\ life' = life
      /\ context' = context /\ created' = created /\ peak' = peak
  BY Zenon DEF schedule
<1>t. /\ TypeOK /\ InUse /\ Holds(wait_queue, Live) /\ Behind(wait_queue, passed)
      /\ Saved /\ coroutine_count <= peak
  BY Zenon DEF Inv
<1>1. i \in Live /\ i \in Ids
  BY <1>t, Zenon DEF Holds, Live
<1>2. Live' = Live
  BY <1>1, <1>t, Zenon DEF Live, TypeOK
<1>3. Holds(wait_queue, Live)' /\ Behind(wait_queue, passed)'
  <2>1. /\ Holds(list_del(wait_queue, k), Live \ {i})
        /\ Behind(list_del(wait_queue, k), passed)
    BY <1>t, DelHolds, Zenon
  <2>2. passed'[i] = {} /\ \A j \in Live \ {i} : passed'[j] \subseteq passed[j] \union {i}
    BY <1>1, Zenon DEF Live
  <2> DEFINE q == list_del(wait_queue, k)
             S == Live \ {i}
  <2>3. i \notin S /\ S \union {i} = Live
    BY <1>1, Zenon
  <2>4. Holds(q, S) /\ Behind(q, passed) /\ \A j \in S : passed'[j] \subseteq passed[j] \union {i}
    BY <2>1, <2>2, Zenon
  <2>5. wait_queue' = list_append(q, i)
    BY Zenon DEF default_sched_policy
  <2> HIDE DEF q, S
  <2>6. Holds(list_append(q, i), S \union {i}) /\ Behind(list_append(q, i), passed')
    BY <1>1, <2>2, <2>3, <2>4, AppendHolds
  <2>7. Holds(wait_queue', Live') /\ Behind(wait_queue', passed')
    BY <1>2, <2>3, <2>5, <2>6, Zenon
  <2> QED BY <2>7, Zenon DEF Holds, Behind
<1>4. TypeOK'
  <2>1. wait_queue' \in Seq(Ids)
    BY <1>3, Zenon DEF Holds
  <2>2. passed' \in [Ids -> SUBSET Ids]
    BY <1>1, <1>t, Zenon DEF TypeOK
  <2>3. state' \in [Ids -> {"NULL", "IDLE", "RUNNING", "DEAD"}]
    BY <1>1, <1>t, Zenon DEF TypeOK
  <2> QED BY <1>0, <1>1, <1>t, <2>1, <2>2, <2>3, Zenon DEF TypeOK, Locs
<1>5. InUse'
  <2>1. state[i] # "NULL"
    BY <1>1, Zenon DEF Live
  <2> QED BY <1>0, <1>1, <1>t, <2>1, Zenon DEF InUse, TypeOK
<1>6. OnCpu'
  BY <1>1, <1>t, Zenon DEF OnCpu, TypeOK
<1>7. Saved'
  <2>1. ASSUME NEW j \in Ids, state'[j] = "RUNNING", j # i PROVE context'[j] = life'[j]
    <3>1. state[j] = "RUNNING"
      BY <1>t, <2>1, Zenon DEF TypeOK
    <3> QED BY <1>0, <1>t, <3>1, Zenon DEF Saved
  <2> QED BY <2>1, Zenon DEF Saved
<1>8. (Dequeued /\ Full)'
  BY Zenon DEF Dequeued, Full
<1> QED BY <1>0, <1>1, <1>2, <1>3, <1>4, <1>5, <1>6, <1>7, <1>8, <1>t, Zenon DEF Inv

(* run_scheduler, yield_coroutine, and schedule when there is nothing left  *)
(* to resume: the table and the queue stay as they are.                     *)
LEMMA StayStep ==
  ASSUME Inv, loc' \in Locs \ {"func", "overflow", "none"},
         loc' = "done" => \A k \in DOMAIN wait_queue : ~Runnable(k),
         running_coroutine' = running_coroutine, coroutine_count' = coroutine_count,
         state' = state, wait_queue' = wait_queue, life' = life, created' = created,
         peak' = peak, passed' = passed,
         \/ context' = context /\ loc # "func" /\ loc # "overflow"
         \/ yield_coroutine
  PROVE  Inv' /\ Live' = Live
<1>t. TypeOK /\ Holds(wait_queue, Live) /\ Saved /\ OnCpu
  BY Zenon DEF Inv
<1>1. Live' = Live
  BY Zenon DEF Live
<1>2. Holds(wait_queue, Live)' /\ Behind(wait_queue, passed)'
  BY <1>1, Zenon DEF Inv, Holds, Behind
<1>3. context' \in [Ids -> 0 .. MaxCreate] /\ Saved'
  <2>1. CASE context' = context /\ loc # "func" /\ loc # "overflow"
    BY <1>t, <2>1, Zenon DEF TypeOK, Saved
  <2>2. CASE yield_coroutine
    <3>1. /\ running_coroutine \in Ids /\ loc = "func"
          /\ context' = [context EXCEPT ![running_coroutine] = life[running_coroutine]]
      BY <1>t, <2>2, Zenon DEF yield_coroutine, OnCpu
    <3>2. context' \in [Ids -> 0 .. MaxCreate]
      BY <1>t, <3>1, Zenon DEF TypeOK
    <3>3. ASSUME NEW j \in Ids, state[j] = "RUNNING" PROVE context'[j] = life[j]
      BY <1>t, <3>1, <3>3, Zenon DEF TypeOK, Saved
    <3> QED BY <3>2, <3>3, Zenon DEF Saved
  <2> QED BY <2>1, <2>2, Zenon
<1>4. TypeOK'
  BY <1>3, <1>t, Zenon DEF TypeOK
<1>5. Dequeued'
  <2>1. ASSUME loc' = "done" PROVE wait_queue = <<>>
    <3>1. \A k \in DOMAIN wait_queue : Runnable(k)
      BY <1>t, Zenon DEF Holds, Live, Runnable
    <3>2. DOMAIN wait_queue = {}
      BY <2>1, <3>1, Zenon
    <3> QED BY <1>t, <3>2 DEF TypeOK
  <2> QED BY <2>1, Zenon DEF Dequeued
<1>6. (InUse /\ OnCpu /\ Full)'
  BY Zenon DEF Inv, InUse, OnCpu, Full
<1> QED BY <1>1, <1>2, <1>3, <1>4, <1>5, <1>6, Zenon DEF Inv

(* exit_coroutine.                                                          *)
LEMMA ExitStep ==
  ASSUME Inv, exit_coroutine
  PROVE  Inv' /\ running_coroutine \in Live /\ Live' = Live \ {running_coroutine}
<1> DEFINE r == running_coroutine
<1>0. /\ loc = "func" /\ loc' = "run" /\ state' = [state EXCEPT ![r] = "DEAD"]
      /\ r' = r /\ coroutine_count' = coroutine_count /\ life' = life
      /\ context' = context /\ created' = created /\ peak' = peak /\ passed' = passed
  BY Zenon DEF exit_coroutine
<1>t. /\ TypeOK /\ InUse /\ Holds(wait_queue, Live) /\ Behind(wait_queue, passed)
      /\ OnCpu /\ Saved /\ coroutine_count <= peak
  BY Zenon DEF Inv
<1>1. r \in Ids /\ state[r] = "RUNNING" /\ r \in Live
  BY <1>0, <1>t, Zenon DEF OnCpu, Live
<1>2. Live' = Live \ {r}
  BY <1>0, <1>1, <1>t, Zenon DEF Live, TypeOK
<1>3. PICK k \in DOMAIN wait_queue :
        wait_queue[k] = r /\ wait_queue' = list_del(wait_queue, k)
  BY Zenon DEF exit_coroutine
<1>4. Holds(wait_queue, Live)' /\ Behind(wait_queue, passed)'
  <2>1. /\ Holds(list_del(wait_queue, k), Live \ {r})
        /\ Behind(list_del(wait_queue, k), passed)
    BY <1>3, <1>t, DelHolds, Zenon
  <2> QED BY <1>0, <1>2, <1>3, <2>1, Zenon DEF Holds, Behind
<1>5. TypeOK'
  <2>1. wait_queue' \in Seq(Ids)
    BY <1>4, Zenon DEF Holds
  <2>2. state' \in [Ids -> {"NULL", "IDLE", "RUNNING", "DEAD"}]
    BY <1>0, <1>1, <1>t, Zenon DEF TypeOK
  <2> QED BY <1>0, <1>t, <2>1, <2>2, Zenon DEF TypeOK, Locs
<1>6. InUse'
  BY <1>0, <1>1, <1>t, Zenon DEF InUse, TypeOK
<1>7. Saved'
  <2>1. ASSUME NEW j \in Ids, state'[j] = "RUNNING" PROVE context'[j] = life'[j]
    <3>1. j # r /\ state[j] = "RUNNING"
      BY <1>0, <1>1, <1>t, <2>1, Zenon DEF TypeOK
    <3> QED BY <1>0, <1>t, <3>1, Zenon DEF Saved
  <2> QED BY <2>1, Zenon DEF Saved
<1>8. (Dequeued /\ OnCpu /\ Full)'
  BY <1>0, Zenon DEF Dequeued, OnCpu, Full
<1> QED BY <1>0, <1>1, <1>2, <1>4, <1>5, <1>6, <1>7, <1>8, <1>t, Zenon DEF Inv


(* Every step keeps the invariant; what each does to the live coroutines.   *)
LEMMA NextStep ==
  ASSUME Inv, [Next]_vars
  PROVE  /\ Inv'
         /\ \/ UNCHANGED vars
            \/ create_scheduler /\ Live = {} /\ Live' = {}
            \/ close_scheduler /\ Live = {} /\ Live' = {}
            \/ create_coroutine /\ loc' # "overflow"
               /\ \E i \in Ids : i \notin Live /\ Live' = Live \union {i}
            \/ create_coroutine /\ loc' = "overflow" /\ Live = Ids
            \/ schedule /\ loc' = "func" /\ running_coroutine' \in Live /\ Live' = Live
            \/ (run_scheduler \/ schedule) /\ loc' # "func" /\ Live' = Live
            \/ yield_coroutine /\ Live' = Live
            \/ exit_coroutine /\ running_coroutine \in Live
               /\ Live' = Live \ {running_coroutine}
<1>1. CASE create_scheduler
  BY <1>1, ClearStep, Zenon
<1>2. CASE close_scheduler
  BY <1>2, ClearStep, Zenon
<1>3. CASE create_coroutine
  <2>1. ASSUME NEW i \in Ids, Entry(i), Fill(i), Grow(i),
               wait_queue' = list_append(wait_queue, i),
               life' = [life EXCEPT ![i] = created + 1],
               passed' = [passed EXCEPT ![i] = {}],
               LET alive == Cardinality(Live \union {i})
               IN peak' = IF alive > peak THEN alive ELSE peak,
               loc' = IF loc = "done" THEN "main" ELSE loc
        PROVE  Inv' /\ loc' # "overflow" /\ i \notin Live /\ Live' = Live \union {i}
    <3>1. Inv' /\ i \notin Live /\ Live' = Live \union {i}
      BY <1>3, <2>1, CreateStep, Zenon
    <3>2. loc' # "overflow"
      BY <1>3, <2>1, Zenon DEF create_coroutine
    <3> QED BY <3>1, <3>2, Zenon
  <2>2. ASSUME ~\E i \in Ids : Entry(i), loc' = "overflow",
               UNCHANGED <<coroutine_count, state, wait_queue, life, peak, passed>>
        PROVE  Inv' /\ Live = Ids
    BY <1>3, <2>2, OverflowStep, Zenon
  <2>3. \/ Inv' /\ loc' # "overflow" /\ \E i \in Ids : i \notin Live /\ Live' = Live \union {i}
        \/ Inv' /\ loc' = "overflow" /\ Live = Ids
    BY <1>3, <2>1, <2>2, Zenon DEF create_coroutine
  <2> QED BY <1>3, <2>3, Zenon
<1>4. CASE run_scheduler
  <2>1. Inv' /\ Live' = Live /\ loc' # "func"
    BY <1>4, StayStep, Zenon DEF run_scheduler, Locs
  <2> QED BY <1>4, <2>1, Zenon
<1>5. CASE schedule
  <2>1. ASSUME NEW k \in DOMAIN wait_queue,
               default_sched_policy(k), running_coroutine' = wait_queue[k],
               state' = [state EXCEPT ![wait_queue[k]] = "RUNNING"],
               passed' = [j \in Ids |-> IF j = wait_queue[k] THEN {}
                                        ELSE passed[j] \union {wait_queue[k]}],
               loc' = "func"
        PROVE  Inv' /\ loc' = "func" /\ running_coroutine' \in Live /\ Live' = Live
    <3>1. PICK i : i = wait_queue[k]
      OBVIOUS
    <3>2. Inv' /\ i \in Live /\ Live' = Live
      BY <1>5, <2>1, <3>1, ResumeStep, Zenon
    <3> QED BY <2>1, <3>1, <3>2, Zenon
  <2>2. ASSUME \A k \in DOMAIN wait_queue : ~Runnable(k), loc' = "done",
               UNCHANGED <<running_coroutine, state, wait_queue, passed>>
        PROVE  Inv' /\ loc' # "func" /\ Live' = Live
    BY <1>5, <2>2, StayStep, Zenon DEF schedule, Locs
  <2>3. \/ Inv' /\ loc' = "func" /\ running_coroutine' \in Live /\ Live' = Live
        \/ Inv' /\ loc' # "func" /\ Live' = Live
    BY <1>5, <2>1, <2>2, Zenon DEF schedule
  <2> QED BY <1>5, <2>3, Zenon
<1>6. CASE yield_coroutine
  <2>1. Inv' /\ Live' = Live
    BY <1>6, StayStep, Zenon DEF yield_coroutine, Locs
  <2> QED BY <1>6, <2>1, Zenon
<1>7. CASE exit_coroutine
  BY <1>7, ExitStep, Zenon
<1>8. CASE UNCHANGED vars
  <2>1. Live' = Live /\ Holds(wait_queue, Live)' /\ Behind(wait_queue, passed)'
    BY <1>8, Zenon DEF Inv, vars, Live, Holds, Behind
  <2>2. (TypeOK /\ Dequeued /\ InUse /\ OnCpu)'
    BY <1>8, Zenon DEF Inv, vars, TypeOK, Dequeued, InUse, OnCpu
  <2>3. (Saved /\ Full /\ coroutine_count <= peak)'
    BY <1>8, <2>1, Zenon DEF Inv, vars, Saved, Full
  <2> QED BY <1>8, <2>1, <2>2, <2>3, Zenon DEF Inv
<1> QED BY <1>1, <1>2, <1>3, <1>4, <1>5, <1>6, <1>7, <1>8, ZenonT(60) DEF Next
-----------------------------------------------------------------------------
(* The inductive invariant holds in every reachable state.                  *)
THEOREM CoroutineInvariant == Spec => []Inv
<1>1. Inv /\ [Next]_vars => Inv'
  BY NextStep, Zenon
<1> QED BY <1>1, InitInv, PTL DEF Spec

(* The wait queue holds every live coroutine once and no other, for every   *)
(* size of the table and however its entries are reused.                    *)
THEOREM QueueHoldsLive == Spec => []QueueIsLive
<1>1. Inv => QueueIsLive
  <2> SUFFICES ASSUME Inv PROVE QueueIsLive
    OBVIOUS
  <2>1. \A i : i \in {wait_queue[k] : k \in DOMAIN wait_queue} <=> i \in Live
    BY DEF Inv, Holds
  <2> QED BY <2>1, Zenon DEF QueueIsLive, Inv, Holds
<1> QED BY <1>1, CoroutineInvariant, PTL

(* schedule never jumps to a context that an earlier life of a table entry  *)
(* has left behind.                                                         *)
THEOREM ContextsAreOwn == Spec => []ContextIsOwn
<1>1. Inv => ContextIsOwn
  BY Zenon DEF Inv, Saved, ContextIsOwn
<1> QED BY <1>1, CoroutineInvariant, PTL

(* create_coroutine reuses dead entries before the table grows, and only    *)
(* MAX_COROUTINE coroutines alive at once overflow it.                      *)
THEOREM TableIsBounded == Spec => []TableBound
<1>1. Inv => TableBound
  BY Table, Zenon DEF Inv, Full, TableBound
<1> QED BY <1>1, CoroutineInvariant, PTL

(* default_sched_policy is round robin: nobody is resumed twice while       *)
(* another live coroutine waits.                                            *)
THEOREM RoundRobinChoice == Spec => RoundRobin
<1> DEFINE A == \A i \in Live : schedule /\ loc' = "func" /\ running_coroutine' # i =>
                  running_coroutine' \notin passed[i]
<1>1. ASSUME Inv, Inv', [Next]_vars PROVE [A]_vars
  <2> SUFFICES ASSUME NEW i \in Live, schedule, loc' = "func", running_coroutine' # i,
                      running_coroutine' \in passed[i]
               PROVE  FALSE
    OBVIOUS
  <2>1. PICK k \in DOMAIN wait_queue :
          default_sched_policy(k) /\ running_coroutine' = wait_queue[k]
    BY Zenon DEF schedule
  <2>2. k = 1
    BY <1>1, <2>1, PolicyIs, Zenon
  <2>3. PICK j \in DOMAIN wait_queue : wait_queue[j] = i
    BY <1>1, Zenon DEF Inv, Holds
  <2>4. j < k
    BY <1>1, <2>1, <2>3, Zenon DEF Inv, Behind
  <2>5. j \in Nat \ {0}
    <3>1. wait_queue \in Seq(Ids)
      BY <1>1, Zenon DEF Inv, TypeOK
    <3>2. j \in 1 .. Len(wait_queue)
      BY <2>3, <3>1
    <3> QED BY <3>1, <3>2
  <2> QED BY <2>2, <2>4, <2>5
<1>2. Spec => [][A]_vars
  BY <1>1, CoroutineInvariant, PTL DEF Spec
<1> QED BY <1>2, Zenon DEF RoundRobin

(* Every step of the library is a step of the cooperative threads that its  *)
(* clients rely on, or changes nothing they can see.                        *)
THEOREM GivesThreads == Spec => Threads!Safety
<1>1. Init => Threads!Init
  BY Zenon DEF Init, Threads!Init, Live
<1>2. ASSUME Inv, [Next]_vars PROVE [Threads!Next]_(Threads!vars)
  <2> USE DEF Threads!Next, Threads!vars
  <2>0. /\ loc = "func" => running_coroutine \in Ids /\ running_coroutine # NoId
        /\ \A i \in Ids : i # NoId
    BY <1>2, CoroutineAssumption DEF Inv, OnCpu, Ids
  <2>1. CASE UNCHANGED vars
    BY <2>1, Zenon DEF vars, Live
  <2>2. CASE (create_scheduler \/ close_scheduler) /\ Live = {} /\ Live' = {}
    BY <2>2, Zenon DEF create_scheduler, close_scheduler
  <2>3. ASSUME create_coroutine, loc' # "overflow", NEW i \in Ids, i \notin Live,
               Live' = Live \union {i}
        PROVE  Threads!Create(i)
    BY <2>3, Zenon DEF create_coroutine, Threads!Create
  <2>4. CASE create_coroutine /\ loc' = "overflow" /\ Live = Ids
    <3>1. Threads!Fail
      BY <2>4, Zenon DEF create_coroutine, Threads!Fail
    <3> QED BY <3>1, Zenon
  <2>5. CASE schedule /\ loc' = "func" /\ running_coroutine' \in Live /\ Live' = Live
    <3>1. Threads!Resume(running_coroutine')
      BY <2>5, Zenon DEF schedule, Threads!Resume
    <3>2. running_coroutine' \in Ids
      BY <2>5, Zenon DEF Live
    <3> QED BY <3>1, <3>2, Zenon
  <2>6. CASE (run_scheduler \/ schedule) /\ loc' # "func" /\ Live' = Live
    BY <2>6, Zenon DEF run_scheduler, schedule
  <2>7. CASE yield_coroutine /\ Live' = Live
    <3>1. Threads!Yield
      BY <2>0, <2>7, Zenon DEF yield_coroutine, Threads!Yield
    <3> QED BY <3>1, Zenon
  <2>8. CASE exit_coroutine /\ running_coroutine \in Live /\ Live' = Live \ {running_coroutine}
    <3>1. Threads!Exit
      BY <2>0, <2>8, Zenon DEF exit_coroutine, Threads!Exit
    <3> QED BY <3>1, Zenon
  <2> QED BY <1>2, <2>1, <2>2, <2>3, <2>4, <2>5, <2>6, <2>7, <2>8, NextStep, ZenonT(60)
<1> QED BY <1>1, <1>2, CoroutineInvariant, PTL DEF Spec, Threads!Safety
=============================================================================
