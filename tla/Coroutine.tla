------------------------------ MODULE Coroutine ------------------------------
(***************************************************************************)
(* The coroutine library: a table of coroutines, a circular wait queue and *)
(* one kernel thread that switches between them with setjmp and longjmp.   *)
(* The same code is the musl port that FlexIPC yields to.                  *)
(***************************************************************************)
EXTENDS Naturals, Sequences, FiniteSets

CONSTANTS
  MAX_COROUTINE,  \* entries of the coroutine table
  NoId,           \* running_coroutine == NULL
  MaxCreate       \* bound: calls of create_coroutine

ASSUME CoroutineAssumption ==
  /\ MAX_COROUTINE \in Nat \ {0}
  /\ MaxCreate \in Nat
  /\ NoId \notin Nat

Ids == 0 .. MAX_COROUTINE - 1

VARIABLES
  loc,                \* where the kernel thread is
  running_coroutine,  \* the coroutine that was resumed last
  coroutine_count,    \* table entries in use
  state,              \* state of each table entry
  wait_queue,         \* the list of entries, first to last
  life,               \* history: which call of create_coroutine filled an entry
  context,            \* the life whose yield_coroutine saved the entry's jmp_buf
  created,            \* history: calls of create_coroutine
  peak,               \* history: the most coroutines that were alive at once
  passed              \* history: who was resumed since an entry was, or was made

vars == <<loc, running_coroutine, coroutine_count, state, wait_queue, life,
          context, created, peak, passed>>

Locs == {"none", "main", "run", "func", "done", "overflow"}

Live == {i \in Ids : state[i] \in {"IDLE", "RUNNING"}}

Init ==
  /\ loc = "none"
  /\ running_coroutine = NoId
  /\ coroutine_count = 0
  /\ state = [i \in Ids |-> "NULL"]
  /\ wait_queue = <<>>
  /\ life = [i \in Ids |-> 0]
  /\ context = [i \in Ids |-> 0]
  /\ created = 0
  /\ peak = 0
  /\ passed = [i \in Ids |-> {}]

create_scheduler ==
  /\ loc = "none"
  /\ loc' = "main"
  /\ running_coroutine' = NoId
  /\ coroutine_count' = 0
  /\ state' = [i \in Ids |-> "NULL"]
  /\ wait_queue' = <<>>
  /\ UNCHANGED <<life, context, created, peak, passed>>

(* The queue without its k-th node, and the queue with a node at its end.   *)
list_del(q, k) == [j \in 1 .. Len(q) - 1 |-> IF j < k THEN q[j] ELSE q[j + 1]]
list_append(q, i) == Append(q, i)

Dead(i) == i < coroutine_count /\ state[i] = "DEAD"

(* Mutant: dead entries are not reused.                                     *)
Entry_fresh(i) == i = coroutine_count

(* The entry that create_coroutine takes: the first dead one, or a new one. *)
Entry(i) ==
  \/ Dead(i) /\ \A j \in Ids : Dead(j) => i <= j
  \/ i = coroutine_count /\ \A j \in Ids : ~Dead(j)

(* Mutant: a reused entry keeps the state of its previous life.             *)
Fill_running(i) ==
  state' = [state EXCEPT ![i] = IF @ = "DEAD" THEN "RUNNING" ELSE "IDLE"]

(* coroutine->state = IDLE, for a new entry as for a reused one.            *)
Fill(i) == state' = [state EXCEPT ![i] = "IDLE"]

(* The table grows when the entry is a new one.                             *)
Grow(i) ==
  coroutine_count' = IF i = coroutine_count THEN i + 1 ELSE coroutine_count

(* create_coroutine, called by main or by a running coroutine.  Nothing     *)
(* checks MAX_COROUTINE: with the table full of live coroutines the store   *)
(* goes past its end.                                                       *)
create_coroutine ==
  /\ loc \in {"main", "func", "done"}
  /\ created < MaxCreate
  /\ created' = created + 1
  /\ \/ \E i \in Ids :
          /\ Entry(i)
          /\ Fill(i)
          /\ Grow(i)
          /\ wait_queue' = list_append(wait_queue, i)
          /\ life' = [life EXCEPT ![i] = created + 1]
          /\ passed' = [passed EXCEPT ![i] = {}]
          /\ LET alive == Cardinality(Live \union {i})
             IN peak' = IF alive > peak THEN alive ELSE peak
          /\ loc' = IF loc = "done" THEN "main" ELSE loc
     \/ /\ ~\E i \in Ids : Entry(i)
        /\ loc' = "overflow"
        /\ UNCHANGED <<coroutine_count, state, wait_queue, life, peak, passed>>
  /\ UNCHANGED <<running_coroutine, context>>

run_scheduler ==
  /\ loc = "main"
  /\ loc' = "run"
  /\ UNCHANGED <<running_coroutine, coroutine_count, state, wait_queue, life,
                 context, created, peak, passed>>

Runnable(k) == state[wait_queue[k]] \in {"RUNNING", "IDLE"}

(* Mutant: the chosen coroutine stays where it is in the queue.             *)
default_sched_policy_stay(k) ==
  /\ Runnable(k) /\ \A j \in 1 .. k - 1 : ~Runnable(j)
  /\ UNCHANGED wait_queue

(* default_sched_policy: the first runnable node moves to the end.          *)
default_sched_policy(k) ==
  /\ Runnable(k) /\ \A j \in 1 .. k - 1 : ~Runnable(j)
  /\ wait_queue' = list_append(list_del(wait_queue, k), wait_queue[k])

(* schedule: start the next coroutine on its own stack, or longjmp to where *)
(* it yielded; run_scheduler returns to main when there is none.            *)
schedule ==
  /\ loc = "run"
  /\ \/ \E k \in DOMAIN wait_queue :
          LET i == wait_queue[k]
          IN /\ default_sched_policy(k)
             /\ running_coroutine' = i
             /\ state' = [state EXCEPT ![i] = "RUNNING"]
             /\ passed' = [j \in Ids |-> IF j = i THEN {} ELSE passed[j] \union {i}]
             /\ loc' = "func"
     \/ /\ \A k \in DOMAIN wait_queue : ~Runnable(k)
        /\ loc' = "done"
        /\ UNCHANGED <<running_coroutine, state, wait_queue, passed>>
  /\ UNCHANGED <<coroutine_count, life, context, created, peak>>

yield_coroutine ==
  /\ loc = "func"
  /\ context' = [context EXCEPT ![running_coroutine] = life[running_coroutine]]
  /\ loc' = "run"
  /\ UNCHANGED <<running_coroutine, coroutine_count, state, wait_queue, life,
                 created, peak, passed>>

(* Mutant: a coroutine that exits stays in the wait queue.                  *)
exit_coroutine_queued ==
  /\ loc = "func"
  /\ state' = [state EXCEPT ![running_coroutine] = "DEAD"]
  /\ loc' = "run"
  /\ UNCHANGED <<running_coroutine, coroutine_count, wait_queue, life,
                 context, created, peak, passed>>

(* exit_coroutine, called or reached when the coroutine's function returns. *)
exit_coroutine ==
  /\ loc = "func"
  /\ state' = [state EXCEPT ![running_coroutine] = "DEAD"]
  /\ \E k \in DOMAIN wait_queue :
       /\ wait_queue[k] = running_coroutine
       /\ wait_queue' = list_del(wait_queue, k)
  /\ loc' = "run"
  /\ UNCHANGED <<running_coroutine, coroutine_count, life, context, created,
                 peak, passed>>

(* close_scheduler, which main calls once run_scheduler has returned.       *)
close_scheduler ==
  /\ loc = "done"
  /\ loc' = "none"
  /\ running_coroutine' = NoId
  /\ coroutine_count' = 0
  /\ state' = [i \in Ids |-> "NULL"]
  /\ wait_queue' = <<>>
  /\ UNCHANGED <<life, context, created, peak, passed>>

Next ==
  \/ create_scheduler \/ create_coroutine \/ run_scheduler \/ schedule
  \/ yield_coroutine \/ exit_coroutine \/ close_scheduler

Spec == Init /\ [][Next]_vars

(* main goes on to run_scheduler, schedule is straight-line code, and the   *)
(* coroutines cooperate: each one yields or returns.  Nothing is assumed    *)
(* about which coroutine is chosen.                                         *)
FairSpec ==
  /\ Spec
  /\ WF_vars(run_scheduler) /\ WF_vars(schedule)
  /\ WF_vars(yield_coroutine \/ exit_coroutine)
-----------------------------------------------------------------------------
(* Properties.                                                              *)

(* Every variable has its type.                                             *)
TypeOK ==
  /\ loc \in Locs
  /\ running_coroutine \in Ids \union {NoId}
  /\ coroutine_count \in 0 .. MAX_COROUTINE
  /\ state \in [Ids -> {"NULL", "IDLE", "RUNNING", "DEAD"}]
  /\ wait_queue \in Seq(Ids)
  /\ life \in [Ids -> 0 .. MaxCreate]
  /\ context \in [Ids -> 0 .. MaxCreate]
  /\ created \in 0 .. MaxCreate
  /\ peak \in 0 .. MAX_COROUTINE
  /\ passed \in [Ids -> SUBSET Ids]

(* The wait queue holds every live coroutine exactly once and no other, so  *)
(* list_append never links a node that is linked already and list_del never *)
(* unlinks one that is not, however the entries are reused.                 *)
QueueIsLive ==
  /\ {wait_queue[k] : k \in DOMAIN wait_queue} = Live
  /\ \A j, k \in DOMAIN wait_queue : wait_queue[j] = wait_queue[k] => j = k

(* schedule never jumps into the context of an earlier life of an entry:    *)
(* each coroutine it would longjmp to has yielded in its present life.      *)
ContextIsOwn ==
  loc = "run" => \A i \in Ids : state[i] = "RUNNING" => context[i] = life[i]

(* Dead entries are reused before the table grows: it never has more        *)
(* entries than coroutines were alive at once, and a program that keeps at  *)
(* most MAX_COROUTINE of them alive stays inside the table.                 *)
TableBound ==
  /\ coroutine_count <= peak
  /\ loc = "overflow" => Cardinality(Live) = MAX_COROUTINE

(* Round robin: while a coroutine waits, no other is resumed twice.         *)
RoundRobin ==
  [][\A i \in Live : schedule /\ loc' = "func" /\ running_coroutine' # i =>
       running_coroutine' \notin passed[i]]_vars

(* The library gives its clients cooperative threads that are resumed       *)
(* strongly fairly, which is the fairness module FlexIpc assumes of Resume. *)
Threads == INSTANCE CooperativeThreads WITH
  Threads <- Ids, Nobody <- NoId, live <- IF loc = "overflow" THEN {} ELSE Live,
  active <- IF loc = "func" THEN running_coroutine ELSE NoId
ResumesFairly == Threads!Spec
=============================================================================
