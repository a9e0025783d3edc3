-------------------------- MODULE KernelIpcProofs --------------------------
(***************************************************************************)
(* Synchronous IPC keeps the kernel stacks apart, returns to every caller  *)
(* once and lets a handler serve one call at a time, for any number of     *)
(* CPUs, clients, handlers and nested calls, as long as the timer is the   *)
(* only source of interrupts (~OtherIrqs).                                 *)
(***************************************************************************)
EXTENDS KernelIpc, SchedProofs

Callers == Clients \union Nested
Served == Handlers \ FlexHandlers

IpcType == TypeOK /\ kpc \in [CPUs -> Steps]

(* What a CPU inside a system call knows of the threads it deals with.      *)
AtStep ==
  \A c \in CPUs :
    /\ kpc[c] = "reg_spin" => register_lock /\ current[c] \in Clients
    /\ kpc[c] = "call_spin" =>
         peer[c] \in connected /\ peer[c] \in Served /\ current[c] \in Callers
    /\ kpc[c] = "back" => peer[c] \in Callers /\ current[c] \in Served \union {register_cb}

(* register_lock lets one client at a time build a connection.              *)
Registers ==
  /\ \A c, d \in CPUs : kpc[c] = "reg_spin" /\ kpc[d] = "reg_spin" => c = d
  /\ (\E c \in CPUs : kpc[c] = "reg_spin") => building = register_cb
  /\ building # register_cb => register_lock /\ building \in Clients
  /\ building # register_cb <=>
       \/ \E c \in CPUs : current[c] = register_cb /\ kpc[c] # "back"
       \/ state[register_cb] = "READY"

(* ipc_lock lets one caller at a time use a handler.                        *)
Calls ==
  /\ \A h \in Handlers \ connected : state[h] = "WAITING" /\ ~active_conn[h]
  /\ \A h \in Handlers : active_conn[h] =>
       h \in Served /\ ipc_lock[h] /\ client[h] \in Callers
  /\ \A c \in CPUs : kpc[c] = "call_spin" => ipc_lock[peer[c]] /\ ~active_conn[peer[c]]
  /\ \A c, d \in CPUs :
       kpc[c] = "call_spin" /\ kpc[d] = "call_spin" /\ peer[c] = peer[d] => c = d

Working ==
  \A h \in Served :
    active_conn[h] <=>
      \/ \E c \in CPUs : current[c] = h /\ kpc[c] # "back"
      \/ state[h] = "READY"
      \/ state[h] = "WAITING" /\ ServedBy(h) # {}

Waits ==
  \A t \in Callers :
    /\ Blocked(t) <=> ServedBy(t) # {}
    /\ \A x, y \in ServedBy(t) : x = y

(* A CPU that is leaving the stack of a blocked caller does so for the      *)
(* passive thread that serves it.                                           *)
Leaving ==
  \A c \in CPUs : LET p == prev[current[c]]
                  IN kpc[c] \in Switching /\ state[p] = "WAITING" =>
                       /\ p \in Callers
                       /\ current[c] \in ServedBy(p)

IpcInv ==
  /\ IpcType /\ HandOver /\ Placed
  /\ AtStep /\ Registers /\ Calls /\ Working /\ Waits /\ Leaving

-----------------------------------------------------------------------------
(* The kinds of threads.                                                    *)
LEMMA Names ==
  /\ Threads \intersect CPUs = {} /\ AllThreads = Threads \union CPUs
  /\ Callers \subseteq Threads /\ Clients \subseteq Callers
  /\ Served \subseteq Handlers /\ Handlers \subseteq Threads
  /\ register_cb \in Threads /\ register_cb \notin Callers /\ register_cb \notin Handlers
  /\ Clients \intersect Handlers = {}
  /\ \A t \in Callers : t \in Handlers => t \in Served
  /\ \A t \in Callers : t \notin Clients => t \in Served
BY SchedAssumption, KernelIpcAssumption, Zenon DEF AllThreads, Callers, Served

(* What the scheduler relies on holds in the larger state.                  *)
LEMMA TypeIsSched == IpcType /\ HandOver /\ Placed => SchedInv
BY Zenon DEF IpcType, TypeOK, SchedInv, SchedType

(* A thread that runs does not wait: nobody is to return to it.             *)
LEMMA RunningUnserved ==
  ASSUME IpcInv, NEW t \in Callers, state[t] # "WAITING"
  PROVE  ServedBy(t) = {}
BY Zenon DEF IpcInv, Waits, Blocked

(* Who serves a thread, before and after a step.                            *)
LEMMA ServedIs ==
  /\ \A t, x : x \in ServedBy(t) <=>
       \/ x \in Handlers /\ active_conn[x] /\ client[x] = t
       \/ x = register_cb /\ building = t
       \/ x \in CPUs /\ kpc[x] = "back" /\ peer[x] = t
  /\ \A t, x : x \in ServedBy(t)' <=>
       \/ x \in Handlers /\ active_conn'[x] /\ client'[x] = t
       \/ x = register_cb /\ building' = t
       \/ x \in CPUs /\ kpc'[x] = "back" /\ peer'[x] = t
BY ZenonT(60) DEF ServedBy

(* A step that opens and closes no call leaves who serves whom.             *)
LEMMA ServedFrame ==
  ASSUME active_conn' = active_conn, client' = client, building' = building,
         \A c \in CPUs : /\ kpc'[c] = "back" <=> kpc[c] = "back"
                         /\ kpc[c] = "back" => peer'[c] = peer[c]
  PROVE  \A t : ServedBy(t)' = ServedBy(t)
<1>1. \A t, x : x \in ServedBy(t)' <=> x \in ServedBy(t)
  BY ServedIs, SMTT(30)
<1> QED BY <1>1, SMTT(30)

(* Steps that neither move a thread nor touch a connection.                 *)
LEMMA QuietStep ==
  ASSUME IpcInv, state' = state, current' = current, prev' = prev,
         active_conn' = active_conn, client' = client, building' = building,
         \A c \in CPUs : /\ kpc'[c] = "back" <=> kpc[c] = "back"
                         /\ kpc[c] = "back" => peer'[c] = peer[c]
                         /\ kpc'[c] \in Switching => kpc[c] \in Switching
  PROVE  Working' /\ Waits' /\ Leaving'
<1>1. \A t : ServedBy(t)' = ServedBy(t)
  BY ServedFrame, Zenon
<1>2. \A t : Blocked(t)' <=> Blocked(t)
  BY Zenon DEF Blocked
<1>3. ASSUME NEW h \in Served
      PROVE  (active_conn[h] <=>
                \/ \E c \in CPUs : current[c] = h /\ kpc[c] # "back"
                \/ state[h] = "READY"
                \/ state[h] = "WAITING" /\ ServedBy(h) # {})'
  <2>1. /\ active_conn[h] <=>
             \/ \E c \in CPUs : current[c] = h /\ kpc[c] # "back"
             \/ state[h] = "READY"
             \/ state[h] = "WAITING" /\ ServedBy(h) # {}
        /\ ServedBy(h)' = ServedBy(h)
    BY <1>1, Zenon DEF IpcInv, Working
  <2> QED BY <2>1, Zenon
<1>4. Waits'
  BY <1>1, <1>2, Zenon DEF IpcInv, Waits
<1>5. ASSUME NEW c \in CPUs, kpc'[c] \in Switching, state'[prev'[current'[c]]] = "WAITING"
      PROVE  prev'[current'[c]] \in Callers /\ current'[c] \in ServedBy(prev[current[c]])'
  BY <1>1, <1>5, Zenon DEF IpcInv, Leaving
<1> QED BY <1>3, <1>4, <1>5, Zenon DEF Working, Leaving

(* eret_to_thread and finish_switch.                                        *)
LEMMA LeaveStep ==
  ASSUME IpcInv, NEW c \in CPUs, SwitchStep(c), UNCHANGED ipcVars
  PROVE  IpcInv'
<1>1. SchedInv'
  BY LeaveSafe, TypeIsSched, Zenon DEF IpcInv
<1>2. /\ UNCHANGED <<connected, ipc_lock, active_conn, client, register_lock, building, peer>>
      /\ UNCHANGED <<state, current, prev>>
      /\ kpc' = [kpc EXCEPT ![c] = kpc'[c]] /\ kpc[c] \in Switching /\ kpc'[c] \in {"finish", "user"}
  BY Zenon
     DEF ipcVars, SwitchStep, eret_to_thread, finish_switch, ctxVars, KGoto,
         Switching, IpcInv, IpcType
<1>3. IpcType'
  BY <1>1, <1>2, Zenon DEF SchedInv, SchedType, IpcInv, IpcType, TypeOK
<1>4. \A d \in CPUs : \A x \in {"back", "reg_spin", "call_spin"} :
        kpc'[d] = x <=> kpc[d] = x
  BY <1>2, Zenon DEF Switching, IpcInv, IpcType
<1>5. \A d \in CPUs : kpc'[d] \in Switching => kpc[d] \in Switching
  BY <1>2, Zenon DEF IpcInv, IpcType
<1>6. Working' /\ Waits' /\ Leaving'
  BY <1>2, <1>4, <1>5, QuietStep, Zenon
<1>7. AtStep' /\ Registers' /\ Calls'
  BY <1>2, <1>4, SMTT(30) DEF IpcInv, AtStep, Registers, Calls
<1> QED BY <1>1, <1>3, <1>6, <1>7, Zenon DEF IpcInv, SchedInv

(* sys_register_client takes the lock.                                      *)
LEMMA RegisterStep ==
  ASSUME IpcInv, NEW c \in CPUs, sys_register_client(c)
  PROVE  IpcInv'
<1>1. /\ UNCHANGED <<state, ks, prev, queue, current, affinity, sp>>
      /\ UNCHANGED <<connected, ipc_lock, active_conn, client, building, peer>>
      /\ kpc[c] = "user" /\ kpc' = [kpc EXCEPT ![c] = "reg_spin"]
      /\ current[c] \in Clients /\ ~register_lock /\ register_lock'
  BY Zenon DEF sys_register_client, ctxVars, KGoto
<1>2. /\ \A d \in CPUs : kpc'[d] = IF d = c THEN "reg_spin" ELSE kpc[d]
  BY <1>1, Zenon DEF IpcInv, IpcType
<1>3. IpcType' /\ Placed'
  BY <1>1, Zenon DEF IpcInv, IpcType, TypeOK, SchedTypeOK, Steps, Placed
<1>4. HandOver'
  <2>1. \A d \in CPUs : HeldBy(d)' = HeldBy(d)
    BY <1>1, SMTT(30) DEF HeldBy, Switching
  <2> QED BY <1>1, <2>1, SMTT(30) DEF IpcInv, HandOver
<1>5. Working' /\ Waits' /\ Leaving'
  BY <1>1, QuietStep, SMTT(30) DEF Switching
<1>6. AtStep' /\ Calls'
  BY <1>1, SMTT(30) DEF IpcInv, AtStep, Calls
<1>7. Registers'
  BY <1>1, SMTT(30) DEF IpcInv, AtStep, Registers
<1> QED BY <1>3, <1>4, <1>5, <1>6, <1>7, Zenon DEF IpcInv

(* sys_ipc_call takes the lock of a handler.                                *)
LEMMA CallStep ==
  ASSUME IpcInv, NEW c \in CPUs, NEW h \in Handlers, sys_ipc_call(c, h)
  PROVE  IpcInv'
<1>1. /\ UNCHANGED <<state, ks, prev, queue, current, affinity, sp>>
      /\ UNCHANGED <<connected, active_conn, client, building, register_lock>>
      /\ kpc[c] = "user" /\ kpc' = [kpc EXCEPT ![c] = "call_spin"]
      /\ peer' = [peer EXCEPT ![c] = h] /\ ipc_lock' = [ipc_lock EXCEPT ![h] = TRUE]
      /\ current[c] \in Callers /\ h \in connected /\ h \in Served /\ ~ipc_lock[h]
  BY Zenon DEF sys_ipc_call, grab_ipc_lock, ctxVars, KGoto, Callers, Served
<1>2. /\ \A d \in CPUs : /\ kpc'[d] = IF d = c THEN "call_spin" ELSE kpc[d]
                         /\ peer'[d] = IF d = c THEN h ELSE peer[d]
      /\ \A g \in Handlers : ipc_lock'[g] = IF g = h THEN TRUE ELSE ipc_lock[g]
  BY <1>1, Zenon DEF IpcInv, IpcType, TypeOK
<1>3. IpcType' /\ Placed'
  BY <1>1, Names, Zenon DEF IpcInv, IpcType, TypeOK, SchedTypeOK, Steps, Placed
<1>4. HandOver'
  <2>1. \A d \in CPUs : HeldBy(d)' = HeldBy(d)
    BY <1>1, SMTT(30) DEF HeldBy, Switching
  <2> QED BY <1>1, <1>2, <2>1, SMTT(30) DEF IpcInv, HandOver
<1>5. Working' /\ Waits' /\ Leaving'
  BY <1>1, QuietStep, SMTT(30) DEF Switching
<1>6. AtStep' /\ Registers'
  BY <1>1, <1>2, SMTT(30) DEF IpcInv, AtStep, Registers
<1>7. Calls'
  <2>1. Calls /\ AtStep
    BY Zenon DEF IpcInv
  <2>2. ~active_conn[h] /\ \A d \in CPUs : kpc[d] = "call_spin" => peer[d] # h
    BY <1>1, <2>1, Zenon DEF Calls
  <2>3. \A g \in Handlers : ipc_lock[g] => ipc_lock'[g]
    BY <1>2, Zenon
  <2>4. ASSUME NEW d \in CPUs, kpc'[d] = "call_spin"
        PROVE  ipc_lock'[peer'[d]] /\ ~active_conn[peer'[d]]
    <3>1. CASE d = c
      BY <1>2, <2>2, <3>1, Zenon
    <3>2. CASE d # c
      <4>1. kpc[d] = "call_spin" /\ peer'[d] = peer[d]
        BY <1>2, <2>4, <3>2, Zenon
      <4>2. peer[d] \in Handlers /\ ipc_lock[peer[d]] /\ ~active_conn[peer[d]]
        BY <2>1, <4>1, Names, Zenon DEF Calls, AtStep
      <4> QED BY <2>3, <4>1, <4>2, Zenon
    <3> QED BY <3>1, <3>2, Zenon
  <2>5. \A d, e \in CPUs :
          kpc'[d] = "call_spin" /\ kpc'[e] = "call_spin" /\ peer'[d] = peer'[e] => d = e
    BY <1>2, <2>1, <2>2, SMTT(30) DEF Calls
  <2>6. \A g \in Handlers : active_conn[g] => ipc_lock'[g]
    BY <2>1, <2>3, Zenon DEF Calls
  <2> QED BY <1>1, <2>1, <2>4, <2>5, SMTT(30) DEF Calls
<1> QED BY <1>3, <1>4, <1>5, <1>6, <1>7, Zenon DEF IpcInv

(* A call that fails keeps the lock.                                        *)
LEMMA FailStep ==
  ASSUME IpcInv, NEW c \in CPUs, ipc_send_cap_fails(c)
  PROVE  IpcInv'
<1>1. /\ UNCHANGED <<state, ks, prev, queue, current, affinity, sp>>
      /\ UNCHANGED <<connected, active_conn, client, building, register_lock, ipc_lock>>
      /\ kpc[c] = "call_spin" /\ kpc' = [kpc EXCEPT ![c] = "user"]
      /\ peer' = [peer EXCEPT ![c] = c]
  BY Zenon DEF ipc_send_cap_fails, ctxVars, KGoto
<1>2. /\ \A d \in CPUs : /\ kpc'[d] = IF d = c THEN "user" ELSE kpc[d]
                         /\ peer'[d] = IF d = c THEN c ELSE peer[d]
  BY <1>1, Zenon DEF IpcInv, IpcType, TypeOK
<1>3. IpcType' /\ Placed'
  BY <1>1, Names, Zenon DEF IpcInv, IpcType, TypeOK, SchedTypeOK, Steps, Placed
<1>4. HandOver'
  <2>1. \A d \in CPUs : HeldBy(d)' = HeldBy(d)
    BY <1>1, SMTT(30) DEF HeldBy, Switching
  <2> QED BY <1>1, <2>1, SMTT(30) DEF IpcInv, HandOver
<1>5. Working' /\ Waits' /\ Leaving'
  BY <1>1, QuietStep, SMTT(30) DEF Switching
<1>6. AtStep' /\ Registers' /\ Calls'
  BY <1>1, <1>2, SMTT(30) DEF IpcInv, AtStep, Registers, Calls
<1> QED BY <1>3, <1>4, <1>5, <1>6, Zenon DEF IpcInv
(* A caller that gives its CPU to a passive thread with a free stack.       *)
LEMMA BlockFacts ==
  ASSUME IpcInv, NEW c \in CPUs, NEW h \in Handlers \union {register_cb},
         kpc[c] \in {"reg_spin", "call_spin"}, ks[h] = "FREE", state[h] # "READY", Block(c, h)
  PROVE  /\ SchedInv' /\ peer' = [peer EXCEPT ![c] = c]
         /\ current[c] \in Callers /\ current[c] # h /\ state[current[c]] = "RUNNING"
         /\ \A t \in AllThreads : state'[t] = IF t = h THEN "RUNNING"
                                              ELSE IF t = current[c] THEN "WAITING"
                                              ELSE state[t]
         /\ current'[c] = h /\ prev'[h] = current[c] /\ kpc'[c] = "eret"
         /\ \A d \in CPUs : d # c =>
              /\ current'[d] = current[d] /\ kpc'[d] = kpc[d]
              /\ prev'[current[d]] = prev[current[d]]
              /\ {current[c], h} \intersect HeldBy(d) = {}
         /\ \A d \in CPUs : current[d] # h
<1> DEFINE old == current[c]
           st == [state EXCEPT ![old] = "WAITING"]
<1>1. /\ switch_to_thread(c, h, st) /\ peer' = [peer EXCEPT ![c] = c] /\ KGoto(c, "eret")
      /\ queue' = queue /\ affinity' = affinity /\ sp' = sp
  BY Zenon DEF Block
<1>2. SchedInv /\ SchedType /\ HandOver /\ Placed /\ kpc[c] \notin Switching
  BY TypeIsSched, Zenon DEF IpcInv, SchedInv, Switching
<1>3. h \in AllThreads /\ h \in Threads /\ h \notin CPUs /\ old \in Callers
  BY Names, Zenon DEF IpcInv, AtStep
<1>4. \A d \in CPUs : h \notin HeldBy(d)
  BY <1>2, Zenon DEF HandOver
<1>5. \A d \in CPUs : current[d] # h
  BY <1>4, Zenon DEF HeldBy
<1>6. /\ current'[c] = h /\ prev'[h] = current[c] /\ kpc'[c] = "eret"
      /\ \A d \in CPUs : d # c =>
           /\ current'[d] = current[d] /\ kpc'[d] = kpc[d]
           /\ prev'[current[d]] = prev[current[d]]
           /\ {current[c], h} \intersect HeldBy(d) = {}
  BY <1>1, <1>2, <1>3, <1>4, SwitchFacts, Zenon
<1>7. HandOver'
  BY <1>1, <1>2, <1>3, <1>4, SwitchSafe, Zenon
<1>8. state \in [AllThreads -> ThreadStates] /\ old \in AllThreads /\ state[old] = "RUNNING"
  BY <1>2, Zenon DEF SchedType, SchedTypeOK, Placed
<1>9. \A t \in AllThreads : state'[t] = IF t = h THEN "RUNNING"
                                       ELSE IF t = old THEN "WAITING" ELSE state[t]
  BY <1>1, <1>8, Zenon DEF switch_to_thread
<1>10. SchedType'
  BY <1>1, <1>2, <1>3, Zenon
     DEF switch_to_thread, KGoto, SchedType, SchedTypeOK, ThreadStates, Steps,
         Switching
<1>11. Placed'
  <2>1. Ready(state') = Ready(state)
    BY <1>8, <1>9, Names, Zenon DEF Ready
  <2>2. \A d \in CPUs : d # c => current[d] # old /\ current[d] \in AllThreads
    BY <1>2, <1>6, Zenon DEF HeldBy, SchedType, SchedTypeOK
  <2>3. \A d \in CPUs : state'[current'[d]] = "RUNNING"
    BY <1>2, <1>3, <1>6, <1>9, <2>2, SMTT(30) DEF Placed
  <2> QED BY <1>1, <1>2, <2>1, <2>3, Zenon DEF Placed
<1> QED BY <1>1, <1>3, <1>5, <1>6, <1>7, <1>8, <1>9, <1>10, <1>11, Zenon DEF SchedInv
(* register_migrate: the client waits for the registration thread.          *)
LEMMA RegisterMigrateStep ==
  ASSUME IpcInv, NEW c \in CPUs, register_migrate(c)
  PROVE  IpcInv'
<1> DEFINE r == register_cb
<1>o. PICK old : old = current[c]
  OBVIOUS
<1>1. /\ UNCHANGED <<connected, ipc_lock, active_conn, client, register_lock>>
      /\ kpc[c] = "reg_spin" /\ ks[r] = "FREE" /\ building' = old /\ Block(c, r)
  BY <1>o, Zenon DEF register_migrate, client_connection
<1>2. /\ AtStep /\ Registers /\ Calls /\ Working /\ Waits /\ Leaving
      /\ old \in Clients /\ building = r /\ register_lock /\ state[r] # "READY"
  BY <1>1, <1>o, Zenon DEF IpcInv, AtStep, Registers
<1>3. /\ SchedInv' /\ peer' = [peer EXCEPT ![c] = c]
      /\ old \in Callers /\ old # r /\ state[old] = "RUNNING"
      /\ \A t \in AllThreads : state'[t] = IF t = r THEN "RUNNING"
                                           ELSE IF t = old THEN "WAITING" ELSE state[t]
      /\ current'[c] = r /\ prev'[r] = old /\ kpc'[c] = "eret"
      /\ \A d \in CPUs : d # c =>
           /\ current'[d] = current[d] /\ kpc'[d] = kpc[d]
           /\ prev'[current[d]] = prev[current[d]]
           /\ {old, r} \intersect HeldBy(d) = {}
      /\ \A d \in CPUs : current[d] # r
  BY <1>1, <1>2, <1>o, BlockFacts, SMTT(30)
<1>4. /\ \A d \in CPUs : d # c => peer'[d] = peer[d]
      /\ old \in Threads /\ old \in AllThreads /\ r \in AllThreads /\ old \notin Handlers
      /\ \A d \in CPUs : d # c => current[d] # old
  <2>1. \A d \in CPUs : d # c => peer'[d] = peer[d]
    BY <1>3, Zenon DEF IpcInv, IpcType, TypeOK
  <2>2. \A d \in CPUs : d # c => current[d] # old
    BY <1>3, Zenon DEF HeldBy
  <2>3. old \in Threads /\ old \in AllThreads /\ r \in AllThreads /\ old \notin Handlers
    BY <1>2, Names, Zenon
  <2> QED BY <2>1, <2>2, <2>3, Zenon
<1>5. ServedBy(old) = {}
  BY <1>3, RunningUnserved, Zenon
<1>6. \A t : t # old /\ t # r => ServedBy(t)' = ServedBy(t)
  <2>1. ASSUME NEW t, NEW x, t # old, t # r PROVE x \in ServedBy(t)' <=> x \in ServedBy(t)
    BY <1>1, <1>2, <1>3, <2>1, ServedIs, SMTT(30)
  <2> QED BY <2>1, SMTT(30)
<1>7. ServedBy(old)' = {r}
  <2>1. ASSUME NEW x PROVE x \in ServedBy(old)' <=> x = r
    BY <1>1, <1>3, <1>4, <1>5, ServedIs, SMTT(30)
  <2> QED BY <2>1, Zenon
<1>8. IpcType'
  BY <1>1, <1>3, <1>4, Names, Zenon DEF SchedInv, SchedType, IpcInv, IpcType, TypeOK
<1>9. AtStep'
  BY <1>1, <1>2, <1>3, <1>4, SMTT(30) DEF AtStep
<1>10. Registers'
  BY <1>1, <1>2, <1>3, SMTT(30) DEF Registers
<1>11. Calls'
  <2>1. \A h \in Handlers : state'[h] = state[h]
    BY <1>3, <1>4, Names, ZenonT(60)
  <2>2. \A d \in CPUs : kpc'[d] = "call_spin" => d # c /\ kpc[d] = "call_spin" /\ peer'[d] = peer[d]
    BY <1>3, <1>4, Zenon
  <2> QED BY <1>1, <1>2, <2>1, <2>2, SMTT(30) DEF Calls
<1>12. Working'
  <2> SUFFICES ASSUME NEW h \in Served
               PROVE  (active_conn[h] <=>
                        \/ \E d \in CPUs : current[d] = h /\ kpc[d] # "back"
                        \/ state[h] = "READY"
                        \/ state[h] = "WAITING" /\ ServedBy(h) # {})'
    BY Zenon DEF Working
  <2>1. h # old /\ h # r /\ state'[h] = state[h] /\ ServedBy(h)' = ServedBy(h)
    BY <1>3, <1>4, <1>6, Names, SMTT(30)
  <2>2. (\E d \in CPUs : current[d] = h /\ kpc[d] # "back") <=>
          (\E d \in CPUs : current'[d] = h /\ kpc'[d] # "back")
    BY <1>3, <1>o, <2>1, SMTT(30)
  <2> QED BY <1>1, <1>2, <2>1, <2>2, Zenon DEF Working
<1>13. Waits'
  <2> SUFFICES ASSUME NEW t \in Callers
               PROVE  (Blocked(t) <=> ServedBy(t) # {})' /\ (\A x, y \in ServedBy(t) : x = y)'
    BY Zenon DEF Waits
  <2>1. CASE t = old
    BY <1>2, <1>3, <1>4, <1>7, <2>1, Zenon DEF Blocked
  <2>2. CASE t # old
    <3>1. t # r /\ ServedBy(t)' = ServedBy(t) /\ state'[t] = state[t] /\ active_conn' = active_conn
      BY <1>1, <1>3, <1>6, <2>2, Names, Zenon
    <3> QED BY <1>2, <3>1, SMTT(30) DEF Waits, Blocked
  <2> QED BY <2>1, <2>2, Zenon
<1>14. Leaving'
  <2> SUFFICES ASSUME NEW d \in CPUs, kpc'[d] \in Switching, NEW p, p = prev'[current'[d]],
                      state'[p] = "WAITING"
               PROVE  p \in Callers /\ current'[d] \in ServedBy(p)'
    BY Zenon DEF Leaving
  <2>1. CASE d = c
    BY <1>3, <1>7, <2>1, Zenon
  <2>2. CASE d # c
    <3>1. p = prev[current[d]] /\ kpc[d] \in Switching /\ p \in HeldBy(d)
      BY <1>3, <2>2, Zenon DEF HeldBy
    <3>2. p # old /\ p # r /\ p \in AllThreads
      BY <1>3, <2>2, <3>1, SMTT(30) DEF IpcInv, IpcType, TypeOK, SchedTypeOK
    <3>3. state[p] = "WAITING" /\ ServedBy(p)' = ServedBy(p)
      BY <1>3, <1>6, <3>2, Zenon
    <3> QED BY <1>2, <1>3, <2>2, <3>3, SMTT(30) DEF Leaving
  <2> QED BY <2>1, <2>2, Zenon
<1> QED BY <1>3, <1>8, <1>9, <1>10, <1>11, <1>12, <1>13, <1>14, Zenon
      DEF IpcInv, SchedInv
(* thread_migrate_to_server: the caller waits for the handler.              *)
LEMMA MigrateStep ==
  ASSUME IpcInv, NEW c \in CPUs, thread_migrate_to_server(c)
  PROVE  IpcInv'
<1>o. PICK old, h : old = current[c] /\ h = peer[c]
  OBVIOUS
<1>1. /\ UNCHANGED <<connected, ipc_lock, building, register_lock>>
      /\ kpc[c] = "call_spin" /\ ks[h] = "FREE" /\ Block(c, h)
      /\ active_conn' = [active_conn EXCEPT ![h] = TRUE]
      /\ client' = [client EXCEPT ![h] = old]
  BY <1>o, Zenon DEF thread_migrate_to_server, StackFree
<1>2. AtStep /\ Registers /\ Calls /\ Working /\ Waits /\ Leaving
  BY Zenon DEF IpcInv
<1>3. /\ h \in Served /\ h \in Handlers /\ h \in connected /\ ~active_conn[h] /\ ipc_lock[h]
      /\ state[h] # "READY"
  BY <1>1, <1>2, <1>o, Names, Zenon DEF AtStep, Calls, Working
<1>4. /\ SchedInv' /\ peer' = [peer EXCEPT ![c] = c]
      /\ old \in Callers /\ old # h /\ state[old] = "RUNNING"
      /\ \A t \in AllThreads : state'[t] = IF t = h THEN "RUNNING"
                                           ELSE IF t = old THEN "WAITING" ELSE state[t]
      /\ current'[c] = h /\ prev'[h] = old /\ kpc'[c] = "eret"
      /\ \A d \in CPUs : d # c =>
           /\ current'[d] = current[d] /\ kpc'[d] = kpc[d]
           /\ prev'[current[d]] = prev[current[d]]
           /\ {old, h} \intersect HeldBy(d) = {}
      /\ \A d \in CPUs : current[d] # h
  BY <1>1, <1>3, <1>o, BlockFacts, SMTT(30)
<1>5. /\ \A d \in CPUs : d # c => peer'[d] = peer[d] /\ current[d] # old
      /\ \A g \in Handlers : /\ active_conn'[g] <=> (g = h \/ active_conn[g])
                            /\ client'[g] = IF g = h THEN old ELSE client[g]
      /\ old \in Threads /\ old \in AllThreads /\ h \in AllThreads /\ old # register_cb
  <2>1. \A d \in CPUs : d # c => peer'[d] = peer[d]
    BY <1>4, SMTT(30) DEF IpcInv, IpcType
  <2>2. \A d \in CPUs : d # c => current[d] # old
    BY <1>4, Zenon DEF HeldBy
  <2>3. /\ old \in Threads /\ old \in AllThreads /\ h \in AllThreads /\ old # register_cb
    BY <1>3, <1>4, Names, Zenon
  <2>4. \A g \in Handlers : active_conn'[g] <=> (g = h \/ active_conn[g])
    BY <1>1, Zenon DEF IpcInv, IpcType, TypeOK
  <2>5. \A g \in Handlers : client'[g] = IF g = h THEN old ELSE client[g]
    BY <1>1, Zenon DEF IpcInv, IpcType, TypeOK
  <2> QED BY <2>1, <2>2, <2>3, <2>4, <2>5, Zenon
<1>6. ServedBy(old) = {}
  BY <1>4, RunningUnserved, Zenon
<1>7. \A t : t # old => ServedBy(t)' = ServedBy(t)
  <2>1. ASSUME NEW t, NEW x, t # old PROVE x \in ServedBy(t)' <=> x \in ServedBy(t)
    BY <1>1, <1>3, <1>4, <1>5, <2>1, ServedIs, SMTT(30)
  <2> QED BY <2>1, SMTT(30)
<1>8. ServedBy(old)' = {h}
  <2>1. ASSUME NEW x PROVE x \in ServedBy(old)' <=> x = h
    BY <1>1, <1>3, <1>4, <1>5, <1>6, ServedIs, SMTT(30)
  <2> QED BY <2>1, Zenon
<1>9. IpcType'
  BY <1>1, <1>4, Names, Zenon DEF SchedInv, SchedType, IpcInv, IpcType, TypeOK
<1>10. AtStep'
  BY <1>1, <1>2, <1>4, SMTT(30) DEF AtStep
<1>11. Registers'
  <2>1. /\ state'[register_cb] = state[register_cb] /\ h # register_cb
        /\ \A d \in CPUs : kpc'[d] = "reg_spin" <=> kpc[d] = "reg_spin"
    BY <1>1, <1>3, <1>4, Names, ZenonT(60)
  <2>2. (\E d \in CPUs : current[d] = register_cb /\ kpc[d] # "back") <=>
          (\E d \in CPUs : current'[d] = register_cb /\ kpc'[d] # "back")
    BY <1>4, <1>5, <1>o, <2>1, SMTT(30)
  <2> QED BY <1>1, <1>2, <2>1, <2>2, Zenon DEF Registers
<1>12. old \in Handlers => old \in Served /\ active_conn[old] /\ old \in connected
  BY <1>1, <1>2, <1>4, <1>o, Names, Zenon DEF Working, Calls
<1>13. Calls'
  <2>1. \A g \in Handlers \ connected : state'[g] = state[g] /\ g # h
    BY <1>3, <1>4, <1>12, Names, SMTT(30)
  <2>2. \A d \in CPUs : kpc'[d] = "call_spin" =>
          d # c /\ kpc[d] = "call_spin" /\ peer'[d] = peer[d] /\ peer[d] # h /\ peer[d] \in Handlers
    <3> SUFFICES ASSUME NEW d \in CPUs, kpc'[d] = "call_spin"
                 PROVE  /\ d # c /\ kpc[d] = "call_spin" /\ peer'[d] = peer[d]
                        /\ peer[d] # h /\ peer[d] \in Handlers
      OBVIOUS
    <3>1. d # c
      BY <1>4, SMTT(30)
    <3>2. kpc[d] = "call_spin" /\ peer'[d] = peer[d]
      BY <1>4, <1>5, <3>1, Zenon
    <3>3. peer[d] # h
      BY <1>1, <1>2, <1>o, <3>1, <3>2, Zenon DEF Calls
    <3>4. peer[d] \in Handlers
      BY <1>2, <3>2, Names, Zenon DEF AtStep
    <3> QED BY <3>1, <3>2, <3>3, <3>4, SMTT(30)
  <2>3. \A g \in Handlers \ connected : state'[g] = "WAITING" /\ ~active_conn'[g]
    BY <1>2, <1>5, <2>1, Zenon DEF Calls
  <2>4. \A g \in Handlers : active_conn'[g] => g \in Served /\ ipc_lock[g] /\ client'[g] \in Callers
    <3>1. old \in Callers
      BY <1>4, SMTT(30)
    <3> QED BY <1>2, <1>3, <1>5, <3>1, ZenonT(60) DEF Calls
  <2>5. \A d \in CPUs : kpc'[d] = "call_spin" => ipc_lock[peer'[d]] /\ ~active_conn'[peer'[d]]
    BY <1>2, <1>5, <2>2, SMTT(30) DEF Calls
  <2>6. \A d, e \in CPUs :
          kpc'[d] = "call_spin" /\ kpc'[e] = "call_spin" /\ peer'[d] = peer'[e] => d = e
    BY <1>2, <2>2, SMTT(30) DEF Calls
  <2> QED BY <1>1, <2>3, <2>4, <2>5, <2>6, ZenonT(60) DEF Calls
<1>14. Working'
  <2> SUFFICES ASSUME NEW g \in Served
               PROVE  (active_conn[g] <=>
                        \/ \E d \in CPUs : current[d] = g /\ kpc[d] # "back"
                        \/ state[g] = "READY"
                        \/ state[g] = "WAITING" /\ ServedBy(g) # {})'
    BY Zenon DEF Working
  <2>1. CASE g = h
    <3>1. active_conn'[g] /\ current'[c] = g /\ kpc'[c] # "back"
      BY <1>3, <1>4, <1>5, <2>1, Zenon
    <3> QED BY <3>1, Zenon
  <2>2. CASE g = old
    <3>1. active_conn'[g] /\ state'[g] = "WAITING" /\ ServedBy(g)' # {}
      BY <1>4, <1>5, <1>8, <1>12, <2>2, Names, Zenon
    <3> QED BY <3>1, Zenon
  <2>3. CASE g # h /\ g # old
    <3>1. /\ state'[g] = state[g] /\ ServedBy(g)' = ServedBy(g)
          /\ active_conn'[g] <=> active_conn[g]
      BY <1>4, <1>5, <1>7, <2>3, Names, Zenon
    <3>2. (\E d \in CPUs : current[d] = g /\ kpc[d] # "back") <=>
            (\E d \in CPUs : current'[d] = g /\ kpc'[d] # "back")
      BY <1>4, <1>o, <2>3, ZenonT(60)
    <3> QED BY <1>2, <3>1, <3>2, Zenon DEF Working
  <2> QED BY <2>1, <2>2, <2>3, Zenon
<1>15. Waits'
  <2> SUFFICES ASSUME NEW t \in Callers
               PROVE  (Blocked(t) <=> ServedBy(t) # {})' /\ (\A x, y \in ServedBy(t) : x = y)'
    BY Zenon DEF Waits
  <2>1. CASE t = old
    <3>1. t \in Clients \/ active_conn'[t]
      BY <1>5, <1>12, <2>1, Names, Zenon
    <3> QED BY <1>4, <1>5, <1>8, <2>1, <3>1, Zenon DEF Blocked
  <2>2. CASE t = h
    <3>1. ~Blocked(t) /\ ~Blocked(t)'
      BY <1>3, <1>4, <1>5, <2>2, Names, Zenon DEF Blocked
    <3> QED BY <1>2, <1>4, <1>7, <2>2, <3>1, SMTT(30) DEF Waits
  <2>3. CASE t # old /\ t # h
    <3>1. /\ ServedBy(t)' = ServedBy(t) /\ state'[t] = state[t]
          /\ t \in Clients \/ (active_conn'[t] <=> active_conn[t])
      BY <1>4, <1>5, <1>7, <2>3, Names, Zenon
    <3> QED BY <1>2, <3>1, SMTT(30) DEF Waits, Blocked
  <2> QED BY <2>1, <2>2, <2>3, Zenon
<1>16. Leaving'
  <2> SUFFICES ASSUME NEW d \in CPUs, kpc'[d] \in Switching, NEW p, p = prev'[current'[d]],
                      state'[p] = "WAITING"
               PROVE  p \in Callers /\ current'[d] \in ServedBy(p)'
    BY Zenon DEF Leaving
  <2>1. CASE d = c
    BY <1>4, <1>8, <2>1, ZenonT(60)
  <2>2. CASE d # c
    <3>1. p = prev[current[d]] /\ kpc[d] \in Switching /\ p \in HeldBy(d)
      BY <1>4, <2>2, ZenonT(60) DEF HeldBy
    <3>2. p # old /\ p # h /\ p \in AllThreads
      BY <1>4, <2>2, <3>1, SMTT(30) DEF IpcInv, IpcType, TypeOK, SchedTypeOK
    <3>3. state[p] = "WAITING" /\ ServedBy(p)' = ServedBy(p)
      BY <1>4, <1>7, <3>2, Zenon
    <3> QED BY <1>2, <1>4, <2>2, <3>1, <3>3, SMTT(30) DEF Leaving
  <2> QED BY <2>1, <2>2, Zenon
<1> QED BY <1>4, <1>9, <1>10, <1>11, <1>13, <1>14, <1>15, <1>16, Zenon
      DEF IpcInv, SchedInv

(* sys_ipc_register_cb_return: the connection is complete, and the CPU is   *)
(* about to return to the client that asked for it.                         *)
LEMMA CbReturnStep ==
  ASSUME IpcInv, NEW c \in CPUs, NEW h \in Handlers, sys_ipc_register_cb_return(c, h)
  PROVE  IpcInv'
<1> DEFINE r == register_cb
<1>o. PICK b : b = building
  OBVIOUS
<1>1. /\ UNCHANGED <<ks, prev, current, sp, ipc_lock, active_conn, client>>
      /\ kpc[c] = "user" /\ current[c] = r /\ h \notin connected
      /\ connected' = connected \union {h} /\ peer' = [peer EXCEPT ![c] = b]
      /\ building' = r /\ register_lock' = FALSE /\ kpc' = [kpc EXCEPT ![c] = "back"]
  BY <1>o, Zenon DEF sys_ipc_register_cb_return, KGoto
<1>2. AtStep /\ Registers /\ Calls /\ Working /\ Waits /\ Leaving /\ Placed /\ HandOver
  BY Zenon DEF IpcInv
<1>3. /\ b # r /\ b \in Clients /\ b \in Callers /\ \A d \in CPUs : kpc[d] # "reg_spin"
      /\ state[h] = "WAITING" /\ state[r] = "RUNNING"
  BY <1>1, <1>2, <1>o, Names, Zenon DEF Registers, Calls, Placed
<1>4. \A d \in CPUs : /\ kpc'[d] = IF d = c THEN "back" ELSE kpc[d]
                      /\ peer'[d] = IF d = c THEN b ELSE peer[d]
  BY <1>1, Zenon DEF IpcInv, IpcType, TypeOK
<1>5. \A d \in CPUs : d # c => current[d] # r
  BY <1>1, <1>2, Zenon DEF HandOver, HeldBy
<1>6. ServedBy(b) = {r}
  <2>1. r \in ServedBy(b)
    BY <1>o, ServedIs, Zenon
  <2>2. \A x, y \in ServedBy(b) : x = y
    BY <1>2, <1>3, Zenon DEF Waits
  <2> QED BY <2>1, <2>2, SMTT(30)
<1>7. ServedBy(b)' = {c}
  <2>1. ASSUME NEW x PROVE x \in ServedBy(b)' <=> x = c
    <3>1. ~(x \in Handlers /\ active_conn[x] /\ client[x] = b)
      BY <1>6, ServedIs, Names, SMTT(30)
    <3>2. ~(x \in CPUs /\ kpc[x] = "back" /\ peer[x] = b)
      <4>1. x \in ServedBy(b) => x = r
        BY <1>6, SMTT(30)
      <4>2. r \notin CPUs
        BY Names, SMTT(30)
      <4> QED BY <4>1, <4>2, ServedIs, Zenon
    <3> QED BY <1>1, <1>3, <1>4, <3>1, <3>2, ServedIs, SMTT(30)
  <2> QED BY <2>1, Zenon
<1>8. \A t : t # b /\ t # r => ServedBy(t)' = ServedBy(t)
  <2>1. ASSUME NEW t, NEW x, t # b, t # r PROVE x \in ServedBy(t)' <=> x \in ServedBy(t)
    BY <1>1, <1>4, <1>o, <2>1, ServedIs, SMTT(30)
  <2> QED BY <2>1, SMTT(30)
<1>9. /\ affinity' \in [Threads -> CPUs \union {NO_AFF}]
      /\ state' \in [AllThreads -> ThreadStates]
      /\ \A t \in AllThreads : state'[t] = state[t] \/ (t = h /\ h \in FlexHandlers)
      /\ state'[h] # "RUNNING" /\ Queues(queue', Ready(state'))
  <2>0. /\ affinity \in [Threads -> CPUs \union {NO_AFF}] /\ state \in [AllThreads -> ThreadStates]
        /\ h \in Threads /\ h \in AllThreads /\ h \notin CPUs /\ Queues(queue, Ready(state))
    BY Names, Zenon DEF IpcInv, IpcType, TypeOK, SchedTypeOK, Placed
  <2>1. CASE h \notin FlexHandlers
    <3>1. UNCHANGED <<affinity, queue, state>>
      BY <2>1, Zenon DEF sys_ipc_register_cb_return
    <3> QED BY <1>3, <2>0, <3>1, Zenon
  <2>2. CASE h \in FlexHandlers
    <3>1. PICK next : next = (c + 1) % PLAT_CPU_NUM
      OBVIOUS
    <3>2. next \in CPUs
      BY <3>1, SchedAssumption, SMTT(30) DEF CPUs
    <3>3. /\ affinity' = [affinity EXCEPT ![h] = next]
          /\ queue' = [queue EXCEPT ![next] = Append(@, h)]
          /\ state' = [state EXCEPT ![h] = "READY"]
      BY <2>0, <2>2, <3>1, Zenon DEF sys_ipc_register_cb_return, EnqueuedState
    <3>4. h \notin Ready(state)
      BY <1>3, Zenon DEF Ready
    <3>5. Ready(state') = Ready(state) \union {h}
      BY <2>0, <3>3, Names, Zenon DEF Ready
    <3>6. Queues([queue EXCEPT ![next] = Append(@, h)], Ready(state) \union {h})
      BY <2>0, <3>2, <3>4, EnqueueQueues, Zenon
    <3>7. Queues(queue', Ready(state'))
      BY <3>3, <3>5, <3>6, Zenon
    <3>8. /\ affinity' \in [Threads -> CPUs \union {NO_AFF}] /\ state' \in [AllThreads -> ThreadStates]
      BY <2>0, <3>2, <3>3, Zenon DEF ThreadStates
    <3> QED BY <2>2, <3>3, <3>7, <3>8, SMTT(30)
  <2> QED BY <2>1, <2>2, Zenon
<1>10. /\ \A t \in Callers : state'[t] = state[t]
       /\ \A t \in Served : state'[t] = state[t]
       /\ state'[r] = state[r]
       /\ \A t \in Handlers : t # h => state'[t] = state[t]
  <2>1. \A t \in Callers \union Served \union {r} : t \notin FlexHandlers /\ t \in AllThreads
    BY Names, KernelIpcAssumption, Zenon DEF Served, Callers
  <2> QED BY <1>9, <2>1, Names, ZenonT(60)
<1>11. Placed'
  <2>1. \A d \in CPUs : state'[current'[d]] = "RUNNING"
    <3>1. \A d \in CPUs : current[d] \in AllThreads /\ current[d] # h
      BY <1>3, Zenon DEF IpcInv, IpcType, TypeOK, SchedTypeOK, Placed
    <3> QED BY <1>1, <1>2, <1>9, <3>1, Zenon DEF Placed
  <2> QED BY <1>9, <2>1, Zenon DEF Placed
<1>12. HandOver'
  <2>1. \A d \in CPUs : HeldBy(d)' = HeldBy(d)
    BY <1>1, SMTT(30) DEF HeldBy, Switching
  <2> QED BY <1>1, <1>2, <1>4, <2>1, SMTT(30) DEF HandOver
<1>13. IpcType'
  <2>1. queue' \in [CPUs -> Seq(Threads)]
    BY <1>9, Zenon DEF Queues
  <2>2. peer' \in [CPUs -> AllThreads] /\ kpc' \in [CPUs -> Steps] /\ connected' \subseteq Handlers
    BY <1>1, <1>3, Names, Zenon DEF IpcInv, IpcType, TypeOK, Steps
  <2> QED BY <1>1, <1>9, <2>1, <2>2, Names, Zenon
        DEF IpcInv, IpcType, TypeOK, SchedTypeOK
<1>14. AtStep'
  BY <1>1, <1>2, <1>3, <1>4, SMTT(30) DEF AtStep
<1>15. Registers'
  BY <1>1, <1>3, <1>4, <1>5, <1>10, SMTT(30) DEF Registers
<1>16. Calls'
  <2>1. \A g \in Handlers \ connected' : state'[g] = "WAITING" /\ ~active_conn[g]
    BY <1>1, <1>2, <1>10, Zenon DEF Calls
  <2>2. \A d \in CPUs : kpc'[d] = "call_spin" => kpc[d] = "call_spin" /\ peer'[d] = peer[d]
    BY <1>4, ZenonT(60)
  <2> QED BY <1>1, <1>2, <2>1, <2>2, SMTT(30) DEF Calls
<1>17. Working'
  <2> SUFFICES ASSUME NEW g \in Served
               PROVE  (active_conn[g] <=>
                        \/ \E d \in CPUs : current[d] = g /\ kpc[d] # "back"
                        \/ state[g] = "READY"
                        \/ state[g] = "WAITING" /\ ServedBy(g) # {})'
    BY Zenon DEF Working
  <2>1. g # r /\ state'[g] = state[g] /\ ServedBy(g)' = ServedBy(g)
    BY <1>3, <1>8, <1>10, Names, Zenon
  <2>2. (\E d \in CPUs : current[d] = g /\ kpc[d] # "back") <=>
          (\E d \in CPUs : current'[d] = g /\ kpc'[d] # "back")
    BY <1>1, <2>1, SMTT(30)
  <2> QED BY <1>1, <1>2, <2>1, SMTT(30) DEF Working
<1>18. Waits'
  <2> SUFFICES ASSUME NEW t \in Callers
               PROVE  (Blocked(t) <=> ServedBy(t) # {})' /\ (\A x, y \in ServedBy(t) : x = y)'
    BY Zenon DEF Waits
  <2>0. Blocked(t)' <=> Blocked(t)
    BY <1>1, <1>10, Zenon DEF Blocked
  <2>1. CASE t = b
    BY <1>2, <1>6, <1>7, <2>0, <2>1, Zenon DEF Waits
  <2>2. CASE t # b
    <3>1. ServedBy(t)' = ServedBy(t)
      BY <1>8, <2>2, Names, Zenon
    <3> QED BY <1>2, <2>0, <3>1, ZenonT(60) DEF Waits
  <2> QED BY <2>1, <2>2, Zenon
<1>19. Leaving'
  <2> SUFFICES ASSUME NEW d \in CPUs, kpc'[d] \in Switching, NEW p, p = prev[current[d]],
                      state'[p] = "WAITING"
               PROVE  p \in Callers /\ current[d] \in ServedBy(p)'
    BY <1>1, Zenon DEF Leaving
  <2>1. d # c /\ kpc[d] \in Switching /\ p \in HeldBy(d) /\ p \in AllThreads
    BY <1>4, Zenon DEF Switching, HeldBy, IpcInv, IpcType, TypeOK, SchedTypeOK
  <2>2. state[p] = "WAITING"
    BY <1>3, <1>9, <2>1, Zenon
  <2>3. p \in Callers /\ current[d] \in ServedBy(p)
    BY <1>2, <2>1, <2>2, Zenon DEF Leaving
  <2>4. p # b
    BY <1>5, <1>6, <2>1, <2>3, Zenon
  <2> QED BY <1>8, <2>3, <2>4, Names, Zenon
<1> QED BY <1>11, <1>12, <1>13, <1>14, <1>15, <1>16, <1>17, <1>18, <1>19, Zenon
      DEF IpcInv

(* sys_ipc_return: the handler has given its connection up.                 *)
LEMMA ReturnStep ==
  ASSUME IpcInv, NEW c \in CPUs, sys_ipc_return(c)
  PROVE  IpcInv'
<1>o. PICK h, b : h = current[c] /\ b = client[h]
  OBVIOUS
<1>1. /\ UNCHANGED <<state, ks, prev, queue, current, affinity, sp>>
      /\ UNCHANGED <<connected, client, register_lock, building>>
      /\ kpc[c] = "user" /\ h \in Served /\ active_conn[h]
      /\ active_conn' = [active_conn EXCEPT ![h] = FALSE]
      /\ ipc_lock' = [ipc_lock EXCEPT ![h] = FALSE]
      /\ peer' = [peer EXCEPT ![c] = b] /\ kpc' = [kpc EXCEPT ![c] = "back"]
  BY <1>o, Zenon DEF sys_ipc_return, KGoto, ctxVars, Served
<1>2. AtStep /\ Registers /\ Calls /\ Working /\ Waits /\ Leaving /\ Placed /\ HandOver
  BY Zenon DEF IpcInv
<1>3. h \in Handlers /\ b \in Callers /\ state[h] = "RUNNING" /\ h # register_cb
  BY <1>1, <1>2, <1>o, Names, Zenon DEF Calls, Placed
<1>4. /\ \A d \in CPUs : /\ kpc'[d] = IF d = c THEN "back" ELSE kpc[d]
                         /\ peer'[d] = IF d = c THEN b ELSE peer[d]
      /\ \A g \in Handlers : g # h => active_conn'[g] = active_conn[g] /\ ipc_lock'[g] = ipc_lock[g]
      /\ active_conn'[h] = FALSE
  BY <1>1, <1>3, Zenon DEF IpcInv, IpcType, TypeOK
<1>5. \A d \in CPUs : d # c => current[d] # h
  BY <1>2, <1>o, Zenon DEF HandOver, HeldBy
<1>6. ServedBy(b) = {h} /\ Blocked(b) /\ b # h
  <2>1. h \in ServedBy(b)
    BY <1>1, <1>3, <1>o, ServedIs, Zenon
  <2> QED BY <1>2, <1>3, <2>1, ZenonT(60) DEF Waits, Blocked
<1>7. ServedBy(b)' = {c}
  <2>1. ASSUME NEW x PROVE x \in ServedBy(b)' <=> x = c
    <3>1. ~(x \in Handlers /\ x # h /\ active_conn[x] /\ client[x] = b)
      BY <1>6, ServedIs, SMTT(30)
    <3>2. ~(x \in CPUs /\ kpc[x] = "back" /\ peer[x] = b)
      BY <1>3, <1>6, ServedIs, Names, SMTT(30)
    <3>3. building # b
      <4>1. building = b => register_cb \in ServedBy(b)
        BY ServedIs, Zenon
      <4> QED BY <1>3, <1>6, <4>1, Zenon
    <3> QED BY <1>1, <1>4, <3>1, <3>2, <3>3, ServedIs, SMTT(30)
  <2> QED BY <2>1, Zenon
<1>8. \A t : t # b => ServedBy(t)' = ServedBy(t)
  <2>1. ASSUME NEW t, NEW x, t # b PROVE x \in ServedBy(t)' <=> x \in ServedBy(t)
    BY <1>1, <1>4, <1>o, <2>1, ServedIs, SMTT(30)
  <2> QED BY <2>1, SMTT(30)
<1>9. Placed'
  BY <1>1, <1>2, Zenon DEF Placed
<1>10. HandOver'
  <2>1. \A d \in CPUs : HeldBy(d)' = HeldBy(d)
    BY <1>1, SMTT(30) DEF HeldBy, Switching
  <2> QED BY <1>1, <1>2, <2>1, SMTT(30) DEF HandOver
<1>11. IpcType'
  <2>1. /\ peer' \in [CPUs -> AllThreads] /\ kpc' \in [CPUs -> Steps]
        /\ active_conn' \in [Handlers -> BOOLEAN] /\ ipc_lock' \in [Handlers -> BOOLEAN]
    BY <1>1, <1>3, Names, ZenonT(60) DEF IpcInv, IpcType, TypeOK, Steps
  <2> QED BY <1>1, <2>1, Zenon DEF IpcInv, IpcType, TypeOK, SchedTypeOK
<1>12. AtStep'
  BY <1>1, <1>2, <1>3, <1>4, <1>o, SMTT(30) DEF AtStep
<1>13. Registers'
  <2>1. (\E d \in CPUs : current[d] = register_cb /\ kpc[d] # "back") <=>
          (\E d \in CPUs : current'[d] = register_cb /\ kpc'[d] # "back")
    BY <1>1, <1>3, <1>o, SMTT(30)
  <2>2. \A d \in CPUs : kpc'[d] = "reg_spin" <=> kpc[d] = "reg_spin"
    BY <1>1, SMTT(30)
  <2> QED BY <1>1, <1>2, <2>1, SMTT(30) DEF Registers
<1>14. Calls'
  <2>1. \A d \in CPUs : kpc'[d] = "call_spin" =>
          kpc[d] = "call_spin" /\ peer'[d] = peer[d] /\ peer[d] \in Handlers /\ peer[d] # h
    BY <1>1, <1>2, Names, SMTT(30) DEF Calls, AtStep
  <2>2. \A g \in Handlers : active_conn'[g] => g # h /\ active_conn[g]
    BY <1>4, Zenon
  <2>3. \A g \in Handlers \ connected : state[g] = "WAITING" /\ ~active_conn'[g]
    BY <1>2, <2>2, Zenon DEF Calls
  <2>4. \A g \in Handlers : active_conn'[g] => g \in Served /\ ipc_lock'[g] /\ client[g] \in Callers
    BY <1>2, <1>4, <2>2, Zenon DEF Calls
  <2>5. \A d \in CPUs : kpc'[d] = "call_spin" => ipc_lock'[peer'[d]] /\ ~active_conn'[peer'[d]]
    BY <1>2, <1>4, <2>1, <2>2, ZenonT(60) DEF Calls
  <2>6. \A d, e \in CPUs :
          kpc'[d] = "call_spin" /\ kpc'[e] = "call_spin" /\ peer'[d] = peer'[e] => d = e
    BY <1>2, <2>1, SMTT(30) DEF Calls
  <2> QED BY <1>1, <2>3, <2>4, <2>5, <2>6, ZenonT(60) DEF Calls
<1>15. Working'
  <2> SUFFICES ASSUME NEW g \in Served
               PROVE  (active_conn[g] <=>
                        \/ \E d \in CPUs : current[d] = g /\ kpc[d] # "back"
                        \/ state[g] = "READY"
                        \/ state[g] = "WAITING" /\ ServedBy(g) # {})'
    BY Zenon DEF Working
  <2>1. CASE g = h
    BY <1>1, <1>3, <1>4, <1>5, <2>1, Zenon
  <2>2. CASE g # h
    <3>1. ServedBy(g)' # {} <=> ServedBy(g) # {}
      BY <1>6, <1>7, <1>8, ZenonT(60)
    <3>2. (\E d \in CPUs : current[d] = g /\ kpc[d] # "back") <=>
            (\E d \in CPUs : current'[d] = g /\ kpc'[d] # "back")
      BY <1>1, <1>o, <2>2, SMTT(30)
    <3>3. active_conn'[g] = active_conn[g] /\ state'[g] = state[g]
      BY <1>1, <1>4, <2>2, Names, Zenon
    <3> QED BY <1>2, <3>1, <3>2, <3>3, Zenon DEF Working
  <2> QED BY <2>1, <2>2, Zenon
<1>16. Waits'
  <2> SUFFICES ASSUME NEW t \in Callers
               PROVE  (Blocked(t) <=> ServedBy(t) # {})' /\ (\A x, y \in ServedBy(t) : x = y)'
    BY Zenon DEF Waits
  <2>0. Blocked(t)' <=> Blocked(t)
    <3>1. CASE t = h
      BY <1>1, <1>3, <3>1, Zenon DEF Blocked
    <3>2. CASE t # h
      <4>1. t \in Clients \/ active_conn'[t] = active_conn[t]
        BY <1>4, <3>2, Names, Zenon
      <4> QED BY <1>1, <4>1, Zenon DEF Blocked
    <3> QED BY <3>1, <3>2, Zenon
  <2>1. CASE t = b
    BY <1>6, <1>7, <2>0, <2>1, Zenon
  <2>2. CASE t # b
    <3>1. ServedBy(t)' = ServedBy(t)
      BY <1>8, <2>2, Zenon
    <3> QED BY <1>2, <2>0, <3>1, SMTT(30) DEF Waits
  <2> QED BY <2>1, <2>2, Zenon
<1>17. Leaving'
  <2> SUFFICES ASSUME NEW d \in CPUs, kpc'[d] \in Switching, NEW p, p = prev[current[d]],
                      state[p] = "WAITING"
               PROVE  p \in Callers /\ current[d] \in ServedBy(p)'
    BY <1>1, Zenon DEF Leaving
  <2>1. d # c /\ kpc[d] \in Switching
    BY <1>4, Zenon DEF Switching
  <2>2. p \in Callers /\ current[d] \in ServedBy(p)
    BY <1>2, <2>1, Zenon DEF Leaving
  <2>3. p # b
    BY <1>5, <1>6, <2>1, <2>2, Zenon
  <2> QED BY <1>8, <2>2, <2>3, Zenon
<1> QED BY <1>9, <1>10, <1>11, <1>12, <1>13, <1>14, <1>15, <1>16, <1>17, Zenon
      DEF IpcInv

(* thread_migrate_to_client: the CPU goes back to the caller.               *)
LEMMA BackStep ==
  ASSUME IpcInv, NEW c \in CPUs, thread_migrate_to_client(c)
  PROVE  IpcInv'
<1>o. PICK old, new : old = current[c] /\ new = peer[c]
  OBVIOUS
<1>1. /\ UNCHANGED <<queue, affinity, sp, connected, ipc_lock, active_conn, client>>
      /\ UNCHANGED <<register_lock, building>>
      /\ kpc[c] = "back" /\ switch_to_thread(c, new, state) /\ KGoto(c, "eret")
      /\ peer' = [peer EXCEPT ![c] = c]
  BY <1>o, Zenon DEF thread_migrate_to_client
<1>2. /\ AtStep /\ Registers /\ Calls /\ Working /\ Waits /\ Leaving /\ Placed /\ HandOver
      /\ SchedType /\ kpc[c] \notin Switching
  BY <1>1, TypeIsSched, Zenon DEF IpcInv, SchedInv, Switching
<1>3. /\ new \in Callers /\ new \in Threads /\ new \in AllThreads /\ new \notin CPUs
      /\ new # register_cb
  BY <1>1, <1>2, <1>o, Names, Zenon DEF AtStep
<1>4. ServedBy(new) = {c} /\ Blocked(new) /\ state[new] = "WAITING"
  <2>1. c \in ServedBy(new)
    BY <1>1, <1>o, ServedIs, Zenon
  <2> QED BY <1>2, <1>3, <2>1, SMTT(30) DEF Waits, Blocked
<1>5. ASSUME NEW d \in CPUs, d # c PROVE new \notin HeldBy(d)
  <2>1. new # current[d]
    BY <1>2, <1>4, Zenon DEF Placed
  <2>2. kpc[d] \in Switching => new # prev[current[d]]
    <3>1. kpc[d] \in Switching /\ new = prev[current[d]] => current[d] = c
      BY <1>2, <1>4, Zenon DEF Leaving
    <3>2. current[d] # c
      BY <1>2, <1>5, Zenon DEF HandOver, HeldBy
    <3> QED BY <3>1, <3>2, Zenon
  <2>3. sp[d] = current[d] \/ (kpc[d] \in Switching /\ sp[d] = prev[current[d]])
    BY <1>2, ZenonT(60) DEF HandOver, Switching
  <2> QED BY <2>1, <2>2, <2>3, Zenon DEF HeldBy
<1>6. /\ current'[c] = new /\ prev'[new] = old /\ kpc'[c] = "eret"
      /\ \A d \in CPUs : d # c =>
           /\ current'[d] = current[d] /\ kpc'[d] = kpc[d]
           /\ prev'[current[d]] = prev[current[d]]
           /\ {old, new} \intersect HeldBy(d) = {}
  BY <1>1, <1>2, <1>3, <1>5, <1>o, SwitchFacts, SMTT(30)
<1>7. HandOver'
  BY <1>1, <1>2, <1>3, <1>5, SwitchSafe, Zenon
<1>8. /\ state \in [AllThreads -> ThreadStates] /\ state' = [state EXCEPT ![new] = "RUNNING"]
      /\ old \in AllThreads /\ state[old] = "RUNNING"
  BY <1>1, <1>2, <1>o, Zenon DEF SchedType, SchedTypeOK, switch_to_thread, Placed
<1>9. \A t \in AllThreads : state'[t] = IF t = new THEN "RUNNING" ELSE state[t]
  BY <1>3, <1>8, Zenon
<1>10. SchedType'
  BY <1>1, <1>2, <1>3, <1>8, SMTT(30)
     DEF switch_to_thread, KGoto, SchedType, SchedTypeOK, ThreadStates, Steps,
         Switching
<1>11. Placed'
  <2>1. Ready(state') = Ready(state)
    BY <1>4, <1>9, Names, ZenonT(60) DEF Ready
  <2>2. \A d \in CPUs : state'[current'[d]] = "RUNNING"
    <3>1. \A d \in CPUs : current[d] \in AllThreads
      BY <1>2, Zenon DEF SchedType, SchedTypeOK
    <3>2. state'[current'[c]] = "RUNNING"
      BY <1>3, <1>6, <1>9, Zenon
    <3>3. ASSUME NEW d \in CPUs, d # c PROVE state'[current'[d]] = "RUNNING"
      <4>1. current'[d] = current[d] /\ state[current[d]] = "RUNNING"
        BY <1>2, <1>6, <3>3, Zenon DEF Placed
      <4> QED BY <1>9, <3>1, <4>1, Zenon
    <3> QED BY <3>2, <3>3, Zenon
  <2> QED BY <1>1, <1>2, <2>1, <2>2, Zenon DEF Placed
<1>12. \A d \in CPUs : peer'[d] = IF d = c THEN c ELSE peer[d]
  BY <1>1, Zenon DEF IpcInv, IpcType, TypeOK
<1>13. IpcType'
  <2>1. peer' \in [CPUs -> AllThreads]
    BY <1>1, Names, Zenon DEF IpcInv, IpcType, TypeOK
  <2> QED BY <1>1, <1>10, <2>1, Zenon DEF SchedType, IpcInv, IpcType, TypeOK
<1>14. ServedBy(new)' = {}
  <2>1. ASSUME NEW x PROVE x \notin ServedBy(new)'
    <3>1. x \in ServedBy(new) <=> x = c
      BY <1>4, Zenon
    <3>2. c \notin Handlers /\ c # register_cb
      BY Names, ZenonT(60)
    <3> QED BY <1>1, <1>6, <1>12, <3>1, <3>2, ServedIs, SMTT(30)
  <2> QED BY <2>1, ZenonT(60)
<1>15. \A t : t # new => ServedBy(t)' = ServedBy(t)
  <2>1. ASSUME NEW t, NEW x, t # new PROVE x \in ServedBy(t)' <=> x \in ServedBy(t)
    BY <1>1, <1>6, <1>12, <1>o, <2>1, ServedIs, SMTT(30)
  <2> QED BY <2>1, SMTT(30)
<1>16. AtStep'
  BY <1>1, <1>2, <1>6, SMTT(30) DEF AtStep
<1>17. Registers'
  <2>1. state'[register_cb] = state[register_cb]
    BY <1>3, <1>9, Names, Zenon
  <2>2. (\E d \in CPUs : current[d] = register_cb /\ kpc[d] # "back") <=>
          (\E d \in CPUs : current'[d] = register_cb /\ kpc'[d] # "back")
    BY <1>1, <1>3, <1>6, ZenonT(60)
  <2>3. \A d \in CPUs : kpc'[d] = "reg_spin" <=> kpc[d] = "reg_spin"
    BY <1>1, <1>6, Zenon
  <2> QED BY <1>1, <1>2, <2>1, <2>2, <2>3, Zenon DEF Registers
<1>18. new \in Handlers => new \in Served /\ active_conn[new] /\ new \in connected
  BY <1>2, <1>4, Names, Zenon DEF Blocked, Calls
<1>19. Calls'
  <2>1. \A g \in Handlers \ connected : state'[g] = state[g]
    BY <1>9, <1>18, Names, Zenon
  <2>2. \A d \in CPUs : kpc'[d] = "call_spin" => kpc[d] = "call_spin" /\ peer'[d] = peer[d]
    BY <1>6, <1>12, Zenon
  <2> QED BY <1>1, <1>2, <2>1, <2>2, SMTT(30) DEF Calls
<1>20. Working'
  <2> SUFFICES ASSUME NEW g \in Served
               PROVE  (active_conn[g] <=>
                        \/ \E d \in CPUs : current[d] = g /\ kpc[d] # "back"
                        \/ state[g] = "READY"
                        \/ state[g] = "WAITING" /\ ServedBy(g) # {})'
    BY Zenon DEF Working
  <2>1. CASE g = new
    <3>1. active_conn'[g] /\ current'[c] = g /\ kpc'[c] # "back"
      BY <1>1, <1>6, <1>18, <2>1, Names, Zenon
    <3> QED BY <3>1, Zenon
  <2>2. CASE g # new
    <3>1. state'[g] = state[g] /\ ServedBy(g)' = ServedBy(g)
      BY <1>9, <1>15, <2>2, Names, Zenon
    <3>2. (\E d \in CPUs : current[d] = g /\ kpc[d] # "back") <=>
            (\E d \in CPUs : current'[d] = g /\ kpc'[d] # "back")
      BY <1>1, <1>6, <2>2, Zenon
    <3> QED BY <1>1, <1>2, <3>1, <3>2, Zenon DEF Working
  <2> QED BY <2>1, <2>2, Zenon
<1>21. Waits'
  <2> SUFFICES ASSUME NEW t \in Callers
               PROVE  (Blocked(t) <=> ServedBy(t) # {})' /\ (\A x, y \in ServedBy(t) : x = y)'
    BY Zenon DEF Waits
  <2>1. CASE t = new
    BY <1>3, <1>9, <1>14, <2>1, ZenonT(60) DEF Blocked
  <2>2. CASE t # new
    <3>1. /\ state'[t] = state[t] /\ ServedBy(t)' = ServedBy(t) /\ active_conn' = active_conn
      BY <1>1, <1>9, <1>15, <2>2, Names, Zenon
    <3> QED BY <1>2, <3>1, SMTT(30) DEF Waits, Blocked
  <2> QED BY <2>1, <2>2, Zenon
<1>22. Leaving'
  <2> SUFFICES ASSUME NEW d \in CPUs, kpc'[d] \in Switching, NEW p, p = prev'[current'[d]],
                      state'[p] = "WAITING"
               PROVE  p \in Callers /\ current'[d] \in ServedBy(p)'
    BY Zenon DEF Leaving
  <2>1. CASE d = c
    BY <1>6, <1>8, <2>1, Zenon
  <2>2. CASE d # c
    <3>1. p = prev[current[d]] /\ kpc[d] \in Switching /\ p \in HeldBy(d)
      BY <1>6, <2>2, Zenon DEF HeldBy
    <3>2. p # old /\ p # new /\ p \in AllThreads
      <4>1. {old, new} \intersect HeldBy(d) = {}
        BY <1>6, <2>2, ZenonT(60)
      <4>2. p \in AllThreads
        BY <3>1, SMTT(30) DEF IpcInv, IpcType, TypeOK, SchedTypeOK
      <4> QED BY <3>1, <4>1, <4>2, SMTT(30)
    <3>3. state[p] = "WAITING" /\ ServedBy(p)' = ServedBy(p)
      BY <1>9, <1>15, <3>2, Zenon
    <3>4. current'[d] = current[d]
      BY <1>6, <2>2, Zenon
    <3> QED BY <1>2, <3>1, <3>3, <3>4, Zenon DEF Leaving
  <2> QED BY <2>1, <2>2, Zenon
<1> QED BY <1>7, <1>11, <1>13, <1>16, <1>17, <1>19, <1>20, <1>21, <1>22, Zenon
      DEF IpcInv

(* The timer and sys_yield: callers and handlers are preempted alike.       *)
LEMMA TickStep ==
  ASSUME IpcInv, NEW c \in CPUs, timer_tick(c) \/ sys_yield(c), UNCHANGED ipcVars
  PROVE  IpcInv'
<1>o. PICK old : old = current[c]
  OBVIOUS
<1>1. /\ kpc[c] = "user" /\ rr_sched(c, queue, state) /\ KGoto(c, "eret")
      /\ affinity' = affinity /\ sp' = sp
      /\ UNCHANGED <<connected, ipc_lock, active_conn, client, register_lock, building, peer>>
  BY Zenon DEF timer_tick, sys_yield, ipcVars
<1>2. /\ AtStep /\ Registers /\ Calls /\ Working /\ Waits /\ Leaving /\ Placed /\ HandOver
      /\ SchedInv /\ SchedType /\ kpc[c] \notin Switching
  BY <1>1, TypeIsSched, Zenon DEF IpcInv, SchedInv, Switching
<1>3. SchedInv'
  BY <1>1, <1>2, SchedSafe, Zenon
<1>4. PICK new \in AllThreads :
        /\ \/ new = c
           \/ new \in Threads /\ new = current[c]
           \/ new \in Threads /\ ks[new] = "FREE" /\ state[new] = "READY"
        /\ \A d \in CPUs : d # c => new \notin HeldBy(d)
        /\ switch_to_thread(c, new, EnqueuedState(state, current[c]))
  BY <1>1, <1>2, SchedSafe, Zenon
<1>5. /\ current'[c] = new /\ prev'[new] = old /\ kpc'[c] = "eret"
      /\ \A d \in CPUs : d # c =>
           /\ current'[d] = current[d] /\ kpc'[d] = kpc[d]
           /\ prev'[current[d]] = prev[current[d]]
           /\ {old, new} \intersect HeldBy(d) = {}
  <2>1. /\ current'[c] = new /\ prev'[new] = current[c] /\ kpc'[c] = "eret"
        /\ \A d \in CPUs : d # c =>
             /\ current'[d] = current[d] /\ kpc'[d] = kpc[d]
             /\ prev'[current[d]] = prev[current[d]]
             /\ {current[c], new} \intersect HeldBy(d) = {}
    BY <1>1, <1>2, <1>4, SwitchFacts, Zenon
  <2> QED BY <1>o, <2>1, Zenon
<1>6. /\ state \in [AllThreads -> ThreadStates] /\ old \in AllThreads /\ state[old] = "RUNNING"
      /\ \A d \in CPUs : d # c => current[d] # old /\ current[d] # new
  <2>1. \A d \in CPUs : d # c => current[d] # old /\ current[d] # new
    BY <1>5, Zenon DEF HeldBy
  <2> QED BY <1>2, <1>o, <2>1, Zenon DEF SchedType, SchedTypeOK, Placed
<1>7. \A t \in AllThreads :
        state'[t] = IF t = new THEN "RUNNING"
                    ELSE IF t = old THEN (IF old \in CPUs THEN "INTER" ELSE "READY")
                    ELSE state[t]
  BY <1>4, <1>6, <1>o, Zenon DEF switch_to_thread, EnqueuedState
<1>8. \A t : ServedBy(t)' = ServedBy(t)
  <2>1. \A d \in CPUs : /\ kpc'[d] = "back" <=> kpc[d] = "back"
                        /\ kpc[d] = "back" => peer'[d] = peer[d]
    BY <1>1, <1>5, Zenon
  <2> QED BY <1>1, <2>1, ServedFrame, Zenon
<1>9. ASSUME NEW t \in Threads
      PROVE  /\ state'[t] = "WAITING" <=> state[t] = "WAITING"
             /\ (\E d \in CPUs : current'[d] = t /\ kpc'[d] # "back") \/ state'[t] = "READY" <=>
                  (\E d \in CPUs : current[d] = t /\ kpc[d] # "back") \/ state[t] = "READY"
  <2>0. t \in AllThreads /\ t \notin CPUs /\ t # c
    BY Names, Zenon
  <2>1. CASE t = new
    <3>1. current'[c] = t /\ kpc'[c] # "back" /\ state'[t] = "RUNNING" /\ kpc[c] # "back"
      BY <1>1, <1>5, <1>7, <2>1, Zenon
    <3>2. current[c] = t \/ state[t] = "READY"
      BY <1>4, <2>0, <2>1, Zenon
    <3>3. state[t] # "WAITING"
      BY <1>6, <1>o, <3>2, Zenon
    <3> QED BY <3>1, <3>2, <3>3, Zenon
  <2>2. CASE t = old /\ t # new
    <3>1. state'[t] = "READY" /\ current[c] = t /\ kpc[c] # "back" /\ state[t] = "RUNNING"
      BY <1>1, <1>6, <1>7, <1>o, <2>0, <2>2, Zenon
    <3> QED BY <3>1, Zenon
  <2>3. CASE t # old /\ t # new
    <3>1. state'[t] = state[t]
      BY <1>7, <2>0, <2>3, Zenon
    <3>2. (\E d \in CPUs : current'[d] = t /\ kpc'[d] # "back") <=>
            (\E d \in CPUs : current[d] = t /\ kpc[d] # "back")
      BY <1>5, <1>o, <2>3, Zenon
    <3> QED BY <3>1, <3>2, Zenon
  <2> QED BY <2>1, <2>2, <2>3, Zenon
<1>10. \A t : t \in Callers => (Blocked(t)' <=> Blocked(t))
  BY <1>1, <1>9, Names, Zenon DEF Blocked
<1>11. IpcType'
  BY <1>1, <1>3, Zenon DEF SchedInv, SchedType, IpcInv, IpcType, TypeOK
<1>12. AtStep'
  BY <1>1, <1>2, <1>5, Zenon DEF AtStep
<1>13. Registers'
  <2>1. \A d \in CPUs : kpc'[d] = "reg_spin" <=> kpc[d] = "reg_spin"
    BY <1>1, <1>5, Zenon
  <2>2. (\E d \in CPUs : current'[d] = register_cb /\ kpc'[d] # "back") \/ state'[register_cb] = "READY" <=>
          (\E d \in CPUs : current[d] = register_cb /\ kpc[d] # "back") \/ state[register_cb] = "READY"
    BY <1>9, Names, Zenon
  <2> QED BY <1>1, <1>2, <2>1, <2>2, Zenon DEF Registers
<1>14. Calls'
  <2>1. \A g \in Handlers \ connected : state'[g] = "WAITING"
    BY <1>2, <1>9, Names, Zenon DEF Calls
  <2>2. \A d \in CPUs : kpc'[d] = "call_spin" => kpc[d] = "call_spin"
    BY <1>5, Zenon
  <2> QED BY <1>1, <1>2, <2>1, <2>2, Zenon DEF Calls
<1>15. Working'
  <2> SUFFICES ASSUME NEW g \in Served
               PROVE  (active_conn[g] <=>
                        \/ \E d \in CPUs : current[d] = g /\ kpc[d] # "back"
                        \/ state[g] = "READY"
                        \/ state[g] = "WAITING" /\ ServedBy(g) # {})'
    BY Zenon DEF Working
  <2>1. /\ g \in Threads /\ ServedBy(g)' = ServedBy(g) /\ active_conn' = active_conn
        /\ state'[g] = "WAITING" <=> state[g] = "WAITING"
        /\ (\E d \in CPUs : current'[d] = g /\ kpc'[d] # "back") \/ state'[g] = "READY" <=>
             (\E d \in CPUs : current[d] = g /\ kpc[d] # "back") \/ state[g] = "READY"
    BY <1>1, <1>8, <1>9, Names, Zenon
  <2> QED BY <1>2, <2>1, Zenon DEF Working
<1>16. Waits'
  BY <1>2, <1>8, <1>10, Zenon DEF Waits
<1>17. Leaving'
  <2> SUFFICES ASSUME NEW d \in CPUs, kpc'[d] \in Switching, NEW p, p = prev'[current'[d]],
                      state'[p] = "WAITING"
               PROVE  p \in Callers /\ current'[d] \in ServedBy(p)'
    BY Zenon DEF Leaving
  <2>1. CASE d = c
    BY <1>5, <1>6, <1>7, <2>1, Zenon
  <2>2. CASE d # c
    <3>1. p = prev[current[d]] /\ kpc[d] \in Switching /\ p \in HeldBy(d)
      BY <1>5, <2>2, Zenon DEF HeldBy
    <3>2. p # old /\ p # new /\ p \in AllThreads
      <4>1. {old, new} \intersect HeldBy(d) = {}
        BY <1>5, <2>2, ZenonT(60)
      <4>2. p \in AllThreads
        BY <3>1, SMTT(30) DEF IpcInv, IpcType, TypeOK, SchedTypeOK
      <4> QED BY <3>1, <4>1, <4>2, SMTT(30)
    <3>3. state[p] = "WAITING" /\ ServedBy(p)' = ServedBy(p)
      BY <1>7, <1>8, <3>2, Zenon
    <3>4. current'[d] = current[d]
      BY <1>5, <2>2, Zenon
    <3> QED BY <1>2, <3>1, <3>3, <3>4, Zenon DEF Leaving
  <2> QED BY <2>1, <2>2, Zenon
<1> QED BY <1>3, <1>11, <1>12, <1>13, <1>14, <1>15, <1>16, <1>17, Zenon
      DEF IpcInv, SchedInv

(* Before the first call nobody waits for an IPC.                           *)
LEMMA IpcInit == Init => IpcInv
<1> SUFFICES ASSUME Init PROVE IpcInv
  OBVIOUS
<1>1. /\ InitWith(Clients) /\ connected = {} /\ ipc_lock = [h \in Handlers |-> FALSE]
      /\ active_conn = [h \in Handlers |-> FALSE] /\ client = [h \in Handlers |-> h]
      /\ register_lock = FALSE /\ building = register_cb /\ peer = [c \in CPUs |-> c]
  BY Zenon DEF Init
<1>2. SchedInv
  BY <1>1, InitSafe, KernelIpcAssumption, Zenon
<1>3. \A c \in CPUs : kpc[c] = "user" /\ current[c] = c
  BY <1>1, Zenon DEF InitWith
<1>4. \A t \in Threads : state[t] = IF t \in Clients THEN "READY" ELSE "WAITING"
  BY <1>1, Names, Zenon DEF InitWith
<1>5. IpcType
  BY <1>1, <1>2, Names, Zenon DEF SchedInv, SchedType, IpcType, TypeOK
<1>6. \A t : t # register_cb => ServedBy(t) = {}
  <2>1. ASSUME NEW t, NEW x, t # register_cb PROVE x \notin ServedBy(t)
    BY <1>1, <1>3, <2>1, ServedIs, Zenon
  <2> QED BY <2>1, Zenon
<1>7. AtStep /\ Leaving
  BY <1>3, ZenonT(60) DEF AtStep, Leaving, Switching
<1>8. Registers
  BY <1>1, <1>3, <1>4, Names, SMTT(30) DEF Registers
<1>9. Calls
  BY <1>1, <1>3, <1>4, Names, Zenon DEF Calls
<1>10. Working
  <2>1. \A h \in Served : /\ ~active_conn[h] /\ state[h] = "WAITING" /\ ServedBy(h) = {}
                          /\ \A c \in CPUs : current[c] # h
    BY <1>1, <1>3, <1>4, <1>6, Names, SMTT(30)
  <2> QED BY <2>1, Zenon DEF Working
<1>11. Waits
  <2>1. \A t \in Callers : ServedBy(t) = {} /\ ~Blocked(t)
    BY <1>1, <1>4, <1>6, Names, Zenon DEF Blocked
  <2> QED BY <2>1, Zenon DEF Waits
<1> QED BY <1>2, <1>5, <1>7, <1>8, <1>9, <1>10, <1>11, Zenon DEF IpcInv, SchedInv

(* With timer interrupts only, every step of the kernel keeps the invariant.*)
LEMMA IpcStep ==
  ASSUME ~OtherIrqs, IpcInv, [Next]_vars
  PROVE  IpcInv'
<1>1. ASSUME NEW c \in CPUs, KernelStep(c) PROVE IpcInv'
  BY <1>1, LeaveStep, RegisterMigrateStep, MigrateStep, FailStep, BackStep, Zenon
     DEF KernelStep
<1>2. ASSUME NEW c \in CPUs, Enter(c) PROVE IpcInv'
  <2>1. ~other_irq(c)
    BY Zenon DEF other_irq
  <2> QED BY <1>2, <2>1, TickStep, RegisterStep, ReturnStep, CbReturnStep, CallStep, Zenon
        DEF Enter
<1>3. CASE UNCHANGED vars
  <2>1. /\ UNCHANGED <<state, ks, prev, queue, current, affinity, sp, kpc>>
        /\ UNCHANGED <<connected, ipc_lock, active_conn, client, register_lock, building, peer>>
    BY <1>3, Zenon DEF vars, schedVars, ctxVars, ipcVars
  <2>2. Working' /\ Waits' /\ Leaving'
    BY <2>1, QuietStep, Zenon
  <2>3. HandOver'
    <3>1. \A d \in CPUs : HeldBy(d)' = HeldBy(d)
      BY <2>1, ZenonT(60) DEF HeldBy
    <3> QED BY <2>1, <3>1, SMTT(30) DEF IpcInv, HandOver
  <2>4. AtStep' /\ Registers' /\ Calls' /\ Placed'
    BY <2>1, SMTT(30) DEF IpcInv, AtStep, Registers, Calls, Placed
  <2>5. IpcType'
    BY <2>1, Zenon DEF IpcInv, IpcType, TypeOK, SchedTypeOK
  <2> QED BY <2>2, <2>3, <2>4, <2>5, Zenon DEF IpcInv
<1> QED BY <1>1, <1>2, <1>3, Zenon DEF Next

(* The calls of sys_ipc_call, sys_ipc_return and registration keep IpcInv:  *)
(* the scheduler underneath, one thread per handler and caller, and a caller *)
(* that waits while, and only while, somebody is to return to it.           *)
THEOREM IpcInvariant == ~OtherIrqs => (Spec => []IpcInv)
<1> SUFFICES ASSUME ~OtherIrqs PROVE Spec => []IpcInv
  OBVIOUS
<1>1. IpcInv /\ [Next]_vars => IpcInv'
  BY IpcStep, Zenon
<1> QED BY <1>1, IpcInit, PTL DEF Spec

(* The direct switches of IPC hand kernel stacks over as safely as the      *)
(* scheduler does, though the locks are given up before the stack is left.  *)
THEOREM IpcStacksExclusive == ~OtherIrqs => (Spec => []StackExclusive)
<1> SUFFICES ASSUME ~OtherIrqs PROVE Spec => []StackExclusive
  BY SMTT(30)
<1>1. IpcInv => StackExclusive
  BY SMTT(30) DEF IpcInv, HandOver, HeldBy, StackExclusive
<1>2. Spec => []IpcInv
  BY IpcInvariant, Zenon
<1> QED BY <1>1, <1>2, PTL

(* Each caller that waits is returned to, once, whatever the number of      *)
(* clients, handlers and nested calls.                                      *)
THEOREM CallersServedOnce == ~OtherIrqs => (Spec => []WaitingIsServed)
<1> SUFFICES ASSUME ~OtherIrqs PROVE Spec => []WaitingIsServed
  OBVIOUS
<1>1. IpcInv => WaitingIsServed
  <2> SUFFICES ASSUME IpcInv, NEW t \in Callers
               PROVE  IF Blocked(t) THEN IsSingleton(ServedBy(t)) ELSE ServedBy(t) = {}
    BY Zenon DEF WaitingIsServed, Callers
  <2>1. /\ Blocked(t) <=> ServedBy(t) # {}
        /\ \A x, y \in ServedBy(t) : x = y
    BY Zenon DEF IpcInv, Waits
  <2>2. CASE ServedBy(t) = {}
    BY <2>1, <2>2, Zenon
  <2>3. CASE ServedBy(t) # {}
    <3>1. PICK x : x \in ServedBy(t)
      BY <2>3, Zenon
    <3>2. ServedBy(t) = {x}
      BY <2>1, <3>1, Zenon
    <3> QED BY <2>1, <3>2, Zenon DEF IsSingleton
  <2> QED BY <2>2, <2>3, Zenon
<1>2. Spec => []IpcInv
  BY IpcInvariant, Zenon
<1> QED BY <1>1, <1>2, PTL

(* A handler works for one call at a time, and its lock is held meanwhile.  *)
THEOREM HandlersServeAlone == ~OtherIrqs => (Spec => []ServedAlone)
<1> SUFFICES ASSUME ~OtherIrqs PROVE Spec => []ServedAlone
  OBVIOUS
<1>1. IpcInv => ServedAlone
  <2> SUFFICES ASSUME IpcInv PROVE ServedAlone
    BY SMTT(30)
  <2>1. ASSUME NEW h \in Handlers, NEW users,
               users = {c \in CPUs : kpc[c] = "call_spin" /\ peer[c] = h}
                         \union {x \in {h} : active_conn[h]}
        PROVE  (\A x, y \in users : x = y) /\ (users # {} => ipc_lock[h])
    BY <2>1, SMTT(30) DEF IpcInv, Calls
  <2>2. \A c \in CPUs : state[current[c]] = "RUNNING"
    BY Zenon DEF IpcInv, Placed
  <2>3. Working
    BY Zenon DEF IpcInv
  <2>4. \A h \in Handlers :
          LET users == {c \in CPUs : kpc[c] = "call_spin" /\ peer[c] = h}
                         \union {x \in {h} : active_conn[h]}
          IN (\A x, y \in users : x = y) /\ (users # {} => ipc_lock[h])
    BY <2>1, Zenon
  <2> QED BY <2>2, <2>3, <2>4, Zenon DEF ServedAlone, Working, Served
<1>2. Spec => []IpcInv
  BY IpcInvariant, Zenon
<1> QED BY <1>1, <1>2, PTL
=============================================================================
