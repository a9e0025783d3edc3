------------------------------- MODULE KernelIpc -------------------------------
(***************************************************************************)
(* The synchronous IPC of the ChCore kernel, on top of the scheduler.      *)
(*                                                                         *)
(* A call moves the CPU of the client thread to a passive handler thread   *)
(* of the server, and the return moves it back; neither goes through the   *)
(* scheduler.  A client gets a connection, and the handler thread that     *)
(* serves it, from the registration thread of the server in the same way.  *)
(* Both locks are released by another thread than the one that took them,  *)
(* before the CPU has left the stack of the passive thread: the next       *)
(* client waits for its kernel_stack_state.                                *)
(***************************************************************************)
EXTENDS Sched

CONSTANTS
  Clients,           \* threads that register with the server and call it
  Nested,            \* handlers that call other servers while they serve
  Handlers,          \* passive threads that serve calls, one for a connection
  register_cb,       \* passive thread that serves registrations
  FlexHandlers       \* those that FlexIPC makes ordinary threads

ASSUME KernelIpcAssumption ==
  /\ Clients \subseteq Threads /\ Handlers \subseteq Threads
  /\ register_cb \in Threads
  /\ FlexHandlers \subseteq Handlers /\ Nested \subseteq Handlers \ FlexHandlers
  /\ register_cb \notin Clients \union Handlers
  /\ Clients \intersect Handlers = {}

VARIABLES
  connected,      \* handlers whose connection has been established
  ipc_lock,       \* handler_config->ipc_lock is held
  active_conn,    \* handler_config->active_conn is not NULL
  client,         \* conn->current_client_thread of each handler's connection
  register_lock,  \* register_cb_config->register_lock is held
  building,       \* current_client_thread of the connection being built
  peer            \* the thread CPU c is switching to in an IPC

ipcVars == <<connected, ipc_lock, active_conn, client, register_lock, building,
             peer>>
vars == <<schedVars, ipcVars>>

Init ==
  /\ InitWith(Clients)
  /\ connected = {}
  /\ ipc_lock = [h \in Handlers |-> FALSE]
  /\ active_conn = [h \in Handlers |-> FALSE]
  /\ client = [h \in Handlers |-> h]
  /\ register_lock = FALSE
  /\ building = register_cb
  /\ peer = [c \in CPUs |-> c]

(* The part of thread_migrate_to_server and sys_register_client that gives  *)
(* the CPU of the calling thread to a passive one.                          *)
Block(c, target) ==
  /\ switch_to_thread(c, target, [state EXCEPT ![current[c]] = "WAITING"])
  /\ peer' = [peer EXCEPT ![c] = c]
  /\ KGoto(c, "eret")
  /\ UNCHANGED <<queue, affinity, sp>>
-----------------------------------------------------------------------------
(* sys_register_client takes register_lock, or returns -EAGAIN, ...  The    *)
(* handlers bound the number of connections.                                *)
sys_register_client(c) ==
  /\ kpc[c] = "user" /\ current[c] \in Clients
  /\ ~register_lock
  /\ connected # Handlers
  /\ register_lock' = TRUE
  /\ KGoto(c, "reg_spin")
  /\ UNCHANGED <<ctxVars, affinity, sp, connected, ipc_lock, active_conn,
                 client, building, peer>>

(* client_connection: the new connection names the thread that builds it.   *)
client_connection(c) == building' = current[c]

(* ... waits for the stack of register_cb, creates the connection and goes  *)
(* there.                                                                   *)
register_migrate(c) ==
  /\ kpc[c] = "reg_spin"
  /\ ks[register_cb] = "FREE"
  /\ client_connection(c)
  /\ Block(c, register_cb)
  /\ UNCHANGED <<connected, ipc_lock, active_conn, client, register_lock>>

(* sys_ipc_register_cb_return completes the connection with a new handler   *)
(* thread.  A handler of FlexIPC is queued on the next CPU.                 *)
sys_ipc_register_cb_return(c, h) ==
  /\ kpc[c] = "user" /\ current[c] = register_cb
  /\ h \in Handlers \ connected
  /\ connected' = connected \union {h}
  /\ peer' = [peer EXCEPT ![c] = building]
  /\ building' = register_cb
  /\ register_lock' = FALSE
  /\ \/ /\ h \in FlexHandlers
        /\ LET next == (c + 1) % PLAT_CPU_NUM
           IN /\ affinity' = [affinity EXCEPT ![h] = next]
              /\ queue' = [queue EXCEPT ![next] = Append(@, h)]
              /\ state' = EnqueuedState(state, h)
     \/ h \notin FlexHandlers /\ UNCHANGED <<affinity, queue, state>>
  /\ KGoto(c, "back")
  /\ UNCHANGED <<ks, prev, current, sp, ipc_lock, active_conn, client>>
-----------------------------------------------------------------------------
(* Mutant: the lock is not looked at.                                       *)
grab_ipc_lock_any(c, h) ==
  /\ ipc_lock' = [ipc_lock EXCEPT ![h] = TRUE]
  /\ peer' = [peer EXCEPT ![c] = h]
  /\ KGoto(c, "call_spin")

(* grab_ipc_lock: a call that finds the lock held returns -EAGAIN, ...      *)
grab_ipc_lock(c, h) ==
  /\ ~ipc_lock[h]
  /\ ipc_lock' = [ipc_lock EXCEPT ![h] = TRUE]
  /\ peer' = [peer EXCEPT ![c] = h]
  /\ KGoto(c, "call_spin")

sys_ipc_call(c, h) ==
  /\ kpc[c] = "user" /\ current[c] \in Clients \union Nested
  /\ h \in connected \ FlexHandlers
  /\ grab_ipc_lock(c, h)
  /\ UNCHANGED <<ctxVars, affinity, sp, connected, active_conn, client,
                 register_lock, building>>

(* Mutant: the stack is not waited for.                                     *)
StackFree_any(h) == TRUE

(* ... and one that takes it waits for the stack of the handler.            *)
StackFree(h) == ks[h] = "FREE"

(* Mutant: the client is not recorded again.                                *)
thread_migrate_to_server_stale(c) ==
  LET h == peer[c]
  IN /\ kpc[c] = "call_spin"
     /\ StackFree(h)
     /\ active_conn' = [active_conn EXCEPT ![h] = TRUE]
     /\ client' = [client EXCEPT ![h] = IF @ = h THEN current[c] ELSE @]
     /\ Block(c, h)
     /\ UNCHANGED <<connected, ipc_lock, register_lock, building>>

(* thread_migrate_to_server                                                 *)
thread_migrate_to_server(c) ==
  LET h == peer[c]
  IN /\ kpc[c] = "call_spin"
     /\ StackFree(h)
     /\ active_conn' = [active_conn EXCEPT ![h] = TRUE]
     /\ client' = [client EXCEPT ![h] = current[c]]
     /\ Block(c, h)
     /\ UNCHANGED <<connected, ipc_lock, register_lock, building>>

(* ipc_send_cap fails, as does the cap_copy of transfer_cap: the call       *)
(* returns and keeps the lock.                                              *)
ipc_send_cap_fails(c) ==
  /\ kpc[c] = "call_spin"
  /\ StackFree(peer[c])
  /\ peer' = [peer EXCEPT ![c] = c]
  /\ KGoto(c, "user")
  /\ UNCHANGED <<ctxVars, affinity, sp, connected, ipc_lock, active_conn, client,
                 register_lock, building>>

(* sys_ipc_return finds the client in the connection, releases the lock ... *)
sys_ipc_return(c) ==
  LET h == current[c]
  IN /\ kpc[c] = "user" /\ h \in Handlers \ FlexHandlers
     /\ active_conn[h]
     /\ active_conn' = [active_conn EXCEPT ![h] = FALSE]
     /\ peer' = [peer EXCEPT ![c] = client[h]]
     /\ ipc_lock' = [ipc_lock EXCEPT ![h] = FALSE]
     /\ KGoto(c, "back")
     /\ UNCHANGED <<ctxVars, affinity, sp, connected, client, register_lock,
                    building>>

(* ... and thread_migrate_to_client goes back, as the end of                *)
(* sys_ipc_register_cb_return does.  The state of the passive thread is     *)
(* left as it is.                                                           *)
thread_migrate_to_client(c) ==
  /\ kpc[c] = "back"
  /\ switch_to_thread(c, peer[c], state)
  /\ peer' = [peer EXCEPT ![c] = c]
  /\ KGoto(c, "eret")
  /\ UNCHANGED <<queue, affinity, sp, connected, ipc_lock, active_conn, client,
                 register_lock, building>>
-----------------------------------------------------------------------------
(* The steps a CPU takes once it is in the kernel.                          *)
KernelStep(c) ==
  \/ SwitchStep(c) /\ UNCHANGED ipcVars
  \/ register_migrate(c) \/ thread_migrate_to_server(c)
  \/ ipc_send_cap_fails(c) \/ thread_migrate_to_client(c)

Enter(c) ==
  \/ (timer_tick(c) \/ sys_yield(c) \/ other_irq(c)) /\ UNCHANGED ipcVars
  \/ sys_register_client(c) \/ sys_ipc_return(c)
  \/ \E h \in Handlers : sys_ipc_register_cb_return(c, h) \/ sys_ipc_call(c, h)

Next == \E c \in CPUs : KernelStep(c) \/ Enter(c)

Spec == Init /\ [][Next]_vars

(* The kernel goes on, the timers fire, and a passive thread that gets to   *)
(* run again and again returns.                                             *)
FairSpec ==
  /\ Spec
  /\ \A c \in CPUs : WF_vars(KernelStep(c) \/ (timer_tick(c) /\ UNCHANGED ipcVars))
  /\ \A h \in Handlers :
       SF_vars(\E c \in CPUs : current[c] = h /\ sys_ipc_return(c))
  /\ SF_vars(\E c \in CPUs, h \in Handlers : sys_ipc_register_cb_return(c, h))
-----------------------------------------------------------------------------
(* Properties.                                                              *)

(* Every variable has its type.                                             *)
TypeOK ==
  /\ SchedTypeOK
  /\ connected \subseteq Handlers
  /\ ipc_lock \in [Handlers -> BOOLEAN]
  /\ active_conn \in [Handlers -> BOOLEAN]
  /\ client \in [Handlers -> Threads]
  /\ register_lock \in BOOLEAN
  /\ building \in Threads
  /\ peer \in [CPUs -> AllThreads]

(* Thread t waits for an IPC; a handler that was never called does not.     *)
Blocked(t) == state[t] = "WAITING" /\ (t \in Clients \/ active_conn[t])

(* The passive threads that will give the CPU back to thread t, and the     *)
(* CPUs that are about to return to it.                                     *)
ServedBy(t) ==
  {h \in Handlers : active_conn[h] /\ client[h] = t}
    \union {r \in {register_cb} : building = t}
    \union {c \in CPUs : kpc[c] = "back" /\ peer[c] = t}

(* A thread that waits for an IPC is recorded in exactly one place, and one *)
(* that does not wait in none, although sys_ipc_return does not reset       *)
(* current_client_thread and many threads may use one connection: it is     *)
(* returned to, once.                                                       *)
WaitingIsServed ==
  \A t \in Clients \union Nested :
    IF Blocked(t) THEN IsSingleton(ServedBy(t)) ELSE ServedBy(t) = {}

(* A handler works for one call at a time.  While it serves, or a CPU waits *)
(* for its stack, its lock is held, and that is once at most; it has an     *)
(* active connection exactly as long as a CPU runs it, it is ready to go    *)
(* on, or it waits for a call of its own.  In particular a handler that     *)
(* keeps TS_RUNNING after its return is not taken for one that works.       *)
ServedAlone ==
  /\ \A h \in Handlers :
       LET users == {c \in CPUs : kpc[c] = "call_spin" /\ peer[c] = h}
                      \union {x \in {h} : active_conn[h]}
       IN (\A x, y \in users : x = y) /\ (users # {} => ipc_lock[h])
  /\ \A c \in CPUs : state[current[c]] = "RUNNING"
  /\ \A h \in Handlers \ FlexHandlers :
       active_conn[h] <=>
         \/ \E c \in CPUs : current[c] = h /\ kpc[c] # "back"
         \/ state[h] = "READY"
         \/ state[h] = "WAITING" /\ ServedBy(h) # {}

(* An IPC returns, and the wait for the stack of a passive thread ends.     *)
IpcReturns ==
  /\ \A t \in Clients \union Nested : Blocked(t) ~> (state[t] = "RUNNING")
  /\ \A c \in CPUs : (kpc[c] # "user") ~> (kpc[c] = "user")
=============================================================================
