------------------------------- MODULE FlexIpc -------------------------------
(***************************************************************************)
(* FlexIPC: the exception-less IPC between the coroutines of one client    *)
(* process and the handler threads that the LWIP server dedicates to it.   *)
(*                                                                         *)
(* A connection owns MAX_FLEX_IPC_COUNT pages of shared memory.  A page    *)
(* (a slot) holds the flag `occupied`, which only the client writes, and   *)
(* one lwip_request: its req_state, its payload and its return value.  The *)
(* coroutines of the client share one kernel thread and give it up only in *)
(* yield_coroutine; the handler threads run on other cores, so each of     *)
(* their accesses to a slot interleaves with each access of the client.    *)
(***************************************************************************)
EXTENDS Naturals, FiniteSets

CONSTANTS
  Coroutines,          \* the coroutines of the client process
  NoCoroutine,         \* the kernel thread is in the coroutine scheduler
  MAX_FLEX_IPC_COUNT,  \* slots of the shared memory
  Handlers,            \* handler threads of the server for this client
  Ordered,             \* stores become visible in program order (x86_64 build)
  MaxCalls             \* bound: requests issued by one coroutine

ASSUME FlexIpcAssumption ==
  /\ MAX_FLEX_IPC_COUNT \in Nat \ {0}
  /\ MaxCalls \in Nat
  /\ Ordered \in BOOLEAN
  /\ NoCoroutine \notin Coroutines
  /\ IsFiniteSet(Coroutines)

Slots == 0 .. MAX_FLEX_IPC_COUNT - 1

(* The n-th request of coroutine c is <<c, n>>; its reply carries the same  *)
(* name, so that a reply can be told from the reply to another request.     *)
Requests == Coroutines \X (1 .. MaxCalls)
NoRequest == <<>>
Messages == Requests \union {NoRequest}

VARIABLES
  occupied,   \* ipc_msg->occupied of each slot
  req_state,  \* lr->req_state of each slot
  req,        \* the payload of each slot: lr->req, lr->args and lr->data
  ret,        \* lr->ret of each slot
  storebuf,   \* payload stores of the client not yet visible to the server
  running,    \* the coroutine on the client's kernel thread
  cpc,        \* where each coroutine is in socket.c and flex_ipc_call
  cslot,      \* the ipc_msg of each coroutine, as a slot index
  calls,      \* number of requests each coroutine has issued
  cret,       \* the value flex_ipc_call returns to each coroutine
  hpc,        \* where each handler thread is in its loop
  scan,       \* the loop index i of each handler thread
  hreq,       \* the request each handler thread is executing
  executed,   \* history: the requests lwip_dispatch has executed
  repeated    \* history: the requests lwip_dispatch has executed again

slotVars == <<occupied, req_state, req, ret, storebuf>>
clientVars == <<running, cpc, cslot, calls, cret>>
serverVars == <<hpc, scan, hreq, executed, repeated>>
vars == <<slotVars, clientVars, serverVars>>

ReqStates == {"INIT", "SUBMITTED", "BUSY", "DONE"}

ClientPcs == {"idle", "prepare", "fill", "call", "submit", "poll", "take",
              "reset", "returned", "again", "fault", "exit"}

HandlerPcs == {"check", "claim", "dispatch", "ret", "done", "late_ret"}

(* The coroutine owns the ipc_msg that flex_ipc_create_msg gave it.         *)
Holding(c) == cpc[c] \in {"prepare", "fill", "call", "submit", "poll",
                          "take", "reset", "returned"}

(* The request the coroutine is waiting for, or was answered last.          *)
Current(c) == <<c, calls[c]>>

(* The shared pages are zeroed: LWIP_REQ_INIT is 0, and a slot that was     *)
(* never used has data_offset 0, where the state field reads as 0 as well.  *)
Init ==
  /\ occupied = [s \in Slots |-> FALSE]
  /\ req_state = [s \in Slots |-> "INIT"]
  /\ req = [s \in Slots |-> NoRequest]
  /\ ret = [s \in Slots |-> NoRequest]
  /\ storebuf = [s \in Slots |-> NoRequest]
  /\ running = NoCoroutine
  /\ cpc = [c \in Coroutines |-> "idle"]
  /\ cslot = [c \in Coroutines |-> 0]
  /\ calls = [c \in Coroutines |-> 0]
  /\ cret = [c \in Coroutines |-> NoRequest]
  /\ hpc = [h \in Handlers |-> "check"]
  /\ scan = [h \in Handlers |-> 0]
  /\ hreq = [h \in Handlers |-> NoRequest]
  /\ executed = {}
  /\ repeated = {}
-----------------------------------------------------------------------------
(* The client.                                                              *)

At(c, pc) == running = c /\ cpc[c] = pc
Goto(c, pc) == cpc' = [cpc EXCEPT ![c] = pc]

(* schedule: the scheduler resumes a coroutine at the point where it        *)
(* yielded (or starts it).  Module Coroutine has the queue.                 *)
Resume(c) ==
  /\ running = NoCoroutine
  /\ cpc[c] \in {"idle", "call"}
  /\ running' = c
  /\ UNCHANGED <<slotVars, cpc, cslot, calls, cret, serverVars>>

(* yield_coroutine outside a call, as the loops of test_net_server do.      *)
yield_coroutine(c) ==
  /\ At(c, "idle")
  /\ running' = NoCoroutine
  /\ UNCHANGED <<slotVars, cpc, cslot, calls, cret, serverVars>>

exit_coroutine(c) ==
  /\ At(c, "idle")
  /\ running' = NoCoroutine
  /\ Goto(c, "exit")
  /\ UNCHANGED <<slotVars, cslot, calls, cret, serverVars>>

FreeSlots == {s \in Slots : ~occupied[s]}
FirstFree(s) == s \in FreeSlots /\ \A t \in FreeSlots : s <= t

(* Mutant: the slot is handed out without being marked.                     *)
flex_ipc_create_msg_unmarked(c) ==
  /\ At(c, "idle")
  /\ calls[c] < MaxCalls
  /\ Goto(c, "prepare")
  /\ \E s \in Slots : FirstFree(s) /\ cslot' = [cslot EXCEPT ![c] = s]
  /\ UNCHANGED <<slotVars, running, calls, cret, serverVars>>

(* flex_ipc_create_msg: only the client accesses `occupied` and the scan    *)
(* contains no yield, so the scan and the store are one step.  With every   *)
(* slot occupied it returns NULL, which every caller dereferences.          *)
flex_ipc_create_msg(c) ==
  /\ At(c, "idle")
  /\ calls[c] < MaxCalls
  /\ \/ FreeSlots = {} /\ Goto(c, "fault") /\ UNCHANGED <<occupied, cslot>>
     \/ \E s \in Slots :
          /\ FirstFree(s)
          /\ Goto(c, "prepare")
          /\ cslot' = [cslot EXCEPT ![c] = s]
          /\ occupied' = [occupied EXCEPT ![s] = TRUE]
  /\ UNCHANGED <<req_state, req, ret, storebuf, running, calls, cret,
                 serverVars>>

(* lr_ptr->req_state = LWIP_REQ_INIT after every create in socket.c.        *)
PrepareRequest(c) ==
  /\ At(c, "prepare")
  /\ req_state' = [req_state EXCEPT ![cslot[c]] = "INIT"]
  /\ Goto(c, "fill")
  /\ UNCHANGED <<occupied, req, ret, storebuf, running, cslot, calls, cret,
                 serverVars>>

(* The caller stores the arguments and the data of its next request.  On a  *)
(* machine that reorders stores they may stay in the store buffer.          *)
FillRequest(c) ==
  LET s == cslot[c]
      next == <<c, calls[c] + 1>>
  IN /\ At(c, "fill")
     /\ storebuf[s] = NoRequest
     /\ calls' = [calls EXCEPT ![c] = @ + 1]
     /\ Goto(c, "call")
     /\ \/ req' = [req EXCEPT ![s] = next] /\ UNCHANGED storebuf
        \/ /\ ~Ordered
           /\ storebuf' = [storebuf EXCEPT ![s] = next]
           /\ UNCHANGED req
     /\ UNCHANGED <<occupied, req_state, ret, running, cslot, cret, serverVars>>

Flush(s) ==
  /\ storebuf[s] # NoRequest
  /\ req' = [req EXCEPT ![s] = storebuf[s]]
  /\ storebuf' = [storebuf EXCEPT ![s] = NoRequest]
  /\ UNCHANGED <<occupied, req_state, ret, clientVars, serverVars>>

(* Mutant: submit whenever the request is not done yet.                     *)
CallTestInit_resubmit(c) ==
  /\ At(c, "call")
  /\ Goto(c, IF req_state[cslot[c]] # "DONE" THEN "submit" ELSE "poll")
  /\ UNCHANGED <<slotVars, running, cslot, calls, cret, serverVars>>

(* Mutant: never submit.                                                    *)
CallTestInit_never(c) ==
  /\ At(c, "call")
  /\ Goto(c, "poll")
  /\ UNCHANGED <<slotVars, running, cslot, calls, cret, serverVars>>

(* flex_ipc_call, one iteration of its loop: the first test, ...            *)
CallTestInit(c) ==
  /\ At(c, "call")
  /\ Goto(c, IF req_state[cslot[c]] = "INIT" THEN "submit" ELSE "poll")
  /\ UNCHANGED <<slotVars, running, cslot, calls, cret, serverVars>>

(* ... the store it guards, ...                                             *)
CallSubmit(c) ==
  /\ At(c, "submit")
  /\ req_state' = [req_state EXCEPT ![cslot[c]] = "SUBMITTED"]
  /\ Goto(c, "poll")
  /\ UNCHANGED <<occupied, req, ret, storebuf, running, cslot, calls, cret,
                 serverVars>>

(* Mutant: a claimed request counts as done.                                *)
CallTestDone_claimed(c) ==
  /\ At(c, "poll")
  /\ \/ /\ req_state[cslot[c]] # "SUBMITTED"
        /\ Goto(c, "take")
        /\ UNCHANGED running
     \/ /\ req_state[cslot[c]] = "SUBMITTED"
        /\ Goto(c, "call")
        /\ running' = NoCoroutine
  /\ UNCHANGED <<slotVars, cslot, calls, cret, serverVars>>

(* ... the second test, which yields until the server is done, ...          *)
CallTestDone(c) ==
  /\ At(c, "poll")
  /\ \/ /\ req_state[cslot[c]] = "DONE"
        /\ Goto(c, "take")
        /\ UNCHANGED running
     \/ /\ req_state[cslot[c]] # "DONE"
        /\ Goto(c, "call")
        /\ running' = NoCoroutine
  /\ UNCHANGED <<slotVars, cslot, calls, cret, serverVars>>

(* ... the load of the return value, ...                                    *)
CallTakeRet(c) ==
  /\ At(c, "take")
  /\ cret' = [cret EXCEPT ![c] = ret[cslot[c]]]
  /\ Goto(c, "reset")
  /\ UNCHANGED <<slotVars, running, cslot, calls, serverVars>>

(* ... and the store that makes the slot ready for its next request.        *)
CallReset(c) ==
  /\ At(c, "reset")
  /\ req_state' = [req_state EXCEPT ![cslot[c]] = "INIT"]
  /\ Goto(c, "returned")
  /\ UNCHANGED <<occupied, req, ret, storebuf, running, cslot, calls, cret,
                 serverVars>>

(* A transfer larger than LWIP_DATA_LEN calls again with the same message.  *)
NextPart(c) ==
  /\ At(c, "returned")
  /\ calls[c] < MaxCalls
  /\ Goto(c, "fill")
  /\ UNCHANGED <<slotVars, running, cslot, calls, cret, serverVars>>

(* Mutant: the slot is never given back.                                    *)
flex_ipc_destroy_msg_leak(c) ==
  /\ At(c, "returned")
  /\ Goto(c, "idle")
  /\ UNCHANGED <<slotVars, running, cslot, calls, cret, serverVars>>

(* flex_ipc_destroy_msg.  chcore_recvmsg destroys a large message twice.    *)
flex_ipc_destroy_msg(c) ==
  /\ \/ At(c, "returned") /\ \E pc \in {"idle", "again"} : Goto(c, pc)
     \/ At(c, "again") /\ Goto(c, "idle")
  /\ occupied' = [occupied EXCEPT ![cslot[c]] = FALSE]
  /\ UNCHANGED <<req_state, req, ret, storebuf, running, cslot, calls, cret,
                 serverVars>>

(* What a coroutine does while it has the kernel thread.                    *)
CoroutineStep(c) ==
  \/ yield_coroutine(c) \/ exit_coroutine(c)
  \/ flex_ipc_create_msg(c) \/ PrepareRequest(c) \/ FillRequest(c)
  \/ CallTestInit(c) \/ CallSubmit(c) \/ CallTestDone(c)
  \/ CallTakeRet(c) \/ CallReset(c)
  \/ NextPart(c) \/ flex_ipc_destroy_msg(c)
-----------------------------------------------------------------------------
(* The server: flex_lwip_main and flex_lwip_handler run the same loop.      *)

HGoto(h, pc) == hpc' = [hpc EXCEPT ![h] = pc]

(* Mutant: the loop ends one slot early.                                    *)
ScanNext_short(h) ==
  scan' = [scan EXCEPT ![h] = IF @ + 2 < MAX_FLEX_IPC_COUNT THEN @ + 1 ELSE 0]

ScanNext(h) ==
  scan' = [scan EXCEPT ![h] = IF @ + 1 < MAX_FLEX_IPC_COUNT THEN @ + 1 ELSE 0]

(* if (lr->req_state == LWIP_REQ_SUBMITTED) ...                             *)
HandlerTest(h) ==
  /\ hpc[h] = "check"
  /\ \/ /\ req_state[scan[h]] = "SUBMITTED"
        /\ HGoto(h, "claim")
        /\ UNCHANGED scan
     \/ /\ req_state[scan[h]] # "SUBMITTED"
        /\ ScanNext(h)
        /\ UNCHANGED hpc
  /\ UNCHANGED <<slotVars, clientVars, hreq, executed, repeated>>

(* ... lr->req_state = LWIP_REQ_BUSY: not one atomic step with the test.    *)
HandlerClaim(h) ==
  /\ hpc[h] = "claim"
  /\ req_state' = [req_state EXCEPT ![scan[h]] = "BUSY"]
  /\ HGoto(h, "dispatch")
  /\ UNCHANGED <<occupied, req, ret, storebuf, clientVars, scan, hreq,
                 executed, repeated>>

(* lwip_dispatch: read the request and let the network stack execute it.    *)
lwip_dispatch(h) ==
  LET r == req[scan[h]]
  IN /\ hpc[h] = "dispatch"
     /\ hreq' = [hreq EXCEPT ![h] = r]
     /\ executed' = executed \union {r}
     /\ repeated' = IF r \in executed THEN repeated \union {r} ELSE repeated
     /\ HGoto(h, "ret")
     /\ UNCHANGED <<slotVars, clientVars, scan>>

(* flex_ipc_return: lr->ret = ret, then lr->req_state = LWIP_REQ_DONE.  A   *)
(* machine that reorders stores may make the second visible first.          *)
ReturnRet(h) ==
  /\ hpc[h] = "ret" \/ hpc[h] = "late_ret"
  /\ ret' = [ret EXCEPT ![scan[h]] = hreq[h]]
  /\ IF hpc[h] = "ret"
     THEN HGoto(h, "done") /\ UNCHANGED scan
     ELSE HGoto(h, "check") /\ ScanNext(h)
  /\ UNCHANGED <<occupied, req_state, req, storebuf, clientVars, hreq,
                 executed, repeated>>

(* Mutant: the state is stored before the return value.                     *)
ReturnDone_swapped(h) ==
  /\ \/ hpc[h] = "done" /\ HGoto(h, "check") /\ ScanNext(h)
     \/ hpc[h] = "ret" /\ HGoto(h, "late_ret") /\ UNCHANGED scan
  /\ req_state' = [req_state EXCEPT ![scan[h]] = "DONE"]
  /\ UNCHANGED <<occupied, req, ret, storebuf, clientVars, hreq, executed,
                 repeated>>

ReturnDone(h) ==
  /\ \/ hpc[h] = "done" /\ HGoto(h, "check") /\ ScanNext(h)
     \/ ~Ordered /\ hpc[h] = "ret" /\ HGoto(h, "late_ret") /\ UNCHANGED scan
  /\ req_state' = [req_state EXCEPT ![scan[h]] = "DONE"]
  /\ UNCHANGED <<occupied, req, ret, storebuf, clientVars, hreq, executed,
                 repeated>>

HandlerStep(h) ==
  \/ HandlerTest(h) \/ HandlerClaim(h) \/ lwip_dispatch(h)
  \/ ReturnRet(h) \/ ReturnDone(h)
-----------------------------------------------------------------------------
Next ==
  \/ \E c \in Coroutines : Resume(c) \/ CoroutineStep(c)
  \/ \E h \in Handlers : HandlerStep(h)
  \/ \E s \in Slots : Flush(s)

Spec == Init /\ [][Next]_vars

(* The handler threads have cores of their own and lwip_dispatch returns;   *)
(* the client's kernel thread is scheduled; a store buffer drains; and the  *)
(* coroutine scheduler is round robin, so a coroutine that waits in the     *)
(* queue is resumed again and again.                                        *)
Fairness ==
  /\ \A h \in Handlers : WF_vars(HandlerStep(h))
  /\ \A c \in Coroutines : WF_vars(CoroutineStep(c)) /\ SF_vars(Resume(c))
  /\ \A s \in Slots : WF_vars(Flush(s))

FairSpec == Spec /\ Fairness
-----------------------------------------------------------------------------
(* Properties.                                                              *)

(* Every variable has its type.                                             *)
TypeOK ==
  /\ occupied \in [Slots -> BOOLEAN]
  /\ req_state \in [Slots -> ReqStates]
  /\ req \in [Slots -> Messages]
  /\ ret \in [Slots -> Messages]
  /\ storebuf \in [Slots -> Messages]
  /\ running \in Coroutines \union {NoCoroutine}
  /\ cpc \in [Coroutines -> ClientPcs]
  /\ cslot \in [Coroutines -> Slots]
  /\ calls \in [Coroutines -> 0 .. MaxCalls]
  /\ cret \in [Coroutines -> Messages]
  /\ hpc \in [Handlers -> HandlerPcs]
  /\ scan \in [Handlers -> Slots]
  /\ hreq \in [Handlers -> Messages]
  /\ executed \subseteq Messages
  /\ repeated \subseteq executed

(* Two coroutines never hold the same slot, and the slot of a coroutine     *)
(* that holds one is marked occupied: flex_ipc_create_msg and               *)
(* flex_ipc_destroy_msg allocate the slots "without overlapping" although   *)
(* they take no lock, whatever the server does.                             *)
SlotExclusive ==
  \A c \in Coroutines : Holding(c) =>
    /\ occupied[cslot[c]]
    /\ \A d \in Coroutines : Holding(d) /\ cslot[d] = cslot[c] => c = d

(* With at most as many coroutines as slots, flex_ipc_create_msg never      *)
(* returns NULL to a caller that would dereference it: no slot leaks.       *)
NoFault ==
  Cardinality(Coroutines) <= MAX_FLEX_IPC_COUNT =>
    \A c \in Coroutines : cpc[c] # "fault"

(* lwip_dispatch executes no request twice: a socket is not created,        *)
(* accepted, read or written a second time for one call of the client.      *)
HandledOnce == repeated = {}

(* What flex_ipc_call returns is the reply to the request it was called     *)
(* for, and the server has executed that request.                           *)
ReplyMatches ==
  \A c \in Coroutines : cpc[c] \in {"reset", "returned"} =>
    cret[c] = Current(c) /\ Current(c) \in executed

(* While a handler thread works on a slot, the slot belongs to a coroutine  *)
(* that waits for exactly that request: no store of the server hits a slot  *)
(* that was given back, or given to somebody else, in the meantime.         *)
NoStrayHandler ==
  \A h \in Handlers : hpc[h] # "check" =>
    \E c \in Coroutines :
      /\ cpc[c] \in {"call", "poll"}
      /\ cslot[c] = scan[h]
      /\ hpc[h] \in {"ret", "done"} => hreq[h] = Current(c)

(* The state of a slot only moves INIT, SUBMITTED, BUSY, DONE and back.     *)
Successor == [INIT |-> "SUBMITTED", SUBMITTED |-> "BUSY",
              BUSY |-> "DONE", DONE |-> "INIT"]
Lifecycle ==
  [][\A s \in Slots : req_state'[s] \in {req_state[s], Successor[req_state[s]]}]_vars

(* FlexIPC is a remote procedure call: a request is called when its         *)
(* arguments are stored, executed in lwip_dispatch, and returned when       *)
(* flex_ipc_call has read its return value.                                 *)
Phase(c) ==
  IF cpc[c] \notin {"call", "submit", "poll", "take"} THEN "idle"
  ELSE IF Current(c) \in executed THEN "executed" ELSE "called"
Call == INSTANCE RemoteCall WITH
  Callers <- Coroutines, NoReply <- NoRequest,
  phase <- [c \in Coroutines |-> Phase(c)], issued <- calls, reply <- cret

(* Each call is executed exactly once before it returns its own reply, ...  *)
IsRemoteCall == Call!Spec

(* ... and none of them is left unexecuted or without a return.             *)
IsFairRemoteCall == Call!FairSpec

(* Every call returns to its coroutine, also with handlers that race for    *)
(* it, unless flex_ipc_create_msg has crashed the process.                  *)
CallReturns ==
  \A c \in Coroutines :
    (cpc[c] = "call") ~> (cpc[c] = "returned" \/ \E d \in Coroutines : cpc[d] = "fault")
-----------------------------------------------------------------------------
(* The inductive invariants behind the safety properties.                   *)

(* Only the running coroutine is anywhere but at a yield point.             *)
RunningInv ==
  \A c \in Coroutines :
    /\ cpc[c] \notin {"idle", "call", "exit"} => running = c
    /\ cpc[c] \in {"prepare", "fill"} => calls[c] < MaxCalls

(* A slot is occupied exactly when a coroutine holds it; the second destroy *)
(* of a message finds it free, because nothing ran since the first.         *)
AllocInv ==
  /\ SlotExclusive
  /\ \A c \in Coroutines : cpc[c] = "again" => ~occupied[cslot[c]]
  /\ \A s \in Slots : occupied[s] =>
       \E c \in Coroutines : Holding(c) /\ cslot[c] = s

(* What the state of a slot says about the coroutine that holds it, ...     *)
HolderInv(c) ==
  LET s == cslot[c]
      st == req_state[s]
  IN /\ cpc[c] \in {"prepare", "fill", "submit", "returned"} => st = "INIT"
     /\ cpc[c] \in {"take", "reset"} => st = "DONE"
     /\ cpc[c] = "poll" => st # "INIT"
     /\ cpc[c] \in {"call", "submit", "poll", "take", "reset"} =>
          req[s] = Current(c)
     /\ cpc[c] \in {"call", "submit"} /\ st = "INIT" =>
          Current(c) \notin executed
     /\ st = "SUBMITTED" => Current(c) \notin executed
     /\ st = "DONE" => ret[s] = Current(c) /\ Current(c) \in executed
     /\ cpc[c] \in {"reset", "returned"} =>
          cret[c] = Current(c) /\ Current(c) \in executed

(* ... and about the handler thread that works on it.                       *)
HandlerInv(h) ==
  LET s == scan[h]
  IN /\ hpc[h] # "late_ret"
     /\ hpc[h] # "check" => occupied[s]
     /\ hpc[h] = "claim" => req_state[s] = "SUBMITTED"
     /\ hpc[h] \in {"dispatch", "ret", "done"} => req_state[s] = "BUSY"
     /\ hpc[h] = "dispatch" => req[s] \notin executed
     /\ hpc[h] \in {"ret", "done"} => hreq[h] = req[s] /\ hreq[h] \in executed
     /\ hpc[h] = "done" => ret[s] = hreq[h]

(* With one handler thread and ordered stores the slots follow a protocol.  *)
ProtocolInv ==
  /\ \A s \in Slots : storebuf[s] = NoRequest
  /\ \A s \in Slots : ~occupied[s] => req_state[s] = "INIT"
  /\ \A c \in Coroutines : Holding(c) => HolderInv(c)
  /\ \A h \in Handlers : HandlerInv(h)
  /\ \A c \in Coroutines, n \in 1 .. MaxCalls : <<c, n>> \in executed => n <= calls[c]
  /\ repeated = {}
=============================================================================
