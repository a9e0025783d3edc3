---------------------------- MODULE FlexIpcProofs ----------------------------
(***************************************************************************)
(* Proofs about FlexIpc, for any set of coroutines, any number of slots    *)
(* and, unless a theorem says otherwise, any set of handler threads.       *)
(***************************************************************************)
EXTENDS FlexIpc, FiniteSetTheorems, TLAPS

(* The loop index of a handler thread stays within the shared memory.       *)
LEMMA ScanInRange ==
  ASSUME NEW h \in Handlers, scan \in [Handlers -> Slots], ScanNext(h)
  PROVE  scan' \in [Handlers -> Slots]
<1>1. \A i \in Slots : (IF i + 1 < MAX_FLEX_IPC_COUNT THEN i + 1 ELSE 0) \in Slots
  BY FlexIpcAssumption, SMTT(30) DEF Slots
<1> QED BY <1>1, Zenon DEF ScanNext
-----------------------------------------------------------------------------
TypeInv == TypeOK /\ RunningInv

(* The tables after start-up have their types.                              *)
LEMMA TypeInit == Init => TypeInv
BY FlexIpcAssumption, SMTT(30)
   DEF Init, TypeInv, TypeOK, RunningInv, Slots, ReqStates, ClientPcs, HandlerPcs,
       Messages

(* Every step keeps the types, and one coroutine at a time between yields.  *)
LEMMA TypeNext == TypeInv /\ [Next]_vars => TypeInv'
<1> SUFFICES ASSUME TypeInv, [Next]_vars PROVE TypeInv'
  OBVIOUS
<1>1. ASSUME NEW c \in Coroutines, Resume(c) PROVE TypeInv'
  BY <1>1, FlexIpcAssumption, Zenon
     DEF Resume, slotVars, serverVars, TypeInv, TypeOK, RunningInv
<1>2. ASSUME NEW c \in Coroutines, yield_coroutine(c) PROVE TypeInv'
  BY <1>2, Zenon
     DEF yield_coroutine, At, slotVars, serverVars, TypeInv, TypeOK, RunningInv
<1>3. ASSUME NEW c \in Coroutines, exit_coroutine(c) PROVE TypeInv'
  BY <1>3, Zenon
     DEF exit_coroutine, At, Goto, slotVars, serverVars, ClientPcs, TypeInv, TypeOK,
         RunningInv
<1>4. ASSUME NEW c \in Coroutines, flex_ipc_create_msg(c) PROVE TypeInv'
  <2>1. CASE FreeSlots = {}
    BY <1>4, <2>1, Zenon
       DEF flex_ipc_create_msg, FirstFree, At, Goto, serverVars, ClientPcs, TypeInv,
           TypeOK, RunningInv
  <2>2. CASE FreeSlots # {}
    <3>1. PICK f \in Slots :
          /\ cpc' = [cpc EXCEPT ![c] = "prepare"]
          /\ cslot' = [cslot EXCEPT ![c] = f]
          /\ occupied' = [occupied EXCEPT ![f] = TRUE]
          /\ running = c /\ calls[c] < MaxCalls
          /\ UNCHANGED <<req_state, req, ret, storebuf, running, calls, cret,
                         serverVars>>
      BY <1>4, <2>2, Zenon DEF flex_ipc_create_msg, At, Goto
    <3> QED BY <3>1, Zenon DEF serverVars, ClientPcs, TypeInv, TypeOK, RunningInv
  <2> QED BY <2>1, <2>2, Zenon
<1>5. ASSUME NEW c \in Coroutines, PrepareRequest(c) PROVE TypeInv'
  BY <1>5, Zenon
     DEF PrepareRequest, At, Goto, serverVars, ClientPcs, ReqStates, TypeInv, TypeOK,
         RunningInv
<1>6. ASSUME NEW c \in Coroutines, FillRequest(c) PROVE TypeInv'
  <2>1. <<c, calls[c] + 1>> \in Messages
    BY <1>6, FlexIpcAssumption, SMTT(30)
       DEF FillRequest, At, Requests, Messages, TypeInv, TypeOK, RunningInv
  <2>2. calls[c] + 1 \in 0 .. MaxCalls
    BY <1>6, FlexIpcAssumption, SMTT(30)
       DEF FillRequest, At, TypeInv, TypeOK, RunningInv
  <2> QED BY <1>6, <2>1, <2>2, SMTT(30)
        DEF FillRequest, At, Goto, serverVars, ClientPcs, TypeInv, TypeOK, RunningInv
<1>7. ASSUME NEW s \in Slots, Flush(s) PROVE TypeInv'
  <2>1. NoRequest \in Messages
    BY Zenon DEF Messages
  <2> QED BY <1>7, <2>1, Zenon
        DEF Flush, clientVars, serverVars, TypeInv, TypeOK, RunningInv
<1>8. ASSUME NEW c \in Coroutines, CallTestInit(c) PROVE TypeInv'
  BY <1>8, Zenon
     DEF CallTestInit, At, Goto, slotVars, serverVars, ClientPcs, TypeInv, TypeOK,
         RunningInv
<1>9. ASSUME NEW c \in Coroutines, CallSubmit(c) PROVE TypeInv'
  BY <1>9, Zenon
     DEF CallSubmit, At, Goto, serverVars, ClientPcs, ReqStates, TypeInv, TypeOK,
         RunningInv
<1>10. ASSUME NEW c \in Coroutines, CallTestDone(c) PROVE TypeInv'
  BY <1>10, Zenon
     DEF CallTestDone, At, Goto, slotVars, serverVars, ClientPcs, TypeInv, TypeOK,
         RunningInv
<1>11. ASSUME NEW c \in Coroutines, CallTakeRet(c) PROVE TypeInv'
  BY <1>11, Zenon
     DEF CallTakeRet, At, Goto, slotVars, serverVars, ClientPcs, TypeInv, TypeOK,
         RunningInv
<1>12. ASSUME NEW c \in Coroutines, CallReset(c) PROVE TypeInv'
  BY <1>12, Zenon
     DEF CallReset, At, Goto, serverVars, ClientPcs, ReqStates, TypeInv, TypeOK,
         RunningInv
<1>13. ASSUME NEW c \in Coroutines, NextPart(c) PROVE TypeInv'
  BY <1>13, Zenon
     DEF NextPart, At, Goto, slotVars, serverVars, ClientPcs, TypeInv, TypeOK,
         RunningInv
<1>14. ASSUME NEW c \in Coroutines, flex_ipc_destroy_msg(c) PROVE TypeInv'
  BY <1>14, Zenon
     DEF flex_ipc_destroy_msg, At, Goto, serverVars, ClientPcs, TypeInv, TypeOK,
         RunningInv
<1>15. ASSUME NEW h \in Handlers, HandlerTest(h) PROVE TypeInv'
  BY <1>15, ScanInRange, Zenon
     DEF HandlerTest, HGoto, slotVars, clientVars, HandlerPcs, TypeInv, TypeOK,
         RunningInv
<1>16. ASSUME NEW h \in Handlers, HandlerClaim(h) PROVE TypeInv'
  BY <1>16, FlexIpcAssumption, Zenon
     DEF HandlerClaim, HGoto, clientVars, HandlerPcs, ReqStates, TypeInv, TypeOK,
         RunningInv
<1>17. ASSUME NEW h \in Handlers, lwip_dispatch(h) PROVE TypeInv'
  BY <1>17, SMTT(30)
     DEF lwip_dispatch, HGoto, slotVars, clientVars, HandlerPcs, TypeInv, TypeOK,
         RunningInv
<1>18. ASSUME NEW h \in Handlers, ReturnRet(h) PROVE TypeInv'
  BY <1>18, ScanInRange, Zenon
     DEF ReturnRet, HGoto, clientVars, HandlerPcs, TypeInv, TypeOK, RunningInv
<1>19. ASSUME NEW h \in Handlers, ReturnDone(h) PROVE TypeInv'
  BY <1>19, ScanInRange, FlexIpcAssumption, Zenon
     DEF ReturnDone, HGoto, clientVars, HandlerPcs, ReqStates, TypeInv, TypeOK,
         RunningInv
<1>20. CASE UNCHANGED vars
  BY <1>20, Zenon
     DEF vars, slotVars, clientVars, serverVars, TypeInv, TypeOK, RunningInv
<1>21. ASSUME NEW c \in Coroutines, CoroutineStep(c) PROVE TypeInv'
  BY <1>2, <1>3, <1>4, <1>5, <1>6, <1>8, <1>9, <1>10, <1>11, <1>12, <1>13,
     <1>14, <1>21, Zenon DEF CoroutineStep
<1>22. ASSUME NEW h \in Handlers, HandlerStep(h) PROVE TypeInv'
  BY <1>15, <1>16, <1>17, <1>18, <1>19, <1>22, Zenon DEF HandlerStep
<1> QED BY <1>1, <1>7, <1>20, <1>21, <1>22, Zenon DEF Next

(* Every variable keeps its type, and only the running coroutine is         *)
(* between two yield points.                                                *)
THEOREM TypeCorrect == Spec => []TypeOK
<1>1. Spec => []TypeInv
  BY TypeInit, TypeNext, PTL DEF Spec
<1> QED BY <1>1, PTL DEF TypeInv
-----------------------------------------------------------------------------
(* Slot allocation.                                                         *)

(* At start-up no slot is occupied and no call holds one.                   *)
LEMMA AllocInit == Init => AllocInv
BY SMTT(30) DEF Init, AllocInv, SlotExclusive, Holding

(* Steps of the server and of the store buffer do not concern allocation.   *)
LEMMA AllocFrame ==
  AllocInv /\ UNCHANGED <<occupied, cpc, cslot>> => AllocInv'
BY SMTT(30) DEF AllocInv, SlotExclusive, Holding

(* A step of a coroutine that keeps holding its slot, or keeps holding none.*)
LEMMA AllocStay ==
  ASSUME TypeOK, AllocInv, NEW c \in Coroutines, NEW pc \in ClientPcs,
         Goto(c, pc), UNCHANGED <<occupied, cslot>>,
         cpc[c] # "again", pc # "again",
         Holding(c) <=> pc \in {"prepare", "fill", "call", "submit", "poll",
                                "take", "reset", "returned"}
  PROVE  AllocInv'
<1>1. \A d \in Coroutines : Holding(d)' <=> Holding(d)
  BY SMTT(30) DEF Goto, Holding
<1>2. \A d \in Coroutines : cpc'[d] = "again" => cpc[d] = "again"
  BY SMTT(30) DEF Goto
<1> QED BY <1>1, <1>2, Zenon DEF AllocInv, SlotExclusive

LEMMA AllocNext == TypeInv /\ AllocInv /\ [Next]_vars => AllocInv'
<1> SUFFICES ASSUME TypeInv, AllocInv, [Next]_vars PROVE AllocInv'
  OBVIOUS
<1>1. ASSUME NEW c \in Coroutines, Resume(c) \/ yield_coroutine(c)
      PROVE AllocInv'
  BY <1>1, AllocFrame, Zenon DEF Resume, yield_coroutine, slotVars, TypeInv
<1>2. ASSUME NEW c \in Coroutines, exit_coroutine(c) PROVE AllocInv'
  BY <1>2, AllocStay, Zenon
     DEF exit_coroutine, At, Holding, slotVars, ClientPcs, TypeInv
<1>3. ASSUME NEW c \in Coroutines, flex_ipc_create_msg(c) PROVE AllocInv'
  <2>1. CASE FreeSlots = {}
    BY <1>3, <2>1, AllocStay, Zenon
       DEF flex_ipc_create_msg, FirstFree, At, Holding, ClientPcs, TypeInv
  <2>2. CASE FreeSlots # {}
    <3>1. PICK f \in Slots :
          /\ ~occupied[f]
          /\ cpc' = [cpc EXCEPT ![c] = "prepare"]
          /\ cslot' = [cslot EXCEPT ![c] = f]
          /\ occupied' = [occupied EXCEPT ![f] = TRUE]
          /\ running = c /\ cpc[c] = "idle"
      BY <1>3, <2>2, Zenon DEF flex_ipc_create_msg, At, Goto, FirstFree, FreeSlots
    <3>2. \A d \in Coroutines : d # c =>
            /\ cslot'[d] = cslot[d]
            /\ cpc'[d] = cpc[d]
            /\ Holding(d)' <=> Holding(d)
            /\ Holding(d) => cslot[d] # f
      BY <3>1, SMTT(30) DEF AllocInv, SlotExclusive, Holding
    <3>3. Holding(c)' /\ cslot'[c] = f /\ ~Holding(c) /\ cpc'[c] = "prepare"
      BY <3>1, Zenon DEF TypeOK, Holding, TypeInv
    <3>4. occupied'[f] /\ \A s \in Slots : s # f => occupied'[s] = occupied[s]
      BY <3>1, Zenon DEF TypeOK, TypeInv
    <3>5. SlotExclusive'
      BY <3>2, <3>3, <3>4, SMTT(30) DEF TypeOK, AllocInv, SlotExclusive, TypeInv
    <3>6. \A d \in Coroutines : cpc'[d] # "again"
      BY <3>1, SMTT(30) DEF RunningInv, TypeInv
    <3>7. \A s \in Slots : occupied'[s] =>
            \E d \in Coroutines : Holding(d)' /\ cslot'[d] = s
      BY <3>2, <3>3, <3>4, SMTT(30) DEF AllocInv, TypeInv
    <3> QED BY <3>5, <3>6, <3>7, Zenon DEF AllocInv
  <2> QED BY <2>1, <2>2, Zenon
<1>4. ASSUME NEW c \in Coroutines,
             PrepareRequest(c) \/ FillRequest(c) \/ CallTestInit(c)
             \/ CallSubmit(c) \/ CallTestDone(c) \/ CallTakeRet(c)
             \/ CallReset(c) \/ NextPart(c)
      PROVE AllocInv'
  <2>1. /\ UNCHANGED <<occupied, cslot>>
        /\ Holding(c) /\ cpc[c] # "again"
        /\ \E pc \in {"fill", "call", "submit", "poll", "take", "reset",
                      "returned"} : Goto(c, pc)
    BY <1>4, Zenon
       DEF PrepareRequest, FillRequest, CallTestInit, CallSubmit, CallTestDone,
           CallTakeRet, CallReset, NextPart, At, Holding, slotVars, TypeInv
  <2> QED BY <2>1, AllocStay, Zenon DEF ClientPcs, TypeInv
<1>5. ASSUME NEW c \in Coroutines, flex_ipc_destroy_msg(c) PROVE AllocInv'
  <2> DEFINE s == cslot[c]
  <2>1. PICK pc \in {"idle", "again"} :
          /\ cpc' = [cpc EXCEPT ![c] = pc]
          /\ occupied' = [occupied EXCEPT ![s] = FALSE]
          /\ cslot' = cslot
          /\ running = c /\ cpc[c] \in {"returned", "again"}
    BY <1>5, Zenon DEF flex_ipc_destroy_msg, At, Goto
  <2>2. s \in Slots /\ ~occupied'[s]
        /\ \A t \in Slots : t # s => occupied'[t] = occupied[t]
    BY <2>1, Zenon DEF TypeOK, TypeInv
  <2>3. \A d \in Coroutines : d # c =>
          /\ Holding(d)' <=> Holding(d)
          /\ Holding(d) => cslot[d] # s
          /\ cpc'[d] # "again"
    BY <2>1, SMTT(30) DEF RunningInv, AllocInv, SlotExclusive, Holding, TypeInv
  <2>4. ~Holding(c)'
    BY <2>1, Zenon DEF TypeOK, Holding, TypeInv
  <2>5. SlotExclusive'
    BY <2>1, <2>3, <2>4, SMTT(30) DEF AllocInv, SlotExclusive
  <2>6. \A t \in Slots : occupied'[t] =>
          \E d \in Coroutines : Holding(d)' /\ cslot'[d] = t
    BY <2>1, <2>2, <2>3, SMTT(30) DEF AllocInv
  <2> QED BY <2>1, <2>2, <2>5, <2>6, SMTT(30) DEF AllocInv
<1>6. ASSUME NEW h \in Handlers, HandlerStep(h) PROVE AllocInv'
  BY <1>6, AllocFrame, Zenon
     DEF HandlerStep, HandlerTest, HandlerClaim, lwip_dispatch, ReturnRet, ReturnDone,
         slotVars, clientVars
<1>7. ASSUME NEW s \in Slots, Flush(s) PROVE AllocInv'
  BY <1>7, AllocFrame, Zenon DEF Flush, clientVars
<1>8. CASE UNCHANGED vars
  BY <1>8, AllocFrame, Zenon DEF vars, slotVars, clientVars
<1> QED
  BY <1>1, <1>2, <1>3, <1>4, <1>5, <1>6, <1>7, <1>8, Zenon DEF Next, CoroutineStep

(* flex_ipc_create_msg and flex_ipc_destroy_msg never give one slot to two  *)
(* coroutines, for any number of coroutines, slots and handler threads and  *)
(* whatever the order in which stores become visible.                       *)
THEOREM SlotsExclusive == Spec => []SlotExclusive
<1>1. Init => TypeInv /\ AllocInv
  BY TypeInit, AllocInit, Zenon
<1>2. TypeInv /\ AllocInv /\ [Next]_vars => (TypeInv /\ AllocInv)'
  BY TypeNext, AllocNext, Zenon
<1> QED BY <1>1, <1>2, PTL DEF Spec, AllocInv
-----------------------------------------------------------------------------
(***************************************************************************)
(* The shared memory of a connection is large enough for as many coroutines*)
(* as it has slots.                                                        *)
(***************************************************************************)
(* While fewer coroutines than slots wait, some slot is free: a coroutine   *)
(* that holds none finds one.                                               *)
LEMMA SlotLeft ==
  ASSUME AllocInv, NEW c \in Coroutines, ~Holding(c),
         Cardinality(Coroutines) <= MAX_FLEX_IPC_COUNT
  PROVE  FreeSlots # {}
<1> SUFFICES ASSUME FreeSlots = {} PROVE FALSE
  OBVIOUS
<1> DEFINE Others == Coroutines \ {c}
           f == [s \in Slots |-> CHOOSE d \in Others : cslot[d] = s]
<1>1. \A s \in Slots : \E d \in Others : cslot[d] = s
  BY Zenon DEF AllocInv, FreeSlots
<1>2. \A s \in Slots : f[s] \in Others /\ cslot[f[s]] = s
  BY <1>1, Zenon
<1>3. f \in Injection(Slots, Others)
  BY <1>2, SMTT(30) DEF Injection, IsInjective
<1>4. /\ IsFiniteSet(Others)
      /\ Cardinality(Others) = Cardinality(Coroutines) - 1
  BY FlexIpcAssumption, FS_RemoveElement, Zenon
<1>5. Cardinality(Slots) = MAX_FLEX_IPC_COUNT
  BY FlexIpcAssumption, FS_Interval, SMTT(30) DEF Slots
<1>6. Cardinality(Slots) <= Cardinality(Others)
  BY <1>3, <1>4, FS_Injection, Zenon
<1>7. Cardinality(Coroutines) \in Nat
  BY FlexIpcAssumption, FS_CardinalityType, Zenon
<1> QED BY <1>4, <1>5, <1>6, <1>7, FlexIpcAssumption, SMTT(30)

(* With at most MAX_FLEX_IPC_COUNT coroutines flex_ipc_create_msg never     *)
(* returns NULL, so no caller dereferences it.                              *)
THEOREM SlotsSuffice == Spec => []NoFault
<1> DEFINE Inv == TypeInv /\ AllocInv /\ NoFault
<1>1. Init => Inv
  BY TypeInit, AllocInit, Zenon DEF Init, NoFault
<1>2. Inv /\ [Next]_vars => Inv'
  <2> SUFFICES ASSUME Inv, [Next]_vars,
                      Cardinality(Coroutines) <= MAX_FLEX_IPC_COUNT
               PROVE  \A c \in Coroutines : cpc'[c] # "fault"
    BY TypeNext, AllocNext, Zenon DEF NoFault
  <2>1. ASSUME NEW c \in Coroutines, flex_ipc_create_msg(c)
        PROVE  \A d \in Coroutines : cpc'[d] # "fault"
    <3>1. FreeSlots # {}
      BY <2>1, SlotLeft, Zenon DEF flex_ipc_create_msg, At, Holding
    <3> QED BY <2>1, <3>1, SMTT(30)
          DEF flex_ipc_create_msg, Goto, NoFault, TypeInv, TypeOK
  <2>2. ASSUME NEW c \in Coroutines,
               exit_coroutine(c)
               \/ PrepareRequest(c) \/ FillRequest(c) \/ CallTestInit(c)
               \/ CallSubmit(c) \/ CallTestDone(c) \/ CallTakeRet(c)
               \/ CallReset(c) \/ NextPart(c) \/ flex_ipc_destroy_msg(c)
        PROVE  \A d \in Coroutines : cpc'[d] # "fault"
    <3>1. PICK pc \in ClientPcs \ {"fault"} : cpc' = [cpc EXCEPT ![c] = pc]
      BY <2>2, Zenon
         DEF exit_coroutine, PrepareRequest, FillRequest, CallTestInit, CallSubmit,
             CallTestDone, CallTakeRet, CallReset, NextPart, flex_ipc_destroy_msg,
             Goto, ClientPcs
    <3> QED BY <3>1, SMTT(30) DEF NoFault
  <2>3. CASE UNCHANGED cpc
    BY <2>3, Zenon DEF NoFault
  <2>4. ASSUME NEW c \in Coroutines, Resume(c) \/ yield_coroutine(c)
        PROVE  UNCHANGED cpc
    BY <2>4, Zenon DEF Resume, yield_coroutine
  <2>5. ASSUME NEW h \in Handlers, HandlerStep(h) PROVE UNCHANGED cpc
    BY <2>5, Zenon DEF HandlerStep, HandlerTest, HandlerClaim, lwip_dispatch, ReturnRet,
           ReturnDone, clientVars
  <2>6. ASSUME NEW s \in Slots, Flush(s) PROVE UNCHANGED cpc
    BY <2>6, Zenon DEF Flush, clientVars
  <2>7. UNCHANGED vars => UNCHANGED cpc
    BY Zenon DEF vars, clientVars
  <2>8. ASSUME NEW c \in Coroutines, CoroutineStep(c)
        PROVE  \A d \in Coroutines : cpc'[d] # "fault"
    BY <2>1, <2>2, <2>3, <2>4, <2>8, Zenon DEF CoroutineStep
  <2> QED BY <2>3, <2>4, <2>5, <2>6, <2>7, <2>8, Zenon DEF Next
<1> QED BY <1>1, <1>2, PTL DEF Spec
-----------------------------------------------------------------------------
(***************************************************************************)
(* The request protocol, first half: with ordered stores the steps of the  *)
(* coroutines of the client keep ProtocolInv.                              *)
(***************************************************************************)
LEMMA ProtocolInit == Init => ProtocolInv
BY SMTT(30) DEF Init, ProtocolInv, Holding, HandlerInv

(* A step that changes neither coroutine d, nor its slot, nor the history   *)
(* leaves what the protocol says about d alone; ...                         *)
LEMMA HolderFrame ==
  ASSUME NEW d \in Coroutines, HolderInv(d),
         cpc'[d] = cpc[d], cslot'[d] = cslot[d], calls'[d] = calls[d],
         cret'[d] = cret[d], executed' = executed,
         req_state'[cslot[d]] = req_state[cslot[d]],
         req'[cslot[d]] = req[cslot[d]], ret'[cslot[d]] = ret[cslot[d]]
  PROVE  HolderInv(d)'
BY Zenon DEF HolderInv, Current

(* ... and likewise for a handler thread.                                   *)
LEMMA HandlerFrame ==
  ASSUME NEW h \in Handlers, HandlerInv(h),
         hpc' = hpc, scan' = scan, hreq' = hreq, executed' = executed,
         hpc[h] # "check" =>
           /\ occupied'[scan[h]] = occupied[scan[h]]
           /\ req_state'[scan[h]] = req_state[scan[h]]
           /\ req'[scan[h]] = req[scan[h]]
           /\ ret'[scan[h]] = ret[scan[h]]
  PROVE  HandlerInv(h)'
BY Zenon DEF HandlerInv

(* A step of coroutine c: of the other coroutines and their slots nothing   *)
(* changes, and c issues at most new requests.                              *)
OwnStep(c) ==
  /\ UNCHANGED <<occupied, ret, storebuf, cslot, serverVars>>
  /\ \A d \in Coroutines \ {c} :
       cpc'[d] = cpc[d] /\ calls'[d] = calls[d] /\ cret'[d] = cret[d]
  /\ \A t \in Slots \ {cslot[c]} : req_state'[t] = req_state[t] /\ req'[t] = req[t]
  /\ calls[c] \in Nat /\ calls'[c] \in Nat /\ calls[c] <= calls'[c]

(* The types that the arguments about slots and coroutines need.            *)
Shapes ==
  /\ cpc \in [Coroutines -> ClientPcs] /\ cslot \in [Coroutines -> Slots]
  /\ calls \in [Coroutines -> Nat] /\ cret \in [Coroutines -> Messages]
  /\ occupied \in [Slots -> BOOLEAN] /\ req_state \in [Slots -> ReqStates]
  /\ req \in [Slots -> Messages] /\ ret \in [Slots -> Messages]
  /\ hpc \in [Handlers -> HandlerPcs] /\ scan \in [Handlers -> Slots]
  /\ hreq \in [Handlers -> Messages]

(* The shapes follow from the type invariant.                               *)
LEMMA ShapesHold == TypeInv => Shapes
<1>1. 0 .. MaxCalls \subseteq Nat
  OBVIOUS
<1>2. TypeOK => calls \in [Coroutines -> Nat]
  BY SMTT(30) DEF TypeOK
<1> QED BY SMTT(30) DEF TypeInv, TypeOK, Shapes

(* Occupying or freeing a slot leaves the others alone.                     *)
LEMMA OtherSlot ==
  ASSUME Shapes, NEW s \in Slots, NEW t \in Slots, t # s, NEW b \in BOOLEAN,
         occupied' = [occupied EXCEPT ![s] = b]
  PROVE  occupied'[t] = occupied[t]
OBVIOUS

(* A step of a coroutine that changes the state or the payload of its own   *)
(* slot only while no handler thread can be working on it.                  *)
LEMMA ClientFrame ==
  ASSUME Shapes, AllocInv, ProtocolInv, NEW c \in Coroutines, OwnStep(c),
         Holding(c), HolderInv(c)',
         \/ UNCHANGED <<req_state, req>>
         \/ req_state[cslot[c]] \in {"INIT", "DONE"}
  PROVE  ProtocolInv'
<1>1. ASSUME NEW d \in Coroutines, d # c, Holding(d)' PROVE HolderInv(d)'
  <2>1. cpc'[d] = cpc[d] /\ Holding(d)
    BY <1>1, Zenon DEF OwnStep, Holding
  <2>2. cslot[d] \in Slots \ {cslot[c]}
    BY <1>1, <2>1, SMTT(30) DEF AllocInv, SlotExclusive, Shapes
  <2>3. HolderInv(d)
    BY <2>1, Zenon DEF ProtocolInv
  <2> QED BY <2>2, <2>3, HolderFrame, Zenon DEF OwnStep, serverVars
<1>2. ASSUME NEW h \in Handlers PROVE HandlerInv(h)'
  <2>1. HandlerInv(h) /\ scan[h] \in Slots
    BY Zenon DEF ProtocolInv, Shapes
  <2>2. hpc[h] # "check" => req_state[scan[h]] \in {"SUBMITTED", "BUSY"}
    BY <2>1, Zenon DEF HandlerInv, HandlerPcs, Shapes
  <2>3. hpc[h] # "check" =>
          /\ req_state'[scan[h]] = req_state[scan[h]]
          /\ req'[scan[h]] = req[scan[h]]
    BY <2>1, <2>2, Zenon DEF OwnStep
  <2> QED BY <2>1, <2>3, HandlerFrame, Zenon DEF OwnStep, serverVars
<1>3. ASSUME NEW t \in Slots, ~occupied'[t] PROVE req_state'[t] = "INIT"
  <2>1. t # cslot[c] /\ ~occupied[t]
    BY <1>3, SMTT(30) DEF AllocInv, SlotExclusive, OwnStep
  <2> QED BY <2>1, Zenon DEF OwnStep, ProtocolInv
<1>4. ASSUME NEW d \in Coroutines, NEW n \in 1 .. MaxCalls,
             <<d, n>> \in executed'
      PROVE  n <= calls'[d]
  <2>1. n <= calls[d]
    BY <1>4, Zenon DEF ProtocolInv, OwnStep, serverVars
  <2>2. calls[d] <= calls'[d] /\ calls[d] \in Nat /\ calls'[d] \in Nat
    BY SMTT(30) DEF OwnStep, Shapes
  <2> QED BY <2>1, <2>2, SMTT(30)
<1>5. (\A t \in Slots : storebuf'[t] = NoRequest) /\ repeated' = {}
  BY Zenon DEF ProtocolInv, OwnStep, serverVars
<1> QED BY <1>1, <1>2, <1>3, <1>4, <1>5, Zenon DEF ProtocolInv

(* The steps of a coroutine keep the protocol.                              *)
LEMMA ProtocolClient ==
  ASSUME TypeInv, AllocInv, ProtocolInv, Ordered, NEW c \in Coroutines,
         CoroutineStep(c)
  PROVE  ProtocolInv'
<1> DEFINE s == cslot[c]
<1>0. Shapes /\ s \in Slots /\ calls[c] \in Nat
  BY ShapesHold, Zenon DEF Shapes
<1>h. Holding(c) => HolderInv(c)
  BY ZenonT(60) DEF ProtocolInv
<1>1. CASE yield_coroutine(c)
  BY <1>1, SMTT(30)
     DEF yield_coroutine, ProtocolInv, HolderInv, HandlerInv, Holding, Current,
         slotVars, serverVars
<1>2. CASE exit_coroutine(c)
  <2>1. \A d \in Coroutines : Holding(d)' => Holding(d) /\ cpc'[d] = cpc[d]
    BY <1>2, SMTT(30) DEF exit_coroutine, Goto, Holding
  <2>2. UNCHANGED <<occupied, req_state, req, ret, storebuf, cslot, calls, cret,
                    hpc, scan, hreq, executed, repeated>>
    BY <1>2, Zenon DEF exit_coroutine, slotVars, serverVars
  <2>3. \A d \in Coroutines : Holding(d)' => HolderInv(d)'
    BY <2>1, <2>2, HolderFrame, Zenon DEF ProtocolInv
  <2>4. \A h \in Handlers : HandlerInv(h)'
    BY <2>2, HandlerFrame, Zenon DEF ProtocolInv
  <2> QED BY <2>2, <2>3, <2>4, Zenon DEF ProtocolInv
<1>3. CASE flex_ipc_create_msg(c)
  <2>0. UNCHANGED <<req_state, req, ret, storebuf, calls, cret,
                    hpc, scan, hreq, executed, repeated>>
    BY <1>3, Zenon DEF flex_ipc_create_msg, serverVars
  <2>1. CASE FreeSlots = {}
    <3>1. UNCHANGED <<occupied, cslot>> /\ Goto(c, "fault")
      BY <1>3, <2>1, Zenon DEF flex_ipc_create_msg, FirstFree
    <3>2. \A d \in Coroutines : Holding(d)' => Holding(d) /\ cpc'[d] = cpc[d]
      BY <3>1, SMTT(30) DEF Goto, Holding
    <3>3. \A d \in Coroutines : Holding(d)' => HolderInv(d)'
      BY <2>0, <3>1, <3>2, HolderFrame, Zenon DEF ProtocolInv
    <3>4. \A h \in Handlers : HandlerInv(h)'
      BY <2>0, <3>1, HandlerFrame, Zenon DEF ProtocolInv
    <3> QED BY <2>0, <3>1, <3>3, <3>4, Zenon DEF ProtocolInv
  <2>2. CASE FreeSlots # {}
    <3>1. PICK f \in Slots :
          /\ ~occupied[f]
          /\ cpc' = [cpc EXCEPT ![c] = "prepare"]
          /\ cslot' = [cslot EXCEPT ![c] = f]
          /\ occupied' = [occupied EXCEPT ![f] = TRUE]
      BY <1>3, <2>2, Zenon DEF flex_ipc_create_msg, Goto, FirstFree, FreeSlots
    <3>2. req_state[f] = "INIT"
      BY <3>1, Zenon DEF ProtocolInv
    <3>3. HolderInv(c)'
      <4>1. cpc'[c] = "prepare" /\ cslot'[c] = f
        BY <1>0, <3>1, Zenon DEF Shapes
      <4> QED BY <2>0, <3>2, <4>1, Zenon DEF HolderInv
    <3>4. ASSUME NEW d \in Coroutines, d # c, Holding(d)'
          PROVE  HolderInv(d)'
      <4>1. Holding(d) /\ cpc'[d] = cpc[d] /\ cslot'[d] = cslot[d]
        BY <3>1, <3>4, SMTT(30) DEF Holding
      <4>2. HolderInv(d)
        BY <4>1, Zenon DEF ProtocolInv
      <4> QED BY <2>0, <4>1, <4>2, HolderFrame, Zenon
    <3>5. ASSUME NEW h \in Handlers PROVE HandlerInv(h)'
      <4>1. HandlerInv(h)
        BY Zenon DEF ProtocolInv
      <4>2. scan[h] \in Slots /\ (hpc[h] # "check" => scan[h] # f)
        BY <1>0, <3>1, <4>1, Zenon DEF HandlerInv, Shapes
      <4>3. hpc[h] # "check" => occupied'[scan[h]] = occupied[scan[h]]
        BY <1>0, <3>1, <4>2, OtherSlot, Zenon
      <4> QED BY <2>0, <4>1, <4>3, HandlerFrame, Zenon
    <3>6. ASSUME NEW t \in Slots, ~occupied'[t] PROVE req_state'[t] = "INIT"
      <4>1. ~occupied[t]
        BY <3>1, <3>6, SMTT(30)
      <4> QED BY <2>0, <4>1, Zenon DEF ProtocolInv
    <3> QED BY <2>0, <3>3, <3>4, <3>5, <3>6, Zenon DEF ProtocolInv
  <2> QED BY <2>1, <2>2, Zenon
<1>4. CASE PrepareRequest(c)
  <2>1. Holding(c) /\ cpc[c] = "prepare"
    BY <1>4, Zenon DEF PrepareRequest, At, Holding
  <2>2. cpc'[c] = "fill" /\ req_state'[s] = "INIT" /\ cslot'[c] = s
    BY <1>0, <1>4, Zenon DEF PrepareRequest, Goto, Shapes
  <2>3. OwnStep(c)
    BY <1>0, <1>4, SMTT(30) DEF PrepareRequest, Goto, OwnStep
  <2>4. req_state[s] = "INIT"
    BY <1>h, <2>1, Zenon DEF HolderInv
  <2>5. HolderInv(c)'
    BY <2>2, Zenon DEF HolderInv
  <2> QED BY <1>0, <2>1, <2>3, <2>4, <2>5, ClientFrame, Zenon
<1>5. CASE FillRequest(c)
  <2> DEFINE n == calls[c] + 1
  <2>1. Holding(c) /\ cpc[c] = "fill" /\ calls[c] < MaxCalls
    BY <1>5, Zenon DEF FillRequest, At, Holding, TypeInv, RunningInv
  <2>2. /\ cpc' = [cpc EXCEPT ![c] = "call"]
        /\ calls' = [calls EXCEPT ![c] = n]
        /\ req' = [req EXCEPT ![s] = <<c, n>>]
        /\ UNCHANGED <<occupied, req_state, ret, storebuf, cslot, cret,
                       serverVars>>
    BY <1>5, Zenon DEF FillRequest, Goto
  <2>3. n \in 1 .. MaxCalls /\ n \in Nat /\ calls[c] <= n /\ ~(n <= calls[c])
    BY <1>0, <2>1, FlexIpcAssumption, SMTT(30)
  <2>4. <<c, n>> \notin executed
    BY <2>3, Zenon DEF ProtocolInv
  <2>5. /\ cpc'[c] = "call" /\ calls'[c] = n /\ req'[s] = <<c, n>>
        /\ cslot'[c] = s /\ executed' = executed
    BY <1>0, <2>2, Zenon DEF Shapes, serverVars
  <2>6. OwnStep(c)
    BY <1>0, <2>2, SMTT(30) DEF OwnStep
  <2>7. req_state[s] = "INIT" /\ req_state'[s] = "INIT"
    BY <1>h, <2>1, <2>2, Zenon DEF HolderInv
  <2>8. HolderInv(c)'
    BY <2>4, <2>5, <2>7, Zenon DEF HolderInv, Current
  <2> QED BY <1>0, <2>1, <2>6, <2>7, <2>8, ClientFrame, Zenon
<1>6. CASE CallTestInit(c)
  <2>1. Holding(c) /\ cpc[c] = "call" /\ HolderInv(c)
    BY <1>h, <1>6, Zenon DEF CallTestInit, At, Holding
  <2>2. OwnStep(c)
    BY <1>0, <1>6, SMTT(30) DEF CallTestInit, Goto, OwnStep, slotVars
  <2>3. /\ cpc'[c] = (IF req_state[s] = "INIT" THEN "submit" ELSE "poll")
        /\ cret'[c] = cret[c]
        /\ calls'[c] = calls[c] /\ executed' = executed
        /\ cslot'[c] = s /\ req'[s] = req[s] /\ ret'[s] = ret[s]
    BY <1>0, <1>6, Zenon DEF CallTestInit, Goto, Shapes, slotVars, serverVars
  <2>4. UNCHANGED <<req_state, req>>
    BY <1>6, Zenon DEF CallTestInit, slotVars
  <2>5. HolderInv(c)'
    BY <2>1, <2>3, <2>4, Zenon DEF HolderInv, Current
  <2> QED BY <1>0, <2>1, <2>2, <2>4, <2>5, ClientFrame, Zenon
<1>7. CASE CallSubmit(c)
  <2>1. Holding(c) /\ cpc[c] = "submit" /\ HolderInv(c)
    BY <1>h, <1>7, Zenon DEF CallSubmit, At, Holding
  <2>2. OwnStep(c)
    BY <1>0, <1>7, SMTT(30) DEF CallSubmit, Goto, OwnStep, serverVars
  <2>3. /\ cpc'[c] = "poll" /\ req_state'[s] = "SUBMITTED"
        /\ cret'[c] = cret[c]
        /\ calls'[c] = calls[c] /\ executed' = executed
        /\ cslot'[c] = s /\ req'[s] = req[s] /\ ret'[s] = ret[s]
    BY <1>0, <1>7, Zenon DEF CallSubmit, Goto, Shapes, serverVars
  <2>4. req_state[s] = "INIT"
    BY <2>1, Zenon DEF HolderInv
  <2>5. HolderInv(c)'
    BY <2>1, <2>3, Zenon DEF HolderInv, Current
  <2> QED BY <1>0, <2>1, <2>2, <2>4, <2>5, ClientFrame, Zenon
<1>8. CASE CallTestDone(c)
  <2>1. Holding(c) /\ cpc[c] = "poll" /\ HolderInv(c)
    BY <1>h, <1>8, Zenon DEF CallTestDone, At, Holding
  <2>2. OwnStep(c)
    BY <1>0, <1>8, SMTT(30) DEF CallTestDone, Goto, OwnStep, Shapes, slotVars
  <2>3. /\ \/ cpc'[c] = "take" /\ req_state[s] = "DONE"
           \/ cpc'[c] = "call" /\ req_state[s] # "DONE"
        /\ cret'[c] = cret[c]
        /\ calls'[c] = calls[c] /\ executed' = executed
        /\ cslot'[c] = s /\ req'[s] = req[s] /\ ret'[s] = ret[s]
    BY <1>0, <1>8, Zenon DEF CallTestDone, Goto, Shapes, slotVars, serverVars
  <2>4. UNCHANGED <<req_state, req>>
    BY <1>8, Zenon DEF CallTestDone, slotVars
  <2>5. HolderInv(c)'
    BY <2>1, <2>3, <2>4, Zenon DEF HolderInv, Current
  <2> QED BY <1>0, <2>1, <2>2, <2>4, <2>5, ClientFrame, Zenon
<1>9. CASE CallTakeRet(c)
  <2>1. Holding(c) /\ cpc[c] = "take" /\ HolderInv(c)
    BY <1>h, <1>9, ZenonT(60) DEF CallTakeRet, At, Holding
  <2>2. OwnStep(c)
    BY <1>0, <1>9, SMTT(30) DEF CallTakeRet, Goto, OwnStep, slotVars
  <2>3. /\ cpc'[c] = "reset" /\ cret'[c] = ret[s]
        /\ calls'[c] = calls[c] /\ executed' = executed
        /\ cslot'[c] = s /\ req'[s] = req[s] /\ ret'[s] = ret[s]
    BY <1>0, <1>9, Zenon DEF CallTakeRet, Goto, Shapes, slotVars, serverVars
  <2>4. UNCHANGED <<req_state, req>>
    BY <1>9, Zenon DEF CallTakeRet, slotVars
  <2>5. HolderInv(c)'
    BY <2>1, <2>3, <2>4, Zenon DEF HolderInv, Current
  <2> QED BY <1>0, <2>1, <2>2, <2>4, <2>5, ClientFrame, Zenon
<1>10. CASE CallReset(c)
  <2>1. Holding(c) /\ cpc[c] = "reset" /\ HolderInv(c)
    BY <1>h, <1>10, Zenon DEF CallReset, At, Holding
  <2>2. OwnStep(c)
    BY <1>0, <1>10, SMTT(30) DEF CallReset, Goto, OwnStep
  <2>3. /\ cpc'[c] = "returned" /\ req_state'[s] = "INIT"
        /\ cret'[c] = cret[c]
        /\ calls'[c] = calls[c] /\ executed' = executed
        /\ cslot'[c] = s /\ req'[s] = req[s] /\ ret'[s] = ret[s]
    BY <1>0, <1>10, Zenon DEF CallReset, Goto, Shapes, serverVars
  <2>4. req_state[s] = "DONE"
    BY <2>1, Zenon DEF HolderInv
  <2>5. HolderInv(c)'
    BY <2>1, <2>3, Zenon DEF HolderInv, Current
  <2> QED BY <1>0, <2>1, <2>2, <2>4, <2>5, ClientFrame, Zenon
<1>11. CASE NextPart(c)
  <2>1. Holding(c) /\ cpc[c] = "returned" /\ HolderInv(c)
    BY <1>h, <1>11, Zenon DEF NextPart, At, Holding
  <2>2. OwnStep(c)
    BY <1>0, <1>11, SMTT(30) DEF NextPart, Goto, OwnStep, slotVars
  <2>3. /\ cpc'[c] = "fill" /\ cret'[c] = cret[c]
        /\ calls'[c] = calls[c] /\ executed' = executed
        /\ cslot'[c] = s /\ req'[s] = req[s] /\ ret'[s] = ret[s]
    BY <1>0, <1>11, Zenon DEF NextPart, Goto, Shapes, slotVars, serverVars
  <2>4. UNCHANGED <<req_state, req>>
    BY <1>11, Zenon DEF NextPart, slotVars
  <2>5. HolderInv(c)'
    BY <2>1, <2>3, <2>4, Zenon DEF HolderInv
  <2> QED BY <1>0, <2>1, <2>2, <2>4, <2>5, ClientFrame, Zenon
<1>12. CASE flex_ipc_destroy_msg(c)
  <2>1. PICK pc \in {"idle", "again"} : cpc' = [cpc EXCEPT ![c] = pc]
    BY <1>12, Zenon DEF flex_ipc_destroy_msg, Goto
  <2>2. /\ occupied' = [occupied EXCEPT ![s] = FALSE]
        /\ UNCHANGED <<req_state, req, ret, storebuf, cslot, calls, cret,
                       hpc, scan, hreq, executed, repeated>>
        /\ cpc[c] \in {"returned", "again"}
    BY <1>12, Zenon DEF flex_ipc_destroy_msg, At, serverVars
  <2>3. req_state[s] = "INIT"
    <3>1. CASE cpc[c] = "returned"
      BY <1>h, <3>1, Zenon DEF Holding, HolderInv
    <3>2. CASE cpc[c] = "again"
      BY <1>0, <3>2, Zenon DEF ProtocolInv, AllocInv
    <3> QED BY <2>2, <3>1, <3>2, Zenon
  <2>4. \A d \in Coroutines : Holding(d)' => Holding(d) /\ cpc'[d] = cpc[d]
    BY <2>1, SMTT(30) DEF Holding
  <2>5. \A d \in Coroutines : Holding(d)' => HolderInv(d)'
    BY <2>2, <2>4, HolderFrame, Zenon DEF ProtocolInv
  <2>6. ASSUME NEW h \in Handlers PROVE HandlerInv(h)'
    <3>1. HandlerInv(h) /\ scan[h] \in Slots
      BY <1>0, Zenon DEF ProtocolInv, Shapes
    <3>2. hpc[h] # "check" => scan[h] # s
      BY <1>0, <2>3, <3>1, Zenon DEF HandlerInv, HandlerPcs, Shapes
    <3>3. hpc[h] # "check" => occupied'[scan[h]] = occupied[scan[h]]
      BY <1>0, <2>2, <3>1, <3>2, OtherSlot, Zenon
    <3> QED BY <2>2, <3>1, <3>3, HandlerFrame, Zenon
  <2>7. ASSUME NEW t \in Slots, ~occupied'[t] PROVE req_state'[t] = "INIT"
    <3>1. t = s \/ ~occupied[t]
      BY <2>2, <2>7, SMTT(30)
    <3>2. ~occupied[t] => req_state[t] = "INIT"
      BY Zenon DEF ProtocolInv
    <3> QED BY <2>2, <2>3, <3>1, <3>2, Zenon
  <2>8. /\ \A t \in Slots : storebuf'[t] = NoRequest
        /\ \A d \in Coroutines, n \in 1 .. MaxCalls :
             <<d, n>> \in executed' => n <= calls'[d]
        /\ repeated' = {}
    BY <2>2, Zenon DEF ProtocolInv
  <2> QED BY <2>5, <2>6, <2>7, <2>8, Zenon DEF ProtocolInv
<1> QED
  BY <1>1, <1>2, <1>3, <1>4, <1>5, <1>6, <1>7, <1>8, <1>9, <1>10, <1>11, <1>12, Zenon
     DEF CoroutineStep

-----------------------------------------------------------------------------
(* The request protocol of a connection with one handler thread and ordered *)
(* stores: each request is executed once and answered with its own reply.   *)
OneHandler == Ordered /\ \A g, h \in Handlers : g = h

(* The coroutine that holds the slot a handler thread works on waits for    *)
(* the request in it.                                                       *)
LEMMA HandlerServesHolder ==
  ASSUME Shapes, AllocInv, ProtocolInv, NEW h \in Handlers, hpc[h] # "check"
  PROVE  \E c \in Coroutines :
           /\ Holding(c) /\ cslot[c] = scan[h]
           /\ cpc[c] \in {"call", "poll"} /\ req[scan[h]] = Current(c)
<1>1. HandlerInv(h) /\ scan[h] \in Slots /\ hpc[h] \in HandlerPcs
  BY Zenon DEF ProtocolInv, Shapes
<1>2. PICK c \in Coroutines : Holding(c) /\ cslot[c] = scan[h]
  BY <1>1, Zenon DEF AllocInv, HandlerInv
<1>3. HolderInv(c)
  BY <1>2, Zenon DEF ProtocolInv
<1>4. req_state[scan[h]] \in {"SUBMITTED", "BUSY"}
  BY <1>1, Zenon DEF HandlerInv, HandlerPcs
<1>5. cpc[c] \in {"call", "poll"}
  BY <1>2, <1>3, <1>4, Zenon DEF HolderInv, Holding
<1> QED BY <1>2, <1>3, <1>5, Zenon DEF HolderInv

(* A step of the handler thread that changes no slot but the one it works   *)
(* on, and of that neither the payload nor the owner.                       *)
LEMMA ServerFrame ==
  ASSUME Shapes, AllocInv, ProtocolInv, NEW h \in Handlers,
         NEW c \in Coroutines, Holding(c), cslot[c] = scan[h],
         UNCHANGED <<occupied, req, storebuf, clientVars, executed, repeated>>,
         \A t \in Slots \ {scan[h]} :
           req_state'[t] = req_state[t] /\ ret'[t] = ret[t],
         HolderInv(c)', \A g \in Handlers : HandlerInv(g)'
  PROVE  ProtocolInv'
<1>1. ASSUME NEW d \in Coroutines, d # c, Holding(d)' PROVE HolderInv(d)'
  <2>1. Holding(d)
    BY <1>1, Zenon DEF Holding, clientVars
  <2>2. cslot[d] \in Slots \ {scan[h]}
    <3>1. cslot[d] \in Slots
      BY Zenon DEF Shapes
    <3>2. SlotExclusive
      BY Zenon DEF AllocInv
    <3>3. cslot[d] # scan[h]
      BY <1>1, <2>1, <3>2, SMTT(30) DEF SlotExclusive
    <3> QED BY <3>1, <3>3, Zenon
  <2>3. HolderInv(d)
    BY <2>1, Zenon DEF ProtocolInv
  <2> QED BY <2>2, <2>3, HolderFrame, Zenon DEF clientVars
<1>2. occupied[scan[h]] /\ scan[h] \in Slots
  BY Zenon DEF AllocInv, SlotExclusive, Shapes
<1>3. ASSUME NEW t \in Slots, ~occupied'[t] PROVE req_state'[t] = "INIT"
  BY <1>2, <1>3, Zenon DEF ProtocolInv
<1> QED BY <1>1, <1>3, Zenon DEF ProtocolInv, clientVars

(* The steps of the handler thread keep the protocol.                       *)
LEMMA ProtocolServer ==
  ASSUME TypeInv, AllocInv, ProtocolInv, OneHandler, NEW h \in Handlers,
         HandlerStep(h)
  PROVE  ProtocolInv'
<1> DEFINE s == scan[h]
<1>0. Shapes /\ s \in Slots /\ HandlerInv(h) /\ \A g \in Handlers : g = h
  BY ShapesHold, Zenon DEF Shapes, ProtocolInv, OneHandler
<1>1. CASE HandlerTest(h)
  <2>1. UNCHANGED <<slotVars, clientVars, hreq, executed, repeated>>
    BY <1>1, Zenon DEF HandlerTest
  <2>2. \/ req_state[s] = "SUBMITTED" /\ hpc'[h] = "claim" /\ scan'[h] = s
        \/ hpc'[h] = "check"
    BY <1>0, <1>1, Zenon DEF HandlerTest, HGoto, Shapes
  <2>3. occupied[s] \/ hpc'[h] = "check"
    BY <1>0, <2>2, Zenon DEF ProtocolInv
  <2>4. HandlerInv(h)'
    BY <2>1, <2>2, <2>3, Zenon DEF HandlerInv, slotVars
  <2>5. ASSUME NEW d \in Coroutines, Holding(d)' PROVE HolderInv(d)'
    <3>1. Holding(d)
      BY <2>1, <2>5, Zenon DEF Holding, clientVars
    <3> QED BY <2>1, <3>1, HolderFrame, Zenon DEF ProtocolInv, slotVars, clientVars
  <2> QED BY <1>0, <2>1, <2>4, <2>5, Zenon DEF ProtocolInv, slotVars, clientVars
<1>2. ASSUME ~HandlerTest(h)
      PROVE  \E c \in Coroutines :
               /\ Holding(c) /\ cslot[c] = s
               /\ cpc[c] \in {"call", "poll"} /\ req[s] = Current(c)
  <2>1. hpc[h] # "check"
    BY <1>2, Zenon DEF HandlerStep, HandlerClaim, lwip_dispatch, ReturnRet, ReturnDone
  <2> QED BY <1>0, <2>1, HandlerServesHolder, Zenon
<1> SUFFICES ASSUME NEW c \in Coroutines, Holding(c), cslot[c] = s,
                    cpc[c] \in {"call", "poll"}, req[s] = Current(c)
             PROVE  ProtocolInv'
  BY <1>1, <1>2, Zenon
<1>3. HolderInv(c) /\ occupied[s]
  BY Zenon DEF ProtocolInv, AllocInv, SlotExclusive
<1>4. CASE HandlerClaim(h)
  <2>1. /\ hpc[h] = "claim" /\ hpc'[h] = "dispatch" /\ req_state'[s] = "BUSY"
        /\ UNCHANGED <<occupied, req, ret, storebuf, clientVars, scan, hreq,
                       executed, repeated>>
        /\ \A t \in Slots \ {s} : req_state'[t] = req_state[t]
    BY <1>0, <1>4, Zenon DEF HandlerClaim, HGoto, Shapes
  <2>2. req[s] \notin executed
    BY <1>0, <1>3, <2>1, Zenon DEF HandlerInv, HolderInv
  <2>3. HandlerInv(h)'
    BY <1>3, <2>1, <2>2, Zenon DEF HandlerInv
  <2>4. HolderInv(c)'
    BY <2>1, Zenon DEF HolderInv, Current, clientVars
  <2> QED BY <1>0, <2>1, <2>3, <2>4, ServerFrame, Zenon
<1>5. CASE lwip_dispatch(h)
  <2>1. /\ hpc[h] = "dispatch" /\ hpc'[h] = "ret" /\ hreq'[h] = req[s]
        /\ executed' = executed \union {req[s]}
        /\ UNCHANGED <<slotVars, clientVars, scan>>
    BY <1>0, <1>5, Zenon DEF lwip_dispatch, HGoto, Shapes
  <2>2. req[s] \notin executed /\ req_state[s] = "BUSY"
    BY <1>0, <2>1, Zenon DEF HandlerInv
  <2>3. repeated' = {}
    BY <1>5, <2>2, Zenon DEF lwip_dispatch, ProtocolInv
  <2>4. HandlerInv(h)'
    BY <1>3, <2>1, <2>2, Zenon DEF HandlerInv, slotVars
  <2>5. HolderInv(c)'
    BY <1>3, <2>1, <2>2, Zenon DEF HolderInv, Current, slotVars, clientVars
  <2>6. ASSUME NEW d \in Coroutines, d # c, Holding(d)' PROVE HolderInv(d)'
    <3>1. Holding(d) /\ HolderInv(d)
      BY <2>1, <2>6, Zenon DEF clientVars, Holding, ProtocolInv
    <3>2. Current(d)' = Current(d) /\ Current(d) # Current(c)
      BY <2>1, <2>6, Zenon DEF Current, clientVars
    <3>3. Current(d) \in executed' <=> Current(d) \in executed
      BY <2>1, <3>2, Zenon
    <3> QED BY <2>1, <3>1, <3>2, Zenon DEF HolderInv, slotVars, clientVars
  <2>7. ASSUME NEW d \in Coroutines, NEW n \in 1 .. MaxCalls,
               <<d, n>> \in executed'
        PROVE  n <= calls'[d]
    <3>1. UNCHANGED calls /\ calls[d] \in Nat
      BY <1>0, <2>1, Zenon DEF clientVars, Shapes
    <3>2. CASE <<d, n>> \in executed
      BY <3>1, <3>2, Zenon DEF ProtocolInv
    <3>3. CASE <<d, n>> = Current(c)
      <4>1. n = calls[d]
        BY <3>3, Zenon DEF Current
      <4> QED BY <3>1, <4>1, SMTT(30)
    <3> QED BY <2>1, <2>7, <3>2, <3>3, Zenon
  <2> QED BY <1>0, <2>1, <2>3, <2>4, <2>5, <2>6, <2>7, Zenon DEF ProtocolInv, slotVars
<1>6. CASE ReturnRet(h)
  <2>1. hpc[h] = "ret" /\ req_state[s] = "BUSY"
    BY <1>0, <1>6, Zenon DEF ReturnRet, HandlerInv
  <2>2. /\ hpc'[h] = "done" /\ ret'[s] = hreq[h]
        /\ UNCHANGED <<occupied, req_state, req, storebuf, clientVars, scan,
                       hreq, executed, repeated>>
        /\ \A t \in Slots \ {s} : ret'[t] = ret[t]
    BY <1>0, <1>6, <2>1, Zenon DEF ReturnRet, HGoto, Shapes
  <2>3. HandlerInv(h)'
    BY <1>0, <2>1, <2>2, Zenon DEF HandlerInv
  <2>4. HolderInv(c)'
    BY <2>1, <2>2, Zenon DEF HolderInv, Current, clientVars
  <2> QED BY <1>0, <2>2, <2>3, <2>4, ServerFrame, Zenon
<1>7. CASE ReturnDone(h)
  <2>1. /\ hpc[h] = "done" /\ hpc'[h] = "check" /\ req_state'[s] = "DONE"
        /\ UNCHANGED <<occupied, req, ret, storebuf, clientVars, executed,
                       repeated>>
        /\ \A t \in Slots \ {s} : req_state'[t] = req_state[t]
    BY <1>0, <1>7, Zenon DEF ReturnDone, HGoto, OneHandler, Shapes
  <2>2. ret[s] = Current(c) /\ Current(c) \in executed
    BY <1>0, <2>1, Zenon DEF HandlerInv
  <2>3. HandlerInv(h)'
    BY <2>1, Zenon DEF HandlerInv
  <2>4. HolderInv(c)'
    BY <1>3, <2>1, <2>2, Zenon DEF HolderInv, Current, clientVars
  <2> QED BY <1>0, <2>1, <2>3, <2>4, ServerFrame, Zenon
<1> QED BY <1>1, <1>4, <1>5, <1>6, <1>7, Zenon DEF HandlerStep

(* Every step of a client or of the one handler keeps the protocol.         *)
LEMMA ProtocolNext ==
  ASSUME OneHandler
  PROVE  TypeInv /\ AllocInv /\ ProtocolInv /\ [Next]_vars => ProtocolInv'
<1> SUFFICES ASSUME TypeInv, AllocInv, ProtocolInv, [Next]_vars
             PROVE  ProtocolInv'
  BY SMTT(30)
<1>1. ASSUME NEW c \in Coroutines, Resume(c) PROVE ProtocolInv'
  BY <1>1, SMTT(30)
     DEF Resume, ProtocolInv, HolderInv, HandlerInv, Holding, Current, slotVars,
         serverVars
<1>2. ASSUME NEW c \in Coroutines, CoroutineStep(c) PROVE ProtocolInv'
  BY <1>2, ProtocolClient, Zenon DEF OneHandler
<1>3. ASSUME NEW h \in Handlers, HandlerStep(h) PROVE ProtocolInv'
  BY <1>3, ProtocolServer, Zenon
<1>4. ASSUME NEW s \in Slots, Flush(s) PROVE ProtocolInv'
  BY <1>4, ZenonT(60) DEF Flush, ProtocolInv
<1>5. CASE UNCHANGED vars
  BY <1>5, SMTT(30)
     DEF vars, ProtocolInv, HolderInv, HandlerInv, Holding, Current, slotVars,
         clientVars, serverVars
<1> QED BY <1>1, <1>2, <1>3, <1>4, <1>5, Zenon DEF Next

IInv == TypeInv /\ AllocInv /\ ProtocolInv

(* The slot protocol is an invariant of a connection with one handler       *)
(* thread and ordered stores.                                               *)
LEMMA ProtocolHolds ==
  ASSUME OneHandler
  PROVE  Spec => []IInv
<1>1. Init => IInv
  BY TypeInit, AllocInit, ProtocolInit, Zenon DEF IInv
<1>2. IInv /\ [Next]_vars => IInv'
  BY TypeNext, AllocNext, ProtocolNext, Zenon DEF IInv
<1> QED BY <1>1, <1>2, PTL DEF Spec

(* With one handler thread and ordered stores, for any number of coroutines,*)
(* slots and requests, lwip_dispatch executes no request twice.             *)
THEOREM ExactlyOnce ==
  ASSUME OneHandler
  PROVE  Spec => []HandledOnce
<1>1. IInv => HandledOnce
  BY Zenon DEF IInv, ProtocolInv, HandledOnce
<1> QED BY <1>1, ProtocolHolds, PTL

(* ... flex_ipc_call returns the reply to the request it was called for.    *)
THEOREM OwnReply ==
  ASSUME OneHandler
  PROVE  Spec => []ReplyMatches
<1>1. IInv => ReplyMatches
  BY Zenon DEF IInv, ProtocolInv, HolderInv, Holding, ReplyMatches
<1> QED BY <1>1, ProtocolHolds, PTL

(* ... and the handler thread only touches slots of coroutines that wait    *)
(* for the request it works on.                                             *)
THEOREM HandlerOnCourse ==
  ASSUME OneHandler
  PROVE  Spec => []NoStrayHandler
<1>1. IInv => NoStrayHandler
  <2> SUFFICES ASSUME IInv, NEW h \in Handlers, hpc[h] # "check"
               PROVE  \E c \in Coroutines :
                        /\ cpc[c] \in {"call", "poll"}
                        /\ cslot[c] = scan[h]
                        /\ hpc[h] \in {"ret", "done"} => hreq[h] = Current(c)
    BY Zenon DEF NoStrayHandler
  <2>1. PICK c \in Coroutines :
          /\ Holding(c) /\ cslot[c] = scan[h]
          /\ cpc[c] \in {"call", "poll"} /\ req[scan[h]] = Current(c)
    BY HandlerServesHolder, ShapesHold, Zenon DEF IInv
  <2>2. HandlerInv(h)
    BY Zenon DEF IInv, ProtocolInv
  <2> QED BY <2>1, <2>2, Zenon DEF HandlerInv
<1> QED BY <1>1, ProtocolHolds, PTL

(* The order of the states of a request.                                    *)
LEMMA Successors ==
  /\ Successor["INIT"] = "SUBMITTED" /\ Successor["SUBMITTED"] = "BUSY"
  /\ Successor["BUSY"] = "DONE" /\ Successor["DONE"] = "INIT"
BY Zenon DEF Successor

(* Writing the state of one slot moves that slot only.                      *)
LEMMA OneMove ==
  ASSUME req_state \in [Slots -> ReqStates], NEW i \in Slots, NEW v,
         req_state' = [req_state EXCEPT ![i] = v],
         v \in {req_state[i], Successor[req_state[i]]}
  PROVE  \A s \in Slots : req_state'[s] \in {req_state[s], Successor[req_state[s]]}
OBVIOUS

(* The state of a slot takes no step but INIT, SUBMITTED, BUSY, DONE, INIT: *)
(* no store of one side overwrites a state it has not seen.                 *)
THEOREM SlotLifecycle ==
  ASSUME OneHandler
  PROVE  Spec => Lifecycle
<1> DEFINE Move == \A s \in Slots :
             req_state'[s] \in {req_state[s], Successor[req_state[s]]}
<1>1. ASSUME UNCHANGED req_state PROVE Move
  BY <1>1, Zenon
<1>2. ASSUME IInv, NEW c \in Coroutines, CoroutineStep(c) PROVE Move
  <2>1. Shapes /\ cslot[c] \in Slots /\ (Holding(c) => HolderInv(c))
    BY <1>2, ShapesHold, Zenon DEF IInv, ProtocolInv, Shapes
  <2>2. CASE PrepareRequest(c)
    <3>1. cpc[c] = "prepare" /\ Holding(c)
      BY <2>2, Zenon DEF PrepareRequest, At, Holding
    <3>2. req_state[cslot[c]] = "INIT"
      BY <2>1, <3>1, Zenon DEF HolderInv
    <3> QED BY <2>1, <2>2, <3>2, Successors, SMTT(30) DEF PrepareRequest
  <2>3. CASE CallSubmit(c)
    <3>1. cpc[c] = "submit" /\ Holding(c)
      BY <2>3, Zenon DEF CallSubmit, At, Holding
    <3>2. req_state[cslot[c]] = "INIT"
      BY <2>1, <3>1, Zenon DEF HolderInv
    <3> QED BY <2>1, <2>3, <3>2, Successors, Zenon DEF CallSubmit, Shapes
  <2>4. CASE CallReset(c)
    <3>1. cpc[c] = "reset" /\ Holding(c)
      BY <2>4, Zenon DEF CallReset, At, Holding
    <3>2. req_state[cslot[c]] = "DONE"
      BY <2>1, <3>1, Zenon DEF HolderInv
    <3> QED BY <2>4, <3>2, Successors, OneMove, SMTT(30) DEF CallReset
  <2>5. CASE \/ yield_coroutine(c) \/ exit_coroutine(c) \/ flex_ipc_create_msg(c)
             \/ FillRequest(c) \/ CallTestInit(c) \/ CallTestDone(c)
             \/ CallTakeRet(c) \/ NextPart(c) \/ flex_ipc_destroy_msg(c)
    <3>1. UNCHANGED req_state
      BY <2>5, Zenon
         DEF yield_coroutine, exit_coroutine, flex_ipc_create_msg, FillRequest,
             CallTestInit, CallTestDone, CallTakeRet, NextPart, flex_ipc_destroy_msg,
             slotVars
    <3> QED BY <1>1, <3>1, Zenon
  <2> QED BY <1>2, <2>2, <2>3, <2>4, <2>5, Zenon DEF CoroutineStep
<1>3. ASSUME IInv, NEW h \in Handlers, HandlerStep(h) PROVE Move
  <2>1. Shapes /\ scan[h] \in Slots /\ HandlerInv(h)
    BY <1>3, ShapesHold, ZenonT(60) DEF IInv, ProtocolInv, Shapes
  <2>2. CASE HandlerClaim(h)
    <3>1. req_state[scan[h]] = "SUBMITTED"
      BY <2>1, <2>2, Zenon DEF HandlerClaim, HandlerInv
    <3> QED BY <2>2, <3>1, Successors, SMTT(30) DEF HandlerClaim
  <2>3. CASE ReturnDone(h)
    <3>1. req_state[scan[h]] = "BUSY"
      BY <2>1, <2>3, Zenon DEF ReturnDone, HandlerInv
    <3> QED BY <2>3, <3>1, Successors, SMTT(30) DEF ReturnDone
  <2>4. CASE HandlerTest(h) \/ lwip_dispatch(h) \/ ReturnRet(h)
    <3>1. UNCHANGED req_state
      BY <2>4, Zenon DEF HandlerTest, lwip_dispatch, ReturnRet, slotVars
    <3> QED BY <3>1, Zenon
  <2> QED BY <1>3, <2>2, <2>3, <2>4, Zenon DEF HandlerStep
<1>4. ASSUME NEW c \in Coroutines, Resume(c) PROVE UNCHANGED req_state
  BY <1>4, Zenon DEF Resume, slotVars
<1>5. ASSUME NEW s \in Slots, Flush(s) PROVE UNCHANGED req_state
  BY <1>5, Zenon DEF Flush
<1>6. ASSUME IInv, Next PROVE Move
  <2> QED BY <1>1, <1>2, <1>3, <1>4, <1>5, <1>6, Zenon DEF Next
<1>7. IInv /\ [Next]_vars => [Move]_vars
  BY <1>6, Zenon
<1> QED BY <1>7, ProtocolHolds, PTL DEF Spec, Lifecycle
-----------------------------------------------------------------------------
(* Refinement.                                                              *)

(* A step that leaves every phase, call count and return value alone is a   *)
(* stuttering step of the remote call.                                      *)
LEMMA PhaseStutter ==
  ASSUME UNCHANGED <<calls, cret>>, \A c \in Coroutines : Phase(c)' = Phase(c)
  PROVE  UNCHANGED Call!vars
BY Zenon DEF Call!vars

(* A step of a coroutine that stays inside or outside of flex_ipc_call.     *)
LEMMA PhaseStay ==
  ASSUME Shapes, NEW c \in Coroutines, NEW pc, cpc' = [cpc EXCEPT ![c] = pc],
         UNCHANGED <<calls, executed>>,
         cpc[c] \in {"call", "submit", "poll", "take"} <=>
           pc \in {"call", "submit", "poll", "take"}
  PROVE  \A d \in Coroutines : Phase(d)' = Phase(d)
BY SMTT(30) DEF Phase, Current

(* A step of a client is a step of a remote call, or none.                  *)
LEMMA RefineCoroutine ==
  ASSUME IInv, OneHandler, NEW c \in Coroutines, CoroutineStep(c)
  PROVE  [Call!Next]_(Call!vars)
<1>0. Shapes /\ (Holding(c) => HolderInv(c))
  BY ShapesHold, Zenon DEF IInv, ProtocolInv
<1>1. ASSUME UNCHANGED <<calls, cret, executed, cpc>> PROVE UNCHANGED Call!vars
  BY <1>1, PhaseStutter, Zenon DEF Phase, Current
<1>2. ASSUME UNCHANGED <<calls, cret, executed>>,
             NEW pc, cpc' = [cpc EXCEPT ![c] = pc],
             cpc[c] \in {"call", "submit", "poll", "take"} <=>
               pc \in {"call", "submit", "poll", "take"}
      PROVE  UNCHANGED Call!vars
  BY <1>0, <1>2, PhaseStutter, PhaseStay, Zenon
<1>3. CASE yield_coroutine(c)
  BY <1>1, <1>3, Zenon DEF yield_coroutine, serverVars
<1>4. CASE exit_coroutine(c) \/ PrepareRequest(c) \/ CallReset(c) \/ NextPart(c)
  BY <1>2, <1>4, Zenon
     DEF exit_coroutine, PrepareRequest, CallReset, NextPart, At, Goto, serverVars
<1>5. CASE flex_ipc_create_msg(c)
  BY <1>2, <1>5, Zenon DEF flex_ipc_create_msg, At, Goto, serverVars
<1>6. CASE flex_ipc_destroy_msg(c)
  BY <1>2, <1>6, Zenon DEF flex_ipc_destroy_msg, At, Goto, serverVars
<1>7. CASE CallTestInit(c) \/ CallSubmit(c)
  BY <1>2, <1>7, Zenon DEF CallTestInit, CallSubmit, At, Goto, serverVars
<1>8. CASE CallTestDone(c)
  BY <1>2, <1>8, Zenon DEF CallTestDone, At, Goto, serverVars
<1>9. CASE FillRequest(c)
  <2>1. /\ cpc[c] = "fill" /\ cpc' = [cpc EXCEPT ![c] = "call"]
        /\ calls' = [calls EXCEPT ![c] = calls[c] + 1]
        /\ UNCHANGED <<cret, executed>>
    BY <1>9, Zenon DEF FillRequest, At, Goto, serverVars
  <2>2. calls[c] \in Nat /\ calls[c] + 1 \in 1 .. MaxCalls
    BY <1>0, <2>1, FlexIpcAssumption, SMTT(30) DEF Shapes, IInv, TypeInv, RunningInv
  <2>3. <<c, calls[c] + 1>> \notin executed
    <3>1. \A n \in 1 .. MaxCalls : <<c, n>> \in executed => n <= calls[c]
      BY Zenon DEF IInv, ProtocolInv
    <3> QED BY <2>2, <3>1, SMTT(30)
  <2>4. Phase(c) = "idle" /\ Phase(c)' = "called"
    BY <1>0, <2>1, <2>3, Zenon DEF Phase, Current, Shapes
  <2>5. \A d \in Coroutines : d # c => Phase(d)' = Phase(d)
    BY <2>1, SMTT(30) DEF Phase, Current, Shapes
  <2>6. Call!Call(c)
    BY <2>1, <2>4, <2>5, Zenon DEF Call!Call, Call!Move
  <2> QED BY <2>6, Zenon DEF Call!Next
<1>10. CASE CallTakeRet(c)
  <2>1. /\ cpc[c] = "take" /\ cpc' = [cpc EXCEPT ![c] = "reset"]
        /\ cret' = [cret EXCEPT ![c] = ret[cslot[c]]]
        /\ UNCHANGED <<calls, executed>>
    BY <1>10, Zenon DEF CallTakeRet, At, Goto, serverVars
  <2>2. ret[cslot[c]] = <<c, calls[c]>> /\ Current(c) \in executed
    BY <1>0, <2>1, Zenon DEF Holding, HolderInv, Current
  <2>3. Phase(c) = "executed" /\ Phase(c)' = "idle"
    BY <1>0, <2>1, <2>2, Zenon DEF Phase, Shapes
  <2>4. \A d \in Coroutines : d # c => Phase(d)' = Phase(d)
    BY <2>1, SMTT(30) DEF Phase, Current
  <2>5. Call!Return(c)
    BY <2>1, <2>2, <2>3, <2>4, Zenon DEF Call!Return, Call!Move
  <2> QED BY <2>5, Zenon DEF Call!Next
<1> QED BY <1>3, <1>4, <1>5, <1>6, <1>7, <1>8, <1>9, <1>10, Zenon DEF CoroutineStep

(* A step of the handler is the execution of a remote call, or none.        *)
LEMMA RefineHandler ==
  ASSUME IInv, OneHandler, NEW h \in Handlers, HandlerStep(h)
  PROVE  [Call!Next]_(Call!vars)
<1>0. Shapes /\ HandlerInv(h)
  BY ShapesHold, Zenon DEF IInv, ProtocolInv
<1>1. CASE lwip_dispatch(h)
  <2>1. /\ hpc[h] = "dispatch"
        /\ executed' = executed \union {req[scan[h]]}
        /\ UNCHANGED <<cpc, calls, cret>>
    BY <1>1, Zenon DEF lwip_dispatch, clientVars
  <2>2. PICK c \in Coroutines :
          cpc[c] \in {"call", "poll"} /\ req[scan[h]] = Current(c)
    BY <1>0, <2>1, HandlerServesHolder, Zenon DEF IInv
  <2>3. Current(c) \notin executed
    BY <1>0, <2>1, <2>2, Zenon DEF HandlerInv
  <2>4. Phase(c) = "called" /\ Phase(c)' = "executed"
    BY <2>1, <2>2, <2>3, Zenon DEF Phase, Current
  <2>5. \A d \in Coroutines : d # c => Phase(d)' = Phase(d)
    <3>1. \A d \in Coroutines : d # c => Current(d) # Current(c)
      BY Zenon DEF Current
    <3>2. \A d \in Coroutines : Current(d)' = Current(d)
      BY <2>1, Zenon DEF Current
    <3> QED BY <2>1, <2>2, <3>1, <3>2, Zenon DEF Phase
  <2>6. Call!Execute(c)
    BY <2>1, <2>4, <2>5, Zenon DEF Call!Execute, Call!Move
  <2> QED BY <2>6, Zenon DEF Call!Next
<1>2. CASE HandlerTest(h) \/ HandlerClaim(h) \/ ReturnRet(h) \/ ReturnDone(h)
  <2>1. UNCHANGED <<cpc, calls, cret, executed>>
    BY <1>2, Zenon DEF HandlerTest, HandlerClaim, ReturnRet, ReturnDone, clientVars
  <2> QED BY <2>1, PhaseStutter, Zenon DEF Phase, Current
<1> QED BY <1>1, <1>2, Zenon DEF HandlerStep

(* With one handler thread and ordered stores FlexIPC implements a remote   *)
(* procedure call: flex_ipc_call returns after exactly one execution of its *)
(* request in lwip_dispatch, with the return value of that execution.       *)
THEOREM Refinement ==
  ASSUME OneHandler
  PROVE  Spec => IsRemoteCall
<1>1. Init => Call!Init
  BY Zenon DEF Init, Call!Init, Phase
<1>2. ASSUME IInv, Next PROVE [Call!Next]_(Call!vars)
  <2>1. ASSUME UNCHANGED <<cpc, calls, cret, executed>>
        PROVE  UNCHANGED Call!vars
    BY <2>1, PhaseStutter, Zenon DEF Phase, Current
  <2>2. ASSUME NEW c \in Coroutines, Resume(c) PROVE UNCHANGED Call!vars
    BY <2>1, <2>2, Zenon DEF Resume, serverVars
  <2>3. ASSUME NEW s \in Slots, Flush(s) PROVE UNCHANGED Call!vars
    BY <2>1, <2>3, Zenon DEF Flush, clientVars, serverVars
  <2> QED BY <1>2, <2>2, <2>3, RefineCoroutine, RefineHandler, Zenon DEF Next
<1>3. UNCHANGED vars => UNCHANGED Call!vars
  BY PhaseStutter, Zenon DEF vars, clientVars, serverVars, Phase, Current
<1>4. IInv /\ [Next]_vars => [Call!Next]_(Call!vars)
  BY <1>2, <1>3, Zenon
<1> QED BY <1>1, <1>4, ProtocolHolds, PTL DEF Spec, IsRemoteCall, Call!Spec
=============================================================================
