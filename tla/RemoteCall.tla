----------------------------- MODULE RemoteCall -----------------------------
(***************************************************************************)
(* What a caller of a socket function expects of FlexIPC: a procedure call *)
(* that the server executes exactly once, between the call and its return, *)
(* and whose return value answers that very call.                          *)
(***************************************************************************)
EXTENDS Naturals

CONSTANTS Callers, NoReply

VARIABLES
  phase,   \* where each caller's latest call is
  issued,  \* how many calls each caller has made
  reply    \* what each caller's latest finished call returned

vars == <<phase, issued, reply>>

Init ==
  /\ phase = [c \in Callers |-> "idle"]
  /\ issued = [c \in Callers |-> 0]
  /\ reply = [c \in Callers |-> NoReply]

Move(c, from, to) == phase[c] = from /\ phase' = [phase EXCEPT ![c] = to]

Call(c) ==
  /\ Move(c, "idle", "called")
  /\ issued' = [issued EXCEPT ![c] = @ + 1]
  /\ UNCHANGED reply

Execute(c) == Move(c, "called", "executed") /\ UNCHANGED <<issued, reply>>

Return(c) ==
  /\ Move(c, "executed", "idle")
  /\ reply' = [reply EXCEPT ![c] = <<c, issued[c]>>]
  /\ UNCHANGED issued

Next == \E c \in Callers : Call(c) \/ Execute(c) \/ Return(c)

Spec == Init /\ [][Next]_vars

(* Every call is executed and returns.                                      *)
FairSpec ==
  /\ Spec
  /\ \A c \in Callers : WF_vars(Execute(c)) /\ WF_vars(Return(c))
=============================================================================
