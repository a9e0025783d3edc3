---------------------------- MODULE ByteChannel ----------------------------
(***************************************************************************)
(* What a pipe promises to those who use it: the bytes come out in the     *)
(* order they went in, each once; at most Capacity of them are under way;  *)
(* and a read ends without a byte only when there is none left and nobody  *)
(* can write another.  A read that cannot store a byte loses that byte.    *)
(***************************************************************************)
EXTENDS Naturals, Sequences

CONSTANTS Byte, Capacity

VARIABLES
  queue,    \* the bytes under way
  open,     \* whether some process may still write
  out       \* what the read that has just ended returned

vars == <<queue, open, out>>

Init ==
  /\ queue = <<>>
  /\ open = TRUE
  /\ out = <<>>

Put(b) ==
  /\ open
  /\ Len(queue) < Capacity
  /\ queue' = Append(queue, b)
  /\ out' = <<>>
  /\ UNCHANGED open

Get(n) ==
  /\ n > 0 \/ (~open /\ queue = <<>>)
  /\ out' = SubSeq(queue, 1, n)
  /\ queue' = SubSeq(queue, n + 1, Len(queue))
  /\ UNCHANGED open

GetAndLose(n) ==
  /\ n < Len(queue)
  /\ out' = SubSeq(queue, 1, n)
  /\ queue' = SubSeq(queue, n + 2, Len(queue))
  /\ UNCHANGED open

HangUp ==
  /\ open' = FALSE
  /\ out' = <<>>
  /\ UNCHANGED queue

Else ==
  /\ out' = <<>>
  /\ UNCHANGED <<queue, open>>

Next ==
  \/ \E b \in Byte : Put(b)
  \/ \E n \in 0 .. Len(queue) : Get(n) \/ GetAndLose(n)
  \/ HangUp \/ Else

Spec == Init /\ [][Next]_vars
=============================================================================
