---------------------------- MODULE GroupCommit ----------------------------
(***************************************************************************)
(* What the xv6 log promises to the file system calls: the changes of the  *)
(* calls that are active together reach the disk all at once and only when *)
(* none of them is active any more, a crash at any moment leaves what the  *)
(* last commit made durable, and no call starts from contents that are     *)
(* neither durable nor shared with another active call.                    *)
(***************************************************************************)
CONSTANTS Proc, Block, Val

VARIABLES
  mem,       \* what the calls see in the blocks
  durable,   \* what a machine that loses its power now finds after booting
  open       \* the processes inside a file system call

commitVars == <<mem, durable, open>>

Init ==
  /\ mem \in [Block -> Val]
  /\ durable = mem
  /\ open = {}

Begin(p) ==
  /\ p \notin open
  /\ open = {} => mem = durable
  /\ open' = open \cup {p}
  /\ UNCHANGED <<mem, durable>>

Write(p, b, v) ==
  /\ p \in open
  /\ mem' = [mem EXCEPT ![b] = v]
  /\ UNCHANGED <<durable, open>>

End(p) ==
  /\ p \in open
  /\ open' = open \ {p}
  /\ UNCHANGED <<mem, durable>>

Commit ==
  /\ open = {}
  /\ durable' = mem
  /\ UNCHANGED <<mem, open>>

Crash ==
  /\ mem' = durable
  /\ open' = {}
  /\ UNCHANGED durable

Next ==
  \/ \E p \in Proc : \/ Begin(p) \/ End(p)
                     \/ \E b \in Block, v \in Val : Write(p, b, v)
  \/ Commit
  \/ Crash

Spec == Init /\ [][Next]_commitVars
=============================================================================
