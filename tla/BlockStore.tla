----------------------------- MODULE BlockStore -----------------------------
(***************************************************************************)
(* What the xv6 buffer cache promises to the file system: one register per *)
(* disk block, used by at most one process at a time.  A process takes a   *)
(* block (bread), may change what the block holds, and gives it back       *)
(* (brelse); whoever takes the block next finds what was left there.       *)
(* Nothing is said of buffers, buckets, reference counts or the disk.      *)
(***************************************************************************)
CONSTANTS Proc, Block, Val

VARIABLES
  mem,     \* mem[b]: what block b holds
  users    \* users[b]: the processes between bread(b) and brelse

storeVars == <<mem, users>>

Init ==
  /\ mem \in [Block -> Val]
  /\ users = [b \in Block |-> {}]

Take(p, b) ==
  /\ users[b] = {}
  /\ users' = [users EXCEPT ![b] = {p}]
  /\ UNCHANGED mem

Change(p, b, v) ==
  /\ users[b] = {p}
  /\ mem' = [mem EXCEPT ![b] = v]
  /\ UNCHANGED users

GiveBack(p, b) ==
  /\ users[b] = {p}
  /\ users' = [users EXCEPT ![b] = {}]
  /\ UNCHANGED mem

Next ==
  \E p \in Proc, b \in Block :
    \/ Take(p, b)
    \/ \E v \in Val : Change(p, b, v)
    \/ GiveBack(p, b)

Spec == Init /\ [][Next]_storeVars
=============================================================================
