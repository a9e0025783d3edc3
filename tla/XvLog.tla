------------------------------- MODULE XvLog -------------------------------
(***************************************************************************)
(* The write-ahead log of xv6 (kernel/log.c), over the block store that    *)
(* the buffer cache implements (BlockStore, shown for XvBio): file system  *)
(* calls between begin_op and end_op, the commit the last of them runs,    *)
(* the recovery at boot, and a crash at any moment.                        *)
(*                                                                         *)
(* A section under log.lock is one action; so is a disk write, which takes *)
(* place or does not when the machine stops.  A write to the log area and  *)
(* the copy it is made from are one action: nobody else uses the buffers   *)
(* of the log area, and the block copied is locked meanwhile.              *)
(***************************************************************************)
EXTENDS Naturals, Sequences, FiniteSets

CONSTANTS
  Proc, NoProc,
  Block,         \* the blocks outside the log area
  Val,
  MAXOPBLOCKS,   \* the number of blocks a call may write
  LOGSIZE,       \* the blocks begin_op hands out, and the room in the header
  NLOG           \* log.size: the blocks of the log area, header included

ASSUME LogAssumption ==
  /\ NoProc \notin Proc /\ IsFiniteSet(Proc)
  /\ MAXOPBLOCKS \in Nat \ {0}
  /\ LOGSIZE \in Nat /\ MAXOPBLOCKS <= LOGSIZE
  /\ NLOG \in Nat \ {0}

VARIABLES
  disk,          \* disk[b]: block b on the disk
  logblk,        \* logblk[i]: block i of the log area
  head,          \* the header block: the numbers of the committed blocks
  mem,           \* mem[b]: block b as bread returns it
  pin,           \* pin[b]: what bpin and bunpin contribute to the refcnt of b
  holder,        \* holder[b]: the process between bread(b) and brelse
  lh,            \* log.lh.block[0 .. log.lh.n - 1], in memory
  outstanding, committing,
  tail,          \* loop variable of write_log and install_trans
  boot,          \* progress of initlog; "up" once it has returned
  pc,
  wrote,         \* wrote[p]: the blocks the current call of p has changed
  panicked

diskVars == <<disk, logblk, head>>
logVars == <<lh, outstanding, committing>>
vars == <<diskVars, mem, pin, holder, logVars, tail, boot, pc, wrote, panicked>>

InCall == {"op", "modify", "dirty", "log_write", "logged"}

TypeOK ==
  /\ disk \in [Block -> Val]
  /\ logblk \in [1 .. NLOG - 1 -> Val]
  /\ head \in Seq(Block)
  /\ mem \in [Block -> Val]
  /\ pin \in [Block -> Nat]
  /\ holder \in [Block -> Proc \cup {NoProc}]
  /\ lh \in Seq(Block)
  /\ outstanding \in Nat
  /\ committing \in BOOLEAN
  /\ tail \in Nat
  /\ boot \in {"read_head", "install_trans", "up"}
  /\ pc \in [Proc -> InCall \cup {"idle", "begin_op", "asleep", "reading",
                             "commit", "write_log", "install_trans", "end_op"}]
  /\ wrote \in [Proc -> SUBSET Block]
  /\ panicked \in BOOLEAN

(***************************************************************************)
(* mkfs leaves an empty log; the kernel then starts in initlog.            *)
(***************************************************************************)
Init ==
  /\ disk \in [Block -> Val]
  /\ logblk \in [1 .. NLOG - 1 -> Val]
  /\ head = <<>>
  /\ mem = disk
  /\ pin = [b \in Block |-> 0]
  /\ holder = [b \in Block |-> NoProc]
  /\ lh = <<>>
  /\ outstanding = 0
  /\ committing = FALSE
  /\ tail = 0
  /\ boot = "read_head"
  /\ pc = [p \in Proc |-> "idle"]
  /\ wrote = [p \in Proc |-> {}]
  /\ panicked = FALSE

(***************************************************************************)
(* A crash or a reboot after a panic: the disk is what remains.            *)
(***************************************************************************)
crash ==
  /\ mem' = disk
  /\ pin' = [b \in Block |-> 0]
  /\ holder' = [b \in Block |-> NoProc]
  /\ lh' = <<>>
  /\ outstanding' = 0
  /\ committing' = FALSE
  /\ tail' = 0
  /\ boot' = "read_head"
  /\ pc' = [p \in Proc |-> "idle"]
  /\ wrote' = [p \in Proc |-> {}]
  /\ panicked' = FALSE
  /\ UNCHANGED diskVars

(***************************************************************************)
(* install_trans: block tail of the log is copied to its home.             *)
(***************************************************************************)
Install ==
  /\ tail < Len(lh)
  /\ holder[lh[tail + 1]] = NoProc
  /\ mem' = [mem EXCEPT ![lh[tail + 1]] = logblk[tail + 1]]
  /\ disk' = [disk EXCEPT ![lh[tail + 1]] = logblk[tail + 1]]
  /\ tail' = tail + 1
  /\ UNCHANGED <<logblk, head>>

\* log.lh.n = 0; write_head(): the transaction is erased from the log.
Erase ==
  /\ tail = Len(lh)
  /\ lh' = <<>>
  /\ head' = <<>>
  /\ tail' = 0
  /\ UNCHANGED <<disk, logblk, mem>>

(***************************************************************************)
(* initlog, before any file system call: recover_from_log.                 *)
(***************************************************************************)
read_head ==
  /\ boot = "read_head"
  /\ boot' = "install_trans"
  /\ lh' = head
  /\ tail' = 0
  /\ UNCHANGED <<diskVars, mem, pin, holder, outstanding, committing, pc, wrote, panicked>>

recover_install ==
  /\ boot = "install_trans"
  /\ Install
  /\ UNCHANGED <<pin, holder, logVars, boot, pc, wrote, panicked>>

recover_erase ==
  /\ boot = "install_trans"
  /\ Erase
  /\ boot' = "up"
  /\ UNCHANGED <<pin, holder, outstanding, committing, pc, wrote, panicked>>

(***************************************************************************)
(* The calls.  At is the control of a process of a running kernel.         *)
(***************************************************************************)
At(p, from, to) ==
  /\ boot = "up" /\ ~panicked
  /\ pc[p] = from
  /\ pc' = [pc EXCEPT ![p] = to]
  /\ UNCHANGED boot

\* The processes after wakeup(&log) by process p, which goes on at `to'.
Woken(p, to) ==
  [q \in Proc |-> IF q = p THEN to
                  ELSE IF pc[q] = "asleep" THEN "begin_op" ELSE pc[q]]

call(p) ==
  /\ At(p, "idle", "begin_op")
  /\ UNCHANGED <<diskVars, mem, pin, holder, logVars, tail, wrote, panicked>>

(* Mutant: no room is kept for the call itself.                             *)
MustWait_others ==
  committing \/ Len(lh) + outstanding * MAXOPBLOCKS > LOGSIZE

\* One turn of the loop of begin_op.
MustWait ==
  committing \/ Len(lh) + (outstanding + 1) * MAXOPBLOCKS > LOGSIZE

begin_op(p) ==
  /\ At(p, "begin_op", IF MustWait THEN "asleep" ELSE "op")
  /\ outstanding' = IF MustWait THEN outstanding ELSE outstanding + 1
  /\ UNCHANGED <<diskVars, mem, pin, holder, lh, committing, tail, wrote, panicked>>

\* A call takes a block it is going to change; MAXOPBLOCKS of them at most.
bread(p, b) ==
  /\ At(p, "op", "modify")
  /\ holder[b] = NoProc
  /\ Cardinality(wrote[p] \cup {b}) <= MAXOPBLOCKS
  /\ holder' = [holder EXCEPT ![b] = p]
  /\ UNCHANGED <<diskVars, mem, pin, logVars, tail, wrote, panicked>>

modify(p, b, v) ==
  /\ At(p, "modify", "dirty")
  /\ holder[b] = p
  /\ mem' = [mem EXCEPT ![b] = v]
  /\ wrote' = [wrote EXCEPT ![p] = @ \cup {b}]
  /\ UNCHANGED <<diskVars, pin, holder, logVars, tail, panicked>>

\* The two tests log_write makes before it takes the lock.
log_write_test(p) ==
  /\ At(p, "dirty", "log_write")
  /\ panicked' = (Len(lh) >= LOGSIZE \/ Len(lh) >= NLOG - 1 \/ outstanding < 1)
  /\ UNCHANGED <<diskVars, mem, pin, holder, logVars, tail, wrote>>

(* Mutant: an absorbed block is pinned once more.                           *)
log_write_pins(p, b) ==
  /\ At(p, "log_write", "logged")
  /\ holder[b] = p
  /\ lh' = IF \E i \in DOMAIN lh : lh[i] = b THEN lh ELSE Append(lh, b)
  /\ pin' = [pin EXCEPT ![b] = @ + 1]
  /\ UNCHANGED <<diskVars, mem, holder, outstanding, committing, tail, wrote, panicked>>

\* Its section under the lock: the block is absorbed, or added and pinned.
log_write(p, b) ==
  /\ At(p, "log_write", "logged")
  /\ holder[b] = p
  /\ IF \E i \in DOMAIN lh : lh[i] = b
     THEN UNCHANGED <<lh, pin>>
     ELSE /\ lh' = Append(lh, b)
          /\ pin' = [pin EXCEPT ![b] = @ + 1]
  /\ UNCHANGED <<diskVars, mem, holder, outstanding, committing, tail, wrote, panicked>>

brelse(p, b) ==
  /\ At(p, "logged", "op")
  /\ holder[b] = p
  /\ holder' = [holder EXCEPT ![b] = NoProc]
  /\ UNCHANGED <<diskVars, mem, pin, logVars, tail, wrote, panicked>>

(***************************************************************************)
(* end_op: the last active call commits, any other wakes the waiting ones. *)
(***************************************************************************)
end_op(p) ==
  LET last == outstanding = 1 IN
  /\ boot = "up" /\ ~panicked
  /\ pc[p] = "op"
  /\ pc' = IF ~last THEN Woken(p, "idle")
           ELSE [pc EXCEPT ![p] = IF lh = <<>> THEN "end_op" ELSE "write_log"]
  /\ outstanding' = outstanding - 1
  /\ panicked' = committing
  /\ committing' = (last \/ committing)
  /\ tail' = 0
  /\ wrote' = [wrote EXCEPT ![p] = {}]
  /\ UNCHANGED <<diskVars, mem, pin, holder, lh, boot>>

\* commit(): the changed blocks go to the log area ...
write_log(p) ==
  /\ At(p, "write_log", "write_log")
  /\ tail < Len(lh)
  /\ holder[lh[tail + 1]] = NoProc
  /\ logblk' = [logblk EXCEPT ![tail + 1] = mem[lh[tail + 1]]]
  /\ tail' = tail + 1
  /\ UNCHANGED <<disk, head, mem, pin, holder, logVars, wrote, panicked>>

(* Mutant: the header is written before all blocks are in the log area.     *)
write_head_early(p) ==
  /\ At(p, "write_log", "install_trans")
  /\ head' = lh
  /\ tail' = 0
  /\ UNCHANGED <<disk, logblk, mem, pin, holder, logVars, wrote, panicked>>

\* ... the header is written, "the real commit" ...
write_head(p) ==
  /\ At(p, "write_log", "install_trans")
  /\ tail = Len(lh)
  /\ head' = lh
  /\ tail' = 0
  /\ UNCHANGED <<disk, logblk, mem, pin, holder, logVars, wrote, panicked>>

\* ... the blocks are copied home ...
install_trans(p) ==
  /\ At(p, "install_trans", "install_trans")
  /\ Install
  /\ pin' = [pin EXCEPT ![lh[tail + 1]] = @ - 1]
  /\ UNCHANGED <<holder, logVars, wrote, panicked>>

\* ... and the header is cleared.
erase(p) ==
  /\ At(p, "install_trans", "end_op")
  /\ Erase
  /\ UNCHANGED <<pin, holder, outstanding, committing, wrote, panicked>>

(* Mutant: the commit ends without wakeup(&log).                            *)
committed_silent(p) ==
  /\ At(p, "end_op", "idle")
  /\ committing' = FALSE
  /\ UNCHANGED <<diskVars, mem, pin, holder, lh, outstanding, tail, wrote, panicked>>

\* The last section of end_op.
committed(p) ==
  /\ boot = "up" /\ ~panicked
  /\ pc[p] = "end_op"
  /\ committing' = FALSE
  /\ pc' = Woken(p, "idle")
  /\ UNCHANGED <<diskVars, mem, pin, holder, lh, outstanding, tail, boot, wrote, panicked>>

(***************************************************************************)
(* Reading needs no call: a process holds any block for a while.           *)
(***************************************************************************)
read(p, b) ==
  /\ At(p, "idle", "reading")
  /\ holder[b] = NoProc
  /\ holder' = [holder EXCEPT ![b] = p]
  /\ UNCHANGED <<diskVars, mem, pin, logVars, tail, wrote, panicked>>

read_done(p, b) ==
  /\ At(p, "reading", "idle")
  /\ holder[b] = p
  /\ holder' = [holder EXCEPT ![b] = NoProc]
  /\ UNCHANGED <<diskVars, mem, pin, logVars, tail, wrote, panicked>>

\* The cache recycles a buffer nobody holds or has pinned: bread will find
\* what is on the disk.
recycle(b) ==
  /\ boot = "up" /\ ~panicked
  /\ holder[b] = NoProc /\ pin[b] = 0
  /\ mem' = [mem EXCEPT ![b] = disk[b]]
  /\ UNCHANGED <<diskVars, pin, holder, logVars, tail, boot, pc, wrote, panicked>>

Next ==
  \/ crash
  \/ read_head \/ recover_install \/ recover_erase
  \/ \E p \in Proc :
       \/ call(p) \/ begin_op(p) \/ log_write_test(p) \/ end_op(p)
       \/ write_log(p) \/ write_head(p) \/ install_trans(p) \/ erase(p) \/ committed(p)
       \/ \E b \in Block :
            \/ bread(p, b) \/ log_write(p, b) \/ brelse(p, b)
            \/ read(p, b) \/ read_done(p, b)
            \/ \E v \in Val : modify(p, b, v)
  \/ \E b \in Block : recycle(b)

Spec == Init /\ [][Next]_vars

-----------------------------------------------------------------------------
(***************************************************************************)
(* IsGroupCommit: with a crash possible before and after every disk write, *)
(* of a commit and of a recovery alike, what the next boot installs is the *)
(* result of whole groups of calls: it changes only when the header is     *)
(* written, and then to what the calls have left in memory.                *)
(***************************************************************************)
Recovered ==
  [b \in Block |-> IF \E i \in DOMAIN head : head[i] = b
                   THEN logblk[CHOOSE i \in DOMAIN head : head[i] = b]
                   ELSE disk[b]]

Open == {p \in Proc : pc[p] \in InCall}

Log == INSTANCE GroupCommit WITH
         mem <- IF boot = "up" THEN mem ELSE Recovered,
         durable <- Recovered,
         open <- Open

IsGroupCommit == Log!Spec

(***************************************************************************)
(* SleeperHasWaker: a process asleep in begin_op has somebody to wake it:  *)
(* a call is active or a commit runs, and both end in wakeup(&log).        *)
(***************************************************************************)
SleeperHasWaker ==
  ~panicked /\ (\E p \in Proc : pc[p] = "asleep") =>
    Open # {} \/ \E p \in Proc : pc[p] \in {"write_log", "install_trans", "end_op"}

(***************************************************************************)
(* PinnedUntilHome: the cache never recycles a changed block before it is  *)
(* home: a block whose memory and disk contents differ is held by the      *)
(* process changing it or pinned, and no pin is left behind or given back  *)
(* twice by log_write's absorption and install_trans.                      *)
(***************************************************************************)
PinnedUntilHome ==
  boot = "up" =>
    \A b \in Block :
      /\ mem[b] # disk[b] => holder[b] # NoProc \/ pin[b] > 0
      /\ pin[b] = Cardinality({i \in DOMAIN lh :
                     lh[i] = b /\ ~(\E p \in Proc : pc[p] \in {"install_trans", "end_op"} /\ i <= tail)})

(***************************************************************************)
(* LogFits: although log_write tests the length before it takes the lock,  *)
(* the blocks of the calls begin_op admits fit the log area: no block of   *)
(* it is written past its end.                                             *)
(***************************************************************************)
LogFits == Len(lh) <= NLOG - 1 /\ Len(lh) <= LOGSIZE
=============================================================================
