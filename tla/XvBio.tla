------------------------------- MODULE XvBio -------------------------------
(***************************************************************************)
(* The buffer cache of xv6 as "Lab locks" rewrote it (kernel/bio.c): the   *)
(* one list under one lock became BUCKET_SIZE arrays of NBUF buffers, each *)
(* array with a lock of its own, a block being cached in the array of its  *)
(* number modulo BUCKET_SIZE.                                              *)
(*                                                                         *)
(* A section under a bucket's spin lock is one action; a buffer's sleep    *)
(* lock is held over many.  Which of the unused buffers is recycled (the   *)
(* one with the oldest timestamp) is left open: any may be.  The callers   *)
(* are those of bio.c: a process that changes a buffer hands it either to  *)
(* bwrite (the log's own blocks) or to log_write, which pins the block     *)
(* until the commit has written it home, before it calls brelse.           *)
(***************************************************************************)
EXTENDS Naturals, FiniteSets

CONSTANTS
  Proc,
  Val, Zero,     \* contents of a block; the contents of a cleared one
  Block,         \* block numbers of the one device
  BUCKET_SIZE,   \* number of buckets
  Slot,          \* the NBUF places of a bucket
  NoProc, NoBlock, NoBuf

ASSUME BioAssumption ==
  /\ IsFiniteSet(Proc)
  /\ Zero \in Val
  /\ Block \subseteq Nat
  /\ BUCKET_SIZE \in Nat \ {0}
  /\ NoProc \notin Proc
  /\ NoBlock \notin Block
  /\ NoBuf \notin (0 .. BUCKET_SIZE - 1) \X Slot

VARIABLES
  blockno,   \* blockno[x]: the block buffer x caches (NoBlock: dev is 0, never used)
  valid,     \* valid[x]: data has been read from the disk
  refcnt, data,
  lock,      \* lock[x]: the holder of the buffer's sleep lock
  disk,
  pc,
  want,      \* want[p]: the block process p asked bread for
  buf,       \* buf[p]: the buffer bget gave to process p
  logged,    \* the blocks log_write pinned and the commit has not unpinned
  panicked

vars == <<blockno, valid, refcnt, data, lock, disk, pc, want, buf, logged, panicked>>

bucket == 0 .. BUCKET_SIZE - 1

Buf == bucket \X Slot

Bucket(b) == {x \in Buf : x[1] = b % BUCKET_SIZE}

TypeOK ==
  /\ blockno \in [Buf -> Block \cup {NoBlock}]
  /\ valid \in [Buf -> BOOLEAN]
  /\ refcnt \in [Buf -> Nat]
  /\ data \in [Buf -> Val]
  /\ lock \in [Buf -> Proc \cup {NoProc}]
  /\ disk \in [Block -> Val]
  /\ pc \in [Proc -> {"idle", "acquiresleep", "read", "using", "dirty",
                      "bunpin", "done", "brelse"}]
  /\ want \in [Proc -> Block \cup {NoBlock}]
  /\ buf \in [Proc -> Buf \cup {NoBuf}]
  /\ logged \in SUBSET Block
  /\ panicked \in BOOLEAN

(***************************************************************************)
(* binit: every buffer free; nothing is cached.                            *)
(***************************************************************************)
Init ==
  /\ blockno = [x \in Buf |-> NoBlock]
  /\ valid = [x \in Buf |-> FALSE]
  /\ refcnt = [x \in Buf |-> 0]
  /\ disk \in [Block -> Val]
  /\ data = [x \in Buf |-> Zero]
  /\ lock = [x \in Buf |-> NoProc]
  /\ pc = [p \in Proc |-> "idle"]
  /\ want = [p \in Proc |-> NoBlock]
  /\ buf = [p \in Proc |-> NoBuf]
  /\ logged = {}
  /\ panicked = FALSE

At(p, from, to) ==
  /\ ~panicked
  /\ pc[p] \in from
  /\ pc' = [pc EXCEPT ![p] = to]

(***************************************************************************)
(* bget under the bucket's lock: the buffer of the block if there is one,  *)
(* else an unused buffer of the bucket, taken over for the block.          *)
(***************************************************************************)
bget_hit(p, b, x) ==
  /\ blockno[x] = b
  /\ refcnt' = [refcnt EXCEPT ![x] = @ + 1]
  /\ UNCHANGED <<blockno, valid>>

(* Mutant: the lookup is not repeated under the lock that recycles.         *)
bget_evict_unchecked(p, b, x) ==
  /\ refcnt[x] = 0
  /\ blockno' = [blockno EXCEPT ![x] = b]
  /\ valid' = [valid EXCEPT ![x] = FALSE]
  /\ refcnt' = [refcnt EXCEPT ![x] = 1]

(* Mutant: the buffer keeps the data of the block it cached before.         *)
bget_evict_valid(p, b, x) ==
  /\ \A y \in Bucket(b) : blockno[y] # b
  /\ refcnt[x] = 0
  /\ blockno' = [blockno EXCEPT ![x] = b]
  /\ refcnt' = [refcnt EXCEPT ![x] = 1]
  /\ UNCHANGED valid

bget_evict(p, b, x) ==
  /\ \A y \in Bucket(b) : blockno[y] # b
  /\ refcnt[x] = 0
  /\ blockno' = [blockno EXCEPT ![x] = b]
  /\ valid' = [valid EXCEPT ![x] = FALSE]
  /\ refcnt' = [refcnt EXCEPT ![x] = 1]

bget(p, b) ==
  /\ At(p, {"idle"}, "acquiresleep")
  /\ want' = [want EXCEPT ![p] = b]
  /\ \E x \in Bucket(b) :
       /\ bget_hit(p, b, x) \/ bget_evict(p, b, x)
       /\ buf' = [buf EXCEPT ![p] = x]
  /\ UNCHANGED <<data, lock, disk, logged, panicked>>

\* panic("bget: no buffers")
bget_panic(p, b) ==
  /\ At(p, {"idle"}, "idle")
  /\ \A x \in Bucket(b) : blockno[x] # b /\ refcnt[x] # 0
  /\ panicked' = TRUE
  /\ UNCHANGED <<blockno, valid, refcnt, data, lock, disk, want, buf, logged>>

\* The loop of acquiresleep ends when the lock is free.
acquiresleep(p) ==
  /\ At(p, {"acquiresleep"}, "read")
  /\ lock[buf[p]] = NoProc
  /\ lock' = [lock EXCEPT ![buf[p]] = p]
  /\ UNCHANGED <<blockno, valid, refcnt, data, disk, want, buf, logged, panicked>>

\* The rest of bread: virtio_disk_rw(b, 0) unless the data is already there.
bread(p) ==
  LET x == buf[p] IN
  /\ At(p, {"read"}, "using")
  /\ data' = IF valid[x] THEN data ELSE [data EXCEPT ![x] = disk[blockno[x]]]
  /\ valid' = [valid EXCEPT ![x] = TRUE]
  /\ UNCHANGED <<blockno, refcnt, lock, disk, want, buf, logged, panicked>>

\* The caller changes b->data.
modify(p, v) ==
  /\ At(p, {"using"}, "dirty")
  /\ data' = [data EXCEPT ![buf[p]] = v]
  /\ UNCHANGED <<blockno, valid, refcnt, lock, disk, want, buf, logged, panicked>>

\* A block that is never logged (write_log, write_head) is written at once.
bwrite(p) ==
  /\ At(p, {"dirty"}, "done")
  /\ want[p] \notin logged
  /\ disk' = [disk EXCEPT ![blockno[buf[p]]] = data[buf[p]]]
  /\ UNCHANGED <<blockno, valid, refcnt, data, lock, want, buf, logged, panicked>>

(* Mutant: a block is pinned again each time it is logged.                  *)
log_write_pins(p) ==
  /\ At(p, {"dirty"}, "done")
  /\ refcnt' = [refcnt EXCEPT ![buf[p]] = @ + 1]
  /\ logged' = logged \cup {want[p]}
  /\ UNCHANGED <<blockno, valid, data, lock, disk, want, buf, panicked>>

\* log_write pins the buffer when the block is new to the transaction (bpin).
log_write(p) ==
  /\ At(p, {"dirty"}, "done")
  /\ refcnt' = IF want[p] \in logged THEN refcnt
               ELSE [refcnt EXCEPT ![buf[p]] = @ + 1]
  /\ logged' = logged \cup {want[p]}
  /\ UNCHANGED <<blockno, valid, data, lock, disk, want, buf, panicked>>

\* install_trans writes a logged block home ...
install(p) ==
  /\ At(p, {"using"}, "bunpin")
  /\ want[p] \in logged
  /\ disk' = [disk EXCEPT ![blockno[buf[p]]] = data[buf[p]]]
  /\ UNCHANGED <<blockno, valid, refcnt, data, lock, want, buf, logged, panicked>>

\* ... and lets go of its pin.
bunpin(p) ==
  /\ At(p, {"bunpin"}, "done")
  /\ refcnt' = [refcnt EXCEPT ![buf[p]] = @ - 1]
  /\ logged' = logged \ {want[p]}
  /\ UNCHANGED <<blockno, valid, data, lock, disk, want, buf, panicked>>

\* brelse: releasesleep first ...
releasesleep(p) ==
  /\ At(p, {"using", "done"}, "brelse")
  /\ lock' = [lock EXCEPT ![buf[p]] = NoProc]
  /\ UNCHANGED <<blockno, valid, refcnt, data, disk, want, buf, logged, panicked>>

\* ... then the reference is dropped under the bucket's lock.
brelse(p) ==
  /\ At(p, {"brelse"}, "idle")
  /\ refcnt' = [refcnt EXCEPT ![buf[p]] = @ - 1]
  /\ want' = [want EXCEPT ![p] = NoBlock]
  /\ buf' = [buf EXCEPT ![p] = NoBuf]
  /\ UNCHANGED <<blockno, valid, data, lock, disk, logged, panicked>>

\* panic() spins for ever with the locks its caller holds; what the other CPUs
\* still do after it is not modelled.
halted ==
  /\ panicked
  /\ UNCHANGED vars

Next ==
  \/ \E p \in Proc :
       \/ \E b \in Block : bget(p, b) \/ bget_panic(p, b)
       \/ \E v \in Val : modify(p, v)
       \/ acquiresleep(p) \/ bread(p) \/ bwrite(p) \/ log_write(p)
       \/ install(p) \/ bunpin(p) \/ releasesleep(p) \/ brelse(p)
  \/ halted

Spec == Init /\ [][Next]_vars

-----------------------------------------------------------------------------
\* The processes that have a reference to buffer x: from bget to brelse.
Referrers(x) == {p \in Proc : buf[p] = x}

\* The processes that may touch the data of the block they asked for.
InUse == {"using", "dirty", "bunpin", "done"}

(***************************************************************************)
(* CachedOnce: the lookup and the recycling of bget are one section under  *)
(* the bucket's lock, so two buffers never cache the same block, whatever  *)
(* processes miss on it together.  Two copies would let two processes      *)
(* change one block, each holding a different sleep lock.                  *)
(***************************************************************************)
CachedOnce ==
  \A x, y \in Buf : blockno[x] = blockno[y] /\ blockno[x] # NoBlock => x = y

(***************************************************************************)
(* RefExact: a buffer's refcnt counts the processes between bget and the   *)
(* end of brelse and the log's pin, no more and no less: bget then panics  *)
(* only when every buffer of the bucket really is in use, and never        *)
(* recycles a buffer somebody still refers to (brelse drops the sleep lock *)
(* before the reference, log_write and install_trans move the pin).        *)
(***************************************************************************)
RefExact ==
  \A x \in Buf :
    refcnt[x] = Cardinality(Referrers(x)) + (IF blockno[x] \in logged THEN 1 ELSE 0)

(***************************************************************************)
(* IsBlockStore: through every interleaving of lookups, recycling, disk    *)
(* reads and writes, pins and releases the cache behaves as a register per *)
(* block used by one process at a time: the next holder of a block finds   *)
(* what the last one left, from the buffer or from the disk.               *)
(***************************************************************************)
Users == [b \in Block |-> {p \in Proc : want[p] = b /\ pc[p] \in InUse}]

Holds(b) ==
  IF Users[b] # {} THEN data[buf[CHOOSE p \in Users[b] : TRUE]]
  ELSE IF \E x \in Buf : blockno[x] = b /\ valid[x]
       THEN data[CHOOSE x \in Buf : blockno[x] = b /\ valid[x]]
       ELSE disk[b]

Store == INSTANCE BlockStore WITH mem <- [b \in Block |-> Holds(b)], users <- Users

IsBlockStore == Store!Spec
=============================================================================
