---------------------------- MODULE XvBioProofs ----------------------------
(***************************************************************************)
(* For any finite set of processes, any number of buckets and of buffers   *)
(* in a bucket, and any blocks: the buffer cache has one copy of a block,  *)
(* counts its references exactly, and is a register per block.             *)
(***************************************************************************)
EXTENDS XvBio, FiniteSetTheorems, TLAPS

(* What a process between bget and brelse relies on: its buffer caches the  *)
(* block it asked for.                                                      *)
Control ==
  \A p \in Proc :
    IF pc[p] = "idle" THEN want[p] = NoBlock /\ buf[p] = NoBuf
    ELSE want[p] \in Block /\ buf[p] \in Buf /\ blockno[buf[p]] = want[p]

(* A block is cached in its own bucket, and a logged one is cached.         *)
Placed ==
  /\ \A x \in Buf : blockno[x] # NoBlock => x \in Bucket(blockno[x])
  /\ \A b \in logged : \E x \in Buf : blockno[x] = b

(* From acquiresleep to releasesleep the process owns the buffer's lock.    *)
Holding == InUse \cup {"read"}

Locked ==
  /\ \A p \in Proc : pc[p] \in Holding => lock[buf[p]] = p
  /\ \A x \in Buf : lock[x] # NoProc => buf[lock[x]] = x /\ pc[lock[x]] \in Holding

(* The buffer of a block that is neither logged nor being changed holds what*)
(* the disk holds: recycling it loses nothing.                              *)
Clean ==
  /\ \A x \in Buf : valid[x] => blockno[x] # NoBlock
  /\ \A p \in Proc : pc[p] \in InUse => valid[buf[p]]
  /\ \A p \in Proc : pc[p] = "bunpin" =>
       want[p] \in logged /\ data[buf[p]] = disk[want[p]]
  /\ \A x \in Buf : valid[x] /\ data[x] # disk[blockno[x]] =>
       blockno[x] \in logged \/ \E p \in Proc : buf[p] = x /\ pc[p] = "dirty"

IInv == TypeOK /\ Control /\ Placed /\ CachedOnce /\ RefExact /\ Locked /\ Clean

-----------------------------------------------------------------------------
(* A buffer is counted by finitely many processes.                          *)
LEMMA RefsFinite ==
  ASSUME NEW x
  PROVE  IsFiniteSet(Referrers(x)) /\ Cardinality(Referrers(x)) \in Nat
<1>1. Referrers(x) \in SUBSET Proc
  BY Zenon DEF Referrers
<1>2. IsFiniteSet(Referrers(x))
  BY <1>1, FS_Subset, BioAssumption, Zenon
<1> QED BY <1>2, FS_CardinalityType, Zenon

(* A buffer nobody counts is referred to by no process and not pinned; one  *)
(* that somebody refers to is counted.                                      *)
LEMMA Unused ==
  ASSUME TypeOK, RefExact, NEW x \in Buf
  PROVE  /\ refcnt[x] = 0 => /\ \A p \in Proc : buf[p] # x
                             /\ blockno[x] \notin logged
         /\ \A p \in Proc : buf[p] = x => refcnt[x] >= 1
         /\ blockno[x] \in logged => refcnt[x] >= 1
<1> DEFINE pins == IF blockno[x] \in logged THEN 1 ELSE 0
<1>1. /\ IsFiniteSet(Referrers(x)) /\ Cardinality(Referrers(x)) \in Nat
      /\ Cardinality(Referrers(x)) = 0 <=> Referrers(x) = {}
  BY RefsFinite, FS_EmptySet, Zenon
<1>2. refcnt[x] = Cardinality(Referrers(x)) + pins /\ pins \in {0, 1}
  BY Zenon DEF RefExact
<1>3. \A p \in Proc : buf[p] = x => Referrers(x) # {}
  BY Zenon DEF Referrers
<1> QED BY <1>1, <1>2, <1>3, SMTT(30)

(* No step changes the type of a variable.                                  *)
LEMMA TypeStep ==
  ASSUME TypeOK, Control, RefExact, [Next]_vars
  PROVE  TypeOK'
<1> USE DEF TypeOK
<1>1. ASSUME NEW p \in Proc, NEW b \in Block, bget(p, b) PROVE TypeOK'
  <2>1. PICK x \in Bucket(b) :
          /\ bget_hit(p, b, x) \/ bget_evict(p, b, x)
          /\ buf' = [buf EXCEPT ![p] = x]
    BY <1>1, Zenon DEF bget
  <2>2. x \in Buf
    BY Zenon DEF Bucket
  <2>3. blockno' \in [Buf -> Block \cup {NoBlock}] /\ refcnt' \in [Buf -> Nat]
    BY <2>1, <2>2, SMTT(30) DEF bget_hit, bget_evict
  <2>4. valid' \in [Buf -> BOOLEAN]
    BY <2>1, <2>2, Zenon DEF bget_hit, bget_evict
  <2>5. pc' \in [Proc -> {"idle", "acquiresleep", "read", "using", "dirty",
                         "bunpin", "done", "brelse"}]
    BY <1>1, Zenon DEF bget, At
  <2>6. want' \in [Proc -> Block \cup {NoBlock}] /\ buf' \in [Proc -> Buf \cup {NoBuf}]
    BY <1>1, <2>1, <2>2, Zenon DEF bget
  <2> QED BY <1>1, <2>3, <2>4, <2>5, <2>6, Zenon DEF bget
<1>2. ASSUME NEW p \in Proc, NEW b \in Block, bget_panic(p, b) PROVE TypeOK'
  BY <1>2, Zenon DEF bget_panic, At
<1>3. ASSUME NEW p \in Proc, NEW v \in Val, modify(p, v) PROVE TypeOK'
  BY <1>3, Zenon DEF modify, At
<1>4. ASSUME NEW p \in Proc, acquiresleep(p) PROVE TypeOK'
  BY <1>4, Zenon DEF acquiresleep, At
<1>5. ASSUME NEW p \in Proc, bread(p) PROVE TypeOK'
  <2>1. buf[p] \in Buf /\ blockno[buf[p]] \in Block
    BY <1>5, Zenon DEF bread, At, Control
  <2> QED BY <1>5, <2>1, Zenon DEF bread, At
<1>6. ASSUME NEW p \in Proc, bwrite(p) \/ install(p) PROVE TypeOK'
  <2>1. buf[p] \in Buf /\ blockno[buf[p]] \in Block
    BY <1>6, Zenon DEF bwrite, install, At, Control
  <2> QED BY <1>6, <2>1, ZenonT(60) DEF bwrite, install, At
<1>7. ASSUME NEW p \in Proc, log_write(p) PROVE TypeOK'
  <2>1. buf[p] \in Buf /\ want[p] \in Block
    BY <1>7, Zenon DEF log_write, At, Control
  <2> QED BY <1>7, <2>1, SMTT(30) DEF log_write, At
<1>8. ASSUME NEW p \in Proc, bunpin(p) \/ brelse(p) PROVE TypeOK'
  <2>1. buf[p] \in Buf
    BY <1>8, Zenon DEF bunpin, brelse, At, Control
  <2>2. refcnt[buf[p]] >= 1
    BY <2>1, Unused, Zenon
  <2> QED BY <1>8, <2>1, <2>2, SMTT(30) DEF bunpin, brelse, At
<1>9. ASSUME NEW p \in Proc, releasesleep(p) PROVE TypeOK'
  BY <1>9, Zenon DEF releasesleep, At
<1>10. CASE UNCHANGED vars
  BY <1>10, Zenon DEF vars
<1> QED BY <1>1, <1>2, <1>3, <1>4, <1>5, <1>6, <1>7, <1>8, <1>9, <1>10, Zenon
      DEF Next, halted

(* The buffer bget recycles is nobody's, so every process keeps its block.  *)
LEMMA ControlStep ==
  ASSUME TypeOK, Control, RefExact, [Next]_vars
  PROVE  Control'
<1> USE DEF TypeOK
<1>1. ASSUME NEW p \in Proc, NEW b \in Block, bget(p, b) PROVE Control'
  <2>1. PICK x \in Bucket(b) :
          /\ bget_hit(p, b, x) \/ bget_evict(p, b, x)
          /\ buf' = [buf EXCEPT ![p] = x]
    BY <1>1, Zenon DEF bget
  <2>2. x \in Buf
    BY Zenon DEF Bucket
  <2>3. blockno'[x] = b
    BY <2>1, <2>2, Zenon DEF bget_hit, bget_evict
  <2>4. \A q \in Proc : buf[q] \in Buf => blockno'[buf[q]] = blockno[buf[q]]
    BY <2>1, <2>2, Unused, SMTT(30) DEF bget_hit, bget_evict
  <2> QED BY <1>1, <2>1, <2>2, <2>3, <2>4, Zenon DEF bget, At, Control
<1>2. ASSUME NEW p \in Proc, NEW b \in Block, bget_panic(p, b) PROVE Control'
  BY <1>2, Zenon DEF bget_panic, At, Control
<1>3. ASSUME NEW p \in Proc, NEW v \in Val, modify(p, v) PROVE Control'
  BY <1>3, Zenon DEF modify, At, Control
<1>4. ASSUME NEW p \in Proc, acquiresleep(p) \/ bread(p) PROVE Control'
  BY <1>4, SMTT(30) DEF acquiresleep, bread, At, Control
<1>5. ASSUME NEW p \in Proc, bwrite(p) \/ install(p) PROVE Control'
  BY <1>5, SMTT(30) DEF bwrite, install, At, Control
<1>6. ASSUME NEW p \in Proc, log_write(p) \/ bunpin(p) \/ releasesleep(p)
      PROVE  Control'
  BY <1>6, SMTT(30) DEF log_write, bunpin, releasesleep, At, Control
<1>7. ASSUME NEW p \in Proc, brelse(p) PROVE Control'
  BY <1>7, Zenon DEF brelse, At, Control
<1>8. CASE UNCHANGED vars
  BY <1>8, Zenon DEF vars, Control
<1> QED BY <1>1, <1>2, <1>3, <1>4, <1>5, <1>6, <1>7, <1>8, Zenon DEF Next, halted

(* A miss looks through the whole bucket of the block, and the block can be *)
(* cached nowhere else.                                                     *)
LEMMA CacheStep ==
  ASSUME TypeOK, Control, Placed, CachedOnce, RefExact, [Next]_vars
  PROVE  Placed' /\ CachedOnce'
<1> USE DEF TypeOK
<1>1. ASSUME NEW p \in Proc, NEW b \in Block, bget(p, b)
      PROVE  Placed' /\ CachedOnce'
  <2>1. PICK x \in Bucket(b) : bget_hit(p, b, x) \/ bget_evict(p, b, x)
    BY <1>1, Zenon DEF bget
  <2>2. CASE bget_hit(p, b, x)
    BY <1>1, <2>2, Zenon DEF bget, bget_hit, Placed, CachedOnce, Bucket
  <2>3. CASE bget_evict(p, b, x)
    <3>1. x \in Buf /\ blockno[x] \notin logged
      BY <2>3, Unused, Zenon DEF Bucket, bget_evict
    <3>2. blockno' = [blockno EXCEPT ![x] = b] /\ logged' = logged
      BY <1>1, <2>3, Zenon DEF bget, bget_evict
    <3>3. \A y \in Buf : blockno[y] # b
      BY <2>3, BioAssumption, SMTT(30) DEF bget_evict, Placed
    <3>4. Placed'
      BY <2>1, <3>1, <3>2, SMTT(30) DEF Placed, Bucket
    <3>5. CachedOnce'
      BY <3>1, <3>2, <3>3, Zenon DEF CachedOnce
    <3> QED BY <3>4, <3>5, Zenon
  <2> QED BY <2>1, <2>2, <2>3, Zenon
<1>2. ASSUME NEW p \in Proc, log_write(p) PROVE Placed' /\ CachedOnce'
  <2>1. buf[p] \in Buf /\ blockno[buf[p]] = want[p]
    BY <1>2, Zenon DEF log_write, At, Control
  <2> QED BY <1>2, <2>1, Zenon DEF log_write, Placed, CachedOnce, Bucket
<1>3. ASSUME blockno' = blockno, logged' \subseteq logged
      PROVE  Placed' /\ CachedOnce'
  BY <1>3, Zenon DEF Placed, CachedOnce, Bucket
<1>4. ASSUME NEW p \in Proc, NEW b \in Block, bget_panic(p, b)
      PROVE  blockno' = blockno /\ logged' = logged
  BY <1>4, Zenon DEF bget_panic
<1>5. ASSUME NEW p \in Proc, NEW v \in Val, modify(p, v)
      PROVE  blockno' = blockno /\ logged' = logged
  BY <1>5, Zenon DEF modify
<1>6. ASSUME NEW p \in Proc, acquiresleep(p) \/ bread(p) \/ bwrite(p) \/ install(p)
                             \/ bunpin(p) \/ releasesleep(p) \/ brelse(p)
      PROVE  blockno' = blockno /\ logged' \subseteq logged
  BY <1>6, Zenon DEF acquiresleep, bread, bwrite, install, bunpin, releasesleep, brelse
<1>7. CASE UNCHANGED vars
  BY <1>3, <1>7, Zenon DEF vars
<1> QED BY <1>1, <1>2, <1>3, <1>4, <1>5, <1>6, <1>7, Zenon DEF Next, halted

(* Each step that moves a reference or a pin moves refcnt with it.          *)
LEMMA RefStep ==
  ASSUME TypeOK, Control, Placed, CachedOnce, RefExact, Clean, [Next]_vars
  PROVE  RefExact'
<1> USE DEF TypeOK
<1>1. ASSUME NEW p \in Proc, NEW b \in Block, bget(p, b) PROVE RefExact'
  <2>1. PICK x \in Bucket(b) :
          /\ bget_hit(p, b, x) \/ bget_evict(p, b, x)
          /\ buf' = [buf EXCEPT ![p] = x]
    BY <1>1, Zenon DEF bget
  <2>2. x \in Buf /\ buf[p] = NoBuf /\ logged' = logged
    BY <1>1, Zenon DEF bget, At, Control, Bucket
  <2>3. ASSUME NEW y \in Buf, y # x
        PROVE  /\ Referrers(y)' = Referrers(y)
               /\ refcnt'[y] = refcnt[y] /\ blockno'[y] = blockno[y]
    <3>1. Referrers(y)' = Referrers(y)
      BY <2>1, <2>2, <2>3, BioAssumption, Zenon DEF Referrers, Buf, bucket
    <3> QED BY <3>1, <2>1, <2>2, <2>3, Zenon DEF bget_hit, bget_evict
  <2>4. Referrers(x)' = Referrers(x) \cup {p} /\ p \notin Referrers(x)
    BY <2>1, <2>2, BioAssumption, SMTT(30) DEF Referrers, Buf, bucket
  <2>5. Cardinality(Referrers(x)') = Cardinality(Referrers(x)) + 1
        /\ Cardinality(Referrers(x)) \in Nat
    BY <2>4, RefsFinite, FS_AddElement, Zenon
  <2>6. refcnt'[x] = refcnt[x] + 1
    BY <2>1, <2>2, SMTT(30) DEF bget_hit, bget_evict
  <2>7. blockno'[x] \in logged <=> blockno[x] \in logged
    <3>1. CASE bget_hit(p, b, x)
      BY <3>1, Zenon DEF bget_hit
    <3>2. CASE bget_evict(p, b, x)
      <4>1. blockno[x] \notin logged
        BY <2>2, <3>2, Unused, Zenon DEF bget_evict
      <4>2. \A y \in Buf : blockno[y] # b
        BY <3>2, BioAssumption, SMTT(30) DEF bget_evict, Placed
      <4> QED BY <2>2, <3>2, <4>1, <4>2, Zenon DEF bget_evict, Placed
    <3> QED BY <2>1, <3>1, <3>2, Zenon
  <2>8. refcnt'[x] = Cardinality(Referrers(x)') + (IF blockno'[x] \in logged' THEN 1 ELSE 0)
    BY <2>2, <2>5, <2>6, <2>7, SMTT(30) DEF RefExact
  <2> QED BY <2>2, <2>3, <2>8, Zenon DEF RefExact
<1>2. ASSUME NEW p \in Proc, brelse(p) PROVE RefExact'
  <2> DEFINE x == buf[p]
  <2>1. x \in Buf
    BY <1>2, Zenon DEF brelse, At, Control
  <2>2. \A y \in Buf : Referrers(y)' = Referrers(y) \ {p}
    BY <1>2, BioAssumption, Zenon DEF brelse, Referrers, Buf, bucket
  <2>3. \A y \in Buf : p \in Referrers(y) <=> y = x
    BY Zenon DEF Referrers
  <2>4. \A y \in Buf : /\ Cardinality(Referrers(y)) \in Nat
                       /\ Cardinality(Referrers(y)') = IF y = x THEN Cardinality(Referrers(y)) - 1
                                                       ELSE Cardinality(Referrers(y))
    BY <2>2, <2>3, RefsFinite, FS_RemoveElement, SMTT(30)
  <2>5. /\ blockno' = blockno /\ logged' = logged
        /\ \A y \in Buf : refcnt'[y] = IF y = x THEN refcnt[y] - 1 ELSE refcnt[y]
    BY <1>2, <2>1, Zenon DEF brelse
  <2> QED BY <2>4, <2>5, SMTT(30) DEF RefExact
<1>3. ASSUME buf' = buf
      PROVE  \A y \in Buf : Referrers(y)' = Referrers(y) /\ Cardinality(Referrers(y)) \in Nat
  BY <1>3, RefsFinite, Zenon DEF Referrers
<1>4. ASSUME NEW p \in Proc, log_write(p) \/ bunpin(p) PROVE RefExact'
  <2>1. buf[p] \in Buf /\ blockno[buf[p]] = want[p] /\ want[p] # NoBlock
    BY <1>4, BioAssumption, SMTT(30) DEF log_write, bunpin, At, Control
  <2>2. \A y \in Buf : blockno[y] = want[p] => y = buf[p]
    BY <2>1, Zenon DEF CachedOnce
  <2>3. \A y \in Buf : Referrers(y)' = Referrers(y) /\ Cardinality(Referrers(y)) \in Nat
    BY <1>3, <1>4, Zenon DEF log_write, bunpin
  <2>4. CASE log_write(p)
    BY <2>1, <2>2, <2>3, <2>4, SMTT(30) DEF log_write, RefExact
  <2>5. CASE bunpin(p)
    <3>1. want[p] \in logged
      BY <2>5, Zenon DEF bunpin, At, Clean
    <3> QED BY <2>1, <2>2, <2>3, <2>5, <3>1, SMTT(30) DEF bunpin, RefExact
  <2> QED BY <1>4, <2>4, <2>5, Zenon
<1>5. ASSUME UNCHANGED <<buf, blockno, logged, refcnt>> PROVE RefExact'
  BY <1>3, <1>5, Zenon DEF RefExact
<1>6. ASSUME NEW p \in Proc, NEW b \in Block, bget_panic(p, b) PROVE RefExact'
  BY <1>5, <1>6, Zenon DEF bget_panic
<1>7. ASSUME NEW p \in Proc, NEW v \in Val, modify(p, v) PROVE RefExact'
  BY <1>5, <1>7, Zenon DEF modify
<1>8. ASSUME NEW p \in Proc, acquiresleep(p) \/ bread(p) \/ bwrite(p) \/ install(p)
                             \/ releasesleep(p)
      PROVE  RefExact'
  BY <1>5, <1>8, Zenon DEF acquiresleep, bread, bwrite, install, releasesleep
<1>9. CASE UNCHANGED vars
  BY <1>5, <1>9, Zenon DEF vars
<1> QED BY <1>1, <1>2, <1>4, <1>6, <1>7, <1>8, <1>9, Zenon DEF Next, halted

(* The sleep lock of a buffer is held by the one process that uses it.      *)
LEMMA LockStep ==
  ASSUME TypeOK, Control, Locked, [Next]_vars
  PROVE  Locked'
<1> USE BioAssumption DEF TypeOK, Holding, InUse
<1>1. ASSUME NEW p \in Proc, NEW b \in Block, bget(p, b) PROVE Locked'
  <2>1. PICK x \in Buf : buf' = [buf EXCEPT ![p] = x]
    BY <1>1, Zenon DEF bget, Bucket
  <2>2. buf[p] \notin Buf /\ pc[p] = "idle" /\ lock' = lock
        /\ pc' = [pc EXCEPT ![p] = "acquiresleep"]
    BY <1>1, Zenon DEF bget, At, Control, Buf, bucket
  <2> QED BY <2>1, <2>2, SMTT(30) DEF Locked
<1>2. ASSUME NEW p \in Proc, NEW b \in Block, bget_panic(p, b) PROVE Locked'
  BY <1>2, SMTT(30) DEF bget_panic, At, Locked
<1>3. ASSUME NEW p \in Proc, NEW v \in Val, modify(p, v) PROVE Locked'
  BY <1>3, SMTT(30) DEF modify, At, Locked
<1>4. ASSUME NEW p \in Proc, acquiresleep(p) \/ releasesleep(p) PROVE Locked'
  <2>1. buf[p] \in Buf
    BY <1>4, Zenon DEF acquiresleep, releasesleep, At, Control
  <2>2. CASE acquiresleep(p)
    BY <2>1, <2>2, SMTT(30) DEF acquiresleep, At, Locked
  <2>3. CASE releasesleep(p)
    <3>1. lock[buf[p]] = p
      BY <2>3, Zenon DEF releasesleep, At, Locked
    <3>2. \A q \in Proc : q # p /\ pc[q] \in Holding => buf[q] # buf[p]
      BY <3>1, Zenon DEF Locked
    <3>3. \A q \in Proc : pc[q] \in Holding => buf[q] \in Buf
      BY Zenon DEF Control
    <3> QED BY <2>1, <2>3, <3>1, <3>2, <3>3, SMTT(30) DEF releasesleep, At, Locked
  <2> QED BY <1>4, <2>2, <2>3, Zenon
<1>5. ASSUME NEW p \in Proc, bread(p) \/ bwrite(p) \/ install(p) \/ log_write(p)
                             \/ bunpin(p)
      PROVE  Locked'
  BY <1>5, SMTT(30) DEF bread, bwrite, install, log_write, bunpin, At, Locked
<1>6. ASSUME NEW p \in Proc, brelse(p) PROVE Locked'
  BY <1>6, SMTT(30) DEF brelse, At, Locked
<1>7. CASE UNCHANGED vars
  BY <1>7, Zenon DEF vars, Locked
<1> QED BY <1>1, <1>2, <1>3, <1>4, <1>5, <1>6, <1>7, Zenon DEF Next, halted

(* Two processes never use one buffer.                                      *)
LEMMA Alone ==
  ASSUME Locked, NEW p \in Proc, NEW q \in Proc, buf[p] = buf[q],
         pc[p] \in Holding, pc[q] \in Holding
  PROVE  p = q
BY SMTT(30) DEF Locked

(* Only the process that holds the lock changes the data of a buffer or the *)
(* block on the disk, and it leaves them different only if it logs the      *)
(* block; a recycled buffer is not valid.                                   *)
LEMMA CleanStep ==
  ASSUME TypeOK, Control, CachedOnce, RefExact, Locked, Clean, [Next]_vars
  PROVE  Clean'
<1> USE BioAssumption DEF TypeOK
<1> DEFINE Mine(p) == /\ buf[p] \in Buf /\ want[p] \in Block
                      /\ blockno[buf[p]] = want[p]
                      /\ \A q \in Proc : q # p /\ pc[q] \in Holding =>
                           buf[q] \in Buf /\ buf[q] # buf[p] /\ want[q] # want[p]
                           /\ blockno[buf[q]] = want[q]
                      /\ \A y \in Buf : y # buf[p] => blockno[y] # want[p]
<1>0. ASSUME NEW p \in Proc, pc[p] \in Holding PROVE Mine(p)
  <2>1. buf[p] \in Buf /\ want[p] \in Block /\ blockno[buf[p]] = want[p]
    BY <1>0, Zenon DEF Control, Holding, InUse
  <2>2. \A y \in Buf : y # buf[p] => blockno[y] # want[p]
    BY <2>1, SMTT(30) DEF CachedOnce
  <2>3. ASSUME NEW q \in Proc, q # p, pc[q] \in Holding
        PROVE  buf[q] \in Buf /\ buf[q] # buf[p] /\ blockno[buf[q]] = want[q]
    BY <1>0, <2>3, Alone, Zenon DEF Control, Holding, InUse
  <2> QED BY <2>1, <2>2, <2>3, SMTT(30)
<1>1. ASSUME NEW p \in Proc, NEW b \in Block, bget(p, b) PROVE Clean'
  <2>1. PICK x \in Bucket(b) :
          /\ bget_hit(p, b, x) \/ bget_evict(p, b, x)
          /\ buf' = [buf EXCEPT ![p] = x]
    BY <1>1, Zenon DEF bget
  <2>2. /\ x \in Buf /\ pc[p] = "idle" /\ pc' = [pc EXCEPT ![p] = "acquiresleep"]
        /\ want' = [want EXCEPT ![p] = b] /\ UNCHANGED <<data, disk, logged>>
    BY <1>1, Zenon DEF bget, At, Bucket
  <2>3. CASE bget_hit(p, b, x)
    BY <2>1, <2>2, <2>3, SMTT(30) DEF bget_hit, Clean, InUse
  <2>4. CASE bget_evict(p, b, x)
    <3>1. \A q \in Proc : buf[q] # x
      BY <2>2, <2>4, Unused, Zenon DEF bget_evict
    <3>2. /\ ~valid'[x]
          /\ \A y \in Buf : y # x => valid'[y] = valid[y] /\ blockno'[y] = blockno[y]
      BY <2>2, <2>4, SMTT(30) DEF bget_evict
    <3>3. \A q \in Proc : pc[q] \in InUse => buf[q] \in Buf
      BY Zenon DEF Control, InUse
    <3> QED BY <2>1, <2>2, <3>1, <3>2, <3>3, SMTT(30) DEF Clean, InUse
  <2> QED BY <2>1, <2>3, <2>4, Zenon
<1>2. ASSUME NEW p \in Proc, NEW b \in Block, bget_panic(p, b) PROVE Clean'
  BY <1>2, SMTT(30) DEF bget_panic, At, Clean, InUse
<1>3. ASSUME NEW p \in Proc, acquiresleep(p) PROVE Clean'
  BY <1>3, SMTT(30) DEF acquiresleep, At, Clean, InUse
<1>4. ASSUME NEW p \in Proc, bread(p) PROVE Clean'
  <2>1. Mine(p)
    BY <1>0, <1>4, Zenon DEF bread, At, Holding
  <2>2. ~(\E q \in Proc : buf[q] = buf[p] /\ pc[q] = "dirty")
    BY <1>4, <2>1, Zenon DEF bread, At, Holding, InUse
  <2>3. /\ pc[p] = "read" /\ pc' = [pc EXCEPT ![p] = "using"]
        /\ valid'[buf[p]] /\ \A y \in Buf : y # buf[p] => valid'[y] = valid[y]
        /\ \A y \in Buf : y # buf[p] => data'[y] = data[y]
        /\ valid[buf[p]] \/ data'[buf[p]] = disk[want[p]]
        /\ valid[buf[p]] => data' = data
        /\ UNCHANGED <<blockno, disk, want, buf, logged>>
    BY <1>4, <2>1, SMTT(30) DEF bread, At
  <2> QED BY <2>1, <2>2, <2>3, SMTT(30) DEF Clean, InUse, Holding
<1>5. ASSUME NEW p \in Proc, NEW v \in Val, modify(p, v) PROVE Clean'
  <2>1. Mine(p)
    BY <1>0, <1>5, Zenon DEF modify, At, Holding, InUse
  <2> QED BY <1>5, <2>1, SMTT(30) DEF modify, At, Clean, InUse, Holding
<1>6. ASSUME NEW p \in Proc, bwrite(p) \/ install(p) PROVE Clean'
  <2>1. Mine(p)
    BY <1>0, <1>6, Zenon DEF bwrite, install, At, Holding, InUse
  <2>2. disk' = [disk EXCEPT ![want[p]] = data[buf[p]]]
    BY <1>6, <2>1, Zenon DEF bwrite, install
  <2>3. CASE bwrite(p)
    BY <2>1, <2>2, <2>3, SMTT(30) DEF bwrite, At, Clean, InUse, Holding
  <2>4. CASE install(p)
    BY <2>1, <2>2, <2>4, SMTT(30) DEF install, At, Clean, InUse, Holding
  <2> QED BY <1>6, <2>3, <2>4, Zenon
<1>7. ASSUME NEW p \in Proc, log_write(p) PROVE Clean'
  <2>1. Mine(p)
    BY <1>0, <1>7, Zenon DEF log_write, At, Holding, InUse
  <2> QED BY <1>7, <2>1, SMTT(30) DEF log_write, At, Clean, InUse, Holding
<1>8. ASSUME NEW p \in Proc, bunpin(p) PROVE Clean'
  <2>1. Mine(p)
    BY <1>0, <1>8, Zenon DEF bunpin, At, Holding, InUse
  <2> QED BY <1>8, <2>1, SMTT(30) DEF bunpin, At, Clean, InUse, Holding
<1>9. ASSUME NEW p \in Proc, releasesleep(p) PROVE Clean'
  BY <1>9, SMTT(30) DEF releasesleep, At, Clean, InUse
<1>10. ASSUME NEW p \in Proc, brelse(p) PROVE Clean'
  BY <1>10, SMTT(30) DEF brelse, At, Clean, InUse
<1>11. CASE UNCHANGED vars
  BY <1>11, Zenon DEF vars, Clean
<1> QED BY <1>1, <1>2, <1>3, <1>4, <1>5, <1>6, <1>7, <1>8, <1>9, <1>10, <1>11, ZenonT(60)
      DEF Next, halted

(* Every reachable state of the cache satisfies the inductive invariant.    *)
THEOREM CacheInvariant == Spec => []IInv
<1>1. Init => IInv
  <2> SUFFICES ASSUME Init PROVE IInv
    OBVIOUS
  <2>1. TypeOK /\ Control /\ Placed /\ CachedOnce /\ Locked /\ Clean
    <3>1. TypeOK
      BY BioAssumption, Zenon DEF Init, TypeOK
    <3>2. Control /\ Placed /\ CachedOnce
      BY Zenon DEF Init, Control, Placed, CachedOnce
    <3>3. Locked /\ Clean
      BY Zenon DEF Init, Locked, Clean, Holding, InUse
    <3> QED BY <3>1, <3>2, <3>3, Zenon
  <2>2. \A x \in Buf : Referrers(x) = {}
    BY BioAssumption, Zenon DEF Init, Referrers, Buf, bucket
  <2>3. Cardinality({}) = 0
    BY FS_EmptySet, Zenon
  <2>4. RefExact
    <3> SUFFICES ASSUME NEW x \in Buf
                 PROVE  refcnt[x] = Cardinality(Referrers(x))
                                    + (IF blockno[x] \in logged THEN 1 ELSE 0)
      BY Zenon DEF RefExact
    <3>1. refcnt[x] = 0 /\ blockno[x] \notin logged
      BY Zenon DEF Init
    <3> QED BY <2>2, <2>3, <3>1, SMTT(30)
  <2> QED BY <2>1, <2>4, Zenon DEF IInv
<1>2. IInv /\ [Next]_vars => IInv'
  BY TypeStep, ControlStep, CacheStep, RefStep, LockStep, CleanStep, Zenon DEF IInv
<1> QED BY <1>1, <1>2, PTL DEF Spec

(* Two buffers never cache the same block: the lookup of bget and its       *)
(* recycling are one section under the lock of the block's bucket.          *)
THEOREM OneCopy == Spec => []CachedOnce
BY CacheInvariant, PTL DEF IInv

(* refcnt is the number of processes between bget and brelse plus the log's *)
(* pin, so bget never recycles a buffer in use.                             *)
THEOREM CountsExact == Spec => []RefExact
BY CacheInvariant, PTL DEF IInv

-----------------------------------------------------------------------------
(* What block b holds, by its one copy: the buffer that caches it with valid*)
(* data, or the disk when there is none.                                    *)
Contents(b, v) ==
  \/ \E x \in Buf : blockno[x] = b /\ valid[x] /\ data[x] = v
  \/ disk[b] = v /\ \A x \in Buf : blockno[x] = b => ~valid[x]

OneUser ==
  /\ \A b \in Block : Contents(b, Holds(b)) /\ \A v : Contents(b, v) => v = Holds(b)
  /\ \A b \in Block : \A p \in Users[b] : Users[b] = {p}

(* Holds is determined by the cache and the disk, whoever uses the block,   *)
(* and no block has two users.                                              *)
LEMMA HoldsOne == IInv => OneUser
<1> SUFFICES ASSUME IInv, NEW b \in Block
             PROVE  /\ Contents(b, Holds(b)) /\ \A v : Contents(b, v) => v = Holds(b)
                    /\ \A p \in Users[b] : Users[b] = {p}
  BY Zenon DEF OneUser
<1> USE DEF IInv
<1>1. \A p \in Users[b] : /\ p \in Proc /\ pc[p] \in Holding
                          /\ buf[p] \in Buf /\ blockno[buf[p]] = b /\ valid[buf[p]]
  BY SMTT(30) DEF Users, Control, Clean, InUse, Holding
<1>2. \A x, y \in Buf : blockno[x] = b /\ blockno[y] = b => x = y
  BY BioAssumption, Zenon DEF CachedOnce
<1>3. \A p \in Users[b] : Users[b] = {p}
  BY <1>1, <1>2, Alone, SMTT(30)
<1>4. ASSUME NEW x \in Buf, blockno[x] = b, valid[x] PROVE Holds(b) = data[x]
  <2>1. CASE Users[b] # {}
    <3> DEFINE q == CHOOSE p \in Users[b] : TRUE
    <3>1. q \in Users[b]
      BY <2>1, Zenon
    <3>2. Holds(b) = data[buf[q]]
      BY <2>1, Zenon DEF Holds
    <3> HIDE DEF q
    <3>3. buf[q] = x
      BY <3>1, <1>1, <1>2, <1>4, Zenon
    <3> QED BY <3>2, <3>3, Zenon
  <2>2. CASE Users[b] = {}
    <3> DEFINE y == CHOOSE z \in Buf : blockno[z] = b /\ valid[z]
    <3>1. y \in Buf /\ blockno[y] = b
      BY <1>4, Zenon
    <3>2. Holds(b) = data[y]
      BY <1>4, <2>2, Zenon DEF Holds
    <3> HIDE DEF y
    <3>3. y = x
      BY <3>1, <1>2, <1>4, Zenon
    <3> QED BY <3>2, <3>3, Zenon
  <2> QED BY <2>1, <2>2, Zenon
<1>5. ASSUME \A x \in Buf : blockno[x] = b => ~valid[x] PROVE Holds(b) = disk[b]
  <2>1. Users[b] = {}
    BY <1>1, <1>5, Zenon
  <2> QED BY <1>5, <2>1, Zenon DEF Holds
<1> QED BY <1>3, <1>4, <1>5, Zenon DEF Contents

(* The contents and the users of the blocks are all the abstract state.     *)
LEMMA Stutter ==
  ASSUME OneUser, OneUser',
         \A b \in Block : \A v : Contents(b, v) => Contents(b, v)'
  PROVE  \A b \in Block : Holds(b)' = Holds(b)
BY Zenon DEF OneUser

(* A step of bget keeps what every block holds: recycling a buffer forgets  *)
(* nothing the disk does not have.                                          *)
LEMMA BgetKeeps ==
  ASSUME IInv, NEW p \in Proc, NEW c \in Block, bget(p, c),
         NEW b \in Block, NEW v, Contents(b, v)
  PROVE  Contents(b, v)'
<1> USE DEF IInv
<1>1. PICK x \in Bucket(c) : bget_hit(p, c, x) \/ bget_evict(p, c, x)
  BY Zenon DEF bget
<1>2. x \in Buf /\ UNCHANGED <<data, disk>>
  BY Zenon DEF bget, Bucket
<1>3. CASE bget_hit(p, c, x)
  BY <1>2, <1>3, Zenon DEF bget_hit, Contents
<1>4. CASE bget_evict(p, c, x)
  <2>1. blockno[x] \notin logged /\ \A q \in Proc : buf[q] # x
    BY <1>2, <1>4, Unused, Zenon DEF bget_evict
  <2>2. valid[x] => data[x] = disk[blockno[x]]
    BY <1>2, <2>1, Zenon DEF Clean
  <2>3. \A y \in Buf : blockno[y] # c
    BY <1>4, BioAssumption, SMTT(30) DEF bget_evict, Placed, TypeOK
  <2>4. /\ ~valid'[x] /\ blockno'[x] = c
        /\ \A y \in Buf : y # x => valid'[y] = valid[y] /\ blockno'[y] = blockno[y]
    BY <1>2, <1>4, Zenon DEF bget_evict, TypeOK
  <2>5. CASE b = c
    BY <1>2, <2>3, <2>4, <2>5, Zenon DEF Contents
  <2>6. CASE b # c /\ blockno[x] # b
    BY <1>2, <2>4, <2>6, SMTT(30) DEF Contents
  <2>7. CASE b # c /\ blockno[x] = b
    <3>1. \A y \in Buf : y # x => blockno[y] # b
      BY <1>2, <2>7, BioAssumption, Zenon DEF CachedOnce
    <3>2. disk[b] = v
      BY <1>2, <2>2, <2>7, <3>1, Zenon DEF Contents
    <3> QED BY <1>2, <2>4, <2>7, <3>1, <3>2, Zenon DEF Contents
  <2> QED BY <2>5, <2>6, <2>7, Zenon
<1> QED BY <1>1, <1>3, <1>4, Zenon

(* Every step of the cache is a step of the register of one block, or leaves*)
(* all registers and their users alone.                                     *)
LEMMA StepIsStoreStep ==
  ASSUME IInv, IInv', OneUser, OneUser', [Next]_vars
  PROVE  [Store!Next]_(Store!storeVars)
<1> USE BioAssumption DEF IInv, TypeOK
<1> DEFINE Same == Users' = Users /\ \A b \in Block : Holds(b)' = Holds(b)
           Keeps == \A b \in Block : \A v : Contents(b, v) => Contents(b, v)'
<1>0. Keeps => \A b \in Block : Holds(b)' = Holds(b)
  BY Stutter, Zenon
<1>s. ASSUME Same PROVE [Store!Next]_(Store!storeVars)
  BY <1>s, Zenon DEF Store!storeVars
<1>u. ASSUME NEW p \in Proc, pc[p] \notin InUse, pc'[p] \notin InUse,
             \A q \in Proc : q # p => pc'[q] = pc[q] /\ want'[q] = want[q]
      PROVE  Users' = Users
  BY <1>u, SMTT(30) DEF Users
<1>i. ASSUME NEW p \in Proc, pc[p] \in InUse, want' = want,
             \A q \in Proc : q # p => pc'[q] = pc[q]
      PROVE  /\ want[p] \in Block /\ p \in Users[want[p]] /\ Users[want[p]] = {p}
             /\ pc'[p] \in InUse => Users' = Users
             /\ pc'[p] \notin InUse => Users' = [Users EXCEPT ![want[p]] = {}]
  <2>1. want[p] \in Block
    BY <1>i, Zenon DEF Control, InUse
  <2>2. p \in Users[want[p]]
    BY <1>i, <2>1, Zenon DEF Users
  <2>3. Users[want[p]] = {p}
    BY <2>1, <2>2, Zenon DEF OneUser
  <2>4. pc'[p] \in InUse => Users' = Users
    BY <1>i, SMTT(30) DEF Users
  <2>5. ASSUME pc'[p] \notin InUse PROVE Users' = [Users EXCEPT ![want[p]] = {}]
    <3>1. ASSUME NEW b \in Block, b # want[p] PROVE Users'[b] = Users[b]
      BY <1>i, <2>5, <3>1, SMTT(30) DEF Users
    <3>2. \A q \in Proc : q # p => want[q] # want[p] \/ pc[q] \notin InUse
      BY <2>1, <2>3, Zenon DEF Users
    <3>3. Users'[want[p]] = {}
      BY <1>i, <2>1, <2>5, <3>2, Zenon DEF Users
    <3> QED BY <2>1, <3>1, <3>3, Zenon DEF Users
  <2> QED BY <2>1, <2>2, <2>3, <2>4, <2>5, Zenon
<1>1. ASSUME NEW p \in Proc, NEW b \in Block, bget(p, b) PROVE Same
  <2>1. Keeps
    BY <1>1, BgetKeeps, Zenon
  <2>2. Users' = Users
    BY <1>1, <1>u, Zenon DEF bget, At, InUse
  <2> QED BY <1>0, <2>1, <2>2, Zenon
<1>2. ASSUME NEW p \in Proc, NEW b \in Block, bget_panic(p, b) PROVE Same
  <2>1. Keeps
    BY <1>2, Zenon DEF bget_panic, Contents
  <2>2. Users' = Users
    BY <1>2, <1>u, Zenon DEF bget_panic, At, InUse
  <2> QED BY <1>0, <2>1, <2>2, Zenon
<1>3. ASSUME NEW p \in Proc, acquiresleep(p) \/ brelse(p) PROVE Same
  <2>1. Keeps
    BY <1>3, SMTT(30) DEF acquiresleep, brelse, Contents
  <2>2. Users' = Users
    BY <1>3, <1>u, SMTT(30) DEF acquiresleep, brelse, At, InUse
  <2> QED BY <1>0, <2>1, <2>2, Zenon
<1>4. ASSUME NEW p \in Proc, bread(p) PROVE Store!Take(p, want[p]) /\ want[p] \in Block
  <2> DEFINE x == buf[p]
             w == want[p]
  <2>1. pc[p] = "read" /\ x \in Buf /\ w \in Block /\ blockno[x] = w
    BY <1>4, Zenon DEF bread, At, Control
  <2>2. Users[w] = {}
    <3> SUFFICES ASSUME NEW q \in Users[w] PROVE FALSE
      OBVIOUS
    <3>1. q \in Proc /\ pc[q] \in InUse /\ want[q] = w
      BY <2>1, Zenon DEF Users
    <3>2. buf[q] \in Buf /\ blockno[buf[q]] = w
      BY <3>1, Zenon DEF Control, InUse
    <3>3. buf[q] = x
      BY <2>1, <3>2, SMTT(30) DEF CachedOnce
    <3>4. q = p
      BY <2>1, <3>1, <3>3, Alone, Zenon DEF Holding
    <3> QED BY <2>1, <3>1, <3>4, ZenonT(60) DEF InUse
  <2>3. Users' = [Users EXCEPT ![w] = {p}]
    <3>1. \A b \in Block : Users'[b] = IF b = w THEN {p} ELSE Users[b]
      BY <1>4, <2>1, <2>2, SMTT(30) DEF bread, At, Users, InUse
    <3> QED BY <3>1, ZenonT(60) DEF Users
  <2>4. Keeps
    <3> SUFFICES ASSUME NEW b \in Block, NEW v, Contents(b, v) PROVE Contents(b, v)'
      OBVIOUS
    <3>1. /\ valid'[x] /\ UNCHANGED <<blockno, disk>>
          /\ \A y \in Buf : y # x => valid'[y] = valid[y] /\ data'[y] = data[y]
          /\ data'[x] = IF valid[x] THEN data[x] ELSE disk[w]
      BY <1>4, <2>1, SMTT(30) DEF bread
    <3>2. \A y \in Buf : y # x => blockno[y] # w
      BY <2>1, SMTT(30) DEF CachedOnce
    <3> QED BY <2>1, <3>1, <3>2, SMTT(30) DEF Contents
  <2> QED BY <1>0, <2>1, <2>2, <2>3, <2>4, SMTT(30) DEF Store!Take
<1>5. ASSUME NEW p \in Proc, NEW v \in Val, modify(p, v)
      PROVE  Store!Change(p, want[p], v) /\ want[p] \in Block
  <2>0. want[p] \in Block /\ Users[want[p]] = {p} /\ Users' = Users
    BY <1>5, <1>i, ZenonT(60) DEF modify, At, InUse
  <2> DEFINE x == buf[p]
  <2>1. PICK w \in Block : w = want[p] /\ Users[w] = {p} /\ Users' = Users
    BY <2>0, Zenon
  <2>2. x \in Buf /\ blockno[x] = w /\ valid[x]
    BY <1>5, <2>1, SMTT(30) DEF modify, At, InUse, Control, Clean
  <2>3. \A y \in Buf : y # x => blockno[y] # w
    BY <2>1, <2>2, SMTT(30) DEF CachedOnce
  <2>4. \A b \in Block : b # w => \A u : Contents(b, u) => Contents(b, u)'
    BY <1>5, <2>2, <2>3, SMTT(30) DEF modify, Contents
  <2>5. \A b \in Block : b # w => Holds(b)' = Holds(b)
    BY <2>4, Zenon DEF OneUser
  <2>6. Contents(w, v)'
    BY <1>5, <2>2, SMTT(30) DEF modify, Contents
  <2>7. Holds(w)' = v
    BY <2>1, <2>6, Zenon DEF OneUser
  <2> QED BY <2>1, <2>5, <2>7, Zenon DEF Store!Change
<1>6. ASSUME NEW p \in Proc, bwrite(p) \/ install(p) PROVE Same
  <2>1. pc[p] \in InUse /\ Users' = Users /\ want[p] \in Block
    BY <1>6, <1>i, SMTT(30) DEF bwrite, install, At, InUse
  <2>2. buf[p] \in Buf /\ blockno[buf[p]] = want[p] /\ valid[buf[p]]
    BY <2>1, SMTT(30) DEF InUse, Control, Clean
  <2>3. \A b \in Block : b # want[p] => disk'[b] = disk[b]
    BY <1>6, <2>2, SMTT(30) DEF bwrite, install
  <2>4. Keeps
    BY <1>6, <2>2, <2>3, SMTT(30) DEF bwrite, install, Contents
  <2> QED BY <1>0, <2>1, <2>4, Zenon
<1>7. ASSUME NEW p \in Proc, log_write(p) \/ bunpin(p) PROVE Same
  <2>1. Keeps
    BY <1>7, SMTT(30) DEF log_write, bunpin, Contents
  <2>2. Users' = Users
    BY <1>7, <1>i, SMTT(30) DEF log_write, bunpin, At, InUse
  <2> QED BY <1>0, <2>1, <2>2, Zenon
<1>8. ASSUME NEW p \in Proc, releasesleep(p)
      PROVE  Store!GiveBack(p, want[p]) /\ want[p] \in Block
  <2>1. Keeps
    BY <1>8, Zenon DEF releasesleep, Contents
  <2>2. /\ want[p] \in Block /\ Users[want[p]] = {p}
        /\ Users' = [Users EXCEPT ![want[p]] = {}]
    BY <1>8, <1>i, SMTT(30) DEF releasesleep, At, InUse
  <2> QED BY <1>0, <2>1, <2>2, Zenon DEF Store!GiveBack
<1>9. CASE UNCHANGED vars
  BY <1>9, <1>0, <1>s, SMTT(30) DEF vars, Users, Contents
<1> QED
  <2>1. ASSUME NEW p \in Proc, NEW b \in Block,
               Store!Take(p, b) \/ Store!GiveBack(p, b) \/ \E v \in Val : Store!Change(p, b, v)
        PROVE  Store!Next
    BY <2>1, Zenon DEF Store!Next
  <2> HIDE DEF Same
  <2> QED BY <1>s, <1>1, <1>2, <1>3, <1>4, <1>5, <1>6, <1>7, <1>8, <1>9, <2>1, ZenonT(60)
          DEF Next, halted

(* The buffer cache implements the abstract block store.                    *)
THEOREM CacheRefinement == Spec => IsBlockStore
<1>1. Init => Store!Init
  <2> SUFFICES ASSUME Init PROVE Store!Init
    OBVIOUS
  <2>1. Users = [b \in Block |-> {}]
    BY Zenon DEF Init, Users, InUse
  <2>2. \A b \in Block : Holds(b) = disk[b]
    BY <2>1, Zenon DEF Init, Holds
  <2> QED BY <2>1, <2>2, Zenon DEF Init, Store!Init
<1>2. IInv /\ IInv' /\ OneUser /\ OneUser' /\ [Next]_vars
        => [Store!Next]_(Store!storeVars)
  BY StepIsStoreStep, Zenon
<1> QED BY <1>1, <1>2, HoldsOne, CacheInvariant, PTL DEF Spec, IsBlockStore, Store!Spec
=============================================================================
