---------------------------- MODULE XvLogProofs ----------------------------
(***************************************************************************)
(* The write-ahead log for any number of processes and blocks: a sleeper   *)
(* has a waker and changed blocks are pinned until they are home, in every *)
(* configuration; crashes leave whole groups of calls as long as the log   *)
(* fits its area (LogFits).                                                *)
(***************************************************************************)
EXTENDS XvLog, FiniteSetTheorems, TLAPS

Committing == {"write_log", "install_trans", "end_op"}
Holding == {"modify", "dirty", "log_write", "logged", "reading"}

(* The parts of TypeOK that need no bound on the length of the log.         *)
DataType ==
  /\ disk = [b \in Block |-> disk[b]]
  /\ mem = [b \in Block |-> mem[b]]
  /\ logblk = [i \in 1 .. NLOG - 1 |-> logblk[i]]

CtlType ==
  /\ head \in Seq(Block) /\ lh \in Seq(Block) /\ tail \in Nat
  /\ pin \in [Block -> Nat]
  /\ holder \in [Block -> Proc \cup {NoProc}]
  /\ outstanding \in Nat
  /\ committing \in BOOLEAN /\ panicked \in BOOLEAN
  /\ boot \in {"read_head", "install_trans", "up"}
  /\ pc \in [Proc -> InCall \cup Committing \cup {"idle", "begin_op", "asleep", "reading"}]

Once(s) == \A i, j \in DOMAIN s : s[i] = s[j] => i = j

(* A process between bread and brelse holds one block, no other holds any;  *)
(* before initlog has returned there are no calls.                          *)
Held ==
  /\ \A b \in Block : holder[b] # NoProc => pc[holder[b]] \in Holding
  /\ \A b, c \in Block : holder[b] = holder[c] /\ holder[b] # NoProc => b = c
  /\ boot # "up" => \A p \in Proc : pc[p] = "idle"

(* outstanding counts the active calls; a commit runs alone, started by the *)
(* last of them, and leaves an empty log.                                   *)
Calls ==
  /\ outstanding = Cardinality(Open)
  /\ committing <=> \E p \in Proc : pc[p] \in Committing
  /\ \A p, q \in Proc : pc[p] \in Committing /\ pc[q] \in Committing => p = q
  /\ committing => Open = {}
  /\ boot = "up" /\ Open = {} /\ ~committing => lh = <<>>
  /\ \A p \in Proc : pc[p] = "end_op" => lh = <<>>
  /\ \A p \in Proc : pc[p] = "asleep" => committing \/ Open # {}

Installing == \E p \in Proc : pc[p] = "install_trans"

(* Block b is in the log and not yet home.                                  *)
Away(b) == \E i \in DOMAIN lh : lh[i] = b /\ ~(Installing /\ i <= tail)

(* A pin for each such block; the memory is ahead of the disk only there and*)
(* where a call has changed a block it has yet to log.                      *)
Pinned ==
  /\ Once(lh) /\ Once(head)
  /\ boot # "up" => mem = disk /\ \A b \in Block : pin[b] = 0
  /\ boot = "up" => \A b \in Block : pin[b] = IF Away(b) THEN 1 ELSE 0
  /\ boot = "up" => \A b \in Block : mem[b] # disk[b] =>
       \/ Away(b)
       \/ holder[b] # NoProc /\ pc[holder[b]] \in {"dirty", "log_write"}

-----------------------------------------------------------------------------
(* The contents of memory, disk and log area stay functions.                *)
LEMMA DataStep ==
  ASSUME DataType, CtlType, [Next]_vars
  PROVE  DataType'
<1>1. ASSUME NEW f, NEW S, NEW i, NEW v, f = [b \in S |-> f[b]]
      PROVE  [f EXCEPT ![i] = v] = [b \in S |-> [f EXCEPT ![i] = v][b]]
  BY <1>1, Zenon
<1>2. ASSUME UNCHANGED <<disk, mem, logblk>> PROVE DataType'
  BY <1>2, Zenon DEF DataType
<1>3. ASSUME Install PROVE DataType'
  BY <1>1, <1>3, Zenon DEF Install, DataType
<1>4. CASE crash
  BY <1>4, Zenon DEF crash, diskVars, DataType
<1>5. CASE read_head \/ recover_install \/ recover_erase
  BY <1>2, <1>3, <1>5, Zenon
     DEF read_head, recover_install, recover_erase, Erase, diskVars
<1>6. ASSUME NEW p \in Proc, call(p) \/ begin_op(p) \/ log_write_test(p) \/ end_op(p)
                             \/ write_head(p) \/ erase(p) \/ committed(p)
      PROVE  DataType'
  BY <1>2, <1>6, Zenon
     DEF call, begin_op, log_write_test, end_op, write_head, erase, Erase,
     committed, diskVars
<1>7. ASSUME NEW p \in Proc, write_log(p) PROVE DataType'
  BY <1>1, <1>7, Zenon DEF write_log, DataType
<1>8. ASSUME NEW p \in Proc, install_trans(p) PROVE DataType'
  BY <1>3, <1>8, Zenon DEF install_trans
<1>9. ASSUME NEW p \in Proc, NEW b \in Block,
              bread(p, b) \/ log_write(p, b) \/ brelse(p, b) \/ read(p, b) \/ read_done(p, b)
       PROVE  DataType'
  BY <1>2, <1>9, Zenon DEF bread, log_write, brelse, read, read_done, diskVars
<1>10. ASSUME NEW p \in Proc, NEW b \in Block, NEW v \in Val, modify(p, b, v)
       PROVE  DataType'
  BY <1>1, <1>10, Zenon DEF modify, diskVars, DataType
<1>11. ASSUME NEW b \in Block, recycle(b) PROVE DataType'
  BY <1>1, <1>11, Zenon DEF recycle, diskVars, DataType
<1>12. CASE UNCHANGED vars
  BY <1>2, <1>12, Zenon DEF vars, diskVars
<1> QED BY <1>4, <1>5, <1>6, <1>7, <1>8, <1>9, <1>10, <1>11, <1>12, Zenon DEF Next

(* The control variables keep their types.                                  *)
LEMMA TypeStep ==
  ASSUME CtlType, Calls, Pinned, [Next]_vars
  PROVE  CtlType'
<1> USE LogAssumption DEF CtlType, Committing, InCall
<1>0. <<>> \in Seq(Block)
  OBVIOUS
<1>1. CASE crash
  BY <1>0, <1>1, Zenon DEF crash, diskVars
<1>2. CASE read_head
  BY <1>2, Zenon DEF read_head, diskVars
<1>3. ASSUME Install
      PROVE  lh[tail + 1] \in Block /\ tail + 1 \in DOMAIN lh /\ tail' \in Nat /\ head' = head
  BY <1>3, SMTT(30) DEF Install
<1>4. CASE recover_install \/ recover_erase
  <2>1. CASE recover_install
    BY <1>3, <2>1, Zenon DEF recover_install, logVars
  <2>2. CASE recover_erase
    BY <1>0, <2>2, Zenon DEF recover_erase, Erase
  <2> QED BY <1>4, <2>1, <2>2, Zenon
<1>5. ASSUME NEW p \in Proc, call(p) \/ begin_op(p) \/ log_write_test(p)
      PROVE  CtlType'
  <2>1. CASE call(p)
    BY <2>1, Zenon DEF call, At, diskVars, logVars
  <2>2. CASE begin_op(p)
    BY <2>2, SMTT(30) DEF begin_op, At, diskVars
  <2>3. CASE log_write_test(p)
    <3>1. panicked' \in BOOLEAN
      BY <2>3, Zenon DEF log_write_test
    <3> QED BY <2>3, <3>1, Zenon DEF log_write_test, At, diskVars, logVars
  <2> QED BY <1>5, <2>1, <2>2, <2>3, Zenon
<1>6. ASSUME NEW p \in Proc, end_op(p) PROVE CtlType'
  <2>1. p \in Open
    BY <1>6, Zenon DEF end_op, Open
  <2>2. outstanding # 0
    <3>1. IsFiniteSet(Open)
      BY FS_Subset, Zenon DEF Open
    <3> QED BY <2>1, <3>1, FS_EmptySet, Zenon DEF Calls
  <2>3. outstanding' \in Nat
    BY <1>6, <2>2, SMTT(30) DEF end_op
  <2> QED BY <1>6, <2>3, Zenon DEF end_op, Woken, diskVars
<1>7. ASSUME NEW p \in Proc, committed(p) PROVE CtlType'
  BY <1>7, Zenon DEF committed, Woken, diskVars
<1>8. ASSUME NEW p \in Proc, write_log(p) \/ write_head(p) \/ erase(p) PROVE CtlType'
  <2>1. CASE write_log(p)
    BY <2>1, SMTT(30) DEF write_log, At, logVars
  <2>2. CASE write_head(p)
    BY <2>2, Zenon DEF write_head, At, logVars
  <2>3. CASE erase(p)
    BY <1>0, <2>3, Zenon DEF erase, Erase, At
  <2> QED BY <1>8, <2>1, <2>2, <2>3, Zenon
<1>9. ASSUME NEW p \in Proc, install_trans(p) PROVE CtlType'
  <2> DEFINE b == lh[tail + 1]
  <2>1. b \in Block /\ boot = "up" /\ tail + 1 \in DOMAIN lh
    BY <1>3, <1>9, Zenon DEF install_trans, Install, At
  <2>2. Away(b)
    BY <2>1, SMTT(30) DEF Away
  <2>3. pin[b] = 1
    BY <2>1, <2>2, Zenon DEF Pinned
  <2> QED BY <1>3, <1>9, <2>1, <2>3, SMTT(30) DEF install_trans, At, logVars
<1>10. ASSUME NEW p \in Proc, NEW b \in Block,
              bread(p, b) \/ log_write(p, b) \/ brelse(p, b) \/ read(p, b) \/ read_done(p, b)
       PROVE  CtlType'
  <2>1. CASE bread(p, b) \/ brelse(p, b)
    BY <2>1, ZenonT(60) DEF bread, brelse, At, diskVars, logVars
  <2>2. CASE read(p, b) \/ read_done(p, b)
    BY <2>2, ZenonT(60) DEF read, read_done, At, diskVars, logVars
  <2>3. CASE log_write(p, b)
    <3>1. Append(lh, b) \in Seq(Block)
      OBVIOUS
    <3>2. lh' \in {lh, Append(lh, b)} /\ pin' \in {pin, [pin EXCEPT ![b] = @ + 1]}
      BY <2>3, Zenon DEF log_write
    <3>3. pin' \in [Block -> Nat]
      <4>1. pin \in [Block -> Nat] /\ pin[b] + 1 \in Nat
        BY SMTT(30)
      <4> QED BY <3>2, <4>1, Zenon
    <3> QED BY <2>3, <3>1, <3>2, <3>3, Zenon DEF log_write, At, diskVars
  <2> QED BY <1>10, <2>1, <2>2, <2>3, Zenon
<1>11. ASSUME NEW p \in Proc, NEW b \in Block, NEW v \in Val, modify(p, b, v)
       PROVE  CtlType'
  BY <1>11, Zenon DEF modify, At, diskVars, logVars
<1>12. ASSUME NEW b \in Block, recycle(b) PROVE CtlType'
  BY <1>12, Zenon DEF recycle, diskVars, logVars
<1>13. CASE UNCHANGED vars
  BY <1>13, Zenon DEF vars, diskVars, logVars
<1> QED BY <1>1, <1>2, <1>4, <1>5, <1>6, <1>7, <1>8, <1>9, <1>10, <1>11, <1>12, <1>13, Zenon
      DEF Next

(* bread and brelse pair up; nothing else moves a lock.                     *)
LEMMA HeldStep ==
  ASSUME CtlType, Held, [Next]_vars
  PROVE  Held'
<1> USE LogAssumption DEF CtlType, Holding
<1>1. CASE crash
  BY <1>1, Zenon DEF crash, Held
<1>2. CASE read_head \/ recover_install \/ recover_erase
  BY <1>2, SMTT(30) DEF read_head, recover_install, recover_erase, Held
<1>3. ASSUME NEW p \in Proc, boot = "up", boot' = "up", holder' = holder,
             pc[p] \in Holding => pc'[p] \in Holding,
             \A q \in Proc : q # p => pc'[q] = pc[q] \/ (pc[q] = "asleep" /\ pc'[q] = "begin_op")
      PROVE  Held'
  <2>1. \A q \in Proc : pc[q] \in Holding => pc'[q] \in Holding
    BY <1>3, Zenon
  <2>2. \A b \in Block : holder[b] # NoProc => pc'[holder[b]] \in Holding
    BY <2>1, SMTT(30) DEF Held
  <2> QED BY <1>3, <2>2, SMTT(30) DEF Held
<1>4. ASSUME NEW p \in Proc, call(p) \/ begin_op(p) \/ log_write_test(p) PROVE Held'
  BY <1>3, <1>4, Zenon DEF call, begin_op, log_write_test, At
<1>5. ASSUME NEW p \in Proc, end_op(p) \/ committed(p) PROVE Held'
  <2>1. pc[p] \notin Holding /\ boot = "up" /\ boot' = boot /\ holder' = holder
    BY <1>5, Zenon DEF end_op, committed
  <2>2. \A q \in Proc : q # p => pc'[q] = pc[q] \/ (pc[q] = "asleep" /\ pc'[q] = "begin_op")
    BY <1>5, SMTT(30) DEF end_op, committed, Woken
  <2> QED BY <1>3, <2>1, <2>2, Zenon
<1>6. ASSUME NEW p \in Proc, write_log(p) \/ write_head(p) \/ install_trans(p) \/ erase(p)
      PROVE  Held'
  BY <1>3, <1>6, Zenon DEF write_log, write_head, install_trans, erase, At
<1>7. ASSUME NEW p \in Proc, NEW b \in Block, bread(p, b) \/ read(p, b) PROVE Held'
  <2>1. /\ boot = "up" /\ boot' = boot /\ holder[b] = NoProc /\ pc[p] \notin Holding
        /\ holder' = [holder EXCEPT ![b] = p] /\ pc'[p] \in Holding
        /\ \A q \in Proc : q # p => pc'[q] = pc[q]
    BY <1>7, Zenon DEF bread, read, At
  <2>2. \A c \in Block : holder[c] # p
    BY <2>1, SMTT(30) DEF Held
  <2> QED BY <2>1, <2>2, SMTT(30) DEF Held
<1>8. ASSUME NEW p \in Proc, NEW b \in Block, brelse(p, b) \/ read_done(p, b) PROVE Held'
  <2>1. /\ boot = "up" /\ boot' = boot /\ holder[b] = p
        /\ holder' = [holder EXCEPT ![b] = NoProc]
        /\ \A q \in Proc : q # p => pc'[q] = pc[q]
    BY <1>8, Zenon DEF brelse, read_done, At
  <2>2. \A c \in Block : holder'[c] # NoProc => holder'[c] = holder[c] /\ holder[c] # p
    BY <2>1, SMTT(30) DEF Held
  <2> QED BY <2>1, <2>2, SMTT(30) DEF Held
<1>9. ASSUME NEW p \in Proc, NEW b \in Block, log_write(p, b) PROVE Held'
  <2>1. /\ boot = "up" /\ boot' = boot /\ holder' = holder
        /\ pc' = [pc EXCEPT ![p] = "logged"]
    BY <1>9, Zenon DEF log_write, At
  <2> QED BY <1>3, <2>1, Zenon
<1>10. ASSUME NEW p \in Proc, NEW b \in Block, NEW v \in Val, modify(p, b, v) PROVE Held'
  BY <1>3, <1>10, Zenon DEF modify, At
<1>11. ASSUME NEW b \in Block, recycle(b) PROVE Held'
  BY <1>11, Zenon DEF recycle, Held
<1>12. CASE UNCHANGED vars
  BY <1>12, Zenon DEF vars, Held
<1> QED BY <1>1, <1>2, <1>4, <1>5, <1>6, <1>7, <1>8, <1>9, <1>10, <1>11, <1>12, Zenon
      DEF Next

(* The set of active calls is finite, and outstanding tells whether it is   *)
(* empty and whether a call is the only one.                                *)
LEMMA OpenCount ==
  ASSUME outstanding = Cardinality(Open)
  PROVE  /\ IsFiniteSet(Open) /\ outstanding \in Nat
         /\ outstanding = 0 <=> Open = {}
         /\ \A p \in Open : outstanding = 1 => Open = {p}
         /\ \A p \in Open : outstanding # 1 => Open \ {p} # {}
<1>1. IsFiniteSet(Open)
  BY LogAssumption, FS_Subset, Zenon DEF Open
<1>2. outstanding \in Nat
  BY <1>1, FS_CardinalityType, Zenon
<1>3. outstanding = 0 <=> Open = {}
  BY <1>1, FS_EmptySet, Zenon
<1>4. outstanding = 1 <=> \E p : Open = {p}
  BY <1>1, FS_Singleton, Zenon
<1>5. \A p \in Open : outstanding = 1 => Open = {p}
  BY <1>4, Zenon
<1>6. \A p \in Open : outstanding # 1 => Open \ {p} # {}
  BY <1>4, Zenon
<1> QED BY <1>1, <1>2, <1>3, <1>5, <1>6, Zenon

(* The last call turns into the one commit; a commit lets no call in and    *)
(* ends with an empty log, and whoever has to wait leaves somebody behind   *)
(* who will wake it.                                                        *)
LEMMA CallsStep ==
  ASSUME CtlType, Held, Calls, [Next]_vars
  PROVE  Calls'
<1> USE LogAssumption DEF CtlType, Committing, InCall
<1>0. IsFiniteSet(Open) /\ (outstanding = 0 <=> Open = {})
  BY OpenCount, Zenon DEF Calls
<1>1. CASE crash
  <2>1. Open' = {}
    BY <1>1, Zenon DEF crash, Open
  <2>2. outstanding' = Cardinality(Open')
    BY <1>1, <2>1, FS_EmptySet, Zenon DEF crash
  <2> QED BY <1>1, <2>1, <2>2, Zenon DEF crash, Calls
<1>2. CASE read_head \/ recover_install \/ recover_erase
  <2>1. /\ Open' = Open /\ UNCHANGED <<outstanding, committing, pc>>
        /\ \A p \in Proc : pc[p] = "idle"
        /\ boot' = "up" => lh' = <<>>
    BY <1>2, Zenon
       DEF read_head, recover_install, recover_erase, Erase, Open, Held, logVars
  <2> QED BY <2>1, Zenon DEF Calls
\* Steps that leave a process in its group.
<1>3. ASSUME NEW p \in Proc, boot' = "up", boot = "up",
             UNCHANGED <<outstanding, committing>>,
             lh' = lh \/ lh' = <<>> \/ Open # {},
             \A q \in Proc : q # p => pc'[q] = pc[q],
             pc[p] \in InCall <=> pc'[p] \in InCall,
             pc[p] \in Committing <=> pc'[p] \in Committing,
             pc'[p] = "end_op" => lh' = <<>>,
             pc'[p] = "asleep" => committing \/ Open # {},
             lh' # lh => pc[p] \in InCall \cup Committing
      PROVE  Calls'
  <2>1. Open' = Open
    BY <1>3, Zenon DEF Open
  <2>2. \A q \in Proc : pc'[q] \in Committing <=> pc[q] \in Committing
    BY <1>3, Zenon
  <2>3. \A q \in Proc : pc'[q] = "end_op" => lh' = <<>>
    BY <1>3, SMTT(30) DEF Calls, Open
  <2> QED BY <1>3, <2>1, <2>2, <2>3, ZenonT(60) DEF Calls
<1>4. ASSUME NEW p \in Proc, call(p) \/ log_write_test(p) PROVE Calls'
  BY <1>3, <1>4, SMTT(30) DEF call, log_write_test, At, logVars
<1>5. ASSUME NEW p \in Proc, write_log(p) \/ write_head(p) \/ install_trans(p)
      PROVE  Calls'
  BY <1>3, <1>5, ZenonT(60) DEF write_log, write_head, install_trans, At, logVars
<1>6. ASSUME NEW p \in Proc, erase(p) PROVE Calls'
  BY <1>3, <1>6, Zenon DEF erase, Erase, At
<1>7. ASSUME NEW p \in Proc, NEW b \in Block,
             bread(p, b) \/ brelse(p, b) \/ read(p, b) \/ read_done(p, b)
      PROVE  Calls'
  BY <1>3, <1>7, ZenonT(60) DEF bread, brelse, read, read_done, At, logVars
<1>8. ASSUME NEW p \in Proc, NEW b \in Block, log_write(p, b) PROVE Calls'
  <2>1. p \in Open
    BY <1>8, Zenon DEF log_write, At, Open
  <2>2. /\ boot = "up" /\ boot' = "up" /\ UNCHANGED <<outstanding, committing>>
        /\ pc[p] = "log_write" /\ pc' = [pc EXCEPT ![p] = "logged"]
    BY <1>8, Zenon DEF log_write, At
  <2> QED BY <1>3, <2>1, <2>2, Zenon
<1>9. ASSUME NEW p \in Proc, NEW b \in Block, NEW v \in Val, modify(p, b, v) PROVE Calls'
  BY <1>3, <1>9, Zenon DEF modify, At, logVars
<1>10. ASSUME NEW p \in Proc, begin_op(p), MustWait PROVE Calls'
  <2>1. committing \/ Open # {}
    <3> SUFFICES ASSUME ~committing, Open = {} PROVE FALSE
      OBVIOUS
    <3>1. lh = <<>> /\ outstanding = 0
      BY <1>0, <1>10, Zenon DEF begin_op, At, Calls
    <3>2. Len(lh) + (outstanding + 1) * MAXOPBLOCKS = MAXOPBLOCKS
      BY <3>1, SMTT(30)
    <3> QED BY <1>10, <3>2, SMTT(30) DEF MustWait
  <2> QED BY <1>3, <1>10, <2>1, Zenon DEF begin_op, At
<1>11. ASSUME NEW p \in Proc, begin_op(p), ~MustWait PROVE Calls'
  <2>1. /\ ~committing /\ pc[p] = "begin_op" /\ pc' = [pc EXCEPT ![p] = "op"]
        /\ outstanding' = outstanding + 1 /\ UNCHANGED <<committing, lh>>
    BY <1>11, Zenon DEF begin_op, At, MustWait
  <2>2. Open' = Open \cup {p} /\ p \notin Open
    BY <2>1, SMTT(30) DEF Open
  <2>3. outstanding' = Cardinality(Open')
    BY <1>0, <2>1, <2>2, FS_AddElement, Zenon DEF Calls
  <2> QED BY <2>1, <2>2, <2>3, SMTT(30) DEF Calls
<1>12. ASSUME NEW p \in Proc, end_op(p) PROVE Calls'
  <2>1. p \in Open /\ boot = "up" /\ UNCHANGED <<lh, boot>> /\ outstanding' = outstanding - 1
    BY <1>12, Zenon DEF end_op, Open
  <2>2. ~committing /\ \A q \in Proc : pc[q] \notin Committing
    BY <2>1, Zenon DEF Calls
  <2>3. Open' = Open \ {p}
    BY <1>12, SMTT(30) DEF end_op, Open, Woken
  <2>4. outstanding' = Cardinality(Open')
    BY <1>0, <2>1, <2>3, FS_RemoveElement, Zenon DEF Calls
  <2>5. CASE outstanding = 1
    <3>1. Open' = {}
      BY <2>1, <2>3, <2>5, OpenCount, Zenon DEF Calls
    <3>2. committing' = TRUE
      BY <1>12, <2>5, Zenon DEF end_op
    <3>3. /\ pc' = [pc EXCEPT ![p] = IF lh = <<>> THEN "end_op" ELSE "write_log"]
      BY <1>12, <2>5, Zenon DEF end_op
    <3> QED BY <2>1, <2>2, <2>4, <3>1, <3>2, <3>3, SMTT(30) DEF Calls
  <2>6. CASE outstanding # 1
    <3>1. Open' # {}
      BY <2>1, <2>3, <2>6, OpenCount, Zenon DEF Calls
    <3>2. committing' = FALSE
      BY <1>12, <2>2, <2>6, Zenon DEF end_op
    <3>3. pc' = Woken(p, "idle")
      BY <1>12, <2>6, Zenon DEF end_op
    <3>4. \A q \in Proc : pc'[q] \notin Committing /\ pc'[q] # "asleep"
      BY <2>2, <3>3, Zenon DEF Woken
    <3> QED BY <2>4, <3>1, <3>2, <3>4, Zenon DEF Calls
  <2> QED BY <2>5, <2>6, Zenon
<1>13. ASSUME NEW p \in Proc, committed(p) PROVE Calls'
  <2>1. /\ pc[p] = "end_op" /\ pc' = Woken(p, "idle") /\ committing' = FALSE
        /\ UNCHANGED <<lh, outstanding>>
    BY <1>13, Zenon DEF committed
  <2>2. lh = <<>> /\ \A q \in Proc : q # p => pc[q] \notin Committing
    BY <2>1, Zenon DEF Calls
  <2>3. \A q \in Proc : pc'[q] \notin Committing /\ pc'[q] # "asleep"
    BY <2>1, <2>2, Zenon DEF Woken
  <2>4. Open' = Open
    BY <2>1, Zenon DEF Open, Woken
  <2> QED BY <2>1, <2>2, <2>3, <2>4, Zenon DEF Calls
<1>14. ASSUME UNCHANGED <<outstanding, committing, lh, boot, pc>> PROVE Calls'
  BY <1>14, SMTT(30) DEF Calls, Open
<1>15. ASSUME NEW b \in Block, recycle(b) PROVE Calls'
  BY <1>14, <1>15, Zenon DEF recycle, logVars
<1>16. CASE UNCHANGED vars
  BY <1>14, <1>16, Zenon DEF vars, logVars
<1> QED BY <1>1, <1>2, <1>4, <1>5, <1>6, <1>7, <1>8, <1>9, <1>10, <1>11, <1>12, <1>13,
           <1>15, <1>16, ZenonT(60) DEF Next

(* log_write pins a block when it enters the log, install_trans lets it go  *)
(* when it is home, and a block leaves the log only then.                   *)
LEMMA PinnedStep ==
  ASSUME DataType, CtlType, Held, Calls, Pinned, [Next]_vars
  PROVE  Pinned'
<1> USE LogAssumption DEF CtlType
<1> DEFINE Dirty == {"dirty", "log_write"}
           Alike(b) == Away(b)' <=> Away(b)
<1>a. ASSUME lh' = lh, ~Installing, ~Installing' PROVE \A b : Alike(b)
  BY <1>a, Zenon DEF Away
<1>b. ASSUME lh' = lh, tail' = tail, Installing' <=> Installing PROVE \A b : Alike(b)
  BY <1>b, Zenon DEF Away
<1>c. ASSUME NEW p \in Proc, pc[p] # "install_trans", pc'[p] # "install_trans",
             \A q \in Proc : q # p => (pc'[q] = "install_trans" <=> pc[q] = "install_trans")
      PROVE  Installing' <=> Installing
  BY <1>c, Zenon DEF Installing
<1>d. ASSUME NEW p \in Proc, pc[p] \in InCall \/ pc[p] \in {"write_log", "end_op"}
      PROVE  ~Installing
  BY <1>d, Zenon DEF Installing, Calls, Open, Committing, InCall
<1>q. ASSUME boot = "up", boot' = "up", \A b \in Block : Alike(b),
             UNCHANGED <<pin, mem, disk>>, Once(lh)', Once(head)',
             \A b \in Block : holder[b] # NoProc /\ pc[holder[b]] \in Dirty =>
               holder'[b] = holder[b] /\ pc'[holder[b]] \in Dirty
      PROVE  Pinned'
  BY <1>q, Zenon DEF Pinned
<1>1. CASE crash
  <2>1. Once(lh)' /\ Once(head)'
    BY <1>1, SMTT(30) DEF crash, diskVars, Once, Pinned
  <2> QED BY <1>1, <2>1, Zenon DEF crash, diskVars, Pinned
<1>2. CASE read_head
  BY <1>2, Zenon DEF read_head, diskVars, Once, Pinned
<1>3. CASE recover_install
  <2>1. mem = disk /\ mem' = disk' /\ UNCHANGED <<lh, head, boot, pin>> /\ boot # "up"
    BY <1>3, Zenon DEF recover_install, Install, logVars, Pinned
  <2> QED BY <2>1, Zenon DEF Once, Pinned
<1>4. CASE recover_erase
  <2>1. /\ boot # "up" /\ lh' = <<>> /\ head' = <<>> /\ UNCHANGED <<mem, disk, pin>>
    BY <1>4, Zenon DEF recover_erase, Erase
  <2>2. \A b \in Block : ~Away(b)'
    BY <2>1, SMTT(30) DEF Away
  <2> QED BY <2>1, <2>2, SMTT(30) DEF Once, Pinned
<1>5. ASSUME NEW p \in Proc, call(p) \/ begin_op(p) \/ log_write_test(p) PROVE Pinned'
  <2>1. /\ boot = "up" /\ boot' = boot /\ UNCHANGED <<pin, mem, disk, head, lh, tail, holder>>
        /\ \A q \in Proc : q # p => pc'[q] = pc[q]
        /\ pc[p] \in Dirty => pc'[p] \in Dirty
        /\ pc[p] # "install_trans" /\ pc'[p] # "install_trans"
    BY <1>5, Zenon DEF call, begin_op, log_write_test, At, diskVars, logVars
  <2>2. \A b \in Block : Alike(b)
    BY <1>b, <1>c, <2>1, Zenon
  <2>3. Once(lh)' /\ Once(head)'
    BY <2>1, SMTT(30) DEF Once, Pinned
  <2> QED BY <1>q, <2>1, <2>2, <2>3, Zenon
<1>6. ASSUME NEW p \in Proc, NEW c \in Block,
             bread(p, c) \/ read(p, c) \/ brelse(p, c) \/ read_done(p, c)
      PROVE  Pinned'
  <2>1. /\ boot = "up" /\ boot' = boot /\ UNCHANGED <<pin, mem, disk, head, lh, tail>>
        /\ \A q \in Proc : q # p => pc'[q] = pc[q]
        /\ pc[p] \notin Dirty
        /\ pc[p] # "install_trans" /\ pc'[p] # "install_trans"
        /\ holder[c] \in {NoProc, p} /\ \A b \in Block : b # c => holder'[b] = holder[b]
    BY <1>6, SMTT(30) DEF bread, read, brelse, read_done, At, diskVars, logVars
  <2>2. \A b \in Block : Alike(b)
    BY <1>b, <1>c, <2>1, SMTT(30)
  <2>3. Once(lh)' /\ Once(head)'
    BY <2>1, SMTT(30) DEF Once, Pinned
  <2> QED BY <1>q, <2>1, <2>2, <2>3, SMTT(30)
<1>7. ASSUME NEW p \in Proc, NEW c \in Block, NEW v \in Val, modify(p, c, v)
      PROVE  Pinned'
  <2>1. /\ boot = "up" /\ boot' = boot /\ UNCHANGED <<pin, disk, head, lh, tail, holder>>
        /\ \A q \in Proc : q # p => pc'[q] = pc[q]
        /\ pc[p] = "modify" /\ pc'[p] = "dirty" /\ holder[c] = p
        /\ \A b \in Block : b # c => mem'[b] = mem[b]
    BY <1>7, SMTT(30) DEF modify, At, diskVars, logVars
  <2>2. \A b \in Block : Alike(b)
    BY <1>b, <1>c, <2>1, Zenon
  <2>3. Once(lh)' /\ Once(head)'
    BY <2>1, SMTT(30) DEF Once, Pinned
  <2>4. \A b \in Block : b # c /\ mem[b] # disk[b] =>
          Away(b) \/ (holder[b] # NoProc /\ holder[b] # p /\ pc[holder[b]] \in Dirty)
    BY <2>1, SMTT(30) DEF Pinned
  <2>5. \A b \in Block : mem'[b] # disk'[b] =>
          Away(b) \/ (holder[b] # NoProc /\ pc'[holder[b]] \in Dirty)
    <3>1. holder[c] # NoProc /\ pc'[holder[c]] \in Dirty
      BY <2>1, Zenon
    <3>2. \A b \in Block : b # c /\ mem'[b] # disk'[b] => mem[b] # disk[b]
      BY <2>1, Zenon
    <3>3. \A b \in Block : holder[b] # NoProc /\ holder[b] # p => pc'[holder[b]] = pc[holder[b]]
      BY <2>1, Zenon
    <3> QED BY <2>4, <3>1, <3>2, <3>3, Zenon
  <2>6. \A b \in Block : pin[b] = IF Away(b) THEN 1 ELSE 0
    BY <2>1, Zenon DEF Pinned
  <2> QED BY <2>1, <2>2, <2>3, <2>5, <2>6, SMTT(30) DEF Pinned
<1>8. ASSUME NEW p \in Proc, NEW c \in Block, log_write(p, c) PROVE Pinned'
  <2>1. /\ boot = "up" /\ boot' = boot /\ UNCHANGED <<disk, mem, head, tail, holder>>
        /\ pc[p] = "log_write" /\ pc' = [pc EXCEPT ![p] = "logged"] /\ holder[c] = p
    BY <1>8, Zenon DEF log_write, At, diskVars
  <2>2. ~Installing /\ ~Installing'
    BY <1>c, <1>d, <2>1, Zenon DEF InCall
  <2>3. \A b \in Block : b # c /\ holder[b] # NoProc /\ pc[holder[b]] \in Dirty =>
          pc'[holder[b]] \in Dirty
    BY <2>1, Zenon DEF Held
  <2>4. CASE \E i \in DOMAIN lh : lh[i] = c
    <3>1. UNCHANGED <<lh, pin>> /\ Away(c)
      BY <1>8, <2>2, <2>4, Zenon DEF log_write, Away
    <3>2. \A b \in Block : Alike(b)
      BY <1>a, <2>2, <3>1, Zenon
    <3>3. Once(lh)' /\ Once(head)'
      BY <2>1, <3>1, SMTT(30) DEF Once, Pinned
    <3> QED BY <2>1, <2>3, <3>1, <3>2, <3>3, SMTT(30) DEF Pinned
  <2>5. CASE ~ \E i \in DOMAIN lh : lh[i] = c
    <3>1. lh' = Append(lh, c) /\ pin' = [pin EXCEPT ![c] = @ + 1]
      BY <1>8, <2>5, Zenon DEF log_write
    <3>2. /\ DOMAIN lh = 1 .. Len(lh) /\ DOMAIN lh' = 1 .. Len(lh) + 1 /\ Len(lh) \in Nat
          /\ lh'[Len(lh) + 1] = c
          /\ \A i \in DOMAIN lh : lh'[i] = lh[i]
      BY <3>1, SMTT(30)
    <3>3. Once(lh)'
      BY <2>5, <3>2, SMTT(30) DEF Once, Pinned
    <3>4. Away(c)' /\ ~Away(c)
      BY <2>2, <2>5, <3>2, SMTT(30) DEF Away
    <3>5. ASSUME NEW b \in Block, b # c PROVE Alike(b)
      <4>1. Away(b) <=> \E i \in DOMAIN lh : lh[i] = b
        BY <2>2, Zenon DEF Away
      <4>2. Away(b)' <=> \E i \in DOMAIN lh' : lh'[i] = b
        BY <2>2, Zenon DEF Away
      <4>3. \A i \in DOMAIN lh' : i \in DOMAIN lh \/ i = Len(lh) + 1
        BY <3>2, SMTT(30)
      <4>4. \A i \in DOMAIN lh : i \in DOMAIN lh'
        BY <3>2, SMTT(30)
      <4> QED BY <3>2, <3>5, <4>1, <4>2, <4>3, <4>4, Zenon
    <3>6. \A b \in Block : pin'[b] = IF Away(b)' THEN 1 ELSE 0
      BY <2>1, <3>1, <3>4, <3>5, SMTT(30) DEF Pinned
    <3>7. Once(head)'
      BY <2>1, Zenon DEF Once, Pinned
    <3> QED BY <2>1, <2>3, <3>3, <3>4, <3>5, <3>6, <3>7, Zenon DEF Pinned
  <2> QED BY <2>4, <2>5, Zenon
<1>9. ASSUME NEW p \in Proc, end_op(p) \/ committed(p) PROVE Pinned'
  <2>1. /\ boot = "up" /\ boot' = boot /\ UNCHANGED <<pin, mem, disk, head, lh, holder>>
        /\ pc[p] \in {"op", "end_op"} /\ pc'[p] \in {"idle", "end_op", "write_log"}
    BY <1>9, Zenon DEF end_op, committed, Woken, diskVars
  <2>2. \A q \in Proc : q # p => pc'[q] = pc[q] \/ (pc[q] = "asleep" /\ pc'[q] = "begin_op")
    BY <1>9, SMTT(30) DEF end_op, committed, Woken
  <2>3. ~Installing /\ ~Installing'
    BY <1>c, <1>d, <2>1, <2>2, Zenon DEF InCall
  <2>4. \A b \in Block : Alike(b)
    BY <1>a, <2>1, <2>3, Zenon
  <2>5. Once(lh)' /\ Once(head)'
    BY <2>1, SMTT(30) DEF Once, Pinned
  <2> QED BY <1>q, <2>1, <2>2, <2>4, <2>5, Zenon
<1>10. ASSUME NEW p \in Proc, write_log(p) PROVE Pinned'
  <2>1. /\ boot = "up" /\ boot' = boot /\ UNCHANGED <<pin, mem, disk, head, lh, holder>>
        /\ pc' = pc /\ pc[p] = "write_log"
    BY <1>10, SMTT(30) DEF write_log, At, logVars
  <2>2. ~Installing /\ ~Installing'
    BY <1>d, <2>1, Zenon DEF Installing
  <2>3. \A b \in Block : Alike(b)
    BY <1>a, <2>1, <2>2, Zenon
  <2>4. Once(lh)' /\ Once(head)'
    BY <2>1, SMTT(30) DEF Once, Pinned
  <2> QED BY <1>q, <2>1, <2>3, <2>4, Zenon
<1>11. ASSUME NEW p \in Proc, write_head(p) PROVE Pinned'
  <2>1. /\ boot = "up" /\ boot' = boot /\ UNCHANGED <<pin, mem, disk, lh, holder>>
        /\ pc[p] = "write_log" /\ pc' = [pc EXCEPT ![p] = "install_trans"]
        /\ head' = lh /\ tail' = 0
    BY <1>11, Zenon DEF write_head, At, logVars
  <2>2. ~Installing
    BY <1>d, <2>1, Zenon
  <2>3. \A b \in Block : Alike(b)
    BY <2>1, <2>2, SMTT(30) DEF Away
  <2>4. Once(lh)' /\ Once(head)'
    BY <2>1, SMTT(30) DEF Once, Pinned
  <2> QED BY <1>q, <2>1, <2>3, <2>4, Zenon
<1>12. ASSUME NEW p \in Proc, install_trans(p) PROVE Pinned'
  <2>0. PICK c \in Block : c = lh[tail + 1]
    BY <1>12, SMTT(30) DEF install_trans, Install
  <2>1. /\ boot = "up" /\ boot' = boot /\ UNCHANGED <<head, lh, holder>>
        /\ pc' = pc /\ pc[p] = "install_trans"
        /\ tail < Len(lh) /\ tail' = tail + 1 /\ tail + 1 \in DOMAIN lh /\ lh[tail + 1] = c
    BY <1>12, <2>0, SMTT(30) DEF install_trans, Install, At, logVars
  <2>2. Installing /\ Installing'
    BY <2>1, Zenon DEF Installing
  <2>3. Away(c) /\ ~Away(c)'
    BY <2>1, <2>2, SMTT(30) DEF Away, Pinned, Once
  <2>4. \A b \in Block : b # c => Alike(b)
    BY <2>1, <2>2, SMTT(30) DEF Away
  <2>5. pin' = [pin EXCEPT ![c] = @ - 1] /\ pin[c] = 1
    BY <1>12, <2>1, <2>3, Zenon DEF install_trans, Pinned
  <2>6. /\ mem'[c] = disk'[c]
        /\ \A b \in Block : b # c => mem'[b] = mem[b] /\ disk'[b] = disk[b]
    BY <1>12, <2>1, Zenon DEF install_trans, Install, DataType
  <2>7. Once(lh)' /\ Once(head)'
    BY <2>1, SMTT(30) DEF Once, Pinned
  <2>8. ASSUME NEW b \in Block PROVE pin'[b] = IF Away(b)' THEN 1 ELSE 0
    <3>1. CASE b = c
      BY <2>3, <2>5, <3>1, SMTT(30)
    <3>2. CASE b # c
      <4>1. Away(b)' <=> Away(b)
        BY <2>4, <3>2, Zenon
      <4>2. pin'[b] = pin[b]
        BY <2>5, <3>2, Zenon DEF DataType
      <4>3. pin[b] = IF Away(b) THEN 1 ELSE 0
        BY <2>1, Zenon DEF Pinned
      <4> QED BY <4>1, <4>2, <4>3, Zenon
    <3> QED BY <3>1, <3>2, Zenon
  <2>9. \A b \in Block : mem'[b] # disk'[b] =>
          Away(b)' \/ (holder[b] # NoProc /\ pc[holder[b]] \in Dirty)
    BY <2>1, <2>4, <2>6, SMTT(30) DEF Pinned
  <2> QED BY <2>1, <2>7, <2>8, <2>9, Zenon DEF Pinned
<1>13. ASSUME NEW p \in Proc, erase(p) PROVE Pinned'
  <2>1. /\ boot = "up" /\ boot' = boot /\ UNCHANGED <<pin, mem, disk, holder>>
        /\ pc[p] = "install_trans" /\ pc' = [pc EXCEPT ![p] = "end_op"]
        /\ tail = Len(lh) /\ lh' = <<>> /\ head' = <<>>
    BY <1>13, Zenon DEF erase, Erase, At
  <2>2. Installing
    BY <2>1, Zenon DEF Installing
  <2>3. \A b \in Block : ~Away(b) /\ ~Away(b)'
    BY <2>1, <2>2, SMTT(30) DEF Away
  <2>4. Once(lh)' /\ Once(head)'
    BY <2>1, SMTT(30) DEF Once
  <2> QED BY <1>q, <2>1, <2>3, <2>4, Zenon
<1>14. ASSUME NEW c \in Block, recycle(c) PROVE Pinned'
  <2>1. /\ boot = "up" /\ boot' = boot
        /\ UNCHANGED <<pin, disk, holder, pc, lh, head, tail>>
        /\ holder[c] = NoProc /\ pin[c] = 0 /\ mem' = [mem EXCEPT ![c] = disk[c]]
    BY <1>14, Zenon DEF recycle, diskVars, logVars
  <2>2. mem[c] = disk[c]
    BY <2>1, SMTT(30) DEF Pinned
  <2>3. mem' = mem
    BY <2>1, <2>2, SMTT(30) DEF DataType
  <2>4. Once(lh)' /\ Once(head)'
    BY <2>1, SMTT(30) DEF Once, Pinned
  <2>5. Installing' <=> Installing
    BY <2>1, Zenon DEF Installing
  <2> QED BY <1>b, <1>q, <2>1, <2>3, <2>4, <2>5, Zenon
<1>15. CASE UNCHANGED vars
  <2>1. UNCHANGED <<pin, disk, holder, pc, lh, head, tail, mem, boot>>
    BY <1>15, Zenon DEF vars, diskVars, logVars
  <2>2. Installing' <=> Installing
    BY <2>1, Zenon DEF Installing
  <2>3. \A b \in Block : Alike(b)
    BY <1>b, <2>1, <2>2, Zenon
  <2>4. Once(lh)' /\ Once(head)'
    BY <2>1, SMTT(30) DEF Once, Pinned
  <2> QED BY <2>1, <2>3, <2>4, Zenon DEF Pinned
<1> QED BY <1>1, <1>2, <1>3, <1>4, <1>5, <1>6, <1>7, <1>8, <1>9, <1>10, <1>11, <1>12,
           <1>13, <1>14, <1>15, ZenonT(60) DEF Next

LogInv == DataType /\ CtlType /\ Held /\ Calls /\ Pinned

(* Every reachable state satisfies the invariant of the log in memory.      *)
THEOREM LogInvariant == Spec => []LogInv
<1>1. Init => LogInv
  <2> SUFFICES ASSUME Init PROVE LogInv
    OBVIOUS
  <2>1. DataType
    BY Zenon DEF Init, DataType
  <2>2. CtlType
    <3>1. <<>> \in Seq(Block)
      OBVIOUS
    <3> QED BY <3>1, Zenon DEF Init, CtlType
  <2>3. Open = {}
    BY Zenon DEF Init, Open, InCall
  <2>4. outstanding = Cardinality(Open)
    BY <2>3, FS_EmptySet, Zenon DEF Init
  <2>5. Calls
    BY <2>3, <2>4, Zenon DEF Init, Calls, Committing
  <2>6. Held /\ Pinned
    BY SMTT(30) DEF Init, Held, Pinned, Once
  <2> QED BY <2>1, <2>2, <2>5, <2>6, Zenon DEF LogInv
<1>2. LogInv /\ [Next]_vars => LogInv'
  BY DataStep, TypeStep, HeldStep, CallsStep, PinnedStep, Zenon DEF LogInv
<1> QED BY <1>1, <1>2, PTL DEF Spec

(* Nobody sleeps in begin_op while no call is active and no commit runs, so *)
(* end_op's wakeup(&log) is still to come.                                  *)
THEOREM SleepersWake == Spec => []SleeperHasWaker
<1>1. LogInv => SleeperHasWaker
  BY Zenon DEF LogInv, Calls, SleeperHasWaker, Committing
<1> QED BY <1>1, LogInvariant, PTL

(* A block whose changes are not on the disk is locked or pinned, and the   *)
(* pins are exactly those of the blocks in the log that are not yet home.   *)
THEOREM PinsExact == Spec => []PinnedUntilHome
<1>1. LogInv => PinnedUntilHome
  <2> SUFFICES ASSUME LogInv, boot = "up", NEW b \in Block
               PROVE  /\ mem[b] # disk[b] => holder[b] # NoProc \/ pin[b] > 0
                      /\ pin[b] = Cardinality({i \in DOMAIN lh :
                           lh[i] = b /\ ~(\E p \in Proc :
                             pc[p] \in {"install_trans", "end_op"} /\ i <= tail)})
    BY Zenon DEF PinnedUntilHome
  <2> DEFINE S == {i \in DOMAIN lh : lh[i] = b /\ ~(\E p \in Proc :
                     pc[p] \in {"install_trans", "end_op"} /\ i <= tail)}
  <2>1. pin[b] = (IF Away(b) THEN 1 ELSE 0) /\ Once(lh)
        /\ (mem[b] # disk[b] => Away(b) \/ holder[b] # NoProc)
    BY Zenon DEF LogInv, Pinned
  <2>2. \A p \in Proc : pc[p] = "end_op" => DOMAIN lh = {}
    BY SMTT(30) DEF LogInv, Calls
  <2>3. S = {i \in DOMAIN lh : lh[i] = b /\ ~(Installing /\ i <= tail)}
    BY <2>2, Zenon DEF Installing
  <2>4. CASE Away(b)
    <3>1. PICK i \in DOMAIN lh : lh[i] = b /\ ~(Installing /\ i <= tail)
      BY <2>4, Zenon DEF Away
    <3>2. S = {i}
      BY <2>1, <2>3, <3>1, SMTT(30) DEF Once
    <3>3. Cardinality(S) = 1
      BY <3>2, FS_Singleton, Zenon
    <3> QED BY <2>1, <2>4, <3>3, SMTT(30)
  <2>5. CASE ~Away(b)
    <3>1. S = {}
      BY <2>3, <2>5, Zenon DEF Away
    <3>2. Cardinality(S) = 0
      BY <3>1, FS_EmptySet, Zenon
    <3> QED BY <2>1, <2>5, <3>2, Zenon
  <2> QED BY <2>4, <2>5, Zenon
<1> QED BY <1>1, LogInvariant, PTL
=============================================================================
