----------------------------- MODULE XvLogCrash -----------------------------
(***************************************************************************)
(* Crashes: as long as the log fits its area, what a boot finds is always  *)
(* the result of whole groups of calls.                                    *)
(***************************************************************************)
EXTENDS XvLogProofs

(* The header on the disk is empty but between the write that commits and   *)
(* the one that erases; by then the log area holds what the memory holds,   *)
(* and recovery goes through the same blocks.                               *)
Durable ==
  /\ boot = "up" /\ ~Installing => head = <<>>
  /\ Installing => head = lh /\ \A i \in DOMAIN lh : logblk[i] = mem[lh[i]]
  /\ \A p \in Proc : pc[p] = "write_log" =>
       \A i \in DOMAIN lh : i <= tail => logblk[i] = mem[lh[i]]
  /\ boot = "install_trans" =>
       lh = head /\ \A i \in DOMAIN lh : i <= tail => disk[lh[i]] = logblk[i]

(* Steps outside a commit and a recovery concern none of this.              *)
LEMMA DurableQuiet ==
  ASSUME Durable, boot = "up", boot' = "up",
         UNCHANGED <<head, logblk, mem, lh, tail>>, NEW p \in Proc,
         pc[p] \notin {"write_log", "install_trans"},
         pc'[p] \notin {"write_log", "install_trans"},
         \A q \in Proc : q # p => \A s \in {"write_log", "install_trans"} : pc'[q] = s <=> pc[q] = s
  PROVE  Durable'
BY Zenon DEF Durable, Installing

(* A commit writes the log area, then the header, then the homes, and no    *)
(* call changes the memory meanwhile.                                       *)
LEMMA DurableStep ==
  ASSUME LogInv, LogFits, Durable, [Next]_vars
  PROVE  Durable'
<1> USE DEF LogInv, CtlType
<1>a. ASSUME NEW p \in Proc, pc[p] \in InCall
      PROVE  \A q \in Proc : pc[q] \notin Committing
  BY <1>a, Zenon DEF Calls, Open
<1>b. ASSUME NEW p \in Proc, pc[p] \in Committing
      PROVE  \A q \in Proc : q # p => pc[q] \notin Committing
  BY <1>b, Zenon DEF Calls
<1>1. CASE crash
  BY <1>1, Zenon DEF crash, Durable, Installing
<1>2. CASE read_head
  <2>1. \A p \in Proc : pc[p] = "idle" /\ pc'[p] = "idle"
    BY <1>2, Zenon DEF read_head, Held
  <2>2. lh' = head /\ head' = head /\ tail' = 0 /\ boot' = "install_trans"
    BY <1>2, Zenon DEF read_head, diskVars
  <2> QED BY <2>1, <2>2, SMTT(30) DEF Durable, Installing
<1>3. CASE recover_install
  <2>1. \A p \in Proc : pc[p] = "idle" /\ pc'[p] = "idle"
    BY <1>3, Zenon DEF recover_install, Held
  <2>2. /\ lh = head /\ lh' = lh /\ head' = head /\ logblk' = logblk
        /\ boot = "install_trans" /\ boot' = boot
        /\ tail' = tail + 1 /\ tail + 1 \in DOMAIN lh
        /\ disk' = [disk EXCEPT ![lh[tail + 1]] = logblk[tail + 1]]
    BY <1>3, SMTT(30) DEF recover_install, Install, logVars, Durable
  <2>3. ASSUME NEW i \in DOMAIN lh, i <= tail + 1 PROVE disk'[lh[i]] = logblk[i]
    <3>1. lh[i] \in Block /\ lh[tail + 1] \in Block
      BY <2>2, SMTT(30)
    <3>2. CASE i = tail + 1
      BY <2>2, <3>1, <3>2, Zenon DEF DataType
    <3>3. CASE i # tail + 1
      <4>1. lh[i] # lh[tail + 1] /\ i <= tail
        BY <2>2, <2>3, <3>3, SMTT(30) DEF Pinned, Once
      <4>2. disk[lh[i]] = logblk[i]
        BY <2>2, <4>1, Zenon DEF Durable
      <4> QED BY <2>2, <3>1, <4>1, <4>2, Zenon DEF DataType
    <3> QED BY <3>2, <3>3, Zenon
  <2> QED BY <2>1, <2>2, <2>3, SMTT(30) DEF Durable, Installing
<1>4. CASE recover_erase
  <2>1. \A p \in Proc : pc[p] = "idle" /\ pc'[p] = "idle"
    BY <1>4, Zenon DEF recover_erase, Held
  <2> QED BY <1>4, <2>1, Zenon DEF recover_erase, Erase, Durable, Installing
<1>5. ASSUME NEW p \in Proc, call(p) \/ begin_op(p) \/ log_write_test(p) PROVE Durable'
  BY <1>5, DurableQuiet, Zenon DEF call, begin_op, log_write_test, At, diskVars, logVars
<1>6. ASSUME NEW p \in Proc, NEW b \in Block,
             bread(p, b) \/ brelse(p, b) \/ read(p, b) \/ read_done(p, b)
      PROVE  Durable'
  BY <1>6, DurableQuiet, ZenonT(60)
     DEF bread, brelse, read, read_done, At, diskVars, logVars
<1>7. ASSUME NEW p \in Proc, NEW b \in Block,
             log_write(p, b) \/ \E v \in Val : modify(p, b, v)
      PROVE  Durable'
  <2>1. /\ boot = "up" /\ boot' = boot /\ head' = head
        /\ pc[p] \in InCall /\ pc'[p] \in InCall
        /\ \A q \in Proc : q # p => pc'[q] = pc[q]
    BY <1>7, Zenon DEF log_write, modify, At, diskVars, InCall
  <2>2. \A q \in Proc : pc[q] \notin Committing /\ pc'[q] \notin Committing
    BY <1>a, <2>1, Zenon DEF Committing, InCall
  <2> QED BY <2>1, <2>2, Zenon DEF Durable, Installing, Committing
<1>8. ASSUME NEW p \in Proc, end_op(p) PROVE Durable'
  <2>1. /\ boot = "up" /\ boot' = boot /\ head' = head /\ pc[p] \in InCall
        /\ tail' = 0 /\ UNCHANGED <<lh, logblk, mem>>
        /\ pc'[p] # "install_trans"
    BY <1>8, Zenon DEF end_op, diskVars, Woken, InCall
  <2>2. \A q \in Proc : q # p => (pc'[q] = "install_trans" <=> pc[q] = "install_trans")
    BY <1>8, Zenon DEF end_op, Woken
  <2>3. ~Installing /\ ~Installing'
    BY <1>a, <2>1, <2>2, Zenon DEF Installing, Committing
  <2> QED BY <2>1, <2>3, SMTT(30) DEF Durable
<1>9. ASSUME NEW p \in Proc, committed(p) PROVE Durable'
  <2>1. /\ boot = "up" /\ boot' = boot /\ UNCHANGED <<head, logblk, mem, lh, tail>>
        /\ pc[p] = "end_op" /\ pc'[p] = "idle"
    BY <1>9, Zenon DEF committed, diskVars, Woken
  <2>2. \A q \in Proc : q # p => \A s \in {"write_log", "install_trans"} : pc'[q] = s <=> pc[q] = s
    BY <1>9, Zenon DEF committed, Woken
  <2> QED BY <2>1, <2>2, DurableQuiet, Zenon
<1>10. ASSUME NEW p \in Proc, write_log(p) PROVE Durable'
  <2>1. /\ boot = "up" /\ boot' = boot /\ UNCHANGED <<head, mem, lh, pc>>
        /\ pc[p] = "write_log" /\ tail' = tail + 1 /\ tail + 1 \in DOMAIN lh
        /\ logblk' = [logblk EXCEPT ![tail + 1] = mem[lh[tail + 1]]]
    BY <1>10, SMTT(30) DEF write_log, At, logVars
  <2>2. tail + 1 \in 1 .. NLOG - 1
    BY <2>1, LogAssumption, SMTT(30) DEF LogFits
  <2>3. ASSUME NEW i \in DOMAIN lh, i <= tail + 1 PROVE logblk'[i] = mem[lh[i]]
    <3>1. DOMAIN logblk = 1 .. NLOG - 1
      BY Zenon DEF DataType
    <3>2. CASE i = tail + 1
      BY <2>1, <2>2, <3>1, <3>2, Zenon
    <3>3. CASE i # tail + 1
      <4>1. i <= tail
        BY <2>3, <3>3, SMTT(30)
      <4>2. logblk[i] = mem[lh[i]]
        BY <2>1, <4>1, Zenon DEF Durable
      <4>3. i \in 1 .. NLOG - 1
        BY LogAssumption, SMTT(30) DEF LogFits
      <4> QED BY <2>1, <3>1, <3>3, <4>2, <4>3, Zenon
    <3> QED BY <3>2, <3>3, Zenon
  <2>4. ~Installing /\ ~Installing'
    BY <1>b, <2>1, Zenon DEF Installing, Committing
  <2> QED BY <2>1, <2>3, <2>4, SMTT(30) DEF Durable
<1>11. ASSUME NEW p \in Proc, write_head(p) PROVE Durable'
  <2>1. /\ boot = "up" /\ boot' = boot /\ UNCHANGED <<logblk, mem, lh>>
        /\ pc[p] = "write_log" /\ pc' = [pc EXCEPT ![p] = "install_trans"]
        /\ tail = Len(lh) /\ head' = lh
    BY <1>11, Zenon DEF write_head, At, logVars
  <2>2. \A i \in DOMAIN lh : logblk[i] = mem[lh[i]]
    BY <2>1, SMTT(30) DEF Durable
  <2>3. Installing' /\ \A q \in Proc : pc'[q] # "write_log"
    BY <1>b, <2>1, Zenon DEF Installing, Committing
  <2> QED BY <2>1, <2>2, <2>3, Zenon DEF Durable
<1>12. ASSUME NEW p \in Proc, install_trans(p) PROVE Durable'
  <2>1. /\ boot = "up" /\ boot' = boot /\ UNCHANGED <<logblk, head, lh, pc>>
        /\ pc[p] = "install_trans" /\ tail + 1 \in DOMAIN lh /\ lh[tail + 1] \in Block
        /\ mem' = [mem EXCEPT ![lh[tail + 1]] = logblk[tail + 1]]
    BY <1>12, SMTT(30) DEF install_trans, Install, At, logVars
  <2>2. Installing /\ Installing' /\ \A q \in Proc : pc'[q] # "write_log"
    BY <1>b, <2>1, Zenon DEF Installing, Committing
  <2>3. \A i \in DOMAIN lh : logblk[i] = mem[lh[i]]
    BY <2>2, Zenon DEF Durable
  <2>4. mem' = mem
    BY <2>1, <2>3, Zenon DEF DataType
  <2> QED BY <2>1, <2>2, <2>3, <2>4, ZenonT(60) DEF Durable
<1>13. ASSUME NEW p \in Proc, erase(p) PROVE Durable'
  <2>1. /\ boot' = "up" /\ head' = <<>>
        /\ pc[p] = "install_trans" /\ pc' = [pc EXCEPT ![p] = "end_op"]
    BY <1>13, Zenon DEF erase, Erase, At
  <2>2. \A q \in Proc : pc'[q] \notin {"write_log", "install_trans"}
    BY <1>b, <2>1, Zenon DEF Committing
  <2> QED BY <2>1, <2>2, Zenon DEF Durable, Installing
<1>14. ASSUME NEW b \in Block, recycle(b) PROVE Durable'
  <2>1. /\ boot = "up" /\ boot' = boot /\ UNCHANGED <<head, logblk, lh, tail, pc>>
        /\ mem' = [mem EXCEPT ![b] = disk[b]] /\ holder[b] = NoProc /\ pin[b] = 0
    BY <1>14, Zenon DEF recycle, diskVars, logVars
  <2>2. mem[b] = disk[b]
    BY <2>1, SMTT(30) DEF Pinned
  <2>3. mem' = mem
    BY <2>1, <2>2, Zenon DEF DataType
  <2> QED BY <2>1, <2>3, SMTT(30) DEF Durable, Installing
<1>15. CASE UNCHANGED vars
  BY <1>15, Zenon DEF vars, diskVars, logVars, Durable, Installing
<1> QED BY <1>1, <1>2, <1>3, <1>4, <1>5, <1>6, <1>7, <1>8, <1>9, <1>10, <1>11, <1>12,
           <1>13, <1>14, <1>15, ZenonT(60) DEF Next

-----------------------------------------------------------------------------
(* What recovery will install: the logged blocks from the log area, the     *)
(* others as they are.                                                      *)
Recovers ==
  /\ \A i \in DOMAIN head : Recovered[head[i]] = logblk[i]
  /\ \A b \in Block : (\A i \in DOMAIN head : head[i] # b) => Recovered[b] = disk[b]

(* CHOOSE has no choice: a block is in the header once.                     *)
LEMMA RecoveredIs == LogInv => Recovers
<1> SUFFICES ASSUME LogInv PROVE Recovers
  OBVIOUS
<1>1. ASSUME NEW i \in DOMAIN head PROVE Recovered[head[i]] = logblk[i]
  <2> DEFINE j == CHOOSE k \in DOMAIN head : head[k] = head[i]
  <2>1. j \in DOMAIN head /\ head[j] = head[i]
    OBVIOUS
  <2>2. head[i] \in Block
    BY SMTT(30) DEF LogInv, CtlType
  <2>3. Recovered[head[i]] = logblk[j]
    BY <2>2, Zenon DEF Recovered
  <2> HIDE DEF j
  <2>4. j = i
    BY <2>1, Zenon DEF LogInv, Pinned, Once
  <2> QED BY <2>3, <2>4, Zenon
<1>2. ASSUME NEW b \in Block, \A i \in DOMAIN head : head[i] # b
      PROVE  Recovered[b] = disk[b]
  BY <1>2, Zenon DEF Recovered
<1> QED BY <1>1, <1>2, Zenon DEF Recovers

(* Without active calls the memory is ahead of the disk in the log only.    *)
LEMMA Quiesced ==
  ASSUME LogInv, boot = "up", Open = {}, NEW b \in Block, ~Away(b)
  PROVE  mem[b] = disk[b]
BY Zenon DEF LogInv, CtlType, Pinned, Open, InCall

(* An empty header: nothing to recover.                                     *)
LEMMA NothingLogged ==
  ASSUME LogInv, Recovers, head = <<>>
  PROVE  Recovered = disk
<1>1. \A b \in Block : Recovered[b] = disk[b]
  BY SMTT(30) DEF Recovers
<1> QED BY <1>1, SMTT(30) DEF LogInv, DataType, Recovered

AbsMem == IF boot = "up" THEN mem ELSE Recovered

(* Every step of the log is a step of the abstract specification or changes *)
(* nothing there; the only one that changes what is durable is the write of *)
(* the header.                                                              *)
LEMMA StepIsCommitStep ==
  ASSUME LogInv, LogInv', Durable, Durable', Recovers, Recovers', [Next]_vars
  PROVE  [Log!Next]_(Log!commitVars)
<1> USE DEF LogInv, CtlType
<1>s. ASSUME UNCHANGED <<AbsMem, Recovered, Open>> PROVE [Log!Next]_(Log!commitVars)
  BY <1>s, Zenon DEF Log!commitVars, AbsMem
<1>r. ASSUME UNCHANGED <<disk, logblk, head>> PROVE Recovered' = Recovered
  BY <1>r, Zenon DEF Recovered
<1>f. ASSUME \A b \in Block : Recovered'[b] = Recovered[b] PROVE Recovered' = Recovered
  BY <1>f, Zenon DEF Recovered
<1>o. ASSUME NEW p \in Proc, pc'[p] \in InCall <=> pc[p] \in InCall,
             \A q \in Proc : q # p => (pc'[q] \in InCall <=> pc[q] \in InCall)
      PROVE  Open' = Open
  BY <1>o, Zenon DEF Open
<1>1. CASE crash
  <2>1. boot' = "read_head" /\ Open' = {} /\ Recovered' = Recovered
    BY <1>1, <1>r, Zenon DEF crash, diskVars, Open, InCall
  <2>2. Log!Crash
    BY <2>1, Zenon DEF Log!Crash
  <2> QED BY <2>2, Zenon DEF Log!Next
<1>2. CASE read_head
  <2>1. boot # "up" /\ boot' # "up" /\ Recovered' = Recovered /\ pc' = pc
    BY <1>2, <1>r, Zenon DEF read_head, diskVars
  <2> QED BY <1>s, <2>1, Zenon DEF AbsMem, Open
<1>3. CASE recover_install
  <2>1. /\ boot = "install_trans" /\ boot' = boot /\ pc' = pc /\ lh = head
        /\ UNCHANGED <<head, logblk>> /\ tail + 1 \in DOMAIN head
        /\ disk' = [disk EXCEPT ![head[tail + 1]] = logblk[tail + 1]]
    BY <1>3, SMTT(30) DEF recover_install, Install, Durable
  <2>2. ASSUME NEW b \in Block PROVE Recovered'[b] = Recovered[b]
    <3>1. CASE \E i \in DOMAIN head : head[i] = b
      BY <2>1, <3>1, SMTT(30) DEF Recovers
    <3>2. CASE ~ \E i \in DOMAIN head : head[i] = b
      BY <2>1, <3>2, ZenonT(60) DEF Recovers, DataType
    <3> QED BY <3>1, <3>2, Zenon
  <2>3. Recovered' = Recovered
    BY <1>f, <2>2, Zenon
  <2> QED BY <1>s, <2>1, <2>3, Zenon DEF AbsMem, Open
<1>4. CASE recover_erase
  <2>1. /\ boot = "install_trans" /\ boot' = "up" /\ pc' = pc /\ lh = head
        /\ UNCHANGED <<logblk, disk, mem>> /\ tail = Len(lh) /\ head' = <<>>
    BY <1>4, ZenonT(60) DEF recover_erase, Erase, Durable
  <2>2. Recovered' = disk /\ mem = disk
    BY <2>1, NothingLogged, RecoveredIs, SMTT(30)
       DEF Recovers, Pinned, DataType, Recovered
  <2>3. \A b \in Block : Recovered[b] = disk[b]
    BY <2>1, SMTT(30) DEF Recovers, Durable
  <2>4. Recovered = disk
    BY <2>3, Zenon DEF Recovered, DataType
  <2> QED BY <1>s, <2>1, <2>2, <2>4, Zenon DEF AbsMem, Open
<1>5. ASSUME boot = "up", boot' = "up", UNCHANGED <<mem, disk, logblk, head>>, Open' = Open
      PROVE  [Log!Next]_(Log!commitVars)
  BY <1>5, <1>r, <1>s, Zenon DEF AbsMem
<1>6. ASSUME NEW p \in Proc, call(p) \/ log_write_test(p) \/ committed(p)
      PROVE  [Log!Next]_(Log!commitVars)
  <2>1. Open' = Open
    BY <1>6, <1>o, ZenonT(60) DEF call, log_write_test, committed, At, Woken, InCall
  <2> QED BY <1>5, <1>6, <2>1, Zenon DEF call, log_write_test, committed, At, diskVars
<1>7. ASSUME NEW p \in Proc, NEW b \in Block,
             bread(p, b) \/ log_write(p, b) \/ brelse(p, b) \/ read(p, b) \/ read_done(p, b)
      PROVE  [Log!Next]_(Log!commitVars)
  <2>1. Open' = Open
    BY <1>7, <1>o, ZenonT(60) DEF bread, log_write, brelse, read, read_done, At, InCall
  <2> QED BY <1>5, <1>7, <2>1, Zenon
        DEF bread, log_write, brelse, read, read_done, At, diskVars
<1>8. ASSUME NEW p \in Proc, begin_op(p) PROVE [Log!Next]_(Log!commitVars)
  <2>1. /\ boot = "up" /\ boot' = "up" /\ pc[p] = "begin_op"
        /\ UNCHANGED <<mem, disk, logblk, head>>
        /\ \A q \in Proc : q # p => pc'[q] = pc[q]
    BY <1>8, Zenon DEF begin_op, At, diskVars
  <2>2. CASE MustWait
    <3>1. Open' = Open
      BY <1>8, <1>o, <2>1, <2>2, Zenon DEF begin_op, At, InCall
    <3> QED BY <1>5, <2>1, <3>1, Zenon
  <2>3. CASE ~MustWait
    <3>1. pc'[p] = "op" /\ ~committing
      BY <1>8, <2>3, Zenon DEF begin_op, At, MustWait
    <3>2. p \notin Open /\ Open' = Open \cup {p}
      BY <2>1, <3>1, Zenon DEF Open, InCall
    <3>3. ASSUME Open = {} PROVE mem = Recovered
      <4>1. lh = <<>> /\ ~Installing
        BY <2>1, <3>1, <3>3, Zenon DEF Calls, Installing, Committing
      <4>2. head = <<>>
        BY <2>1, <4>1, Zenon DEF Durable
      <4>3. \A b \in Block : ~Away(b)
        BY <4>1, SMTT(30) DEF Away
      <4>4. \A b \in Block : mem[b] = disk[b]
        BY <2>1, <3>3, <4>3, Quiesced, Zenon
      <4>5. mem = disk
        BY <4>4, Zenon DEF DataType
      <4> QED BY <4>2, <4>5, NothingLogged, Zenon
    <3>4. Recovered' = Recovered
      BY <1>r, <2>1, Zenon
    <3>5. Log!Begin(p)
      BY <2>1, <3>2, <3>3, <3>4, Zenon DEF Log!Begin
    <3> QED BY <3>5, Zenon DEF Log!Next
  <2> QED BY <2>2, <2>3, Zenon
<1>9. ASSUME NEW p \in Proc, NEW b \in Block, NEW v \in Val, modify(p, b, v)
      PROVE  [Log!Next]_(Log!commitVars)
  <2>1. /\ boot = "up" /\ boot' = "up" /\ UNCHANGED <<disk, logblk, head>>
        /\ mem' = [mem EXCEPT ![b] = v]
    BY <1>9, Zenon DEF modify, At, diskVars
  <2>2. p \in Open /\ Open' = Open
    BY <1>9, <1>o, Zenon DEF modify, At, InCall, Open
  <2>3. Recovered' = Recovered
    BY <1>r, <2>1, Zenon
  <2>4. Log!Write(p, b, v)
    BY <2>1, <2>2, <2>3, Zenon DEF Log!Write
  <2> QED BY <2>4, Zenon DEF Log!Next
<1>10. ASSUME NEW p \in Proc, end_op(p) PROVE [Log!Next]_(Log!commitVars)
  <2>1. /\ boot = "up" /\ boot' = "up" /\ UNCHANGED <<mem, disk, logblk, head>>
    BY <1>10, Zenon DEF end_op, diskVars
  <2>2. p \in Open /\ Open' = Open \ {p}
    BY <1>10, SMTT(30) DEF end_op, InCall, Open, Woken
  <2>3. Recovered' = Recovered
    BY <1>r, <2>1, Zenon
  <2>4. Log!End(p)
    BY <2>1, <2>2, <2>3, Zenon DEF Log!End
  <2> QED BY <2>4, Zenon DEF Log!Next
<1>11. ASSUME NEW p \in Proc, write_log(p) PROVE [Log!Next]_(Log!commitVars)
  <2>1. /\ boot = "up" /\ boot' = "up" /\ UNCHANGED <<mem, disk, head, pc>>
        /\ pc[p] = "write_log"
    BY <1>11, Zenon DEF write_log, At
  <2>2. ~Installing
    BY <2>1, Zenon DEF Installing, Calls, Committing
  <2>3. head = <<>>
    BY <2>1, <2>2, Zenon DEF Durable
  <2>4. \A b \in Block : Recovered[b] = disk[b] /\ Recovered'[b] = disk[b]
    BY <2>1, <2>3, SMTT(30) DEF Recovers
  <2>5. Recovered' = Recovered
    BY <1>f, <2>4, Zenon
  <2> QED BY <1>s, <2>1, <2>5, Zenon DEF AbsMem, Open
<1>12. ASSUME NEW p \in Proc, write_head(p) PROVE [Log!Next]_(Log!commitVars)
  <2>1. /\ boot = "up" /\ boot' = "up" /\ UNCHANGED <<mem, disk, logblk, lh>>
        /\ pc[p] = "write_log" /\ tail = Len(lh) /\ head' = lh
        /\ pc' = [pc EXCEPT ![p] = "install_trans"]
    BY <1>12, Zenon DEF write_head, At, logVars
  <2>2. Open = {} /\ Open' = {} /\ ~Installing
    BY <2>1, Zenon DEF Installing, Calls, Committing, Open, InCall
  <2>3. \A i \in DOMAIN lh : logblk[i] = mem[lh[i]]
    BY <2>1, SMTT(30) DEF Durable
  <2>4. ASSUME NEW b \in Block PROVE Recovered'[b] = mem[b]
    <3>1. CASE \E i \in DOMAIN lh : lh[i] = b
      BY <2>1, <2>3, <3>1, SMTT(30) DEF Recovers
    <3>2. CASE ~ \E i \in DOMAIN lh : lh[i] = b
      <4>1. mem[b] = disk[b]
        BY <2>1, <2>2, <3>2, Quiesced, Zenon DEF Away
      <4> QED BY <2>1, <3>2, <4>1, ZenonT(60) DEF Recovers
    <3> QED BY <3>1, <3>2, Zenon
  <2>5. Recovered' = mem
    BY <2>4, Zenon DEF Recovered, DataType
  <2>6. Log!Commit
    BY <2>1, <2>2, <2>5, Zenon DEF Log!Commit
  <2> QED BY <2>6, Zenon DEF Log!Next
<1>13. ASSUME NEW p \in Proc, install_trans(p) PROVE [Log!Next]_(Log!commitVars)
  <2>1. /\ boot = "up" /\ boot' = "up" /\ UNCHANGED <<head, logblk, pc>>
        /\ pc[p] = "install_trans" /\ tail + 1 \in DOMAIN lh
        /\ mem' = [mem EXCEPT ![lh[tail + 1]] = logblk[tail + 1]]
        /\ disk' = [disk EXCEPT ![lh[tail + 1]] = logblk[tail + 1]]
    BY <1>13, SMTT(30) DEF install_trans, Install, At
  <2>2. lh = head /\ logblk[tail + 1] = mem[lh[tail + 1]] /\ lh[tail + 1] \in Block
    BY <2>1, SMTT(30) DEF Durable, Installing
  <2>3. mem' = mem
    BY <2>1, <2>2, SMTT(30) DEF DataType
  <2>4. ASSUME NEW b \in Block PROVE Recovered'[b] = Recovered[b]
    <3>0. UNCHANGED <<head, logblk>>
      BY <2>1, Zenon
    <3>1. CASE \E i \in DOMAIN head : head[i] = b
      BY <3>0, <3>1, SMTT(30) DEF Recovers
    <3>2. CASE ~ \E i \in DOMAIN head : head[i] = b
      <4>1. lh[tail + 1] # b
        BY <2>1, <2>2, <3>2, Zenon
      <4>2. disk'[b] = disk[b]
        BY <2>1, <4>1, Zenon DEF DataType
      <4> QED BY <3>0, <3>2, <4>2, Zenon DEF Recovers
    <3> QED BY <3>1, <3>2, Zenon
  <2>5. Recovered' = Recovered
    BY <1>f, <2>4, Zenon
  <2> QED BY <1>s, <2>1, <2>3, <2>5, Zenon DEF AbsMem, Open
<1>14. ASSUME NEW p \in Proc, erase(p) PROVE [Log!Next]_(Log!commitVars)
  <2>1. /\ boot = "up" /\ boot' = "up" /\ UNCHANGED <<mem, disk, logblk>>
        /\ pc[p] = "install_trans" /\ pc' = [pc EXCEPT ![p] = "end_op"]
        /\ tail = Len(lh) /\ head' = <<>>
    BY <1>14, Zenon DEF erase, Erase, At
  <2>2. Installing /\ Open = {} /\ Open' = Open
    BY <2>1, Zenon DEF Installing, Calls, Committing, Open, InCall
  <2>3. head = lh /\ \A i \in DOMAIN lh : logblk[i] = mem[lh[i]]
    BY <2>2, Zenon DEF Durable
  <2>4. \A b \in Block : mem[b] = disk[b]
    BY <2>1, <2>2, Quiesced, SMTT(30) DEF Away
  <2>5. ASSUME NEW b \in Block PROVE Recovered'[b] = Recovered[b]
    <3>1. Recovered'[b] = disk[b]
      BY <2>1, SMTT(30) DEF Recovers
    <3>2. CASE \E i \in DOMAIN head : head[i] = b
      <4>1. Recovered[b] = mem[b]
        BY <2>3, <3>2, SMTT(30) DEF Recovers
      <4> QED BY <2>4, <3>1, <4>1, Zenon
    <3>3. CASE ~ \E i \in DOMAIN head : head[i] = b
      BY <3>1, <3>3, Zenon DEF Recovers
    <3> QED BY <3>2, <3>3, Zenon
  <2>6. Recovered' = Recovered
    BY <1>f, <2>5, Zenon
  <2> QED BY <1>s, <2>1, <2>2, <2>6, Zenon DEF AbsMem
<1>15. ASSUME NEW b \in Block, recycle(b) PROVE [Log!Next]_(Log!commitVars)
  <2>1. /\ boot = "up" /\ boot' = "up" /\ UNCHANGED <<disk, logblk, head, pc>>
        /\ mem' = [mem EXCEPT ![b] = disk[b]] /\ holder[b] = NoProc /\ pin[b] = 0
    BY <1>15, Zenon DEF recycle, diskVars
  <2>2. ~Away(b)
    BY <2>1, SMTT(30) DEF Pinned
  <2>3. mem[b] = disk[b]
    BY <2>1, <2>2, Zenon DEF Pinned
  <2>4. mem' = mem
    BY <2>1, <2>3, SMTT(30) DEF DataType
  <2> QED BY <1>5, <2>1, <2>4, Zenon DEF Open
<1>16. CASE UNCHANGED vars
  <2>1. UNCHANGED <<mem, disk, logblk, head, pc, boot>>
    BY <1>16, Zenon DEF vars, diskVars
  <2> QED BY <1>r, <1>s, <2>1, Zenon DEF AbsMem, Open
<1> QED BY <1>1, <1>2, <1>3, <1>4, <1>6, <1>7, <1>8, <1>9, <1>10, <1>11, <1>12, <1>13,
           <1>14, <1>15, <1>16, ZenonT(60) DEF Next

(* Crash safety: as long as the log fits its area, the log of xv6 implements*)
(* the atomic and durable commit of groups of file system calls, whenever   *)
(* the machine stops.                                                       *)
THEOREM CrashSafe == Spec /\ []LogFits => IsGroupCommit
<1>1. Init => Log!Init
  <2> SUFFICES ASSUME Init PROVE Log!Init
    OBVIOUS
  <2>1. Recovered = [b \in Block |-> disk[b]]
    BY SMTT(30) DEF Init, Recovered
  <2>2. Recovered \in [Block -> Val] /\ Open = {} /\ boot # "up"
    BY <2>1, Zenon DEF Init, Open, InCall
  <2> QED BY <2>2, Zenon DEF Log!Init
<1>2. Init => Durable
  BY Zenon DEF Init, Durable, Installing
<1>3. LogInv /\ LogFits /\ Durable /\ [Next]_vars => Durable'
  BY DurableStep, Zenon
<1>4. LogInv /\ LogInv' /\ Durable /\ Durable' /\ Recovers /\ Recovers' /\ [Next]_vars
        => [Log!Next]_(Log!commitVars)
  BY StepIsCommitStep, Zenon
<1> QED BY <1>1, <1>2, <1>3, <1>4, LogInvariant, RecoveredIs, PTL
        DEF Spec, IsGroupCommit, Log!Spec

-----------------------------------------------------------------------------
(* The blocks of its own that the call of p has in the log, and what is     *)
(* left of the MAXOPBLOCKS blocks that begin_op set aside for each call.    *)
Logged(p) == {b \in wrote[p] : \E i \in DOMAIN lh : lh[i] = b}
Spare == {x \in Open \X (1 .. MAXOPBLOCKS) : x[2] > Cardinality(Logged(x[1]))}

(* A call changes MAXOPBLOCKS blocks at most, one at a time.                *)
Quota ==
  /\ \A p \in Proc : IsFiniteSet(wrote[p]) /\ Cardinality(wrote[p]) <= MAXOPBLOCKS
  /\ \A p \in Proc : pc[p] = "modify" =>
       \A b \in Block : holder[b] = p => Cardinality(wrote[p] \cup {b}) <= MAXOPBLOCKS
  /\ \A p \in Proc : pc[p] \in {"dirty", "log_write"} =>
       \A b \in Block : holder[b] = p => b \in wrote[p]
  /\ wrote = [p \in Proc |-> wrote[p]]

(* There is room for what the active calls may still add.                   *)
Reserved == Len(lh) + Cardinality(Spare) <= LOGSIZE /\ Len(head) <= LOGSIZE

(* What a call has logged is a finite set.                                  *)
LEMMA LoggedCount ==
  ASSUME Quota, NEW p \in Proc
  PROVE  IsFiniteSet(Logged(p)) /\ Cardinality(Logged(p)) \in Nat
<1>1. IsFiniteSet(wrote[p]) /\ Logged(p) \subseteq wrote[p]
  BY Zenon DEF Quota, Logged
<1> QED BY <1>1, FS_Subset, FS_CardinalityType, Zenon

(* At most MAXOPBLOCKS for each active call.                                *)
LEMMA SpareCount ==
  ASSUME outstanding = Cardinality(Open)
  PROVE  /\ IsFiniteSet(Spare) /\ Cardinality(Spare) \in Nat /\ outstanding \in Nat
         /\ Cardinality(Spare) <= outstanding * MAXOPBLOCKS
         /\ Open = {} => Cardinality(Spare) = 0
<1>1. IsFiniteSet(Open) /\ outstanding \in Nat
  BY OpenCount, Zenon
<1>2. IsFiniteSet(1 .. MAXOPBLOCKS) /\ Cardinality(1 .. MAXOPBLOCKS) = MAXOPBLOCKS
  BY LogAssumption, FS_Interval, SMTT(30)
<1>3. /\ IsFiniteSet(Open \X (1 .. MAXOPBLOCKS))
      /\ Cardinality(Open \X (1 .. MAXOPBLOCKS)) = Cardinality(Open) * Cardinality(1 .. MAXOPBLOCKS)
  BY <1>1, <1>2, FS_Product, Zenon
<1>4. Spare \subseteq Open \X (1 .. MAXOPBLOCKS)
  BY Zenon DEF Spare
<1>5. IsFiniteSet(Spare) /\ Cardinality(Spare) <= Cardinality(Open \X (1 .. MAXOPBLOCKS))
  BY <1>3, <1>4, FS_Subset, Zenon
<1>6. Cardinality(Spare) \in Nat
  BY <1>5, FS_CardinalityType, Zenon
<1>7. Open = {} => Spare = {}
  BY <1>4, Zenon
<1>8. Open = {} => Cardinality(Spare) = 0
  BY <1>7, FS_EmptySet, Zenon
<1> QED BY <1>1, <1>2, <1>3, <1>5, <1>6, <1>8, Zenon

(* Calls that end or log more leave no more to spare.                       *)
LEMMA SpareShrinks ==
  ASSUME Quota, Quota', outstanding = Cardinality(Open), Open' \subseteq Open,
         \A p \in Open' : Logged(p) \subseteq Logged(p)'
  PROVE  Spare' \subseteq Spare /\ Cardinality(Spare') <= Cardinality(Spare)
<1>1. ASSUME NEW p \in Open' PROVE Cardinality(Logged(p)) <= Cardinality(Logged(p)')
  <2>1. p \in Proc
    BY Zenon DEF Open
  <2>2. IsFiniteSet(Logged(p)') 
    <3>1. IsFiniteSet(wrote'[p]) /\ Logged(p)' \subseteq wrote'[p]
      BY <2>1, Zenon DEF Quota, Logged
    <3> QED BY <3>1, FS_Subset, Zenon
  <2> QED BY <1>1, <2>2, FS_Subset, Zenon
<1>2. ASSUME NEW x \in Spare' PROVE x \in Spare
  <2>1. /\ x \in Open' \X (1 .. MAXOPBLOCKS) /\ x[1] \in Open' /\ x[1] \in Proc
        /\ x[2] > Cardinality(Logged(x[1])') /\ x[2] \in 1 .. MAXOPBLOCKS
    BY Zenon DEF Spare, Open
  <2>2. Cardinality(Logged(x[1])) \in Nat
    BY <2>1, LoggedCount, Zenon
  <2>3. Cardinality(Logged(x[1])') \in Nat
    <3>1. IsFiniteSet(wrote'[x[1]]) /\ Logged(x[1])' \subseteq wrote'[x[1]]
      BY <2>1, Zenon DEF Quota, Logged
    <3> QED BY <3>1, FS_Subset, FS_CardinalityType, Zenon
  <2>4. Cardinality(Logged(x[1])) <= Cardinality(Logged(x[1])')
    BY <1>1, <2>1, Zenon
  <2>5. x[2] > Cardinality(Logged(x[1]))
    BY <2>1, <2>2, <2>3, <2>4, LogAssumption, SMTT(30)
  <2> QED BY <2>1, <2>5, Zenon DEF Spare
<1>3. IsFiniteSet(Spare)
  BY SpareCount, Zenon
<1> QED BY <1>2, <1>3, FS_Subset, Zenon

(* What a call has changed only grows under modify, within its quota.       *)
LEMMA QuotaStep ==
  ASSUME CtlType, Held, Quota, [Next]_vars
  PROVE  Quota'
<1>0. IsFiniteSet({}) /\ Cardinality({}) <= MAXOPBLOCKS
  BY LogAssumption, FS_EmptySet
\* Steps of a process that is not about to modify or log a block., SMTT(30)
<1>1. ASSUME NEW p \in Proc, wrote' = wrote,
             \A q \in Proc : q # p /\ pc'[q] \in {"modify", "dirty", "log_write"} =>
               /\ pc'[q] = pc[q]
               /\ \A b \in Block : holder'[b] = q => holder[b] = q,
             pc'[p] \notin {"modify", "dirty", "log_write"}
      PROVE  Quota'
  BY <1>1, SMTT(30) DEF Quota
<1>2. CASE crash
  BY <1>0, <1>2, Zenon DEF crash, Quota
<1>3. CASE read_head \/ recover_install \/ recover_erase
  BY <1>3, Zenon DEF read_head, recover_install, recover_erase, Quota
<1>4. ASSUME NEW p \in Proc, call(p) \/ begin_op(p) \/ write_log(p) \/ write_head(p)
                             \/ install_trans(p) \/ erase(p)
      PROVE  Quota'
  <2>1. /\ UNCHANGED <<wrote, holder>> /\ \A q \in Proc : q # p => pc'[q] = pc[q]
        /\ pc'[p] \notin {"modify", "dirty", "log_write"}
    BY <1>4, SMTT(30)
       DEF call, begin_op, write_log, write_head, install_trans, erase, At, CtlType
  <2> QED BY <1>1, <2>1, Zenon
<1>5. ASSUME NEW p \in Proc, log_write_test(p) PROVE Quota'
  <2>1. /\ UNCHANGED <<wrote, holder>> /\ \A q \in Proc : q # p => pc'[q] = pc[q]
        /\ pc[p] = "dirty" /\ pc'[p] = "log_write"
    BY <1>5, Zenon DEF log_write_test, At, CtlType
  <2> QED BY <2>1, Zenon DEF Quota
<1>6. ASSUME NEW p \in Proc, end_op(p) PROVE Quota'
  <2>1. /\ wrote' = [wrote EXCEPT ![p] = {}] /\ holder' = holder
        /\ pc'[p] \notin {"modify", "dirty", "log_write"}
    BY <1>6, Zenon DEF end_op, Woken, CtlType
  <2>2. \A q \in Proc : q # p /\ pc'[q] \in {"modify", "dirty", "log_write"} => pc'[q] = pc[q]
    BY <1>6, Zenon DEF end_op, Woken, CtlType
  <2>3. \A q \in Proc : wrote'[q] = IF q = p THEN {} ELSE wrote[q]
    BY <2>1, Zenon DEF Quota
  <2>4. wrote' = [q \in Proc |-> wrote'[q]]
    BY <2>1, SMTT(30) DEF Quota
  <2> QED BY <1>0, <2>1, <2>2, <2>3, <2>4, Zenon DEF Quota
<1>7. ASSUME NEW p \in Proc, committed(p) PROVE Quota'
  <2>1. /\ UNCHANGED <<wrote, holder>> /\ pc'[p] \notin {"modify", "dirty", "log_write"}
        /\ \A q \in Proc : q # p /\ pc'[q] \in {"modify", "dirty", "log_write"} => pc'[q] = pc[q]
    BY <1>7, Zenon DEF committed, Woken, CtlType
  <2> QED BY <1>1, <2>1, Zenon
<1>8. ASSUME NEW p \in Proc, NEW b \in Block, bread(p, b) PROVE Quota'
  <2>1. /\ wrote' = wrote /\ pc'[p] = "modify" /\ \A q \in Proc : q # p => pc'[q] = pc[q]
        /\ pc[p] = "op"
        /\ Cardinality(wrote[p] \cup {b}) <= MAXOPBLOCKS
    BY <1>8, Zenon DEF bread, At, CtlType
  <2>2. \A c \in Block : /\ holder'[c] = p => c = b
                        /\ \A q \in Proc : q # p /\ holder'[c] = q => holder[c] = q
    BY <1>8, <2>1, LogAssumption, SMTT(30) DEF bread, CtlType, Held, Holding
  <2> QED BY <2>1, <2>2, SMTT(30) DEF Quota
<1>9. ASSUME NEW p \in Proc, NEW b \in Block, NEW v \in Val, modify(p, b, v) PROVE Quota'
  <2>1. /\ holder' = holder /\ holder[b] = p /\ pc[p] = "modify" /\ pc'[p] = "dirty"
        /\ \A q \in Proc : q # p => pc'[q] = pc[q]
        /\ wrote' = [wrote EXCEPT ![p] = @ \cup {b}]
    BY <1>9, SMTT(30) DEF modify, At, CtlType
  <2>2. \A q \in Proc : wrote'[q] = IF q = p THEN wrote[p] \cup {b} ELSE wrote[q]
    BY <2>1, Zenon DEF Quota
  <2>3. wrote' = [q \in Proc |-> wrote'[q]]
    BY <2>1, Zenon DEF Quota
  <2>4. IsFiniteSet(wrote[p] \cup {b}) /\ Cardinality(wrote[p] \cup {b}) <= MAXOPBLOCKS
    BY <2>1, FS_AddElement, Zenon DEF Quota
  <2>5. \A c \in Block : holder[c] = p => c = b
    BY <2>1, LogAssumption, Zenon DEF Held
  <2> QED BY <2>1, <2>2, <2>3, <2>4, <2>5, SMTT(30) DEF Quota
<1>10. ASSUME NEW p \in Proc, NEW b \in Block,
              log_write(p, b) \/ brelse(p, b) \/ read(p, b) \/ read_done(p, b)
       PROVE  Quota'
  <2>1. /\ wrote' = wrote /\ \A q \in Proc : q # p => pc'[q] = pc[q]
        /\ pc'[p] \notin {"modify", "dirty", "log_write"}
    BY <1>10, SMTT(30) DEF log_write, brelse, read, read_done, At, CtlType
  <2>2. \A c \in Block : \A q \in Proc : q # p /\ holder'[c] = q => holder[c] = q
    BY <1>10, LogAssumption, Zenon DEF log_write, brelse, read, read_done, CtlType
  <2> QED BY <1>1, <2>1, <2>2, SMTT(30)
<1>11. ASSUME NEW b \in Block, recycle(b) PROVE Quota'
  BY <1>11, Zenon DEF recycle, Quota
<1>12. CASE UNCHANGED vars
  BY <1>12, SMTT(30) DEF vars, Quota
<1> QED BY <1>2, <1>3, <1>4, <1>5, <1>6, <1>7, <1>8, <1>9, <1>10, <1>11, <1>12, ZenonT(60)
      DEF Next

(* begin_op admits a call only with room for all of its blocks; log_write   *)
(* takes one of them for each block it adds.                                *)
LEMMA ReservedStep ==
  ASSUME CtlType, Held, Calls, Quota, Quota', Reserved, [Next]_vars,
         outstanding' = Cardinality(Open')
  PROVE  Reserved'
<1>0. /\ IsFiniteSet(Spare) /\ Cardinality(Spare) \in Nat /\ outstanding \in Nat
      /\ Open = {} => Cardinality(Spare) = 0
      /\ outstanding = Cardinality(Open)
  BY SpareCount, Zenon DEF Calls
<1>a. /\ Cardinality(Spare') \in Nat /\ Cardinality(Spare') <= outstanding' * MAXOPBLOCKS
      /\ Open' = {} => Cardinality(Spare') = 0
  <2>1. ASSUME NEW S, NEW T, NEW n, n = Cardinality(S), S \subseteq Proc, T \subseteq S \X (1 .. MAXOPBLOCKS)
        PROVE  /\ Cardinality(T) \in Nat /\ Cardinality(T) <= n * MAXOPBLOCKS
               /\ S = {} => Cardinality(T) = 0
    <3>1. IsFiniteSet(S)
      BY <2>1, LogAssumption, FS_Subset, Zenon
    <3>2. IsFiniteSet(1 .. MAXOPBLOCKS) /\ Cardinality(1 .. MAXOPBLOCKS) = MAXOPBLOCKS
      BY LogAssumption, FS_Interval, SMTT(30)
    <3>3. /\ IsFiniteSet(S \X (1 .. MAXOPBLOCKS))
          /\ Cardinality(S \X (1 .. MAXOPBLOCKS)) = n * MAXOPBLOCKS
      BY <2>1, <3>1, <3>2, FS_Product, ZenonT(60)
    <3>4. IsFiniteSet(T) /\ Cardinality(T) <= n * MAXOPBLOCKS
      BY <2>1, <3>3, FS_Subset, Zenon
    <3>5. S = {} => T = {}
      BY <2>1, Zenon
    <3> QED BY <3>4, <3>5, FS_CardinalityType, FS_EmptySet, Zenon
  <2>2. Open' \subseteq Proc /\ Spare' \subseteq Open' \X (1 .. MAXOPBLOCKS)
    BY Zenon DEF Open, Spare
  <2> QED BY <2>1, <2>2, Zenon
<1>b. LOGSIZE \in Nat /\ MAXOPBLOCKS \in Nat /\ Len(lh) \in Nat /\ Len(head) \in Nat
  BY LogAssumption, SMTT(30) DEF CtlType
<1>1. ASSUME lh' = <<>>, Open' = {}, Len(head') <= LOGSIZE PROVE Reserved'
  BY <1>1, <1>a, <1>b, SMTT(30) DEF Reserved
<1>2. ASSUME lh' = lh, Open' \subseteq Open, \A p \in Open' : wrote[p] \subseteq wrote'[p],
             Len(head') <= LOGSIZE
      PROVE  Reserved'
  <2>1. \A p \in Open' : Logged(p) \subseteq Logged(p)'
    BY <1>2, Zenon DEF Logged
  <2>2. Cardinality(Spare') <= Cardinality(Spare)
    BY <1>0, <1>2, <2>1, SpareShrinks, Zenon
  <2> QED BY <1>0, <1>2, <1>a, <1>b, <2>2, SMTT(30) DEF Reserved
<1>3. CASE crash
  <2>1. lh' = <<>> /\ head' = head /\ Open' = {}
    BY <1>3, Zenon DEF crash, diskVars, Open, InCall
  <2> QED BY <1>1, <2>1, Zenon DEF Reserved
<1>4. CASE read_head
  <2>1. lh' = head /\ head' = head /\ Open' = {}
    BY <1>4, Zenon DEF read_head, diskVars, Open, InCall, Held
  <2> QED BY <1>a, <1>b, <2>1, SMTT(30) DEF Reserved
<1>5. CASE recover_install
  <2>1. lh' = lh /\ head' = head /\ Open' = Open /\ wrote' = wrote
    BY <1>5, Zenon DEF recover_install, Install, logVars, Open
  <2> QED BY <1>2, <2>1, Zenon DEF Reserved
<1>6. CASE recover_erase
  <2>1. lh' = <<>> /\ head' = <<>> /\ Open' = {}
    BY <1>6, Zenon DEF recover_erase, Erase, Open, InCall, Held
  <2> QED BY <1>1, <1>b, <2>1, SMTT(30)
<1>7. ASSUME NEW p \in Proc,
             call(p) \/ log_write_test(p) \/ write_log(p) \/ install_trans(p) \/ committed(p)
      PROVE  Reserved'
  <2>1. lh' = lh /\ head' = head /\ wrote' = wrote
    BY <1>7, ZenonT(60)
       DEF call, log_write_test, write_log, install_trans, Install, committed,
           diskVars, logVars
  <2>2. Open' = Open
    BY <1>7, SMTT(30)
       DEF call, log_write_test, write_log, install_trans, committed, At, Woken, Open,
       InCall, CtlType
  <2> QED BY <1>2, <2>1, <2>2, Zenon DEF Reserved
<1>8. ASSUME NEW p \in Proc, begin_op(p) PROVE Reserved'
  <2>1. lh' = lh /\ head' = head /\ wrote' = wrote
    BY <1>8, Zenon DEF begin_op, diskVars
  <2>2. CASE MustWait
    <3>1. Open' = Open
      BY <1>8, <2>2, Zenon DEF begin_op, At, Open, InCall, CtlType
    <3> QED BY <1>2, <2>1, <3>1, Zenon DEF Reserved
  <2>3. CASE ~MustWait
    <3>1. outstanding' = outstanding + 1 /\ Len(lh) + outstanding' * MAXOPBLOCKS <= LOGSIZE
      <4>1. outstanding' = outstanding + 1 /\ (outstanding + 1) * MAXOPBLOCKS \in Nat
        BY <1>0, <1>8, <1>b, <2>3, SMTT(30) DEF begin_op
      <4> QED BY <1>b, <2>3, <4>1, SMTT(30) DEF MustWait
    <3>2. outstanding' * MAXOPBLOCKS \in Nat
      BY <1>0, <1>b, <3>1, SMTT(30)
    <3> HIDE DEF Spare, Open
    <3>3. Len(lh') + Cardinality(Spare') <= LOGSIZE
      BY <1>a, <1>b, <2>1, <3>1, <3>2, SMTT(30)
    <3> QED BY <2>1, <3>3, Zenon DEF Reserved
  <2> QED BY <2>2, <2>3, Zenon
<1>9. ASSUME NEW p \in Proc, end_op(p) PROVE Reserved'
  <2>1. lh' = lh /\ head' = head /\ wrote' = [wrote EXCEPT ![p] = {}]
    BY <1>9, Zenon DEF end_op, diskVars
  <2>2. Open' \subseteq Open /\ p \notin Open'
    BY <1>9, Zenon DEF end_op, Woken, Open, InCall, CtlType
  <2>3. \A q \in Open' : wrote'[q] = wrote[q]
    BY <2>1, <2>2, Zenon DEF Quota, Open
  <2> QED BY <1>2, <2>1, <2>2, <2>3, Zenon DEF Reserved
<1>10. ASSUME NEW p \in Proc, write_head(p) PROVE Reserved'
  <2>1. lh' = lh /\ head' = lh /\ wrote' = wrote /\ Open' = Open
    BY <1>10, Zenon DEF write_head, logVars, At, Open, InCall, CtlType
  <2> QED BY <1>0, <1>2, <1>b, <2>1, SMTT(30) DEF Reserved
<1>11. ASSUME NEW p \in Proc, erase(p) PROVE Reserved'
  <2>1. lh' = <<>> /\ head' = <<>> /\ pc[p] = "install_trans"
    BY <1>11, Zenon DEF erase, Erase, At
  <2>2. Open' = Open
    BY <1>11, Zenon DEF erase, At, Open, InCall, CtlType
  <2>3. Open = {}
    BY <2>1, Zenon DEF Calls, Committing
  <2> QED BY <1>1, <1>b, <2>1, <2>2, <2>3, SMTT(30)
<1>12. ASSUME NEW p \in Proc, NEW b \in Block,
              \/ bread(p, b) \/ brelse(p, b) \/ read(p, b) \/ read_done(p, b)
              \/ \E v \in Val : modify(p, b, v)
       PROVE  Reserved'
  <2>1. lh' = lh /\ head' = head
    BY <1>12, Zenon DEF bread, brelse, read, read_done, modify, diskVars, logVars
  <2>2. Open' = Open
    BY <1>12, Zenon
       DEF bread, brelse, read, read_done, modify, At, Open, InCall, CtlType
  <2>3. wrote' = wrote \/ wrote' = [wrote EXCEPT ![p] = @ \cup {b}]
    BY <1>12, Zenon DEF bread, brelse, read, read_done, modify
  <2>4. \A q \in Open' : wrote[q] \subseteq wrote'[q]
    BY <2>3, SMTT(30) DEF Quota, Open
  <2> QED BY <1>2, <2>1, <2>2, <2>4, Zenon DEF Reserved
<1>13. ASSUME NEW p \in Proc, NEW b \in Block, log_write(p, b) PROVE Reserved'
  <2>1. /\ head' = head /\ wrote' = wrote /\ pc[p] = "log_write" /\ b \in wrote[p]
        /\ Open' = Open /\ p \in Open
    BY <1>13, Zenon DEF log_write, diskVars, At, Open, InCall, CtlType, Quota
  <2>2. CASE \E i \in DOMAIN lh : lh[i] = b
    <3>1. lh' = lh
      BY <1>13, <2>2, Zenon DEF log_write
    <3> QED BY <1>2, <2>1, <3>1, Zenon DEF Reserved
  <2>3. CASE ~\E i \in DOMAIN lh : lh[i] = b
    <3>1. lh' = Append(lh, b)
      BY <1>13, <2>3, Zenon DEF log_write
    <3>2. /\ Len(lh') = Len(lh) + 1
          /\ \A c : (\E i \in DOMAIN lh' : lh'[i] = c) <=> c = b \/ \E i \in DOMAIN lh : lh[i] = c
      <4>1. lh \in Seq(Block)
        BY Zenon DEF CtlType
      <4>2. /\ DOMAIN lh' = 1 .. Len(lh) + 1 /\ Len(lh') = Len(lh) + 1 /\ DOMAIN lh = 1 .. Len(lh)
            /\ Len(lh) \in Nat /\ lh'[Len(lh) + 1] = b
            /\ \A i \in 1 .. Len(lh) : lh'[i] = lh[i]
        BY <3>1, <4>1, SMTT(30)
      <4>3. 1 .. Len(lh) + 1 = (1 .. Len(lh)) \cup {Len(lh) + 1}
        BY <4>2, SMTT(30)
      <4> QED BY <4>2, <4>3, Zenon
    <3>3. Logged(p)' = Logged(p) \cup {b} /\ b \notin Logged(p)
      BY <2>1, <2>3, <3>2, ZenonT(60) DEF Logged
    <3>4. \A q \in Open' : Logged(q) \subseteq Logged(q)'
      BY <2>1, <3>2, Zenon DEF Logged
    <3> DEFINE n == Cardinality(Logged(p))
    <3>5. n \in Nat /\ Cardinality(Logged(p)') = n + 1
      BY <3>3, LoggedCount, FS_AddElement, Zenon
    <3>6. n + 1 <= MAXOPBLOCKS
      <4>1. IsFiniteSet(wrote[p]) /\ Cardinality(wrote[p]) <= MAXOPBLOCKS
        BY Zenon DEF Quota
      <4>2. Logged(p)' \subseteq wrote[p]
        BY <2>1, Zenon DEF Logged
      <4>3. Cardinality(Logged(p)') <= Cardinality(wrote[p]) /\ Cardinality(wrote[p]) \in Nat
        BY <4>1, <4>2, FS_Subset, FS_CardinalityType, Zenon
      <4> QED BY <1>b, <3>5, <4>1, <4>3, SMTT(30)
    <3>7. <<p, n + 1>> \in Spare /\ <<p, n + 1>> \notin Spare'
      <4>1. n + 1 \in 1 .. MAXOPBLOCKS
        BY <1>b, <3>5, <3>6, SMTT(30)
      <4>2. <<p, n + 1>> \in Spare
        BY <2>1, <3>5, <4>1, SMTT(30) DEF Spare
      <4>3. <<p, n + 1>> \notin Spare'
        BY <3>5, SMTT(30) DEF Spare
      <4> QED BY <4>2, <4>3, Zenon
    <3>8. Spare' \subseteq Spare
      BY <1>0, <2>1, <3>4, SpareShrinks, Zenon
    <3>9. Cardinality(Spare') <= Cardinality(Spare \ {<<p, n + 1>>})
      <4>1. Spare' \subseteq Spare \ {<<p, n + 1>>} /\ IsFiniteSet(Spare \ {<<p, n + 1>>})
        BY <1>0, <3>7, <3>8, FS_RemoveElement, Zenon
      <4> QED BY <4>1, FS_Subset, Zenon
    <3>10. Cardinality(Spare \ {<<p, n + 1>>}) = Cardinality(Spare) - 1
      BY <1>0, <3>7, FS_RemoveElement, Zenon
    <3> QED BY <1>0, <1>a, <1>b, <2>1, <3>2, <3>9, <3>10, SMTT(30) DEF Reserved
  <2> QED BY <2>2, <2>3, Zenon
<1>14. CASE \/ \E b \in Block : recycle(b)
            \/ UNCHANGED vars
  <2>1. lh' = lh /\ head' = head /\ wrote' = wrote /\ Open' = Open
    BY <1>14, Zenon DEF recycle, vars, diskVars, logVars, Open
  <2> QED BY <1>2, <2>1, Zenon DEF Reserved
<1> QED BY <1>3, <1>4, <1>5, <1>6, <1>7, <1>8, <1>9, <1>10, <1>11, <1>12, <1>13, <1>14, ZenonT(60)
      DEF Next

(* The reservation of begin_op is enough: with a log area of LOGSIZE blocks *)
(* besides the header, no block is logged past its end, although log_write  *)
(* compares the lengths before it takes the lock.                           *)
THEOREM AreaSuffices == NLOG > LOGSIZE => (Spec => []LogFits)
<1> SUFFICES ASSUME NLOG > LOGSIZE PROVE Spec => []LogFits
  OBVIOUS
<1>1. Init => Quota /\ Reserved
  <2> SUFFICES ASSUME Init PROVE Quota /\ Reserved
    OBVIOUS
  <2>1. Quota
    BY FS_EmptySet, LogAssumption, SMTT(30) DEF Init, Quota
  <2>2. Open = {} /\ lh = <<>> /\ head = <<>>
    BY Zenon DEF Init, Open, InCall
  <2>3. Spare = {}
    BY <2>2, Zenon DEF Spare
  <2> QED BY <2>1, <2>2, <2>3, FS_EmptySet, LogAssumption, SMTT(30) DEF Reserved
<1>2. LogInv /\ LogInv' /\ Quota /\ Reserved /\ [Next]_vars => Quota' /\ Reserved'
  BY QuotaStep, ReservedStep, Zenon DEF LogInv, Calls
<1>3. LogInv /\ Reserved => LogFits
  <2> SUFFICES ASSUME LogInv, Reserved PROVE LogFits
    OBVIOUS
  <2>1. Cardinality(Spare) \in Nat
    BY SpareCount, Zenon DEF LogInv, Calls
  <2> QED BY <2>1, LogAssumption, SMTT(30) DEF LogInv, CtlType, Reserved, LogFits
<1> QED BY <1>1, <1>2, <1>3, LogInvariant, PTL DEF Spec

(* Crash safety without a premise on the behaviour: a log area that holds   *)
(* LOGSIZE blocks besides its header is enough.                             *)
THEOREM CrashSafeWithRoom == NLOG > LOGSIZE => (Spec => IsGroupCommit)
<1> SUFFICES ASSUME NLOG > LOGSIZE PROVE Spec => IsGroupCommit
  OBVIOUS
<1>1. Spec => []LogFits
  BY AreaSuffices, Zenon
<1> QED BY <1>1, CrashSafe, PTL
=============================================================================
