------------------------------- MODULE XvPipe -------------------------------
(***************************************************************************)
(* A pipe of xv6 (kernel/pipe.c) and the two files that lead to it         *)
(* (kernel/file.c), used by processes that read, write, close, are killed  *)
(* and exit.  A section under the pipe's lock that ends with its release   *)
(* is one action; lk records the lock where it is kept over several, which *)
(* are the copying of a write and the first half of sleep.                 *)
(***************************************************************************)
EXTENDS XvSleep, Integers, Sequences, FiniteSets

CONSTANTS
  Byte,
  PIPESIZE,
  UINT,       \* the counters are unsigned and wrap here (2^32 in C)
  Length,     \* how many bytes a call asks for
  Ends        \* Ends[p]: the ends of the pipe p was given

ASSUME PipeAssumption ==
  /\ PIPESIZE \in Nat \ {0} /\ UINT \in Nat /\ Length \subseteq Nat
  /\ PIPESIZE < UINT /\ UINT % PIPESIZE = 0
  /\ NoProc \notin Proc
  /\ Ends \in [Proc -> SUBSET {"r", "w"}]
  /\ IsFiniteSet(Proc)
  /\ \A e \in {"r", "w"} : \E p \in Proc : e \in Ends[p]

VARIABLES
  lk,
  data, nread, nwrite, readopen, writeopen,
  fds,        \* fds[p]: the ends p has open, "r" and "w"
  ref,        \* ref[e]: the references to the file of end e
  ff,         \* ff[p]: the end whose last reference p has dropped
  n,          \* n[p]: the bytes p's write has still to transfer
  out,        \* what the read that has just ended returned
  kfreed      \* how often the pipe's page was freed

pipeVars == <<lk, data, nread, nwrite, readopen, writeopen>>
fileVars == <<fds, ref, ff, kfreed>>
pipeSpecVars == <<procVars, pipeVars, fileVars, n, out>>

End == {"r", "w"}

Reading == {"read", "read_sleep", "read_sched"}
Writing == {"write", "write_sleep", "write_sched"}

PipeTypeOK ==
  /\ state \in [Proc -> State]
  /\ chan \in [Proc -> {"nread", "nwrite", NoChan}]
  /\ killed \in [Proc -> BOOLEAN]
  /\ panicked \in BOOLEAN
  /\ plock \in [Proc -> Proc \cup {NoProc}]
  /\ pc \in [Proc -> Reading \cup Writing \cup {"user", "close", "exit", "exit_close", "gone"}]
  /\ lk \in Proc \cup {NoProc}
  /\ data \in [0 .. PIPESIZE - 1 -> Byte]
  /\ nread \in 0 .. UINT - 1 /\ nwrite \in 0 .. UINT - 1
  /\ readopen \in BOOLEAN /\ writeopen \in BOOLEAN
  /\ fds \in [Proc -> SUBSET End]
  /\ ref \in [End -> Nat]
  /\ ff \in [Proc -> End \cup {"none"}]
  /\ n \in [Proc -> Nat]
  /\ out \in Seq(Byte) /\ Len(out) <= PIPESIZE
  /\ kfreed \in Nat

\* pipealloc, the forks that passed the ends on, and what was closed since.
PipeInit ==
  /\ state = [p \in Proc |-> "RUNNABLE"]
  /\ chan = [p \in Proc |-> NoChan]
  /\ killed = [p \in Proc |-> FALSE]
  /\ panicked = FALSE
  /\ plock = [p \in Proc |-> NoProc]
  /\ pc = [p \in Proc |-> "user"]
  /\ lk = NoProc
  /\ \E junk \in Byte : data = [i \in 0 .. PIPESIZE - 1 |-> junk]
  /\ nread = 0 /\ nwrite = 0
  /\ readopen = TRUE /\ writeopen = TRUE
  /\ fds = Ends
  /\ ref = [e \in End |-> Cardinality({p \in Proc : e \in Ends[p]})]
  /\ ff = [p \in Proc |-> "none"]
  /\ n = [p \in Proc |-> 0]
  /\ out = <<>>
  /\ kfreed = 0

-----------------------------------------------------------------------------
\* Process p has the pipe's lock, or takes it.
HasLock(p) == lk \in {NoProc, p}

(* Mutant: the sum is not reduced to the width of the counters.             *)
Full_wide == nwrite = nread + PIPESIZE

Empty == nread = nwrite
Full == nwrite = (nread + PIPESIZE) % UINT
Used == (nwrite - nread) % UINT

\* wakeup(c) takes the lock of every process in turn.
wakeup(c) ==
  /\ \A q \in Proc : Unlocked(q)
  /\ state' = Awake(c, Proc)

\* A call returns: the lock is free, and the process is back in user mode.
Return(p, from) ==
  /\ Step(p, from, "user")
  /\ HasLock(p)
  /\ lk' = NoProc
  /\ n' = [n EXCEPT ![p] = 0]

-----------------------------------------------------------------------------
(***************************************************************************)
(* pipewrite                                                               *)
(***************************************************************************)
pipewrite(p, len) ==
  /\ Step(p, "user", "write")
  /\ ~killed[p]
  /\ "w" \in fds[p]
  /\ n' = [n EXCEPT ![p] = len]
  /\ UNCHANGED <<state, chan, killed, plock, pipeVars, fileVars>>
  /\ out' = <<>>

\* copyin gives a byte, and the lock is kept.
write_byte(p, b) ==
  /\ Step(p, "write", "write")
  /\ HasLock(p)
  /\ n[p] > 0 /\ ~Full
  /\ lk' = p
  /\ data' = [data EXCEPT ![nwrite % PIPESIZE] = b]
  /\ nwrite' = (nwrite + 1) % UINT
  /\ n' = [n EXCEPT ![p] = @ - 1]
  /\ UNCHANGED <<state, chan, killed, plock, nread, readopen, writeopen, fileVars>>
  /\ out' = <<>>

\* The pipe is full and nobody can empty it, or the writer is killed: -1.
write_fails(p) ==
  /\ Return(p, "write")
  /\ n[p] > 0 /\ Full
  /\ ~readopen \/ killed[p]
  /\ UNCHANGED <<state, chan, killed, plock, data, nread, nwrite, readopen, writeopen,
                 fileVars>>
  /\ out' = <<>>

write_waits(p) ==
  /\ Step(p, "write", "write_sleep")
  /\ HasLock(p)
  /\ n[p] > 0 /\ Full
  /\ readopen /\ ~killed[p]
  /\ wakeup("nread")
  /\ lk' = p
  /\ UNCHANGED <<chan, killed, plock, data, nread, nwrite, readopen, writeopen,
                 fileVars, n>>
  /\ out' = <<>>

\* All is written, or copyin fails.
write_done(p) ==
  /\ Return(p, "write")
  /\ n[p] = 0 \/ ~Full
  /\ wakeup("nread")
  /\ UNCHANGED <<chan, killed, plock, data, nread, nwrite, readopen, writeopen,
                 fileVars>>
  /\ out' = <<>>

(***************************************************************************)
(* piperead                                                                *)
(***************************************************************************)
piperead(p) ==
  /\ Step(p, "user", "read")
  /\ ~killed[p]
  /\ "r" \in fds[p]
  /\ UNCHANGED <<state, chan, killed, plock, pipeVars, fileVars, n>>
  /\ out' = <<>>

read_fails(p) ==
  /\ Return(p, "read")
  /\ Empty /\ writeopen
  /\ killed[p]
  /\ UNCHANGED <<state, chan, killed, plock, data, nread, nwrite, readopen, writeopen,
                 fileVars>>
  /\ out' = <<>>

read_waits(p) ==
  /\ Step(p, "read", "read_sleep")
  /\ HasLock(p)
  /\ Empty /\ writeopen
  /\ ~killed[p]
  /\ lk' = p
  /\ UNCHANGED <<state, chan, killed, plock, data, nread, nwrite, readopen, writeopen,
                 fileVars, n>>
  /\ out' = <<>>

\* The loop that copies, for a call that asked for len bytes: got of them reach
\* the reader; when copyout fails it has taken one byte more.
read_copies(p, len, got) ==
  LET most == IF len <= Used THEN len ELSE Used
      gone == IF got < most THEN got + 1 ELSE got
  IN
  /\ Return(p, "read")
  /\ ~(Empty /\ writeopen)
  /\ got <= most
  /\ out' = [i \in 1 .. got |-> data[(nread + i - 1) % PIPESIZE]]
  /\ nread' = (nread + gone) % UINT
  /\ wakeup("nwrite")
  /\ UNCHANGED <<chan, killed, plock, data, nwrite, readopen, writeopen, fileVars>>

(***************************************************************************)
(* sleep: the process takes its own lock, then gives up the pipe's; the    *)
(* scheduler releases the former once it is asleep.  Awake, it takes the   *)
(* pipe's lock again and looks at its condition from the start.            *)
(***************************************************************************)
(* Mutant: the pipe is given up before the process holds its own lock.      *)
sleep_unlocked(p, from, to) ==
  /\ Step(p, from, to)
  /\ lk' = NoProc
  /\ UNCHANGED <<state, chan, killed, plock, data, nread, nwrite, readopen, writeopen,
                 fileVars, n>>
  /\ out' = <<>>

sleep(p, from, to) ==
  /\ Step(p, from, to)
  /\ Unlocked(p)
  /\ plock' = [plock EXCEPT ![p] = p]
  /\ lk' = NoProc
  /\ UNCHANGED <<state, chan, killed, data, nread, nwrite, readopen, writeopen,
                 fileVars, n>>
  /\ out' = <<>>

sched(p, from, to, c) ==
  /\ Step(p, from, to)
  /\ fall_asleep(p, c)
  /\ UNCHANGED <<killed, pipeVars, fileVars, n>>
  /\ out' = <<>>

Dispatch(p) ==
  /\ scheduler(p, FALSE)
  /\ UNCHANGED <<pipeVars, fileVars, n>>
  /\ out' = <<>>

-----------------------------------------------------------------------------
(***************************************************************************)
(* fileclose: the last reference closes that end of the pipe, after the    *)
(* lock of the file table is released.                                     *)
(***************************************************************************)
Closes == [user |-> "close", exit |-> "exit_close"]

fileclose(p, e) ==
  \E from \in DOMAIN Closes :
    /\ Step(p, from, IF ref[e] > 1 THEN from ELSE Closes[from])
    /\ from = "user" => ~killed[p]
    /\ e \in fds[p]
    /\ fds' = [fds EXCEPT ![p] = @ \ {e}]
    /\ ref' = [ref EXCEPT ![e] = @ - 1]
    /\ ff' = IF ref[e] > 1 THEN ff ELSE [ff EXCEPT ![p] = e]
    /\ UNCHANGED <<state, chan, killed, plock, pipeVars, kfreed, n>>
    /\ out' = <<>>

(* Mutant: the page is freed with the first end.                            *)
pipeclose_either(p) ==
  \E to \in DOMAIN Closes :
    /\ Step(p, Closes[to], to)
    /\ HasLock(p)
    /\ IF ff[p] = "w"
       THEN writeopen' = FALSE /\ wakeup("nread") /\ UNCHANGED readopen
       ELSE readopen' = FALSE /\ wakeup("nwrite") /\ UNCHANGED writeopen
    /\ kfreed' = IF readopen' /\ writeopen' THEN kfreed ELSE kfreed + 1
    /\ ff' = [ff EXCEPT ![p] = "none"]
    /\ UNCHANGED <<chan, killed, plock, lk, data, nread, nwrite, fds, ref, n>>
    /\ out' = <<>>

pipeclose(p) ==
  \E to \in DOMAIN Closes :
    /\ Step(p, Closes[to], to)
    /\ HasLock(p)
    /\ IF ff[p] = "w"
       THEN writeopen' = FALSE /\ wakeup("nread") /\ UNCHANGED readopen
       ELSE readopen' = FALSE /\ wakeup("nwrite") /\ UNCHANGED writeopen
    /\ kfreed' = IF readopen' \/ writeopen' THEN kfreed ELSE kfreed + 1
    /\ ff' = [ff EXCEPT ![p] = "none"]
    /\ UNCHANGED <<chan, killed, plock, lk, data, nread, nwrite, fds, ref, n>>
    /\ out' = <<>>

\* exit, called by the process or by usertrap when it finds it killed, closes
\* what is open.
pipe_exit(p) ==
  /\ Step(p, "user", "exit")
  /\ UNCHANGED <<state, chan, killed, plock, pipeVars, fileVars, n>>
  /\ out' = <<>>

pipe_zombie(p) ==
  /\ Step(p, "exit", "gone")
  /\ fds[p] = {}
  /\ Unlocked(p)
  /\ state' = [state EXCEPT ![p] = "ZOMBIE"]
  /\ UNCHANGED <<chan, killed, plock, pipeVars, fileVars, n>>
  /\ out' = <<>>

-----------------------------------------------------------------------------
\* The rest of a call a process has begun, and its turn on a CPU.
Proceed(p) ==
  \/ Dispatch(p)
  \/ \E b \in Byte : write_byte(p, b)
  \/ write_fails(p) \/ write_waits(p) \/ write_done(p)
  \/ read_fails(p) \/ read_waits(p)
  \/ \E len \in Length, got \in 0 .. PIPESIZE : read_copies(p, len, got)
  \/ sleep(p, "read_sleep", "read_sched") \/ sched(p, "read_sched", "read", "nread")
  \/ sleep(p, "write_sleep", "write_sched") \/ sched(p, "write_sched", "write", "nwrite")
  \/ pipeclose(p)
  \/ pc[p] = "exit" /\ \E e \in End : fileclose(p, e)
  \/ pipe_zombie(p)

Call(p) ==
  \/ \E len \in Length : pipewrite(p, len)
  \/ piperead(p)
  \/ pc[p] = "user" /\ \E e \in End : fileclose(p, e)
  \/ pipe_exit(p)
  \/ \E q \in Proc : kill(p, q) /\ UNCHANGED <<pipeVars, fileVars, n>> /\ out' = <<>>

PipeNext == \E p \in Proc : Proceed(p) \/ Call(p)

PipeSpec == PipeInit /\ [][PipeNext]_pipeSpecVars

-----------------------------------------------------------------------------
(***************************************************************************)
(* SleepsForCause: no wakeup is lost between sleep, the calls of the other *)
(* side and the closing of an end: while the lock is free, who sleeps in   *)
(* piperead sleeps on a pipe that is empty and may still be written, who   *)
(* sleeps in pipewrite on one that is full and may still be read.  A       *)
(* writer killed on a full pipe returns without the wakeup for the bytes   *)
(* it has written, so after a kill a reader may sleep on bytes.            *)
(***************************************************************************)
SleepsForCause ==
  \A p \in Proc : lk = NoProc /\ state[p] = "SLEEPING" =>
    \/ pc[p] = "read" /\ writeopen /\ (Empty \/ \E q \in Proc : killed[q])
    \/ pc[p] = "write" /\ Full /\ readopen

(***************************************************************************)
(* FreedOnce: the page of the pipe is freed exactly when the last          *)
(* reference to the second of its ends is dropped: once, and with nobody   *)
(* left in a call that uses it.                                            *)
(***************************************************************************)
FreedOnce ==
  /\ kfreed = IF readopen \/ writeopen THEN 0 ELSE 1
  /\ kfreed = 1 => \A p \in Proc : fds[p] = {} /\ pc[p] \in {"user", "exit", "gone"}
  /\ (\A p \in Proc : pc[p] = "gone") => kfreed = 1

(***************************************************************************)
(* IsByteChannel: the ring with its two wrapping counters, shared by any   *)
(* number of readers and writers that sleep and are woken, is a channel:   *)
(* in order, nothing twice, an end of file only at the end.                *)
(***************************************************************************)
Channel == INSTANCE ByteChannel WITH
  Capacity <- PIPESIZE,
  queue <- [i \in 1 .. Used |-> data[(nread + i - 1) % PIPESIZE]],
  open <- writeopen

IsByteChannel == Channel!Spec
=============================================================================
