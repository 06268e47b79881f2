------------------------------ MODULE DiskLog ------------------------------
(***************************************************************************)
(* The redo log of log.c: file system calls that run at the same time,     *)
(* group commit by the last of them, and recovery after a crash.           *)
(*                                                                         *)
(* A step is one critical section of log.lock or one block written to the  *)
(* disk; the machine can stop between any two of them.  The disk writes a  *)
(* block completely or not at all, in the order bwrite() is called.        *)
(***************************************************************************)
EXTENDS Integers, Sequences, FiniteSets

CONSTANTS
    Proc,         \* processes that make file system calls
    Block,        \* disk blocks outside the log
    NoBuf,        \* not in the buffer cache
    MAXOPBLOCKS,  \* blocks begin_op() reserves for a call
    LOGSIZE,      \* blocks begin_op() believes the log holds
    NLOG,         \* sb.nlog = log.size: blocks of the log area, header included
    OpBlocks,     \* the most blocks that a call really writes
    MaxOp,        \* bound: how many calls are made
    MaxCrash      \* bound: how often the machine stops

ASSUME LogConstants ==
    /\ IsFiniteSet(Proc) /\ Proc # {}
    /\ NoBuf \notin Nat
    /\ {MAXOPBLOCKS, LOGSIZE, NLOG, OpBlocks, MaxOp, MaxCrash} \subseteq Nat
    /\ 1 <= NLOG /\ MAXOPBLOCKS <= LOGSIZE

\* The log has room for one call alone, and for what begin_op() admits when calls
\* overlap (two at least): 30, 30, 10 and 9 in param.h, mkfs.c and fs.c.
Quota == IF OpBlocks > LOGSIZE - 2 * (MAXOPBLOCKS - OpBlocks)
         THEN OpBlocks ELSE LOGSIZE - 2 * (MAXOPBLOCKS - OpBlocks)
ASSUME LogRoom ==
    /\ OpBlocks <= MAXOPBLOCKS
    /\ Quota < LOGSIZE /\ Quota < NLOG - 1

Val == 0 .. MaxOp       \* a block's content: the call that wrote it last

VARIABLES
    disk,         \* the blocks at their home location
    logdisk,      \* the data blocks of the log area
    hdr,          \* the header block on disk: log.lh as last written
    lh,           \* log.lh: home locations of the logged blocks, in order
    outstanding,  \* log.outstanding
    committing,   \* log.committing
    buf,          \* b->data of each cached block
    pin,          \* references the log holds on each buffer
    pc,           \* where each process is
    id,           \* the call a process is making
    wrote,        \* the blocks that call has written
    tail,         \* the loop variable of write_log() and install_trans()
    calls,        \* calls made so far
    crashes,      \* crashes so far
    panicked      \* the message of panic(), if it was called

onDisk == <<disk, logdisk, hdr>>
inLog  == <<lh, outstanding, committing, pin>>
vars   == <<onDisk, inLog, buf, pc, id, wrote, tail, calls, crashes, panicked>>

\* Boot is the process that runs fsinit() before any other makes a call.
Boot == CHOOSE p \in Proc : TRUE

At(p, l)   == pc[p] = l
Goto(p, l) == pc' = [pc EXCEPT ![p] = l]

\* bread(): the cached content, or else the disk's.
Bread(b) == IF buf[b] = NoBuf THEN disk[b] ELSE buf[b]

\* wakeup(&log) by p, which goes on to l.
Wakeup(p, l) == pc' = [r \in Proc |-> IF r = p THEN l
                                      ELSE IF pc[r] = "asleep" THEN "begin"
                                      ELSE pc[r]]

Panic(msg) == /\ panicked' = msg
              /\ UNCHANGED <<onDisk, inLog, buf, pc, id, wrote, tail, calls, crashes>>

-----------------------------------------------------------------------------
(* begin_op(), log_write(), end_op().                                      *)

\* A process decides to make a file system call.
Call(p) ==
    /\ At(p, "idle") /\ calls < MaxOp
    /\ calls' = calls + 1 /\ id' = [id EXCEPT ![p] = calls + 1]
    /\ wrote' = [wrote EXCEPT ![p] = {}]
    /\ Goto(p, "begin")
    /\ UNCHANGED <<onDisk, inLog, buf, tail, crashes, panicked>>

\* Mutant: the room the calls in progress may still need is not counted.
MutRoom == Len(lh) + MAXOPBLOCKS <= LOGSIZE

Room == Len(lh) + (outstanding + 1) * MAXOPBLOCKS <= LOGSIZE

BeginOp(p) ==
    /\ At(p, "begin")
    /\ IF committing \/ ~ Room
       THEN Goto(p, "asleep") /\ UNCHANGED outstanding
       ELSE Goto(p, "op") /\ outstanding' = outstanding + 1
    /\ UNCHANGED <<onDisk, lh, committing, pin, buf, id, wrote, tail, calls, crashes,
                   panicked>>

Logged(b) == \E i \in DOMAIN lh : lh[i] = b

\* bread(b), change it, log_write(b), brelse(b).  The buffer's sleep lock is
\* held throughout, so nobody sees the change before it is in the log.
LogWrite(p, b) ==
    /\ At(p, "op") /\ (b \in wrote[p] \/ Cardinality(wrote[p]) < OpBlocks)
    /\ IF Len(lh) >= LOGSIZE \/ Len(lh) >= NLOG - 1
       THEN Panic("too big a transaction")
       ELSE IF outstanding < 1
       THEN Panic("log_write outside of trans")
       ELSE /\ IF Logged(b)
               THEN UNCHANGED <<lh, pin>>
               ELSE lh' = Append(lh, b) /\ pin' = [pin EXCEPT ![b] = @ + 1]
            /\ buf' = [buf EXCEPT ![b] = id[p]]
            /\ wrote' = [wrote EXCEPT ![p] = @ \cup {b}]
            /\ UNCHANGED <<onDisk, outstanding, committing, pc, id, tail, calls,
                           crashes, panicked>>

\* The last call in progress commits; another one only gives its room back.
EndOp(p) ==
    /\ At(p, "op")
    /\ IF committing
       THEN Panic("log.committing")
       ELSE /\ outstanding' = outstanding - 1
            /\ IF outstanding = 1
               THEN committing' = TRUE /\ Goto(p, "commit")
               ELSE UNCHANGED committing /\ Wakeup(p, "idle")
            /\ UNCHANGED <<onDisk, lh, pin, buf, id, wrote, tail, calls, crashes,
                           panicked>>

-----------------------------------------------------------------------------
(* commit().                                                               *)

Loop(i, p, l) == tail' = i /\ Goto(p, l)

Commit(p) ==
    /\ At(p, "commit")
    /\ Loop(1, p, IF Len(lh) > 0 THEN "write_log" ELSE "done")
    /\ UNCHANGED <<onDisk, inLog, buf, id, wrote, calls, crashes, panicked>>

\* One turn of write_log(): the cached block goes to the log area.
WriteLog(p) ==
    LET b == lh[tail] IN
    /\ At(p, "write_log") /\ tail <= Len(lh)
    /\ logdisk' = [logdisk EXCEPT ![tail] = Bread(b)]
    /\ buf' = [buf EXCEPT ![b] = Bread(b)]
    /\ Loop(tail + 1, p, "write_log")
    /\ UNCHANGED <<disk, hdr, inLog, id, wrote, calls, crashes, panicked>>

\* write_head(): the point at which the calls commit.
WriteHead(p) ==
    /\ At(p, "write_log") /\ tail > Len(lh)
    /\ hdr' = lh
    /\ Loop(1, p, "install")
    /\ UNCHANGED <<disk, logdisk, inLog, buf, id, wrote, calls, crashes, panicked>>

\* Mutant: the buffer stays pinned.
MutInstall(p) ==
    LET b == lh[tail] IN
    /\ pc[p] \in {"install", "recover"} /\ tail <= Len(lh)
    /\ disk' = [disk EXCEPT ![b] = logdisk[tail]]
    /\ buf' = [buf EXCEPT ![b] = logdisk[tail]]
    /\ Loop(tail + 1, p, pc[p])
    /\ UNCHANGED <<logdisk, hdr, inLog, id, wrote, calls, crashes, panicked>>

\* One turn of install_trans(): a log block goes to its home location.
Install(p) ==
    LET b == lh[tail] IN
    /\ pc[p] \in {"install", "recover"} /\ tail <= Len(lh)
    /\ disk' = [disk EXCEPT ![b] = logdisk[tail]]
    /\ buf' = [buf EXCEPT ![b] = logdisk[tail]]
    /\ IF At(p, "install") THEN pin' = [pin EXCEPT ![b] = @ - 1]
                           ELSE UNCHANGED pin
    /\ Loop(tail + 1, p, pc[p])
    /\ UNCHANGED <<logdisk, hdr, lh, outstanding, committing, id, wrote, calls, crashes,
                   panicked>>

\* Mutant: recovery starts the system without clearing the header.
MutEraseHead(p) ==
    /\ pc[p] \in {"install", "recover"} /\ tail > Len(lh)
    /\ lh' = <<>>
    /\ IF At(p, "install") THEN Goto(p, "done") /\ hdr' = <<>>
                           ELSE pc' = [r \in Proc |-> "idle"] /\ UNCHANGED hdr
    /\ UNCHANGED <<disk, logdisk, outstanding, committing, pin, buf, id, wrote, tail,
                   calls, crashes, panicked>>

\* log.lh.n = 0; write_head().  After recovery the other processes start.
EraseHead(p) ==
    /\ pc[p] \in {"install", "recover"} /\ tail > Len(lh)
    /\ lh' = <<>> /\ hdr' = <<>>
    /\ IF At(p, "install") THEN Goto(p, "done")
                           ELSE pc' = [r \in Proc |-> "idle"]
    /\ UNCHANGED <<disk, logdisk, outstanding, committing, pin, buf, id, wrote, tail,
                   calls, crashes, panicked>>

\* Mutant: the processes asleep in begin_op() are not woken.
MutCommitDone(p) ==
    /\ At(p, "done")
    /\ committing' = FALSE /\ Goto(p, "idle")
    /\ UNCHANGED <<onDisk, lh, outstanding, pin, buf, id, wrote, tail, calls, crashes,
                   panicked>>

CommitDone(p) ==
    /\ At(p, "done")
    /\ committing' = FALSE /\ Wakeup(p, "idle")
    /\ UNCHANGED <<onDisk, lh, outstanding, pin, buf, id, wrote, tail, calls, crashes,
                   panicked>>

-----------------------------------------------------------------------------
(* The buffer cache, as far as the log depends on it, and crashes.         *)

\* bread() by anyone, for reading.
ReadBlock(b) ==
    /\ buf[b] = NoBuf /\ \E p \in Proc : pc[p] \notin {"boot", "recover", "down"}
    /\ buf' = [buf EXCEPT ![b] = disk[b]]
    /\ UNCHANGED <<onDisk, inLog, pc, id, wrote, tail, calls, crashes, panicked>>

\* bget() recycles a buffer that nobody refers to.
Recycle(b) ==
    /\ buf[b] # NoBuf /\ pin[b] = 0
    /\ buf' = [buf EXCEPT ![b] = NoBuf]
    /\ UNCHANGED <<onDisk, inLog, pc, id, wrote, tail, calls, crashes, panicked>>

\* Memory is lost; the disk stays.  The machine boots.
Down == [p \in Proc |-> IF p = Boot THEN "boot" ELSE "down"]
Crash ==
    /\ crashes < MaxCrash
    /\ crashes' = crashes + 1
    /\ lh' = <<>> /\ outstanding' = 0 /\ committing' = FALSE
    /\ pin' = [b \in Block |-> 0] /\ buf' = [b \in Block |-> NoBuf]
    /\ pc' = Down /\ wrote' = [p \in Proc |-> {}] /\ id' = [p \in Proc |-> 0]
    /\ tail' = 1
    /\ UNCHANGED <<onDisk, calls, panicked>>

\* recover_from_log() reads the header.
ReadHead(p) ==
    /\ At(p, "boot")
    /\ lh' = hdr
    /\ Loop(1, p, "recover")
    /\ UNCHANGED <<onDisk, outstanding, committing, pin, buf, id, wrote, calls, crashes,
                   panicked>>

-----------------------------------------------------------------------------
\* mkfs has made the disk and its empty log; the machine boots.
Init ==
    /\ disk = [b \in Block |-> 0] /\ hdr = <<>>
    /\ logdisk = [i \in 1 .. NLOG - 1 |-> 0]
    /\ lh = <<>> /\ outstanding = 0 /\ committing = FALSE
    /\ pin = [b \in Block |-> 0] /\ buf = [b \in Block |-> NoBuf]
    /\ pc = Down /\ wrote = [p \in Proc |-> {}] /\ id = [p \in Proc |-> 0]
    /\ tail = 1
    /\ calls = 0 /\ crashes = 0 /\ panicked = "no"

LogStep(p) == \/ BeginOp(p) \/ EndOp(p) \/ Commit(p) \/ WriteLog(p) \/ WriteHead(p)
              \/ Install(p) \/ EraseHead(p) \/ CommitDone(p) \/ ReadHead(p)

Next == /\ panicked = "no"
        /\ \/ \E p \in Proc : Call(p) \/ LogStep(p)
           \/ \E p \in Proc, b \in Block : LogWrite(p, b)
           \/ \E b \in Block : ReadBlock(b) \/ Recycle(b)
           \/ Crash

Spec == Init /\ [][Next]_vars

\* A process that can run runs, and a call writes finitely often and ends.
FairSpec == Spec /\ \A p \in Proc : WF_vars(panicked = "no" /\ LogStep(p))
-----------------------------------------------------------------------------
(* Properties.                                                             *)

Place == {"down", "boot", "recover", "idle", "begin", "asleep", "op", "commit",
          "write_log", "install", "done"}
TypeOK ==
    /\ disk \in [Block -> Val]
    /\ logdisk \in [1 .. NLOG - 1 -> Val]
    /\ hdr \in Seq(Block) /\ lh \in Seq(Block)
    /\ Len(hdr) <= NLOG - 1 /\ Len(lh) <= NLOG - 1
    /\ outstanding \in 0 .. Cardinality(Proc) /\ committing \in BOOLEAN
    /\ buf \in [Block -> Val \cup {NoBuf}]
    /\ pin \in [Block -> {0, 1}]
    /\ pc \in [Proc -> Place]
    /\ id \in [Proc -> Val] /\ wrote \in [Proc -> SUBSET Block]
    /\ tail \in 1 .. NLOG /\ calls \in 0 .. MaxOp /\ crashes \in 0 .. MaxCrash

\* log.c, "the true point at which the current transaction commits": file
\* system calls reach the disk together, all of their writes or none, whatever
\* the order of bwrite()s a crash cuts short.
Recovered == [b \in Block |-> IF \E i \in DOMAIN hdr : hdr[i] = b
                              THEN logdisk[CHOOSE i \in DOMAIN hdr : hdr[i] = b]
                              ELSE disk[b]]
Booted == pc[Boot] \notin {"boot", "recover"}
Atomic == INSTANCE AtomicDisk WITH
    stable  <- Recovered,
    current <- [b \in Block |-> IF Booted THEN Bread(b) ELSE Recovered[b]],
    active  <- outstanding
CrashAtomic == Atomic!Spec

\* When end_op() has returned to every caller, everything is on the disk and
\* no buffer is pinned any more.
Durable ==
    Booted /\ outstanding = 0 /\ ~ committing =>
        /\ \A b \in Block : disk[b] = Bread(b) /\ pin[b] = 0
        /\ lh = <<>> /\ hdr = <<>>

\* begin_op() lets a call in only if the log has room for it: none of the
\* panics of log.c is reached.
NoPanic == panicked = "no"

\* A call that waits in begin_op() is let in, unless the machine stops: no
\* wakeup() is lost.
Admitted == \A p \in Proc : pc[p] \in {"begin", "asleep"} ~> pc[p] \in {"op", "boot", "down"}
=============================================================================
