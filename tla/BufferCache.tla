---------------------------- MODULE BufferCache ----------------------------
(***************************************************************************)
(* bio.c and sleeplock.c on top of the disk driver: the list of buffers,   *)
(* their reference counts and sleep locks, and the processes that read,    *)
(* change, write, pin and release blocks.                                  *)
(*                                                                         *)
(* What happens under bcache.lock, or under the spinlock inside a sleep    *)
(* lock, is one step.  brelse() has two: between them the buffer is        *)
(* unlocked and still referenced.                                          *)
(*                                                                         *)
(* The processes stand for fs.c and log.c.  But for a writei() that fails  *)
(* half way, they never change a block without bwrite() or log_write()     *)
(* before brelse(); install_trans() writes a logged block before it unpins *)
(* it, and together they never need more buffers than there are: bio.c     *)
(* relies on all three.                                                    *)
(***************************************************************************)
EXTENDS VirtioDisk

CONSTANTS
    MaxPin,      \* bound: blocks in the log at a time
    CopyinFails  \* bound: write() is called with data that is not all there

ASSUME CacheConstants ==
    /\ MaxPin \in Nat /\ CopyinFails \in BOOLEAN /\ None \notin Block
    /\ IsFiniteSet(Buf) /\ IsFiniteSet(Proc)

VARIABLES
    blockno,   \* b->blockno; None at boot, when b->dev is 0
    valid,     \* b->valid
    refcnt,    \* b->refcnt
    lru,       \* the list from bcache.head.next to bcache.head.prev
    slock,     \* b->lock: the process that holds it
    lsleep,    \* processes asleep in acquiresleep()
    op,        \* where a process is, and with which buffer
    change,    \* b->data: "clean", "dirty", or "logged" by log_write()
    pinned     \* buffers that log.lh.block names

cvars == <<blockno, valid, refcnt, lru, slock, lsleep, op, change, pinned>>
vars  == <<dvars, cvars>>

At(p, l)     == op[p].pc = l
Goto(p, l)   == op' = [op EXCEPT ![p].pc = l]
Holds(p, b)  == At(p, "use") /\ op[p].b = b
CachePanic   == crashed' = TRUE /\ UNCHANGED <<cvars, content, bdisk, queue, usedIdx, device,
                                               irq, vlock, io, napping>>
Needed       == pinned \cup {op[p].b : p \in {q \in Proc : ~ At(q, "user")}}

-----------------------------------------------------------------------------
(* bget()                                                                  *)

Cached(k) == {b \in Buf : blockno[b] = k}

BgetHit(p, k) ==
    /\ At(p, "user")
    /\ \E b \in Cached(k) :
        /\ refcnt' = [refcnt EXCEPT ![b] = @ + 1]
        /\ op' = [op EXCEPT ![p] = [pc |-> "lock", b |-> b]]
    /\ UNCHANGED <<dvars, blockno, valid, lru, slock, lsleep, change, pinned>>

Unused == {i \in DOMAIN lru : refcnt[lru[i]] = 0}

\* Mutant: bcache.lock is released between the two loops, and the block may
\* be cached meanwhile.
MutBgetRecycle(p, k) ==
    /\ At(p, "user")
    /\ Cardinality(Needed) < Cardinality(Buf) /\ Unused # {}
    /\ LET b == lru[CHOOSE i \in Unused : \A j \in Unused : j <= i] IN
          /\ blockno' = [blockno EXCEPT ![b] = k] /\ valid' = [valid EXCEPT ![b] = FALSE]
          /\ refcnt' = [refcnt EXCEPT ![b] = 1]
          /\ op' = [op EXCEPT ![p] = [pc |-> "lock", b |-> b]]
    /\ UNCHANGED <<dvars, lru, slock, lsleep, change, pinned>>

\* The least recently used buffer that nobody refers to is recycled.
BgetRecycle(p, k) ==
    /\ At(p, "user") /\ Cached(k) = {}
    /\ Cardinality(Needed) < Cardinality(Buf)
    /\ IF Unused = {}
       THEN CachePanic
       ELSE LET b == lru[CHOOSE i \in Unused : \A j \in Unused : j <= i] IN
            /\ blockno' = [blockno EXCEPT ![b] = k] /\ valid' = [valid EXCEPT ![b] = FALSE]
            /\ refcnt' = [refcnt EXCEPT ![b] = 1]
            /\ op' = [op EXCEPT ![p] = [pc |-> "lock", b |-> b]]
            /\ UNCHANGED <<dvars, lru, slock, lsleep, change, pinned>>

\* acquiresleep(&b->lock); then bread() reads the block if it must.
LockBuf(p) ==
    LET b == op[p].b IN
    /\ At(p, "lock") /\ p \notin lsleep /\ slock[b] = None
    /\ slock' = [slock EXCEPT ![b] = p]
    /\ IF valid[b]
       THEN Goto(p, "use") /\ UNCHANGED io
       ELSE Goto(p, "read") /\ Rw(p, b, blockno[b], FALSE)
    /\ UNCHANGED <<content, bdisk, queue, usedIdx, device, irq, vlock, napping, crashed,
                   blockno, valid, refcnt, lru, lsleep, change, pinned>>

LockSleep(p) ==
    /\ At(p, "lock") /\ p \notin lsleep /\ slock[op[p].b] # None
    /\ lsleep' = lsleep \cup {p}
    /\ UNCHANGED <<dvars, blockno, valid, refcnt, lru, slock, op, change, pinned>>

ReadDone(p) ==
    /\ At(p, "read") /\ io[p].pc = "idle"
    /\ valid' = [valid EXCEPT ![op[p].b] = TRUE]
    /\ Goto(p, "use")
    /\ UNCHANGED <<dvars, blockno, refcnt, lru, slock, lsleep, change, pinned>>

-----------------------------------------------------------------------------
(* What fs.c and log.c do with a buffer they hold.                         *)

Change(p, b) ==
    /\ Holds(p, b)
    /\ \E v \in Val : data' = [data EXCEPT ![b] = v]
    /\ change' = [change EXCEPT ![b] = "dirty"]
    /\ UNCHANGED <<store, bdisk, queue, usedIdx, device, irq, vlock, io, napping, crashed,
                   blockno, valid, refcnt, lru, slock, lsleep, op, pinned>>

\* bwrite()
Bwrite(p, b) ==
    /\ Holds(p, b) /\ change[b] # "clean"
    /\ Goto(p, "write") /\ Rw(p, b, blockno[b], TRUE)
    /\ UNCHANGED <<content, bdisk, queue, usedIdx, device, irq, vlock, napping, crashed,
                   blockno, valid, refcnt, lru, slock, lsleep, change, pinned>>

WriteDone(p) ==
    /\ At(p, "write") /\ io[p].pc = "idle"
    /\ change' = [change EXCEPT ![op[p].b] = "clean"]
    /\ Goto(p, "use")
    /\ UNCHANGED <<dvars, blockno, valid, refcnt, lru, slock, lsleep, pinned>>

\* log_write(): bpin(), unless the block is in the log already.
Pin(p, b) ==
    /\ Holds(p, b) /\ change[b] = "dirty"
    /\ b \in pinned \/ (Cardinality(pinned) < MaxPin)
    /\ change' = [change EXCEPT ![b] = "logged"]
    /\ pinned' = pinned \cup {b}
    /\ refcnt' = [refcnt EXCEPT ![b] = IF b \in pinned THEN @ ELSE @ + 1]
    /\ UNCHANGED <<dvars, blockno, valid, lru, slock, lsleep, op>>

\* install_trans(): bunpin(), after bwrite().
Unpin(p, b) ==
    /\ Holds(p, b) /\ b \in pinned /\ change[b] = "clean"
    /\ pinned' = pinned \ {b}
    /\ refcnt' = [refcnt EXCEPT ![b] = @ - 1]
    /\ UNCHANGED <<dvars, blockno, valid, lru, slock, lsleep, op, change>>

\* writei(): copyin() fails after it has copied the pages that were there, and
\* nothing but brelse() follows.
WriteFails(p, b) ==
    /\ CopyinFails /\ Holds(p, b) /\ change[b] = IF b \in pinned THEN "logged" ELSE "clean"
    /\ \E v \in Val : data' = [data EXCEPT ![b] = v]
    /\ UNCHANGED <<store, bdisk, queue, usedIdx, device, irq, vlock, io, napping, crashed, cvars>>

-----------------------------------------------------------------------------
(* brelse()                                                                *)

\* Mutant: the sleepers are not woken.
MutRelease(p, b) ==
    /\ Holds(p, b) /\ change[b] = IF b \in pinned THEN "logged" ELSE "clean"
    /\ slock' = [slock EXCEPT ![b] = None]
    /\ Goto(p, "release")
    /\ UNCHANGED <<dvars, blockno, valid, refcnt, lru, lsleep, change, pinned>>

\* releasesleep(&b->lock)
Release(p, b) ==
    /\ Holds(p, b) /\ change[b] = IF b \in pinned THEN "logged" ELSE "clean"
    /\ slock' = [slock EXCEPT ![b] = None]
    /\ lsleep' = {q \in lsleep : op[q].b # b}
    /\ Goto(p, "release")
    /\ UNCHANGED <<dvars, blockno, valid, refcnt, lru, change, pinned>>

\* b leaves its place in the list and goes to the head.
ToHead(s, b) == LET i == CHOOSE j \in DOMAIN s : s[j] = b
                IN  [j \in DOMAIN s |-> IF j = 1 THEN b ELSE IF j <= i THEN s[j - 1] ELSE s[j]]

\* Mutant: the count of a buffer that others wait for is not decremented.
MutBrelseEnd(p) ==
    LET b == op[p].b IN
    /\ At(p, "release")
    /\ IF refcnt[b] = 1
       THEN /\ refcnt' = [refcnt EXCEPT ![b] = 0]
            /\ lru' = ToHead(lru, b)
       ELSE UNCHANGED <<refcnt, lru>>
    /\ op' = [op EXCEPT ![p] = [pc |-> "user", b |-> None]]
    /\ UNCHANGED <<dvars, blockno, valid, slock, lsleep, change, pinned>>

\* b->refcnt--, and an unused buffer moves to the head of the list.
BrelseEnd(p) ==
    LET b == op[p].b IN
    /\ At(p, "release")
    /\ refcnt' = [refcnt EXCEPT ![b] = @ - 1]
    /\ lru' = IF refcnt[b] = 1 THEN ToHead(lru, b) ELSE lru
    /\ op' = [op EXCEPT ![p] = [pc |-> "user", b |-> None]]
    /\ UNCHANGED <<dvars, blockno, valid, slock, lsleep, change, pinned>>

-----------------------------------------------------------------------------
\* binit()
Init ==
    /\ DiskInit
    /\ blockno = [b \in Buf |-> None] /\ valid = [b \in Buf |-> FALSE]
    /\ refcnt = [b \in Buf |-> 0]
    /\ lru \in {s \in [1 .. Cardinality(Buf) -> Buf] : \A b \in Buf : \E i \in DOMAIN s : s[i] = b}
    /\ slock = [b \in Buf |-> None] /\ lsleep = {}
    /\ op = [p \in Proc |-> [pc |-> "user", b |-> None]]
    /\ change = [b \in Buf |-> "clean"] /\ pinned = {}

CacheStep(p) ==
    \/ \E k \in Block : BgetHit(p, k) \/ BgetRecycle(p, k)
    \/ LockBuf(p) \/ LockSleep(p) \/ ReadDone(p) \/ WriteDone(p) \/ BrelseEnd(p)
    \/ \E b \in Buf : Change(p, b) \/ Bwrite(p, b) \/ Pin(p, b) \/ Unpin(p, b) \/ Release(p, b)
                     \/ WriteFails(p, b)

Next == /\ ~ crashed
        /\ (\E p \in Proc : CacheStep(p)) \/ (DiskNext /\ UNCHANGED cvars)

Spec == Init /\ [][Next]_vars
-----------------------------------------------------------------------------
(* Properties.                                                             *)

TypeOK ==
    /\ DiskTypeOK
    /\ blockno \in [Buf -> Block \cup {None}] /\ valid \in [Buf -> BOOLEAN]
    /\ refcnt \in [Buf -> 0 .. Cardinality(Proc) + 1]
    /\ lru \in [1 .. Cardinality(Buf) -> Buf]
    /\ slock \in [Buf -> Proc \cup {None}] /\ lsleep \subseteq Proc
    /\ op \in [Proc -> [pc : {"user", "lock", "read", "use", "write", "release"},
                        b : Buf \cup {None}]]
    /\ change \in [Buf -> {"clean", "dirty", "logged"}] /\ pinned \subseteq Buf

\* What CachedDisk shows of the cache.
Value == [k \in Block |-> IF \E b \in Cached(k) : valid[b]
                          THEN data[CHOOSE b \in Cached(k) : valid[b]] ELSE store[k]]
Users == [k \in Block |-> {p \in Proc : op[p].pc \in {"use", "write"} /\ blockno[op[p].b] = k}]

\* The counts are exact: a buffer is referred to by the processes inside
\* bread() ... brelse() and by the log, and a count of 0 lets bget() take it.
CountsExact == \A b \in Buf :
    refcnt[b] = Cardinality({p \in Proc : op[p].b = b}) + (IF b \in pinned THEN 1 ELSE 0)

\* No panic: no buffer is lost ("bget: no buffers"), no descriptor is freed
\* twice ("free_desc 2"), and none of a request still going on is answered
\* ("virtio_disk_intr status", as long as the device does not fail).
NoPanic == ~ crashed

\* bio.c, "After changing buffer data, call bwrite to write it to disk": what
\* is in a buffer that nobody refers to, and that bget() may recycle, is on the
\* disk too.
WrittenBack == \A b \in Buf : valid[b] /\ refcnt[b] = 0 => data[b] = store[blockno[b]]

\* Nobody sleeps for a sleep lock that is free, for descriptors that are there,
\* or for a buffer that the device has given back.
NoLostWakeup == NoSleeper /\ \A p \in lsleep : slock[op[p].b] # None
=============================================================================
