----------------------------- MODULE VirtioDisk -----------------------------
(***************************************************************************)
(* virtio_disk.c: the driver, the disk of QEMU behind it, and the memory   *)
(* they share: descriptors, the avail ring and the used ring.              *)
(*                                                                         *)
(* disk.vdisk_lock is held over the whole of virtio_disk_rw(), but for its *)
(* sleeps, and over the whole of virtio_disk_intr().  The device takes no  *)
(* lock: it looks at the avail ring whenever it likes, serves requests in  *)
(* any order, and writes the used ring while the handler reads it.  It     *)
(* does not fail: with a status other than 0 the driver panics.            *)
(***************************************************************************)
EXTENDS Integers, FiniteSets

CONSTANTS
    Proc,    \* processes
    Buf,     \* struct buf
    Block,   \* blocks of the disk
    Val,     \* contents of a block
    NUM,     \* descriptors
    UINT16,  \* ring indices are modulo UINT16 (2^16)
    None     \* a null pointer, nobody

ASSUME DiskConstants ==
    /\ NUM \in Nat /\ NUM >= 3 /\ UINT16 \in Nat
    /\ UINT16 >= NUM /\ UINT16 % NUM = 0
    /\ None \notin Proc \cup Buf \cup Nat /\ "intr" \notin Proc \cup {None}

Descs(n) == 0 .. n - 1

VARIABLES
    store,    \* what is on the disk
    data,     \* b->data
    bdisk,    \* b->disk: the device owns the buffer
    free,     \* the descriptors i with disk.free[i]
    desc,     \* disk.desc; the flag NEXT is next # None
    ops,      \* disk.ops
    info,     \* disk.info; status is 255 until the device writes it
    avail,    \* disk.avail: ring and idx
    used,     \* disk.used: ring (of ids) and idx
    usedIdx,  \* disk.used_idx
    seen,     \* device: how far it has read the avail ring
    serving,  \* device: chains it has taken
    served,   \* device: chains it has carried out
    irq,      \* the interrupt is raised
    vlock,    \* who holds disk.vdisk_lock
    io,       \* where a process is in virtio_disk_rw(), and its local variables
    napping,  \* the processes asleep in virtio_disk_rw()
    crashed   \* panic() was called

queue   == <<free, desc, ops, info, avail>>
device  == <<used, seen, serving, served>>
content == <<store, data>>
dvars   == <<content, bdisk, queue, usedIdx, device, irq, vlock, io, napping, crashed>>

NoIO      == [pc |-> "idle", b |-> None, block |-> None, write |-> FALSE, head |-> 0]
NoDesc    == [addr |-> None, write |-> FALSE, next |-> None]
IoAt(p, l)  == io[p].pc = l /\ p \notin napping
\* wakeup(&disk.free[0])
WakeFree    == {p \in napping : io[p].pc # "alloc"}
DiskPanic == /\ crashed' = TRUE
             /\ UNCHANGED <<content, bdisk, queue, usedIdx, device, irq, vlock, io, napping>>

-----------------------------------------------------------------------------
(* virtio_disk_rw()                                                        *)

\* The call, by a process that holds b->lock.
Rw(p, b, k, w) ==
    /\ io[p].pc = "idle"
    /\ io' = [io EXCEPT ![p] = [NoIO EXCEPT !.pc = "alloc", !.b = b, !.block = k,
                                            !.write = w]]

\* Mutant: what alloc3_desc() got before it failed stays allocated.
MutNoDescs(p) ==
    /\ IoAt(p, "alloc") /\ vlock = None /\ Cardinality(free) < 3
    /\ napping' = napping \cup {p} /\ free' = {}
    /\ UNCHANGED <<content, bdisk, desc, ops, info, avail, usedIdx, device, irq, vlock, io,
                   crashed>>

\* alloc3_desc() fails.  It gives back the descriptors it took, which wakes
\* everybody who waits for some.
NoDescs(p) ==
    /\ IoAt(p, "alloc") /\ vlock = None /\ Cardinality(free) < 3
    /\ napping' = (IF free = {} THEN napping ELSE WakeFree) \cup {p}
    /\ UNCHANGED <<content, bdisk, queue, usedIdx, device, irq, vlock, io, crashed>>

Least(S) == CHOOSE i \in S : \A j \in S : i <= j

\* Mutant: the status byte keeps the 0 of the request before.
MutSubmit(p) ==
    LET b  == io[p].b
        d0 == Least(free)
        d1 == Least(free \ {d0})
        d2 == Least(free \ {d0, d1})
    IN  /\ IoAt(p, "alloc") /\ vlock = None /\ Cardinality(free) >= 3
        /\ vlock' = p
        /\ free' = free \ {d0, d1, d2}
        /\ ops' = [ops EXCEPT ![d0] = [write |-> io[p].write, sector |-> io[p].block]]
        /\ desc' = [desc EXCEPT
              ![d0] = [addr |-> <<"op", d0>>, write |-> FALSE, next |-> d1],
              ![d1] = [addr |-> <<"data", b>>, write |-> ~ io[p].write, next |-> d2],
              ![d2] = [addr |-> <<"status", d0>>, write |-> TRUE, next |-> None]]
        /\ info' = [info EXCEPT ![d0].b = b]
        /\ bdisk' = [bdisk EXCEPT ![b] = TRUE]
        /\ avail' = [avail EXCEPT !.ring[avail.idx % NUM] = d0]
        /\ io' = [io EXCEPT ![p].pc = "publish", ![p].head = d0]
        /\ UNCHANGED <<content, usedIdx, device, irq, napping, crashed>>

\* Three descriptors are filled in, and the first goes into the avail ring.
Submit(p) ==
    LET b  == io[p].b
        d0 == Least(free)
        d1 == Least(free \ {d0})
        d2 == Least(free \ {d0, d1})
    IN  /\ IoAt(p, "alloc") /\ vlock = None /\ Cardinality(free) >= 3
        /\ vlock' = p
        /\ free' = free \ {d0, d1, d2}
        /\ ops' = [ops EXCEPT ![d0] = [write |-> io[p].write, sector |-> io[p].block]]
        /\ desc' = [desc EXCEPT
              ![d0] = [addr |-> <<"op", d0>>, write |-> FALSE, next |-> d1],
              ![d1] = [addr |-> <<"data", b>>, write |-> ~ io[p].write, next |-> d2],
              ![d2] = [addr |-> <<"status", d0>>, write |-> TRUE, next |-> None]]
        /\ info' = [info EXCEPT ![d0] = [b |-> b, status |-> 255]]
        /\ bdisk' = [bdisk EXCEPT ![b] = TRUE]
        /\ avail' = [avail EXCEPT !.ring[avail.idx % NUM] = d0]
        /\ io' = [io EXCEPT ![p].pc = "publish", ![p].head = d0]
        /\ UNCHANGED <<content, usedIdx, device, irq, napping, crashed>>

\* avail->idx += 1, the notification, and sleep(b, &disk.vdisk_lock).
Publish(p) ==
    /\ IoAt(p, "publish")
    /\ avail' = [avail EXCEPT !.idx = (@ + 1) % UINT16]
    /\ vlock' = None
    /\ io' = [io EXCEPT ![p].pc = "wait"] /\ napping' = napping \cup {p}
    /\ UNCHANGED <<content, bdisk, free, desc, ops, info, usedIdx, device, irq, crashed>>

\* The descriptors that free_chain(i) goes through.
Chain(i) == LET j == desc[i].next IN
            {i} \cup (IF j = None THEN {} ELSE {j} \cup ({desc[j].next} \ {None}))

\* The process is woken: it sleeps again unless its request is finished, and
\* else frees the chain.
Finish(p) ==
    LET c == Chain(io[p].head) IN
    /\ IoAt(p, "wait") /\ vlock = None
    /\ IF bdisk[io[p].b]
       THEN /\ napping' = napping \cup {p}
            /\ UNCHANGED <<content, bdisk, queue, usedIdx, device, irq, vlock, io, crashed>>
       ELSE IF c \cap free # {}
       THEN DiskPanic
       ELSE /\ info' = [info EXCEPT ![io[p].head].b = None]
            /\ desc' = [i \in Descs(NUM) |-> IF i \in c THEN NoDesc ELSE desc[i]]
            /\ free' = free \cup c
            /\ io' = [io EXCEPT ![p] = NoIO] /\ napping' = WakeFree
            /\ UNCHANGED <<content, bdisk, ops, avail, usedIdx, device, irq, vlock, crashed>>

-----------------------------------------------------------------------------
(* virtio_disk_intr()                                                      *)

\* The handler acknowledges the interrupt before it looks at the used ring.
IntrStart ==
    /\ irq /\ vlock = None
    /\ vlock' = "intr" /\ irq' = FALSE
    /\ UNCHANGED <<content, bdisk, queue, usedIdx, device, io, napping, crashed>>

\* One turn of the loop: the entry used_idx, and wakeup(b).
IntrEntry ==
    LET id == used.ring[usedIdx % NUM]
        b  == info[id].b
    IN  /\ vlock = "intr" /\ usedIdx # used.idx
        /\ IF info[id].status # 0 \/ b = None
           THEN DiskPanic
           ELSE /\ bdisk' = [bdisk EXCEPT ![b] = FALSE]
                /\ napping' = {p \in napping : ~ (io[p].pc = "wait" /\ io[p].b = b)}
                /\ usedIdx' = (usedIdx + 1) % UINT16
                /\ UNCHANGED <<content, queue, device, irq, vlock, io, crashed>>

\* Mutant: one completion is handled for each interrupt.
MutIntrEnd ==
    /\ vlock = "intr"
    /\ vlock' = None
    /\ UNCHANGED <<content, bdisk, queue, usedIdx, device, irq, io, napping, crashed>>

IntrEnd ==
    /\ vlock = "intr" /\ usedIdx = used.idx
    /\ vlock' = None
    /\ UNCHANGED <<content, bdisk, queue, usedIdx, device, irq, io, napping, crashed>>

-----------------------------------------------------------------------------
(* The device                                                              *)

DevTake ==
    /\ seen # avail.idx
    /\ serving' = serving \cup {avail.ring[seen % NUM]}
    /\ seen' = (seen + 1) % UINT16
    /\ UNCHANGED <<content, bdisk, queue, usedIdx, used, served, irq, vlock, io, napping,
                   crashed>>

\* It follows the chain: the command, the data, the status.
DevServe(h) ==
    LET d  == desc[desc[h].next]
        o  == ops[desc[h].addr[2]]
        b  == d.addr[2]
    IN  /\ h \in serving
        /\ IF o.write THEN store' = [store EXCEPT ![o.sector] = data[b]] /\ UNCHANGED data
                      ELSE data' = [data EXCEPT ![b] = store[o.sector]] /\ UNCHANGED store
        /\ info' = [info EXCEPT ![desc[d.next].addr[2]].status = 0]
        /\ serving' = serving \ {h} /\ served' = served \cup {h}
        /\ UNCHANGED <<bdisk, free, desc, ops, avail, usedIdx, used, seen, irq, vlock, io,
                       napping, crashed>>

DevPost(h) ==
    /\ h \in served
    /\ served' = served \ {h}
    /\ used' = [ring |-> [used.ring EXCEPT ![used.idx % NUM] = h],
                idx  |-> (used.idx + 1) % UINT16]
    /\ irq' = TRUE
    /\ UNCHANGED <<content, bdisk, queue, usedIdx, seen, serving, vlock, io, napping, crashed>>

-----------------------------------------------------------------------------
\* virtio_disk_init() has set up the queue.
DiskInit ==
    /\ store \in [Block -> Val] /\ data \in [Buf -> Val]
    /\ bdisk = [b \in Buf |-> FALSE]
    /\ free = Descs(NUM) /\ desc = [i \in Descs(NUM) |-> NoDesc]
    /\ ops = [i \in Descs(NUM) |-> [write |-> FALSE, sector |-> None]]
    /\ info = [i \in Descs(NUM) |-> [b |-> None, status |-> 0]]
    /\ avail = [ring |-> [i \in Descs(NUM) |-> 0], idx |-> 0] /\ used = avail
    /\ usedIdx = 0 /\ seen = 0 /\ serving = {} /\ served = {} /\ irq = FALSE
    /\ vlock = None /\ io = [p \in Proc |-> NoIO] /\ napping = {} /\ crashed = FALSE

RwStep(p) == NoDescs(p) \/ Submit(p) \/ Publish(p) \/ Finish(p)
Intr      == IntrStart \/ IntrEntry \/ IntrEnd
Device    == DevTake \/ \E h \in Descs(NUM) : DevServe(h) \/ DevPost(h)
DiskNext  == (\E p \in Proc : RwStep(p)) \/ Intr \/ Device
-----------------------------------------------------------------------------
(* Properties.                                                             *)

Address == ({"op", "status"} \X Descs(NUM)) \cup ({"data"} \X Buf) \cup {None}

DiskTypeOK ==
    /\ store \in [Block -> Val] /\ data \in [Buf -> Val] /\ bdisk \in [Buf -> BOOLEAN]
    /\ free \subseteq Descs(NUM) /\ serving \subseteq Descs(NUM) /\ served \subseteq Descs(NUM)
    /\ desc \in [Descs(NUM) -> [addr : Address, write : BOOLEAN, next : Descs(NUM) \cup {None}]]
    /\ ops \in [Descs(NUM) -> [write : BOOLEAN, sector : Block \cup {None}]]
    /\ info \in [Descs(NUM) -> [b : Buf \cup {None}, status : {0, 255}]]
    /\ avail \in [ring : [Descs(NUM) -> Descs(NUM)], idx : 0 .. UINT16 - 1]
    /\ used \in [ring : [Descs(NUM) -> Descs(NUM)], idx : 0 .. UINT16 - 1]
    /\ usedIdx \in 0 .. UINT16 - 1 /\ seen \in 0 .. UINT16 - 1
    /\ vlock \in Proc \cup {None, "intr"} /\ irq \in BOOLEAN
    /\ io \in [Proc -> [pc : {"idle", "alloc", "publish", "wait"}, b : Buf \cup {None},
                        block : Block \cup {None}, write : BOOLEAN, head : Descs(NUM)]]
    /\ napping \subseteq Proc /\ crashed \in BOOLEAN

\* Every descriptor is free or in the chain of exactly one request, and the
\* chains have three: none is lost when alloc3_desc() fails half way, and none
\* is given to two requests.
Owners(i) == {p \in Proc : io[p].pc \in {"publish", "wait"} /\ i \in Chain(io[p].head)}
DescsAccounted == \A i \in Descs(NUM) : Cardinality(Owners(i)) = IF i \in free THEN 0 ELSE 1

\* Nobody sleeps for descriptors that are there, or for a buffer that the
\* device has given back.
NoSleeper == \A p \in napping :
    /\ io[p].pc = "alloc" => Cardinality(free) < 3
    /\ io[p].pc = "wait"  => bdisk[io[p].b]

\* The driver and the device implement SyncDisk.
Phase(p) == CASE io[p].pc = "idle" -> "idle"
              [] io[p].pc = "alloc" -> "asked"
              [] OTHER -> IF info[io[p].head].status = 0 THEN "done" ELSE "asked"
Sync == INSTANCE SyncDisk WITH
    req <- [p \in Proc |-> [pc |-> Phase(p), b |-> io[p].b, block |-> io[p].block,
                            write |-> io[p].write]]
Serial == Sync!Spec

\* No completion is lost between the acknowledgement and the used ring: while
\* one is there that the handler has not seen, it will come, or come back.
NoLostInterrupt == usedIdx # used.idx => irq \/ vlock = "intr"
=============================================================================
