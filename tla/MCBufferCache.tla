--------------------------- MODULE MCBufferCache ---------------------------
(***************************************************************************)
(* Instances of BufferCache for TLC, two in one run: the first step        *)
(* chooses how many descriptors the disk has.                              *)
(*   few:  three processes and descriptors for one request at a time;      *)
(*   many: descriptors for every request that two buffers make, a device   *)
(*         that answers in any order, write() calls that fail half way,    *)
(*         and two processes at a time, without the log.                   *)
(***************************************************************************)
EXTENDS BufferCache, TLC

CONSTANTS p1, p2, p3, c1, c2, k1, k2, k3, v1, v2

VARIABLE on

M == INSTANCE BufferCache WITH NUM <- 6, UINT16 <- 6, MaxPin <- 0, CopyinFails <- TRUE

Busy == {p \in Proc : op[p].pc # "user"}

SpecBoth ==
    /\ \/ on = "few"  /\ Init
       \/ on = "many" /\ M!Init
    /\ [][/\ UNCHANGED on
          /\ \/ on = "few"  /\ Next
             \/ on = "many" /\ M!Next /\ Cardinality(Busy') <= 2]_<<vars, on>>

\* bio.c, "Only one process at a time can use a buffer", and every reader finds
\* what was last put into the block: not an old copy on the disk, not the block
\* the buffer held before, not a second buffer.  A write() that fails half way
\* breaks this (WrittenBack).
Blocks == INSTANCE CachedDisk WITH
    value <- IF on = "few" THEN Value ELSE [k \in Block |-> v1],
    users <- IF on = "few" THEN Users ELSE [k \in Block |-> {}]
OneCopy == Blocks!Spec

\* Every descriptor is accounted for, however many there are.
Descriptors == IF on = "few" THEN DescsAccounted ELSE M!DescsAccounted

-----------------------------------------------------------------------------
\* Nothing but the free descriptors is compared by order.
Symmetry == Permutations(Proc) \cup Permutations(Buf) \cup Permutations(Block)
            \cup Permutations(Val)

\* What is left in the rings and the commands of former requests is written
\* anew before it is read.
Unread(r, from, num) == {<<i, r.ring[i]>> : i \in {j \in 0 .. num - 1 :
                            (j - from) % num < (r.idx - from) % num}}
Current ==
    LET num == IF on = "few" THEN NUM ELSE 6 IN
    <<on, content, bdisk, free, desc, usedIdx, seen, serving, served, irq, vlock, io, napping,
      crashed, cvars, avail.idx, used.idx, Unread(avail, seen, num), Unread(used, usedIdx, num),
      [p \in Proc |-> IF io[p].pc \in {"publish", "wait"}
                      THEN <<ops[io[p].head], info[io[p].head]>> ELSE <<>>]>>
=============================================================================
