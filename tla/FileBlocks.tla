----------------------------- MODULE FileBlocks -----------------------------
(***************************************************************************)
(* The blocks of files: bmap(), balloc(), bfree(), itrunc(), readi() and   *)
(* writei() of fs.c under fileread(), filewrite() and open() with O_TRUNC, *)
(* by processes that share inodes, and files with their offsets.           *)
(*                                                                         *)
(* The unit of a block is four bytes, a uint, of which a block of block    *)
(* numbers holds as many as a block of data.  Blocks are as bread()        *)
(* returns them; what log_write() is told is counted, since a call may     *)
(* not log more blocks than begin_op() reserves.  The bitmap is in one     *)
(* block (FSSIZE < BPB), and inodes are counted as if each had its own.    *)
(*                                                                         *)
(* A step changes the bitmap once at most, as its buffer is locked for     *)
(* that; all else that a call touches belongs to the inode it has locked.  *)
(***************************************************************************)
EXTENDS Naturals, FiniteSets

CONSTANTS
    Proc,         \* processes
    None,         \* nobody, nothing
    Inum,         \* regular files
    NBLOCK,       \* blocks for data, of all that the bitmap has
    BSIZE,        \* units in a block
    NDIRECT,
    MAXOPBLOCKS,
    UINT,         \* unsigned integers are modulo UINT (2^32)
    Reads, Writes \* bound: how many units read() and write() are asked for

FileBlocksConstants ==
    /\ None \notin Proc /\ IsFiniteSet(Proc)
    /\ {NBLOCK, BSIZE, NDIRECT} \subseteq Nat \ {0} /\ Reads \cup Writes \subseteq Nat \ {0}
    /\ MAXOPBLOCKS \in Nat /\ MAXOPBLOCKS >= 6
    /\ UINT \in Nat /\ UINT > 2 * (NDIRECT + BSIZE) * BSIZE

VARIABLES
    bitmap,  \* blocks in use
    block,   \* what the units of a block hold: see below
    dinode,  \* the inodes on the disk: their size, and their addrs
    inode,   \* the copies in memory, which ilock() has read
    ilock,   \* who holds ip->lock
    fd,      \* the open file of a process
    file,    \* struct file: an inode and an offset
    op,      \* where a process is in a call, and its local variables
    logged   \* the blocks that its call has logged

disk == <<bitmap, block, dinode>>
vars == <<disk, inode, ilock, fd, file, op, logged>>

Blk      == 1 .. NBLOCK
NINDIRECT == BSIZE
MAXFILE  == NDIRECT + NINDIRECT

\* A unit holds zero, or the number of a block, or data; and what was data when
\* the block was last given back is Old.
Data == NBLOCK + 1
Old  == NBLOCK + 2
Zeroed == [k \in 0 .. BSIZE - 1 |-> 0]

OpenFile == Proc   \* as many as processes that have one open
Idle   == [pc |-> "idle", n |-> 0, off |-> 0, end |-> 0, at |-> 0]
NoFile == [ip |-> None, off |-> 0]

At(p, l) == op[p].pc = l
Ip(p)    == file[fd[p]].ip

-----------------------------------------------------------------------------
(* bmap(), balloc() and bfree()                                            *)

\* The places of an inode where a block number may be: 0 .. NDIRECT are in
\* ip->addrs, the rest in the block that addrs[NDIRECT] names.
Place == 0 .. NDIRECT + NINDIRECT
Table(ip) == ip.addrs[NDIRECT]
Addr(ip, k) == IF k <= NDIRECT THEN ip.addrs[k]
               ELSE IF Table(ip) = 0 THEN 0 ELSE block[Table(ip)][k - NDIRECT - 1]

\* Where bmap() looks for the block with the unit off.
PlaceOf(off) == LET bn == off \div BSIZE IN IF bn < NDIRECT THEN bn ELSE bn + 1
\* The place that bmap() has to fill first, if any.
Missing(ip, off) ==
    LET k == PlaceOf(off) IN
    {j \in {k} \cup (IF k > NDIRECT THEN {NDIRECT} ELSE {}) : Addr(ip, j) = 0}

\* The first block that is free.
FreeBlock == CHOOSE b \in Blk \ bitmap : \A c \in Blk \ bitmap : b <= c

\* balloc() and bzero() for the place k of i, by p.
Fill(p, i, k) ==
    LET b == FreeBlock
        zeroed == [block EXCEPT ![b] = Zeroed] IN
    /\ bitmap' = bitmap \cup {b}
    /\ IF k <= NDIRECT
       THEN /\ inode' = [inode EXCEPT ![i].addrs[k] = b]
            /\ block' = zeroed
            /\ logged' = [logged EXCEPT ![p] = @ \cup {<<"bitmap">>, <<"block", b>>}]
       ELSE /\ block' = [zeroed EXCEPT ![Table(inode[i])][k - NDIRECT - 1] = b]
            /\ logged' = [logged EXCEPT ![p] = @ \cup {<<"bitmap">>, <<"block", b>>,
                                                       <<"block", Table(inode[i])>>}]
            /\ UNCHANGED inode

\* bfree(): the block is not written, the data in it is nobody's.
Given(b) == [block EXCEPT ![b] = [k \in DOMAIN @ |-> IF @[k] = Data THEN Old ELSE @[k]]]

\* iupdate()
Iupdate(i) == dinode' = [dinode EXCEPT ![i] = inode'[i]]

-----------------------------------------------------------------------------
(* filewrite()                                                             *)

\* Mutant: all at once.
MutChunk(n) == n

\* A few blocks at a time.
Chunk(n) ==
    LET max == ((MAXOPBLOCKS - 1 - 1 - 2) \div 2) * BSIZE IN IF n > max THEN max ELSE n

\* begin_op(), ilock(), and the tests at the head of writei(), at the first turn
\* of filewrite() or at the next.
WriteBegin(p) ==
    LET i == Ip(p)  off == file[fd[p]].off IN
    /\ fd[p] # None /\ ilock[i] = None
    /\ \E n \in (IF At(p, "idle") THEN Writes ELSE IF At(p, "write") THEN {op[p].n} ELSE {}) :
          LET n1 == Chunk(n) IN
          IF off > inode[i].size \/ (off + n1) % UINT < off \/ off + n1 > MAXFILE * BSIZE
          THEN op' = [op EXCEPT ![p] = Idle] /\ UNCHANGED ilock
          ELSE /\ op' = [op EXCEPT ![p] = [pc |-> "writei", n |-> n, off |-> off,
                                           end |-> off + n1, at |-> 0]]
               /\ ilock' = [ilock EXCEPT ![i] = p]
    /\ UNCHANGED <<disk, inode, fd, file, logged>>

\* bmap() finds no block for the next unit, or none for its number, and asks
\* balloc() for it; at a full disk, writei() ends here.
WriteBmap(p) ==
    LET i == Ip(p)  o == op[p] IN
    /\ At(p, "writei") /\ o.off < o.end /\ Missing(inode[i], o.off) # {}
    /\ IF bitmap = Blk
       THEN op' = [op EXCEPT ![p].pc = "wrote"] /\ UNCHANGED <<bitmap, block, inode, logged>>
       ELSE /\ Fill(p, i, CHOOSE k \in Missing(inode[i], o.off) :
                              \A j \in Missing(inode[i], o.off) : k <= j)
            /\ UNCHANGED op
    /\ UNCHANGED <<dinode, ilock, fd, file>>

\* As much as is in one block.
WriteCopy(p) ==
    LET i == Ip(p)  o == op[p]  k == o.off % BSIZE
        m == IF o.end - o.off < BSIZE - k THEN o.end - o.off ELSE BSIZE - k
        b == Addr(inode[i], PlaceOf(o.off)) IN
    /\ At(p, "writei") /\ o.off < o.end /\ Missing(inode[i], o.off) = {}
    /\ block' = [block EXCEPT ![b] = [j \in DOMAIN @ |-> IF j \in k .. k + m - 1 THEN Data
                                                                                ELSE @[j]]]
    /\ op' = [op EXCEPT ![p].off = @ + m]
    /\ logged' = [logged EXCEPT ![p] = @ \cup {<<"block", b>>}]
    /\ UNCHANGED <<bitmap, dinode, inode, ilock, fd, file>>

\* either_copyin() fails.  What it has overwritten by then, and nobody logs, is
\* in BufferCache (WriteFails).
WriteFault(p) ==
    /\ At(p, "writei") /\ op[p].off < op[p].end /\ Missing(inode[Ip(p)], op[p].off) = {}
    /\ op' = [op EXCEPT ![p].pc = "wrote"]
    /\ UNCHANGED <<disk, inode, ilock, fd, file, logged>>

\* Mutant: the inode is written only if its size has changed.
MutGrow(p, i) ==
    /\ inode' = [inode EXCEPT ![i].size = IF op[p].off > @ THEN op[p].off ELSE @]
    /\ IF op[p].off > inode[i].size THEN Iupdate(i) ELSE UNCHANGED dinode

\* The end of writei(): the size, and iupdate() in any case.
Grow(p, i) ==
    /\ inode' = [inode EXCEPT ![i].size = IF op[p].off > @ THEN op[p].off ELSE @]
    /\ Iupdate(i)

\* The rest of the turn of filewrite(): f->off, iunlock(), end_op().
WriteEnd(p) ==
    LET i == Ip(p)  o == op[p]  r == o.off - file[fd[p]].off IN
    /\ At(p, "wrote") \/ (At(p, "writei") /\ o.off = o.end)
    /\ Grow(p, i)
    /\ logged' = [logged EXCEPT ![p] = @ \cup {<<"inode", i>>}]
    /\ file' = [file EXCEPT ![fd[p]].off = o.off]
    /\ op' = [op EXCEPT ![p] =
                 IF o.off # o.end \/ o.n = r THEN [Idle EXCEPT !.pc = "end_op"]
                 ELSE [Idle EXCEPT !.pc = "end_op", !.n = o.n - r]]
    /\ ilock' = [ilock EXCEPT ![i] = None]
    /\ UNCHANGED <<bitmap, block, fd>>

\* end_op(); filewrite() goes on if there is more.
EndOp(p) ==
    /\ At(p, "end_op")
    /\ op' = [op EXCEPT ![p].pc = IF op[p].n = 0 THEN "idle" ELSE "write"]
    /\ logged' = [logged EXCEPT ![p] = {}]
    /\ UNCHANGED <<disk, inode, ilock, fd, file>>

-----------------------------------------------------------------------------
(* fileread()                                                              *)

\* readi() under ip->lock, which changes nothing but f->off.  It is no call of
\* the log: bmap() must find every block (Written).  n is what the int of
\* read() becomes as a uint.  copyout() may fail.
Read(p) ==
    LET i == Ip(p)  f == fd[p]  off == file[f].off  size == inode[i].size IN
    /\ At(p, "idle") /\ f # None /\ ilock[i] = None
    /\ \E n \in Reads \cup {UINT - 1} :
          /\ off <= size /\ (off + n) % UINT >= off
          /\ file' = [file EXCEPT ![f].off = IF off + n > size THEN size ELSE off + n]
    /\ UNCHANGED <<disk, inode, ilock, fd, op, logged>>

-----------------------------------------------------------------------------
(* open(), fork() and the inode table                                      *)

\* sys_open() of i, with O_TRUNC or without, by a process that has closed what
\* it had.
Open(p) ==
    /\ At(p, "idle")
    /\ LET f == CHOOSE f \in OpenFile : \A q \in Proc \ {p} : fd[q] # f IN
       \E i \in Inum, trunc \in BOOLEAN :
          /\ ilock[i] = None
          /\ fd' = [fd EXCEPT ![p] = f]
          /\ file' = [file EXCEPT ![f] = [ip |-> i, off |-> 0]]
          /\ IF trunc
             THEN /\ op' = [op EXCEPT ![p] = [Idle EXCEPT !.pc = "itrunc"]]
                  /\ ilock' = [ilock EXCEPT ![i] = p]
             ELSE UNCHANGED <<op, ilock>>
    /\ UNCHANGED <<disk, inode, logged>>

\* itrunc() frees what is in the places from the first to the last, but the
\* block of numbers after the numbers in it.
Order(k) == IF k < NDIRECT THEN k ELSE IF k = NDIRECT THEN MAXFILE ELSE k - 1
Left(p)  == {k \in Place : Order(k) >= op[p].at /\ Addr(inode[Ip(p)], k) # 0}

TruncBlock(p) ==
    LET i == Ip(p) IN
    /\ At(p, "itrunc") /\ Left(p) # {}
    /\ LET k == CHOOSE k \in Left(p) : \A j \in Left(p) : Order(k) <= Order(j)
           b == Addr(inode[i], k) IN
       /\ bitmap' = bitmap \ {b} /\ block' = Given(b)
       /\ IF k <= NDIRECT THEN inode' = [inode EXCEPT ![i].addrs[k] = 0] ELSE UNCHANGED inode
       /\ op' = [op EXCEPT ![p].at = Order(k) + 1]
    /\ logged' = [logged EXCEPT ![p] = @ \cup {<<"bitmap">>}]
    /\ UNCHANGED <<dinode, ilock, fd, file>>

TruncEnd(p) ==
    LET i == Ip(p) IN
    /\ At(p, "itrunc") /\ Left(p) = {}
    /\ inode' = [inode EXCEPT ![i].size = 0] /\ Iupdate(i)
    /\ logged' = [logged EXCEPT ![p] = @ \cup {<<"inode", i>>}]
    /\ ilock' = [ilock EXCEPT ![i] = None]
    /\ op' = [op EXCEPT ![p] = [Idle EXCEPT !.pc = "end_op"]]
    /\ UNCHANGED <<bitmap, block, fd, file>>

\* A child has the open file of its parent.
Share(p, q) ==
    /\ At(p, "idle") /\ At(q, "idle") /\ fd[q] # None
    /\ fd' = [fd EXCEPT ![p] = fd[q]]
    /\ UNCHANGED <<disk, inode, ilock, file, op, logged>>

\* An inode that nobody has open leaves the table, and is read from the disk
\* when it comes back.
Recycle(i) ==
    /\ \A p \in Proc : fd[p] # None => Ip(p) # i
    /\ inode' = [inode EXCEPT ![i] = dinode[i]]
    /\ UNCHANGED <<disk, ilock, fd, file, op, logged>>

Init ==
    /\ bitmap = {} /\ block = [b \in Blk |-> Zeroed]
    /\ dinode = [i \in Inum |-> [size |-> 0, addrs |-> [k \in 0 .. NDIRECT |-> 0]]]
    /\ inode = dinode /\ ilock = [i \in Inum |-> None]
    /\ fd = [p \in Proc |-> None] /\ file = [f \in OpenFile |-> NoFile]
    /\ op = [p \in Proc |-> Idle] /\ logged = [p \in Proc |-> {}]

Next ==
    \/ \E p \in Proc : \/ WriteBegin(p) \/ WriteBmap(p) \/ WriteCopy(p)
                       \/ WriteFault(p) \/ WriteEnd(p) \/ EndOp(p)
                       \/ Read(p) \/ Open(p) \/ TruncBlock(p) \/ TruncEnd(p)
                       \/ \E q \in Proc : Share(p, q)
    \/ \E i \in Inum : Recycle(i)

Spec == Init /\ [][Next]_vars
-----------------------------------------------------------------------------
(* Properties.                                                             *)

TypeOK ==
    /\ bitmap \subseteq Blk /\ block \in [Blk -> [0 .. BSIZE - 1 -> 0 .. Old]]
    /\ {dinode, inode} \subseteq
          [Inum -> [size : 0 .. MAXFILE * BSIZE, addrs : [0 .. NDIRECT -> {0} \cup Blk]]]
    /\ ilock \in [Inum -> Proc \cup {None}]
    /\ fd \in [Proc -> OpenFile \cup {None}]
    /\ file \in [OpenFile -> [ip : Inum \cup {None}, off : 0 .. MAXFILE * BSIZE]]

\* What is on the disk is complete when no call has it in hand.
Settled == \A p \in Proc : op[p].pc \in {"idle", "write", "end_op"}

\* A block is in use if it is in one place of one inode, and free if in none.
Owned == \A b \in Blk :
    Cardinality({ik \in Inum \X Place : Addr(dinode[ik[1]], ik[2]) = b})
        = IF b \in bitmap THEN 1 ELSE 0

\* fs.c, iupdate(): "Must be called after every change to an ip->xxx field that
\* lives on disk": nothing changes when the inode is read again.
Updated == \A i \in Inum : ilock[i] = None => inode[i] = dinode[i]

\* Below the size of a file all is there, and was written since the file was
\* truncated: readi() never has to allocate a block, outside of any call of the
\* log, and nobody reads what was in another file.
Written == \A i \in Inum : ilock[i] = None => \A off \in 0 .. inode[i].size - 1 :
    /\ Missing(inode[i], off) = {}
    /\ block[Addr(inode[i], PlaceOf(off))][off % BSIZE] = Data

\* Files do not share blocks, lose them, or show what is not theirs; whatever
\* fails half way, at a full disk or a bad address.
FilesIntact == (Settled => Owned) /\ Updated /\ Written

\* file.c, "write a few blocks at a time to avoid exceeding the maximum log
\* transaction size": a call logs fewer blocks than begin_op() reserves, which is
\* what DiskLog needs (OpBlocks < MAXOPBLOCKS).
FitsLog == \A p \in Proc : Cardinality(logged[p]) < MAXOPBLOCKS
=============================================================================
