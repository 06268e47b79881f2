----------------------------- MODULE MCFileCalls -----------------------------
(***************************************************************************)
(* Instances of FileCalls, with the calls that the processes make, and of  *)
(* FileBlocks for TLC, in one run: the first step chooses one of them, and *)
(* the other stays as it is.                                               *)
(***************************************************************************)
EXTENDS FileCalls, TLC

CONSTANTS
    p1, p2, i1, i2, i3, f1, f2, d1, d2,
    Regular, NBLOCK, BSIZE, NDIRECT, MAXOPBLOCKS, UINT, Reads, Writes   \* FileBlocks

VARIABLES
    on,                                                             \* which one runs
    bitmap, block, dinode, copy, ilock, fd, file, op, logged        \* FileBlocks

Blocks == INSTANCE FileBlocks WITH Inum <- Regular, inode <- copy

ASSUME InstanceConstants == Blocks!FileBlocksConstants

blocks == <<bitmap, block, dinode, copy, ilock, fd, file, op, logged>>

InitBoth == on \in {"calls", "blocks"} /\ Init /\ Blocks!Init

NextBoth ==
    /\ UNCHANGED on
    /\ \/ on = "calls"  /\ Next /\ UNCHANGED blocks
       \/ on = "blocks" /\ Blocks!Next /\ UNCHANGED vars

SpecBoth == InitBoth /\ [][NextBoth]_<<on, vars, blocks>>

FilesIntact == Blocks!FilesIntact
FitsLog     == Blocks!FitsLog

Abs(s) == [abs |-> TRUE, elems |-> s]
Rel(s) == [abs |-> FALSE, elems |-> s]
Do(o, path)     == [op |-> o, path |-> path, new |-> path]
Link2(old, new) == [op |-> "link", path |-> old, new |-> new]

A  == Abs(<<"a">>)
AB == Abs(<<"a", "b">>)
B  == Abs(<<"b">>)
Up1 == Rel(<<"..">>)

ManyCalls ==
    p1 :> {Do("mkdir", A), Do("chdir", A), Do("chdir", Up1), Do("unlink", A), Do("unlink", Up1),
           Do("open", A)}
    @@ p2 :> {Do("create", AB), Do("unlink", AB), Do("mkdir", AB), Link2(AB, B),
              Do("unlink", B), Link2(A, AB)}

\* A directory is freed while its inode is taken for a file.
LeakCalls == p1 :> {Do("mkdir", A), Do("chdir", A), Do("unlink", A)} @@ p2 :> {Do("create", B)}

\* The current directory, and then its parent, are removed.
RemoveCalls ==
    p1 :> {Do("mkdir", A), Do("mkdir", AB), Do("chdir", AB), Do("unlink", AB), Do("unlink", A),
           Do("chdir", Up1)}
    @@ p2 :> {Do("open", A)}

\* What is left in an entry that is free is written anew before it is read, but
\* for the type of a struct file, which a failed open() reads (Filealloc).
CallsView == <<inode, [i \in Inum |-> IF itable[i].ref > 0 THEN itable[i] ELSE NoEntry],
               [f \in File |-> IF ftable[f].ref > 0 \/ ftable[f].type # NoFile.type
                             THEN ftable[f] ELSE NoFile],
               ofile, cwd, call, orphans, missed, panicked>>

\* No operation looks at the number of a block, so a block is its place; and
\* what is in it beyond the end of the file is written anew before it is read.
Reach(i) == IF ilock[i] # None /\ op[ilock[i]].off > copy[i].size THEN op[ilock[i]].off
                                                                 ELSE copy[i].size
Units(i, k) ==
    LET b == Blocks!Addr(copy[i], k)
        first == BSIZE * (IF k > NDIRECT THEN k - 1 ELSE k) IN
    IF b = 0 \/ k = NDIRECT THEN {}
    ELSE {<<j, block[b][j]>> : j \in {j \in 0 .. BSIZE - 1 : first + j < Reach(i)}}
BlocksView ==
    <<[i \in Regular |->
          <<copy[i].size, dinode[i].size, [k \in Blocks!Place |-> Blocks!Addr(copy[i], k) = 0],
            [k \in 0 .. NDIRECT |-> dinode[i].addrs[k] = copy[i].addrs[k]],
            [k \in 0 .. NDIRECT |-> dinode[i].addrs[k] = 0], [k \in Blocks!Place |-> Units(i, k)]>>],
      Cardinality(bitmap), ilock, fd,
      [f \in Proc |-> IF \E p \in Proc : fd[p] = f THEN file[f] ELSE Blocks!NoFile], op,
      [p \in Proc |-> IF logged[p] = {} THEN <<>>
                      ELSE <<Cardinality(logged[p]), <<"bitmap">> \in logged[p],
                             [k \in Blocks!Place |-> <<"block", Blocks!Addr(copy[Blocks!Ip(p)], k)>>
                                                   \in logged[p]]>>]>>

View == IF on = "calls" THEN <<on, CallsView>> ELSE <<on, BlocksView>>

Symmetry == Permutations(Inum \ {ROOTINO}) \cup Permutations(File) \cup Permutations(Fd)
=============================================================================
