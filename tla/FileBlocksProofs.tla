-------------------------- MODULE FileBlocksProofs --------------------------
(***************************************************************************)
(* Proofs about FileBlocks, as MCFileCalls has it: for any number of       *)
(* processes, files and blocks, any size of a block and any number of      *)
(* direct addresses, and any reads, writes and truncations.                *)
(*                                                                         *)
(* The inductive invariant says whose every block in the bitmap is while   *)
(* calls are under way: it is in exactly one place of one inode, but for   *)
(* the places that an itrunc() has gone past.  What writei() has written   *)
(* is there up to where it has come, which may be beyond the size; and     *)
(* what a call has logged are blocks of the places that its range touches, *)
(* of which filewrite()'s chunk bounds the number.                         *)
(***************************************************************************)
EXTENDS MCFileCalls, Integers, FiniteSetTheorems, WellFoundedInduction, TLAPS

\* As many blocks as filewrite() asks writei() for at once.
ChunkBlocks == (MAXOPBLOCKS - 1 - 1 - 2) \div 2

InodeType == [size : 0 .. Blocks!MAXFILE * BSIZE, addrs : [0 .. NDIRECT -> {0} \cup Blocks!Blk]]
FileType  == [ip : Regular \cup {None}, off : 0 .. Blocks!MAXFILE * BSIZE]
OpType    == [pc : {"idle", "writei", "wrote", "end_op", "write", "itrunc"},
              n : Nat, off : Nat, end : Nat, at : Nat]
UnitType  == [0 .. BSIZE - 1 -> 0 .. Blocks!Old]

Typed ==
    /\ bitmap \in SUBSET Blocks!Blk /\ block \in [Blocks!Blk -> UnitType]
    /\ dinode \in [Regular -> InodeType] /\ copy \in [Regular -> InodeType]
    /\ ilock \in [Regular -> Proc \cup {None}] /\ fd \in [Proc -> Blocks!OpenFile \cup {None}]
    /\ file \in [Blocks!OpenFile -> FileType] /\ op \in [Proc -> OpType]
    /\ logged \in [Proc -> SUBSET ({<<"bitmap">>} \cup {<<"block", b>> : b \in Blocks!Blk}
                                       \cup {<<"inode", i>> : i \in Regular})]

\* In writei() and in itrunc(), and what they have of the inode.
Writing(p) == op[p].pc \in {"writei", "wrote"}
Busy(p)    == Writing(p) \/ Blocks!At(p, "itrunc")

FileOf(p) ==
    /\ ~ Blocks!At(p, "idle") => fd[p] # None
    /\ fd[p] # None => Blocks!Ip(p) \in Regular
LockOf(p)   == Busy(p) => ilock[Blocks!Ip(p)] = p
HolderOf(i) == ilock[i] # None => Busy(ilock[i]) /\ Blocks!Ip(ilock[i]) = i

\* The local variables of a call.
OpShape(p) ==
    /\ Writing(p) =>
          /\ file[fd[p]].off <= op[p].off /\ op[p].off <= op[p].end /\ op[p].end <= Blocks!MAXFILE * BSIZE
          /\ op[p].end <= file[fd[p]].off + ChunkBlocks * BSIZE
          /\ op[p].end <= file[fd[p]].off + op[p].n
          /\ file[fd[p]].off <= copy[Blocks!Ip(p)].size
    /\ Blocks!At(p, "itrunc") =>
          /\ op[p].off = 0
          /\ \A k \in 0 .. NDIRECT : Blocks!Order(k) < op[p].at => copy[Blocks!Ip(p)].addrs[k] = 0

\* The number in the place k of i; the places which itrunc() has gone past.
Num(i, k)  == Blocks!Addr(copy[i], k)
Cut(i)     == ilock[i] # None /\ Blocks!At(ilock[i], "itrunc")
CutOff(i, k) == Cut(i) /\ Blocks!Order(k) < op[ilock[i]].at
Held(i)    == {k \in Blocks!Place : Num(i, k) # 0 /\ ~ CutOff(i, k)}

Numbers  == \A i \in Regular : \A k \in Blocks!Place : Num(i, k) \in {0} \cup Blocks!Blk
InUse    == \A i \in Regular : \A k \in Held(i) : Num(i, k) \in bitmap
Sole     == \A i, j \in Regular : \A k \in Held(i), l \in Held(j) :
                Num(i, k) = Num(j, l) => i = j /\ k = l
NoneLost == \A b \in bitmap : \E i \in Regular : \E k \in Held(i) : Num(i, k) = b
Owners   == Numbers /\ InUse /\ Sole /\ NoneLost

\* The units that have been written, of a file that is not being truncated.
Reached(i, x) == x < copy[i].size \/ (ilock[i] # None /\ x < op[ilock[i]].off)
Filled(i) == ~ Cut(i) => \A x \in 0 .. Blocks!MAXFILE * BSIZE - 1 : Reached(i, x) =>
    /\ Blocks!Missing(copy[i], x) = {}
    /\ block[Num(i, Blocks!PlaceOf(x))][x % BSIZE] = Blocks!Data

\* The places that a turn of filewrite() may log the block of.
Touched(p) == {NDIRECT} \cup {Blocks!PlaceOf(x) : x \in file[fd[p]].off .. op[p].end - 1}
LogOf(p) ==
    /\ op[p].pc \in {"idle", "write"} => logged[p] = {}
    /\ Blocks!At(p, "itrunc") => logged[p] \subseteq {<<"bitmap">>}
    /\ Writing(p) => \A e \in logged[p] : e = <<"bitmap">> \/ \E k \in Touched(p) :
          Num(Blocks!Ip(p), k) # 0 /\ e = <<"block", Num(Blocks!Ip(p), k)>>
    /\ Blocks!At(p, "end_op") => IsFiniteSet(logged[p]) /\ Cardinality(logged[p]) < MAXOPBLOCKS

\* The inductive invariant.
CallsOK == \A p \in Proc : FileOf(p) /\ LockOf(p) /\ OpShape(p) /\ LogOf(p)
Files == \A i \in Regular : HolderOf(i) /\ Filled(i)
BlocksInv  == Typed /\ CallsOK /\ Files /\ Owners /\ Blocks!Updated

-----------------------------------------------------------------------------
(* Numbers and places.                                                     *)

\* FileBlocks has these of FiniteSets.
LEMMA SameFinite == ASSUME NEW S PROVE Blocks!IsFiniteSet(S) <=> IsFiniteSet(S)
  BY DEF Blocks!IsFiniteSet, IsFiniteSet

LEMMA SameCount == ASSUME NEW S PROVE Blocks!Cardinality(S) = Cardinality(S)
  BY DEF Blocks!Cardinality, Cardinality

LEMMA Sizes ==
    /\ NBLOCK \in Nat \ {0} /\ BSIZE \in Nat \ {0} /\ NDIRECT \in Nat \ {0}
    /\ MAXOPBLOCKS \in Nat /\ MAXOPBLOCKS >= 6 /\ Blocks!MAXFILE \in Nat /\ Blocks!NINDIRECT = BSIZE
    /\ Blocks!MAXFILE = NDIRECT + BSIZE /\ Blocks!MAXFILE * BSIZE \in Nat
    /\ Reads \subseteq Nat \ {0} /\ Writes \subseteq Nat \ {0} /\ UINT \in Nat \ {0}
    /\ None \notin Proc /\ IsFiniteSet(Proc)
<1>1. /\ NBLOCK \in Nat \ {0} /\ BSIZE \in Nat \ {0} /\ NDIRECT \in Nat \ {0}
      /\ MAXOPBLOCKS \in Nat /\ MAXOPBLOCKS >= 6 /\ Blocks!NINDIRECT = BSIZE
      /\ Reads \subseteq Nat \ {0} /\ Writes \subseteq Nat \ {0} /\ UINT \in Nat
      /\ None \notin Proc /\ IsFiniteSet(Proc)
  BY InstanceConstants, SameFinite DEF Blocks!FileBlocksConstants, Blocks!NINDIRECT
<1>2. Blocks!MAXFILE = NDIRECT + BSIZE /\ Blocks!MAXFILE \in Nat
  BY <1>1 DEF Blocks!MAXFILE
<1>3. Blocks!MAXFILE * BSIZE \in Nat
  BY <1>1, <1>2
<1>4. UINT > 0
  <2>1. UINT > 2 * (NDIRECT + BSIZE) * BSIZE
    BY InstanceConstants DEF Blocks!FileBlocksConstants
  <2>2. 2 * (NDIRECT + BSIZE) * BSIZE \in Nat
    BY <1>1
  <2> QED BY <1>1, <2>1, <2>2
<1> QED BY <1>1, <1>2, <1>3, <1>4

LEMMA ChunkSize == ChunkBlocks \in Nat /\ ChunkBlocks + 4 < MAXOPBLOCKS
  BY Sizes DEF ChunkBlocks

LEMMA Division ==
    ASSUME NEW a \in Nat, NEW b \in Nat \ {0}
    PROVE  a = b * (a \div b) + (a % b) /\ a % b \in 0 .. b - 1 /\ a \div b \in Nat
  OBVIOUS

LEMMA Product == ASSUME NEW a \in Nat, NEW b \in Nat PROVE a * b \in Nat
  OBVIOUS

LEMMA Times == ASSUME NEW a \in Nat, NEW b \in Nat, NEW c \in Nat, a <= b PROVE c * a <= c * b
  OBVIOUS

LEMMA DivGrows ==
    ASSUME NEW a \in Nat, NEW b \in Nat, a <= b, NEW c \in Nat \ {0}
    PROVE  a \div c <= b \div c
<1>1. PICK q \in Nat, r \in 0 .. c - 1 : q = a \div c /\ a = c * q + r
  BY Division
<1>2. PICK q2 \in Nat, r2 \in 0 .. c - 1 : q2 = b \div c /\ b = c * q2 + r2
  BY Division
<1>3. SUFFICES ASSUME q >= q2 + 1 PROVE FALSE
  BY <1>1, <1>2
<1>4. c * (q2 + 1) <= c * q
  BY <1>3, Times
<1>5. c * (q2 + 1) = c * q2 + c
  OBVIOUS
<1>6. PICK d \in Nat, e \in Nat : d = c * q /\ e = c * q2
  BY Product
<1> QED BY ONLY <1>1, <1>2, <1>4, <1>5, <1>6, a \in Nat, b \in Nat, a <= b, c \in Nat \ {0}

\* Two units that are near each other are in one block.
LEMMA SameBlock ==
    ASSUME NEW o \in Nat, NEW x \in Nat, o <= x, NEW r, r = o % BSIZE, r + (x - o) < BSIZE
    PROVE  x \div BSIZE = o \div BSIZE /\ x % BSIZE = r + (x - o)
<1>1. PICK n \in Nat \ {0} : n = BSIZE
  BY Sizes
<1>2. PICK q \in Nat, c \in 0 .. n - 1 : q = o \div n /\ c = r /\ o = n * q + c
  <2>1. o = n * (o \div n) + (o % n) /\ o % n \in 0 .. n - 1 /\ o \div n \in Nat
    BY Division
  <2> QED BY <1>1, <2>1
<1>3. PICK d \in 0 .. n - 1 : d = c + (x - o)
  BY <1>1, <1>2
<1>4. x = n * q + d
  <2>1. PICK e \in Nat : e = n * q
    BY Product
  <2> QED BY ONLY <1>2, <1>3, <2>1, o \in Nat, x \in Nat, n \in Nat \ {0}
<1>5. x \div n = q /\ x % n = d
  <2>1. PICK q2 \in Nat, e0 \in 0 .. n - 1 : q2 = x \div n /\ e0 = x % n /\ x = n * q2 + e0
    <3>1. x = n * (x \div n) + (x % n) /\ x % n \in 0 .. n - 1 /\ x \div n \in Nat
      BY Division
    <3> QED BY <3>1
  <2>2. PICK e \in Nat, e2 \in Nat : e = n * q /\ e2 = n * q2
    BY Product
  <2>3. ASSUME q + 1 <= q2 PROVE FALSE
    <3>1. n * (q + 1) <= n * q2 /\ n * (q + 1) = n * q + n
      BY <2>3, Times
    <3> QED BY ONLY <1>4, <2>1, <2>2, <3>1, n \in Nat \ {0}, x \in Nat, d \in 0 .. n - 1
  <2>4. ASSUME q2 + 1 <= q PROVE FALSE
    <3>1. n * (q2 + 1) <= n * q /\ n * (q2 + 1) = n * q2 + n
      BY <2>4, Times
    <3> QED BY ONLY <1>4, <2>1, <2>2, <3>1, n \in Nat \ {0}, x \in Nat, d \in 0 .. n - 1
  <2>5. q = q2
    BY <2>3, <2>4
  <2> QED BY <1>4, <2>1, <2>2, <2>5
<1> QED BY <1>1, <1>2, <1>3, <1>5

\* A unit of a file is in one of its blocks, which is not the block of numbers.
LEMMA PlaceIn ==
    ASSUME NEW x \in 0 .. Blocks!MAXFILE * BSIZE - 1
    PROVE  Blocks!PlaceOf(x) \in Blocks!Place /\ Blocks!PlaceOf(x) # NDIRECT /\ x % BSIZE \in 0 .. BSIZE - 1
<1>1. x \in Nat /\ x < Blocks!MAXFILE * BSIZE
  BY Sizes
<1>2. x = BSIZE * (x \div BSIZE) + (x % BSIZE) /\ x % BSIZE \in 0 .. BSIZE - 1 /\ x \div BSIZE \in Nat
  BY <1>1, Sizes, Division
<1>3. x \div BSIZE < Blocks!MAXFILE
  <2>1. SUFFICES ASSUME x \div BSIZE >= Blocks!MAXFILE PROVE FALSE
    BY <1>2, Sizes
  <2>2. PICK q \in Nat : q = x \div BSIZE
    BY <1>2
  <2>3. BSIZE * Blocks!MAXFILE <= BSIZE * q
    BY <2>1, <2>2, Sizes, Times
  <2>4. BSIZE * q <= x
    BY <1>1, <1>2, <2>2, Sizes
  <2>5. BSIZE * Blocks!MAXFILE = Blocks!MAXFILE * BSIZE
    BY Sizes
  <2> QED BY <1>1, <2>3, <2>4, <2>5, Sizes
<1> QED BY <1>2, <1>3, Sizes DEF Blocks!PlaceOf, Blocks!Place

LEMMA Orders ==
    /\ \A k \in Blocks!Place : Blocks!Order(k) \in 0 .. Blocks!MAXFILE /\ (Blocks!Order(k) = Blocks!MAXFILE <=> k = NDIRECT)
    /\ \A k, l \in Blocks!Place : Blocks!Order(k) = Blocks!Order(l) => k = l
    /\ NDIRECT \in Blocks!Place /\ 0 .. NDIRECT \subseteq Blocks!Place
    /\ \A k \in Blocks!Place : k > NDIRECT => k - NDIRECT - 1 \in 0 .. BSIZE - 1
  BY Sizes DEF Blocks!Order, Blocks!Place

\* The order by which least numbers are found.
Less == {ss \in Nat \X Nat : ss[1] < ss[2]}
LEMMA Least == ASSUME NEW S \in SUBSET Nat, S # {} PROVE \E a \in S : \A b \in S : a <= b
<1>1. IsWellFoundedOn(Less, Nat)
  BY NatLessThanWellFounded DEF OpToRel, Less
<1>2. PICK a \in S : \A b \in S : ~ (<<b, a>> \in Less)
  BY <1>1, WFMin
<1>3. ASSUME NEW b \in S PROVE a <= b
  <2>1. a \in Nat /\ b \in Nat /\ ~ (b < a)
    BY <1>2 DEF Less
  <2> QED BY <2>1
<1> QED BY <1>3

-----------------------------------------------------------------------------
(* What the invariant says of an inode and of who has it locked.           *)

\* Nobody else is in the middle of a call on the same inode.
LEMMA Alone ==
    ASSUME BlocksInv, NEW p \in Proc, Busy(p)
    PROVE  /\ fd[p] # None /\ fd[p] \in Blocks!OpenFile /\ Blocks!Ip(p) \in Regular /\ ilock[Blocks!Ip(p)] = p
           /\ \A i \in Regular : i # Blocks!Ip(p) => ilock[i] # p
<1>1. FileOf(p) /\ LockOf(p) /\ op[p] \in OpType /\ fd[p] \in Blocks!OpenFile \cup {None}
  BY DEF BlocksInv, CallsOK, Typed
<1>2. fd[p] # None
  BY <1>1 DEF FileOf, Busy, Writing, Blocks!At
<1>3. \A i \in Regular : ilock[i] = p => Blocks!Ip(p) = i
  BY Sizes DEF BlocksInv, Files, HolderOf
<1> QED BY <1>1, <1>2, <1>3 DEF FileOf, LockOf

\* A process that is not in the middle of a call holds no lock.
LEMMA NoLock == ASSUME BlocksInv, NEW p \in Proc, ~ Busy(p) PROVE \A i \in Regular : ilock[i] # p
  BY Sizes DEF BlocksInv, Files, HolderOf

LEMMA NumOf ==
    ASSUME NEW i, NEW k \in Blocks!Place
    PROVE  /\ k <= NDIRECT => Num(i, k) = copy[i].addrs[k]
           /\ k > NDIRECT /\ Blocks!Table(copy[i]) = 0 => Num(i, k) = 0
           /\ k > NDIRECT /\ Blocks!Table(copy[i]) # 0 =>
                  Num(i, k) = block[Blocks!Table(copy[i])][k - NDIRECT - 1]
           /\ Num(i, NDIRECT) = Blocks!Table(copy[i])
  BY Sizes DEF Num, Blocks!Addr, Blocks!Table, Blocks!Place

\* The block of numbers is there as long as the numbers are.
LEMMA TableHeld ==
    ASSUME BlocksInv, NEW i \in Regular, Blocks!Table(copy[i]) # 0
    PROVE  NDIRECT \in Held(i) /\ Num(i, NDIRECT) = Blocks!Table(copy[i]) /\ Blocks!Table(copy[i]) \in Blocks!Blk
<1>1. Num(i, NDIRECT) = Blocks!Table(copy[i]) /\ NDIRECT \in Blocks!Place
  BY NumOf, Orders
<1>2. Blocks!Table(copy[i]) \in Blocks!Blk
  BY <1>1 DEF BlocksInv, Owners, Numbers
<1>3. ~ CutOff(i, NDIRECT)
  <2>1. SUFFICES ASSUME CutOff(i, NDIRECT) PROVE FALSE
    OBVIOUS
  <2>2. PICK p \in Proc : p = ilock[i] /\ Blocks!At(p, "itrunc") /\ Blocks!Order(NDIRECT) < op[p].at
    BY <2>1, Sizes DEF CutOff, Cut, BlocksInv, Typed
  <2>3. Blocks!Ip(p) = i /\ OpShape(p)
    BY <2>2, Sizes DEF BlocksInv, Files, HolderOf, CallsOK
  <2>4. copy[i].addrs[NDIRECT] = 0
    BY <2>2, <2>3, Sizes DEF OpShape
  <2> QED BY <2>4 DEF Blocks!Table
<1> QED BY <1>1, <1>2, <1>3 DEF Held

\* Blocks of numbers are shared neither with other inodes nor with data.
LEMMA TablesApart ==
    ASSUME BlocksInv, NEW i \in Regular, Blocks!Table(copy[i]) # 0, NEW j \in Regular, NEW k \in Held(j),
           j # i \/ k # NDIRECT
    PROVE  Num(j, k) # Blocks!Table(copy[i])
  BY TableHeld DEF BlocksInv, Owners, Sole

\* Unlocked, or locked by a writer, an inode has all that its numbers say.
LEMMA Whole ==
    ASSUME NEW i \in Regular, ~ Cut(i)
    PROVE  \A k \in Blocks!Place : k \in Held(i) <=> Num(i, k) # 0
  BY DEF Held, CutOff

\* What a turn of filewrite() may log the block of, is a place.
LEMMA TouchedIn ==
    ASSUME BlocksInv, NEW p \in Proc, Writing(p)
    PROVE  Touched(p) \subseteq Blocks!Place
<1>1. fd[p] \in Blocks!OpenFile /\ OpShape(p) /\ op[p] \in OpType /\ file[fd[p]] \in FileType
  <2>1. fd[p] \in Blocks!OpenFile
    BY Alone DEF Busy
  <2> QED BY <2>1 DEF BlocksInv, CallsOK, Typed
<1>2. ASSUME NEW x \in file[fd[p]].off .. op[p].end - 1 PROVE x \in 0 .. Blocks!MAXFILE * BSIZE - 1
  <2>1. PICK a \in Nat, b \in Nat : a = file[fd[p]].off /\ b = op[p].end /\ b <= Blocks!MAXFILE * BSIZE
    BY <1>1, Sizes DEF OpShape, OpType, FileType
  <2> QED BY <2>1, Sizes
<1>3. NDIRECT \in Blocks!Place
  BY Orders
<1> QED BY <1>2, <1>3, PlaceIn DEF Touched

-----------------------------------------------------------------------------
(* What a step leaves as it was.                                           *)

\* A step of p is not seen by the calls of others.
Others(p) == \A q \in Proc \ {p} :
    /\ op'[q] = op[q] /\ logged'[q] = logged[q] /\ fd'[q] = fd[q]
    /\ fd[q] # None => file'[fd[q]].ip = file[fd[q]].ip
    /\ Busy(q) => file'[fd[q]] = file[fd[q]]

\* An inode which nobody but p has a part in, or which is as it was.
Stays(i) ==
    /\ copy'[i] = copy[i] /\ ilock'[i] = ilock[i]
    /\ ilock[i] # None => op'[ilock[i]] = op[ilock[i]]
    /\ \A k \in Held(i) : Num(i, k)' = Num(i, k)

LEMMA OthersKept ==
    ASSUME BlocksInv, NEW p \in Proc, Others(p), \A i \in Regular : ilock[i] \notin {p, None} => Stays(i),
           NEW q \in Proc, q # p
    PROVE  FileOf(q)' /\ LockOf(q)' /\ OpShape(q)' /\ LogOf(q)'
<1>1. /\ op'[q] = op[q] /\ logged'[q] = logged[q] /\ fd'[q] = fd[q]
      /\ fd[q] # None => file'[fd[q]].ip = file[fd[q]].ip
      /\ Busy(q) => file'[fd[q]] = file[fd[q]]
  BY DEF Others
<1>2. FileOf(q) /\ LockOf(q) /\ OpShape(q) /\ LogOf(q)
  BY DEF BlocksInv, CallsOK
<1>3. FileOf(q)'
  BY <1>1, <1>2 DEF FileOf, Blocks!Ip, Blocks!At
<1>4. Busy(q)' <=> Busy(q)
  BY <1>1 DEF Busy, Writing, Blocks!At
<1>5. CASE ~ Busy(q)
  <2>1. LockOf(q)' /\ OpShape(q)'
    BY <1>4, <1>5 DEF LockOf, OpShape, Busy, Writing
  <2>2. LogOf(q)'
    BY <1>1, <1>2, <1>4, <1>5 DEF LogOf, Busy, Writing, Blocks!At
  <2> QED BY <1>3, <2>1, <2>2
<1>6. CASE Busy(q)
  <2>1. PICK i \in Regular : i = Blocks!Ip(q) /\ ilock[i] = q
    BY <1>6, Alone
  <2>2. Stays(i) /\ fd[q] # None
    BY <1>6, <2>1, Alone, Sizes
  <2>3. Blocks!Ip(q)' = i
    BY <1>1, <2>1, <2>2 DEF Blocks!Ip
  <2>4. LockOf(q)'
    BY <2>1, <2>2, <2>3 DEF LockOf, Stays
  <2>5. OpShape(q)'
    BY <1>1, <1>2, <1>6, <2>1, <2>2, <2>3 DEF OpShape, Stays, Writing, Blocks!At, Blocks!Order
  <2>6. LogOf(q)'
    <3>1. CASE Blocks!At(q, "itrunc")
      BY <1>1, <1>2, <3>1 DEF LogOf, Blocks!At, Writing
    <3>2. CASE Writing(q)
      <4>1. Touched(q)' = Touched(q)
        BY <1>1, <1>6 DEF Touched, Blocks!PlaceOf
      <4>2. ASSUME NEW e \in logged[q]
            PROVE  e = <<"bitmap">> \/ \E k \in Touched(q) : Num(i, k)' # 0 /\ e = <<"block", Num(i, k)'>>
        <5>1. CASE e = <<"bitmap">>
          BY <5>1
        <5>2. CASE e # <<"bitmap">>
          <6>1. PICK k \in Touched(q) : Num(i, k) # 0 /\ e = <<"block", Num(i, k)>>
            BY <1>2, <2>1, <3>2, <5>2 DEF LogOf
          <6>2. k \in Blocks!Place
            BY <1>2, <1>6, <3>2, <6>1, TouchedIn
          <6>3. ~ Cut(i)
            BY <2>1, <3>2 DEF Cut, Writing, Blocks!At
          <6>4. Num(i, k)' = Num(i, k)
            BY <2>2, <6>1, <6>2, <6>3, Whole DEF Stays
          <6> QED BY <6>1, <6>4
        <5> QED BY <5>1, <5>2
      <4>3. op'[q].pc \in {"writei", "wrote"} /\ logged'[q] = logged[q]
        BY <1>1, <3>2 DEF Writing
      <4> QED BY <2>3, <4>1, <4>2, <4>3 DEF LogOf, Blocks!At
    <3> QED BY <1>6, <3>1, <3>2 DEF Busy
  <2> QED BY <1>3, <2>4, <2>5, <2>6
<1> QED BY <1>5, <1>6

\* The next holder of the lock of an inode that p has no part in.
LEMMA StaysHeld ==
    ASSUME BlocksInv, NEW p \in Proc, Others(p), NEW i \in Regular, Stays(i), ilock[i] # p
    PROVE  HolderOf(i)' /\ (Cut(i)' <=> Cut(i)) /\ \A k : CutOff(i, k)' <=> CutOff(i, k)
<1>1. CASE ilock[i] = None
  BY <1>1 DEF Stays, HolderOf, Cut, CutOff
<1>2. CASE ilock[i] # None
  <2>1. PICK q \in Proc : q = ilock[i] /\ q # p
    BY <1>2 DEF BlocksInv, Typed
  <2>2. Busy(q) /\ Blocks!Ip(q) = i /\ fd[q] # None
    BY <2>1, Sizes, Alone DEF BlocksInv, Files, HolderOf
  <2>3. /\ op'[q] = op[q] /\ fd'[q] = fd[q] /\ file'[fd[q]].ip = file[fd[q]].ip
        /\ ilock'[i] = q
    BY <2>1, <2>2 DEF Others, Stays
  <2>4. HolderOf(i)'
    BY <2>2, <2>3 DEF HolderOf, Busy, Writing, Blocks!At, Blocks!Ip
  <2>5. Cut(i)' <=> Cut(i)
    BY <2>1, <2>3 DEF Cut, Blocks!At
  <2>6. ASSUME NEW k PROVE CutOff(i, k)' <=> CutOff(i, k)
    BY <2>1, <2>3, <2>5 DEF CutOff, Blocks!Order
  <2> QED BY <2>4, <2>5, <2>6
<1> QED BY <1>1, <1>2

LEMMA HeldStays ==
    ASSUME BlocksInv, NEW p \in Proc, Others(p), NEW i \in Regular, Stays(i), ilock[i] # p,
           \A k \in Blocks!Place : Num(i, k)' = Num(i, k)
    PROVE  Held(i)' = Held(i)
  BY StaysHeld DEF Held, Blocks!Place, Blocks!NINDIRECT

LEMMA OwnersStay ==
    ASSUME Owners, bitmap' = bitmap, \A i \in Regular : \A k \in Blocks!Place : Num(i, k)' = Num(i, k),
           \A i \in Regular : Held(i)' = Held(i)
    PROVE  Owners'
<1>0. ASSUME NEW i \in Regular, NEW k \in Held(i) PROVE k \in Blocks!Place
  BY DEF Held
<1>1. Numbers'
  BY DEF Owners, Numbers, Blocks!Blk, Blocks!Place, Blocks!NINDIRECT
<1>2. InUse'
  BY <1>0 DEF Owners, InUse
<1>3. Sole'
  BY <1>0 DEF Owners, Sole
<1>4. NoneLost'
  BY <1>0 DEF Owners, NoneLost
<1> QED BY <1>1, <1>2, <1>3, <1>4 DEF Owners

LEMMA MissingOf ==
    ASSUME NEW i, NEW x
    PROVE  Blocks!Missing(copy[i], x) = {} <=>
               Num(i, Blocks!PlaceOf(x)) # 0 /\ (Blocks!PlaceOf(x) > NDIRECT => Num(i, NDIRECT) # 0)
  BY DEF Blocks!Missing, Num

\* What has been written of an inode is still there, if its numbers are, and its data.
LEMMA FilledGrows ==
    ASSUME NEW i \in Regular, Filled(i), ~ Cut(i),
           \A k \in Blocks!Place : Num(i, k) # 0 =>
               /\ Num(i, k)' = Num(i, k)
               /\ k # NDIRECT => \A u \in 0 .. BSIZE - 1 :
                      block[Num(i, k)][u] = Blocks!Data => block'[Num(i, k)][u] = Blocks!Data,
           \A x \in 0 .. Blocks!MAXFILE * BSIZE - 1 : Reached(i, x)' =>
               \/ Reached(i, x)
               \/ Blocks!Missing(copy[i], x) = {} /\ block'[Num(i, Blocks!PlaceOf(x))][x % BSIZE] = Blocks!Data
    PROVE  Filled(i)'
<1>1. SUFFICES ASSUME NEW x \in 0 .. Blocks!MAXFILE * BSIZE - 1, Reached(i, x)'
               PROVE  Blocks!Missing(copy[i], x)' = {} /\ block'[Num(i, Blocks!PlaceOf(x))'][x % BSIZE] = Blocks!Data
  BY DEF Filled, Blocks!Data, Blocks!MAXFILE, Blocks!NINDIRECT, Blocks!PlaceOf
<1>2. Blocks!PlaceOf(x) \in Blocks!Place /\ Blocks!PlaceOf(x) # NDIRECT /\ x % BSIZE \in 0 .. BSIZE - 1 /\ NDIRECT \in Blocks!Place
  BY PlaceIn, Orders
<1>3. Blocks!Missing(copy[i], x) = {}
  BY <1>1 DEF Filled
<1>4. Num(i, Blocks!PlaceOf(x)) # 0 /\ (Blocks!PlaceOf(x) > NDIRECT => Num(i, NDIRECT) # 0)
  BY <1>3, MissingOf
<1>5. block'[Num(i, Blocks!PlaceOf(x))][x % BSIZE] = Blocks!Data
  BY <1>1, <1>2, <1>4 DEF Filled
<1>6. Num(i, Blocks!PlaceOf(x))' = Num(i, Blocks!PlaceOf(x)) /\ (Blocks!PlaceOf(x) > NDIRECT => Num(i, NDIRECT)' = Num(i, NDIRECT))
  BY <1>2, <1>4
<1>7. Blocks!Missing(copy[i], x)' = {} <=>
          Num(i, Blocks!PlaceOf(x))' # 0 /\ (Blocks!PlaceOf(x) > NDIRECT => Num(i, NDIRECT)' # 0)
  BY DEF Blocks!Missing, Num, Blocks!PlaceOf
<1> QED BY <1>4, <1>5, <1>6, <1>7

LEMMA FilledStays ==
    ASSUME NEW i \in Regular, Filled(i), ~ Cut(i), \A x \in Nat : Reached(i, x)' => Reached(i, x),
           \A k \in Blocks!Place : Num(i, k) # 0 =>
               /\ Num(i, k)' = Num(i, k)
               /\ k # NDIRECT => \A u \in 0 .. BSIZE - 1 :
                      block[Num(i, k)][u] = Blocks!Data => block'[Num(i, k)][u] = Blocks!Data
    PROVE  Filled(i)'
<1>1. 0 .. Blocks!MAXFILE * BSIZE - 1 \subseteq Nat
  BY Sizes
<1> QED BY <1>1, FilledGrows

LEMMA ReachedStays ==
    ASSUME BlocksInv, NEW p \in Proc, Others(p), NEW i \in Regular, Stays(i), ilock[i] # p
    PROVE  \A x : Reached(i, x)' <=> Reached(i, x)
  BY DEF Reached, Stays

LEMMA CutStays ==
    ASSUME NEW i \in Regular, Cut(i)' PROVE Filled(i)'
  BY DEF Filled

\* A step of p that leaves the disk and the inodes as they are.
LEMMA QuietKeeps ==
    ASSUME BlocksInv, NEW p \in Proc, Others(p), UNCHANGED <<Blocks!disk, copy>>, Typed',
           FileOf(p)', LockOf(p)', OpShape(p)', LogOf(p)',
           \A i \in Regular :
               \/ ilock[i] # p /\ Stays(i)
               \/ /\ ilock[i] \in {p, None} /\ ilock'[i] = p /\ ~ Cut(i) /\ HolderOf(i)'
                  /\ Cut(i)' => op'[p].at = 0
                  /\ ~ Cut(i)' => \A x \in Nat : Reached(i, x)' => Reached(i, x)
    PROVE  BlocksInv'
<1>1. bitmap' = bitmap /\ block' = block /\ dinode' = dinode /\ copy' = copy
  BY DEF Blocks!disk
<1>2. \A i \in Regular : \A k \in Blocks!Place : Num(i, k)' = Num(i, k)
  BY <1>1 DEF Num, Blocks!Addr, Blocks!Table
<1>3. ASSUME NEW i \in Regular PROVE Held(i)' = Held(i) /\ HolderOf(i)' /\ Filled(i)'
  <2>1. CASE ilock[i] # p /\ Stays(i)
    <3>1. Held(i)' = Held(i) /\ HolderOf(i)' /\ (Cut(i)' <=> Cut(i))
      BY <1>2, <2>1, HeldStays, StaysHeld
    <3>2. CASE Cut(i)
      BY <3>1, <3>2, CutStays
    <3>3. CASE ~ Cut(i)
      <4>1. Filled(i) /\ \A x \in Nat : Reached(i, x)' => Reached(i, x)
        BY <2>1, ReachedStays DEF BlocksInv, Files
      <4>2. \A k \in Blocks!Place : Num(i, k) # 0 =>
               /\ Num(i, k)' = Num(i, k)
               /\ k # NDIRECT => \A u \in 0 .. BSIZE - 1 :
                      block[Num(i, k)][u] = Blocks!Data => block'[Num(i, k)][u] = Blocks!Data
        BY <1>1, <1>2
      <4> QED BY <3>1, <3>3, <4>1, <4>2, FilledStays
    <3> QED BY <3>1, <3>2, <3>3
  <2>2. CASE ~ (ilock[i] # p /\ Stays(i))
    <3>1. /\ ilock'[i] = p /\ ~ Cut(i) /\ HolderOf(i)' /\ (Cut(i)' => op'[p].at = 0)
          /\ ~ Cut(i)' => \A x \in Nat : Reached(i, x)' => Reached(i, x)
      BY <2>2
    <3>2. ASSUME NEW k \in Blocks!Place PROVE ~ CutOff(i, k)' /\ ~ CutOff(i, k)
      <4>1. Blocks!Order(k) \in Nat /\ Blocks!Order(k)' = Blocks!Order(k)
        BY Orders, Sizes DEF Blocks!Order
      <4> QED BY <3>1, <4>1 DEF CutOff
    <3>3. Held(i)' = Held(i)
      BY <1>2, <3>2 DEF Held, Blocks!Place, Blocks!NINDIRECT
    <3>4. Filled(i)'
      <4>1. CASE Cut(i)'
        BY <4>1, CutStays
      <4>2. CASE ~ Cut(i)'
        BY <1>1, <1>2, <3>1, <4>2, FilledStays DEF BlocksInv, Files
      <4> QED BY <4>1, <4>2
    <3> QED BY <3>1, <3>3, <3>4
  <2> QED BY <2>1, <2>2
<1>4. Owners'
  BY <1>1, <1>2, <1>3, OwnersStay DEF BlocksInv
<1>5. CallsOK'
  <2>1. \A i \in Regular : ilock[i] \notin {p, None} => Stays(i)
    OBVIOUS
  <2>2. \A q \in Proc : q # p => FileOf(q)' /\ LockOf(q)' /\ OpShape(q)' /\ LogOf(q)'
    BY <2>1, OthersKept
  <2> QED BY <2>2 DEF CallsOK
<1>6. Blocks!Updated'
  <2>1. ASSUME NEW i \in Regular, ilock'[i] = None PROVE ilock[i] = None
    BY <2>1, Sizes DEF Stays
  <2> QED BY <1>1, <2>1 DEF BlocksInv, Blocks!Updated
<1> QED BY <1>3, <1>4, <1>5, <1>6 DEF BlocksInv, Files

-----------------------------------------------------------------------------
(* Steps that leave the disk and the inodes alone.                         *)

\* A step of p, which is in the middle of no call before it and after it.
LEMMA IdleKeeps ==
    ASSUME BlocksInv, NEW p \in Proc, ~ Busy(p), UNCHANGED <<Blocks!disk, copy, ilock>>, Others(p), Typed',
           FileOf(p)', ~ Busy(p)', LogOf(p)'
    PROVE  BlocksInv'
<1>1. LockOf(p)' /\ OpShape(p)'
  BY DEF LockOf, OpShape, Busy
<1>2. ASSUME NEW i \in Regular PROVE ilock[i] # p /\ Stays(i)
  <2>1. ilock[i] # p /\ ilock[i] \in Proc \cup {None}
    BY NoLock DEF BlocksInv, Typed
  <2>2. ilock[i] # None => op'[ilock[i]] = op[ilock[i]]
    BY <2>1 DEF Others
  <2>3. \A k : Num(i, k)' = Num(i, k)
    BY DEF Blocks!disk, Num, Blocks!Addr, Blocks!Table
  <2> QED BY <2>1, <2>2, <2>3 DEF Stays
<1> QED BY <1>1, <1>2, QuietKeeps

LEMMA ReadKeeps == ASSUME BlocksInv, NEW p \in Proc, Blocks!Read(p) PROVE BlocksInv'
<1>0. PICK f, i : f = fd[p] /\ i = Blocks!Ip(p)
  OBVIOUS
<1>1. /\ f = fd[p] /\ i = file[f].ip /\ f # None /\ ilock[i] = None /\ Blocks!At(p, "idle")
      /\ \E n \in Reads \cup {UINT - 1} :
          /\ file[f].off <= copy[i].size
          /\ file' = [file EXCEPT ![f].off = IF file[f].off + n > copy[i].size THEN copy[i].size
                                             ELSE file[f].off + n]
  BY <1>0 DEF Blocks!Read, Blocks!Ip
<1>2. UNCHANGED <<Blocks!disk, copy, ilock, fd, op, logged>>
  BY DEF Blocks!Read
<1>3. f \in Blocks!OpenFile /\ i \in Regular /\ file[f] \in FileType /\ copy[i] \in InodeType
  BY <1>1 DEF BlocksInv, Typed, CallsOK, FileOf, Blocks!Ip
<1>4. PICK v \in 0 .. Blocks!MAXFILE * BSIZE : file' = [file EXCEPT ![f].off = v]
  <2>0. PICK n \in Reads \cup {UINT - 1} :
            file' = [file EXCEPT ![f].off = IF file[f].off + n > copy[i].size THEN copy[i].size
                                            ELSE file[f].off + n]
    BY <1>1
  <2>1. PICK a \in Nat, b \in 0 .. Blocks!MAXFILE * BSIZE, c \in Nat :
            a = file[f].off /\ b = copy[i].size /\ c = n
    BY <1>3, Sizes DEF FileType, InodeType
  <2>2. (IF a + c > b THEN b ELSE a + c) \in 0 .. Blocks!MAXFILE * BSIZE
    BY <2>1, Sizes
  <2> QED BY <2>0, <2>1, <2>2
<1>5. file' \in [Blocks!OpenFile -> FileType] /\ (\A g \in Blocks!OpenFile : file'[g].ip = file[g].ip)
      /\ (\A g \in Blocks!OpenFile : g # f => file'[g] = file[g])
  BY <1>3, <1>4 DEF BlocksInv, Typed, FileType
<1>6. Typed'
  BY <1>2, <1>5 DEF BlocksInv, Typed, Blocks!disk, UnitType, InodeType, FileType, OpType,
     Blocks!Blk, Blocks!OpenFile, Blocks!MAXFILE, Blocks!NINDIRECT, Blocks!Old
<1>7. Others(p)
  <2>1. ASSUME NEW q \in Proc \ {p} PROVE fd[q] # None => file'[fd[q]].ip = file[fd[q]].ip
    BY <1>5 DEF BlocksInv, Typed
  <2>2. ASSUME NEW q \in Proc \ {p}, Busy(q) PROVE file'[fd[q]] = file[fd[q]]
    <3>1. fd[q] \in Blocks!OpenFile /\ ilock[Blocks!Ip(q)] = q /\ q # None
      BY <2>2, Alone, Sizes
    <3>2. fd[q] # f
      BY <1>1, <3>1 DEF Blocks!Ip
    <3> QED BY <1>5, <3>1, <3>2
  <2> QED BY <1>2, <2>1, <2>2 DEF Others
<1>8. ~ Busy(p) /\ ~ Busy(p)' /\ LogOf(p)'
  BY <1>1, <1>2 DEF Busy, Writing, Blocks!At, LogOf, BlocksInv, CallsOK
<1>9. FileOf(p)'
  BY <1>1, <1>2, <1>3, <1>5 DEF FileOf, Blocks!Ip
<1> QED BY <1>2, <1>6, <1>7, <1>8, <1>9, IdleKeeps

LEMMA EndOpKeeps == ASSUME BlocksInv, NEW p \in Proc, Blocks!EndOp(p) PROVE BlocksInv'
<1>1. PICK c \in {"idle", "write"} : op' = [op EXCEPT ![p].pc = c]
  BY DEF Blocks!EndOp
<1>2. /\ logged' = [logged EXCEPT ![p] = {}] /\ UNCHANGED <<Blocks!disk, copy, ilock, fd, file>>
      /\ Blocks!At(p, "end_op")
  BY DEF Blocks!EndOp
<1>3. op' \in [Proc -> OpType] /\ op'[p].pc = c /\ \A q \in Proc : q # p => op'[q] = op[q]
  BY <1>1 DEF BlocksInv, Typed, OpType
<1>4. logged'[p] = {} /\ \A q \in Proc : q # p => logged'[q] = logged[q]
  BY <1>2 DEF BlocksInv, Typed
<1>5. Typed'
  <2>1. logged' \in [Proc -> SUBSET ({<<"bitmap">>} \cup {<<"block", b>> : b \in Blocks!Blk}
                                         \cup {<<"inode", i>> : i \in Regular})]
    BY <1>2 DEF BlocksInv, Typed
  <2> QED BY <1>2, <1>3, <2>1 DEF BlocksInv, Typed, Blocks!disk, UnitType, InodeType, FileType,
             OpType, Blocks!Blk, Blocks!OpenFile, Blocks!MAXFILE, Blocks!NINDIRECT, Blocks!Old
<1>6. Others(p)
  BY <1>2, <1>3, <1>4 DEF Others
<1>7. ~ Busy(p) /\ ~ Busy(p)' /\ LogOf(p)'
  BY <1>2, <1>3, <1>4 DEF Busy, Writing, Blocks!At, LogOf
<1>8. FileOf(p)'
  BY <1>2 DEF FileOf, Blocks!Ip, Blocks!At, BlocksInv, CallsOK
<1> QED BY <1>2, <1>5, <1>6, <1>7, <1>8, IdleKeeps

LEMMA ShareKeeps == ASSUME BlocksInv, NEW p \in Proc, NEW q \in Proc, Blocks!Share(p, q) PROVE BlocksInv'
<1>1. /\ Blocks!At(p, "idle") /\ fd[q] # None /\ fd' = [fd EXCEPT ![p] = fd[q]]
      /\ UNCHANGED <<Blocks!disk, copy, ilock, file, op, logged>>
  BY DEF Blocks!Share
<1>2. fd' \in [Proc -> Blocks!OpenFile \cup {None}] /\ fd'[p] = fd[q] /\ \A r \in Proc : r # p => fd'[r] = fd[r]
  BY <1>1 DEF BlocksInv, Typed
<1>3. Typed'
  BY <1>1, <1>2 DEF BlocksInv, Typed, Blocks!disk, UnitType, InodeType, FileType, OpType,
     Blocks!Blk, Blocks!OpenFile, Blocks!MAXFILE, Blocks!NINDIRECT, Blocks!Old
<1>4. Others(p)
  BY <1>1, <1>2 DEF Others
<1>5. ~ Busy(p) /\ ~ Busy(p)' /\ LogOf(p)'
  BY <1>1 DEF Busy, Writing, Blocks!At, LogOf, BlocksInv, CallsOK
<1>6. FileOf(p)'
  BY <1>1, <1>2 DEF FileOf, Blocks!Ip, Blocks!At, BlocksInv, CallsOK
<1> QED BY <1>1, <1>3, <1>4, <1>5, <1>6, IdleKeeps

\* An entry of the file table is free when p has closed what it had.
LEMMA FreeFile ==
    ASSUME BlocksInv, NEW p \in Proc
    PROVE  \E f \in Blocks!OpenFile : \A q \in Proc \ {p} : fd[q] # f
<1>1. SUFFICES ASSUME \A f \in Proc : \E q \in Proc \ {p} : fd[q] = f PROVE FALSE
  BY DEF Blocks!OpenFile
<1>2. PICK g : g = [f \in Proc |-> CHOOSE q \in Proc \ {p} : fd[q] = f]
  OBVIOUS
<1>3. g \in [Proc -> Proc \ {p}] /\ \A f \in Proc : fd[g[f]] = f
  BY <1>1, <1>2
<1>4. IsFiniteSet(Proc \ {p}) /\ Cardinality(Proc \ {p}) < Cardinality(Proc)
  <2>1. Cardinality(Proc) \in Nat
    BY Sizes, FS_CardinalityType
  <2>2. IsFiniteSet(Proc \ {p}) /\ Cardinality(Proc \ {p}) = Cardinality(Proc) - 1
    BY Sizes, FS_RemoveElement
  <2> QED BY <2>1, <2>2
<1>5. PICK a, b \in Proc : a # b /\ g[a] = g[b]
  BY <1>3, <1>4, Sizes, FS_PigeonHole
<1> QED BY <1>3, <1>5

LEMMA OpenKeeps == ASSUME BlocksInv, NEW p \in Proc, Blocks!Open(p) PROVE BlocksInv'
<1>1. PICK f : f = CHOOSE g \in Blocks!OpenFile : \A q \in Proc \ {p} : fd[q] # g
  OBVIOUS
<1>2. f \in Blocks!OpenFile /\ \A q \in Proc \ {p} : fd[q] # f
  BY <1>1, FreeFile
<1>3. PICK i \in Regular, trunc \in BOOLEAN :
          /\ ilock[i] = None /\ fd' = [fd EXCEPT ![p] = f]
          /\ file' = [file EXCEPT ![f] = [ip |-> i, off |-> 0]]
          /\ IF trunc
             THEN /\ op' = [op EXCEPT ![p] = [Blocks!Idle EXCEPT !.pc = "itrunc"]]
                  /\ ilock' = [ilock EXCEPT ![i] = p]
             ELSE UNCHANGED <<op, ilock>>
  BY <1>1 DEF Blocks!Open
<1>4. Blocks!At(p, "idle") /\ UNCHANGED <<Blocks!disk, copy, logged>>
  BY DEF Blocks!Open
<1>5. [ip |-> i, off |-> 0] \in FileType
  BY Sizes DEF FileType
<1>6. /\ file' \in [Blocks!OpenFile -> FileType] /\ file'[f].ip = i /\ \A g \in Blocks!OpenFile : g # f => file'[g] = file[g]
      /\ fd' \in [Proc -> Blocks!OpenFile \cup {None}] /\ fd'[p] = f /\ \A q \in Proc : q # p => fd'[q] = fd[q]
  BY <1>2, <1>3, <1>5 DEF BlocksInv, Typed
<1>7. f # None
  BY <1>2, Sizes DEF Blocks!OpenFile
<1>8. \A q \in Proc \ {p} : fd[q] # None => file'[fd[q]] = file[fd[q]]
  BY <1>2, <1>6 DEF BlocksInv, Typed
<1>9. \A q \in Proc \ {p} : Busy(q) => fd[q] # None
  BY Alone
<1>10. FileOf(p)' /\ Blocks!Ip(p)' = i
  BY <1>6, <1>7 DEF FileOf, Blocks!Ip
<1>11. ~ Busy(p) /\ logged[p] = {}
  BY <1>4 DEF Busy, Writing, Blocks!At, LogOf, BlocksInv, CallsOK
<1>12. CASE ~ trunc
  <2>1. UNCHANGED <<op, ilock>>
    BY <1>3, <1>12
  <2>2. Typed'
    BY <1>4, <1>6, <2>1 DEF BlocksInv, Typed, Blocks!disk, UnitType, InodeType, FileType, OpType,
       Blocks!Blk, Blocks!OpenFile, Blocks!MAXFILE, Blocks!NINDIRECT, Blocks!Old
  <2>3. Others(p)
    BY <1>4, <1>6, <1>8, <1>9, <2>1 DEF Others
  <2>4. ~ Busy(p)' /\ LogOf(p)'
    BY <1>4, <1>11, <2>1 DEF Busy, Writing, Blocks!At, LogOf
  <2> QED BY <1>4, <1>10, <1>11, <2>1, <2>2, <2>3, <2>4, IdleKeeps
<1>13. CASE trunc
  <2>1. PICK o \in OpType : /\ o.pc = "itrunc" /\ o.off = 0 /\ o.at = 0 /\ op' = [op EXCEPT ![p] = o]
    <3>1. [Blocks!Idle EXCEPT !.pc = "itrunc"] \in OpType /\ [Blocks!Idle EXCEPT !.pc = "itrunc"].pc = "itrunc"
          /\ [Blocks!Idle EXCEPT !.pc = "itrunc"].off = 0 /\ [Blocks!Idle EXCEPT !.pc = "itrunc"].at = 0
      BY DEF Blocks!Idle, OpType
    <3> QED BY <1>3, <1>13, <3>1
  <2>2. ilock' = [ilock EXCEPT ![i] = p]
    BY <1>3, <1>13
  <2>3. /\ op' \in [Proc -> OpType] /\ op'[p] = o /\ \A q \in Proc : q # p => op'[q] = op[q]
        /\ ilock' \in [Regular -> Proc \cup {None}] /\ ilock'[i] = p
        /\ \A j \in Regular : j # i => ilock'[j] = ilock[j]
    BY <2>1, <2>2 DEF BlocksInv, Typed
  <2>4. Typed'
    BY <1>4, <1>6, <2>3 DEF BlocksInv, Typed, Blocks!disk, UnitType, InodeType, FileType, OpType,
       Blocks!Blk, Blocks!OpenFile, Blocks!MAXFILE, Blocks!NINDIRECT, Blocks!Old
  <2>5. Others(p)
    BY <1>4, <1>6, <1>8, <1>9, <2>3 DEF Others
  <2>6. LockOf(p)' /\ LogOf(p)'
    BY <1>4, <1>10, <1>11, <2>1, <2>3 DEF LockOf, LogOf, Blocks!At, Writing
  <2>7. OpShape(p)'
    <3>1. \A k \in 0 .. NDIRECT : ~ (Blocks!Order(k)' < 0)
      BY Orders, Sizes DEF Blocks!Order
    <3> QED BY <2>1, <2>3, <3>1 DEF OpShape, Writing, Blocks!At
  <2>8. ASSUME NEW j \in Regular, j # i PROVE ilock[j] # p /\ Stays(j)
    <3>1. ilock[j] # p /\ ilock[j] \in Proc \cup {None}
      BY <1>11, NoLock DEF BlocksInv, Typed
    <3>2. \A k : Num(j, k)' = Num(j, k)
      BY <1>4 DEF Blocks!disk, Num, Blocks!Addr, Blocks!Table
    <3> QED BY <1>4, <2>3, <2>8, <3>1, <3>2 DEF Stays
  <2>9. HolderOf(i)' /\ ~ Cut(i) /\ Cut(i)'
    BY <1>3, <1>10, <2>1, <2>3, Sizes DEF HolderOf, Cut, Busy, Blocks!At
  <2> QED BY <1>3, <1>4, <1>10, <2>1, <2>3, <2>4, <2>5, <2>6, <2>7, <2>8, <2>9, QuietKeeps
<1> QED BY <1>12, <1>13

\* A write that ends early.
LEMMA WroteKeeps ==
    ASSUME BlocksInv, NEW p \in Proc, Writing(p), op' = [op EXCEPT ![p].pc = "wrote"],
           UNCHANGED <<Blocks!disk, copy, ilock, fd, file, logged>>
    PROVE  BlocksInv'
<1>1. /\ op' \in [Proc -> OpType] /\ (\A q \in Proc : q # p => op'[q] = op[q])
      /\ op'[p].pc = "wrote" /\ op'[p].off = op[p].off /\ op'[p].end = op[p].end /\ op'[p].n = op[p].n
  BY DEF BlocksInv, Typed, OpType
<1>2. Typed'
  BY <1>1 DEF BlocksInv, Typed, Blocks!disk, UnitType, InodeType, FileType, OpType, Blocks!Blk,
     Blocks!OpenFile, Blocks!MAXFILE, Blocks!NINDIRECT, Blocks!Old
<1>3. Others(p)
  BY <1>1 DEF Others
<1>4. PICK i \in Regular : i = Blocks!Ip(p) /\ ilock[i] = p /\ \A j \in Regular : j # i => ilock[j] # p
  BY Alone DEF Busy
<1>5. Blocks!Ip(p)' = i /\ \A j, k : Num(j, k)' = Num(j, k)
  BY <1>4 DEF Blocks!Ip, Blocks!disk, Num, Blocks!Addr, Blocks!Table
<1>6. FileOf(p)' /\ LockOf(p)' /\ OpShape(p)' /\ Busy(p)'
  BY <1>1, <1>4, <1>5 DEF FileOf, LockOf, OpShape, Busy, Writing, Blocks!At, BlocksInv, CallsOK,
     Blocks!Ip
<1>7. LogOf(p)'
  <2>1. Touched(p)' = Touched(p)
    BY <1>1 DEF Touched, Blocks!PlaceOf
  <2> QED BY <1>1, <1>4, <1>5, <2>1 DEF LogOf, Writing, Blocks!At, BlocksInv, CallsOK
<1>8. ASSUME NEW j \in Regular, j # i PROVE Stays(j)
  BY <1>1, <1>4, <1>5, <1>8 DEF Stays, BlocksInv, Typed
<1>9. HolderOf(i)' /\ ~ Cut(i)' /\ ~ Cut(i) /\ \A x \in Nat : Reached(i, x)' => Reached(i, x)
  BY <1>1, <1>4, <1>5, <1>6 DEF HolderOf, Cut, Reached, Blocks!At, Writing
<1> QED BY <1>2, <1>3, <1>4, <1>6, <1>7, <1>8, <1>9, QuietKeeps

LEMMA WriteFaultKeeps == ASSUME BlocksInv, NEW p \in Proc, Blocks!WriteFault(p) PROVE BlocksInv'
  BY WroteKeeps DEF Blocks!WriteFault, Writing, Blocks!At

LEMMA StutterKeeps == ASSUME BlocksInv, UNCHANGED Blocks!vars PROVE BlocksInv'
<1>1. /\ bitmap' = bitmap /\ block' = block /\ dinode' = dinode /\ copy' = copy /\ ilock' = ilock
      /\ fd' = fd /\ file' = file /\ op' = op /\ logged' = logged
  BY DEF Blocks!vars, Blocks!disk
<1>2. Typed'
  BY <1>1 DEF BlocksInv, Typed, UnitType, InodeType, FileType, OpType, Blocks!Blk,
     Blocks!OpenFile, Blocks!MAXFILE, Blocks!NINDIRECT, Blocks!Old
<1>3. \A i, k : Num(i, k)' = Num(i, k)
  BY <1>1 DEF Num, Blocks!Addr, Blocks!Table
<1>4. \A i : (Cut(i)' <=> Cut(i)) /\ (\A k : CutOff(i, k)' <=> CutOff(i, k)) /\ Held(i)' = Held(i)
  BY <1>1, <1>3 DEF Cut, CutOff, Held, Blocks!At, Blocks!Order, Blocks!Place, Blocks!NINDIRECT,
     Blocks!MAXFILE
<1>5. Owners' /\ Blocks!Updated'
  BY <1>1, <1>3, <1>4, OwnersStay DEF BlocksInv, Blocks!Updated
<1>6. \A i \in Regular : HolderOf(i)' /\ Filled(i)'
  <2>1. ASSUME NEW i \in Regular PROVE HolderOf(i)'
    BY <1>1 DEF BlocksInv, Files, HolderOf, Busy, Writing, Blocks!At, Blocks!Ip
  <2>2. ASSUME NEW i \in Regular, ~ Cut(i) PROVE Filled(i)'
    <3>1. Filled(i) /\ \A x \in Nat : Reached(i, x)' => Reached(i, x)
      BY <1>1 DEF BlocksInv, Files, Reached
    <3> QED BY <1>1, <1>3, <2>2, <3>1, FilledStays
  <2> QED BY <1>4, <2>1, <2>2, CutStays
<1>7. ASSUME NEW p \in Proc PROVE FileOf(p)' /\ LockOf(p)' /\ OpShape(p)' /\ LogOf(p)'
  <2>1. FileOf(p) /\ LockOf(p) /\ OpShape(p) /\ LogOf(p)
    BY DEF BlocksInv, CallsOK
  <2>2. FileOf(p)' /\ LockOf(p)' /\ OpShape(p)'
    BY <1>1, <2>1 DEF FileOf, LockOf, OpShape, Busy, Writing, Blocks!At, Blocks!Ip, Blocks!Order,
       Blocks!MAXFILE, Blocks!NINDIRECT, ChunkBlocks
  <2>3. Touched(p)' = Touched(p)
    BY <1>1 DEF Touched, Blocks!PlaceOf
  <2> QED BY <1>1, <1>3, <2>1, <2>2, <2>3 DEF LogOf, Writing, Blocks!At, Blocks!Ip
<1> QED BY <1>2, <1>5, <1>6, <1>7 DEF BlocksInv, CallsOK, Files

\* An inode that is read again from the disk is as it was.
LEMMA RecycleKeeps == ASSUME BlocksInv, NEW i \in Regular, Blocks!Recycle(i) PROVE BlocksInv'
<1>1. ilock[i] = None
  <2>1. SUFFICES ASSUME ilock[i] # None PROVE FALSE
    OBVIOUS
  <2>2. ilock[i] \in Proc /\ Busy(ilock[i]) /\ Blocks!Ip(ilock[i]) = i
    BY <2>1 DEF BlocksInv, Typed, Files, HolderOf
  <2>3. fd[ilock[i]] # None
    BY <2>2, Alone
  <2> QED BY <2>2, <2>3 DEF Blocks!Recycle
<1>2. copy' = copy
  BY <1>1 DEF Blocks!Recycle, BlocksInv, Typed, Blocks!Updated
<1> QED BY <1>2, StutterKeeps DEF Blocks!Recycle, Blocks!vars, Blocks!disk

LEMMA ChunkOf == ASSUME NEW n \in Nat PROVE Blocks!Chunk(n) \in Nat /\ Blocks!Chunk(n) <= n /\ Blocks!Chunk(n) <= ChunkBlocks * BSIZE
<1>1. PICK m \in Nat : m = ChunkBlocks * BSIZE
  BY ChunkSize, Sizes
<1>2. Blocks!Chunk(n) = IF n > m THEN m ELSE n
  BY <1>1 DEF Blocks!Chunk, ChunkBlocks
<1> QED BY <1>1, <1>2

LEMMA WriteBeginKeeps == ASSUME BlocksInv, NEW p \in Proc, Blocks!WriteBegin(p) PROVE BlocksInv'
<1>1. PICK i, off : i = Blocks!Ip(p) /\ off = file[fd[p]].off
  OBVIOUS
<1>2. /\ fd[p] # None /\ ilock[i] = None /\ UNCHANGED <<Blocks!disk, copy, fd, file, logged>>
      /\ \E n \in (IF Blocks!At(p, "idle") THEN Writes ELSE IF Blocks!At(p, "write") THEN {op[p].n} ELSE {}) :
            IF off > copy[i].size \/ (off + Blocks!Chunk(n)) % UINT < off \/ off + Blocks!Chunk(n) > Blocks!MAXFILE * BSIZE
            THEN op' = [op EXCEPT ![p] = Blocks!Idle] /\ UNCHANGED ilock
            ELSE /\ op' = [op EXCEPT ![p] = [pc |-> "writei", n |-> n, off |-> off,
                                             end |-> off + Blocks!Chunk(n), at |-> 0]]
                 /\ ilock' = [ilock EXCEPT ![i] = p]
  BY <1>1 DEF Blocks!WriteBegin
<1>3. PICK n : /\ n \in (IF Blocks!At(p, "idle") THEN Writes ELSE IF Blocks!At(p, "write") THEN {op[p].n} ELSE {})
               /\ IF off > copy[i].size \/ (off + Blocks!Chunk(n)) % UINT < off \/ off + Blocks!Chunk(n) > Blocks!MAXFILE * BSIZE
                  THEN op' = [op EXCEPT ![p] = Blocks!Idle] /\ UNCHANGED ilock
                  ELSE /\ op' = [op EXCEPT ![p] = [pc |-> "writei", n |-> n, off |-> off,
                                                   end |-> off + Blocks!Chunk(n), at |-> 0]]
                       /\ ilock' = [ilock EXCEPT ![i] = p]
  BY <1>2
<1>4. n \in Nat /\ op[p].pc \in {"idle", "write"}
  BY <1>3, Sizes DEF Blocks!At, BlocksInv, Typed, OpType
<1>5. /\ fd[p] \in Blocks!OpenFile /\ i \in Regular /\ off \in 0 .. Blocks!MAXFILE * BSIZE /\ copy[i] \in InodeType
      /\ ~ Busy(p) /\ logged[p] = {} /\ FileOf(p)
  <2>1. fd[p] \in Blocks!OpenFile /\ FileOf(p) /\ LogOf(p)
    BY <1>2 DEF BlocksInv, Typed, CallsOK
  <2>2. file[fd[p]] \in FileType /\ i \in Regular
    BY <1>1, <1>2, <2>1 DEF BlocksInv, Typed, FileOf
  <2> QED BY <1>1, <1>4, <2>1, <2>2 DEF FileType, Busy, Writing, Blocks!At, LogOf, BlocksInv, Typed
<1>6. off \in Nat /\ copy[i].size \in Nat
  <2>1. off \in Nat
    BY <1>5, Sizes
  <2>2. copy[i].size \in 0 .. Blocks!MAXFILE * BSIZE
    BY <1>5 DEF InodeType
  <2> QED BY <2>1, <2>2, Sizes
<1>7. PICK d \in Nat : d = Blocks!Chunk(n) /\ d <= n /\ d <= ChunkBlocks * BSIZE
  BY <1>4, ChunkOf
<1>8. Blocks!Ip(p)' = i /\ \A j, k : Num(j, k)' = Num(j, k)
  BY <1>1, <1>2 DEF Blocks!Ip, Blocks!disk, Num, Blocks!Addr, Blocks!Table
<1>9. CASE op' = [op EXCEPT ![p] = Blocks!Idle] /\ UNCHANGED ilock
  <2>1. op' \in [Proc -> OpType] /\ op'[p] = Blocks!Idle /\ \A q \in Proc : q # p => op'[q] = op[q]
    BY <1>9 DEF BlocksInv, Typed, Blocks!Idle, OpType
  <2>2. Typed'
    BY <1>2, <1>9, <2>1 DEF BlocksInv, Typed, Blocks!disk, UnitType, InodeType, FileType, OpType,
       Blocks!Blk, Blocks!OpenFile, Blocks!MAXFILE, Blocks!NINDIRECT, Blocks!Old
  <2>3. Others(p)
    BY <1>2, <2>1 DEF Others
  <2>4. ~ Busy(p)' /\ LogOf(p)' /\ FileOf(p)'
    BY <1>2, <1>5, <2>1 DEF Busy, Writing, Blocks!At, LogOf, FileOf, Blocks!Idle, Blocks!Ip
  <2> QED BY <1>2, <1>5, <1>9, <2>2, <2>3, <2>4, IdleKeeps
<1>10. CASE ~ (op' = [op EXCEPT ![p] = Blocks!Idle] /\ UNCHANGED ilock)
  <2>1. /\ off <= copy[i].size /\ off + d <= Blocks!MAXFILE * BSIZE
        /\ op' = [op EXCEPT ![p] = [pc |-> "writei", n |-> n, off |-> off, end |-> off + d, at |-> 0]]
        /\ ilock' = [ilock EXCEPT ![i] = p]
    <3>1. PICK a \in Nat, b \in Nat : a = off /\ b = copy[i].size
      BY <1>6
    <3> QED BY <1>3, <1>7, <1>10, <3>1, Sizes
  <2>2. [pc |-> "writei", n |-> n, off |-> off, end |-> off + d, at |-> 0] \in OpType
    BY <1>4, <1>5, <1>7, Sizes DEF OpType
  <2>3. /\ op' \in [Proc -> OpType] /\ \A q \in Proc : q # p => op'[q] = op[q]
        /\ op'[p] = [pc |-> "writei", n |-> n, off |-> off, end |-> off + d, at |-> 0]
        /\ ilock' \in [Regular -> Proc \cup {None}] /\ ilock'[i] = p
        /\ \A j \in Regular : j # i => ilock'[j] = ilock[j]
    BY <1>5, <2>1, <2>2 DEF BlocksInv, Typed
  <2>4. Typed'
    BY <1>2, <2>3 DEF BlocksInv, Typed, Blocks!disk, UnitType, InodeType, FileType, OpType,
       Blocks!Blk, Blocks!OpenFile, Blocks!MAXFILE, Blocks!NINDIRECT, Blocks!Old
  <2>5. Others(p)
    BY <1>2, <2>3 DEF Others
  <2>6. Writing(p)' /\ ~ Blocks!At(p, "itrunc")' /\ ~ Blocks!At(p, "idle")'
    BY <2>3 DEF Writing, Blocks!At
  <2>7. LockOf(p)' /\ FileOf(p)' /\ LogOf(p)'
    BY <1>2, <1>5, <1>8, <2>3, <2>6 DEF LockOf, FileOf, LogOf, Writing, Blocks!At
  <2>8. OpShape(p)'
    <3>0. ChunkBlocks * BSIZE \in Nat
      BY ChunkSize, Sizes, Product
    <3>1. PICK a \in Nat, b \in Nat, c \in Nat :
              a = off /\ b = copy[i].size /\ c = ChunkBlocks * BSIZE
      BY <1>6, <3>0
    <3>2. a <= a + d /\ a + d <= Blocks!MAXFILE * BSIZE /\ a + d <= a + c /\ a + d <= a + n /\ a <= b
      BY <1>4, <1>7, <2>1, <3>1
    <3>3. op'[p].off = a /\ op'[p].end = a + d /\ op'[p].n = n /\ file'[fd'[p]].off = a
      BY <1>1, <1>2, <2>3, <3>1
    <3>4. copy'[i].size = b /\ (Blocks!MAXFILE * BSIZE)' = Blocks!MAXFILE * BSIZE /\ (ChunkBlocks * BSIZE)' = c
      BY <1>2, <3>1 DEF Blocks!MAXFILE, Blocks!NINDIRECT, ChunkBlocks
    <3> QED BY <1>8, <2>6, <3>2, <3>3, <3>4 DEF OpShape
  <2>9. ASSUME NEW j \in Regular, j # i PROVE ilock[j] # p /\ Stays(j)
    <3>1. ilock[j] # p /\ ilock[j] \in Proc \cup {None}
      BY <1>5, NoLock DEF BlocksInv, Typed
    <3> QED BY <1>2, <1>8, <2>3, <2>9, <3>1 DEF Stays
  <2>10. HolderOf(i)' /\ ~ Cut(i) /\ ~ Cut(i)'
    BY <1>2, <1>8, <2>3, <2>6 DEF HolderOf, Cut, Busy, Blocks!At
  <2>11. \A x \in Nat : Reached(i, x)' => Reached(i, x)
    <3>1. PICK a \in Nat, b \in Nat : a = off /\ b = copy[i].size /\ a <= b
      BY <1>6, <2>1
    <3> QED BY <1>2, <2>3, <3>1 DEF Reached
  <2> QED BY <1>2, <2>3, <2>4, <2>5, <2>7, <2>8, <2>9, <2>10, <2>11, QuietKeeps
<1> QED BY <1>9, <1>10

-----------------------------------------------------------------------------
(* The ends of writei() and itrunc().                                      *)

\* A set given by a function has no more elements than the domain.
LEMMA ImageOf ==
    ASSUME NEW S, IsFiniteSet(S), NEW f
    PROVE  IsFiniteSet({f[x] : x \in S}) /\ Cardinality({f[x] : x \in S}) <= Cardinality(S)
<1>1. PICK g : g = [x \in S |-> f[x]]
  OBVIOUS
<1>2. g \in Surjection(S, {f[x] : x \in S})
  BY <1>1 DEF Surjection
<1> QED BY <1>2, FS_Surjection

\* A write of no more than m blocks touches m + 1.
LEMMA Span ==
    ASSUME NEW lo \in Nat, NEW hi \in Nat, NEW m \in Nat, lo < hi, hi <= lo + m * BSIZE
    PROVE  (hi - 1) \div BSIZE <= lo \div BSIZE + m
<1>1. hi - 1 \in Nat /\ BSIZE \in Nat \ {0}
  BY Sizes
<1>2. PICK q \in Nat, r \in 0 .. BSIZE - 1 : q = lo \div BSIZE /\ lo = BSIZE * q + r
  <2>1. /\ lo = BSIZE * (lo \div BSIZE) + (lo % BSIZE)
        /\ lo % BSIZE \in 0 .. BSIZE - 1 /\ lo \div BSIZE \in Nat
    BY <1>1, Division
  <2> QED BY <2>1
<1>3. PICK q2 \in Nat, r2 \in 0 .. BSIZE - 1 : q2 = (hi - 1) \div BSIZE /\ hi - 1 = BSIZE * q2 + r2
  <2>1. /\ hi - 1 = BSIZE * ((hi - 1) \div BSIZE) + ((hi - 1) % BSIZE)
        /\ (hi - 1) % BSIZE \in 0 .. BSIZE - 1 /\ (hi - 1) \div BSIZE \in Nat
    BY <1>1, Division
  <2> QED BY <2>1
<1>4. SUFFICES ASSUME q2 >= q + m + 1 PROVE FALSE
  BY <1>2, <1>3
<1>5. BSIZE * (q + m + 1) <= BSIZE * q2
  BY <1>1, <1>4, Times
<1>6. BSIZE * (q + m + 1) = BSIZE * q + m * BSIZE + BSIZE
  BY <1>1
<1>7. PICK a \in Nat, b \in Nat, c \in Nat : a = BSIZE * q /\ b = m * BSIZE /\ c = BSIZE * q2
  BY <1>1, Product
<1> QED BY ONLY <1>1, <1>2, <1>3, <1>5, <1>6, <1>7, lo \in Nat, hi \in Nat, hi <= lo + m * BSIZE

LEMMA AddOne ==
    ASSUME NEW S, IsFiniteSet(S), NEW x
    PROVE  /\ IsFiniteSet(S \cup {x}) /\ Cardinality(S \cup {x}) \in Nat /\ Cardinality(S) \in Nat
           /\ Cardinality(S \cup {x}) <= Cardinality(S) + 1
<1>1. PICK n \in Nat : n = Cardinality(S)
  BY FS_CardinalityType
<1>2. IsFiniteSet(S \cup {x}) /\ Cardinality(S \cup {x}) = IF x \in S THEN n ELSE n + 1
  BY <1>1, FS_AddElement
<1> QED BY <1>1, <1>2

LEMMA TouchedSize ==
    ASSUME BlocksInv, NEW p \in Proc, Writing(p)
    PROVE  IsFiniteSet(Touched(p)) /\ Cardinality(Touched(p)) <= ChunkBlocks + 2
<1>1. PICK lo \in Nat, hi \in Nat : lo = file[fd[p]].off /\ hi = op[p].end /\ hi <= lo + ChunkBlocks * BSIZE
  <2>1. fd[p] \in Blocks!OpenFile /\ OpShape(p) /\ op[p] \in OpType
    BY Alone DEF Busy, BlocksInv, CallsOK, Typed
  <2>2. file[fd[p]] \in FileType
    BY <2>1 DEF BlocksInv, Typed
  <2>3. file[fd[p]].off \in 0 .. Blocks!MAXFILE * BSIZE /\ op[p].end \in Nat
    BY <2>1, <2>2 DEF FileType, OpType
  <2>4. op[p].end <= file[fd[p]].off + ChunkBlocks * BSIZE
    BY <2>1 DEF OpShape
  <2> QED BY <2>3, <2>4, Sizes
<1>2. PICK f : f = [b \in Nat |-> IF b < NDIRECT THEN b ELSE b + 1]
  OBVIOUS
<1>3. PICK T : T = {Blocks!PlaceOf(x) : x \in lo .. hi - 1}
  OBVIOUS
<1>4. IsFiniteSet(T) /\ Cardinality(T) <= ChunkBlocks + 1
  <2>1. CASE lo >= hi
    <3>1. T = {}
      BY <1>1, <1>3, <2>1
    <3> QED BY <3>1, FS_EmptySet, ChunkSize
  <2>2. CASE lo < hi
    <3>1. PICK b \in Nat, c \in Nat : b = lo \div BSIZE /\ c = (hi - 1) \div BSIZE /\ c <= b + ChunkBlocks
      <4>1. hi - 1 \in Nat
        BY <2>2
      <4>2. lo \div BSIZE \in Nat /\ (hi - 1) \div BSIZE \in Nat
        BY <4>1, Sizes, Division
      <4>3. (hi - 1) \div BSIZE <= lo \div BSIZE + ChunkBlocks
        BY <1>1, <2>2, ChunkSize, Span
      <4> QED BY <4>2, <4>3
    <3>2. T \subseteq {f[x] : x \in b .. c}
      <4>1. ASSUME NEW x \in lo .. hi - 1 PROVE Blocks!PlaceOf(x) \in {f[y] : y \in b .. c}
        <5>1. x \in Nat /\ hi - 1 \in Nat /\ lo <= x /\ x <= hi - 1
          OBVIOUS
        <5>2. x \div BSIZE \in b .. c /\ x \div BSIZE \in Nat
          <6>1. x \div BSIZE \in Nat
            BY <5>1, Sizes, Division
          <6>2. lo \div BSIZE <= x \div BSIZE /\ x \div BSIZE <= (hi - 1) \div BSIZE
            BY <5>1, Sizes, DivGrows
          <6> QED BY <3>1, <6>1, <6>2
        <5>3. Blocks!PlaceOf(x) = f[x \div BSIZE]
          BY <1>2, <5>2 DEF Blocks!PlaceOf
        <5> QED BY <5>2, <5>3
      <4> QED BY <1>3, <4>1
    <3>3. IsFiniteSet(b .. c) /\ Cardinality(b .. c) <= ChunkBlocks + 1
      <4>1. IsFiniteSet(b .. c) /\ Cardinality(b .. c) = IF b > c THEN 0 ELSE c - b + 1
        BY FS_Interval
      <4> QED BY <3>1, <4>1, ChunkSize
    <3>4. IsFiniteSet({f[x] : x \in b .. c}) /\ Cardinality({f[x] : x \in b .. c}) <= Cardinality(b .. c)
      BY <3>3, ImageOf
    <3>5. IsFiniteSet(T) /\ Cardinality(T) <= Cardinality({f[x] : x \in b .. c})
      BY <3>2, <3>4, FS_Subset
    <3>6. Cardinality(T) \in Nat /\ Cardinality(b .. c) \in Nat /\ Cardinality({f[x] : x \in b .. c}) \in Nat
      BY <3>3, <3>4, <3>5, FS_CardinalityType
    <3> QED BY <3>3, <3>4, <3>5, <3>6, ChunkSize
  <2> QED BY <2>1, <2>2
<1>5. Touched(p) = T \cup {NDIRECT}
  BY <1>1, <1>3 DEF Touched
<1>6. IsFiniteSet(T \cup {NDIRECT}) /\ Cardinality(T \cup {NDIRECT}) <= Cardinality(T) + 1
  BY <1>4, AddOne
<1>7. Cardinality(T) \in Nat /\ Cardinality(T \cup {NDIRECT}) \in Nat
  BY <1>4, AddOne
<1> QED BY <1>4, <1>5, <1>6, <1>7, ChunkSize

\* What writei() logs, with iupdate(), is less than what begin_op() reserves.
LEMMA WriteFits ==
    ASSUME BlocksInv, NEW p \in Proc, Writing(p), NEW e
    PROVE  IsFiniteSet(logged[p] \cup {e}) /\ Cardinality(logged[p] \cup {e}) < MAXOPBLOCKS
<1>1. IsFiniteSet(Touched(p)) /\ Cardinality(Touched(p)) <= ChunkBlocks + 2 /\ Cardinality(Touched(p)) \in Nat
  BY TouchedSize, FS_CardinalityType
<1>2. PICK f : f = [k \in Touched(p) |-> <<"block", Num(Blocks!Ip(p), k)>>]
  OBVIOUS
<1>3. PICK S : S = {f[k] : k \in Touched(p)}
  OBVIOUS
<1>4. IsFiniteSet(S) /\ Cardinality(S) <= Cardinality(Touched(p)) /\ Cardinality(S) \in Nat
  BY <1>1, <1>3, ImageOf, FS_CardinalityType
<1>5. logged[p] \subseteq S \cup {<<"bitmap">>}
  BY <1>2, <1>3 DEF BlocksInv, CallsOK, LogOf
<1>6. IsFiniteSet(S \cup {<<"bitmap">>}) /\ Cardinality(S \cup {<<"bitmap">>}) <= Cardinality(S) + 1
      /\ Cardinality(S \cup {<<"bitmap">>}) \in Nat
  BY <1>4, AddOne
<1>7. IsFiniteSet((S \cup {<<"bitmap">>}) \cup {e})
      /\ Cardinality((S \cup {<<"bitmap">>}) \cup {e}) <= Cardinality(S \cup {<<"bitmap">>}) + 1
      /\ Cardinality((S \cup {<<"bitmap">>}) \cup {e}) \in Nat
  BY <1>6, AddOne
<1>8. IsFiniteSet(logged[p] \cup {e})
      /\ Cardinality(logged[p] \cup {e}) <= Cardinality((S \cup {<<"bitmap">>}) \cup {e})
  <2>1. logged[p] \cup {e} \subseteq (S \cup {<<"bitmap">>}) \cup {e}
    BY <1>5
  <2> QED BY <1>7, <2>1, FS_Subset
<1>9. Cardinality(logged[p] \cup {e}) \in Nat
  BY <1>8, FS_CardinalityType
<1> QED BY <1>1, <1>4, <1>6, <1>7, <1>8, <1>9, ChunkSize, Sizes

\* A step of p that writes back the inode that it has locked, and unlocks it.
LEMMA UnlockKeeps ==
    ASSUME BlocksInv, NEW p \in Proc, Busy(p), NEW i \in Regular, i = Blocks!Ip(p), Others(p), Typed', FileOf(p)',
           LogOf(p)', ~ Busy(p)', UNCHANGED <<bitmap, block>>,
           ilock' = [ilock EXCEPT ![i] = None], NEW v \in InodeType,
           copy' = [copy EXCEPT ![i] = v], dinode' = [dinode EXCEPT ![i] = v],
           v.addrs = copy[i].addrs, Held(i)' = Held(i), Filled(i)'
    PROVE  BlocksInv'
<1>1. ilock[i] = p /\ \A j \in Regular : j # i => ilock[j] # p
  BY Alone
<1>2. /\ ilock'[i] = None /\ copy'[i] = v /\ dinode'[i] = v
      /\ \A j \in Regular : j # i => ilock'[j] = ilock[j] /\ copy'[j] = copy[j] /\ dinode'[j] = dinode[j]
  BY DEF BlocksInv, Typed
<1>3. \A j \in Regular : \A k \in Blocks!Place : Num(j, k)' = Num(j, k)
  BY <1>2 DEF Num, Blocks!Addr, Blocks!Table
<1>4. ASSUME NEW j \in Regular, j # i PROVE Stays(j) /\ Held(j)' = Held(j) /\ HolderOf(j)' /\ Filled(j)'
  <2>1. Stays(j)
    <3>1. ilock[j] \in (Proc \ {p}) \cup {None}
      BY <1>1, <1>4 DEF BlocksInv, Typed
    <3>2. ilock[j] # None => op'[ilock[j]] = op[ilock[j]]
      BY <3>1 DEF Others
    <3>3. \A k \in Held(j) : Num(j, k)' = Num(j, k)
      BY <1>3 DEF Held
    <3> QED BY <1>2, <1>4, <3>2, <3>3 DEF Stays
  <2>2. Held(j)' = Held(j) /\ HolderOf(j)' /\ (Cut(j)' <=> Cut(j))
    BY <1>1, <1>3, <1>4, <2>1, HeldStays, StaysHeld
  <2>3. CASE Cut(j)
    BY <2>1, <2>2, <2>3, CutStays
  <2>4. CASE ~ Cut(j)
    <3>1. Filled(j) /\ \A x \in Nat : Reached(j, x)' => Reached(j, x)
      BY <1>1, <1>4, <2>1, ReachedStays DEF BlocksInv, Files
    <3>2. \A k \in Blocks!Place : Num(j, k) # 0 =>
             /\ Num(j, k)' = Num(j, k)
             /\ k # NDIRECT => \A u \in 0 .. BSIZE - 1 :
                    block[Num(j, k)][u] = Blocks!Data => block'[Num(j, k)][u] = Blocks!Data
      BY <1>3
    <3> QED BY <2>1, <2>2, <2>4, <3>1, <3>2, FilledStays
  <2> QED BY <2>1, <2>2, <2>3, <2>4
<1>5. HolderOf(i)'
  BY <1>2 DEF HolderOf
<1>6. Owners'
  BY <1>3, <1>4, OwnersStay DEF BlocksInv
<1>7. Blocks!Updated'
  BY <1>2 DEF BlocksInv, Blocks!Updated
<1>8. CallsOK'
  <2>1. \A j \in Regular : ilock[j] \notin {p, None} => Stays(j)
    BY <1>1, <1>4
  <2>2. \A q \in Proc : q # p => FileOf(q)' /\ LockOf(q)' /\ OpShape(q)' /\ LogOf(q)'
    BY <2>1, OthersKept
  <2>3. LockOf(p)' /\ OpShape(p)'
    BY DEF LockOf, OpShape, Busy
  <2> QED BY <2>2, <2>3 DEF CallsOK
<1> QED BY <1>4, <1>5, <1>6, <1>7, <1>8 DEF BlocksInv, Files

LEMMA WriteEndKeeps == ASSUME BlocksInv, NEW p \in Proc, Blocks!WriteEnd(p) PROVE BlocksInv'
<1>1. Writing(p) /\ Busy(p) /\ ~ Blocks!At(p, "itrunc")
  BY DEF Blocks!WriteEnd, Writing, Blocks!At, Busy
<1>2. PICK i \in Regular, f \in Blocks!OpenFile : /\ i = Blocks!Ip(p) /\ f = fd[p] /\ f # None /\ ilock[i] = p
                                        /\ \A j \in Regular : j # i => ilock[j] # p
  BY <1>1, Alone
<1>3. PICK o \in OpType, a \in Nat : o = op[p] /\ a = file[f].off /\ a <= o.off /\ o.off <= o.end
          /\ o.end <= Blocks!MAXFILE * BSIZE /\ o.end <= a + o.n
  <2>1. OpShape(p) /\ op[p] \in OpType /\ file[f] \in FileType
    BY DEF BlocksInv, Typed, CallsOK
  <2>2. file[f].off \in Nat
    <3>1. file[f].off \in 0 .. Blocks!MAXFILE * BSIZE
      BY <2>1 DEF FileType
    <3> QED BY <3>1, Sizes
  <2> QED BY <1>1, <1>2, <2>1, <2>2 DEF OpShape
<1>4. PICK v : v = [copy[i] EXCEPT !.size = IF o.off > copy[i].size THEN o.off ELSE copy[i].size]
  OBVIOUS
<1>5. v \in InodeType /\ v.addrs = copy[i].addrs /\ v.size = IF o.off > copy[i].size THEN o.off ELSE copy[i].size
  <2>1. copy[i] \in InodeType /\ o.off \in Nat /\ o.end \in Nat
    BY <1>3 DEF BlocksInv, Typed, OpType
  <2>2. copy[i].size \in 0 .. Blocks!MAXFILE * BSIZE
    BY <2>1 DEF InodeType
  <2>3. (IF o.off > copy[i].size THEN o.off ELSE copy[i].size) \in 0 .. Blocks!MAXFILE * BSIZE
    BY <1>3, <2>1, <2>2, Sizes
  <2> QED BY <1>4, <2>1, <2>3 DEF InodeType
<1>6. copy' = [copy EXCEPT ![i] = v]
  BY <1>2, <1>3, <1>4 DEF Blocks!WriteEnd, Blocks!Grow, BlocksInv, Typed
<1>7. dinode' = [dinode EXCEPT ![i] = v]
  <2>1. copy'[i] = v
    BY <1>6 DEF BlocksInv, Typed
  <2> QED BY <1>2, <2>1 DEF Blocks!WriteEnd, Blocks!Grow, Blocks!Iupdate
<1>8. /\ logged' = [logged EXCEPT ![p] = @ \cup {<<"inode", i>>}]
      /\ file' = [file EXCEPT ![f].off = o.off]
      /\ ilock' = [ilock EXCEPT ![i] = None] /\ UNCHANGED <<bitmap, block, fd>>
  BY <1>2, <1>3 DEF Blocks!WriteEnd
<1>9. PICK c \in OpType : op' = [op EXCEPT ![p] = c] /\ c.pc = "end_op"
  <2>1. /\ op' = [op EXCEPT ![p] = IF o.off # o.end \/ o.n = o.off - a THEN [Blocks!Idle EXCEPT !.pc = "end_op"]
                                  ELSE [Blocks!Idle EXCEPT !.pc = "end_op", !.n = o.n - (o.off - a)]]
        /\ o.off \in Nat /\ o.n \in Nat /\ o.end \in Nat
    BY <1>2, <1>3 DEF Blocks!WriteEnd, OpType
  <2>2. CASE o.off # o.end \/ o.n = o.off - a
    <3>1. [Blocks!Idle EXCEPT !.pc = "end_op"] \in OpType /\ [Blocks!Idle EXCEPT !.pc = "end_op"].pc = "end_op"
      BY DEF Blocks!Idle, OpType
    <3> QED BY <2>1, <2>2, <3>1
  <2>3. CASE ~ (o.off # o.end \/ o.n = o.off - a)
    <3>1. PICK n \in Nat : n = o.n - (o.off - a)
      BY <1>3, <2>1, <2>3
    <3>2. [Blocks!Idle EXCEPT !.pc = "end_op", !.n = n] \in OpType /\ [Blocks!Idle EXCEPT !.pc = "end_op", !.n = n].pc = "end_op"
      BY DEF Blocks!Idle, OpType
    <3> QED BY <2>1, <2>3, <3>1, <3>2
  <2> QED BY <2>2, <2>3
<1>10. /\ op' \in [Proc -> OpType] /\ op'[p] = c /\ \A q \in Proc : q # p => op'[q] = op[q]
       /\ copy' \in [Regular -> InodeType] /\ dinode' \in [Regular -> InodeType]
       /\ ilock' \in [Regular -> Proc \cup {None}]
  BY <1>5, <1>6, <1>7, <1>8, <1>9 DEF BlocksInv, Typed
<1>11. /\ logged' \in [Proc -> SUBSET ({<<"bitmap">>} \cup {<<"block", b>> : b \in Blocks!Blk}
                                         \cup {<<"inode", j>> : j \in Regular})]
       /\ logged'[p] = logged[p] \cup {<<"inode", i>>} /\ \A q \in Proc : q # p => logged'[q] = logged[q]
  BY <1>8 DEF BlocksInv, Typed
<1>12. /\ file' \in [Blocks!OpenFile -> FileType] /\ \A g \in Blocks!OpenFile : file'[g].ip = file[g].ip
       /\ \A g \in Blocks!OpenFile : g # f => file'[g] = file[g]
  <2>1. o.off \in 0 .. Blocks!MAXFILE * BSIZE
    <3>1. o.off \in Nat /\ o.end \in Nat
      BY DEF OpType
    <3> QED BY <1>3, <3>1, Sizes
  <2> QED BY <1>8, <2>1 DEF BlocksInv, Typed, FileType
<1>13. Typed'
  BY <1>8, <1>10, <1>11, <1>12 DEF BlocksInv, Typed, UnitType, InodeType, FileType, OpType,
     Blocks!Blk, Blocks!OpenFile, Blocks!MAXFILE, Blocks!NINDIRECT, Blocks!Old
<1>14. Others(p)
  <2>1. ASSUME NEW q \in Proc \ {p} PROVE fd[q] # None => file'[fd[q]].ip = file[fd[q]].ip
    BY <1>12 DEF BlocksInv, Typed
  <2>2. ASSUME NEW q \in Proc \ {p}, Busy(q) PROVE file'[fd[q]] = file[fd[q]]
    <3>1. fd[q] \in Blocks!OpenFile /\ ilock[Blocks!Ip(q)] = q
      BY <2>2, Alone
    <3>2. fd[q] # f
      BY <1>2, <3>1 DEF Blocks!Ip
    <3> QED BY <1>12, <3>1, <3>2
  <2> QED BY <1>8, <1>10, <1>11, <2>1, <2>2 DEF Others
<1>15. ~ Busy(p)' /\ FileOf(p)'
  BY <1>2, <1>8, <1>9, <1>10, <1>12 DEF Busy, Writing, Blocks!At, FileOf, Blocks!Ip
<1>16. LogOf(p)'
  <2>1. IsFiniteSet(logged'[p]) /\ Cardinality(logged'[p]) < MAXOPBLOCKS
    BY <1>1, <1>11, WriteFits
  <2> QED BY <1>9, <1>10, <2>1 DEF LogOf, Blocks!At, Writing
<1>17. ~ Cut(i) /\ ~ Cut(i)' /\ \A k : Num(i, k)' = Num(i, k)
  <2>1. copy'[i] = v /\ ilock'[i] = None
    BY <1>6, <1>8 DEF BlocksInv, Typed
  <2> QED BY <1>1, <1>2, <1>5, <1>8, <2>1 DEF Cut, Num, Blocks!Addr, Blocks!Table
<1>18. Held(i)' = Held(i)
  BY <1>17 DEF Held, CutOff, Blocks!Place, Blocks!NINDIRECT
<1>19. Filled(i)'
  <2>1. ASSUME NEW x \in Nat, Reached(i, x)' PROVE Reached(i, x)
    <3>1. copy'[i].size = (IF o.off > copy[i].size THEN o.off ELSE copy[i].size) /\ ilock'[i] = None
      BY <1>5, <1>6, <1>8 DEF BlocksInv, Typed
    <3> QED BY <1>2, <1>3, <2>1, <3>1, Sizes DEF Reached
  <2>2. Filled(i)
    BY DEF BlocksInv, Files
  <2> QED BY <1>8, <1>17, <2>1, <2>2, FilledStays
<1> QED BY <1>1, <1>2, <1>5, <1>6, <1>7, <1>8, <1>13, <1>14, <1>15, <1>16, <1>18, <1>19, UnlockKeeps

LEMMA TruncEndKeeps == ASSUME BlocksInv, NEW p \in Proc, Blocks!TruncEnd(p) PROVE BlocksInv'
<1>1. Busy(p) /\ Blocks!At(p, "itrunc") /\ Blocks!Left(p) = {}
  BY DEF Blocks!TruncEnd, Busy
<1>2. PICK i \in Regular : i = Blocks!Ip(p) /\ ilock[i] = p /\ \A j \in Regular : j # i => ilock[j] # p
  BY <1>1, Alone
<1>3. PICK v : v = [copy[i] EXCEPT !.size = 0]
  OBVIOUS
<1>4. v \in InodeType /\ v.addrs = copy[i].addrs /\ v.size = 0
  <2>1. copy[i] \in InodeType /\ 0 \in 0 .. Blocks!MAXFILE * BSIZE
    BY Sizes DEF BlocksInv, Typed
  <2> QED BY <1>3, <2>1 DEF InodeType
<1>5. copy' = [copy EXCEPT ![i] = v]
  BY <1>2, <1>3 DEF Blocks!TruncEnd, BlocksInv, Typed
<1>6. dinode' = [dinode EXCEPT ![i] = v]
  <2>1. copy'[i] = v
    BY <1>5 DEF BlocksInv, Typed
  <2> QED BY <1>2, <2>1 DEF Blocks!TruncEnd, Blocks!Iupdate
<1>7. /\ logged' = [logged EXCEPT ![p] = @ \cup {<<"inode", i>>}]
      /\ ilock' = [ilock EXCEPT ![i] = None] /\ UNCHANGED <<bitmap, block, fd, file>>
  BY <1>2 DEF Blocks!TruncEnd
<1>8. PICK c \in OpType : op' = [op EXCEPT ![p] = c] /\ c.pc = "end_op"
  <2>1. [Blocks!Idle EXCEPT !.pc = "end_op"] \in OpType /\ [Blocks!Idle EXCEPT !.pc = "end_op"].pc = "end_op"
    BY DEF Blocks!Idle, OpType
  <2> QED BY <2>1 DEF Blocks!TruncEnd
<1>9. /\ op' \in [Proc -> OpType] /\ op'[p] = c /\ \A q \in Proc : q # p => op'[q] = op[q]
      /\ copy' \in [Regular -> InodeType] /\ dinode' \in [Regular -> InodeType]
      /\ ilock' \in [Regular -> Proc \cup {None}]
  BY <1>4, <1>5, <1>6, <1>7, <1>8 DEF BlocksInv, Typed
<1>10. /\ logged' \in [Proc -> SUBSET ({<<"bitmap">>} \cup {<<"block", b>> : b \in Blocks!Blk}
                                         \cup {<<"inode", j>> : j \in Regular})]
       /\ logged'[p] = logged[p] \cup {<<"inode", i>>} /\ \A q \in Proc : q # p => logged'[q] = logged[q]
  BY <1>7 DEF BlocksInv, Typed
<1>11. Typed'
  BY <1>7, <1>9, <1>10 DEF BlocksInv, Typed, UnitType, InodeType, FileType, OpType, Blocks!Blk,
     Blocks!OpenFile, Blocks!MAXFILE, Blocks!NINDIRECT, Blocks!Old
<1>12. Others(p)
  BY <1>7, <1>9, <1>10 DEF Others
<1>13. ~ Busy(p)' /\ FileOf(p)'
  <2>1. FileOf(p) /\ fd[p] # None
    BY <1>1, Alone DEF BlocksInv, CallsOK
  <2> QED BY <1>7, <1>8, <1>9, <2>1 DEF Busy, Writing, Blocks!At, FileOf, Blocks!Ip
<1>14. LogOf(p)'
  <2>1. logged[p] \subseteq {<<"bitmap">>}
    BY <1>1 DEF BlocksInv, CallsOK, LogOf
  <2>2. PICK S : S = {<<"bitmap">>} /\ IsFiniteSet(S) /\ Cardinality(S) = 1
    BY FS_Singleton
  <2>3. /\ IsFiniteSet(S \cup {<<"inode", i>>}) /\ Cardinality(S \cup {<<"inode", i>>}) <= 2
        /\ Cardinality(S \cup {<<"inode", i>>}) \in Nat
    <3>1. /\ IsFiniteSet(S \cup {<<"inode", i>>}) /\ Cardinality(S \cup {<<"inode", i>>}) \in Nat
          /\ Cardinality(S \cup {<<"inode", i>>}) <= Cardinality(S) + 1
      BY <2>2, AddOne
    <3> QED BY <2>2, <3>1
  <2>4. IsFiniteSet(logged'[p]) /\ Cardinality(logged'[p]) <= Cardinality(S \cup {<<"inode", i>>})
    <3>1. logged'[p] \subseteq S \cup {<<"inode", i>>}
      BY <1>10, <2>1, <2>2
    <3> QED BY <2>3, <3>1, FS_Subset
  <2>5. Cardinality(logged'[p]) \in Nat
    BY <2>4, FS_CardinalityType
  <2>6. Cardinality(logged'[p]) < MAXOPBLOCKS
    BY <2>3, <2>4, <2>5, Sizes
  <2> QED BY <1>8, <1>9, <2>4, <2>6 DEF LogOf, Blocks!At, Writing
<1>15. \A k \in Blocks!Place : Num(i, k) = 0
  <2>1. \A k \in 0 .. NDIRECT : copy[i].addrs[k] = 0
    <3>1. ASSUME NEW k \in 0 .. NDIRECT PROVE copy[i].addrs[k] = 0
      <4>1. k \in Blocks!Place /\ Blocks!Order(k) \in Nat /\ op[p].at \in Nat
        BY Orders, Sizes DEF BlocksInv, Typed, OpType
      <4>2. CASE Blocks!Order(k) < op[p].at
        BY <1>1, <1>2, <4>2 DEF BlocksInv, CallsOK, OpShape
      <4>3. CASE Blocks!Order(k) >= op[p].at
        <5>1. Blocks!Addr(copy[i], k) = 0
          BY <1>1, <1>2, <4>1, <4>3 DEF Blocks!Left
        <5> QED BY <5>1, Sizes DEF Blocks!Addr
      <4> QED BY <4>1, <4>2, <4>3
    <3> QED BY <3>1
  <2>2. NDIRECT \in 0 .. NDIRECT
    BY Sizes
  <2>3. Blocks!Table(copy[i]) = 0
    BY <2>1, <2>2 DEF Blocks!Table
  <2>4. ASSUME NEW k \in Blocks!Place PROVE Num(i, k) = 0
    <3>1. k \in 0 .. NDIRECT \/ k > NDIRECT
      BY Sizes DEF Blocks!Place
    <3> QED BY <2>1, <2>3, <3>1, NumOf, Sizes
  <2> QED BY <2>4
<1>16. \A k : Num(i, k)' = Num(i, k)
  <2>1. copy'[i] = v
    BY <1>5 DEF BlocksInv, Typed
  <2> QED BY <1>4, <1>7, <2>1 DEF Num, Blocks!Addr, Blocks!Table
<1>17. Held(i)' = Held(i)
  <2>1. Held(i) = {}
    BY <1>15 DEF Held
  <2>2. Held(i)' = {}
    BY <1>15, <1>16 DEF Held, Blocks!Place, Blocks!NINDIRECT
  <2> QED BY <2>1, <2>2
<1>18. Filled(i)'
  <2>1. copy'[i].size = 0 /\ ilock'[i] = None
    BY <1>4, <1>5, <1>7 DEF BlocksInv, Typed
  <2>2. \A x \in Nat : ~ Reached(i, x)'
    BY <2>1 DEF Reached
  <2>3. (0 .. Blocks!MAXFILE * BSIZE - 1)' \subseteq Nat
    BY Sizes DEF Blocks!MAXFILE, Blocks!NINDIRECT
  <2> QED BY <2>2, <2>3 DEF Filled
<1> QED BY <1>1, <1>2, <1>4, <1>5, <1>6, <1>7, <1>11, <1>12, <1>13, <1>14, <1>17, <1>18, UnlockKeeps

-----------------------------------------------------------------------------
(* Steps that write blocks.                                                *)

\* A step of p on the blocks of the inode that it has locked, which it keeps locked.
LEMMA BlockKeeps ==
    ASSUME BlocksInv, NEW p \in Proc, Busy(p), NEW i \in Regular, i = Blocks!Ip(p), Others(p), Typed',
           OpShape(p)', LogOf(p)', Busy(p)', UNCHANGED <<dinode, ilock, fd, file>>,
           Owners', \A j \in Regular : j # i => copy'[j] = copy[j],
           \A j \in Regular : j # i => \A k \in Blocks!Place : Num(j, k)' = Num(j, k),
           \A j \in Regular : j # i /\ ~ Cut(j) => \A k \in Blocks!Place : Num(j, k) # 0 /\ k # NDIRECT =>
               \A u \in 0 .. BSIZE - 1 :
                   block[Num(j, k)][u] = Blocks!Data => block'[Num(j, k)][u] = Blocks!Data,
           Filled(i)'
    PROVE  BlocksInv'
<1>1. ilock[i] = p /\ \A j \in Regular : j # i => ilock[j] # p
  BY Alone
<1>2. ASSUME NEW j \in Regular, j # i PROVE Stays(j) /\ HolderOf(j)' /\ Filled(j)'
  <2>1. Stays(j)
    <3>1. ilock[j] \in (Proc \ {p}) \cup {None}
      BY <1>1, <1>2 DEF BlocksInv, Typed
    <3>2. ilock[j] # None => op'[ilock[j]] = op[ilock[j]]
      BY <3>1 DEF Others
    <3>3. \A k \in Held(j) : Num(j, k)' = Num(j, k)
      BY <1>2 DEF Held
    <3> QED BY <1>2, <3>2, <3>3 DEF Stays
  <2>2. HolderOf(j)' /\ (Cut(j)' <=> Cut(j))
    BY <1>1, <1>2, <2>1, StaysHeld
  <2>3. CASE Cut(j)
    BY <2>1, <2>2, <2>3, CutStays
  <2>4. CASE ~ Cut(j)
    <3>1. Filled(j) /\ \A x \in Nat : Reached(j, x)' => Reached(j, x)
      BY <1>1, <1>2, <2>1, ReachedStays DEF BlocksInv, Files
    <3>2. \A k \in Blocks!Place : Num(j, k) # 0 =>
             /\ Num(j, k)' = Num(j, k)
             /\ k # NDIRECT => \A u \in 0 .. BSIZE - 1 :
                    block[Num(j, k)][u] = Blocks!Data => block'[Num(j, k)][u] = Blocks!Data
      BY <1>2, <2>4
    <3> QED BY <2>1, <2>2, <2>4, <3>1, <3>2, FilledStays
  <2> QED BY <2>1, <2>2, <2>3, <2>4
<1>3. HolderOf(i)' /\ LockOf(p)'
  BY <1>1 DEF HolderOf, LockOf, Blocks!Ip
<1>4. FileOf(p)'
  <2>1. fd[p] # None
    BY Alone
  <2> QED BY <2>1 DEF FileOf, Blocks!Ip
<1>5. Blocks!Updated'
  <2>1. ASSUME NEW j \in Regular, ilock'[j] = None PROVE j # i /\ copy'[j] = dinode'[j]
    <3>1. j # i
      BY <1>1, <2>1, Sizes
    <3> QED BY <2>1, <3>1 DEF BlocksInv, Blocks!Updated
  <2> QED BY <2>1 DEF Blocks!Updated
<1>6. CallsOK'
  <2>1. \A j \in Regular : ilock[j] \notin {p, None} => Stays(j)
    BY <1>1, <1>2
  <2>2. \A q \in Proc : q # p => FileOf(q)' /\ LockOf(q)' /\ OpShape(q)' /\ LogOf(q)'
    BY <2>1, OthersKept
  <2> QED BY <1>3, <1>4, <2>2 DEF CallsOK
<1> QED BY <1>2, <1>3, <1>5, <1>6 DEF BlocksInv, Files

LEMMA BlockOf ==
    ASSUME BlocksInv, NEW i \in Regular, NEW k \in Held(i)
    PROVE  k \in Blocks!Place /\ Num(i, k) \in Blocks!Blk /\ Num(i, k) \in bitmap /\ Num(i, k) # 0
  BY DEF BlocksInv, Owners, Numbers, InUse, Held

LEMMA WriteCopyKeeps == ASSUME BlocksInv, NEW p \in Proc, Blocks!WriteCopy(p) PROVE BlocksInv'
<1>1. Writing(p) /\ Busy(p) /\ Blocks!At(p, "writei") /\ ~ Blocks!At(p, "itrunc")
  BY DEF Blocks!WriteCopy, Writing, Blocks!At, Busy
<1>2. PICK i \in Regular : i = Blocks!Ip(p) /\ ilock[i] = p /\ \A j \in Regular : j # i => ilock[j] # p
  BY <1>1, Alone
<1>3. PICK a \in Nat, o \in Nat, e \in Nat : /\ a = file[fd[p]].off /\ o = op[p].off /\ e = op[p].end
                                             /\ a <= o /\ o < e /\ e <= Blocks!MAXFILE * BSIZE
  <2>1. OpShape(p) /\ op[p] \in OpType /\ file[fd[p]] \in FileType
    BY <1>1, Alone DEF BlocksInv, Typed, CallsOK
  <2>2. file[fd[p]].off \in Nat
    <3>1. file[fd[p]].off \in 0 .. Blocks!MAXFILE * BSIZE
      BY <2>1 DEF FileType
    <3> QED BY <3>1, Sizes
  <2> QED BY <1>1, <2>1, <2>2 DEF OpShape, OpType, Blocks!WriteCopy
<1>4. PICK r \in 0 .. BSIZE - 1 : r = o % BSIZE
  BY Sizes, Division
<1>5. PICK m \in Nat : m = (IF e - o < BSIZE - r THEN e - o ELSE BSIZE - r)
                       /\ o + m <= e /\ r + m <= BSIZE
  <2>1. (IF e - o < BSIZE - r THEN e - o ELSE BSIZE - r) \in Nat
    BY <1>3, Sizes
  <2> QED BY <1>3, <2>1, Sizes
<1>6. o \in 0 .. Blocks!MAXFILE * BSIZE - 1
  BY <1>3, Sizes
<1>7. PICK k \in Blocks!Place : k = Blocks!PlaceOf(o) /\ k # NDIRECT
  BY <1>6, PlaceIn
<1>8. ~ Cut(i) /\ k \in Held(i) /\ Blocks!Missing(copy[i], o) = {}
  <2>1. ~ Cut(i)
    BY <1>1, <1>2 DEF Cut
  <2>2. Blocks!Missing(copy[i], o) = {}
    BY <1>2, <1>3 DEF Blocks!WriteCopy
  <2> QED BY <1>7, <2>1, <2>2, MissingOf, Whole
<1>9. PICK b \in Blocks!Blk : b = Num(i, k)
  BY <1>8, BlockOf
<1>10. /\ block' = [block EXCEPT ![b] = [j \in DOMAIN @ |-> IF j \in r .. r + m - 1 THEN Blocks!Data ELSE @[j]]]
       /\ op' = [op EXCEPT ![p].off = @ + m]
       /\ logged' = [logged EXCEPT ![p] = @ \cup {<<"block", b>>}]
       /\ UNCHANGED <<bitmap, dinode, copy, ilock, fd, file>>
  BY <1>2, <1>3, <1>4, <1>5, <1>7, <1>9 DEF Blocks!WriteCopy, Num
<1>11. /\ block' \in [Blocks!Blk -> UnitType] /\ \A c \in Blocks!Blk : c # b => block'[c] = block[c]
       /\ \A u \in 0 .. BSIZE - 1 : block'[b][u] = IF u \in r .. r + m - 1 THEN Blocks!Data ELSE block[b][u]
  <2>1. block \in [Blocks!Blk -> UnitType] /\ block[b] \in UnitType
    BY DEF BlocksInv, Typed
  <2>2. Blocks!Data \in 0 .. Blocks!Old
    BY Sizes DEF Blocks!Data, Blocks!Old
  <2>3. PICK g : g = [j \in 0 .. BSIZE - 1 |-> IF j \in r .. r + m - 1 THEN Blocks!Data ELSE block[b][j]]
    OBVIOUS
  <2>4. g \in UnitType
    BY <2>1, <2>2, <2>3 DEF UnitType
  <2>5. block' = [block EXCEPT ![b] = g]
    BY <1>10, <2>1, <2>3 DEF UnitType
  <2> QED BY <2>1, <2>3, <2>4, <2>5
<1>12. /\ op' \in [Proc -> OpType] /\ \A q \in Proc : q # p => op'[q] = op[q]
       /\ op'[p].pc = op[p].pc /\ op'[p].off = o + m /\ op'[p].end = e /\ op'[p].n = op[p].n
  <2>1. op \in [Proc -> OpType] /\ op' = [op EXCEPT ![p].off = @ + m]
    BY <1>10 DEF BlocksInv, Typed
  <2>2. op[p].off = o /\ op[p].end = e /\ o + m \in Nat
    BY <1>3, <1>5
  <2>3. op'[p] = [op[p] EXCEPT !.off = o + m]
    BY <2>1, <2>2
  <2>4. op'[p] \in OpType /\ op'[p].pc = op[p].pc /\ op'[p].off = o + m
        /\ op'[p].end = op[p].end /\ op'[p].n = op[p].n
    BY <2>1, <2>2, <2>3 DEF OpType
  <2>5. \A q \in Proc : q # p => op'[q] = op[q]
    BY <2>1
  <2>6. op' \in [Proc -> OpType]
    <3>1. \A q \in Proc : op'[q] \in OpType
      BY <2>1, <2>4, <2>5
    <3>2. op' = [q \in Proc |-> op'[q]]
      BY <2>1
    <3> QED BY <3>1, <3>2
  <2> QED BY <2>2, <2>4, <2>5, <2>6
<1>13. /\ logged' \in [Proc -> SUBSET ({<<"bitmap">>} \cup {<<"block", c>> : c \in Blocks!Blk}
                                         \cup {<<"inode", j>> : j \in Regular})]
       /\ logged'[p] = logged[p] \cup {<<"block", b>>} /\ \A q \in Proc : q # p => logged'[q] = logged[q]
  BY <1>9, <1>10 DEF BlocksInv, Typed
<1>14. Typed'
  BY <1>10, <1>11, <1>12, <1>13 DEF BlocksInv, Typed, UnitType, InodeType, FileType, OpType,
     Blocks!Blk, Blocks!OpenFile, Blocks!MAXFILE, Blocks!NINDIRECT, Blocks!Old
<1>15. Others(p)
  BY <1>10, <1>12, <1>13 DEF Others
<1>16. \A j \in Regular : \A l \in Blocks!Place : Num(j, l)' = Num(j, l)
  <2>1. ASSUME NEW j \in Regular, NEW l \in Blocks!Place PROVE Num(j, l)' = Num(j, l)
    <3>1. CASE Blocks!Table(copy[j]) = 0
      BY <1>10, <3>1 DEF Num, Blocks!Addr, Blocks!Table
    <3>2. CASE Blocks!Table(copy[j]) # 0
      <4>1. Blocks!Table(copy[j]) \in Blocks!Blk /\ b # Blocks!Table(copy[j])
        BY <1>7, <1>8, <1>9, <3>2, TableHeld, TablesApart
      <4> QED BY <1>10, <1>11, <4>1 DEF Num, Blocks!Addr, Blocks!Table
    <3> QED BY <3>1, <3>2
  <2> QED BY <2>1
<1>17. Busy(p)' /\ ~ Cut(i)' /\ Writing(p)'
  BY <1>1, <1>2, <1>10, <1>12 DEF Busy, Writing, Blocks!At, Cut
<1>18. \A j \in Regular : Held(j)' = Held(j)
  <2>1. ASSUME NEW j \in Regular, NEW l \in Blocks!Place PROVE CutOff(j, l)' <=> CutOff(j, l)
    <3>1. CASE ilock[j] = p
      BY <1>1, <1>10, <1>12, <3>1 DEF CutOff, Cut, Blocks!At
    <3>2. CASE ilock[j] # p
      <4>1. ilock[j] # None => op'[ilock[j]] = op[ilock[j]]
        BY <1>12, <3>2 DEF BlocksInv, Typed
      <4> QED BY <1>10, <4>1 DEF CutOff, Cut, Blocks!At, Blocks!Order
    <3> QED BY <3>1, <3>2
  <2> QED BY <1>16, <2>1 DEF Held, Blocks!Place, Blocks!NINDIRECT
<1>19. Owners'
  BY <1>10, <1>16, <1>18, OwnersStay DEF BlocksInv
<1>20. OpShape(p)'
  <2>1. OpShape(p)
    BY DEF BlocksInv, CallsOK
  <2>2. a <= o + m /\ o + m <= e
    BY <1>3, <1>5
  <2>3. file'[fd'[p]].off = a /\ copy'[Blocks!Ip(p)'] = copy[Blocks!Ip(p)]
    BY <1>3, <1>10 DEF Blocks!Ip
  <2> QED BY <1>1, <1>3, <1>12, <1>17, <2>1, <2>2, <2>3 DEF OpShape, Writing, Blocks!At,
             ChunkBlocks, Blocks!MAXFILE, Blocks!NINDIRECT
<1>21. LogOf(p)'
  <2>1. Touched(p)' = Touched(p)
    BY <1>3, <1>10, <1>12 DEF Touched, Blocks!PlaceOf
  <2>2. Blocks!PlaceOf(o) \in Touched(p)
    <3>1. o \in a .. e - 1
      BY <1>3
    <3> QED BY <1>3, <3>1 DEF Touched
  <2>3. Touched(p) \subseteq Blocks!Place
    BY <1>1, TouchedIn
  <2>4. \A f \in logged[p] : f = <<"bitmap">> \/ \E l \in Touched(p) : Num(i, l) # 0 /\ f = <<"block", Num(i, l)>>
    BY <1>1, <1>2 DEF BlocksInv, CallsOK, LogOf
  <2>5. \A f \in logged'[p] : f = <<"bitmap">> \/ \E l \in Touched(p) : Num(i, l) # 0 /\ f = <<"block", Num(i, l)>>
    BY <1>7, <1>8, <1>9, <1>13, <2>2, <2>4, BlockOf
  <2>6. Blocks!Ip(p)' = i
    BY <1>2, <1>10 DEF Blocks!Ip
  <2> QED BY <1>16, <1>17, <2>1, <2>3, <2>5, <2>6 DEF LogOf, Writing, Blocks!At
<1>22. ASSUME NEW j \in Regular, NEW l \in Blocks!Place, Num(j, l) # 0, NEW u \in 0 .. BSIZE - 1,
              block[Num(j, l)][u] = Blocks!Data
       PROVE  block'[Num(j, l)][u] = Blocks!Data
  <2>1. Num(j, l) \in Blocks!Blk
    BY <1>22 DEF BlocksInv, Owners, Numbers
  <2> QED BY <1>11, <1>22, <2>1
<1>23. Filled(i)'
  <2>1. ASSUME NEW x \in 0 .. Blocks!MAXFILE * BSIZE - 1, Reached(i, x)', ~ Reached(i, x)
        PROVE  Blocks!Missing(copy[i], x) = {} /\ block'[Num(i, Blocks!PlaceOf(x))][x % BSIZE] = Blocks!Data
    <3>1. x \in Nat
      BY Sizes
    <3>2. o <= x /\ x < o + m
      BY <1>2, <1>3, <1>10, <1>12, <2>1, <3>1, Sizes DEF Reached
    <3>3. x \div BSIZE = o \div BSIZE /\ x % BSIZE = r + (x - o)
      <4>1. r + (x - o) < BSIZE
        BY <1>3, <1>4, <1>5, <3>1, <3>2, Sizes
      <4> QED BY <1>4, <3>1, <3>2, <4>1, SameBlock
    <3>4. Blocks!PlaceOf(x) = Blocks!PlaceOf(o)
      BY <3>3 DEF Blocks!PlaceOf
    <3>5. Blocks!Missing(copy[i], x) = {}
      BY <1>8, <3>4 DEF Blocks!Missing
    <3>6. x % BSIZE \in r .. r + m - 1 /\ x % BSIZE \in 0 .. BSIZE - 1
      <4>1. PICK y \in Nat : y = x - o /\ y < m
        BY <3>1, <3>2
      <4>2. x % BSIZE = r + y
        BY <3>3, <4>1
      <4> QED BY <1>4, <1>5, <4>1, <4>2, Sizes
    <3> QED BY <1>7, <1>9, <1>11, <3>4, <3>5, <3>6
  <2>2. Filled(i)
    BY DEF BlocksInv, Files
  <2> QED BY <1>8, <1>16, <1>22, <2>1, <2>2, FilledGrows
<1> QED BY <1>1, <1>2, <1>10, <1>14, <1>15, <1>16, <1>17, <1>19, <1>20, <1>21, <1>22, <1>23,
           BlockKeeps

\* A free block is found in the bitmap, when not all are in use.
LEMMA FreeOne ==
    ASSUME bitmap \in SUBSET Blocks!Blk, bitmap # Blocks!Blk PROVE Blocks!FreeBlock \in Blocks!Blk /\ Blocks!FreeBlock \notin bitmap
<1>1. Blocks!Blk \ bitmap # {} /\ Blocks!Blk \ bitmap \in SUBSET Nat
  <2>1. Blocks!Blk \subseteq Nat
    BY Sizes DEF Blocks!Blk
  <2>2. \E b \in Blocks!Blk : b \notin bitmap
    OBVIOUS
  <2> QED BY <2>1, <2>2
<1>2. \E b \in Blocks!Blk \ bitmap : \A c \in Blocks!Blk \ bitmap : b <= c
  BY <1>1, Least
<1> QED BY <1>2 DEF Blocks!FreeBlock

\* The place that bmap() fills first: the block of numbers goes before a number in it.
LEMMA FirstMissing ==
    ASSUME NEW i \in Regular, NEW x \in 0 .. Blocks!MAXFILE * BSIZE - 1, Blocks!Missing(copy[i], x) # {},
           NEW k, k = CHOOSE m \in Blocks!Missing(copy[i], x) : \A j \in Blocks!Missing(copy[i], x) : m <= j
    PROVE  /\ k \in Blocks!Place /\ Num(i, k) = 0 /\ k \in {NDIRECT, Blocks!PlaceOf(x)}
           /\ k > NDIRECT => Blocks!Table(copy[i]) # 0
<1>1. PICK l \in Blocks!Place : l = Blocks!PlaceOf(x) /\ l # NDIRECT
  BY PlaceIn
<1>2. PICK M : M = Blocks!Missing(copy[i], x)
  OBVIOUS
<1>3. M = {j \in {l} \cup (IF l > NDIRECT THEN {NDIRECT} ELSE {}) : Num(i, j) = 0}
  BY <1>1, <1>2 DEF Blocks!Missing, Num
<1>4. M \in SUBSET Nat /\ M \subseteq Blocks!Place
  <2>1. NDIRECT \in Blocks!Place /\ Blocks!Place \subseteq Nat
    BY Orders, Sizes DEF Blocks!Place
  <2> QED BY <1>1, <1>3, <2>1
<1>5. k \in M /\ \A j \in M : k <= j
  <2>1. \E a \in M : \A b \in M : a <= b
    BY <1>2, <1>4, Least
  <2> QED BY <1>2, <2>1
<1>6. k > NDIRECT => Blocks!Table(copy[i]) # 0
  <2>1. SUFFICES ASSUME k > NDIRECT, Blocks!Table(copy[i]) = 0 PROVE FALSE
    OBVIOUS
  <2>2. Num(i, NDIRECT) = 0 /\ k = l
    BY <1>3, <1>5, <2>1, NumOf, Orders, Sizes
  <2>3. NDIRECT \in M
    BY <1>3, <2>1, <2>2
  <2>4. k <= NDIRECT /\ k \in Nat
    BY <1>4, <1>5, <2>3
  <2> QED BY <2>1, <2>4, Sizes
<1>7. Num(i, k) = 0 /\ k \in {NDIRECT, l}
  BY <1>3, <1>5
<1> QED BY <1>1, <1>4, <1>5, <1>6, <1>7

\* What balloc() puts in a place, and nothing else, is new.
LEMMA FillNums ==
    ASSUME BlocksInv, NEW p \in Proc, NEW i \in Regular, ilock[i] = p, ~ Cut(i), NEW k \in Blocks!Place, Num(i, k) = 0,
           k > NDIRECT => Blocks!Table(copy[i]) # 0, bitmap # Blocks!Blk, Blocks!Fill(p, i, k), NEW b, b = Blocks!FreeBlock
    PROVE  /\ b \in Blocks!Blk /\ b \notin bitmap /\ bitmap' = bitmap \cup {b}
           /\ \A j \in Regular, l \in Blocks!Place : Num(j, l)' = IF j = i /\ l = k THEN b ELSE Num(j, l)
           /\ block' \in [Blocks!Blk -> UnitType] /\ copy' \in [Regular -> InodeType]
           /\ \A c \in Blocks!Blk : c # b /\ c # Blocks!Table(copy[i]) => block'[c] = block[c]
           /\ \A j \in Regular : j # i => copy'[j] = copy[j]
           /\ copy'[i].size = copy[i].size
           /\ \E S : /\ logged' = [logged EXCEPT ![p] = @ \cup S]
                     /\ S \subseteq {<<"bitmap">>, <<"block", b>>, <<"block", Blocks!Table(copy[i])>>}
                     /\ <<"block", Blocks!Table(copy[i])>> \in S => Blocks!Table(copy[i]) = b \/ Blocks!Table(copy[i]) # 0
<1>1. b \in Blocks!Blk /\ b \notin bitmap /\ bitmap' = bitmap \cup {b}
  BY FreeOne DEF Blocks!Fill, BlocksInv, Typed
<1>2. block \in [Blocks!Blk -> UnitType] /\ copy \in [Regular -> InodeType] /\ Blocks!Zeroed \in UnitType
      /\ \A u \in 0 .. BSIZE - 1 : Blocks!Zeroed[u] = 0
  BY Sizes DEF BlocksInv, Typed, Blocks!Zeroed, UnitType, Blocks!Old
<1>3. \A j \in Regular : Blocks!Table(copy[j]) # 0 => Blocks!Table(copy[j]) \in Blocks!Blk /\ Blocks!Table(copy[j]) # b
  <2>1. ASSUME NEW j \in Regular, Blocks!Table(copy[j]) # 0 PROVE Blocks!Table(copy[j]) \in Blocks!Blk /\ Blocks!Table(copy[j]) # b
    <3>1. Blocks!Table(copy[j]) \in bitmap
      BY <2>1, TableHeld DEF BlocksInv, Owners, InUse
    <3> QED BY <1>1, <2>1, <3>1, TableHeld
  <2> QED BY <2>1
<1>4. b # 0 /\ b \in 0 .. Blocks!Old
  BY <1>1, Sizes DEF Blocks!Blk, Blocks!Old
<1>5. CASE k <= NDIRECT
  <2>1. /\ copy' = [copy EXCEPT ![i].addrs[k] = b] /\ block' = [block EXCEPT ![b] = Blocks!Zeroed]
        /\ logged' = [logged EXCEPT ![p] = @ \cup {<<"bitmap">>, <<"block", b>>}]
    BY <1>5 DEF Blocks!Fill
  <2>2. k \in 0 .. NDIRECT
    BY <1>5, Sizes DEF Blocks!Place
  <2>3. /\ copy' \in [Regular -> InodeType] /\ \A j \in Regular : j # i => copy'[j] = copy[j]
        /\ copy'[i].size = copy[i].size
        /\ copy'[i].addrs[k] = b /\ \A l \in 0 .. NDIRECT : l # k => copy'[i].addrs[l] = copy[i].addrs[l]
    BY <1>1, <1>2, <2>1, <2>2 DEF InodeType
  <2>4. block' \in [Blocks!Blk -> UnitType] /\ block'[b] = Blocks!Zeroed /\ \A c \in Blocks!Blk : c # b => block'[c] = block[c]
    BY <1>1, <1>2, <2>1
  <2>5. ASSUME NEW j \in Regular, NEW l \in Blocks!Place PROVE Num(j, l)' = IF j = i /\ l = k THEN b ELSE Num(j, l)
    <3>1. CASE l <= NDIRECT
      <4>1. l \in 0 .. NDIRECT
        BY <3>1, Sizes DEF Blocks!Place
      <4>2. Num(j, l) = copy[j].addrs[l] /\ Num(j, l)' = copy'[j].addrs[l]
        BY <3>1 DEF Num, Blocks!Addr
      <4> QED BY <2>3, <4>1, <4>2
    <3>2. CASE l > NDIRECT
      <4>1. l # k /\ ~ (l <= NDIRECT) /\ l - NDIRECT - 1 \in 0 .. BSIZE - 1
        BY <1>5, <3>2, Orders, Sizes DEF Blocks!Place
      <4>2. CASE j = i /\ k = NDIRECT
        <5>1. Blocks!Table(copy[i]) = 0 /\ Blocks!Table(copy[i])' = b
          BY <2>3, <4>2, NumOf, Orders DEF Blocks!Table
        <5>2. Num(i, l)' = Blocks!Zeroed[l - NDIRECT - 1]
          BY <1>4, <2>4, <4>1, <5>1 DEF Num, Blocks!Addr
        <5>3. Num(i, l) = 0
          BY <3>2, <5>1, NumOf
        <5> QED BY <1>2, <4>1, <4>2, <5>2, <5>3
      <4>3. CASE ~ (j = i /\ k = NDIRECT)
        <5>1. Blocks!Table(copy[j])' = Blocks!Table(copy[j])
          BY <2>3, <4>3, Sizes DEF Blocks!Table
        <5>2. Num(j, l)' = Num(j, l)
          BY <1>3, <2>4, <4>1, <5>1 DEF Num, Blocks!Addr
        <5> QED BY <4>1, <5>2
      <4> QED BY <4>2, <4>3
    <3> QED BY <3>1, <3>2, Sizes DEF Blocks!Place
  <2>6. \E S : /\ logged' = [logged EXCEPT ![p] = @ \cup S]
               /\ S \subseteq {<<"bitmap">>, <<"block", b>>, <<"block", Blocks!Table(copy[i])>>}
               /\ <<"block", Blocks!Table(copy[i])>> \in S => Blocks!Table(copy[i]) = b \/ Blocks!Table(copy[i]) # 0
    <3>1. PICK S : S = {<<"bitmap">>, <<"block", b>>}
      OBVIOUS
    <3>2. <<"block", Blocks!Table(copy[i])>> \in S => Blocks!Table(copy[i]) = b
      BY <3>1
    <3>3. logged' = [logged EXCEPT ![p] = @ \cup S]
      BY <2>1, <3>1
    <3>4. S \subseteq {<<"bitmap">>, <<"block", b>>, <<"block", Blocks!Table(copy[i])>>}
      BY <3>1
    <3> QED BY <3>2, <3>3, <3>4
  <2> QED BY <1>1, <2>3, <2>4, <2>5, <2>6
<1>6. CASE k > NDIRECT
  <2>1. PICK t \in Blocks!Blk : t = Blocks!Table(copy[i]) /\ t # b /\ t # 0
    BY <1>3, <1>6
  <2>2. PICK d \in 0 .. BSIZE - 1 : d = k - NDIRECT - 1
    BY <1>6, Orders
  <2>3. ~ (k <= NDIRECT)
    BY <1>6, Sizes DEF Blocks!Place
  <2>4. /\ block' = [[block EXCEPT ![b] = Blocks!Zeroed] EXCEPT ![t][d] = b]
        /\ logged' = [logged EXCEPT ![p] = @ \cup {<<"bitmap">>, <<"block", b>>, <<"block", t>>}]
        /\ copy' = copy
    BY <2>1, <2>2, <2>3 DEF Blocks!Fill
  <2>5. /\ block' \in [Blocks!Blk -> UnitType]
        /\ \A c \in Blocks!Blk : c # b /\ c # t => block'[c] = block[c]
        /\ block'[t][d] = b /\ \A u \in 0 .. BSIZE - 1 : u # d => block'[t][u] = block[t][u]
    <3>1. PICK z : z = [block EXCEPT ![b] = Blocks!Zeroed]
      OBVIOUS
    <3>2. z \in [Blocks!Blk -> UnitType] /\ z[t] = block[t] /\ \A c \in Blocks!Blk : c # b => z[c] = block[c]
      BY <1>1, <1>2, <2>1, <3>1
    <3>3. block' = [z EXCEPT ![t][d] = b]
      BY <2>4, <3>1
    <3> QED BY <1>4, <2>1, <3>2, <3>3 DEF UnitType
  <2>6. ASSUME NEW j \in Regular, NEW l \in Blocks!Place PROVE Num(j, l)' = IF j = i /\ l = k THEN b ELSE Num(j, l)
    <3>1. CASE l <= NDIRECT
      <4>1. Num(j, l) = copy[j].addrs[l] /\ Num(j, l)' = copy'[j].addrs[l] /\ l # k
        BY <2>3, <3>1 DEF Num, Blocks!Addr
      <4> QED BY <2>4, <4>1
    <3>2. CASE l > NDIRECT
      <4>1. ~ (l <= NDIRECT) /\ l - NDIRECT - 1 \in 0 .. BSIZE - 1 /\ (l - NDIRECT - 1 = d <=> l = k)
        BY <1>6, <2>2, <3>2, Orders, Sizes DEF Blocks!Place
      <4>2. Blocks!Table(copy[j])' = Blocks!Table(copy[j])
        BY <2>4 DEF Blocks!Table
      <4>3. CASE j = i
        BY <2>1, <2>5, <4>1, <4>2, <4>3 DEF Num, Blocks!Addr
      <4>4. CASE j # i
        <5>1. Blocks!Table(copy[j]) # 0 => Blocks!Table(copy[j]) # t
          BY <2>1, <4>4, TableHeld, TablesApart
        <5> QED BY <1>3, <2>5, <4>1, <4>2, <4>4, <5>1 DEF Num, Blocks!Addr
      <4> QED BY <4>3, <4>4
    <3> QED BY <3>1, <3>2, Sizes DEF Blocks!Place
  <2>7. \E S : /\ logged' = [logged EXCEPT ![p] = @ \cup S]
               /\ S \subseteq {<<"bitmap">>, <<"block", b>>, <<"block", Blocks!Table(copy[i])>>}
               /\ <<"block", Blocks!Table(copy[i])>> \in S => Blocks!Table(copy[i]) = b \/ Blocks!Table(copy[i]) # 0
    BY <2>1, <2>4
  <2> QED BY <1>1, <1>2, <2>1, <2>4, <2>5, <2>6, <2>7, ZenonT(30)
<1> QED BY <1>5, <1>6, Sizes DEF Blocks!Place

LEMMA WriteBmapKeeps == ASSUME BlocksInv, NEW p \in Proc, Blocks!WriteBmap(p) PROVE BlocksInv'
<1>1. Writing(p) /\ Busy(p) /\ Blocks!At(p, "writei") /\ ~ Blocks!At(p, "itrunc")
  BY DEF Blocks!WriteBmap, Writing, Blocks!At, Busy
<1>2. PICK i \in Regular : i = Blocks!Ip(p) /\ ilock[i] = p /\ \A j \in Regular : j # i => ilock[j] # p
  BY <1>1, Alone
<1>3. CASE bitmap = Blocks!Blk
  BY <1>1, <1>3, WroteKeeps DEF Blocks!WriteBmap, Blocks!disk
<1>4. CASE bitmap # Blocks!Blk
  <2>1. PICK a \in Nat, o \in Nat, e \in Nat : /\ a = file[fd[p]].off /\ o = op[p].off /\ e = op[p].end
                                               /\ a <= o /\ o < e /\ e <= Blocks!MAXFILE * BSIZE
    <3>1. OpShape(p) /\ op[p] \in OpType /\ file[fd[p]] \in FileType
      BY <1>1, Alone DEF BlocksInv, Typed, CallsOK
    <3>2. file[fd[p]].off \in Nat
      <4>1. file[fd[p]].off \in 0 .. Blocks!MAXFILE * BSIZE
        BY <3>1 DEF FileType
      <4> QED BY <4>1, Sizes
    <3> QED BY <1>1, <3>1, <3>2 DEF OpShape, OpType, Blocks!WriteBmap
  <2>2. o \in 0 .. Blocks!MAXFILE * BSIZE - 1 /\ o \in a .. e - 1
    BY <2>1, Sizes
  <2>3. PICK k : k = CHOOSE m \in Blocks!Missing(copy[i], o) : \A j \in Blocks!Missing(copy[i], o) : m <= j
    OBVIOUS
  <2>4. /\ Blocks!Missing(copy[i], o) # {} /\ Blocks!Fill(p, i, k)
        /\ UNCHANGED <<op, dinode, ilock, fd, file>>
    BY <1>2, <1>4, <2>1, <2>3 DEF Blocks!WriteBmap
  <2>5. /\ k \in Blocks!Place /\ Num(i, k) = 0 /\ k \in {NDIRECT, Blocks!PlaceOf(o)}
        /\ k > NDIRECT => Blocks!Table(copy[i]) # 0
    BY <2>2, <2>3, <2>4, FirstMissing
  <2>6. ~ Cut(i)
    BY <1>1, <1>2 DEF Cut
  <2>7. PICK b : b = Blocks!FreeBlock
    OBVIOUS
  <2>8. /\ b \in Blocks!Blk /\ b \notin bitmap /\ bitmap' = bitmap \cup {b}
        /\ \A j \in Regular, l \in Blocks!Place : Num(j, l)' = IF j = i /\ l = k THEN b ELSE Num(j, l)
        /\ block' \in [Blocks!Blk -> UnitType] /\ copy' \in [Regular -> InodeType]
        /\ \A c \in Blocks!Blk : c # b /\ c # Blocks!Table(copy[i]) => block'[c] = block[c]
        /\ \A j \in Regular : j # i => copy'[j] = copy[j]
        /\ copy'[i].size = copy[i].size
        /\ \E S : /\ logged' = [logged EXCEPT ![p] = @ \cup S]
                  /\ S \subseteq {<<"bitmap">>, <<"block", b>>, <<"block", Blocks!Table(copy[i])>>}
                  /\ <<"block", Blocks!Table(copy[i])>> \in S => Blocks!Table(copy[i]) = b \/ Blocks!Table(copy[i]) # 0
    BY <1>2, <1>4, <2>4, <2>5, <2>6, <2>7, FillNums, SMTT(30)
  <2>9. PICK S : /\ logged' = [logged EXCEPT ![p] = @ \cup S]
                 /\ S \subseteq {<<"bitmap">>, <<"block", b>>, <<"block", Blocks!Table(copy[i])>>}
                 /\ <<"block", Blocks!Table(copy[i])>> \in S => Blocks!Table(copy[i]) = b \/ Blocks!Table(copy[i]) # 0
    BY <2>8
  <2>10. Blocks!Table(copy[i]) # 0 => Blocks!Table(copy[i]) \in Blocks!Blk
    BY TableHeld
  <2>11. b # 0
    BY <2>8, Sizes DEF Blocks!Blk
  <2>12. /\ logged' \in [Proc -> SUBSET ({<<"bitmap">>} \cup {<<"block", c>> : c \in Blocks!Blk}
                                            \cup {<<"inode", j>> : j \in Regular})]
         /\ logged'[p] = logged[p] \cup S /\ \A q \in Proc : q # p => logged'[q] = logged[q]
    <3>1. S \subseteq {<<"bitmap">>} \cup {<<"block", c>> : c \in Blocks!Blk}
      BY <2>8, <2>9, <2>10, <2>11
    <3> QED BY <2>9, <3>1 DEF BlocksInv, Typed
  <2>13. Typed'
    <3>1. bitmap' \in SUBSET Blocks!Blk
      BY <2>8 DEF BlocksInv, Typed
    <3> QED BY <2>4, <2>8, <2>12, <3>1 DEF BlocksInv, Typed, UnitType, InodeType, FileType,
               OpType, Blocks!Blk, Blocks!OpenFile, Blocks!MAXFILE, Blocks!NINDIRECT, Blocks!Old
  <2>14. Others(p)
    BY <2>4, <2>12 DEF Others
  <2>15. \A j \in Regular : \A l \in Blocks!Place : CutOff(j, l)' <=> CutOff(j, l)
    BY <2>4 DEF CutOff, Cut, Blocks!At, Blocks!Order, Blocks!MAXFILE, Blocks!NINDIRECT
  <2>16. /\ \A j \in Regular : j # i => Held(j)' = Held(j)
         /\ Held(i)' = Held(i) \cup {k}
    <3>1. ASSUME NEW j \in Regular, j # i PROVE Held(j)' = Held(j)
      BY <2>8, <2>15, <3>1 DEF Held, Blocks!Place, Blocks!NINDIRECT
    <3>2. \A l \in Blocks!Place : ~ CutOff(i, l)
      BY <2>6 DEF CutOff
    <3>3. Held(i)' = Held(i) \cup {k}
      BY <2>5, <2>8, <2>11, <2>15, <3>2 DEF Held, Blocks!Place, Blocks!NINDIRECT
    <3> QED BY <3>1, <3>3
  <2>17. Owners'
    <3>1. \A j \in Regular : \A l \in Held(j) : l \in Blocks!Place /\ Num(j, l) \in bitmap /\ Num(j, l) # 0
      BY BlockOf
    <3>2. k \notin Held(i)
      BY <2>5 DEF Held
    <3>3. \A j \in Regular : \A l \in Held(j) : Num(j, l)' = Num(j, l)
      BY <2>8, <3>1, <3>2
    <3>4. Num(i, k)' = b
      BY <2>5, <2>8
    <3>5. Numbers'
      BY <2>8 DEF BlocksInv, Owners, Numbers, Blocks!Blk, Blocks!Place, Blocks!NINDIRECT
    <3>6. InUse'
      <4>1. ASSUME NEW j \in Regular, NEW l \in Held(j)' PROVE Num(j, l)' \in bitmap'
        BY <2>8, <2>16, <3>1, <3>3, <3>4, <4>1
      <4> QED BY <4>1 DEF InUse
    <3>7. Sole'
      <4>1. ASSUME NEW j \in Regular, NEW h \in Regular, NEW l \in Held(j)', NEW m \in Held(h)', Num(j, l)' = Num(h, m)'
            PROVE  j = h /\ l = m
        <5>1. (j = i /\ l = k) \/ (l \in Held(j) /\ Num(j, l)' = Num(j, l) /\ Num(j, l)' # b)
          BY <2>8, <2>16, <3>1, <3>3
        <5>2. (h = i /\ m = k) \/ (m \in Held(h) /\ Num(h, m)' = Num(h, m) /\ Num(h, m)' # b)
          BY <2>8, <2>16, <3>1, <3>3
        <5> QED BY <3>4, <4>1, <5>1, <5>2 DEF BlocksInv, Owners, Sole
      <4> QED BY <4>1 DEF Sole
    <3>8. NoneLost'
      <4>1. ASSUME NEW c \in bitmap' PROVE \E j \in Regular : \E l \in Held(j)' : Num(j, l)' = c
        <5>1. CASE c = b
          BY <2>16, <3>4, <5>1
        <5>2. CASE c # b
          <6>0. PICK j \in Regular : \E l \in Held(j) : Num(j, l) = c
            BY <2>8, <5>2 DEF BlocksInv, Owners, NoneLost
          <6>1. PICK l \in Held(j) : Num(j, l) = c
            BY <6>0
          <6>2. l \in Held(j)' /\ Num(j, l)' = c
            BY <2>16, <3>3, <6>1
          <6> QED BY <6>2
        <5> QED BY <5>1, <5>2
      <4> QED BY <4>1 DEF NoneLost
    <3> QED BY <3>5, <3>6, <3>7, <3>8 DEF Owners
  <2>18. Busy(p)' /\ Writing(p)'
    BY <1>1, <2>4 DEF Busy, Writing, Blocks!At
  <2>19. OpShape(p)'
    <3>1. OpShape(p) /\ file'[fd'[p]] = file[fd[p]] /\ Blocks!Ip(p)' = i /\ op'[p] = op[p]
      BY <1>2, <2>4 DEF BlocksInv, CallsOK, Blocks!Ip
    <3> QED BY <1>1, <1>2, <2>8, <2>18, <3>1 DEF OpShape, Writing, Blocks!At, ChunkBlocks,
               Blocks!MAXFILE, Blocks!NINDIRECT
  <2>20. LogOf(p)'
    <3>1. Touched(p)' = Touched(p) /\ Blocks!Ip(p)' = i
      BY <1>2, <2>4 DEF Touched, Blocks!PlaceOf, Blocks!Ip
    <3>2. NDIRECT \in Touched(p) /\ k \in Touched(p) /\ Touched(p) \subseteq Blocks!Place
      BY <1>1, <2>1, <2>2, <2>5, TouchedIn DEF Touched
    <3>3. \A f \in logged[p] : f = <<"bitmap">> \/ \E l \in Touched(p) : Num(i, l) # 0 /\ f = <<"block", Num(i, l)>>
      BY <1>1, <1>2 DEF BlocksInv, CallsOK, LogOf
    <3>4. \A l \in Blocks!Place : Num(i, l) # 0 => Num(i, l)' = Num(i, l)
      BY <2>5, <2>8
    <3>5. \A f \in logged[p] : f = <<"bitmap">> \/ \E l \in Touched(p) : Num(i, l)' # 0 /\ f = <<"block", Num(i, l)'>>
      BY <3>2, <3>3, <3>4
    <3>6. \A f \in S : f = <<"bitmap">> \/ \E l \in Touched(p) : Num(i, l)' # 0 /\ f = <<"block", Num(i, l)'>>
      <4>1. Num(i, k)' = b
        BY <2>5, <2>8
      <4>2. Blocks!Table(copy[i]) # 0 => Num(i, NDIRECT)' = Blocks!Table(copy[i])
        BY <3>2, <3>4, NumOf, Orders
      <4> QED BY <2>9, <2>11, <3>2, <4>1, <4>2
    <3>7. \A f \in logged'[p] : f = <<"bitmap">> \/ \E l \in Touched(p) : Num(i, l)' # 0 /\ f = <<"block", Num(i, l)'>>
      BY <2>12, <3>5, <3>6
    <3>8. op'[p].pc \in {"writei", "wrote"}
      BY <2>18 DEF Writing
    <3> QED BY <3>1, <3>7, <3>8 DEF LogOf, Writing, Blocks!At
  <2>21. ASSUME NEW j \in Regular, ~ Cut(j), NEW l \in Blocks!Place, Num(j, l) # 0, l # NDIRECT, NEW u \in 0 .. BSIZE - 1,
                block[Num(j, l)][u] = Blocks!Data
         PROVE  block'[Num(j, l)][u] = Blocks!Data
    <3>1. l \in Held(j)
      BY <2>21, Whole
    <3>2. Num(j, l) \in Blocks!Blk /\ Num(j, l) # b
      BY <2>8, <3>1, BlockOf
    <3>3. Num(j, l) # Blocks!Table(copy[i])
      <4>1. CASE Blocks!Table(copy[i]) = 0
        BY <2>21, <4>1
      <4>2. CASE Blocks!Table(copy[i]) # 0
        BY <2>21, <3>1, <4>2, TablesApart
      <4> QED BY <4>1, <4>2
    <3> QED BY <2>8, <2>21, <3>2, <3>3
  <2>22. Filled(i)'
    <3>1. Filled(i) /\ \A x \in Nat : Reached(i, x)' => Reached(i, x)
      BY <2>4, <2>8 DEF BlocksInv, Files, Reached
    <3>2. \A l \in Blocks!Place : Num(i, l) # 0 =>
             /\ Num(i, l)' = Num(i, l)
             /\ l # NDIRECT => \A u \in 0 .. BSIZE - 1 :
                    block[Num(i, l)][u] = Blocks!Data => block'[Num(i, l)][u] = Blocks!Data
      BY <2>5, <2>6, <2>8, <2>21
    <3> QED BY <2>6, <3>1, <3>2, FilledStays
  <2>23. \A j \in Regular : j # i => \A l \in Blocks!Place : Num(j, l)' = Num(j, l)
    BY <2>8
  <2> QED BY <1>1, <1>2, <2>4, <2>8, <2>13, <2>14, <2>17, <2>18, <2>19, <2>20, <2>21, <2>22,
             <2>23, BlockKeeps
<1> QED BY <1>3, <1>4

\* What itrunc() takes next: it goes up through the places in order.
LEMMA FirstLeft ==
    ASSUME BlocksInv, NEW p \in Proc, Blocks!Left(p) # {},
           NEW k, k = CHOOSE m \in Blocks!Left(p) : \A j \in Blocks!Left(p) : Blocks!Order(m) <= Blocks!Order(j)
    PROVE  k \in Blocks!Left(p) /\ \A j \in Blocks!Left(p) : Blocks!Order(k) <= Blocks!Order(j)
<1>1. PICK S : S = {Blocks!Order(j) : j \in Blocks!Left(p)}
  OBVIOUS
<1>2. Blocks!Left(p) \subseteq Blocks!Place
  BY DEF Blocks!Left
<1>3. S # {} /\ S \in SUBSET Nat
  <2>1. ASSUME NEW j \in Blocks!Left(p) PROVE Blocks!Order(j) \in Nat
    <3>1. j \in Blocks!Place
      BY <1>2
    <3>2. Blocks!Order(j) \in 0 .. Blocks!MAXFILE
      BY <3>1, Orders
    <3> QED BY <3>2, Sizes
  <2> QED BY <1>1, <2>1
<1>4. PICK a \in S : \A b \in S : a <= b
  BY <1>3, Least
<1>5. \E l \in Blocks!Left(p) : \A j \in Blocks!Left(p) : Blocks!Order(l) <= Blocks!Order(j)
  BY <1>1, <1>4
<1> QED BY <1>5

LEMMA TruncBlockKeeps == ASSUME BlocksInv, NEW p \in Proc, Blocks!TruncBlock(p) PROVE BlocksInv'
<1>1. Busy(p) /\ Blocks!At(p, "itrunc") /\ ~ Writing(p) /\ Blocks!Left(p) # {}
  BY DEF Blocks!TruncBlock, Writing, Blocks!At, Busy
<1>2. PICK i \in Regular : i = Blocks!Ip(p) /\ ilock[i] = p /\ \A j \in Regular : j # i => ilock[j] # p
  BY <1>1, Alone
<1>3. Cut(i) /\ \A l : CutOff(i, l) <=> Blocks!Order(l) < op[p].at
  BY <1>1, <1>2, Sizes DEF Cut, CutOff
<1>4. PICK k : k = CHOOSE m \in Blocks!Left(p) : \A j \in Blocks!Left(p) : Blocks!Order(m) <= Blocks!Order(j)
  OBVIOUS
<1>5. k \in Blocks!Left(p) /\ \A j \in Blocks!Left(p) : Blocks!Order(k) <= Blocks!Order(j)
  BY <1>1, <1>4, FirstLeft
<1>6. Blocks!Left(p) = Held(i)
  <2>1. op[p].at \in Nat /\ \A l \in Blocks!Place : Blocks!Order(l) \in Nat
    BY Orders, Sizes DEF BlocksInv, Typed, OpType
  <2>2. ASSUME NEW l \in Blocks!Place PROVE Blocks!Order(l) >= op[p].at <=> ~ CutOff(i, l)
    BY <1>3, <2>1
  <2> QED BY <1>2, <2>2 DEF Blocks!Left, Held, Num
<1>7. PICK b \in Blocks!Blk : b = Num(i, k) /\ b \in bitmap /\ b # 0
  BY <1>5, <1>6, BlockOf
<1>8. k \in Blocks!Place /\ Blocks!Order(k) \in Nat
  <2>1. k \in Blocks!Place
    BY <1>5 DEF Blocks!Left
  <2>2. Blocks!Order(k) \in 0 .. Blocks!MAXFILE
    BY <2>1, Orders
  <2> QED BY <2>1, <2>2, Sizes
<1>9. /\ bitmap' = bitmap \ {b}
      /\ block' = [block EXCEPT ![b] = [u \in DOMAIN @ |-> IF @[u] = Blocks!Data THEN Blocks!Old ELSE @[u]]]
      /\ IF k <= NDIRECT THEN copy' = [copy EXCEPT ![i].addrs[k] = 0] ELSE UNCHANGED copy
      /\ op' = [op EXCEPT ![p].at = Blocks!Order(k) + 1]
      /\ logged' = [logged EXCEPT ![p] = @ \cup {<<"bitmap">>}]
      /\ UNCHANGED <<dinode, ilock, fd, file>>
  BY <1>2, <1>4, <1>7 DEF Blocks!TruncBlock, Blocks!Given, Num
<1>10. block' \in [Blocks!Blk -> UnitType] /\ \A c \in Blocks!Blk : c # b => block'[c] = block[c]
  <2>1. block \in [Blocks!Blk -> UnitType] /\ block[b] \in UnitType
    BY DEF BlocksInv, Typed
  <2>2. Blocks!Old \in 0 .. Blocks!Old
    BY Sizes DEF Blocks!Old
  <2>3. PICK g : g = [u \in 0 .. BSIZE - 1 |-> IF block[b][u] = Blocks!Data THEN Blocks!Old ELSE block[b][u]]
    OBVIOUS
  <2>4. g \in UnitType
    BY <2>1, <2>2, <2>3 DEF UnitType
  <2>5. block' = [block EXCEPT ![b] = g]
    BY <1>9, <2>1, <2>3 DEF UnitType
  <2> QED BY <2>1, <2>4, <2>5
<1>11. /\ copy' \in [Regular -> InodeType] /\ \A j \in Regular : j # i => copy'[j] = copy[j]
       /\ \A l \in 0 .. NDIRECT : copy'[i].addrs[l] = IF l = k THEN 0 ELSE copy[i].addrs[l]
  <2>1. CASE k <= NDIRECT
    <3>1. k \in 0 .. NDIRECT
      BY <1>8, <2>1, Sizes DEF Blocks!Place
    <3>2. copy' = [copy EXCEPT ![i].addrs[k] = 0] /\ copy \in [Regular -> InodeType]
      BY <1>9, <2>1 DEF BlocksInv, Typed
    <3> QED BY <3>1, <3>2 DEF InodeType
  <2>2. CASE ~ (k <= NDIRECT)
    <3>1. k \notin 0 .. NDIRECT
      BY <1>8, <2>2, Sizes DEF Blocks!Place
    <3> QED BY <1>9, <2>2, <3>1 DEF BlocksInv, Typed
  <2> QED BY <2>1, <2>2
<1>12. /\ op' \in [Proc -> OpType] /\ \A q \in Proc : q # p => op'[q] = op[q]
       /\ op'[p].pc = "itrunc" /\ op'[p].at = Blocks!Order(k) + 1 /\ op'[p].off = op[p].off
  <2>1. Blocks!Order(k) + 1 \in Nat
    BY <1>8
  <2> QED BY <1>1, <1>9, <2>1 DEF BlocksInv, Typed, OpType, Blocks!At
<1>13. /\ logged' \in [Proc -> SUBSET ({<<"bitmap">>} \cup {<<"block", c>> : c \in Blocks!Blk}
                                          \cup {<<"inode", j>> : j \in Regular})]
       /\ logged'[p] = logged[p] \cup {<<"bitmap">>} /\ \A q \in Proc : q # p => logged'[q] = logged[q]
  BY <1>9 DEF BlocksInv, Typed
<1>14. Typed'
  BY <1>9, <1>10, <1>11, <1>12, <1>13 DEF BlocksInv, Typed, UnitType, InodeType, FileType,
     OpType, Blocks!Blk, Blocks!OpenFile, Blocks!MAXFILE, Blocks!NINDIRECT, Blocks!Old
<1>15. Others(p)
  BY <1>9, <1>12, <1>13 DEF Others
<1>16. ASSUME NEW j \in Regular, j # i, NEW l \in Blocks!Place PROVE Num(j, l)' = Num(j, l)
  <2>1. CASE Blocks!Table(copy[j]) = 0
    BY <1>11, <1>16, <2>1 DEF Num, Blocks!Addr, Blocks!Table
  <2>2. CASE Blocks!Table(copy[j]) # 0
    <3>1. Blocks!Table(copy[j]) \in Blocks!Blk /\ b # Blocks!Table(copy[j])
      BY <1>5, <1>6, <1>7, <1>16, <2>2, TableHeld, TablesApart
    <3> QED BY <1>10, <1>11, <1>16, <3>1 DEF Num, Blocks!Addr, Blocks!Table
  <2> QED BY <2>1, <2>2
<1>17. ASSUME NEW l \in Blocks!Place
       PROVE  Num(i, l)' = IF l = k \/ (k = NDIRECT /\ l > NDIRECT) THEN IF l = k /\ k > NDIRECT THEN b ELSE 0
                           ELSE Num(i, l)
  <2>1. CASE l <= NDIRECT
    <3>1. l \in 0 .. NDIRECT /\ ~ (l > NDIRECT)
      BY <2>1, Sizes DEF Blocks!Place
    <3>2. Num(i, l) = copy[i].addrs[l] /\ Num(i, l)' = copy'[i].addrs[l]
      BY <2>1 DEF Num, Blocks!Addr
    <3>3. ~ (l = k /\ k > NDIRECT)
      BY <3>1
    <3> QED BY <1>11, <3>1, <3>2, <3>3
  <2>2. CASE l > NDIRECT
    <3>1. ~ (l <= NDIRECT) /\ l # NDIRECT /\ l - NDIRECT - 1 \in 0 .. BSIZE - 1 /\ NDIRECT \in 0 .. NDIRECT
      BY <2>2, Orders, Sizes DEF Blocks!Place
    <3>2. CASE k = NDIRECT
      <4>1. Blocks!Table(copy[i])' = 0
        BY <1>11, <3>1, <3>2 DEF Blocks!Table
      <4>2. Num(i, l)' = 0
        BY <3>1, <4>1 DEF Num, Blocks!Addr
      <4> QED BY <2>2, <3>1, <3>2, <4>2
    <3>3. CASE k # NDIRECT
      <4>1. Blocks!Table(copy[i])' = Blocks!Table(copy[i])
        BY <1>11, <3>1, <3>3 DEF Blocks!Table
      <4>2. Num(i, l)' = Num(i, l)
        <5>1. CASE Blocks!Table(copy[i]) = 0
          BY <3>1, <4>1, <5>1 DEF Num, Blocks!Addr
        <5>2. CASE Blocks!Table(copy[i]) # 0
          <6>1. Blocks!Table(copy[i]) \in Blocks!Blk /\ b # Blocks!Table(copy[i])
            BY <1>5, <1>6, <1>7, <3>3, <5>2, TableHeld, TablesApart
          <6> QED BY <1>10, <3>1, <4>1, <6>1 DEF Num, Blocks!Addr
        <5> QED BY <5>1, <5>2
      <4> QED BY <1>7, <2>2, <3>3, <4>2
    <3> QED BY <3>2, <3>3
  <2> QED BY <2>1, <2>2, Sizes DEF Blocks!Place
<1>18. Held(i)' = Held(i) \ {k}
  <2>1. \A l : CutOff(i, l)' <=> Blocks!Order(l) < Blocks!Order(k) + 1
    BY <1>2, <1>9, <1>12, Sizes DEF Cut, CutOff, Blocks!At, Blocks!Order, Blocks!MAXFILE,
       Blocks!NINDIRECT
  <2>2. op[p].at \in Nat /\ op[p].at <= Blocks!Order(k)
    BY <1>5 DEF BlocksInv, Typed, OpType, Blocks!Left
  <2>3. ASSUME NEW l \in Blocks!Place PROVE l \in Held(i)' <=> l \in Held(i) \ {k}
    <3>1. Blocks!Order(l) \in 0 .. Blocks!MAXFILE /\ Blocks!Order(k) \in 0 .. Blocks!MAXFILE /\ (Blocks!Order(l) = Blocks!Order(k) <=> l = k)
          /\ (Blocks!Order(l) = Blocks!MAXFILE <=> l = NDIRECT) /\ (Blocks!Order(k) = Blocks!MAXFILE <=> k = NDIRECT)
      BY <1>8, Orders
    <3>2. l \in Held(i)' <=> Num(i, l)' # 0 /\ ~ CutOff(i, l)'
      BY DEF Held, Blocks!Place, Blocks!NINDIRECT
    <3>3. l \in Held(i) <=> Num(i, l) # 0 /\ ~ CutOff(i, l)
      BY DEF Held
    <3>4. PICK x \in Nat, y \in Nat, z \in Nat : x = Blocks!Order(l) /\ y = Blocks!Order(k) /\ z = op[p].at /\ z <= y
      BY <2>2, <3>1, Sizes
    <3>5. (CutOff(i, l)' <=> x < y + 1) /\ (CutOff(i, l) <=> x < z)
      BY <1>3, <2>1, <3>4
    <3>6. ASSUME l \in Held(i)' PROVE l \in Held(i) \ {k}
      <4>1. Num(i, l)' # 0 /\ x >= y + 1
        BY <3>2, <3>4, <3>5, <3>6
      <4>2. l # k /\ x >= z
        BY <3>1, <3>4, <4>1
      <4>3. Num(i, l) # 0
        BY <1>17, <4>1, <4>2
      <4> QED BY <3>3, <3>4, <3>5, <4>2, <4>3
    <3>7. ASSUME l \in Held(i) \ {k} PROVE l \in Held(i)'
      <4>1. Num(i, l) # 0 /\ y <= x /\ l # k
        BY <1>5, <1>6, <3>3, <3>4, <3>7
      <4>2. x # y /\ x >= y + 1
        BY <3>1, <3>4, <4>1
      <4>3. k # NDIRECT
        <5>1. ASSUME k = NDIRECT PROVE FALSE
          BY <3>1, <3>4, <4>2, <5>1, Sizes
        <5> QED BY <5>1
      <4>4. Num(i, l)' = Num(i, l)
        BY <1>17, <4>1, <4>3
      <4> QED BY <3>2, <3>4, <3>5, <4>1, <4>2, <4>4
    <3> QED BY <3>6, <3>7
  <2>4. Held(i)' \subseteq Blocks!Place /\ Held(i) \subseteq Blocks!Place
    BY DEF Held, Blocks!Place, Blocks!NINDIRECT
  <2> QED BY <2>3, <2>4
<1>19. ASSUME NEW j \in Regular, j # i PROVE Held(j)' = Held(j)
  <2>1. ASSUME NEW l \in Blocks!Place PROVE CutOff(j, l)' <=> CutOff(j, l)
    <3>1. ilock[j] # p /\ (ilock[j] # None => op'[ilock[j]] = op[ilock[j]])
      BY <1>2, <1>12, <1>19 DEF BlocksInv, Typed
    <3> QED BY <1>9, <3>1 DEF CutOff, Cut, Blocks!At, Blocks!Order, Blocks!MAXFILE, Blocks!NINDIRECT
  <2> QED BY <1>16, <1>19, <2>1 DEF Held, Blocks!Place, Blocks!NINDIRECT
<1>20. \A j \in Regular : \A l \in Held(j)' : l \in Held(j) /\ Num(j, l)' = Num(j, l) /\ Num(j, l) # b
  <2>1. ASSUME NEW j \in Regular, NEW l \in Held(j)'
        PROVE  l \in Held(j) /\ Num(j, l)' = Num(j, l) /\ Num(j, l) # b
    <3>1. l \in Held(j) /\ ~ (j = i /\ l = k)
      BY <1>18, <1>19, <2>1
    <3>2. Num(j, l) # b
      BY <1>5, <1>6, <1>7, <3>1 DEF BlocksInv, Owners, Sole
    <3>3. Num(j, l)' = Num(j, l)
      <4>1. l \in Blocks!Place /\ Num(j, l)' # 0
        BY <2>1 DEF Held, Blocks!Place, Blocks!NINDIRECT
      <4>2. CASE j # i
        BY <1>16, <4>1, <4>2
      <4>3. CASE j = i
        BY <1>17, <3>1, <4>1, <4>3
      <4> QED BY <4>2, <4>3
    <3> QED BY <3>1, <3>2, <3>3
  <2> QED BY <2>1
<1>21. Owners'
  <2>1. Numbers'
    <3>1. ASSUME NEW j \in Regular, NEW l \in Blocks!Place PROVE Num(j, l)' \in {0} \cup Blocks!Blk
      <4>1. Num(j, l) \in {0} \cup Blocks!Blk
        BY DEF BlocksInv, Owners, Numbers
      <4> QED BY <1>7, <1>16, <1>17, <4>1
    <3> QED BY <3>1 DEF Numbers, Blocks!Blk, Blocks!Place, Blocks!NINDIRECT
  <2>2. InUse'
    <3>1. ASSUME NEW j \in Regular, NEW l \in Held(j)' PROVE Num(j, l)' \in bitmap'
      BY <1>9, <1>20, BlockOf
    <3> QED BY <3>1 DEF InUse
  <2>3. Sole'
    <3>1. ASSUME NEW j \in Regular, NEW h \in Regular, NEW l \in Held(j)', NEW m \in Held(h)', Num(j, l)' = Num(h, m)'
          PROVE  j = h /\ l = m
      BY <1>20, <3>1 DEF BlocksInv, Owners, Sole
    <3> QED BY <3>1 DEF Sole
  <2>4. NoneLost'
    <3>1. ASSUME NEW c \in bitmap' PROVE \E j \in Regular : \E l \in Held(j)' : Num(j, l)' = c
      <4>1. c \in bitmap /\ c # b
        BY <1>9
      <4>2. PICK j \in Regular : \E l \in Held(j) : Num(j, l) = c
        BY <4>1 DEF BlocksInv, Owners, NoneLost
      <4>3. PICK l \in Held(j) : Num(j, l) = c
        BY <4>2
      <4>4. l \in Held(j)'
        BY <1>7, <1>18, <1>19, <4>1, <4>3
      <4>5. Num(j, l)' = c
        BY <1>20, <4>3, <4>4
      <4> QED BY <4>4, <4>5
    <3> QED BY <3>1 DEF NoneLost
  <2> QED BY <2>1, <2>2, <2>3, <2>4 DEF Owners
<1>22. Busy(p)' /\ Blocks!At(p, "itrunc")' /\ ~ Writing(p)'
  BY <1>12 DEF Busy, Blocks!At, Writing
<1>23. OpShape(p)'
  <2>1. op[p].off = 0 /\ \A l \in 0 .. NDIRECT : Blocks!Order(l) < op[p].at => copy[i].addrs[l] = 0
    BY <1>1, <1>2 DEF BlocksInv, CallsOK, OpShape
  <2>2. ASSUME NEW l \in 0 .. NDIRECT, Blocks!Order(l) < Blocks!Order(k) + 1 PROVE copy'[i].addrs[l] = 0
    <3>1. l \in Blocks!Place /\ Blocks!Order(l) \in Nat /\ op[p].at \in Nat
      BY Orders, Sizes DEF BlocksInv, Typed, OpType
    <3>2. CASE l = k
      BY <1>11, <3>2
    <3>3. CASE l # k
      <4>1. Blocks!Order(l) # Blocks!Order(k) /\ Blocks!Order(l) < Blocks!Order(k)
        BY <1>8, <2>2, <3>1, <3>3, Orders
      <4>2. l \notin Blocks!Left(p)
        BY <1>5, <1>8, <3>1, <4>1
      <4>3. Blocks!Order(l) < op[p].at \/ Blocks!Addr(copy[i], l) = 0
        BY <1>2, <3>1, <4>2 DEF Blocks!Left
      <4>4. Blocks!Addr(copy[i], l) = copy[i].addrs[l]
        BY Sizes DEF Blocks!Addr
      <4> QED BY <1>11, <2>1, <3>3, <4>3, <4>4
    <3> QED BY <3>2, <3>3
  <2>3. Blocks!Ip(p)' = i
    BY <1>2, <1>9 DEF Blocks!Ip
  <2>4. \A l \in 0 .. NDIRECT : Blocks!Order(l)' = Blocks!Order(l)
    BY DEF Blocks!Order, Blocks!MAXFILE, Blocks!NINDIRECT
  <2> QED BY <1>12, <1>22, <2>1, <2>2, <2>3, <2>4 DEF OpShape
<1>24. LogOf(p)'
  <2>1. logged[p] \subseteq {<<"bitmap">>}
    BY <1>1 DEF BlocksInv, CallsOK, LogOf
  <2> QED BY <1>12, <1>13, <2>1 DEF LogOf, Writing, Blocks!At
<1>25. ASSUME NEW j \in Regular, j # i, ~ Cut(j), NEW l \in Blocks!Place, Num(j, l) # 0, l # NDIRECT,
              NEW u \in 0 .. BSIZE - 1, block[Num(j, l)][u] = Blocks!Data
       PROVE  block'[Num(j, l)][u] = Blocks!Data
  <2>1. l \in Held(j)
    BY <1>25, Whole
  <2>2. Num(j, l) \in Blocks!Blk /\ Num(j, l) # b
    BY <1>19, <1>20, <1>25, <2>1, BlockOf
  <2> QED BY <1>10, <1>25, <2>2
<1>26. Filled(i)'
  <2>1. Cut(i)'
    BY <1>2, <1>9, <1>22, Sizes DEF Cut
  <2> QED BY <2>1, CutStays
<1> QED BY <1>1, <1>2, <1>9, <1>11, <1>14, <1>15, <1>16, <1>21, <1>22, <1>23, <1>24, <1>25,
           <1>26, BlockKeeps

-----------------------------------------------------------------------------
(* The theorems.                                                           *)

LEMMA InitHolds == ASSUME Blocks!Init PROVE BlocksInv
<1>1. PICK v : v = [size |-> 0, addrs |-> [k \in 0 .. NDIRECT |-> 0]]
  OBVIOUS
<1>2. v \in InodeType /\ v.size = 0 /\ \A k \in 0 .. NDIRECT : v.addrs[k] = 0
  BY <1>1, Sizes DEF InodeType
<1>3. \A i \in Regular : copy[i] = v /\ dinode[i] = v
  BY <1>1 DEF Blocks!Init
<1>4. Blocks!Zeroed \in UnitType /\ Blocks!Idle \in OpType /\ Blocks!Idle.pc = "idle" /\ Blocks!NoFile \in FileType
  <2>1. 0 \in 0 .. Blocks!MAXFILE * BSIZE /\ 0 \in 0 .. Blocks!Old
    BY Sizes DEF Blocks!Old
  <2> QED BY <2>1 DEF Blocks!Zeroed, UnitType, Blocks!Idle, OpType, Blocks!NoFile, FileType
<1>5. Typed
  BY <1>1, <1>2, <1>4 DEF Blocks!Init, Typed
<1>6. \A i \in Regular, k \in Blocks!Place : Num(i, k) = 0
  <2>1. ASSUME NEW i \in Regular, NEW k \in Blocks!Place PROVE Num(i, k) = 0
    <3>1. NDIRECT \in 0 .. NDIRECT /\ (k \in 0 .. NDIRECT \/ k > NDIRECT)
      BY Sizes DEF Blocks!Place
    <3>2. Blocks!Table(copy[i]) = 0
      BY <1>2, <1>3, <3>1 DEF Blocks!Table
    <3> QED BY <1>2, <1>3, <3>1, <3>2, NumOf, Sizes
  <2> QED BY <2>1
<1>7. Owners
  BY <1>6 DEF Blocks!Init, Owners, Numbers, InUse, Sole, NoneLost, Held
<1>8. \A p \in Proc : op[p].pc = "idle" /\ fd[p] = None /\ logged[p] = {}
  BY <1>4 DEF Blocks!Init
<1>9. CallsOK
  BY <1>8 DEF CallsOK, FileOf, LockOf, OpShape, LogOf, Busy, Writing, Blocks!At
<1>10. \A i \in Regular : ilock[i] = None
  BY DEF Blocks!Init
<1>11. Files
  <2>1. \A i \in Regular : \A x \in 0 .. Blocks!MAXFILE * BSIZE - 1 : ~ Reached(i, x)
    BY <1>2, <1>3, <1>10, Sizes DEF Reached
  <2> QED BY <1>10, <2>1 DEF Files, HolderOf, Filled
<1>12. Blocks!Updated
  BY <1>3 DEF Blocks!Updated
<1> QED BY <1>5, <1>7, <1>9, <1>11, <1>12 DEF BlocksInv

LEMMA NextHolds == ASSUME BlocksInv, Blocks!Next PROVE BlocksInv'
<1>1. ASSUME NEW p \in Proc, Blocks!WriteBegin(p) PROVE BlocksInv'
  BY <1>1, WriteBeginKeeps
<1>2. ASSUME NEW p \in Proc, Blocks!WriteBmap(p) PROVE BlocksInv'
  BY <1>2, WriteBmapKeeps
<1>3. ASSUME NEW p \in Proc, Blocks!WriteCopy(p) PROVE BlocksInv'
  BY <1>3, WriteCopyKeeps
<1>4. ASSUME NEW p \in Proc, Blocks!WriteFault(p) PROVE BlocksInv'
  BY <1>4, WriteFaultKeeps
<1>5. ASSUME NEW p \in Proc, Blocks!WriteEnd(p) PROVE BlocksInv'
  BY <1>5, WriteEndKeeps
<1>6. ASSUME NEW p \in Proc, Blocks!EndOp(p) PROVE BlocksInv'
  BY <1>6, EndOpKeeps
<1>7. ASSUME NEW p \in Proc, Blocks!Read(p) PROVE BlocksInv'
  BY <1>7, ReadKeeps
<1>8. ASSUME NEW p \in Proc, Blocks!Open(p) PROVE BlocksInv'
  BY <1>8, OpenKeeps
<1>9. ASSUME NEW p \in Proc, Blocks!TruncBlock(p) PROVE BlocksInv'
  BY <1>9, TruncBlockKeeps
<1>10. ASSUME NEW p \in Proc, Blocks!TruncEnd(p) PROVE BlocksInv'
  BY <1>10, TruncEndKeeps
<1>11. ASSUME NEW p \in Proc, NEW q \in Proc, Blocks!Share(p, q) PROVE BlocksInv'
  BY <1>11, ShareKeeps
<1>12. ASSUME NEW i \in Regular, Blocks!Recycle(i) PROVE BlocksInv'
  BY <1>12, RecycleKeeps
<1> QED BY <1>1, <1>2, <1>3, <1>4, <1>5, <1>6, <1>7, <1>8, <1>9, <1>10, <1>11, <1>12 DEF Blocks!Next

THEOREM BlocksInvariant == Blocks!Spec => []BlocksInv
<1>1. Blocks!Init => BlocksInv
  BY InitHolds
<1>2. BlocksInv /\ [Blocks!Next]_(Blocks!vars) => BlocksInv'
  BY NextHolds, StutterKeeps
<1> QED BY <1>1, <1>2, PTL DEF Blocks!Spec

LEMMA LogsFit == ASSUME BlocksInv PROVE Blocks!FitsLog
<1>1. SUFFICES ASSUME NEW p \in Proc PROVE Cardinality(logged[p]) < MAXOPBLOCKS
  BY SameCount DEF Blocks!FitsLog
<1>2. LogOf(p) /\ op[p].pc \in {"idle", "writei", "wrote", "end_op", "write", "itrunc"}
  BY DEF BlocksInv, CallsOK, Typed, OpType
<1>3. CASE Writing(p)
  <2>1. CASE logged[p] = {}
    BY <2>1, FS_EmptySet, Sizes
  <2>2. CASE logged[p] # {}
    <3>1. PICK e \in logged[p] : logged[p] \cup {e} = logged[p]
      BY <2>2
    <3> QED BY <1>3, <3>1, WriteFits
  <2> QED BY <2>1, <2>2
<1>4. CASE logged[p] \subseteq {<<"bitmap">>}
  <2>1. PICK S : S = {<<"bitmap">>} /\ IsFiniteSet(S) /\ Cardinality(S) = 1
    BY FS_Singleton
  <2>2. Cardinality(logged[p]) <= 1 /\ Cardinality(logged[p]) \in Nat
    BY <1>4, <2>1, FS_Subset, FS_CardinalityType
  <2> QED BY <2>2, Sizes
<1>5. CASE Blocks!At(p, "end_op")
  BY <1>2, <1>5 DEF LogOf
<1> QED BY <1>2, <1>3, <1>4, <1>5 DEF LogOf, Writing, Blocks!At

LEMMA FilesAreIntact == ASSUME BlocksInv PROVE Blocks!FilesIntact
<1>1. Blocks!Updated
  BY DEF BlocksInv
<1>2. Blocks!Written
  <2>1. SUFFICES ASSUME NEW i \in Regular, ilock[i] = None, NEW off \in 0 .. copy[i].size - 1
                 PROVE  /\ Blocks!Missing(copy[i], off) = {}
                        /\ block[Blocks!Addr(copy[i], Blocks!PlaceOf(off))][off % BSIZE] = Blocks!Data
    BY DEF Blocks!Written
  <2>2. copy[i].size \in 0 .. Blocks!MAXFILE * BSIZE
    BY DEF BlocksInv, Typed, InodeType
  <2>3. off \in 0 .. Blocks!MAXFILE * BSIZE - 1 /\ off < copy[i].size
    BY <2>2, Sizes
  <2>4. Filled(i) /\ ~ Cut(i) /\ Reached(i, off)
    BY <2>1, <2>3 DEF BlocksInv, Files, Cut, Reached
  <2> QED BY <2>3, <2>4 DEF Filled, Num
<1>3. Blocks!Settled => Blocks!Owned
  <2>1. SUFFICES ASSUME Blocks!Settled, NEW b \in Blocks!Blk
                 PROVE  Cardinality({ik \in Regular \X Blocks!Place : Blocks!Addr(dinode[ik[1]], ik[2]) = b})
                            = IF b \in bitmap THEN 1 ELSE 0
    BY SameCount DEF Blocks!Owned
  <2>2. \A i \in Regular : ilock[i] = None
    <3>1. ASSUME NEW i \in Regular, ilock[i] # None PROVE FALSE
      <4>1. ilock[i] \in Proc /\ Busy(ilock[i])
        BY <3>1 DEF BlocksInv, Typed, Files, HolderOf
      <4> QED BY <2>1, <4>1 DEF Blocks!Settled, Busy, Writing, Blocks!At
    <3> QED BY <3>1
  <2>3. \A i \in Regular : dinode[i] = copy[i] /\ ~ Cut(i)
    BY <1>1, <2>2 DEF Blocks!Updated, Cut
  <2>4. PICK S : S = {ik \in Regular \X Blocks!Place : Blocks!Addr(dinode[ik[1]], ik[2]) = b}
    OBVIOUS
  <2>5. b # 0
    BY Sizes DEF Blocks!Blk
  <2>6. ASSUME NEW i \in Regular, NEW k \in Blocks!Place
        PROVE  <<i, k>> \in S <=> k \in Held(i) /\ Num(i, k) = b
    <3>1. k \in Held(i) <=> Num(i, k) # 0
      BY <2>3, Whole
    <3>2. Num(i, k) = Blocks!Addr(dinode[i], k)
      BY <2>3 DEF Num
    <3> QED BY <2>4, <2>5, <3>1, <3>2
  <2>7. \A ik \in S : \E i \in Regular : \E k \in Blocks!Place : ik = <<i, k>>
    BY <2>4
  <2>8. \A i \in Regular : Held(i) \subseteq Blocks!Place
    BY DEF Held
  <2>9. CASE b \in bitmap
    <3>1. PICK i \in Regular : \E k \in Held(i) : Num(i, k) = b
      BY <2>9 DEF BlocksInv, Owners, NoneLost
    <3>2. PICK k \in Held(i) : Num(i, k) = b
      BY <3>1
    <3>3. \A ik \in S : ik = <<i, k>>
      BY <2>6, <2>7, <3>2 DEF BlocksInv, Owners, Sole
    <3>4. S = {<<i, k>>}
      BY <2>6, <2>8, <3>2, <3>3
    <3> QED BY <2>4, <2>9, <3>4, FS_Singleton
  <2>10. CASE b \notin bitmap
    <3>1. S = {}
      BY <2>6, <2>7, <2>10 DEF BlocksInv, Owners, InUse
    <3> QED BY <2>4, <2>10, <3>1, FS_EmptySet
  <2> QED BY <2>9, <2>10
<1> QED BY <1>1, <1>2, <1>3 DEF Blocks!FilesIntact

LEMMA BlocksFilesIntact == Blocks!Spec => []Blocks!FilesIntact
<1>1. BlocksInv => Blocks!FilesIntact
  BY FilesAreIntact
<1> QED BY <1>1, BlocksInvariant, PTL

LEMMA BlocksFitLog == Blocks!Spec => []Blocks!FitsLog
<1>1. BlocksInv => Blocks!FitsLog
  BY LogsFit
<1> QED BY <1>1, BlocksInvariant, PTL

-----------------------------------------------------------------------------
(* As the run has them.                                                    *)

LEMMA BlocksRun == SpecBoth => Blocks!Spec
<1>1. InitBoth => Blocks!Init
  BY DEF InitBoth
<1>2. [NextBoth]_<<on, vars, blocks>> => [Blocks!Next]_(Blocks!vars)
  BY DEF NextBoth, blocks, Blocks!vars, Blocks!disk
<1> QED BY <1>1, <1>2, PTL DEF SpecBoth, Blocks!Spec

\* No block is lost or in two places, on the disk, when no call is under way;
\* what a file has up to its size is what was written there, as readi() finds
\* it; and the inode on the disk has the addresses of the copy in memory,
\* whatever reads, writes and truncations of shared inodes and offsets do.
THEOREM FilesStayIntact == SpecBoth => []FilesIntact
<1>1. Blocks!FilesIntact <=> FilesIntact
  BY DEF FilesIntact
<1> QED BY <1>1, BlocksFilesIntact, BlocksRun, PTL

\* A turn of filewrite(), and a truncation, log fewer blocks than begin_op()
\* reserves, for any MAXOPBLOCKS from 6 on.
THEOREM CallsFitLog == SpecBoth => []FitsLog
<1>1. Blocks!FitsLog <=> FitsLog
  BY DEF FitsLog
<1> QED BY <1>1, BlocksFitLog, BlocksRun, PTL
=============================================================================
