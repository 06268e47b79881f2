------------------------- MODULE BufferCacheProofs -------------------------
(***************************************************************************)
(* Proofs about BufferCache and the VirtioDisk below it, for any number of *)
(* processes, buffers, blocks and descriptors.                             *)
(*                                                                         *)
(* The inductive invariant has two parts.  DiskInv says where the chain of *)
(* every request is, in which ring, and what the device and the handler    *)
(* will find there; CacheInv ties the counts, locks and sleepers to the    *)
(* places of the processes.  On top of it DataInv says which copy of a     *)
(* block is current: it holds as long as no write() fails half way.        *)
(***************************************************************************)
EXTENDS BufferCache, FiniteSetTheorems, FunctionTheorems, WellFoundedInduction, TLAPS

-----------------------------------------------------------------------------
(* The rings: a ring of NUM entries is indexed modulo UINT16.              *)

\* The entries of a ring from index f up to index t.
Count(f, t)      == (t - f) % UINT16
Entry(r, f, k)   == r[(f + k) % NUM]
Entries(r, f, t) == {Entry(r, f, k) : k \in 0 .. Count(f, t) - 1}
Distinct(r, f, t) == \A j, k \in 0 .. Count(f, t) - 1 : Entry(r, f, j) = Entry(r, f, k) => j = k
Index == 0 .. UINT16 - 1
RingOf == [Descs(NUM) -> Descs(NUM)]

\* Division with a remainder.
LEMMA Division ==
    ASSUME NEW a \in Int, NEW b \in Nat \ {0}
    PROVE  a = b * (a \div b) + (a % b) /\ a % b \in 0 .. b - 1 /\ a \div b \in Int
OBVIOUS

\* The remainder is the only number below b that is left.
LEMMA Remainder ==
    ASSUME NEW b \in Nat \ {0}, NEW q \in Int, NEW r \in 0 .. b - 1, NEW a \in Int, a = b * q + r
    PROVE  a % b = r
OBVIOUS

\* UINT16 is a multiple of NUM: an index that wraps names the same slot of the ring.
LEMMA SlotWraps ==
    ASSUME NEW c \in Int
    PROVE  (c + UINT16) % NUM = c % NUM
<1> DEFINE q == c \div NUM
           k == UINT16 \div NUM
           r == c % NUM
<1>1. NUM \in Nat \ {0} /\ UINT16 \in Nat /\ UINT16 % NUM = 0
  BY DiskConstants
<1>2. c = NUM * q + r /\ UINT16 = NUM * k /\ q \in Int /\ k \in Int /\ r \in 0 .. NUM - 1
  BY <1>1, Division
<1> HIDE DEF q, k, r
<1>3. c + UINT16 = NUM * (q + k) + r
  BY <1>1, <1>2
<1>4. q + k \in Int /\ c + UINT16 \in Int
  BY <1>1, <1>2
<1>5. (c + UINT16) % NUM = r
  BY <1>1, <1>2, <1>3, <1>4, Remainder
<1> QED
  BY <1>5 DEF r

\* Less than NUM entries apart, two indices name different slots.
LEMMA SlotsDiffer ==
    ASSUME NEW c \in Int, NEW d \in Int, c < d, d < c + NUM
    PROVE  c % NUM # d % NUM
<1> DEFINE q == c \div NUM
           k == d \div NUM
<1>1. NUM \in Nat \ {0}
  BY DiskConstants
<1>2. c = NUM * q + (c % NUM) /\ d = NUM * k + (d % NUM) /\ q \in Int /\ k \in Int
  BY <1>1, Division
<1> SUFFICES ASSUME c % NUM = d % NUM PROVE FALSE
  OBVIOUS
<1> HIDE DEF q, k
<1>3. d - c = NUM * k - NUM * q
  BY <1>1, <1>2, Division
<1>4. d - c = NUM * (k - q)
  BY <1>1, <1>2, <1>3
<1>5. k - q \in Int /\ k - q > 0 /\ k - q < 1
  BY <1>1, <1>2, <1>4
<1> QED
  BY <1>5

\* How many entries there are between two indices.
LEMMA CountIs ==
    ASSUME NEW f \in Index, NEW t \in Index
    PROVE  /\ Count(f, t) \in Index
           /\ Count(f, t) = IF f <= t THEN t - f ELSE t - f + UINT16
           /\ Count(f, t) = 0 <=> f = t
BY DiskConstants DEF Index, Count

\* The index behind an index.
LEMMA AfterIs ==
    ASSUME NEW i \in Index
    PROVE  (i + 1) % UINT16 \in Index /\ (i + 1) % UINT16 = IF i = UINT16 - 1 THEN 0 ELSE i + 1
BY DiskConstants DEF Index

\* A slot of the ring.
LEMMA SlotIs ==
    ASSUME NEW a \in Int
    PROVE  a % NUM \in Descs(NUM)
BY DiskConstants, Division DEF Descs

\* The entry behind the last one is where the next one goes.
LEMMA NextSlot ==
    ASSUME NEW f \in Index, NEW t \in Index
    PROVE  (f + Count(f, t)) % NUM = t % NUM
<1>1. f \in Int /\ t \in Int /\ UINT16 \in Nat
  BY DiskConstants DEF Index
<1>2. f + Count(f, t) = t \/ f + Count(f, t) = t + UINT16
  BY <1>1, CountIs
<1> QED
  BY <1>1, <1>2, SlotWraps

\* An entry that is put into a ring with room, and not yet published, changes none
\* of those that are in it.
LEMMA RingPut ==
    ASSUME NEW r \in RingOf, NEW f \in Index, NEW t \in Index, NEW x \in Descs(NUM),
           Count(f, t) < NUM, Distinct(r, f, t),
           NEW s, s = [r EXCEPT ![t % NUM] = x]
    PROVE  /\ s \in RingOf /\ s[t % NUM] = x
           /\ Entries(s, f, t) = Entries(r, f, t) /\ Distinct(s, f, t)
<1>1. f \in Nat /\ t \in Nat /\ Count(f, t) \in Nat /\ NUM \in Nat \ {0}
  BY CountIs, DiskConstants DEF Index
<1>2. ASSUME NEW k \in 0 .. Count(f, t) - 1 PROVE Entry(s, f, k) = Entry(r, f, k)
  <2>1. f + k \in Int /\ f + Count(f, t) \in Int
        /\ f + k < f + Count(f, t) /\ f + Count(f, t) < f + k + NUM
    BY <1>1
  <2>2. (f + k) % NUM # t % NUM
    BY <2>1, NextSlot, SlotsDiffer
  <2>3. (f + k) % NUM \in Descs(NUM)
    BY <2>1, SlotIs
  <2> QED
    BY <2>2, <2>3 DEF Entry, RingOf
<1>3. t % NUM \in Descs(NUM)
  BY <1>1, SlotIs
<1>4. s \in RingOf /\ s[t % NUM] = x
  BY <1>3 DEF RingOf
<1>5. Entries(s, f, t) = Entries(r, f, t)
  BY <1>2 DEF Entries
<1>6. Distinct(s, f, t)
  BY <1>2 DEF Distinct
<1> QED
  BY <1>4, <1>5, <1>6

\* To publish the entry behind the last one adds it.
LEMMA RingGrows ==
    ASSUME NEW r \in RingOf, NEW f \in Index, NEW t \in Index,
           Count(f, t) + 1 < UINT16, Distinct(r, f, t), r[t % NUM] \notin Entries(r, f, t)
    PROVE  LET u == (t + 1) % UINT16
           IN  u \in Index /\ Distinct(r, f, u) /\ Entries(r, f, u) = Entries(r, f, t) \cup {r[t % NUM]}
<1> DEFINE u == (t + 1) % UINT16
           N == Count(f, t)
<1>1. /\ f \in Nat /\ t \in Nat /\ N \in Nat /\ UINT16 \in Nat /\ u \in Index
      /\ u = IF t = UINT16 - 1 THEN 0 ELSE t + 1
  BY CountIs, AfterIs, DiskConstants DEF Index
<1>2. Count(f, u) = N + 1
  <2>1. N = IF f <= t THEN t - f ELSE t - f + UINT16
    BY CountIs
  <2>2. Count(f, u) = IF f <= u THEN u - f ELSE u - f + UINT16
    BY <1>1, CountIs
  <2>3. t <= UINT16 - 1 /\ f <= UINT16 - 1
    BY DiskConstants DEF Index
  <2> HIDE DEF N, u
  <2>4. N + 1 < UINT16
    BY DEF N
  <2> QED
    BY <1>1, <2>1, <2>2, <2>3, <2>4
<1>3. Entry(r, f, N) = r[t % NUM]
  BY NextSlot DEF Entry
<1> HIDE DEF u, N
<1>4. \A k : k \in 0 .. N + 1 - 1 <=> k \in 0 .. N - 1 \/ k = N
  BY <1>1
<1>5. Entries(r, f, u) = Entries(r, f, t) \cup {r[t % NUM]}
  BY <1>2, <1>3, <1>4 DEF Entries, N
<1>6. Distinct(r, f, u)
  <2>1. \A k \in 0 .. N - 1 : Entry(r, f, k) \in Entries(r, f, t)
    BY DEF Entries, N
  <2> QED
    BY <1>2, <1>3, <1>4, <2>1 DEF Distinct, N
<1> QED
  BY <1>1, <1>5, <1>6 DEF u

\* To take the first entry removes it from the ring, and nothing else.
LEMMA RingGet ==
    ASSUME NEW r \in RingOf, NEW f \in Index, NEW t \in Index, f # t, Distinct(r, f, t)
    PROVE  LET g == (f + 1) % UINT16
           IN  /\ g \in Index /\ Distinct(r, g, t) /\ r[f % NUM] \in Entries(r, f, t)
               /\ Entries(r, g, t) = Entries(r, f, t) \ {r[f % NUM]}
<1> DEFINE g == (f + 1) % UINT16
           N == Count(f, t)
<1>1. /\ f \in Nat /\ t \in Nat /\ N \in Nat /\ UINT16 \in Nat /\ g \in Index
      /\ g = IF f = UINT16 - 1 THEN 0 ELSE f + 1
      /\ N > 0
  BY CountIs, AfterIs, DiskConstants DEF Index
<1>2. Count(g, t) = N - 1
  <2>1. N = IF f <= t THEN t - f ELSE t - f + UINT16
    BY CountIs
  <2>2. Count(g, t) = IF g <= t THEN t - g ELSE t - g + UINT16
    BY <1>1, CountIs
  <2>3. t <= UINT16 - 1 /\ f <= UINT16 - 1
    BY DiskConstants DEF Index
  <2> HIDE DEF N, g
  <2> QED
    BY <1>1, <2>1, <2>2, <2>3
<1>3. ASSUME NEW k \in 0 .. N - 2 PROVE Entry(r, g, k) = Entry(r, f, k + 1)
  <2>1. k \in Int
    BY <1>1
  <2>2. CASE g = f + 1
    <3>1. g + k = f + (k + 1)
      BY <1>1, <2>1, <2>2
    <3> QED
      BY <3>1 DEF Entry
  <2>3. CASE g = 0 /\ f + 1 = UINT16
    <3>1. f + (k + 1) = (g + k) + UINT16 /\ g + k \in Int
      BY <1>1, <2>1, <2>3
    <3> QED
      BY <3>1, SlotWraps DEF Entry
  <2> QED
    BY <1>1, <2>2, <2>3
<1>4. Entry(r, f, 0) = r[f % NUM]
  BY <1>1 DEF Entry
<1> HIDE DEF g, N
<1>5. \A k : k \in 0 .. N - 1 <=> k = 0 \/ (k - 1 \in 0 .. N - 2 /\ k \in Int)
  BY <1>1
<1>6. \A k \in 0 .. N - 2 : k + 1 \in 0 .. N - 1 /\ k + 1 # 0 /\ k \in Int
  BY <1>1
<1>7. Distinct(r, g, t)
  <2>1. ASSUME NEW j \in 0 .. N - 2, NEW k \in 0 .. N - 2, Entry(r, g, j) = Entry(r, g, k)
        PROVE  j = k
    <3>1. Entry(r, f, j + 1) = Entry(r, f, k + 1)
      BY <1>3, <2>1
    <3>2. j + 1 = k + 1
      BY <1>6, <3>1 DEF Distinct, N
    <3> QED
      BY <1>6, <3>2
  <2>2. Count(g, t) - 1 = N - 2
    BY <1>1, <1>2
  <2> QED
    BY <2>1, <2>2 DEF Distinct
<1>8. r[f % NUM] \in Entries(r, f, t)
  BY <1>1, <1>4, <1>5 DEF Entries, N
<1>9. Entries(r, g, t) = Entries(r, f, t) \ {r[f % NUM]}
  <2>1. Count(g, t) - 1 = N - 2
    BY <1>1, <1>2
  <2>2. ASSUME NEW y \in Entries(r, g, t) PROVE y \in Entries(r, f, t) \ {r[f % NUM]}
    <3>1. PICK k \in 0 .. N - 2 : y = Entry(r, g, k)
      BY <2>1 DEF Entries
    <3>2. y = Entry(r, f, k + 1) /\ k + 1 \in 0 .. N - 1 /\ k + 1 # 0 /\ 0 \in 0 .. N - 1
      BY <1>1, <1>3, <1>6, <3>1
    <3>3. y # Entry(r, f, 0)
      BY <3>2 DEF Distinct, N
    <3> QED
      BY <1>4, <3>2, <3>3 DEF Entries, N
  <2>3. ASSUME NEW y \in Entries(r, f, t), y # r[f % NUM] PROVE y \in Entries(r, g, t)
    <3>1. PICK k \in 0 .. N - 1 : y = Entry(r, f, k)
      BY DEF Entries, N
    <3>2. k # 0 /\ k - 1 \in 0 .. N - 2 /\ (k - 1) + 1 = k
      BY <1>1, <1>4, <1>5, <2>3, <3>1
    <3>3. y = Entry(r, g, k - 1)
      BY <1>3, <3>1, <3>2
    <3> QED
      BY <2>1, <3>2, <3>3 DEF Entries
  <2> QED
    BY <2>2, <2>3
<1> QED
  BY <1>1, <1>7, <1>8, <1>9 DEF g

\* Distinct entries that leave out two descriptors leave room.
LEMMA RingRoom ==
    ASSUME NEW r \in RingOf, NEW f \in Index, NEW t \in Index, Distinct(r, f, t),
           NEW x \in Descs(NUM), NEW y \in Descs(NUM), x # y,
           x \notin Entries(r, f, t), y \notin Entries(r, f, t)
    PROVE  Count(f, t) + 1 < NUM /\ Count(f, t) + 1 < UINT16
<1> DEFINE N == Count(f, t)
           S == 0 .. N - 1
           T == (Descs(NUM) \ {x}) \ {y}
           e == [k \in S |-> Entry(r, f, k)]
<1>1. N \in Nat /\ NUM \in Nat /\ NUM >= 3 /\ UINT16 \in Nat /\ UINT16 >= NUM
  <2>1. NUM \in Nat /\ NUM >= 3 /\ UINT16 \in Nat /\ UINT16 >= NUM
    BY DiskConstants
  <2>2. N \in Index
    BY CountIs
  <2> QED
    BY <2>1, <2>2 DEF Index
<1>2. IsFiniteSet(T) /\ Cardinality(T) = NUM - 2
  <2>1. IsFiniteSet(Descs(NUM)) /\ Cardinality(Descs(NUM)) = NUM
    <3>1. NUM - 1 \in Int /\ ~ (0 > NUM - 1) /\ NUM - 1 - 0 + 1 = NUM
      BY <1>1
    <3> QED
      BY <3>1, FS_Interval DEF Descs
  <2>2. IsFiniteSet(Descs(NUM) \ {x}) /\ Cardinality(Descs(NUM) \ {x}) = NUM - 1
    BY <2>1, FS_RemoveElement
  <2>3. IsFiniteSet(T) /\ Cardinality(T) = NUM - 1 - 1
    BY <2>2, FS_RemoveElement
  <2> QED
    BY <1>1, <2>3
<1>3. e \in Injection(S, T)
  <2>1. \A k \in S : f + k \in Int
    BY <1>1 DEF Index
  <2>2. \A k \in S : Entry(r, f, k) \in Descs(NUM) /\ Entry(r, f, k) \in Entries(r, f, t)
    BY <2>1, SlotIs DEF Entry, RingOf, Entries
  <2>3. e \in [S -> T]
    BY <2>2
  <2> QED
    BY <2>3 DEF Distinct, Injection, IsInjective
<1>4. Cardinality(S) <= NUM - 2
  BY <1>2, <1>3, FS_Injection
<1>5. Cardinality(S) = N
  BY <1>1, FS_Interval
<1> QED
  BY <1>1, <1>4, <1>5

-----------------------------------------------------------------------------
\* The order by which a least number is found.
NatLess == {ss \in Nat \X Nat : ss[1] < ss[2]}

\* alloc_desc() finds the free descriptor with the least number.
LEMMA LeastIs ==
    ASSUME NEW S \in SUBSET Nat, S # {}
    PROVE  Least(S) \in S /\ \A j \in S : Least(S) <= j
<1>1. IsWellFoundedOn(NatLess, Nat)
  BY NatLessThanWellFounded DEF OpToRel, NatLess
<1>2. PICK i \in S : \A j \in S : ~ (<<j, i>> \in NatLess)
  BY <1>1, WFMin
<1>3. ASSUME NEW j \in S PROVE i <= j
  <2>1. i \in Nat /\ j \in Nat
    OBVIOUS
  <2>2. ~ (j < i)
    BY <1>2, <2>1 DEF NatLess
  <2> QED
    BY <2>1, <2>2
<1>4. \A j \in S : i <= j
  BY <1>3
<1> QED
  BY <1>4 DEF Least

\* With three free descriptors alloc3_desc() finds three different ones.
LEMMA ThreeFree ==
    ASSUME free \subseteq Descs(NUM), Cardinality(free) >= 3,
           NEW i, i = Least(free), NEW j, j = Least(free \ {i}), NEW k, k = Least(free \ {i, j})
    PROVE  i \in free /\ j \in free /\ k \in free /\ i # j /\ i # k /\ j # k
<1>1. IsFiniteSet(free) /\ Cardinality(free) \in Nat /\ free \in SUBSET Nat
  <2>1. IsFiniteSet(Descs(NUM)) /\ Descs(NUM) \subseteq Nat
    BY DiskConstants, FS_Interval DEF Descs
  <2> QED
    BY <2>1, FS_Subset, FS_CardinalityType
<1>2. i \in free
  BY <1>1, FS_EmptySet, LeastIs
<1>3. IsFiniteSet(free \ {i}) /\ Cardinality(free \ {i}) = Cardinality(free) - 1
  BY <1>1, <1>2, FS_RemoveElement
<1>4. j \in free \ {i}
  BY <1>1, <1>3, FS_EmptySet, LeastIs
<1>5. Cardinality((free \ {i}) \ {j}) = Cardinality(free) - 1 - 1
  BY ZenonT(30), <1>3, <1>4, FS_RemoveElement
<1>6. (free \ {i}) \ {j} = free \ {i, j}
  OBVIOUS
<1>7. k \in free \ {i, j}
  BY <1>1, <1>5, <1>6, FS_EmptySet, LeastIs
<1> QED
  BY <1>2, <1>4, <1>7

-----------------------------------------------------------------------------
(* The driver and the device: their invariant.                            *)

\* The requests that have descriptors, those in the rings or at the device, and the
\* chain of each.
Active  == {p \in Proc : io[p].pc \in {"publish", "wait"}}
Waiting == {p \in Proc : io[p].pc = "wait"}
HeadOf(p)  == io[p].head
MidOf(p)   == desc[HeadOf(p)].next
LastOf(p)  == desc[MidOf(p)].next
ChainOf(p) == {HeadOf(p), MidOf(p), LastOf(p)}

\* A chain is three descriptors that are not free;
Chained == \A p \in Active :
    /\ {MidOf(p), LastOf(p)} \subseteq Descs(NUM)
    /\ HeadOf(p) # MidOf(p) /\ HeadOf(p) # LastOf(p) /\ MidOf(p) # LastOf(p)
    /\ desc[LastOf(p)].next = None
    /\ ChainOf(p) \cap free = {}

\* they say what was asked, and disk.info whom to wake.
Filled == \A p \in Active :
    /\ desc[HeadOf(p)].addr = <<"op", HeadOf(p)>>
    /\ desc[MidOf(p)].addr = <<"data", io[p].b>>
    /\ desc[LastOf(p)].addr = <<"status", HeadOf(p)>>
    /\ ops[HeadOf(p)] = [write |-> io[p].write, sector |-> io[p].block]
    /\ info[HeadOf(p)].b = io[p].b

\* No descriptor is in two chains, and each is free or in one.
Apart == \A p, q \in Active : p # q => ChainOf(p) \cap ChainOf(q) = {}
Covered == \A i \in Descs(NUM) : i \in free \/ \E p \in Active : i \in ChainOf(p)

\* Where the device and the driver have the heads of the chains.
AvailSet == Entries(avail.ring, seen, avail.idx)
UsedSet  == Entries(used.ring, usedIdx, used.idx)
Asked    == AvailSet \cup serving
Done     == served \cup UsedSet

\* No head is in a ring twice, or in a ring and at the device.
Rings ==
    /\ Distinct(avail.ring, seen, avail.idx) /\ AvailSet \cap serving = {}
    /\ Distinct(used.ring, usedIdx, used.idx) /\ UsedSet \cap served = {}

\* Every head there is the one of a process that waits, and where it is says what
\* the buffer and the status byte hold.
Known == \A h \in Asked \cup Done : \E p \in Waiting : HeadOf(p) = h
Stages == \A p \in Waiting :
    /\ bdisk[io[p].b] => HeadOf(p) \in Asked \cup Done
    /\ HeadOf(p) \in Asked => bdisk[io[p].b] /\ info[HeadOf(p)].status = 255
    /\ HeadOf(p) \in Done => bdisk[io[p].b] /\ info[HeadOf(p)].status = 0
    /\ ~ bdisk[io[p].b] => info[HeadOf(p)].status = 0
Posting == \A p \in Proc : io[p].pc = "publish" =>
    /\ avail.ring[avail.idx % NUM] = HeadOf(p)
    /\ bdisk[io[p].b] /\ info[HeadOf(p)].status = 255

\* disk.vdisk_lock is held by the process that publishes its chain.
VLocked == \A p \in Proc : vlock = p <=> io[p].pc = "publish"
\* Those who sleep have something to wait for.
Naps == \A p \in napping :
    \/ io[p].pc = "alloc" /\ Cardinality(free) < 3
    \/ io[p].pc = "wait" /\ bdisk[io[p].b]
\* A request is about one block, and no other is about its buffer.
Asks == \A p \in Proc :
    /\ io[p].pc = "idle" => io[p] = NoIO
    /\ io[p].pc # "idle" => io[p].b \in Buf /\ io[p].block \in Block
Alone == \A p, q \in Proc :
    io[p].pc # "idle" /\ io[q].pc # "idle" /\ io[p].b = io[q].b => p = q

DiskInv == /\ DiskTypeOK /\ ~ crashed
           /\ Chained /\ Filled /\ Apart /\ Covered /\ Rings /\ Known /\ Stages /\ Posting
           /\ VLocked /\ Naps /\ Asks /\ Alone /\ NoLostInterrupt

\* What the driver keeps for a process; all but one of them stay.
IoType == [pc : {"idle", "alloc", "publish", "wait"}, b : Buf \cup {None},
           block : Block \cup {None}, write : BOOLEAN, head : Descs(NUM)]
Rest(p) == \A q \in Proc : q # p => io'[q] = io[q]

\* Steps that leave the requests and the rings alone.
LEMMA RequestsKept ==
    ASSUME DiskInv, UNCHANGED <<bdisk, queue, usedIdx, device, io>>
    PROVE  Chained' /\ Filled' /\ Apart' /\ Covered' /\ Rings' /\ Known' /\ Stages' /\ Posting' /\ Asks' /\ Alone'
<1>1. Active' = Active /\ Waiting' = Waiting
  BY DEF Active, Waiting
<1>2. \A p : HeadOf(p)' = HeadOf(p) /\ MidOf(p)' = MidOf(p) /\ LastOf(p)' = LastOf(p)
  BY DEF HeadOf, MidOf, LastOf, queue
<1>3. Chained' /\ Filled' /\ Apart' /\ Covered'
  BY <1>1, <1>2 DEF DiskInv, Chained, Filled, Apart, Covered, ChainOf, queue
<1>4. Asked' = Asked /\ Done' = Done /\ Rings'
  BY DEF DiskInv, Rings, Asked, Done, AvailSet, UsedSet, queue, device
<1>5. Known' /\ Stages' /\ Posting'
  BY <1>1, <1>2, <1>4 DEF DiskInv, Known, Stages, Posting, queue
<1>6. Asks' /\ Alone'
  BY DEF DiskInv, Asks, Alone
<1> QED
  BY <1>3, <1>4, <1>5, <1>6

\* alloc3_desc() fails.
LEMMA NoDescsKeeps == ASSUME DiskInv, NEW p \in Proc, NoDescs(p) PROVE DiskInv'
<1>1. UNCHANGED <<content, bdisk, queue, usedIdx, device, irq, vlock, io, crashed>>
  BY DEF NoDescs
<1>2. DiskTypeOK'
  BY <1>1 DEF DiskInv, DiskTypeOK, NoDescs, WakeFree, content, queue, device
<1>3. Naps'
  BY <1>1 DEF DiskInv, NoDescs, IoAt, WakeFree, Naps, queue
<1>4. VLocked' /\ NoLostInterrupt'
  BY <1>1 DEF DiskInv, VLocked, NoLostInterrupt, device
<1> QED
  BY <1>1, <1>2, <1>3, <1>4, RequestsKept DEF DiskInv

\* The handler starts, and acknowledges the interrupt.
LEMMA IntrStartKeeps == ASSUME DiskInv, IntrStart PROVE DiskInv'
<1>1. UNCHANGED <<content, bdisk, queue, usedIdx, device, io, napping, crashed>>
  BY DEF IntrStart
<1>2. DiskTypeOK'
  <2>1. vlock' \in Proc \cup {None, "intr"} /\ irq' \in BOOLEAN
    BY DEF IntrStart
  <2> QED
    BY <1>1, <2>1 DEF DiskInv, DiskTypeOK, content, queue, device
<1>3. VLocked' /\ NoLostInterrupt' /\ Naps'
  BY <1>1, DiskConstants DEF DiskInv, VLocked, NoLostInterrupt, Naps, IntrStart, device, queue
<1> QED
  BY <1>1, <1>2, <1>3, RequestsKept DEF DiskInv

\* The handler has seen the whole of the used ring.
LEMMA IntrEndKeeps == ASSUME DiskInv, IntrEnd PROVE DiskInv'
<1>1. UNCHANGED <<content, bdisk, queue, usedIdx, device, irq, io, napping, crashed>>
  BY DEF IntrEnd
<1>2. DiskTypeOK'
  BY <1>1 DEF DiskInv, DiskTypeOK, IntrEnd, content, queue, device
<1>3. VLocked' /\ NoLostInterrupt' /\ Naps'
  BY <1>1, DiskConstants DEF DiskInv, VLocked, NoLostInterrupt, Naps, IntrEnd, device, queue
<1> QED
  BY <1>1, <1>2, <1>3, RequestsKept DEF DiskInv

\* No two requests have a descriptor in common, and no descriptor tells two apart.
LEMMA HeadsDiffer ==
    ASSUME DiskInv, NEW p \in Active, NEW q \in Active, HeadOf(p) = HeadOf(q)
    PROVE  p = q
BY DEF DiskInv, Apart, ChainOf

\* Steps that leave the chains of the requests alone.
LEMMA ChainsKept ==
    ASSUME DiskInv, UNCHANGED <<free, desc, ops>>,
           \A i \in Descs(NUM) : info'[i].b = info[i].b,
           \A q \in Proc : \/ io'[q] = io[q]
                           \/ io[q].pc = "publish" /\ io'[q] = [io[q] EXCEPT !.pc = "wait"]
    PROVE  /\ Chained' /\ Filled' /\ Apart' /\ Covered' /\ Asks' /\ Alone'
           /\ Active' = Active
           /\ \A p \in Proc : HeadOf(p)' = HeadOf(p) /\ MidOf(p)' = MidOf(p)
<1>1. \A q \in Proc : io[q] \in IoType
  BY DEF DiskInv, DiskTypeOK, IoType
<1>2. \A q \in Proc : /\ io'[q].b = io[q].b /\ io'[q].block = io[q].block /\ io'[q].write = io[q].write
                      /\ io'[q].head = io[q].head
                      /\ (io'[q].pc = io[q].pc \/ (io[q].pc = "publish" /\ io'[q].pc = "wait"))
  BY <1>1 DEF IoType
<1>3. Active' = Active
  BY <1>2 DEF Active
<1>4. \A p \in Proc : HeadOf(p)' = HeadOf(p) /\ MidOf(p)' = MidOf(p) /\ LastOf(p)' = LastOf(p)
                      /\ ChainOf(p)' = ChainOf(p)
  BY <1>2 DEF HeadOf, MidOf, LastOf, ChainOf
<1>5. Active \subseteq Proc /\ \A p \in Proc : HeadOf(p) \in Descs(NUM)
  BY <1>1 DEF Active, HeadOf, IoType
<1>6. Chained' /\ Apart' /\ Covered'
  BY <1>3, <1>4, <1>5 DEF DiskInv, Chained, Apart, Covered
<1>7. Filled'
  BY <1>2, <1>3, <1>4, <1>5 DEF DiskInv, Filled
<1>8. Asks'
  <2> SUFFICES ASSUME NEW q \in Proc
               PROVE  /\ io'[q].pc = "idle" => io'[q] = NoIO
                      /\ io'[q].pc # "idle" => io'[q].b \in Buf /\ io'[q].block \in Block
    BY DEF Asks, NoIO
  <2>1. CASE io'[q] = io[q]
    BY <2>1 DEF DiskInv, Asks
  <2>2. CASE io[q].pc = "publish"
    BY <1>2, <2>2 DEF DiskInv, Asks
  <2> QED
    BY <1>2, <2>1, <2>2
<1>9. Alone'
  BY <1>2 DEF DiskInv, Alone
<1> QED
  BY <1>3, <1>4, <1>6, <1>7, <1>8, <1>9

\* What a head stands for.
LEMMA HeadKnown ==
    ASSUME DiskInv, NEW h \in Asked \cup Done
    PROVE  \E p \in Waiting : /\ p \in Proc /\ p \in Active /\ HeadOf(p) = h /\ io[p].head = h
                              /\ h \in Descs(NUM) /\ MidOf(p) \in Descs(NUM) /\ MidOf(p) # h
                              /\ MidOf(p) \notin Asked \cup Done
                              /\ io[p].b \in Buf /\ io[p].block \in Block
                              /\ io[p].b # None
<1>1. PICK p \in Waiting : HeadOf(p) = h
  BY DEF DiskInv, Known
<1>2. p \in Proc /\ p \in Active /\ io[p].pc = "wait"
  BY <1>1 DEF Waiting, Active
<1>3. io[p].head = h /\ h \in Descs(NUM)
  BY <1>1, <1>2 DEF HeadOf, DiskInv, DiskTypeOK
<1>4. MidOf(p) \in Descs(NUM) /\ MidOf(p) # h
  BY <1>1, <1>2 DEF DiskInv, Chained
<1>5. io[p].b \in Buf /\ io[p].block \in Block
  BY <1>2 DEF DiskInv, Asks
<1>6. ASSUME MidOf(p) \in Asked \cup Done PROVE FALSE
  <2>1. PICK q \in Waiting : HeadOf(q) = MidOf(p)
    BY <1>6 DEF DiskInv, Known
  <2>2. q \in Active
    BY <2>1 DEF Waiting, Active
  <2>3. HeadOf(q) \in ChainOf(q) /\ HeadOf(q) \in ChainOf(p)
    BY <2>1 DEF ChainOf
  <2>4. p = q
    BY <1>2, <2>2, <2>3 DEF DiskInv, Apart
  <2> QED
    BY <1>1, <1>4, <2>1, <2>4
<1> QED
  BY <1>1, <1>2, <1>3, <1>4, <1>5, <1>6, DiskConstants

\* The types of what the device keeps.
LEMMA RingsTyped ==
    ASSUME DiskTypeOK
    PROVE  /\ avail.ring \in RingOf /\ used.ring \in RingOf
           /\ avail.idx \in Index /\ used.idx \in Index /\ seen \in Index /\ usedIdx \in Index
           /\ avail = [ring |-> avail.ring, idx |-> avail.idx]
           /\ used = [ring |-> used.ring, idx |-> used.idx]
BY DEF DiskTypeOK, RingOf, Index

\* The device takes a chain from the avail ring.
LEMMA DevTakeKeeps == ASSUME DiskInv, DevTake PROVE DiskInv'
<1> DEFINE h == avail.ring[seen % NUM]
<1>1. UNCHANGED <<content, bdisk, queue, usedIdx, used, served, irq, vlock, io, napping, crashed>>
  BY DEF DevTake
<1>2. UNCHANGED <<free, desc, ops, info, avail>>
  BY <1>1 DEF queue
<1>3. DiskTypeOK /\ Rings
  BY DEF DiskInv
<1>4. seen' \in Index /\ Distinct(avail.ring, seen', avail.idx) /\ h \in AvailSet
      /\ Entries(avail.ring, seen', avail.idx) = AvailSet \ {h}
  BY <1>3, RingsTyped, RingGet DEF DevTake, Rings, AvailSet
<1>5. AvailSet' = AvailSet \ {h} /\ UsedSet' = UsedSet /\ serving' = serving \cup {h}
  BY <1>1, <1>2, <1>4 DEF AvailSet, UsedSet, DevTake
<1>6. Asked' = Asked /\ Done' = Done
  BY <1>1, <1>4, <1>5 DEF Asked, Done
<1>7. Rings'
  BY <1>1, <1>2, <1>3, <1>4, <1>5 DEF Rings
<1>8. h \in Descs(NUM)
  BY <1>4, HeadKnown DEF Asked
<1>9. DiskTypeOK'
  BY <1>1, <1>2, <1>3, <1>4, <1>5, <1>8 DEF DiskTypeOK, content, Index
<1>10. Chained' /\ Filled' /\ Apart' /\ Covered' /\ Asks' /\ Alone'
       /\ \A p \in Proc : HeadOf(p)' = HeadOf(p)
  BY <1>1, <1>2, ChainsKept
<1>11. Waiting' = Waiting /\ Waiting \subseteq Proc
  BY <1>1 DEF Waiting
<1>12. Known' /\ Stages' /\ Posting'
  BY <1>1, <1>2, <1>6, <1>10, <1>11 DEF DiskInv, Known, Stages, Posting
<1>13. VLocked' /\ Naps' /\ NoLostInterrupt' /\ ~ crashed'
  BY <1>1, <1>2 DEF DiskInv, VLocked, Naps, NoLostInterrupt
<1> QED
  BY <1>7, <1>9, <1>10, <1>12, <1>13 DEF DiskInv

\* The device puts a chain that it has carried out into the used ring.
LEMMA DevPostKeeps == ASSUME DiskInv, NEW h \in Descs(NUM), DevPost(h) PROVE DiskInv'
<1> DEFINE r == [used.ring EXCEPT ![used.idx % NUM] = h]
           i == (used.idx + 1) % UINT16
<1>1. UNCHANGED <<content, bdisk, queue, usedIdx, seen, serving, vlock, io, napping, crashed>>
      /\ h \in served /\ served' = served \ {h} /\ used' = [ring |-> r, idx |-> i] /\ irq' = TRUE
  BY DEF DevPost
<1>2. UNCHANGED <<free, desc, ops, info, avail>>
  BY <1>1 DEF queue
<1>3. DiskTypeOK /\ Rings
  BY DEF DiskInv
<1>4. h \notin UsedSet
  BY <1>1, <1>3 DEF Rings
<1>5. PICK m \in Descs(NUM) : m # h /\ m \notin Done
  BY <1>1, HeadKnown DEF Done
<1>6. Count(usedIdx, used.idx) + 1 < NUM
  BY <1>3, <1>4, <1>5, RingsTyped, RingRoom DEF Rings, UsedSet, Done
<1>7. /\ r \in RingOf /\ r[used.idx % NUM] = h
      /\ Entries(r, usedIdx, used.idx) = UsedSet /\ Distinct(r, usedIdx, used.idx)
  <2>1. Count(usedIdx, used.idx) \in Int /\ NUM \in Int
    BY <1>3, RingsTyped, CountIs, DiskConstants DEF Index
  <2>2. Count(usedIdx, used.idx) < NUM
    BY <1>6, <2>1
  <2> QED
    BY <1>3, <2>2, RingsTyped, RingPut DEF Rings, UsedSet
<1>8. /\ i \in Index /\ Distinct(r, usedIdx, i)
      /\ Entries(r, usedIdx, i) = UsedSet \cup {h}
  <2>1. Count(usedIdx, used.idx) \in Int /\ NUM \in Int /\ UINT16 \in Int /\ NUM <= UINT16
    BY <1>3, RingsTyped, CountIs, DiskConstants DEF Index
  <2>2. Count(usedIdx, used.idx) + 1 < UINT16
    BY <1>6, <2>1
  <2> HIDE DEF r
  <2> QED
    BY <1>3, <1>4, <1>7, <2>2, RingsTyped, RingGrows
<1> HIDE DEF r, i
<1>9. used'.ring = r /\ used'.idx = i
  BY <1>1
<1>10. AvailSet' = AvailSet /\ UsedSet' = UsedSet \cup {h}
  BY <1>1, <1>2, <1>8, <1>9 DEF AvailSet, UsedSet
<1>11. Asked' = Asked /\ Done' = Done
  BY <1>1, <1>10 DEF Asked, Done
<1>12. Rings'
  BY <1>1, <1>2, <1>3, <1>8, <1>9, <1>10 DEF Rings
<1>13. DiskTypeOK'
  BY <1>1, <1>2, <1>3, <1>7, <1>8 DEF DiskTypeOK, content, Index, RingOf
<1>14. Chained' /\ Filled' /\ Apart' /\ Covered' /\ Asks' /\ Alone'
       /\ \A p \in Proc : HeadOf(p)' = HeadOf(p)
  BY <1>1, <1>2, ChainsKept
<1>15. Waiting' = Waiting /\ Waiting \subseteq Proc
  BY <1>1 DEF Waiting
<1>16. Known' /\ Stages' /\ Posting'
  BY <1>1, <1>2, <1>11, <1>14, <1>15 DEF DiskInv, Known, Stages, Posting
<1>17. VLocked' /\ Naps' /\ NoLostInterrupt' /\ ~ crashed'
  BY <1>1, <1>2 DEF DiskInv, VLocked, Naps, NoLostInterrupt
<1> QED
  BY <1>12, <1>13, <1>14, <1>16, <1>17 DEF DiskInv

\* What the device finds when it follows a chain.
LEMMA ChainFound ==
    ASSUME DiskInv, NEW p \in Active
    PROVE  /\ desc[HeadOf(p)].addr[2] = HeadOf(p)
           /\ ops[desc[HeadOf(p)].addr[2]] = [write |-> io[p].write, sector |-> io[p].block]
           /\ desc[desc[HeadOf(p)].next].addr[2] = io[p].b
           /\ desc[desc[desc[HeadOf(p)].next].next].addr[2] = HeadOf(p)
BY DEF DiskInv, Filled, MidOf, LastOf

\* The device carries out a request.
LEMMA DevServeKeeps == ASSUME DiskInv, NEW h \in Descs(NUM), DevServe(h) PROVE DiskInv'
<1>1. UNCHANGED <<bdisk, free, desc, ops, avail, usedIdx, used, seen, irq, vlock, io, napping, crashed>>
      /\ h \in serving /\ serving' = serving \ {h} /\ served' = served \cup {h}
  BY DEF DevServe
<1>2. DiskTypeOK /\ Rings
  BY DEF DiskInv
<1>3. PICK p \in Waiting : /\ p \in Active /\ p \in Proc /\ HeadOf(p) = h
                           /\ io[p].b \in Buf /\ io[p].block \in Block
  BY <1>1, HeadKnown DEF Asked
<1>4. info' = [info EXCEPT ![h].status = 0]
  BY <1>3, ChainFound DEF DevServe
<1>5. store' \in [Block -> Val] /\ data' \in [Buf -> Val]
  <2>1. \/ store' = [store EXCEPT ![io[p].block] = data[io[p].b]] /\ data' = data
        \/ data' = [data EXCEPT ![io[p].b] = store[io[p].block]] /\ store' = store
    <3> DEFINE o == ops[desc[h].addr[2]]
               b == desc[desc[h].next].addr[2]
    <3>1. o = [write |-> io[p].write, sector |-> io[p].block] /\ b = io[p].b
      BY <1>3, ChainFound
    <3>2. IF o.write THEN store' = [store EXCEPT ![o.sector] = data[b]] /\ UNCHANGED data
                     ELSE data' = [data EXCEPT ![b] = store[o.sector]] /\ UNCHANGED store
      BY DEF DevServe
    <3> QED
      BY <3>1, <3>2
  <2>2. store \in [Block -> Val] /\ data \in [Buf -> Val]
    BY <1>2 DEF DiskTypeOK
  <2> QED
    BY <1>3, <2>1, <2>2
<1>6. \A i \in Descs(NUM) : /\ info'[i].b = info[i].b
                            /\ info'[i].status = IF i = h THEN 0 ELSE info[i].status
      /\ info' \in [Descs(NUM) -> [b : Buf \cup {None}, status : {0, 255}]]
  BY <1>2, <1>4 DEF DiskTypeOK
<1>7. DiskTypeOK'
  BY <1>1, <1>2, <1>5, <1>6 DEF DiskTypeOK
<1>8. AvailSet' = AvailSet /\ UsedSet' = UsedSet
  BY <1>1 DEF AvailSet, UsedSet
<1>9. h \notin Done
  <2>1. h \in Asked
    BY <1>1 DEF Asked
  <2> QED
    BY <1>3, <2>1 DEF DiskInv, Stages
<1>10. Rings' /\ Asked' = Asked \ {h} /\ Done' = Done \cup {h}
  BY <1>1, <1>2, <1>8, <1>9 DEF Rings, Asked, Done
<1>11. Chained' /\ Filled' /\ Apart' /\ Covered' /\ Asks' /\ Alone'
       /\ \A q \in Proc : HeadOf(q)' = HeadOf(q)
  BY <1>1, <1>6, ChainsKept
<1>12. Waiting' = Waiting /\ Waiting \subseteq Proc /\ Waiting \subseteq Active
  BY <1>1 DEF Waiting, Active
<1>13. \A q \in Proc : HeadOf(q) \in Descs(NUM)
  BY <1>2 DEF DiskTypeOK, HeadOf
<1>14. Known'
  BY <1>1, <1>10, <1>11, <1>12 DEF DiskInv, Known, Asked
<1>15. Stages'
  BY <1>1, <1>6, <1>10, <1>11, <1>12, <1>13 DEF DiskInv, Stages, Asked
<1>16. Posting'
  <2>1. \A q \in Active : HeadOf(q) = h => q = p
    BY <1>3, HeadsDiffer
  <2>2. \A q \in Proc : io[q].pc = "publish" => q \in Active /\ q \notin Waiting
    BY DEF Active, Waiting
  <2> QED
    BY <1>1, <1>3, <1>6, <1>11, <1>13, <2>1, <2>2 DEF DiskInv, Posting
<1>17. VLocked' /\ Naps' /\ NoLostInterrupt' /\ ~ crashed'
  BY <1>1 DEF DiskInv, VLocked, Naps, NoLostInterrupt
<1> QED
  BY <1>7, <1>10, <1>11, <1>14, <1>15, <1>16, <1>17 DEF DiskInv

\* The type of what the driver keeps for a process.
LEMMA IoTyped == ASSUME DiskTypeOK PROVE io \in [Proc -> IoType]
BY DEF DiskTypeOK, IoType

\* The handler answers one entry of the used ring: it names a request whose status
\* is written, so it does not panic.
LEMMA IntrEntryKeeps == ASSUME DiskInv, IntrEntry PROVE DiskInv'
<1> DEFINE id == used.ring[usedIdx % NUM]
<1>1. DiskTypeOK /\ Rings /\ vlock = "intr" /\ usedIdx # used.idx
  BY DEF DiskInv, IntrEntry
<1>2. /\ (usedIdx + 1) % UINT16 \in Index /\ Distinct(used.ring, (usedIdx + 1) % UINT16, used.idx)
      /\ id \in UsedSet
      /\ Entries(used.ring, (usedIdx + 1) % UINT16, used.idx) = UsedSet \ {id}
  BY <1>1, RingsTyped, RingGet DEF Rings, UsedSet
<1>3. PICK p \in Waiting : /\ p \in Active /\ p \in Proc /\ HeadOf(p) = id /\ io[p].b # None
                           /\ io[p].b \in Buf /\ id \in Descs(NUM)
  BY <1>2, HeadKnown DEF Done
<1>4. info[id].status = 0 /\ info[id].b = io[p].b /\ io[p].pc = "wait"
  <2>1. info[HeadOf(p)].b = io[p].b
    BY <1>3 DEF DiskInv, Filled
  <2>2. info[HeadOf(p)].status = 0
    BY <1>2, <1>3 DEF DiskInv, Stages, Done
  <2> QED
    BY <1>3, <2>1, <2>2 DEF Waiting
<1>5. /\ bdisk' = [bdisk EXCEPT ![io[p].b] = FALSE]
      /\ napping' = {q \in napping : ~ (io[q].pc = "wait" /\ io[q].b = io[p].b)}
      /\ usedIdx' = (usedIdx + 1) % UINT16
      /\ UNCHANGED <<content, queue, device, irq, vlock, io, crashed>>
  BY <1>3, <1>4 DEF IntrEntry
<1>6. UNCHANGED <<free, desc, ops, info, avail, used, seen, serving, served>>
  BY <1>5 DEF queue, device
<1>7. UsedSet' = UsedSet \ {id} /\ AvailSet' = AvailSet
  BY <1>2, <1>5, <1>6 DEF UsedSet, AvailSet
<1>8. id \notin Asked /\ id \notin served
  BY <1>1, <1>2, <1>3, <1>4 DEF DiskInv, Stages, Rings
<1>9. Asked' = Asked /\ Done' = Done \ {id} /\ Rings'
  BY <1>1, <1>2, <1>5, <1>6, <1>7, <1>8 DEF Rings, Asked, Done
<1>10. DiskTypeOK'
  <2>1. bdisk' \in [Buf -> BOOLEAN] /\ napping' \subseteq Proc /\ usedIdx' \in 0 .. UINT16 - 1
    BY <1>1, <1>2, <1>5 DEF DiskTypeOK, Index
  <2> QED
    BY <1>1, <1>5, <1>6, <2>1 DEF DiskTypeOK, content
<1>11. Chained' /\ Filled' /\ Apart' /\ Covered' /\ Asks' /\ Alone'
       /\ \A q \in Proc : HeadOf(q)' = HeadOf(q)
  BY <1>5, <1>6, ChainsKept
<1>12. Waiting' = Waiting /\ Waiting \subseteq Proc /\ Waiting \subseteq Active
  BY <1>5 DEF Waiting, Active
<1>13. \A q \in Active : HeadOf(q) = id => q = p
  BY <1>3, HeadsDiffer
<1>14. \A q \in Active : /\ io[q].b \in Buf
                         /\ q # p => io[q].b # io[p].b /\ bdisk'[io[q].b] = bdisk[io[q].b]
                         /\ q = p => ~ bdisk'[io[q].b]
  BY ZenonT(30), <1>1, <1>3, <1>5 DEF DiskInv, Alone, Asks, Active, DiskTypeOK
<1>15. Known'
  BY <1>9, <1>11, <1>12 DEF DiskInv, Known
<1>16. Stages'
  <2> SUFFICES ASSUME NEW q \in Waiting
               PROVE  /\ bdisk'[io[q].b] => HeadOf(q) \in Asked \cup (Done \ {id})
                      /\ HeadOf(q) \in Asked => bdisk'[io[q].b] /\ info[HeadOf(q)].status = 255
                      /\ HeadOf(q) \in Done \ {id} => bdisk'[io[q].b] /\ info[HeadOf(q)].status = 0
                      /\ ~ bdisk'[io[q].b] => info[HeadOf(q)].status = 0
    BY <1>5, <1>6, <1>9, <1>11, <1>12 DEF Stages
  <2>1. q \in Active
    BY <1>12
  <2>2. CASE q = p
    BY <1>3, <1>4, <1>8, <1>14, <2>1, <2>2
  <2>3. CASE q # p
    BY <1>13, <1>14, <2>1, <2>3 DEF DiskInv, Stages
  <2> QED
    BY <2>2, <2>3
<1>17. Posting'
  <2>1. \A q \in Proc : io[q].pc = "publish" => q \in Active /\ q # p
    BY <1>4 DEF Active
  <2>2. \A q \in Proc : io'[q] = io[q] /\ HeadOf(q)' = HeadOf(q)
    BY <1>5, <1>11
  <2>3. \A q \in Proc : io[q].pc = "publish" =>
          avail.ring[avail.idx % NUM] = HeadOf(q) /\ bdisk'[io[q].b] /\ info[HeadOf(q)].status = 255
    BY <1>14, <2>1 DEF DiskInv, Posting
  <2> QED
    BY <1>6, <2>2, <2>3 DEF Posting
<1>18. Naps'
  <2> SUFFICES ASSUME NEW q \in napping'
               PROVE  \/ io[q].pc = "alloc" /\ Cardinality(free) < 3
                      \/ io[q].pc = "wait" /\ bdisk'[io[q].b]
    BY <1>5, <1>6 DEF Naps
  <2>1. q \in napping /\ q \in Proc /\ ~ (io[q].pc = "wait" /\ io[q].b = io[p].b)
    BY <1>1, <1>5 DEF DiskTypeOK
  <2>2. CASE io[q].pc = "wait"
    <3>1. q \in Active
      BY <2>1, <2>2 DEF Active
    <3> QED
      BY <1>14, <2>1, <2>2, <3>1 DEF DiskInv, Naps
  <2> QED
    BY <2>1, <2>2 DEF DiskInv, Naps
<1>19. VLocked' /\ NoLostInterrupt' /\ ~ crashed'
  BY <1>1, <1>5 DEF DiskInv, VLocked, NoLostInterrupt
<1> QED
  BY <1>9, <1>10, <1>11, <1>15, <1>16, <1>17, <1>18, <1>19 DEF DiskInv

\* avail->idx is incremented: the chain is there for the device.
LEMMA PublishKeeps == ASSUME DiskInv, NEW p \in Proc, Publish(p) PROVE DiskInv'
<1> DEFINE h == HeadOf(p)
<1>1. /\ DiskTypeOK /\ Rings /\ io[p].pc = "publish" /\ p \notin napping /\ vlock = p
      /\ p \in Active /\ p \notin Waiting
  BY DEF DiskInv, Publish, IoAt, VLocked, Active, Waiting
<1>2. /\ UNCHANGED <<content, bdisk, free, desc, ops, info, usedIdx, device, irq, crashed>>
      /\ avail' = [avail EXCEPT !.idx = (@ + 1) % UINT16]
      /\ vlock' = None /\ napping' = napping \cup {p}
      /\ io' = [io EXCEPT ![p].pc = "wait"]
  BY DEF Publish
<1>3. avail'.ring = avail.ring /\ avail'.idx = (avail.idx + 1) % UINT16
  BY <1>1, <1>2 DEF DiskTypeOK
<1>4. UNCHANGED <<used, seen, serving, served>>
  BY <1>2 DEF device
<1>5. /\ h \in Descs(NUM) /\ MidOf(p) \in Descs(NUM) /\ h # MidOf(p)
      /\ avail.ring[avail.idx % NUM] = h /\ bdisk[io[p].b] /\ info[h].status = 255
  BY <1>1 DEF DiskInv, DiskTypeOK, Chained, Posting, HeadOf
<1>6. ASSUME NEW x \in Asked \cup Done PROVE x # h /\ x # MidOf(p)
  <2>1. PICK q \in Waiting : q \in Active /\ HeadOf(q) = x
    BY HeadKnown
  <2>2. x \in ChainOf(q) /\ h \in ChainOf(p) /\ MidOf(p) \in ChainOf(p)
    BY <2>1 DEF ChainOf
  <2> QED
    BY <1>1, <2>1, <2>2 DEF DiskInv, Apart
<1>7. h \notin Asked \cup Done /\ MidOf(p) \notin Asked \cup Done
  BY <1>6
<1>8. Count(seen, avail.idx) + 1 < UINT16
  BY <1>1, <1>5, <1>7, RingsTyped, RingRoom DEF Rings, AvailSet, Asked
<1>9. /\ avail'.idx \in Index /\ Distinct(avail.ring, seen, avail'.idx)
      /\ Entries(avail.ring, seen, avail'.idx) = AvailSet \cup {h}
  BY <1>1, <1>3, <1>5, <1>7, <1>8, RingsTyped, RingGrows DEF Rings, AvailSet, Asked
<1>10. AvailSet' = AvailSet \cup {h} /\ UsedSet' = UsedSet
  BY <1>2, <1>3, <1>4, <1>9 DEF AvailSet, UsedSet
<1>11. Asked' = Asked \cup {h} /\ Done' = Done /\ Rings'
  BY <1>1, <1>2, <1>3, <1>4, <1>7, <1>9, <1>10 DEF Asked, Done, Rings
<1>12. \A q \in Proc : /\ q # p => io'[q] = io[q]
                       /\ q = p => io'[q] = [io[q] EXCEPT !.pc = "wait"]
       /\ io'[p].pc = "wait" /\ io'[p].b = io[p].b /\ io'[p].head = io[p].head
       /\ io' \in [Proc -> IoType]
  BY <1>1, <1>2, IoTyped DEF IoType
<1>13. DiskTypeOK'
  <2>1. io' \in [Proc -> [pc : {"idle", "alloc", "publish", "wait"}, b : Buf \cup {None},
                        block : Block \cup {None}, write : BOOLEAN, head : Descs(NUM)]]
    BY <1>12 DEF IoType
  <2>2. avail' \in [ring : [Descs(NUM) -> Descs(NUM)], idx : 0 .. UINT16 - 1]
    BY <1>1, <1>2, <1>3, <1>9 DEF DiskTypeOK, Index
  <2> QED
    BY <1>1, <1>2, <1>4, <2>1, <2>2 DEF DiskTypeOK, content
<1>14. Chained' /\ Filled' /\ Apart' /\ Covered' /\ Asks' /\ Alone'
       /\ \A q \in Proc : HeadOf(q)' = HeadOf(q)
  BY <1>1, <1>2, <1>12, ChainsKept
<1>15. Waiting' = Waiting \cup {p}
  BY <1>12 DEF Waiting
<1>16. Known'
  BY <1>11, <1>14, <1>15 DEF DiskInv, Known, Waiting
<1>17. Stages'
  <2>1. \A q \in Waiting : q \in Active /\ q \in Proc
    BY DEF Waiting, Active
  <2>2. \A q \in Waiting : HeadOf(q) # h
    BY <1>1, <2>1, HeadsDiffer
  <2>3. \A q \in Waiting : io'[q] = io[q]
    BY <1>1, <1>12, <2>1
  <2> QED
    BY <1>2, <1>5, <1>7, <1>11, <1>12, <1>14, <1>15, <2>1, <2>2, <2>3 DEF DiskInv, Stages
<1>18. Posting'
  <2>1. \A q \in Proc : io'[q].pc # "publish"
    BY <1>1, <1>12 DEF DiskInv, VLocked
  <2> QED
    BY <2>1 DEF Posting
<1>19. VLocked' /\ Naps' /\ NoLostInterrupt' /\ ~ crashed'
  <2>1. VLocked'
    BY <1>1, <1>2, <1>12, DiskConstants DEF DiskInv, VLocked
  <2>2. Naps'
    BY <1>1, <1>2, <1>5, <1>12 DEF DiskInv, Naps, DiskTypeOK
  <2>3. NoLostInterrupt' /\ ~ crashed'
    BY <1>1, <1>2, <1>4, DiskConstants DEF DiskInv, NoLostInterrupt
  <2> QED
    BY <2>1, <2>2, <2>3
<1> QED
  BY <1>11, <1>13, <1>14, <1>16, <1>17, <1>18, <1>19 DEF DiskInv

\* Three free descriptors become the chain of a request.
LEMMA SubmitKeeps == ASSUME DiskInv, NEW p \in Proc, Submit(p) PROVE DiskInv'
<1> DEFINE b  == io[p].b
           d0 == Least(free)
           d1 == Least(free \ {d0})
           d2 == Least(free \ {d0, d1})
<1>1. /\ DiskTypeOK /\ Rings /\ io[p].pc = "alloc" /\ p \notin napping /\ vlock = None
      /\ Cardinality(free) >= 3 /\ b \in Buf /\ io[p].block \in Block
      /\ p \notin Active /\ p \notin Waiting
  BY DEF DiskInv, Submit, IoAt, Asks, Active, Waiting
<1>2. free \subseteq Descs(NUM) /\ Descs(NUM) \subseteq Nat
  BY <1>1 DEF DiskTypeOK, Descs
<1>3. d0 \in free /\ d1 \in free /\ d2 \in free /\ d0 # d1 /\ d0 # d2 /\ d1 # d2
  BY <1>1, <1>2, ThreeFree
<1>4. /\ vlock' = p
      /\ free' = free \ {d0, d1, d2}
      /\ ops' = [ops EXCEPT ![d0] = [write |-> io[p].write, sector |-> io[p].block]]
      /\ desc' = [desc EXCEPT
              ![d0] = [addr |-> <<"op", d0>>, write |-> FALSE, next |-> d1],
              ![d1] = [addr |-> <<"data", b>>, write |-> ~ io[p].write, next |-> d2],
              ![d2] = [addr |-> <<"status", d0>>, write |-> TRUE, next |-> None]]
      /\ info' = [info EXCEPT ![d0] = [b |-> b, status |-> 255]]
      /\ bdisk' = [bdisk EXCEPT ![b] = TRUE]
      /\ avail' = [avail EXCEPT !.ring[avail.idx % NUM] = d0]
      /\ io' = [io EXCEPT ![p].pc = "publish", ![p].head = d0]
      /\ UNCHANGED <<content, usedIdx, device, irq, napping, crashed>>
  BY DEF Submit
<1> HIDE DEF d0, d1, d2
<1>5. UNCHANGED <<used, seen, serving, served>>
  BY <1>4 DEF device
<1>6. d0 \in Descs(NUM) /\ d1 \in Descs(NUM) /\ d2 \in Descs(NUM)
  BY <1>2, <1>3
<1>7. io \in [Proc -> IoType] /\ io[p] \in IoType
  BY <1>1, IoTyped
<1>8. /\ io' \in [Proc -> IoType]
      /\ \A q \in Proc : q # p => io'[q] = io[q]
      /\ io'[p].pc = "publish" /\ io'[p].head = d0 /\ io'[p].b = b
      /\ io'[p].block = io[p].block /\ io'[p].write = io[p].write
  BY <1>4, <1>6, <1>7 DEF IoType
<1>9. /\ desc' \in [Descs(NUM) -> [addr : Address, write : BOOLEAN, next : Descs(NUM) \cup {None}]]
      /\ \A i \in Descs(NUM) \ {d0, d1, d2} : desc'[i] = desc[i]
      /\ desc'[d0].addr = <<"op", d0>> /\ desc'[d0].next = d1
      /\ desc'[d1].addr = <<"data", b>> /\ desc'[d1].next = d2
      /\ desc'[d2].addr = <<"status", d0>> /\ desc'[d2].next = None
  <2>1. <<"op", d0>> \in Address /\ <<"data", b>> \in Address /\ <<"status", d0>> \in Address
    BY <1>1, <1>6 DEF Address
  <2>2. desc \in [Descs(NUM) -> [addr : Address, write : BOOLEAN, next : Descs(NUM) \cup {None}]]
    BY <1>1 DEF DiskTypeOK
  <2>3. io[p].write \in BOOLEAN
    BY <1>7 DEF IoType
  <2> QED
    BY <1>3, <1>4, <1>6, <2>1, <2>2, <2>3
<1>10. /\ ops' \in [Descs(NUM) -> [write : BOOLEAN, sector : Block \cup {None}]]
       /\ \A i \in Descs(NUM) \ {d0} : ops'[i] = ops[i]
       /\ ops'[d0] = [write |-> io[p].write, sector |-> io[p].block]
  <2>1. ops \in [Descs(NUM) -> [write : BOOLEAN, sector : Block \cup {None}]]
    BY <1>1 DEF DiskTypeOK
  <2>2. io[p].write \in BOOLEAN
    BY <1>7 DEF IoType
  <2> QED
    BY <1>1, <1>4, <1>6, <2>1, <2>2
<1>11. /\ info' \in [Descs(NUM) -> [b : Buf \cup {None}, status : {0, 255}]]
       /\ \A i \in Descs(NUM) \ {d0} : info'[i] = info[i]
       /\ info'[d0].b = b /\ info'[d0].status = 255
  <2>1. info \in [Descs(NUM) -> [b : Buf \cup {None}, status : {0, 255}]]
    BY <1>1 DEF DiskTypeOK
  <2> QED
    BY <1>1, <1>4, <1>6, <2>1
<1>12. /\ bdisk' \in [Buf -> BOOLEAN] /\ bdisk'[b]
       /\ \A c \in Buf : c # b => bdisk'[c] = bdisk[c]
  BY <1>1, <1>4 DEF DiskTypeOK
\* The heads of the requests that the device may know are in use.
<1>13. \A h \in Asked \cup Done : h \notin free
  <2> SUFFICES ASSUME NEW h \in Asked \cup Done PROVE h \notin free
    OBVIOUS
  <2>1. PICK q \in Waiting : q \in Active /\ HeadOf(q) = h
    BY HeadKnown
  <2> QED
    BY <2>1 DEF DiskInv, Chained, ChainOf
<1>14. d0 \notin Asked \cup Done /\ d1 \notin Asked \cup Done
  BY <1>3, <1>13
<1>15. /\ avail'.ring = [avail.ring EXCEPT ![avail.idx % NUM] = d0] /\ avail'.idx = avail.idx
       /\ avail' = [ring |-> avail'.ring, idx |-> avail'.idx]
  BY <1>1, <1>4 DEF DiskTypeOK
<1>16. Count(seen, avail.idx) < NUM
  <2>1. Count(seen, avail.idx) + 1 < NUM
    BY <1>1, <1>3, <1>6, <1>14, RingsTyped, RingRoom DEF Rings, AvailSet, Asked
  <2>2. Count(seen, avail.idx) \in Int /\ NUM \in Int
    BY <1>1, RingsTyped, CountIs, DiskConstants DEF Index
  <2> QED
    BY <2>1, <2>2
<1>17. /\ avail'.ring \in RingOf /\ avail'.ring[avail.idx % NUM] = d0
       /\ Entries(avail'.ring, seen, avail.idx) = AvailSet /\ Distinct(avail'.ring, seen, avail.idx)
  <2>1. /\ avail.ring \in RingOf /\ seen \in Index /\ avail.idx \in Index
        /\ Distinct(avail.ring, seen, avail.idx)
    BY <1>1, RingsTyped DEF Rings
  <2> QED
    BY <1>6, <1>15, <1>16, <2>1, RingPut DEF AvailSet
<1>18. AvailSet' = AvailSet /\ UsedSet' = UsedSet
  BY <1>4, <1>5, <1>15, <1>17 DEF AvailSet, UsedSet
<1>19. Asked' = Asked /\ Done' = Done /\ Rings'
  BY <1>1, <1>4, <1>5, <1>15, <1>17, <1>18 DEF Asked, Done, Rings
<1>20. DiskTypeOK'
  <2>1. avail' \in [ring : [Descs(NUM) -> Descs(NUM)], idx : 0 .. UINT16 - 1]
    <3>1. avail.idx \in 0 .. UINT16 - 1
      BY <1>1 DEF DiskTypeOK
    <3> QED
      BY <3>1, <1>15, <1>17 DEF RingOf
  <2>2. io' \in [Proc -> [pc : {"idle", "alloc", "publish", "wait"}, b : Buf \cup {None},
                        block : Block \cup {None}, write : BOOLEAN, head : Descs(NUM)]]
    BY <1>8 DEF IoType
  <2>3. vlock' \in Proc \cup {None, "intr"} /\ free' \subseteq Descs(NUM)
    BY <1>2, <1>4
  <2> QED
    BY <1>1, <1>4, <1>5, <1>9, <1>10, <1>11, <1>12, <2>1, <2>2, <2>3 DEF DiskTypeOK, content
<1>21. Active' = Active \cup {p} /\ Waiting' = Waiting /\ Active \subseteq Proc /\ Waiting \subseteq Active
  BY <1>1, <1>8 DEF Active, Waiting
<1>22. \A q \in Active : q # p /\ io'[q] = io[q]
  BY <1>1, <1>8, <1>21
<1>23. ASSUME NEW q \in Active
       PROVE  /\ HeadOf(q) \in Descs(NUM) \ {d0, d1, d2}
              /\ MidOf(q) \in Descs(NUM) \ {d0, d1, d2}
              /\ LastOf(q) \in Descs(NUM) \ {d0, d1, d2}
              /\ ChainOf(q) \cap free = {}
              /\ HeadOf(q)' = HeadOf(q) /\ MidOf(q)' = MidOf(q) /\ LastOf(q)' = LastOf(q)
              /\ ChainOf(q)' = ChainOf(q)
              /\ desc'[HeadOf(q)] = desc[HeadOf(q)] /\ desc'[MidOf(q)] = desc[MidOf(q)]
              /\ desc'[LastOf(q)] = desc[LastOf(q)]
              /\ ops'[HeadOf(q)] = ops[HeadOf(q)] /\ info'[HeadOf(q)] = info[HeadOf(q)]
  <2>1. HeadOf(q) \in Descs(NUM)
    BY <1>7, <1>21 DEF HeadOf, IoType
  <2>2. {MidOf(q), LastOf(q)} \subseteq Descs(NUM) /\ ChainOf(q) \cap free = {}
    BY DEF DiskInv, Chained
  <2>3. {HeadOf(q), MidOf(q), LastOf(q)} \cap {d0, d1, d2} = {}
    BY <1>3, <2>2 DEF ChainOf
  <2>4. HeadOf(q)' = HeadOf(q)
    BY <1>22 DEF HeadOf
  <2>5. MidOf(q)' = MidOf(q)
    BY <1>9, <2>1, <2>3, <2>4 DEF MidOf
  <2>6. LastOf(q)' = LastOf(q)
    BY <1>9, <2>2, <2>3, <2>5 DEF LastOf
  <2> QED
    BY <1>9, <1>10, <1>11, <2>1, <2>2, <2>3, <2>4, <2>5, <2>6 DEF ChainOf
<1>24. HeadOf(p)' = d0 /\ MidOf(p)' = d1 /\ LastOf(p)' = d2 /\ ChainOf(p)' = {d0, d1, d2}
  BY <1>8, <1>9 DEF HeadOf, MidOf, LastOf, ChainOf
<1>25. Chained'
  <2> SUFFICES ASSUME NEW q \in Active'
               PROVE (/\ {MidOf(q), LastOf(q)} \subseteq Descs(NUM)
                     /\ HeadOf(q) # MidOf(q) /\ HeadOf(q) # LastOf(q) /\ MidOf(q) # LastOf(q)
                     /\ desc[LastOf(q)].next = None
                     /\ ChainOf(q) \cap free = {})'
    BY DEF Chained
  <2>1. CASE q = p
    BY <1>3, <1>4, <1>6, <1>9, <1>24, <2>1
  <2>2. CASE q \in Active
    <3>1. /\ HeadOf(q) # MidOf(q) /\ HeadOf(q) # LastOf(q) /\ MidOf(q) # LastOf(q)
          /\ desc[LastOf(q)].next = None
      BY <2>2 DEF DiskInv, Chained
    <3> QED
      BY <1>4, <1>23, <2>2, <3>1
  <2> QED
    BY <1>21, <2>1, <2>2
<1>26. Filled'
  <2> SUFFICES ASSUME NEW q \in Active'
               PROVE (/\ desc[HeadOf(q)].addr = <<"op", HeadOf(q)>>
                      /\ desc[MidOf(q)].addr = <<"data", io[q].b>>
                      /\ desc[LastOf(q)].addr = <<"status", HeadOf(q)>>
                      /\ ops[HeadOf(q)] = [write |-> io[q].write, sector |-> io[q].block]
                      /\ info[HeadOf(q)].b = io[q].b)'
    BY DEF Filled
  <2>1. CASE q = p
    BY <1>8, <1>9, <1>10, <1>11, <1>24, <2>1
  <2>2. CASE q \in Active
    <3>1. /\ desc[HeadOf(q)].addr = <<"op", HeadOf(q)>>
          /\ desc[MidOf(q)].addr = <<"data", io[q].b>>
          /\ desc[LastOf(q)].addr = <<"status", HeadOf(q)>>
          /\ ops[HeadOf(q)] = [write |-> io[q].write, sector |-> io[q].block]
          /\ info[HeadOf(q)].b = io[q].b
      BY <2>2 DEF DiskInv, Filled
    <3> QED
      BY <1>22, <1>23, <2>2, <3>1
  <2> QED
    BY <1>21, <2>1, <2>2
<1>27. Apart'
  <2>1. \A q \in Active : ChainOf(q)' = ChainOf(q) /\ ChainOf(q) \cap {d0, d1, d2} = {}
    BY <1>3, <1>23
  <2> QED
    BY <1>21, <1>24, <2>1 DEF DiskInv, Apart
<1>28. Covered'
  <2>1. \A q \in Active : ChainOf(q)' = ChainOf(q)
    BY <1>23
  <2> QED
    BY <1>4, <1>21, <1>24, <2>1 DEF DiskInv, Covered
<1>29. Known'
  BY <1>19, <1>21, <1>23 DEF DiskInv, Known
<1>30. \A q \in Active : io[q].b \in Buf /\ bdisk'[io[q].b] = bdisk[io[q].b]
  <2>1. \A q \in Active : io[q].b \in Buf /\ io[q].b # b
    BY <1>1, <1>21, <1>22 DEF DiskInv, Alone, Asks, Active
  <2> QED
    BY <1>12, <2>1
<1>31. Stages'
  <2> SUFFICES ASSUME NEW q \in Waiting
               PROVE (/\ bdisk[io[q].b] => HeadOf(q) \in Asked \cup Done
                      /\ HeadOf(q) \in Asked => bdisk[io[q].b] /\ info[HeadOf(q)].status = 255
                      /\ HeadOf(q) \in Done => bdisk[io[q].b] /\ info[HeadOf(q)].status = 0
                      /\ ~ bdisk[io[q].b] => info[HeadOf(q)].status = 0)'
    BY <1>21 DEF Stages
  <2>1. q \in Active
    BY <1>21
  <2>2. /\ bdisk[io[q].b] => HeadOf(q) \in Asked \cup Done
        /\ HeadOf(q) \in Asked => bdisk[io[q].b] /\ info[HeadOf(q)].status = 255
        /\ HeadOf(q) \in Done => bdisk[io[q].b] /\ info[HeadOf(q)].status = 0
        /\ ~ bdisk[io[q].b] => info[HeadOf(q)].status = 0
    BY DEF DiskInv, Stages
  <2> QED
    BY <1>19, <1>22, <1>23, <1>30, <2>1, <2>2
<1>32. \A q \in Proc : io'[q].pc = "publish" <=> q = p
  BY <1>1, <1>8, DiskConstants DEF DiskInv, VLocked
<1>33. Posting'
  BY <1>8, <1>11, <1>12, <1>15, <1>17, <1>24, <1>32 DEF Posting
<1>34. VLocked'
  BY <1>4, <1>32 DEF VLocked
<1>35. Naps'
  <2> SUFFICES ASSUME NEW q \in napping PROVE io'[q].pc = "wait" /\ bdisk'[io'[q].b]
    BY <1>4 DEF Naps
  <2>1. q \in Proc /\ q # p /\ io[q].pc = "wait" /\ bdisk[io[q].b]
    <3>1. q \in Proc /\ q # p
      BY <1>1 DEF DiskTypeOK
    <3>2. Cardinality(free) \in Nat
      <4>1. IsFiniteSet(Descs(NUM))
        BY DiskConstants, FS_Interval DEF Descs
      <4> QED
        BY <1>2, <4>1, FS_Subset, FS_CardinalityType
    <3> QED
      BY <1>1, <3>1, <3>2 DEF DiskInv, Naps
  <2>2. q \in Active
    BY <2>1 DEF Active
  <2> QED
    BY <1>8, <1>30, <2>1, <2>2
<1>36. Asks' /\ Alone'
  <2>1. \A q \in Proc : q # p /\ io[q].pc # "idle" => io[q].b # b
    BY <1>1 DEF DiskInv, Alone
  <2>2. Asks'
    BY <1>1, <1>8 DEF DiskInv, Asks, NoIO
  <2>3. Alone'
    BY <1>8, <2>1 DEF DiskInv, Alone
  <2> QED
    BY <2>2, <2>3
<1>37. NoLostInterrupt' /\ ~ crashed'
  BY <1>1, <1>4, <1>5, DiskConstants DEF DiskInv, NoLostInterrupt
<1> QED
  BY <1>19, <1>20, <1>25, <1>26, <1>27, <1>28, <1>29, <1>31, <1>33, <1>34, <1>35, <1>36, <1>37
     DEF DiskInv

\* A process finds its request answered and frees the chain: none of its descriptors
\* is free already, so free_desc() does not panic.
LEMMA FinishKeeps == ASSUME DiskInv, NEW p \in Proc, Finish(p) PROVE DiskInv'
<1> DEFINE h == HeadOf(p)
<1>1. /\ DiskTypeOK /\ Rings /\ io[p].pc = "wait" /\ p \notin napping /\ vlock = None
      /\ p \in Waiting /\ p \in Active /\ io[p].b \in Buf /\ io[p].head = h
  BY DEF DiskInv, Finish, IoAt, Waiting, Active, Asks, HeadOf
<1>2. CASE bdisk[io[p].b]
  <2>1. /\ napping' = napping \cup {p}
        /\ UNCHANGED <<content, bdisk, queue, usedIdx, device, irq, vlock, io, crashed>>
    BY <1>2 DEF Finish
  <2>2. DiskTypeOK'
    BY <1>1, <2>1 DEF DiskTypeOK, content, queue, device
  <2>3. Naps'
    BY <1>1, <1>2, <2>1 DEF DiskInv, Naps, queue
  <2>4. VLocked' /\ NoLostInterrupt' /\ ~ crashed'
    BY <2>1 DEF DiskInv, VLocked, NoLostInterrupt, device
  <2> QED
    BY <2>1, <2>2, <2>3, <2>4, RequestsKept DEF DiskInv
<1>3. CASE ~ bdisk[io[p].b]
  <2>1. /\ h \in Descs(NUM) /\ {MidOf(p), LastOf(p)} \subseteq Descs(NUM)
        /\ desc[LastOf(p)].next = None /\ ChainOf(p) \cap free = {}
    BY <1>1 DEF DiskInv, Chained, DiskTypeOK, HeadOf
  <2>2. Chain(io[p].head) = ChainOf(p)
    <3>1. MidOf(p) # None /\ LastOf(p) # None
      BY <2>1, DiskConstants DEF Descs
    <3>2. desc[io[p].head].next = MidOf(p) /\ desc[MidOf(p)].next = LastOf(p)
      BY DEF HeadOf, MidOf, LastOf
    <3>3. Chain(io[p].head) = {io[p].head} \cup {MidOf(p)} \cup ({LastOf(p)} \ {None})
      BY <3>1, <3>2 DEF Chain
    <3>4. ChainOf(p) = {io[p].head, MidOf(p), LastOf(p)}
      BY DEF ChainOf, HeadOf
    <3> QED
      BY <3>1, <3>3, <3>4
  <2>3. /\ info' = [info EXCEPT ![h].b = None]
        /\ desc' = [i \in Descs(NUM) |-> IF i \in ChainOf(p) THEN NoDesc ELSE desc[i]]
        /\ free' = free \cup ChainOf(p)
        /\ io' = [io EXCEPT ![p] = NoIO] /\ napping' = WakeFree
        /\ UNCHANGED <<content, bdisk, ops, avail, usedIdx, device, irq, vlock, crashed>>
    BY <1>1, <1>3, <2>1, <2>2 DEF Finish
  <2>4. UNCHANGED <<used, seen, serving, served>>
    BY <2>3 DEF device
  <2>5. h \notin Asked \cup Done
    BY <1>1, <1>3 DEF DiskInv, Stages
  <2>6. /\ io' \in [Proc -> IoType] /\ io'[p] = NoIO /\ NoIO.pc = "idle"
        /\ \A q \in Proc : q # p => io'[q] = io[q]
    <3>1. NoIO \in IoType
      BY DiskConstants DEF NoIO, IoType, Descs
    <3> QED
      BY <1>1, <2>3, <3>1, IoTyped DEF NoIO
  <2>7. /\ desc' \in [Descs(NUM) -> [addr : Address, write : BOOLEAN, next : Descs(NUM) \cup {None}]]
        /\ \A i \in Descs(NUM) \ ChainOf(p) : desc'[i] = desc[i]
    BY <1>1, <2>3 DEF DiskTypeOK, NoDesc, Address
  <2>8. /\ info' \in [Descs(NUM) -> [b : Buf \cup {None}, status : {0, 255}]]
        /\ \A i \in Descs(NUM) \ {h} : info'[i] = info[i]
    <3>1. info \in [Descs(NUM) -> [b : Buf \cup {None}, status : {0, 255}]]
      BY <1>1 DEF DiskTypeOK
    <3> QED
      BY <2>1, <2>3, <3>1
  <2>9. DiskTypeOK'
    <3>1. io' \in [Proc -> [pc : {"idle", "alloc", "publish", "wait"}, b : Buf \cup {None},
                        block : Block \cup {None}, write : BOOLEAN, head : Descs(NUM)]]
      BY <2>6 DEF IoType
    <3>2. free' \subseteq Descs(NUM) /\ napping' \subseteq Proc
      BY <1>1, <2>1, <2>3 DEF DiskTypeOK, WakeFree, ChainOf
    <3> QED
      BY <1>1, <2>3, <2>4, <2>7, <2>8, <3>1, <3>2 DEF DiskTypeOK, content
  <2>10. Active' = Active \ {p} /\ Waiting' = Waiting \ {p} /\ Waiting \subseteq Active /\ Active \subseteq Proc
    BY <2>6 DEF Active, Waiting
  <2>11. ASSUME NEW q \in Active \ {p}
         PROVE  /\ HeadOf(q) \in Descs(NUM) \ ChainOf(p)
                /\ MidOf(q) \in Descs(NUM) \ ChainOf(p)
                /\ LastOf(q) \in Descs(NUM) \ ChainOf(p)
                /\ io'[q] = io[q]
                /\ HeadOf(q)' = HeadOf(q) /\ MidOf(q)' = MidOf(q) /\ LastOf(q)' = LastOf(q)
                /\ ChainOf(q)' = ChainOf(q)
                /\ desc'[HeadOf(q)] = desc[HeadOf(q)] /\ desc'[MidOf(q)] = desc[MidOf(q)]
                /\ desc'[LastOf(q)] = desc[LastOf(q)]
                /\ info'[HeadOf(q)] = info[HeadOf(q)]
    <3>1. HeadOf(q) \in Descs(NUM) /\ io'[q] = io[q]
      BY <1>1, <2>6, <2>10, IoTyped DEF HeadOf, IoType
    <3>2. {MidOf(q), LastOf(q)} \subseteq Descs(NUM)
      BY DEF DiskInv, Chained
    <3>3. {HeadOf(q), MidOf(q), LastOf(q)} \cap ChainOf(p) = {} /\ h \in ChainOf(p)
      BY <1>1 DEF DiskInv, Apart, ChainOf
    <3>4. HeadOf(q)' = HeadOf(q)
      BY <3>1 DEF HeadOf
    <3>5. MidOf(q)' = MidOf(q)
      BY <2>7, <3>1, <3>3, <3>4 DEF MidOf
    <3>6. LastOf(q)' = LastOf(q)
      BY <2>7, <3>2, <3>3, <3>5 DEF LastOf
    <3> QED
      BY <2>7, <2>8, <3>1, <3>2, <3>3, <3>4, <3>5, <3>6 DEF ChainOf
  <2>12. Chained'
    <3> SUFFICES ASSUME NEW q \in Active \ {p}
                 PROVE (/\ {MidOf(q), LastOf(q)} \subseteq Descs(NUM)
                       /\ HeadOf(q) # MidOf(q) /\ HeadOf(q) # LastOf(q) /\ MidOf(q) # LastOf(q)
                       /\ desc[LastOf(q)].next = None
                       /\ ChainOf(q) \cap free = {})'
      BY <2>10 DEF Chained
    <3>1. /\ HeadOf(q) # MidOf(q) /\ HeadOf(q) # LastOf(q) /\ MidOf(q) # LastOf(q)
          /\ desc[LastOf(q)].next = None /\ ChainOf(q) \cap free = {}
      BY DEF DiskInv, Chained
    <3>2. ChainOf(q) \cap ChainOf(p) = {}
      BY <1>1 DEF DiskInv, Apart
    <3> QED
      BY <2>3, <2>11, <3>1, <3>2
  <2>13. Filled'
    <3> SUFFICES ASSUME NEW q \in Active \ {p}
                 PROVE (/\ desc[HeadOf(q)].addr = <<"op", HeadOf(q)>>
                        /\ desc[MidOf(q)].addr = <<"data", io[q].b>>
                        /\ desc[LastOf(q)].addr = <<"status", HeadOf(q)>>
                        /\ ops[HeadOf(q)] = [write |-> io[q].write, sector |-> io[q].block]
                        /\ info[HeadOf(q)].b = io[q].b)'
      BY <2>10 DEF Filled
    <3>1. /\ desc[HeadOf(q)].addr = <<"op", HeadOf(q)>>
          /\ desc[MidOf(q)].addr = <<"data", io[q].b>>
          /\ desc[LastOf(q)].addr = <<"status", HeadOf(q)>>
          /\ ops[HeadOf(q)] = [write |-> io[q].write, sector |-> io[q].block]
          /\ info[HeadOf(q)].b = io[q].b
      BY DEF DiskInv, Filled
    <3> QED
      BY <2>3, <2>11, <3>1
  <2>14. Apart'
    <3>1. \A q \in Active \ {p} : ChainOf(q)' = ChainOf(q)
      BY <2>11
    <3> QED
      BY <2>10, <3>1 DEF DiskInv, Apart
  <2>15. Covered'
    <3>1. \A q \in Active \ {p} : ChainOf(q)' = ChainOf(q)
      BY <2>11
    <3> QED
      BY <2>3, <2>10, <3>1 DEF DiskInv, Covered
  <2>16. AvailSet' = AvailSet /\ UsedSet' = UsedSet /\ Asked' = Asked /\ Done' = Done /\ Rings'
    BY <1>1, <2>3, <2>4 DEF AvailSet, UsedSet, Asked, Done, Rings
  <2>17. Known'
    BY <2>5, <2>10, <2>11, <2>16 DEF DiskInv, Known
  <2>18. Stages'
    <3> SUFFICES ASSUME NEW q \in Waiting \ {p}
                 PROVE (/\ bdisk[io[q].b] => HeadOf(q) \in Asked \cup Done
                        /\ HeadOf(q) \in Asked => bdisk[io[q].b] /\ info[HeadOf(q)].status = 255
                        /\ HeadOf(q) \in Done => bdisk[io[q].b] /\ info[HeadOf(q)].status = 0
                        /\ ~ bdisk[io[q].b] => info[HeadOf(q)].status = 0)'
      BY <2>10 DEF Stages
    <3>1. /\ bdisk[io[q].b] => HeadOf(q) \in Asked \cup Done
          /\ HeadOf(q) \in Asked => bdisk[io[q].b] /\ info[HeadOf(q)].status = 255
          /\ HeadOf(q) \in Done => bdisk[io[q].b] /\ info[HeadOf(q)].status = 0
          /\ ~ bdisk[io[q].b] => info[HeadOf(q)].status = 0
      BY DEF DiskInv, Stages
    <3>2. q \in Active \ {p}
      BY <2>10
    <3> QED
      BY <2>3, <2>11, <2>16, <3>1, <3>2
  <2>19. \A q \in Proc : io'[q].pc # "publish" /\ io[q].pc # "publish"
    BY <1>1, <2>6, DiskConstants DEF DiskInv, VLocked
  <2>20. Posting' /\ VLocked'
    BY <1>1, <2>3, <2>19, DiskConstants DEF DiskInv, Posting, VLocked
  <2>21. Naps'
    <3> SUFFICES ASSUME NEW q \in napping, io[q].pc # "alloc" PROVE io'[q].pc = "wait" /\ bdisk'[io'[q].b]
      BY <2>3 DEF Naps, WakeFree
    <3>1. q \in Proc /\ q # p /\ io[q].pc = "wait" /\ bdisk[io[q].b]
      BY <1>1 DEF DiskTypeOK, DiskInv, Naps
    <3> QED
      BY <2>3, <2>6, <3>1
  <2>22. Asks'
    BY <2>6 DEF DiskInv, Asks
  <2>23. Alone'
    BY <2>6 DEF DiskInv, Alone
  <2>24. NoLostInterrupt' /\ ~ crashed'
    BY <2>3, <2>4 DEF DiskInv, NoLostInterrupt
  <2> QED
    BY <2>9, <2>12, <2>13, <2>14, <2>15, <2>16, <2>17, <2>18, <2>20, <2>21, <2>22, <2>23, <2>24 DEF DiskInv
<1> QED
  BY <1>2, <1>3

\* Steps of a process that changes what is in a buffer, or nothing at all.
LEMMA DataKeeps ==
    ASSUME DiskInv, data' \in [Buf -> Val],
           UNCHANGED <<store, bdisk, queue, usedIdx, device, irq, vlock, io, napping, crashed>>
    PROVE  DiskInv'
<1>1. DiskTypeOK'
  BY DEF DiskInv, DiskTypeOK, queue, device
<1>2. VLocked' /\ NoLostInterrupt' /\ Naps'
  BY DEF DiskInv, VLocked, NoLostInterrupt, Naps, device, queue
<1> QED
  BY <1>1, <1>2, RequestsKept DEF DiskInv

\* A new request, for a buffer that no other request is about.
LEMMA RwKeeps ==
    ASSUME DiskInv, NEW p \in Proc, NEW b \in Buf, NEW k \in Block, NEW w \in BOOLEAN,
           Rw(p, b, k, w), \A q \in Proc : io[q].pc # "idle" => io[q].b # b,
           UNCHANGED <<content, bdisk, queue, usedIdx, device, irq, vlock, napping, crashed>>
    PROVE  /\ DiskInv' /\ io'[p].pc = "alloc" /\ io'[p].b = b /\ io'[p].block = k /\ io'[p].write = w
           /\ \A q \in Proc : q # p => io'[q] = io[q]
<1>1. DiskTypeOK /\ io \in [Proc -> IoType]
  BY IoTyped DEF DiskInv
<1>2. /\ io' \in [Proc -> IoType] /\ \A q \in Proc : q # p => io'[q] = io[q]
      /\ io'[p].pc = "alloc" /\ io'[p].b = b /\ io'[p].block = k /\ io'[p].write = w
  <2> DEFINE n == [NoIO EXCEPT !.pc = "alloc", !.b = b, !.block = k, !.write = w]
  <2>1. io' = [io EXCEPT ![p] = n]
    BY DEF Rw
  <2>2. 0 \in Descs(NUM)
    BY DiskConstants DEF Descs
  <2>3. NoIO \in IoType
    BY <2>2 DEF NoIO, IoType
  <2>4. n \in IoType /\ n.pc = "alloc" /\ n.b = b /\ n.block = k /\ n.write = w
    BY <2>3 DEF IoType
  <2> HIDE DEF n
  <2> QED
    BY <1>1, <2>1, <2>4
<1>3. io[p].pc = "idle"
  BY DEF Rw
<1>4. UNCHANGED <<free, desc, ops, info, avail, used, seen, serving, served>>
  BY DEF queue, device
<1>5. DiskTypeOK'
  BY <1>1, <1>2, <1>4 DEF DiskTypeOK, content, IoType
<1>6. /\ Active' = Active /\ Waiting' = Waiting /\ Active \subseteq Proc /\ Waiting \subseteq Active
      /\ p \notin Active
  BY <1>2, <1>3 DEF Active, Waiting
<1>7. \A q \in Active : /\ io'[q] = io[q] /\ HeadOf(q)' = HeadOf(q) /\ MidOf(q)' = MidOf(q)
                        /\ LastOf(q)' = LastOf(q) /\ ChainOf(q)' = ChainOf(q)
  BY <1>2, <1>4, <1>6 DEF HeadOf, MidOf, LastOf, ChainOf
<1>8. Chained' /\ Filled' /\ Apart' /\ Covered'
  BY <1>4, <1>6, <1>7 DEF DiskInv, Chained, Filled, Apart, Covered
<1>9. Asked' = Asked /\ Done' = Done /\ Rings'
  BY <1>4 DEF DiskInv, Rings, Asked, Done, AvailSet, UsedSet
<1>10. Known' /\ Stages'
  BY <1>4, <1>6, <1>7, <1>9 DEF DiskInv, Known, Stages
<1>11. \A q \in Proc : io'[q].pc = "publish" => q \in Active /\ io[q].pc = "publish"
  BY <1>2, <1>3 DEF Active
<1>12. Posting'
  BY <1>4, <1>7, <1>11 DEF DiskInv, Posting
<1>13. VLocked'
  BY <1>2, <1>3 DEF DiskInv, VLocked
<1>14. Naps'
  <2> SUFFICES ASSUME NEW q \in napping
               PROVE  \/ io'[q].pc = "alloc" /\ Cardinality(free) < 3
                      \/ io'[q].pc = "wait" /\ bdisk[io'[q].b]
    BY <1>4 DEF Naps
  <2>1. \/ io[q].pc = "alloc" /\ Cardinality(free) < 3
        \/ io[q].pc = "wait" /\ bdisk[io[q].b]
    BY DEF DiskInv, Naps
  <2>2. q \in Proc /\ q # p
    BY <1>1, <1>3, <2>1 DEF DiskTypeOK
  <2> QED
    BY <1>2, <2>1, <2>2
<1>15. Asks' /\ Alone'
  BY <1>2 DEF DiskInv, Asks, Alone, NoIO
<1>16. NoLostInterrupt' /\ ~ crashed'
  BY <1>4 DEF DiskInv, NoLostInterrupt
<1> QED
  BY <1>2, <1>5, <1>8, <1>9, <1>10, <1>12, <1>13, <1>14, <1>15, <1>16 DEF DiskInv

\* virtio_disk_init() establishes the invariant of the disk.
LEMMA DiskInitGood == DiskInit => DiskInv
<1> SUFFICES ASSUME DiskInit PROVE DiskInv
  OBVIOUS
<1>1. 0 \in Index /\ 0 \in Descs(NUM) /\ Count(0, 0) = 0
  BY DiskConstants DEF Index, Descs, Count
<1>2. \A p \in Proc : io[p] = NoIO /\ io[p].pc = "idle"
  BY DEF DiskInit, NoIO
<1>3. Active = {} /\ Waiting = {}
  BY <1>2 DEF Active, Waiting
<1>4. avail.idx = 0 /\ used.idx = 0 /\ seen = 0 /\ usedIdx = 0 /\ serving = {} /\ served = {}
  BY DEF DiskInit
<1>5. \A r : Entries(r, 0, 0) = {} /\ Distinct(r, 0, 0)
  BY <1>1 DEF Entries, Distinct
<1>6. Asked = {} /\ Done = {} /\ Rings
  BY <1>4, <1>5 DEF Asked, Done, AvailSet, UsedSet, Rings
<1>7. DiskTypeOK
  BY <1>1, DiskConstants DEF DiskInit, DiskTypeOK, NoIO, NoDesc, Address, Index
<1>8. Chained /\ Filled /\ Apart /\ Covered
  BY <1>3 DEF Chained, Filled, Apart, Covered, DiskInit
<1>9. Known /\ Stages /\ Posting
  BY <1>2, <1>3, <1>6 DEF Known, Stages, Posting
<1>10. VLocked /\ Naps /\ Asks /\ Alone /\ NoLostInterrupt /\ ~ crashed
  BY <1>2, <1>4, DiskConstants DEF VLocked, Naps, Asks, Alone, NoLostInterrupt, DiskInit
<1> QED
  BY <1>6, <1>7, <1>8, <1>9, <1>10 DEF DiskInv

\* Every step of the driver and of the device keeps the invariant of the disk.
LEMMA DiskKeeps == ASSUME DiskInv, DiskNext PROVE DiskInv'
<1>1. ASSUME NEW p \in Proc, RwStep(p) PROVE DiskInv'
  BY <1>1, NoDescsKeeps, SubmitKeeps, PublishKeeps, FinishKeeps DEF RwStep
<1>2. ASSUME Intr PROVE DiskInv'
  BY <1>2, IntrStartKeeps, IntrEntryKeeps, IntrEndKeeps DEF Intr
<1>3. ASSUME Device PROVE DiskInv'
  BY <1>3, DevTakeKeeps, DevServeKeeps, DevPostKeeps DEF Device
<1> QED
  BY <1>1, <1>2, <1>3 DEF DiskNext

-----------------------------------------------------------------------------
(* The cache: its invariant, and that every step keeps it.                 *)

\* What refers to a buffer: processes, and the log.
Uses(b) == {p \in Proc : op[p].b = b}
Pinned(b) == IF b \in pinned THEN 1 ELSE 0
OpType == [pc : {"user", "lock", "read", "use", "write", "release"}, b : Buf \cup {None}]

\* A process with a request holds the buffer and waits in bread() or bwrite().
Requests == \A p \in Proc : io[p].pc # "idle" =>
    /\ op[p].pc = IF io[p].write THEN "write" ELSE "read"
    /\ op[p].b = io[p].b /\ io[p].block = blockno[io[p].b]
\* The sleep lock of a buffer is held by the process that reads, uses or writes it.
Holders == \A p \in Proc, b \in Buf :
    slock[b] = p <=> op[p].b = b /\ op[p].pc \in {"read", "use", "write"}
\* A process in the cache has a buffer of a block, no two buffers have the same block,
\* and the list has them all.
Ops      == \A p \in Proc : op[p].pc = "user" <=> op[p].b = None
Sleepers == \A p \in lsleep : op[p].pc = "lock" /\ slock[op[p].b] # None
Named    == \A p \in Proc : op[p].pc # "user" => blockno[op[p].b] \in Block
Unique   == \A b, c \in Buf : blockno[b] = blockno[c] /\ blockno[b] # None => b = c
Listed   == \A b \in Buf : \E i \in DOMAIN lru : lru[i] = b

CacheInv == TypeOK /\ Requests /\ Holders /\ Ops /\ Sleepers /\ Named /\ Unique /\ Listed /\ CountsExact
IInv == DiskInv /\ CacheInv

\* The type of where a process is.
LEMMA OpTyped ==
    ASSUME TypeOK
    PROVE  op \in [Proc -> OpType]
BY DEF TypeOK, OpType

\* Finitely many processes refer to a buffer.
LEMMA UsesFinite ==
    ASSUME NEW b
    PROVE  IsFiniteSet(Uses(b)) /\ Cardinality(Uses(b)) \in 0 .. Cardinality(Proc)
<1>1. Uses(b) \in SUBSET Proc
  BY DEF Uses
<1>2. IsFiniteSet(Proc)
  BY CacheConstants
<1> QED
  BY <1>1, <1>2, FS_Subset, FS_CardinalityType

\* The count of a buffer, from what refers to it.
LEMMA CountIsUses ==
    ASSUME CountsExact, NEW b \in Buf
    PROVE  /\ refcnt[b] = Cardinality(Uses(b)) + Pinned(b)
           /\ refcnt[b] \in 0 .. Cardinality(Proc) + 1 /\ Cardinality(Uses(b)) \in Nat
           /\ refcnt[b] = 0 => b \notin pinned /\ \A p \in Proc : op[p].b # b
<1>1. refcnt[b] = Cardinality(Uses(b)) + Pinned(b)
  BY DEF CountsExact, Uses, Pinned
<1>2. Cardinality(Uses(b)) \in 0 .. Cardinality(Proc) /\ Cardinality(Proc) \in Nat
  BY UsesFinite, CacheConstants, FS_CardinalityType
<1>3. ASSUME refcnt[b] = 0 PROVE b \notin pinned /\ \A p \in Proc : op[p].b # b
  <2>1. Cardinality(Uses(b)) = 0 /\ Pinned(b) = 0
    BY <1>1, <1>2, <1>3 DEF Pinned
  <2>2. Uses(b) = {}
    BY <2>1, UsesFinite, FS_EmptySet
  <2> QED
    BY <2>1, <2>2 DEF Uses, Pinned
<1> QED
  BY <1>1, <1>2, <1>3 DEF Pinned

\* One process more, or less.
LEMMA UsesGrow ==
    ASSUME NEW S, IsFiniteSet(S), NEW p, p \notin S
    PROVE  /\ Cardinality(S) \in Nat /\ Cardinality(S \cup {p}) = Cardinality(S) + 1
BY FS_AddElement, FS_CardinalityType

\* The same with one less.
LEMMA UsesShrink ==
    ASSUME NEW S, IsFiniteSet(S), NEW p, p \in S
    PROVE  /\ Cardinality(S) \in Nat /\ Cardinality(S \ {p}) = Cardinality(S) - 1
BY FS_RemoveElement, FS_CardinalityType

\* The counts say what the counts in the type invariant may be.
LEMMA CountsTyped ==
    ASSUME TypeOK, CountsExact', DOMAIN refcnt' = Buf, refcnt' = [b \in DOMAIN refcnt' |-> refcnt'[b]]
    PROVE  refcnt' \in [Buf -> 0 .. Cardinality(Proc) + 1]
<1>1. \A b \in Buf : refcnt'[b] = Cardinality(Uses(b)') + Pinned(b)'
  BY DEF CountsExact, Uses, Pinned
<1>2. ASSUME NEW b PROVE Cardinality(Uses(b)') \in 0 .. Cardinality(Proc)
  <2>1. Uses(b)' \in SUBSET Proc
    BY DEF Uses
  <2>2. IsFiniteSet(Proc)
    BY CacheConstants
  <2> QED
    BY <2>1, <2>2, FS_Subset, FS_CardinalityType
<1>3. Cardinality(Proc) \in Nat
  BY CacheConstants, FS_CardinalityType
<1> QED
  BY <1>1, <1>2, <1>3 DEF Pinned

\* Steps that leave the counts and what refers to the buffers alone.
LEMMA CountsKept ==
    ASSUME CountsExact, UNCHANGED <<refcnt, pinned>>, \A p \in Proc : op'[p].b = op[p].b
    PROVE  CountsExact'
<1>1. \A b : {p \in Proc : op'[p].b = b} = {p \in Proc : op[p].b = b}
  OBVIOUS
<1> QED
  BY <1>1 DEF CountsExact

\* A request of the driver goes on, or is over.
LEMMA RequestsGoOn ==
    ASSUME DiskInv, DiskNext, NEW q \in Proc, io'[q].pc # "idle"
    PROVE  /\ io[q].pc # "idle" /\ io'[q].b = io[q].b /\ io'[q].block = io[q].block
           /\ io'[q].write = io[q].write
<1>1. io \in [Proc -> IoType]
  BY IoTyped DEF DiskInv
<1>2. CASE io' = io
  BY <1>2
<1>3. ASSUME NEW p \in Proc, io[p].pc # "idle",
             \/ io' = [io EXCEPT ![p] = NoIO]
             \/ io' = [io EXCEPT ![p].pc = "wait"]
             \/ \E d : io' = [io EXCEPT ![p].pc = "publish", ![p].head = d]
      PROVE  /\ io[q].pc # "idle" /\ io'[q].b = io[q].b /\ io'[q].block = io[q].block
             /\ io'[q].write = io[q].write
  <2>1. CASE io' = [io EXCEPT ![p] = NoIO]
    BY <1>1, <1>3, <2>1 DEF NoIO
  <2>2. CASE io' = [io EXCEPT ![p].pc = "wait"]
    BY <1>1, <1>3, <2>2 DEF IoType
  <2>3. CASE \E d : io' = [io EXCEPT ![p].pc = "publish", ![p].head = d]
    <3>1. PICK d : io' = [io EXCEPT ![p].pc = "publish", ![p].head = d]
      BY <2>3
    <3>2. CASE q = p
      <4>1. io'[q].b = io[q].b /\ io'[q].block = io[q].block /\ io'[q].write = io[q].write
        BY <1>1, <3>1, <3>2 DEF IoType
      <4> QED
        BY <1>3, <3>2, <4>1
    <3>3. CASE q # p
      BY <1>1, <3>1, <3>3
    <3> QED
      BY <3>2, <3>3
  <2> QED
    BY <1>3, <2>1, <2>2, <2>3
<1>4. ASSUME NEW p \in Proc, Submit(p)
      PROVE  io[p].pc # "idle" /\ \E d : io' = [io EXCEPT ![p].pc = "publish", ![p].head = d]
  BY <1>4 DEF Submit, IoAt
<1>5. ASSUME NEW p \in Proc, Publish(p)
      PROVE  io[p].pc # "idle" /\ io' = [io EXCEPT ![p].pc = "wait"]
  BY <1>5 DEF Publish, IoAt
<1>6. ASSUME NEW p \in Proc, Finish(p)
      PROVE  io[p].pc # "idle" /\ (io' = io \/ io' = [io EXCEPT ![p] = NoIO])
  BY <1>6 DEF Finish, IoAt, DiskPanic
<1>7. ASSUME NEW p \in Proc, NoDescs(p) PROVE io' = io
  BY <1>7 DEF NoDescs
<1>8. ASSUME Intr \/ Device PROVE io' = io
  BY <1>8 DEF Intr, Device, IntrStart, IntrEntry, IntrEnd, DevTake, DevServe, DevPost, DiskPanic
<1> QED
  BY <1>2, <1>3, <1>4, <1>5, <1>6, <1>7, <1>8 DEF DiskNext, RwStep

\* Steps of the disk keep the whole invariant.
LEMMA DiskStepKeeps == ASSUME IInv, DiskNext, UNCHANGED cvars PROVE IInv'
<1>1. DiskInv' /\ DiskTypeOK'
  BY DiskKeeps DEF IInv, DiskInv
<1>2. UNCHANGED <<blockno, valid, refcnt, lru, slock, lsleep, op, change, pinned>>
  BY DEF cvars
<1>3. TypeOK'
  BY <1>1, <1>2 DEF IInv, CacheInv, TypeOK
<1>4. Requests'
  BY <1>2, RequestsGoOn DEF IInv, CacheInv, Requests
<1>5. Holders' /\ Ops' /\ Sleepers' /\ Named' /\ Unique' /\ Listed' /\ CountsExact'
  BY <1>2 DEF IInv, CacheInv, Holders, Ops, Sleepers, Named, Unique, Listed, CountsExact
<1> QED
  BY <1>1, <1>3, <1>4, <1>5 DEF IInv, CacheInv

\* Which lines of the list a step may read.
LEMMA CacheTyped ==
    ASSUME TypeOK
    PROVE  /\ blockno \in [Buf -> Block \cup {None}] /\ valid \in [Buf -> BOOLEAN]
           /\ refcnt \in [Buf -> 0 .. Cardinality(Proc) + 1]
           /\ lru \in [1 .. Cardinality(Buf) -> Buf]
           /\ slock \in [Buf -> Proc \cup {None}] /\ lsleep \subseteq Proc
           /\ op \in [Proc -> OpType]
           /\ change \in [Buf -> {"clean", "dirty", "logged"}] /\ pinned \subseteq Buf
BY DEF TypeOK, OpType

\* What Goto changes.
LEMMA GotoIs ==
    ASSUME TypeOK, NEW p \in Proc, NEW l \in {"user", "lock", "read", "use", "write", "release"}, Goto(p, l)
    PROVE  /\ op' \in [Proc -> OpType] /\ op'[p].pc = l /\ \A q \in Proc : op'[q].b = op[q].b
           /\ \A q \in Proc : q # p => op'[q] = op[q]
BY CacheTyped DEF Goto, OpType

\* A buffer in use is a buffer, with a block.
LEMMA BufOf ==
    ASSUME IInv, NEW p \in Proc, op[p].pc # "user"
    PROVE  op[p].b \in Buf /\ blockno[op[p].b] \in Block
BY CacheTyped DEF IInv, CacheInv, Ops, Named, OpType

\* bget() enters: a process refers to b, which keeps its block or gets a block
\* that no buffer has.
LEMMA EnterKeeps ==
    ASSUME IInv, NEW p \in Proc, At(p, "user"), NEW b \in Buf, NEW k \in Block,
           op' = [op EXCEPT ![p] = [pc |-> "lock", b |-> b]],
           refcnt' = [refcnt EXCEPT ![b] = @ + 1],
           blockno' = [blockno EXCEPT ![b] = k],
           valid' \in [Buf -> BOOLEAN],
           blockno[b] = k \/ (refcnt[b] = 0 /\ Cached(k) = {}),
           UNCHANGED <<dvars, lru, slock, lsleep, change, pinned>>
    PROVE  IInv'
<1>1. TypeOK /\ DiskInv /\ CountsExact /\ op[p].pc = "user" /\ op[p].b = None /\ b # None
  BY DiskConstants DEF IInv, CacheInv, Ops, At
<1>2. DiskInv' /\ DiskTypeOK' /\ UNCHANGED <<io, slock, lsleep, lru, pinned, change>>
  <2>1. DiskInv'
    BY <1>1, DataKeeps DEF dvars, content, DiskInv, DiskTypeOK
  <2> QED
    BY <2>1 DEF DiskInv, dvars
<1>3. /\ op' \in [Proc -> OpType] /\ op'[p].pc = "lock" /\ op'[p].b = b
      /\ \A q \in Proc : q # p => op'[q] = op[q]
  BY <1>1, CacheTyped DEF OpType
<1>4. /\ blockno' \in [Buf -> Block \cup {None}] /\ blockno'[b] = k
      /\ \A c \in Buf : c # b => blockno'[c] = blockno[c]
  BY <1>1, CacheTyped
<1>5. \A c \in Buf : refcnt'[c] = IF c = b THEN refcnt[c] + 1 ELSE refcnt[c]
  BY <1>1, CacheTyped
<1>6. CountsExact'
  <2> SUFFICES ASSUME NEW c \in Buf
               PROVE  refcnt'[c] = Cardinality({q \in Proc : op'[q].b = c}) + Pinned(c)
    BY <1>2 DEF CountsExact, Pinned
  <2>1. refcnt[c] = Cardinality(Uses(c)) + Pinned(c) /\ Cardinality(Uses(c)) \in Nat
    BY <1>1, CountIsUses
  <2>2. CASE c = b
    <3>1. {q \in Proc : op'[q].b = c} = Uses(c) \cup {p} /\ p \notin Uses(c)
      BY <1>1, <1>3, <2>2 DEF Uses
    <3>2. Cardinality(Uses(c) \cup {p}) = Cardinality(Uses(c)) + 1
      BY <3>1, UsesFinite, UsesGrow
    <3>3. Cardinality({q \in Proc : op'[q].b = c}) = Cardinality(Uses(c)) + 1
      BY <3>1, <3>2
    <3>4. Pinned(c) \in Nat /\ refcnt'[c] = refcnt[c] + 1
      BY <1>5, <2>2 DEF Pinned
    <3> QED
      BY <2>1, <3>3, <3>4
  <2>3. CASE c # b
    <3>1. {q \in Proc : op'[q].b = c} = Uses(c)
      BY <1>1, <1>3, <2>3, DiskConstants DEF Uses
    <3> QED
      BY <1>5, <2>1, <2>3, <3>1
  <2> QED
    BY <2>2, <2>3
<1>7. TypeOK'
  <2>1. refcnt' \in [Buf -> 0 .. Cardinality(Proc) + 1]
    BY <1>1, <1>6, CacheTyped, CountsTyped
  <2> QED
    BY <1>1, <1>2, <1>3, <1>4, <2>1 DEF TypeOK, OpType
\* Nobody else is with b when it changes its block.
<1>8. \A q \in Proc : op[q].pc # "user" => blockno'[op[q].b] = blockno[op[q].b]
  <2> SUFFICES ASSUME NEW q \in Proc, op[q].pc # "user", op[q].b = b PROVE blockno[b] = k
    BY <1>4, BufOf
  <2>1. refcnt[b] # 0
    BY <1>1, CountIsUses
  <2> QED
    BY <2>1
<1>9. Requests'
  <2>1. io[p].pc = "idle"
    BY <1>1 DEF IInv, CacheInv, Requests
  <2> QED
    BY <1>2, <1>3, <1>8, <2>1 DEF IInv, CacheInv, Requests
<1>10. Holders' /\ Ops' /\ Sleepers'
  BY <1>1, <1>2, <1>3 DEF IInv, CacheInv, Holders, Ops, Sleepers
<1>11. Named'
  BY <1>3, <1>4, <1>8 DEF IInv, CacheInv, Named
<1>12. Unique'
  <2>1. \A c \in Buf : blockno[c] = k => c = b
    <3>1. CASE blockno[b] = k
      BY <3>1, CacheConstants DEF IInv, CacheInv, Unique
    <3>2. CASE Cached(k) = {}
      BY <3>2 DEF Cached
    <3> QED
      BY <3>1, <3>2
  <2> QED
    BY <1>4, <2>1, CacheConstants DEF IInv, CacheInv, Unique
<1>13. Listed'
  BY <1>2 DEF IInv, CacheInv, Listed
<1> QED
  BY <1>2, <1>6, <1>7, <1>9, <1>10, <1>11, <1>12, <1>13 DEF IInv, CacheInv

\* bget() finds the block.
LEMMA BgetHitKeeps == ASSUME IInv, NEW p \in Proc, NEW k \in Block, BgetHit(p, k) PROVE IInv'
<1>1. PICK b \in Cached(k) : /\ refcnt' = [refcnt EXCEPT ![b] = @ + 1]
                             /\ op' = [op EXCEPT ![p] = [pc |-> "lock", b |-> b]]
  BY DEF BgetHit
<1>2. At(p, "user") /\ UNCHANGED <<dvars, blockno, valid, lru, slock, lsleep, change, pinned>>
  BY DEF BgetHit
<1>3. b \in Buf /\ blockno[b] = k
  BY DEF Cached
<1>4. blockno \in [Buf -> Block \cup {None}] /\ valid \in [Buf -> BOOLEAN]
  BY CacheTyped DEF IInv, CacheInv
<1>5. blockno' = [blockno EXCEPT ![b] = k] /\ valid' \in [Buf -> BOOLEAN]
  BY <1>2, <1>3, <1>4
<1> QED
  BY <1>1, <1>2, <1>3, <1>5, EnterKeeps

\* The last of some places in a list.
LEMMA LastIs ==
    ASSUME NEW n \in Nat, NEW S \in SUBSET (1 .. n), S # {}
    PROVE  (CHOOSE i \in S : \A j \in S : j <= i) \in S
<1> DEFINE T == {n - i : i \in S}
<1>1. T \in SUBSET Nat /\ T # {}
  OBVIOUS
<1>2. Least(T) \in T /\ \A j \in T : Least(T) <= j
  BY <1>1, LeastIs
<1>3. PICK i \in S : Least(T) = n - i
  BY <1>2
<1>4. ASSUME NEW j \in S PROVE j <= i
  <2>1. n - j \in T
    OBVIOUS
  <2>2. n - i <= n - j
    BY <1>2, <1>3, <2>1
  <2> QED
    BY <2>2
<1>5. \A j \in S : j <= i
  BY <1>4
<1> QED
  BY <1>5

\* While somebody may need one more, there is a buffer that nobody refers to.
LEMMA UnusedThere ==
    ASSUME IInv, Cardinality(Needed) < Cardinality(Buf)
    PROVE  Unused # {}
<1>1. Needed \in SUBSET Buf
  BY BufOf, CacheTyped DEF Needed, At, IInv, CacheInv
<1>2. Cardinality(Buf) \in Nat
  BY CacheConstants, FS_CardinalityType
<1>3. PICK b \in Buf : b \notin Needed
  <2> SUFFICES ASSUME Buf \subseteq Needed PROVE FALSE
    OBVIOUS
  <2>1. Needed = Buf
    BY <1>1
  <2> QED
    BY <1>2, <2>1
<1>4. b \notin pinned /\ Uses(b) = {}
  BY <1>3, DiskConstants DEF Needed, Uses, At, IInv, CacheInv, Ops
<1>5. refcnt[b] = 0
  <2>1. refcnt[b] = Cardinality(Uses(b)) + Pinned(b)
    BY CountIsUses DEF IInv, CacheInv
  <2>2. Cardinality(Uses(b)) = 0 /\ Pinned(b) = 0
    BY <1>4, FS_EmptySet DEF Pinned
  <2> QED
    BY <2>1, <2>2
<1>6. PICK i \in DOMAIN lru : lru[i] = b
  BY <1>3 DEF IInv, CacheInv, Listed
<1> QED
  BY <1>5, <1>6 DEF Unused

\* bget() recycles a buffer that nobody refers to, and there is one: it does not panic.
LEMMA RecycleIs ==
    ASSUME IInv, NEW p \in Proc, NEW k \in Block, BgetRecycle(p, k)
    PROVE  \E b \in Buf :
              /\ refcnt[b] = 0 /\ Cached(k) = {} /\ At(p, "user")
              /\ blockno' = [blockno EXCEPT ![b] = k] /\ valid' = [valid EXCEPT ![b] = FALSE]
              /\ refcnt' = [refcnt EXCEPT ![b] = 1]
              /\ op' = [op EXCEPT ![p] = [pc |-> "lock", b |-> b]]
              /\ UNCHANGED <<dvars, lru, slock, lsleep, change, pinned>>
<1> DEFINE b == lru[CHOOSE i \in Unused : \A j \in Unused : j <= i]
<1>1. At(p, "user") /\ Cached(k) = {} /\ Cardinality(Needed) < Cardinality(Buf)
  BY DEF BgetRecycle
<1>2. Unused # {}
  BY <1>1, UnusedThere
<1>3. /\ blockno' = [blockno EXCEPT ![b] = k] /\ valid' = [valid EXCEPT ![b] = FALSE]
      /\ refcnt' = [refcnt EXCEPT ![b] = 1]
      /\ op' = [op EXCEPT ![p] = [pc |-> "lock", b |-> b]]
      /\ UNCHANGED <<dvars, lru, slock, lsleep, change, pinned>>
  BY <1>2 DEF BgetRecycle
<1>4. TypeOK
  BY DEF IInv, CacheInv
<1>5. (CHOOSE i \in Unused : \A j \in Unused : j <= i) \in Unused
  <2>1. Cardinality(Buf) \in Nat
    BY CacheConstants, FS_CardinalityType
  <2>2. Unused \in SUBSET (1 .. Cardinality(Buf))
    BY <1>4, CacheTyped DEF Unused
  <2> QED
    BY <1>2, <2>1, <2>2, LastIs
<1>6. b \in Buf /\ refcnt[b] = 0
  BY <1>4, <1>5, CacheTyped DEF Unused
<1> HIDE DEF b
<1> QED
  BY <1>1, <1>3, <1>6

\* bget() recycles a buffer.
LEMMA BgetRecycleKeeps == ASSUME IInv, NEW p \in Proc, NEW k \in Block, BgetRecycle(p, k) PROVE IInv'
<1>1. PICK b \in Buf :
        /\ refcnt[b] = 0 /\ Cached(k) = {} /\ At(p, "user")
        /\ blockno' = [blockno EXCEPT ![b] = k] /\ valid' = [valid EXCEPT ![b] = FALSE]
        /\ refcnt' = [refcnt EXCEPT ![b] = 1]
        /\ op' = [op EXCEPT ![p] = [pc |-> "lock", b |-> b]]
        /\ UNCHANGED <<dvars, lru, slock, lsleep, change, pinned>>
  BY RecycleIs
<1>2. refcnt' = [refcnt EXCEPT ![b] = @ + 1] /\ valid' \in [Buf -> BOOLEAN]
  BY <1>1, CacheTyped DEF IInv, CacheInv
<1> QED
  BY <1>1, <1>2, EnterKeeps

\* Steps that leave the disk alone, but for what is in a buffer.
LEMMA DiskLeftAlone ==
    ASSUME IInv, UNCHANGED dvars
    PROVE  /\ DiskInv' /\ DiskTypeOK' /\ io' = io
<1>1. DiskInv'
  BY DataKeeps DEF IInv, DiskInv, DiskTypeOK, dvars, content
<1> QED
  BY <1>1 DEF DiskInv, dvars

\* The holder of a buffer, of its sleep lock, has it alone.
LEMMA HolderAlone ==
    ASSUME IInv, NEW p \in Proc, op[p].pc \in {"read", "use", "write"}
    PROVE  /\ op[p].b \in Buf /\ slock[op[p].b] = p
           /\ \A q \in Proc : op[q].pc \in {"read", "use", "write"} /\ op[q].b = op[p].b => q = p
<1>1. op[p].b \in Buf
  BY BufOf
<1>2. \A q \in Proc : op[q].pc \in {"read", "use", "write"} /\ op[q].b = op[p].b => slock[op[p].b] = q
  BY <1>1 DEF IInv, CacheInv, Holders
<1> QED
  BY <1>1, <1>2

\* What the cache keeps when only the place of a process that holds a buffer
\* changes, from one where it holds it to another.
LEMMA PlaceKeeps ==
    ASSUME IInv, NEW p \in Proc, op[p].pc \in {"read", "use", "write"},
           NEW l \in {"read", "use", "write"}, Goto(p, l),
           UNCHANGED <<blockno, refcnt, lru, slock, lsleep, pinned>>,
           valid' \in [Buf -> BOOLEAN], change' \in [Buf -> {"clean", "dirty", "logged"}],
           DiskTypeOK'
    PROVE  TypeOK' /\ Holders' /\ Ops' /\ Sleepers' /\ Named' /\ Unique' /\ Listed' /\ CountsExact'
<1>1. TypeOK
  BY DEF IInv, CacheInv
<1>2. /\ op' \in [Proc -> OpType] /\ op'[p].pc = l /\ \A q \in Proc : op'[q].b = op[q].b
      /\ \A q \in Proc : q # p => op'[q] = op[q]
  BY <1>1, GotoIs
<1>3. TypeOK'
  BY <1>1, <1>2 DEF TypeOK, OpType
<1>4. Holders' /\ Ops' /\ Sleepers' /\ Named'
  <2>1. Holders'
    BY <1>2 DEF IInv, CacheInv, Holders
  <2>2. Ops'
    BY <1>2 DEF IInv, CacheInv, Ops
  <2>3. Sleepers'
    BY <1>1, <1>2, CacheTyped DEF IInv, CacheInv, Sleepers
  <2>4. Named'
    BY <1>2 DEF IInv, CacheInv, Named
  <2> QED
    BY <2>1, <2>2, <2>3, <2>4
<1>5. Unique' /\ Listed'
  BY DEF IInv, CacheInv, Unique, Listed
<1>6. CountsExact'
  BY <1>2, CountsKept DEF IInv, CacheInv
<1> QED
  BY <1>3, <1>4, <1>5, <1>6

\* A process that holds a buffer starts a request for it.
LEMMA AskKeeps ==
    ASSUME IInv, NEW p \in Proc, NEW w \in BOOLEAN, NEW b \in Buf, b = op[p].b, blockno[b] \in Block,
           \A q \in Proc : op[q].pc \in {"read", "use", "write"} /\ op[q].b = b => q = p,
           Rw(p, b, blockno[b], w),
           UNCHANGED <<content, bdisk, queue, usedIdx, device, irq, vlock, napping, crashed, blockno>>,
           op'[p].pc = IF w THEN "write" ELSE "read",
           \A q \in Proc : op'[q].b = op[q].b /\ (q # p => op'[q] = op[q])
    PROVE  DiskInv' /\ DiskTypeOK' /\ Requests'
<1>1. \A q \in Proc : io[q].pc # "idle" => io[q].b # b
  <2> SUFFICES ASSUME NEW q \in Proc, io[q].pc # "idle", io[q].b = b PROVE FALSE
    OBVIOUS
  <2>1. op[q].pc \in {"read", "write"} /\ op[q].b = b
    BY DEF IInv, CacheInv, Requests
  <2>2. q = p /\ io[p].pc = "idle"
    BY <2>1 DEF Rw
  <2> QED
    BY <2>2
<1>2. /\ DiskInv' /\ io'[p].pc = "alloc" /\ io'[p].b = b /\ io'[p].block = blockno[b] /\ io'[p].write = w
      /\ \A q \in Proc : q # p => io'[q] = io[q]
  BY <1>1, RwKeeps DEF IInv
<1>3. Requests'
  BY <1>2 DEF IInv, CacheInv, Requests
<1> QED
  BY <1>2, <1>3 DEF DiskInv

\* The buffer is locked, and read if it must be.
LEMMA LockBufKeeps == ASSUME IInv, NEW p \in Proc, LockBuf(p) PROVE IInv'
<1> DEFINE b == op[p].b
<1>1. /\ op[p].pc = "lock" /\ p \notin lsleep /\ slock[b] = None
      /\ slock' = [slock EXCEPT ![b] = p]
      /\ UNCHANGED <<content, bdisk, queue, usedIdx, device, irq, vlock, napping, crashed>>
      /\ UNCHANGED <<blockno, valid, refcnt, lru, lsleep, change, pinned>>
  BY DEF LockBuf, At
<1>2. TypeOK /\ b \in Buf /\ blockno[b] \in Block
  BY <1>1, BufOf DEF IInv, CacheInv
<1>3. PICK l \in {"use", "read"} : /\ Goto(p, l)
                                   /\ \/ l = "use" /\ UNCHANGED io
                                      \/ l = "read" /\ Rw(p, b, blockno[b], FALSE)
  BY DEF LockBuf
<1>4. /\ op' \in [Proc -> OpType] /\ op'[p].pc = l /\ \A q \in Proc : op'[q].b = op[q].b
      /\ \A q \in Proc : q # p => op'[q] = op[q]
  BY <1>2, <1>3, GotoIs
<1>5. \A q \in Proc : ~ (op[q].pc \in {"read", "use", "write"} /\ op[q].b = b)
  <2>1. \A q \in Proc : op[q].pc \in {"read", "use", "write"} /\ op[q].b = b => slock[b] = q
    BY <1>2 DEF IInv, CacheInv, Holders
  <2> QED
    BY <1>1, <2>1, DiskConstants
<1>6. DiskInv' /\ DiskTypeOK' /\ Requests'
  <2>1. CASE l = "use"
    <3>1. UNCHANGED dvars /\ io[p].pc = "idle"
      BY <1>1, <1>3, <2>1 DEF dvars, IInv, CacheInv, Requests
    <3> QED
      BY <1>1, <1>4, <2>1, <3>1, DiskLeftAlone DEF IInv, CacheInv, Requests
  <2>2. CASE l = "read"
    <3>1. Rw(p, b, blockno[b], FALSE) /\ op'[p].pc = IF FALSE THEN "write" ELSE "read"
      BY <1>3, <1>4, <2>2
    <3>2. \A q \in Proc : op[q].pc \in {"read", "use", "write"} /\ op[q].b = b => q = p
      BY <1>5
    <3>3. \A q \in Proc : op'[q].b = op[q].b /\ (q # p => op'[q] = op[q])
      BY <1>4
    <3> QED
      BY <1>1, <1>2, <3>1, <3>2, <3>3, AskKeeps
  <2> QED
    BY <2>1, <2>2
<1>7. slock' \in [Buf -> Proc \cup {None}] /\ slock'[b] = p /\ \A c \in Buf : c # b => slock'[c] = slock[c]
  BY <1>1, <1>2, CacheTyped
<1>8. TypeOK'
  BY <1>1, <1>2, <1>4, <1>6, <1>7 DEF TypeOK, OpType
<1>9. Holders'
  <2> SUFFICES ASSUME NEW q \in Proc, NEW c \in Buf
               PROVE  slock'[c] = q <=> op'[q].b = c /\ op'[q].pc \in {"read", "use", "write"}
    BY DEF Holders
  <2>1. slock[c] = q <=> op[q].b = c /\ op[q].pc \in {"read", "use", "write"}
    BY DEF IInv, CacheInv, Holders
  <2> QED
    BY <1>1, <1>3, <1>4, <1>5, <1>7, <2>1
<1>10. Ops' /\ Named'
  BY <1>1, <1>2, <1>3, <1>4 DEF IInv, CacheInv, Ops, Named
<1>11. Sleepers'
  <2> SUFFICES ASSUME NEW q \in lsleep PROVE op'[q].pc = "lock" /\ slock'[op'[q].b] # None
    BY <1>1 DEF Sleepers
  <2>1. q \in Proc /\ q # p /\ op[q].pc = "lock" /\ slock[op[q].b] # None
    BY <1>1, <1>2, CacheTyped DEF IInv, CacheInv, Sleepers
  <2>2. op[q].b \in Buf
    BY <2>1, BufOf
  <2> QED
    BY <1>1, <1>4, <1>7, <2>1, <2>2
<1>12. Unique' /\ Listed' /\ CountsExact'
  BY <1>1, <1>4, CountsKept DEF IInv, CacheInv, Unique, Listed
<1> QED
  BY <1>6, <1>8, <1>9, <1>10, <1>11, <1>12 DEF IInv, CacheInv

\* acquiresleep() waits.
LEMMA LockSleepKeeps == ASSUME IInv, NEW p \in Proc, LockSleep(p) PROVE IInv'
<1>1. /\ op[p].pc = "lock" /\ slock[op[p].b] # None /\ lsleep' = lsleep \cup {p}
      /\ UNCHANGED dvars /\ UNCHANGED <<blockno, valid, refcnt, lru, slock, op, change, pinned>>
  BY DEF LockSleep, At
<1>2. DiskInv' /\ DiskTypeOK' /\ io' = io
  BY <1>1, DiskLeftAlone
<1>3. TypeOK'
  BY <1>1, <1>2 DEF IInv, CacheInv, TypeOK
<1> QED
  BY <1>1, <1>2, <1>3
     DEF IInv, CacheInv, Requests, Holders, Ops, Sleepers, Named, Unique, Listed, CountsExact

\* The block is read.
LEMMA ReadDoneKeeps == ASSUME IInv, NEW p \in Proc, ReadDone(p) PROVE IInv'
<1>1. /\ op[p].pc = "read" /\ io[p].pc = "idle" /\ Goto(p, "use")
      /\ valid' = [valid EXCEPT ![op[p].b] = TRUE]
      /\ UNCHANGED dvars /\ UNCHANGED <<blockno, refcnt, lru, slock, lsleep, change, pinned>>
  BY DEF ReadDone, At
<1>2. DiskInv' /\ DiskTypeOK' /\ io' = io
  BY <1>1, DiskLeftAlone
<1>3. TypeOK
  BY DEF IInv, CacheInv
<1>4. valid' \in [Buf -> BOOLEAN] /\ change' \in [Buf -> {"clean", "dirty", "logged"}]
  BY <1>1, <1>3, CacheTyped
<1>5. TypeOK' /\ Holders' /\ Ops' /\ Sleepers' /\ Named' /\ Unique' /\ Listed' /\ CountsExact'
  BY <1>1, <1>2, <1>4, PlaceKeeps
<1>6. Requests'
  BY <1>1, <1>2, <1>3, GotoIs DEF IInv, CacheInv, Requests
<1> QED
  BY <1>2, <1>5, <1>6 DEF IInv, CacheInv

\* The block is written.
LEMMA WriteDoneKeeps == ASSUME IInv, NEW p \in Proc, WriteDone(p) PROVE IInv'
<1>1. /\ op[p].pc = "write" /\ io[p].pc = "idle" /\ Goto(p, "use")
      /\ change' = [change EXCEPT ![op[p].b] = "clean"]
      /\ UNCHANGED dvars /\ UNCHANGED <<blockno, valid, refcnt, lru, slock, lsleep, pinned>>
  BY DEF WriteDone, At
<1>2. DiskInv' /\ DiskTypeOK' /\ io' = io
  BY <1>1, DiskLeftAlone
<1>3. TypeOK
  BY DEF IInv, CacheInv
<1>4. valid' \in [Buf -> BOOLEAN] /\ change' \in [Buf -> {"clean", "dirty", "logged"}]
  BY <1>1, <1>3, CacheTyped
<1>5. TypeOK' /\ Holders' /\ Ops' /\ Sleepers' /\ Named' /\ Unique' /\ Listed' /\ CountsExact'
  BY <1>1, <1>2, <1>4, PlaceKeeps
<1>6. Requests'
  BY <1>1, <1>2, <1>3, GotoIs DEF IInv, CacheInv, Requests
<1> QED
  BY <1>2, <1>5, <1>6 DEF IInv, CacheInv

\* bwrite() starts.
LEMMA BwriteKeeps == ASSUME IInv, NEW p \in Proc, NEW b \in Buf, Bwrite(p, b) PROVE IInv'
<1>1. /\ op[p].pc = "use" /\ op[p].b = b /\ Goto(p, "write") /\ Rw(p, b, blockno[b], TRUE)
      /\ UNCHANGED <<content, bdisk, queue, usedIdx, device, irq, vlock, napping, crashed>>
      /\ UNCHANGED <<blockno, valid, refcnt, lru, slock, lsleep, change, pinned>>
  BY DEF Bwrite, Holds, At
<1>2. TypeOK /\ blockno[b] \in Block
  BY <1>1, BufOf DEF IInv, CacheInv
<1>3. /\ op'[p].pc = "write" /\ \A q \in Proc : op'[q].b = op[q].b
      /\ \A q \in Proc : q # p => op'[q] = op[q]
  BY <1>1, <1>2, GotoIs
<1>4. DiskInv' /\ DiskTypeOK' /\ Requests'
  <2>1. op'[p].pc = IF TRUE THEN "write" ELSE "read"
    BY <1>3
  <2>2. \A q \in Proc : op[q].pc \in {"read", "use", "write"} /\ op[q].b = b => q = p
    BY <1>1, HolderAlone
  <2>3. \A q \in Proc : op'[q].b = op[q].b /\ (q # p => op'[q] = op[q])
    BY <1>3
  <2> QED
    BY <1>1, <1>2, <2>1, <2>2, <2>3, AskKeeps
<1>5. valid' \in [Buf -> BOOLEAN] /\ change' \in [Buf -> {"clean", "dirty", "logged"}]
  BY <1>1, <1>2, CacheTyped
<1>6. TypeOK' /\ Holders' /\ Ops' /\ Sleepers' /\ Named' /\ Unique' /\ Listed' /\ CountsExact'
  BY <1>1, <1>4, <1>5, PlaceKeeps
<1> QED
  BY <1>4, <1>6 DEF IInv, CacheInv

\* Change and WriteFails: what is in the buffer.
LEMMA FillKeeps ==
    ASSUME IInv, NEW b \in Buf, NEW v \in Val, data' = [data EXCEPT ![b] = v],
           UNCHANGED <<store, bdisk, queue, usedIdx, device, irq, vlock, io, napping, crashed,
                       blockno, valid, refcnt, lru, slock, lsleep, op, pinned>>,
           change' \in [Buf -> {"clean", "dirty", "logged"}]
    PROVE  IInv'
<1>1. data' \in [Buf -> Val]
  BY DEF IInv, DiskInv, DiskTypeOK
<1>2. DiskInv' /\ DiskTypeOK'
  <2>1. DiskInv'
    BY <1>1, DataKeeps DEF IInv
  <2> QED
    BY <2>1 DEF DiskInv
<1>3. TypeOK'
  BY <1>2 DEF IInv, CacheInv, TypeOK
<1> QED
  BY <1>2, <1>3 DEF IInv, CacheInv, Requests, Holders, Ops, Sleepers, Named, Unique, Listed, CountsExact

\* log_write() and install_trans(): one more reference, or one less.
LEMMA PinKeeps == ASSUME IInv, NEW p \in Proc, NEW b \in Buf, Pin(p, b) \/ Unpin(p, b) PROVE IInv'
<1>1. /\ UNCHANGED dvars /\ UNCHANGED <<blockno, valid, lru, slock, lsleep, op>>
      /\ \/ pinned' = pinned \cup {b} /\ refcnt' = [refcnt EXCEPT ![b] = IF b \in pinned THEN @ ELSE @ + 1]
         \/ b \in pinned /\ pinned' = pinned \ {b} /\ refcnt' = [refcnt EXCEPT ![b] = @ - 1]
  BY DEF Pin, Unpin
<1>2. TypeOK /\ CountsExact
  BY DEF IInv, CacheInv
<1>3. DiskInv' /\ DiskTypeOK' /\ io' = io
  BY <1>1, DiskLeftAlone
<1>4. change' \in [Buf -> {"clean", "dirty", "logged"}]
  BY <1>2, CacheTyped DEF Pin, Unpin
<1>5. CountsExact'
  <2> SUFFICES ASSUME NEW c \in Buf
               PROVE  refcnt'[c] = Cardinality(Uses(c)) + (IF c \in pinned' THEN 1 ELSE 0)
    BY <1>1 DEF CountsExact, Uses
  <2>1. refcnt[c] = Cardinality(Uses(c)) + Pinned(c) /\ Cardinality(Uses(c)) \in Nat
    BY <1>2, CountIsUses
  <2>2. CASE c # b
    <3>1. refcnt'[c] = refcnt[c] /\ (c \in pinned' <=> c \in pinned)
      BY <1>1, <1>2, <2>2, CacheTyped
    <3> QED
      BY <2>1, <3>1 DEF Pinned
  <2>3. CASE c = b
    <3>1. \/ b \in pinned' /\ refcnt'[b] = IF b \in pinned THEN refcnt[b] ELSE refcnt[b] + 1
          \/ b \in pinned /\ b \notin pinned' /\ refcnt'[b] = refcnt[b] - 1
      BY <1>1, <1>2, CacheTyped
    <3> QED
      BY <2>1, <2>3, <3>1 DEF Pinned
  <2> QED
    BY <2>2, <2>3
<1>6. TypeOK'
  <2>1. refcnt' \in [Buf -> 0 .. Cardinality(Proc) + 1]
    BY <1>1, <1>2, <1>5, CacheTyped, CountsTyped
  <2>2. pinned' \subseteq Buf
    BY <1>1, <1>2, CacheTyped
  <2> QED
    BY <1>1, <1>2, <1>3, <1>4, <2>1, <2>2 DEF TypeOK
<1> QED
  BY <1>1, <1>3, <1>5, <1>6
     DEF IInv, CacheInv, Requests, Holders, Ops, Sleepers, Named, Unique, Listed

\* releasesleep() wakes those who wait for this buffer.
LEMMA ReleaseKeeps == ASSUME IInv, NEW p \in Proc, NEW b \in Buf, Release(p, b) PROVE IInv'
<1>1. /\ op[p].pc = "use" /\ op[p].b = b /\ Goto(p, "release")
      /\ slock' = [slock EXCEPT ![b] = None] /\ lsleep' = {q \in lsleep : op[q].b # b}
      /\ UNCHANGED dvars /\ UNCHANGED <<blockno, valid, refcnt, lru, change, pinned>>
  BY DEF Release, Holds, At
<1>2. TypeOK /\ io[p].pc = "idle"
  BY <1>1 DEF IInv, CacheInv, Requests
<1>3. /\ op' \in [Proc -> OpType] /\ op'[p].pc = "release" /\ \A q \in Proc : op'[q].b = op[q].b
      /\ \A q \in Proc : q # p => op'[q] = op[q]
  BY <1>1, <1>2, GotoIs
<1>4. DiskInv' /\ DiskTypeOK' /\ io' = io
  BY <1>1, DiskLeftAlone
<1>5. /\ slock' \in [Buf -> Proc \cup {None}] /\ slock'[b] = None
      /\ \A c \in Buf : c # b => slock'[c] = slock[c]
  BY <1>1, <1>2, CacheTyped
<1>6. \A q \in Proc : op[q].pc \in {"read", "use", "write"} /\ op[q].b = b => q = p
  BY <1>1, HolderAlone
<1>7. TypeOK'
  <2>1. lsleep' \subseteq Proc
    BY <1>1, <1>2, CacheTyped
  <2> QED
    BY <1>1, <1>2, <1>3, <1>4, <1>5, <2>1 DEF TypeOK, OpType
<1>8. Holders'
  <2> SUFFICES ASSUME NEW q \in Proc, NEW c \in Buf
               PROVE  slock'[c] = q <=> op'[q].b = c /\ op'[q].pc \in {"read", "use", "write"}
    BY DEF Holders
  <2>1. slock[c] = q <=> op[q].b = c /\ op[q].pc \in {"read", "use", "write"}
    BY DEF IInv, CacheInv, Holders
  <2> QED
    BY <1>1, <1>3, <1>5, <1>6, <2>1, DiskConstants
<1>9. Ops' /\ Named' /\ Requests'
  BY <1>1, <1>2, <1>3, <1>4 DEF IInv, CacheInv, Ops, Named, Requests
<1>10. Sleepers'
  <2> SUFFICES ASSUME NEW q \in lsleep, op[q].b # b PROVE op'[q].pc = "lock" /\ slock'[op'[q].b] # None
    BY <1>1 DEF Sleepers
  <2>1. q \in Proc /\ q # p /\ op[q].pc = "lock" /\ slock[op[q].b] # None
    BY <1>1, <1>2, CacheTyped DEF IInv, CacheInv, Sleepers
  <2> QED
    BY <1>3, <1>5, <2>1, BufOf
<1>11. Unique' /\ Listed' /\ CountsExact'
  BY <1>1, <1>3, CountsKept DEF IInv, CacheInv, Unique, Listed
<1> QED
  BY <1>4, <1>7, <1>8, <1>9, <1>10, <1>11 DEF IInv, CacheInv

\* A buffer that moves to the head of the list does not leave it.
LEMMA ToHeadIs ==
    ASSUME NEW n \in Nat, NEW s \in [1 .. n -> Buf], NEW b \in Buf,
           \A c \in Buf : \E i \in DOMAIN s : s[i] = c
    PROVE  /\ ToHead(s, b) \in [1 .. n -> Buf]
           /\ \A c \in Buf : \E i \in DOMAIN ToHead(s, b) : ToHead(s, b)[i] = c
<1> DEFINE i == CHOOSE j \in DOMAIN s : s[j] = b
           t == [j \in 1 .. n |-> IF j = 1 THEN b ELSE IF j <= i THEN s[j - 1] ELSE s[j]]
<1>1. DOMAIN s = 1 .. n
  OBVIOUS
<1>2. ToHead(s, b) = t
  BY <1>1 DEF ToHead
<1>3. i \in 1 .. n /\ s[i] = b
  BY <1>1
<1> HIDE DEF i
<1>4. ASSUME NEW j \in 1 .. n PROVE t[j] \in Buf
  BY <1>3
<1>5. t \in [1 .. n -> Buf]
  BY <1>4
<1>6. ASSUME NEW c \in Buf PROVE \E j \in 1 .. n : t[j] = c
  <2>1. PICK m \in 1 .. n : s[m] = c
    BY <1>1
  <2>2. CASE m < i
    <3>1. m + 1 \in 1 .. n /\ m + 1 # 1 /\ m + 1 <= i /\ (m + 1) - 1 = m
      BY <1>3, <2>2
    <3>2. t[m + 1] = c
      BY <2>1, <3>1
    <3> QED
      BY <3>1, <3>2
  <2>3. CASE m = i
    <3>1. 1 \in 1 .. n /\ t[1] = c
      BY <1>3, <2>1, <2>3
    <3> QED
      BY <3>1
  <2>4. CASE m > i
    <3>1. t[m] = c
      BY <1>3, <2>1, <2>4
    <3> QED
      BY <3>1
  <2> QED
    BY <1>3, <2>2, <2>3, <2>4
<1> HIDE DEF t
<1> QED
  BY <1>2, <1>5, <1>6

\* The count goes down, and the buffer goes to the head of the list.
LEMMA BrelseEndKeeps == ASSUME IInv, NEW p \in Proc, BrelseEnd(p) PROVE IInv'
<1> DEFINE b == op[p].b
<1>1. /\ op[p].pc = "release" /\ refcnt' = [refcnt EXCEPT ![b] = @ - 1]
      /\ lru' = lru \/ lru' = ToHead(lru, b)
      /\ op' = [op EXCEPT ![p] = [pc |-> "user", b |-> None]]
      /\ UNCHANGED dvars /\ UNCHANGED <<blockno, valid, slock, lsleep, change, pinned>>
  BY DEF BrelseEnd, At
<1>2. TypeOK /\ CountsExact /\ b \in Buf /\ b # None /\ io[p].pc = "idle"
  BY <1>1, BufOf, DiskConstants DEF IInv, CacheInv, Requests
<1>3. DiskInv' /\ DiskTypeOK' /\ io' = io
  BY <1>1, DiskLeftAlone
<1>4. /\ op' \in [Proc -> OpType] /\ op'[p].pc = "user" /\ op'[p].b = None
      /\ \A q \in Proc : q # p => op'[q] = op[q]
  BY <1>1, <1>2, CacheTyped DEF OpType
<1>5. lru' \in [1 .. Cardinality(Buf) -> Buf] /\ Listed'
  <2>1. Cardinality(Buf) \in Nat
    BY CacheConstants, FS_CardinalityType
  <2>2. Listed
    BY DEF IInv, CacheInv
  <2>3. lru \in [1 .. Cardinality(Buf) -> Buf]
    BY <1>2, CacheTyped
  <2> QED
    <3>1. CASE lru' = lru
      BY <2>2, <2>3, <3>1 DEF Listed
    <3>2. CASE lru' = ToHead(lru, b)
      <4>1. \A c \in Buf : \E i \in DOMAIN lru : lru[i] = c
        BY <2>2 DEF Listed
      <4> HIDE DEF b
      <4>2. /\ ToHead(lru, b) \in [1 .. Cardinality(Buf) -> Buf]
            /\ \A c \in Buf : \E i \in DOMAIN ToHead(lru, b) : ToHead(lru, b)[i] = c
        BY <1>2, <2>1, <2>3, <4>1, ToHeadIs
      <4> QED
        BY <3>2, <4>2 DEF Listed
    <3> QED
      BY <1>1, <3>1, <3>2
<1>6. CountsExact'
  <2> SUFFICES ASSUME NEW c \in Buf
               PROVE  refcnt'[c] = Cardinality({q \in Proc : op'[q].b = c}) + Pinned(c)
    BY <1>1 DEF CountsExact, Pinned
  <2>1. refcnt[c] = Cardinality(Uses(c)) + Pinned(c) /\ Cardinality(Uses(c)) \in Nat /\ Pinned(c) \in Nat
    BY <1>2, CountIsUses DEF Pinned
  <2>2. CASE c = b
    <3>1. {q \in Proc : op'[q].b = c} = Uses(c) \ {p} /\ p \in Uses(c)
      BY <1>2, <1>4, <2>2 DEF Uses
    <3>2. Cardinality({q \in Proc : op'[q].b = c}) = Cardinality(Uses(c)) - 1
      BY <3>1, UsesFinite, UsesShrink
    <3>3. refcnt'[c] = refcnt[c] - 1
      BY <1>1, <1>2, <2>2, CacheTyped
    <3> QED
      BY <2>1, <3>2, <3>3
  <2>3. CASE c # b
    <3>1. {q \in Proc : op'[q].b = c} = Uses(c)
      BY <1>2, <1>4, <2>3, DiskConstants DEF Uses
    <3>2. refcnt'[c] = refcnt[c]
      BY <1>1, <1>2, <2>3, CacheTyped
    <3> QED
      BY <2>1, <3>1, <3>2
  <2> QED
    BY <2>2, <2>3
<1>7. TypeOK'
  <2>1. refcnt' \in [Buf -> 0 .. Cardinality(Proc) + 1]
    BY <1>1, <1>2, <1>6, CacheTyped, CountsTyped
  <2> QED
    BY <1>1, <1>2, <1>3, <1>4, <1>5, <2>1 DEF TypeOK, OpType
<1>8. Requests' /\ Ops' /\ Named' /\ Unique'
  BY <1>1, <1>2, <1>3, <1>4 DEF IInv, CacheInv, Requests, Ops, Named, Unique
<1>9. Holders'
  BY <1>1, <1>4 DEF IInv, CacheInv, Holders
<1>10. Sleepers'
  BY <1>1, <1>2, <1>4, CacheTyped DEF IInv, CacheInv, Sleepers
<1> QED
  BY <1>3, <1>5, <1>6, <1>7, <1>8, <1>9, <1>10 DEF IInv, CacheInv

\* Every step of the cache keeps the invariant.
LEMMA CacheStepKeeps == ASSUME IInv, NEW p \in Proc, CacheStep(p) PROVE IInv'
<1>1. TypeOK
  BY DEF IInv, CacheInv
<1>2. ASSUME NEW b \in Buf, Change(p, b) PROVE IInv'
  <2>1. change' \in [Buf -> {"clean", "dirty", "logged"}]
    BY <1>1, <1>2, CacheTyped DEF Change
  <2>2. \E v \in Val : data' = [data EXCEPT ![b] = v]
    BY <1>2 DEF Change
  <2> QED
    BY <1>2, <2>1, <2>2, FillKeeps DEF Change
<1>3. ASSUME NEW b \in Buf, WriteFails(p, b) PROVE IInv'
  <2>1. change' \in [Buf -> {"clean", "dirty", "logged"}]
    BY <1>1, <1>3, CacheTyped DEF WriteFails, cvars
  <2>2. \E v \in Val : data' = [data EXCEPT ![b] = v]
    BY <1>3 DEF WriteFails
  <2> QED
    BY <1>3, <2>1, <2>2, FillKeeps DEF WriteFails, cvars
<1> QED
  BY <1>2, <1>3, BgetHitKeeps, BgetRecycleKeeps, LockBufKeeps, LockSleepKeeps, ReadDoneKeeps,
     WriteDoneKeeps, BrelseEndKeeps, BwriteKeeps, PinKeeps, ReleaseKeeps DEF CacheStep

\* binit() establishes the invariant.
LEMMA InitKeeps == Init => IInv
<1> SUFFICES ASSUME Init PROVE IInv
  OBVIOUS
<1>1. DiskInv /\ DiskTypeOK /\ \A p \in Proc : io[p].pc = "idle"
  BY DiskInitGood DEF Init, DiskInit, DiskInv, NoIO
<1>2. Cardinality({}) = 0 /\ Cardinality(Proc) \in Nat
  BY CacheConstants, FS_EmptySet, FS_CardinalityType
<1>3. TypeOK
  BY <1>1, <1>2 DEF Init, TypeOK
<1>4. /\ \A p \in Proc : op[p].pc = "user" /\ op[p].b = None
      /\ \A b \in Buf : slock[b] = None /\ blockno[b] = None /\ refcnt[b] = 0
      /\ lsleep = {} /\ pinned = {}
  BY DEF Init
<1>5. Requests /\ Holders /\ Ops /\ Sleepers /\ Named /\ Unique
  BY <1>1, <1>4, DiskConstants DEF Requests, Holders, Ops, Sleepers, Named, Unique
<1>6. Listed
  BY DEF Init, Listed
<1>7. CountsExact
  <2> SUFFICES ASSUME NEW b \in Buf
               PROVE  refcnt[b] = Cardinality({p \in Proc : op[p].b = b}) + Pinned(b)
    BY DEF CountsExact, Pinned
  <2>1. {p \in Proc : op[p].b = b} = {}
    BY <1>4, DiskConstants
  <2>2. Cardinality({p \in Proc : op[p].b = b}) = 0
    BY <1>2, <2>1
  <2> QED
    BY <1>4, <2>2 DEF Pinned
<1> QED
  BY <1>1, <1>3, <1>5, <1>6, <1>7 DEF IInv, CacheInv

\* Every step keeps the invariant.
LEMMA NextKeeps == IInv /\ [Next]_vars => IInv'
<1>1. ASSUME IInv, NEW p \in Proc, CacheStep(p) PROVE IInv'
  BY <1>1, CacheStepKeeps
<1>2. ASSUME IInv, DiskNext, UNCHANGED cvars PROVE IInv'
  BY <1>2, DiskStepKeeps
<1>3. ASSUME IInv, UNCHANGED vars PROVE IInv'
  <2>1. UNCHANGED dvars /\ UNCHANGED cvars
    BY <1>3 DEF vars
  <2>2. DiskInv' /\ DiskTypeOK' /\ io' = io
    BY <1>3, <2>1, DiskLeftAlone
  <2>3. TypeOK'
    BY <1>3, <2>1, <2>2 DEF IInv, CacheInv, TypeOK, cvars
  <2> QED
    BY <1>3, <2>1, <2>2, <2>3
       DEF IInv, CacheInv, Requests, Holders, Ops, Sleepers, Named, Unique, Listed, CountsExact, cvars
<1> QED
  BY <1>1, <1>2, <1>3 DEF Next

-----------------------------------------------------------------------------
\* The inductive invariant of the cache and the driver holds.
THEOREM CacheInvariant == Spec => []IInv
<1>1. Init => IInv
  BY InitKeeps
<1>2. IInv /\ [Next]_vars => IInv'
  BY NextKeeps
<1> QED
  BY <1>1, <1>2, PTL DEF Spec

\* The cache and the driver keep to their types: no count, index or list leaves
\* its range.
THEOREM CacheTypeOK == Spec => []TypeOK
<1>1. IInv => TypeOK
  BY DEF IInv, CacheInv
<1> QED
  BY <1>1, CacheInvariant, PTL

\* b->refcnt is the number of processes inside bread() ... brelse() with b, and one
\* more while the log has it pinned: bget() never takes a buffer that is in use.
THEOREM CacheCountsExact == Spec => []CountsExact
<1>1. IInv => CountsExact
  BY DEF IInv, CacheInv
<1> QED
  BY <1>1, CacheInvariant, PTL

\* No panic of bio.c and virtio_disk.c is reached: "bget: no buffers", "free_desc 1"
\* and "free_desc 2", "virtio_disk_intr status", as long as the callers need no more
\* buffers than there are and the device reports no error.
THEOREM CacheNeverPanics == Spec => []NoPanic
<1>1. IInv => NoPanic
  BY DEF IInv, DiskInv, NoPanic
<1> QED
  BY <1>1, CacheInvariant, PTL

\* Nobody sleeps in acquiresleep() for a lock that is free, or in virtio_disk_rw() for
\* descriptors that are there or for a buffer that the device has given back.
THEOREM CacheNoLostWakeup == Spec => []NoLostWakeup
<1>1. IInv => NoLostWakeup
  BY DEF IInv, DiskInv, CacheInv, NoLostWakeup, NoSleeper, Naps, Sleepers
<1> QED
  BY <1>1, CacheInvariant, PTL

\* While the used ring holds an answer that the driver has not seen, the interrupt is
\* raised or the handler is still in its loop.
THEOREM DiskNoLostInterrupt == Spec => []NoLostInterrupt
<1>1. IInv => NoLostInterrupt
  BY DEF IInv, DiskInv
<1> QED
  BY <1>1, CacheInvariant, PTL

\* What free_chain() goes through is the chain of the request.
LEMMA ChainIs ==
    ASSUME DiskInv, NEW p \in Active
    PROVE  Chain(io[p].head) = ChainOf(p)
<1>1. MidOf(p) # None /\ LastOf(p) # None
  BY DiskConstants DEF DiskInv, Chained, Descs
<1> QED
  BY <1>1 DEF Chain, ChainOf, HeadOf, MidOf, LastOf

\* Every descriptor is free or belongs to exactly one request.
THEOREM DiskDescsAccounted == Spec => []DescsAccounted
<1>1. ASSUME IInv, NEW i \in Descs(NUM)
      PROVE  Cardinality(Owners(i)) = IF i \in free THEN 0 ELSE 1
  <2>1. DiskInv
    BY <1>1 DEF IInv
  <2>2. Owners(i) = {p \in Active : i \in ChainOf(p)}
    BY <2>1, ChainIs DEF Owners, Active
  <2>3. CASE i \in free
    <3>1. Owners(i) = {}
      BY <2>1, <2>2, <2>3 DEF DiskInv, Chained
    <3> QED
      BY <2>3, <3>1, FS_EmptySet
  <2>4. CASE i \notin free
    <3>1. PICK p \in Active : i \in ChainOf(p)
      BY <1>1, <2>1, <2>4 DEF DiskInv, Covered
    <3>2. \A q \in Active : i \in ChainOf(q) => q = p
      BY <2>1, <3>1 DEF DiskInv, Apart
    <3>3. Owners(i) = {p}
      BY <2>2, <3>1, <3>2
    <3> QED
      BY <2>4, <3>3, FS_Singleton
  <2> QED
    BY <2>3, <2>4
<1>2. IInv => DescsAccounted
  BY <1>1 DEF DescsAccounted
<1> QED
  BY <1>2, CacheInvariant, PTL

-----------------------------------------------------------------------------
(* The driver and the device implement SyncDisk.                           *)

\* What SyncDisk shows of the requests.
Req(p) == [pc |-> Phase(p), b |-> io[p].b, block |-> io[p].block, write |-> io[p].write]
Reqs   == [p \in Proc |-> Req(p)]
Content == <<store, data>>

\* A request looks the same while its process and its status byte stay.
LEMMA ReqKept ==
    ASSUME NEW q \in Proc, io'[q] = io[q],
           q \in Active => info'[HeadOf(q)].status = info[HeadOf(q)].status,
           io[q].pc \in {"idle", "alloc", "publish", "wait"}
    PROVE  Req(q)' = Req(q)
BY DEF Req, Phase, Active, HeadOf

\* All the requests look the same.
LEMMA ReqsKept ==
    ASSUME \A q \in Proc : Req(q)' = Req(q)
    PROVE  Reqs' = Reqs
BY DEF Reqs

\* The phases of a request.
LEMMA PhaseIs ==
    ASSUME DiskInv, NEW p \in Proc
    PROVE  /\ io[p].pc = "idle" <=> Phase(p) = "idle"
           /\ io[p].pc = "alloc" => Phase(p) = "asked"
           /\ p \in Active /\ info[HeadOf(p)].status = 0 => Phase(p) = "done"
           /\ p \in Active /\ info[HeadOf(p)].status = 255 => Phase(p) = "asked"
           /\ io[p].pc \in {"idle", "alloc", "publish", "wait"}
<1>1. io[p].pc \in {"idle", "alloc", "publish", "wait"}
  BY IoTyped DEF DiskInv, IoType
<1> QED
  BY <1>1 DEF Phase, Active, HeadOf

\* What a request looks like.
LEMMA ReqsIs ==
    ASSUME NEW p \in Proc
    PROVE  /\ Reqs[p] = Req(p) /\ Reqs[p].pc = Phase(p) /\ Reqs[p].b = io[p].b
           /\ Reqs[p].block = io[p].block /\ Reqs[p].write = io[p].write
BY DEF Reqs, Req

\* One request changes.
LEMMA ReqsChange ==
    ASSUME NEW p \in Proc, \A q \in Proc : q # p => Req(q)' = Req(q)
    PROVE  Reqs' = [Reqs EXCEPT ![p] = Req(p)']
<1>1. ASSUME NEW q \in Proc PROVE Req(q)' = [Reqs EXCEPT ![p] = Req(p)'][q]
  BY DEF Reqs
<1> QED
  BY <1>1 DEF Reqs

\* The steps of SyncDisk, in terms of the requests.
Stays == Reqs' = Reqs /\ UNCHANGED <<store, data>>
Calls == \E p \in Proc, b \in Buf, k \in Block, w \in BOOLEAN :
    /\ Reqs[p].pc = "idle" /\ \A q \in Proc : Reqs[q].pc # "idle" => Reqs[q].b # b
    /\ Reqs' = [Reqs EXCEPT ![p] = [pc |-> "asked", b |-> b, block |-> k, write |-> w]]
    /\ UNCHANGED <<store, data>>
Copies == \E p \in Proc :
    /\ Reqs[p].pc = "asked"
    /\ Reqs' = [Reqs EXCEPT ![p] = [Reqs[p] EXCEPT !.pc = "done"]]
    /\ IF Reqs[p].write
       THEN store' = [store EXCEPT ![Reqs[p].block] = data[Reqs[p].b]] /\ UNCHANGED data
       ELSE data' = [data EXCEPT ![Reqs[p].b] = store[Reqs[p].block]] /\ UNCHANGED store
Returns == \E p \in Proc :
    /\ Reqs[p].pc = "done"
    /\ Reqs' = [Reqs EXCEPT ![p] = [pc |-> "idle", b |-> None, block |-> None, write |-> FALSE]]
    /\ UNCHANGED <<store, data>>
Fills == \E b \in Buf, v \in Val :
    /\ \A q \in Proc : Reqs[q].pc # "idle" => Reqs[q].b # b
    /\ data' = [data EXCEPT ![b] = v] /\ Reqs' = Reqs /\ UNCHANGED store

\* The descriptors of a request do not show.
LEMMA SubmitMaps == ASSUME DiskInv, DiskInv', NEW p \in Proc, Submit(p) PROVE Stays
<1> DEFINE d == Least(free)
<1>1. /\ io[p].pc = "alloc" /\ p \notin Active /\ Cardinality(free) >= 3 /\ free \subseteq Descs(NUM)
      /\ UNCHANGED content
  BY DEF DiskInv, DiskTypeOK, Submit, IoAt, Active
<1>2. d \in free
  BY <1>1, ThreeFree
<1>3. /\ io' = [io EXCEPT ![p].pc = "publish", ![p].head = d]
      /\ info' = [info EXCEPT ![d] = [b |-> io[p].b, status |-> 255]]
  BY DEF Submit
<1> HIDE DEF d
<1>4. /\ \A q \in Proc : q # p => io'[q] = io[q]
      /\ io'[p].pc = "publish" /\ io'[p].head = d /\ io'[p].b = io[p].b
      /\ io'[p].block = io[p].block /\ io'[p].write = io[p].write
  BY <1>1, <1>2, <1>3, IoTyped DEF DiskInv, IoType
<1>5. info'[d].status = 255 /\ \A i \in Descs(NUM) : i # d => info'[i] = info[i]
  BY <1>1, <1>2, <1>3 DEF DiskInv, DiskTypeOK
<1>6. ASSUME NEW q \in Proc, q # p PROVE Req(q)' = Req(q)
  <2>1. q \in Active => HeadOf(q) \in Descs(NUM) /\ HeadOf(q) # d
    BY <1>2, IoTyped DEF DiskInv, Chained, ChainOf, HeadOf, IoType
  <2> QED
    BY <1>4, <1>5, <1>6, <2>1, PhaseIs, ReqKept
<1>7. Req(p)' = Req(p)
  BY <1>1, <1>4, <1>5 DEF Req, Phase
<1> QED
  BY <1>1, <1>6, <1>7, ReqsKept DEF Stays, content

\* Neither does its place in the ring.
LEMMA PublishMaps == ASSUME DiskInv, NEW p \in Proc, Publish(p) PROVE Stays
<1>1. /\ io[p].pc = "publish" /\ io' = [io EXCEPT ![p].pc = "wait"] /\ UNCHANGED <<content, info>>
  BY DEF Publish, IoAt
<1>2. /\ \A q \in Proc : q # p => io'[q] = io[q]
      /\ io'[p].pc = "wait" /\ io'[p].head = io[p].head /\ io'[p].b = io[p].b
      /\ io'[p].block = io[p].block /\ io'[p].write = io[p].write
  BY <1>1, IoTyped DEF DiskInv, IoType
<1>3. ASSUME NEW q \in Proc, q # p PROVE Req(q)' = Req(q)
  BY <1>1, <1>2, <1>3, PhaseIs, ReqKept
<1>4. Req(p)' = Req(p)
  BY <1>1, <1>2 DEF Req, Phase
<1> QED
  BY <1>1, <1>3, <1>4, ReqsKept DEF Stays, content

\* A request that has been carried out returns.
LEMMA FinishMaps == ASSUME DiskInv, NEW p \in Proc, Finish(p) PROVE Stays \/ Returns
<1>1. /\ p \in Active /\ p \in Waiting /\ io[p].pc = "wait" /\ HeadOf(p) \in Descs(NUM)
  BY DEF DiskInv, DiskTypeOK, Finish, IoAt, Active, Waiting, HeadOf
<1>2. CASE bdisk[io[p].b]
  <2>1. UNCHANGED <<content, info, io>>
    BY <1>2 DEF Finish, queue
  <2> QED
    BY <2>1, PhaseIs, ReqKept, ReqsKept DEF Stays, content
<1>3. CASE ~ bdisk[io[p].b]
  <2>1. ChainOf(p) \cap free = {} /\ Chain(io[p].head) = ChainOf(p)
    BY <1>1, ChainIs DEF DiskInv, Chained
  <2>2. /\ io' = [io EXCEPT ![p] = NoIO] /\ info' = [info EXCEPT ![HeadOf(p)].b = None]
        /\ UNCHANGED content
    BY <1>3, <2>1 DEF Finish, HeadOf
  <2>3. io'[p] = NoIO /\ \A q \in Proc : q # p => io'[q] = io[q]
    BY <2>2 DEF DiskInv, DiskTypeOK
  <2>4. \A i \in Descs(NUM) : i # HeadOf(p) => info'[i] = info[i]
    BY <2>2 DEF DiskInv, DiskTypeOK
  <2>5. ASSUME NEW q \in Proc, q # p PROVE Req(q)' = Req(q)
    <3>1. q \in Active => HeadOf(q) \in Descs(NUM) /\ HeadOf(q) # HeadOf(p)
      BY <1>1, <2>5, IoTyped, HeadsDiffer DEF DiskInv, HeadOf, IoType
    <3> QED
      BY <2>3, <2>4, <2>5, <3>1, PhaseIs, ReqKept
  <2>6. Req(p)' = [pc |-> "idle", b |-> None, block |-> None, write |-> FALSE]
    BY <2>3 DEF Req, Phase, NoIO
  <2>7. Reqs[p].pc = "done"
    BY <1>1, <1>3, PhaseIs, ReqsIs DEF DiskInv, Stages
  <2>8. Reqs' = [Reqs EXCEPT ![p] = [pc |-> "idle", b |-> None, block |-> None, write |-> FALSE]]
    BY <2>5, <2>6, ReqsChange
  <2> QED
    BY <2>2, <2>7, <2>8 DEF Returns, content
<1> QED
  BY <1>2, <1>3

\* The device carries out a request as one copy of its own block and its own buffer.
LEMMA DevServeMaps == ASSUME DiskInv, DiskInv', NEW h \in Descs(NUM), DevServe(h) PROVE Copies
<1>1. PICK p \in Waiting : p \in Active /\ p \in Proc /\ HeadOf(p) = h
  BY HeadKnown DEF DevServe, Asked
<1>2. info' = [info EXCEPT ![h].status = 0] /\ io' = io
  BY <1>1, ChainFound DEF DevServe
<1>3. info'[h].status = 0 /\ \A i \in Descs(NUM) : i # h => info'[i] = info[i]
  BY <1>2 DEF DiskInv, DiskTypeOK
<1>4. ASSUME NEW q \in Proc, q # p PROVE Req(q)' = Req(q)
  <2>1. q \in Active => HeadOf(q) \in Descs(NUM) /\ HeadOf(q) # h
    BY <1>1, <1>4, IoTyped, HeadsDiffer DEF DiskInv, HeadOf, IoType
  <2> QED
    BY <1>2, <1>3, <1>4, <2>1, PhaseIs, ReqKept
<1>5. Reqs[p].pc = "asked"
  <2>1. info[HeadOf(p)].status = 255
    BY <1>1 DEF DiskInv, Stages, Asked, DevServe
  <2> QED
    BY <1>1, <2>1, PhaseIs, ReqsIs
<1>6. Req(p)' = [Reqs[p] EXCEPT !.pc = "done"]
  <2>1. Phase(p)' = "done"
    BY <1>1, <1>2, <1>3 DEF Phase, Waiting, HeadOf
  <2>2. Req(p)' = [pc |-> "done", b |-> io[p].b, block |-> io[p].block, write |-> io[p].write]
    BY <1>2, <2>1 DEF Req
  <2>3. Reqs[p] = [pc |-> Phase(p), b |-> io[p].b, block |-> io[p].block, write |-> io[p].write]
    BY <1>1 DEF Reqs, Req
  <2> QED
    BY <2>2, <2>3
<1>7. Reqs' = [Reqs EXCEPT ![p] = [Reqs[p] EXCEPT !.pc = "done"]]
  BY <1>1, <1>4, <1>6, ReqsChange
<1>8. IF Reqs[p].write
      THEN store' = [store EXCEPT ![Reqs[p].block] = data[Reqs[p].b]] /\ UNCHANGED data
      ELSE data' = [data EXCEPT ![Reqs[p].b] = store[Reqs[p].block]] /\ UNCHANGED store
  <2> DEFINE o == ops[desc[h].addr[2]]
             b == desc[desc[h].next].addr[2]
  <2>1. o = [write |-> io[p].write, sector |-> io[p].block] /\ b = io[p].b
    BY <1>1, ChainFound
  <2>2. IF o.write THEN store' = [store EXCEPT ![o.sector] = data[b]] /\ UNCHANGED data
                   ELSE data' = [data EXCEPT ![b] = store[o.sector]] /\ UNCHANGED store
    BY DEF DevServe
  <2> QED
    BY <1>1, <2>1, <2>2, ReqsIs
<1> QED
  BY <1>1, <1>5, <1>7, <1>8 DEF Copies

\* Steps that touch neither the requests nor the contents do not show.
LEMMA OtherStepsMap ==
    ASSUME DiskInv, UNCHANGED <<io, info, store, data>>
    PROVE  Stays
BY PhaseIs, ReqKept, ReqsKept DEF Stays

\* A step of the driver or the device is a step of SyncDisk, or does not show.
LEMMA DiskMaps == ASSUME DiskInv, DiskInv', DiskNext PROVE Stays \/ Copies \/ Returns
<1>1. ASSUME NEW p \in Proc, NoDescs(p) PROVE Stays
  BY <1>1, OtherStepsMap DEF NoDescs, queue, content
<1>2. ASSUME Intr PROVE Stays
  <2>1. UNCHANGED <<io, info, store, data>>
    BY <1>2 DEF Intr, IntrStart, IntrEntry, IntrEnd, DiskPanic, queue, content
  <2> QED
    BY <2>1, OtherStepsMap
<1>3. ASSUME DevTake PROVE Stays
  BY <1>3, OtherStepsMap DEF DevTake, queue, content
<1>4. ASSUME NEW h \in Descs(NUM), DevPost(h) PROVE Stays
  BY <1>4, OtherStepsMap DEF DevPost, queue, content
<1> QED
  BY <1>1, <1>2, <1>3, <1>4, SubmitMaps, PublishMaps, FinishMaps, DevServeMaps
     DEF DiskNext, RwStep, Device

\* A buffer that a process holds, and that it does not read or write, is in no
\* request.
LEMMA HolderMaps ==
    ASSUME IInv, NEW p \in Proc, op[p].pc \in {"lock", "use"},
           op[p].pc = "lock" => slock[op[p].b] = None
    PROVE  \A q \in Proc : Reqs[q].pc # "idle" => Reqs[q].b # op[p].b
<1> SUFFICES ASSUME NEW q \in Proc, Reqs[q].pc # "idle", Reqs[q].b = op[p].b PROVE FALSE
  OBVIOUS
<1>1. op[q].pc \in {"read", "write"} /\ op[q].b = op[p].b
  BY PhaseIs, ReqsIs DEF IInv, CacheInv, Requests
<1>2. slock[op[p].b] = q
  BY <1>1, HolderAlone
<1>3. op[p].pc = "use"
  BY <1>2, DiskConstants
<1> QED
  BY <1>1, <1>3, HolderAlone

\* A call for a buffer that no other request is about.
LEMMA AskMaps ==
    ASSUME IInv, NEW p \in Proc, NEW b \in Buf, NEW k \in Block, NEW w \in BOOLEAN, Rw(p, b, k, w),
           \A q \in Proc : Reqs[q].pc # "idle" => Reqs[q].b # b,
           UNCHANGED <<store, data, info>>
    PROVE  Calls
<1>1. io[p].pc = "idle" /\ io \in [Proc -> IoType] /\ NoIO \in IoType /\ DiskInv
  <2>1. 0 \in Descs(NUM)
    BY DiskConstants DEF Descs
  <2> QED
    BY <2>1, IoTyped DEF Rw, NoIO, IoType, IInv, DiskInv
<1>2. /\ \A q \in Proc : q # p => io'[q] = io[q]
      /\ io'[p].pc = "alloc" /\ io'[p].b = b /\ io'[p].block = k /\ io'[p].write = w
  BY <1>1 DEF Rw, IoType
<1>3. ASSUME NEW q \in Proc, q # p PROVE Req(q)' = Req(q)
  BY <1>1, <1>2, <1>3, PhaseIs, ReqKept
<1>4. Req(p)' = [pc |-> "asked", b |-> b, block |-> k, write |-> w]
  BY <1>2 DEF Req, Phase
<1>5. Reqs[p].pc = "idle"
  BY <1>1, PhaseIs, ReqsIs
<1>6. Reqs' = [Reqs EXCEPT ![p] = [pc |-> "asked", b |-> b, block |-> k, write |-> w]]
  BY <1>3, <1>4, ReqsChange
<1> QED
  BY <1>5, <1>6 DEF Calls

\* A step of the cache is a call or a change of a buffer, or does not show.
LEMMA CacheMaps == ASSUME IInv, NEW p \in Proc, CacheStep(p) PROVE Stays \/ Calls \/ Fills
<1>1. DiskInv
  BY DEF IInv
<1>2. ASSUME UNCHANGED dvars PROVE Stays
  BY <1>1, <1>2, OtherStepsMap DEF dvars, queue, content
<1>3. ASSUME LockBuf(p) PROVE Stays \/ Calls
  <2>1. /\ op[p].pc = "lock" /\ slock[op[p].b] = None /\ UNCHANGED <<store, data, info>>
        /\ UNCHANGED io \/ Rw(p, op[p].b, blockno[op[p].b], FALSE)
    BY <1>3 DEF LockBuf, At, queue, content
  <2>2. op[p].b \in Buf /\ blockno[op[p].b] \in Block
    BY <2>1, BufOf
  <2> QED
    BY <1>1, <2>1, <2>2, HolderMaps, AskMaps, OtherStepsMap
<1>4. ASSUME NEW b \in Buf, Bwrite(p, b) PROVE Calls
  <2>1. /\ op[p].pc = "use" /\ op[p].b = b /\ UNCHANGED <<store, data, info>>
        /\ Rw(p, b, blockno[b], TRUE)
    BY <1>4 DEF Bwrite, Holds, At, queue, content
  <2>2. blockno[b] \in Block
    BY <2>1, BufOf
  <2> QED
    BY <2>1, <2>2, HolderMaps, AskMaps
<1>5. ASSUME NEW b \in Buf, Change(p, b) \/ WriteFails(p, b) PROVE Fills
  <2>1. /\ op[p].pc = "use" /\ op[p].b = b /\ UNCHANGED <<store, io, info>>
        /\ \E v \in Val : data' = [data EXCEPT ![b] = v]
    BY <1>5 DEF Change, WriteFails, Holds, At, queue
  <2>2. Reqs' = Reqs
    BY <1>1, <2>1, PhaseIs, ReqKept, ReqsKept
  <2> QED
    BY ZenonT(30), <2>1, <2>2, HolderMaps DEF Fills
<1>6. ASSUME NEW k \in Block, BgetRecycle(p, k) PROVE Stays
  BY <1>2, <1>6, UnusedThere DEF BgetRecycle
<1> QED
  BY <1>2, <1>3, <1>4, <1>5, <1>6
     DEF CacheStep, BgetHit, LockSleep, ReadDone, WriteDone, BrelseEnd, Pin, Unpin, Release

\* No request at boot.
LEMMA InitMaps == Init => Sync!Init
<1> SUFFICES ASSUME Init PROVE Sync!Init
  OBVIOUS
<1>1. \A p \in Proc : /\ io[p].pc = "idle" /\ io[p].b = None /\ io[p].block = None
                        /\ io[p].write = FALSE
  BY DEF Init, DiskInit, NoIO
<1>2. \A p \in Proc : Req(p) = [pc |-> "idle", b |-> None, block |-> None, write |-> FALSE]
  BY <1>1 DEF Req, Phase
<1>3. Reqs = [p \in Proc |-> [pc |-> "idle", b |-> None, block |-> None, write |-> FALSE]]
  BY <1>2 DEF Reqs
<1> QED
  BY <1>3 DEF Init, DiskInit, Sync!Init, Sync!Idle, Reqs, Req

\* The driver and the disk carry out every request as one copy of one block.
THEOREM DiskIsSerial == Spec => Serial
<1>1. IInv /\ IInv' /\ [Next]_vars => [Sync!Next]_(Sync!vars)
  <2> SUFFICES ASSUME IInv, IInv', [Next]_vars PROVE [Sync!Next]_(Sync!vars)
    OBVIOUS
  <2>1. DiskInv /\ DiskInv'
    BY DEF IInv
  <2>2. Stays \/ Calls \/ Copies \/ Returns \/ Fills
    <3>1. CASE UNCHANGED vars
      BY <2>1, <3>1, OtherStepsMap DEF vars, dvars, queue, content
    <3>2. CASE Next
      BY <2>1, <3>2, DiskMaps, CacheMaps DEF Next
    <3> QED
      BY <3>1, <3>2
  <2>3. CASE Stays
    BY <2>3 DEF Stays, Sync!vars, Reqs, Req
  <2>4. CASE Calls
    <3>1. PICK p \in Proc, b \in Buf, k \in Block, w \in BOOLEAN :
            /\ Reqs[p].pc = "idle" /\ \A q \in Proc : Reqs[q].pc # "idle" => Reqs[q].b # b
            /\ Reqs' = [Reqs EXCEPT ![p] = [pc |-> "asked", b |-> b, block |-> k, write |-> w]]
            /\ UNCHANGED <<store, data>>
      BY <2>4 DEF Calls
    <3>2. Sync!Free(b)
      BY <3>1 DEF Sync!Free, Reqs, Req
    <3>3. Sync!Call(p)
      BY <3>1, <3>2 DEF Sync!Call, Reqs, Req
    <3> QED
      BY <3>3 DEF Sync!Next
  <2>5. CASE Copies
    BY <2>5 DEF Copies, Sync!Next, Sync!Copy, Reqs, Req
  <2>6. CASE Returns
    BY <2>6 DEF Returns, Sync!Next, Sync!Return, Sync!Idle, Reqs, Req
  <2>7. CASE Fills
    BY <2>7 DEF Fills, Sync!Next, Sync!Fill, Sync!Free, Reqs, Req
  <2> QED
    BY <2>2, <2>3, <2>4, <2>5, <2>6, <2>7
<1> QED
  BY <1>1, InitMaps, CacheInvariant, PTL DEF Spec, Serial, Sync!Spec

-----------------------------------------------------------------------------
(* The cache implements CachedDisk.                                        *)

\* What the buffers hold, as long as no write() fails half way.
Valids == /\ \A p \in Proc : /\ op[p].pc = "read" => ~ valid[op[p].b]
                             /\ op[p].pc \in {"use", "write"} => valid[op[p].b]
          /\ \A b \in Buf : valid[b] => blockno[b] \in Block
Copied == \A p \in Proc : op[p].pc \in {"read", "write"} /\ Phase(p) \in {"idle", "done"}
                          => data[op[p].b] = store[blockno[op[p].b]]
Clean == \A b \in Buf : valid[b] /\ change[b] = "clean" => data[b] = store[blockno[b]]
Kept == \A b \in Buf : change[b] # "clean" =>
            b \in pinned \/ \E p \in Proc : op[p].pc \in {"use", "write"} /\ op[p].b = b
DataInv == Valids /\ Copied /\ Clean /\ Kept

Full == IInv /\ DataInv

Blocks == INSTANCE CachedDisk WITH value <- Value, users <- Users

\* With one buffer for a block at most, what the block holds is there, if it is read.
LEMMA ValueIs ==
    ASSUME Unique, NEW k \in Block
    PROVE  /\ \A b \in Buf : blockno[b] = k /\ valid[b] => Value[k] = data[b]
           /\ (\A b \in Buf : blockno[b] = k => ~ valid[b]) => Value[k] = store[k]
<1>1. ASSUME NEW b \in Buf, blockno[b] = k, valid[b] PROVE Value[k] = data[b]
  <2>1. \A c \in Cached(k) : c = b
    BY <1>1, CacheConstants DEF Cached, Unique
  <2>2. b \in Cached(k) /\ (CHOOSE c \in Cached(k) : valid[c]) = b
    BY <1>1, <2>1 DEF Cached
  <2> QED
    BY <1>1, <2>2 DEF Value
<1>2. ASSUME \A b \in Buf : blockno[b] = k => ~ valid[b] PROVE Value[k] = store[k]
  BY <1>2 DEF Value, Cached
<1> QED
  BY <1>1, <1>2

\* The same, after a step.
LEMMA ValueIsNext ==
    ASSUME Unique', NEW k \in Block
    PROVE  /\ \A b \in Buf : blockno'[b] = k /\ valid'[b] => Value'[k] = data'[b]
           /\ (\A b \in Buf : blockno'[b] = k => ~ valid'[b]) => Value'[k] = store'[k]
<1>1. ASSUME NEW b \in Buf, blockno'[b] = k, valid'[b] PROVE Value'[k] = data'[b]
  <2>1. \A c \in Cached(k)' : c = b
    BY <1>1, CacheConstants DEF Cached, Unique
  <2>2. b \in Cached(k)' /\ (CHOOSE c \in Cached(k)' : valid'[c]) = b
    BY <1>1, <2>1 DEF Cached
  <2> QED
    BY <1>1, <2>2 DEF Value
<1>2. ASSUME \A b \in Buf : blockno'[b] = k => ~ valid'[b] PROVE Value'[k] = store'[k]
  BY <1>2 DEF Value, Cached
<1> QED
  BY <1>1, <1>2

\* Both are functions on the blocks.
LEMMA ValueTyped == Value = [k \in Block |-> Value[k]] /\ Users = [k \in Block |-> Users[k]]
BY DEF Value, Users

\* The steps of CachedDisk, in terms of the values and users of the blocks.
ValueStays == \A k \in Block : Value'[k] = Value[k]
UsersStay  == \A k \in Block : Users'[k] = Users[k]
Gets == \E p \in Proc, k \in Block : /\ Users[k] = {} /\ Users' = [Users EXCEPT ![k] = {p}]
                                     /\ Value' = Value
Sets == \E p \in Proc, k \in Block, v \in Val : /\ p \in Users[k] /\ Value' = [Value EXCEPT ![k] = v]
                                                /\ Users' = Users
Puts == \E p \in Proc, k \in Block : /\ p \in Users[k] /\ Users' = [Users EXCEPT ![k] = {}]
                                     /\ Value' = Value
Same == Value' = Value /\ Users' = Users

\* Nothing shows of a step that keeps every value and every user.
LEMMA SameIs ==
    ASSUME ValueStays, UsersStay
    PROVE  Same
<1>1. Value' = [k \in Block |-> Value'[k]] /\ Users' = [k \in Block |-> Users'[k]]
  BY DEF Value, Users
<1> QED
  BY <1>1, ValueTyped DEF ValueStays, UsersStay, Same

\* Who holds a block.
LEMMA UsersIs ==
    ASSUME NEW k \in Block
    PROVE  Users[k] = {p \in Proc : op[p].pc \in {"use", "write"} /\ blockno[op[p].b] = k}
BY DEF Users

\* Nothing but the places of the processes and the driver's own state changes.
LEMMA NothingNew ==
    ASSUME DataInv, UNCHANGED <<store, data, blockno, valid>>
    PROVE  ValueStays
BY DEF ValueStays, Value, Cached

\* The users depend on the places of the processes and the blocks of the buffers.
LEMMA NobodyNew ==
    ASSUME UNCHANGED <<op, blockno>>
    PROVE  UsersStay
BY DEF UsersStay, Users
-----------------------------------------------------------------------------
\* A step of the disk that copies nothing.
LEMMA QuietKeeps ==
    ASSUME Full, IInv', DiskNext, UNCHANGED cvars, Stays \/ Returns
    PROVE  DataInv' /\ Same
<1>1. UNCHANGED <<store, data>> /\ UNCHANGED <<blockno, valid, op, change, pinned>>
  BY DEF Stays, Returns, cvars
<1>2. Valids' /\ Clean' /\ Kept'
  BY <1>1 DEF Full, DataInv, Valids, Clean, Kept
<1>3. \A q \in Proc : Phase(q)' \in {"idle", "done"} => Phase(q) \in {"idle", "done"}
  <2>1. \A q \in Proc : Reqs[q].pc = Phase(q) /\ Reqs'[q].pc = Phase(q)'
    BY DEF Reqs, Req
  <2>2. CASE Stays
    BY <2>1, <2>2 DEF Stays
  <2>3. CASE Returns
    <3>1. PICK p \in Proc : /\ Reqs[p].pc = "done"
            /\ Reqs' = [Reqs EXCEPT ![p] = [pc |-> "idle", b |-> None, block |-> None, write |-> FALSE]]
      BY <2>3 DEF Returns
    <3>2. \A q \in Proc : q # p => Reqs'[q] = Reqs[q]
      BY <3>1 DEF Reqs
    <3> QED
      BY <2>1, <3>1, <3>2
  <2> QED
    BY <2>2, <2>3
<1>4. Copied'
  BY <1>1, <1>3 DEF Full, DataInv, Copied
<1> QED
  BY <1>1, <1>2, <1>4, NothingNew, NobodyNew, SameIs DEF DataInv, Full

\* What the device copies is in the buffer and on the disk then.
LEMMA CopyKeeps ==
    ASSUME Full, IInv', UNCHANGED cvars, Copies
    PROVE  DataInv' /\ Same
<1>1. UNCHANGED <<blockno, valid, op, change, pinned>>
  BY DEF cvars
<1>2. PICK p \in Proc : /\ Reqs[p].pc = "asked"
        /\ Reqs' = [Reqs EXCEPT ![p] = [Reqs[p] EXCEPT !.pc = "done"]]
        /\ IF Reqs[p].write
           THEN store' = [store EXCEPT ![Reqs[p].block] = data[Reqs[p].b]] /\ UNCHANGED data
           ELSE data' = [data EXCEPT ![Reqs[p].b] = store[Reqs[p].block]] /\ UNCHANGED store
  BY DEF Copies
<1> DEFINE b == op[p].b
           k == blockno[b]
<1>3. /\ op[p].pc = IF io[p].write THEN "write" ELSE "read"
      /\ Reqs[p].b = b /\ Reqs[p].block = k /\ Reqs[p].write = io[p].write
  BY <1>2, PhaseIs, ReqsIs DEF Full, IInv, CacheInv, Requests
<1>4. b \in Buf /\ k \in Block /\ \A q \in Proc : op[q].pc \in {"read", "use", "write"} /\ op[q].b = b => q = p
  BY <1>3, HolderAlone, BufOf DEF Full
<1>5. \A c \in Buf : blockno[c] = k => c = b
  BY <1>4, CacheConstants DEF Full, IInv, CacheInv, Unique
<1>6. store \in [Block -> Val] /\ data \in [Buf -> Val]
  BY DEF Full, IInv, DiskInv, DiskTypeOK
<1>7. \/ /\ op[p].pc = "write" /\ valid[b] /\ store'[k] = data[b] /\ UNCHANGED data
         /\ \A j \in Block : j # k => store'[j] = store[j]
      \/ /\ op[p].pc = "read" /\ ~ valid[b] /\ data'[b] = store[k] /\ UNCHANGED store
         /\ \A c \in Buf : c # b => data'[c] = data[c]
  <2>1. CASE io[p].write
    BY <1>2, <1>3, <1>4, <1>6, <2>1 DEF Full, DataInv, Valids
  <2>2. CASE ~ io[p].write
    BY <1>2, <1>3, <1>4, <1>6, <2>2 DEF Full, DataInv, Valids
  <2> QED
    BY <2>1, <2>2
<1> HIDE DEF b, k
<1>8. data'[b] = store'[k] /\ \A c \in Buf : c # b /\ blockno[c] \in Block => data'[c] = data[c] /\ store'[blockno[c]] = store[blockno[c]]
  BY <1>4, <1>5, <1>7
<1>9. b = op[p].b /\ k = blockno[b]
  BY DEF b, k
<1>10. Valids' /\ Kept'
  BY <1>1 DEF Full, DataInv, Valids, Kept
<1>11. Clean'
  <2> SUFFICES ASSUME NEW c \in Buf, valid[c], change[c] = "clean" PROVE data'[c] = store'[blockno[c]]
    BY <1>1 DEF Clean
  <2>1. blockno[c] \in Block /\ data[c] = store[blockno[c]]
    BY DEF Full, DataInv, Valids, Clean
  <2> QED
    BY <1>8, <1>9, <2>1
<1>12. Copied'
  <2> SUFFICES ASSUME NEW q \in Proc, op[q].pc \in {"read", "write"}, Phase(q)' \in {"idle", "done"}
               PROVE  data'[op[q].b] = store'[blockno[op[q].b]]
    BY <1>1 DEF Copied
  <2>1. CASE q = p
    BY <1>8, <1>9, <2>1
  <2>2. CASE q # p
    <3>1. op[q].b \in Buf /\ op[q].b # b /\ blockno[op[q].b] \in Block
      BY <1>4, <1>9, <2>2, BufOf DEF Full
    <3>2. Phase(q)' = Phase(q)
      <4>1. Reqs'[q].pc = Reqs[q].pc
        BY <1>2, <2>2 DEF Reqs
      <4> QED
        BY <4>1 DEF Reqs, Req
    <3> QED
      BY <1>8, <3>1, <3>2 DEF Full, DataInv, Copied
  <2> QED
    BY <2>1, <2>2
<1>13. ValueStays
  <2> SUFFICES ASSUME NEW j \in Block PROVE Value'[j] = Value[j]
    BY DEF ValueStays
  <2>1. Unique /\ Unique'
    BY DEF Full, IInv, CacheInv
  <2>2. /\ \A c \in Buf : blockno[c] = j /\ valid[c] => Value[j] = data[c]
        /\ (\A c \in Buf : blockno[c] = j => ~ valid[c]) => Value[j] = store[j]
    BY <2>1, ValueIs
  <2>3. /\ \A c \in Buf : blockno[c] = j /\ valid[c] => Value'[j] = data'[c]
        /\ (\A c \in Buf : blockno[c] = j => ~ valid[c]) => Value'[j] = store'[j]
    BY <1>1, <2>1, ValueIsNext
  <2>4. CASE \E c \in Buf : blockno[c] = j /\ valid[c]
    <3>1. PICK c \in Buf : blockno[c] = j /\ valid[c]
      BY <2>4
    <3>2. data'[c] = data[c]
      BY <1>7, <3>1
    <3> QED
      BY <2>2, <2>3, <3>1, <3>2
  <2>5. CASE \A c \in Buf : blockno[c] = j => ~ valid[c]
    <3>1. store'[j] = store[j]
      BY <1>4, <1>7, <1>9, <2>5
    <3> QED
      BY <2>2, <2>3, <2>5, <3>1
  <2> QED
    BY <2>4, <2>5
<1> QED
  BY <1>1, <1>10, <1>11, <1>12, <1>13, NobodyNew, SameIs DEF DataInv

\* The places of a process that holds a block, and what every step has to show.
Using == {"use", "write"}
Keeps == DataInv' /\ (Same \/ Gets \/ Sets \/ Puts)

\* Nobody gets or gives up a buffer.
LEMMA UsersSame ==
    ASSUME \A q \in Proc : op'[q].pc \in Using \/ op[q].pc \in Using =>
              /\ op'[q].pc \in Using /\ op[q].pc \in Using
              /\ blockno'[op'[q].b] = blockno[op[q].b]
    PROVE  UsersStay
BY DEF UsersStay, Users, Using

\* The process that gets a buffer is the only user of its block.
LEMMA UsersGain ==
    ASSUME IInv, NEW p \in Proc, op[p].pc \in {"lock", "read"}, op'[p].pc = "use", op'[p].b = op[p].b,
           \A q \in Proc : q # p => op'[q] = op[q], UNCHANGED blockno,
           NEW k \in Block, k = blockno[op[p].b],
           \A q \in Proc : op[q].pc \in Using => op[q].b # op[p].b
    PROVE  Users[k] = {} /\ Users' = [Users EXCEPT ![k] = {p}]
<1>1. \A q \in Proc : op[q].pc \in Using => blockno[op[q].b] # k
  BY BufOf, CacheConstants DEF IInv, CacheInv, Unique, Using
<1>2. Users[k] = {}
  BY <1>1 DEF Users, Using
<1>3. ASSUME NEW j \in Block PROVE Users'[j] = IF j = k THEN {p} ELSE Users[j]
  BY <1>1 DEF Users, Using
<1>4. Users' = [j \in Block |-> Users'[j]]
  BY DEF Users
<1> QED
  BY <1>2, <1>3, <1>4, ValueTyped

\* The process that gives up a buffer was the only user of its block.
LEMMA UsersLose ==
    ASSUME IInv, NEW p \in Proc, op[p].pc = "use", op'[p].pc = "release",
           \A q \in Proc : q # p => op'[q] = op[q], UNCHANGED blockno,
           NEW k \in Block, k = blockno[op[p].b]
    PROVE  p \in Users[k] /\ Users' = [Users EXCEPT ![k] = {}]
<1>1. \A q \in Proc : op[q].pc \in Using /\ blockno[op[q].b] = k => q = p
  <2> SUFFICES ASSUME NEW q \in Proc, op[q].pc \in Using, blockno[op[q].b] = k PROVE q = p
    OBVIOUS
  <2>1. op[q].b \in Buf /\ op[p].b \in Buf
    BY BufOf DEF Using
  <2>2. op[q].b = op[p].b
    BY <2>1, CacheConstants DEF IInv, CacheInv, Unique
  <2> QED
    BY <2>2, HolderAlone DEF Using
<1>2. p \in Users[k]
  BY DEF Users
<1>3. ASSUME NEW j \in Block PROVE Users'[j] = IF j = k THEN {} ELSE Users[j]
  BY <1>1 DEF Users, Using
<1>4. Users' = [j \in Block |-> Users'[j]]
  BY DEF Users
<1> QED
  BY <1>2, <1>3, <1>4, ValueTyped

\* The phase of a request depends on its process and its status byte.
LEMMA PhaseKept ==
    ASSUME UNCHANGED <<io, info>>, NEW q \in Proc
    PROVE  Phase(q)' = Phase(q)
BY DEF Phase

\* The buffers, their blocks and the disk stay as they are, and so does the driver.
LEMMA StillKeeps ==
    ASSUME Full, UNCHANGED <<store, data, io, info, blockno, valid, change>>,
           NEW p \in Proc, \A q \in Proc : q # p => op'[q] = op[q],
           op'[p].pc \in {"user", "lock", "read", "release"} \/ op'[p] = op[p],
           op'[p].pc = "read" => op'[p] = op[p],
           \A b \in Buf : change[b] # "clean" =>
              b \in pinned' \/ \E q \in Proc : op'[q].pc \in Using /\ op'[q].b = b
    PROVE  DataInv' /\ ValueStays
<1>1. Valids'
  BY DEF Full, DataInv, Valids
<1>2. Copied'
  <2>1. \A q \in Proc : Phase(q)' = Phase(q)
    BY PhaseKept
  <2> QED
    BY <2>1 DEF Full, DataInv, Copied
<1>3. Clean'
  BY DEF Full, DataInv, Clean
<1>4. Kept'
  BY DEF Kept, Using
<1> QED
  BY <1>1, <1>2, <1>3, <1>4, NothingNew DEF DataInv, Full

\* A buffer that is referred to is not yet held.
LEMMA HitMaps == ASSUME Full, NEW p \in Proc, NEW k \in Block, BgetHit(p, k) PROVE Keeps
<1>1. /\ op[p].pc = "user" /\ UNCHANGED dvars /\ UNCHANGED <<blockno, valid, change, pinned>>
      /\ \E b : op' = [op EXCEPT ![p] = [pc |-> "lock", b |-> b]]
  BY DEF BgetHit, At
<1>2. op'[p].pc = "lock" /\ \A q \in Proc : q # p => op'[q] = op[q]
  BY <1>1, CacheTyped DEF Full, IInv, CacheInv
<1>3. UNCHANGED <<store, data, io, info>>
  BY <1>1 DEF dvars, content, queue
<1>4. \A b \in Buf : change[b] # "clean" =>
         b \in pinned' \/ \E q \in Proc : op'[q].pc \in Using /\ op'[q].b = b
  BY <1>1, <1>2 DEF Full, DataInv, Kept, Using
<1>5. DataInv' /\ ValueStays
  BY <1>1, <1>2, <1>3, <1>4, StillKeeps
<1>6. UsersStay
  BY <1>1, <1>2, UsersSame DEF Using
<1> QED
  BY <1>5, <1>6, SameIs DEF Keeps

\* What a buffer held that nobody refers to any more is on the disk.
LEMMA RecycleMaps == ASSUME Full, IInv', NEW p \in Proc, NEW k \in Block, BgetRecycle(p, k) PROVE Keeps
<1>1. PICK b \in Buf :
        /\ refcnt[b] = 0 /\ Cached(k) = {} /\ At(p, "user")
        /\ blockno' = [blockno EXCEPT ![b] = k] /\ valid' = [valid EXCEPT ![b] = FALSE]
        /\ refcnt' = [refcnt EXCEPT ![b] = 1]
        /\ op' = [op EXCEPT ![p] = [pc |-> "lock", b |-> b]]
        /\ UNCHANGED <<dvars, lru, slock, lsleep, change, pinned>>
  BY RecycleIs DEF Full
<1>2. op'[p].pc = "lock" /\ op'[p].b = b /\ op[p].pc = "user" /\ \A q \in Proc : q # p => op'[q] = op[q]
  BY <1>1, CacheTyped DEF Full, IInv, CacheInv, At
<1>3. UNCHANGED <<store, data, io, info, change, pinned>>
  BY <1>1 DEF dvars, content, queue
<1>4. /\ blockno'[b] = k /\ ~ valid'[b]
      /\ \A c \in Buf : c # b => blockno'[c] = blockno[c] /\ valid'[c] = valid[c]
  BY <1>1, CacheTyped DEF Full, IInv, CacheInv
<1>5. b \notin pinned /\ \A q \in Proc : op[q].b # b
  BY <1>1, CountIsUses DEF Full, IInv, CacheInv
<1>6. change[b] = "clean"
  BY <1>5 DEF Full, DataInv, Kept
<1>7. \A q \in Proc : q # p /\ op[q].pc # "user" => op[q].b \in Buf /\ op[q].b # b
  BY <1>5, BufOf DEF Full
<1>8. Valids'
  BY <1>2, <1>4, <1>7 DEF Full, DataInv, Valids
<1>9. Copied'
  <2>1. \A q \in Proc : Phase(q)' = Phase(q)
    BY <1>3, PhaseKept
  <2> QED
    BY <1>2, <1>3, <1>4, <1>7, <2>1 DEF Full, DataInv, Copied
<1>10. Clean' /\ Kept'
  BY <1>2, <1>3, <1>4 DEF Full, DataInv, Clean, Kept
<1>11. ValueStays
  <2> SUFFICES ASSUME NEW j \in Block PROVE Value'[j] = Value[j]
    BY DEF ValueStays
  <2>1. Unique /\ Unique'
    BY DEF Full, IInv, CacheInv
  <2>2. CASE \E c \in Buf : c # b /\ blockno[c] = j /\ valid[c]
    <3>1. PICK c \in Buf : c # b /\ blockno[c] = j /\ valid[c]
      BY <2>2
    <3>2. Value[j] = data[c] /\ Value'[j] = data'[c]
      BY <1>4, <2>1, <3>1, ValueIs, ValueIsNext
    <3> QED
      BY <1>3, <3>2
  <2>3. CASE \A c \in Buf : c # b /\ blockno[c] = j => ~ valid[c]
    <3>1. Value'[j] = store[j]
      BY <1>3, <1>4, <2>1, <2>3, ValueIsNext
    <3>2. Value[j] = store[j]
      <4>1. CASE blockno[b] = j /\ valid[b]
        BY <1>6, <2>1, <4>1, ValueIs DEF Full, DataInv, Clean
      <4>2. CASE ~ (blockno[b] = j /\ valid[b])
        BY <2>1, <2>3, <4>2, ValueIs
      <4> QED
        BY <4>1, <4>2
    <3> QED
      BY <3>1, <3>2
  <2> QED
    BY <2>2, <2>3
<1>12. UsersStay
  BY <1>2, <1>4, <1>7, UsersSame DEF Using
<1> QED
  BY <1>8, <1>9, <1>10, <1>11, <1>12, SameIs DEF Keeps, DataInv

\* A new request is not answered yet, and changes nothing.
LEMMA AskingMaps ==
    ASSUME Full, NEW p \in Proc, NEW b \in Buf, NEW k \in Block, NEW w \in BOOLEAN, Rw(p, b, k, w),
           UNCHANGED <<store, data, info>>
    PROVE  /\ Phase(p)' = "asked" /\ \A q \in Proc : q # p => Phase(q)' = Phase(q)
<1>1. io[p].pc = "idle" /\ io \in [Proc -> IoType] /\ NoIO \in IoType
  <2>1. 0 \in Descs(NUM)
    BY DiskConstants DEF Descs
  <2> QED
    BY <2>1, IoTyped DEF Rw, NoIO, IoType, Full, IInv, DiskInv
<1>2. io'[p].pc = "alloc" /\ \A q \in Proc : q # p => io'[q] = io[q]
  BY <1>1 DEF Rw, IoType
<1> QED
  BY <1>2 DEF Phase

\* With the lock a process gets the block, if it is in the cache.
LEMMA LockMaps == ASSUME Full, NEW p \in Proc, LockBuf(p) PROVE Keeps
<1> DEFINE b == op[p].b
<1>1. /\ op[p].pc = "lock" /\ slock[b] = None
      /\ UNCHANGED <<store, data, info, blockno, valid, change, pinned>>
  BY DEF LockBuf, At, content, queue
<1>2. b \in Buf /\ blockno[b] \in Block /\ TypeOK
  BY <1>1, BufOf DEF Full, IInv, CacheInv
<1>3. \A q \in Proc : op[q].pc \in {"read", "use", "write"} => op[q].b # b
  <2>1. \A q \in Proc : op[q].pc \in {"read", "use", "write"} => slock[op[q].b] = q
    BY HolderAlone DEF Full
  <2> QED
    BY <1>1, <2>1, DiskConstants
<1>4. CASE valid[b]
  <2>1. Goto(p, "use") /\ UNCHANGED io
    BY <1>4 DEF LockBuf
  <2>2. op'[p].pc = "use" /\ op'[p].b = b /\ \A q \in Proc : q # p => op'[q] = op[q]
    BY <1>2, <2>1, GotoIs
  <2>3. \A q \in Proc : Phase(q)' = Phase(q)
    BY <1>1, <2>1, PhaseKept
  <2>4. DataInv'
    BY <1>1, <1>4, <2>2, <2>3 DEF Full, DataInv, Valids, Copied, Clean, Kept
  <2>5. Users[blockno[b]] = {} /\ Users' = [Users EXCEPT ![blockno[b]] = {p}]
    BY <1>1, <1>2, <1>3, <2>2, UsersGain DEF Full, Using
  <2>6. Value' = Value
    BY <1>1 DEF Value, Cached
  <2> QED
    BY <1>2, <2>4, <2>5, <2>6 DEF Keeps, Gets
<1>5. CASE ~ valid[b]
  <2>1. Goto(p, "read") /\ Rw(p, b, blockno[b], FALSE)
    BY <1>5 DEF LockBuf
  <2>2. op'[p].pc = "read" /\ op'[p].b = b /\ \A q \in Proc : q # p => op'[q] = op[q]
    BY <1>2, <2>1, GotoIs
  <2>3. Phase(p)' = "asked" /\ \A q \in Proc : q # p => Phase(q)' = Phase(q)
    BY <1>1, <1>2, <2>1, AskingMaps
  <2>4. Valids' /\ Clean' /\ Kept'
    BY <1>1, <1>5, <2>2 DEF Full, DataInv, Valids, Clean, Kept
  <2>5. Copied'
    BY <1>1, <2>2, <2>3 DEF Full, DataInv, Copied
  <2>6. UsersStay
    BY <1>1, <2>2, UsersSame DEF Using
  <2> QED
    BY <1>1, <2>4, <2>5, <2>6, NothingNew, SameIs DEF Keeps, DataInv, Full
<1> QED
  BY <1>4, <1>5

\* Nothing shows of a process that waits.
LEMMA LockSleepMaps == ASSUME Full, NEW p \in Proc, LockSleep(p) PROVE Keeps
<1>1. UNCHANGED <<store, data, io, info, blockno, valid, change, op, pinned>>
  BY DEF LockSleep, dvars, content, queue
<1>2. DataInv' /\ ValueStays
  BY <1>1, StillKeeps DEF Full, DataInv, Kept, Using
<1> QED
  BY <1>1, <1>2, NobodyNew, SameIs DEF Keeps

\* A block that was read is what the disk holds, and the process gets it.
LEMMA ReadDoneMaps == ASSUME Full, IInv', NEW p \in Proc, ReadDone(p) PROVE Keeps
<1> DEFINE b == op[p].b
<1>1. /\ op[p].pc = "read" /\ io[p].pc = "idle" /\ Goto(p, "use") /\ valid' = [valid EXCEPT ![b] = TRUE]
      /\ UNCHANGED <<store, data, io, info, blockno, change, pinned>>
  BY DEF ReadDone, At, dvars, content, queue
<1>2. b \in Buf /\ blockno[b] \in Block /\ TypeOK
  BY <1>1, BufOf DEF Full, IInv, CacheInv
<1>3. op'[p].pc = "use" /\ op'[p].b = b /\ \A q \in Proc : q # p => op'[q] = op[q]
  BY <1>1, <1>2, GotoIs
<1>4. \A q \in Proc : op[q].pc \in {"read", "use", "write"} /\ q # p => op[q].b # b
  BY <1>1, HolderAlone DEF Full
<1>5. valid'[b] /\ ~ valid[b] /\ \A c \in Buf : c # b => valid'[c] = valid[c]
  BY <1>1, <1>2, CacheTyped DEF Full, DataInv, Valids
<1>6. data[b] = store[blockno[b]]
  <2>1. Phase(p) = "idle"
    BY <1>1 DEF Phase
  <2> QED
    BY <1>1, <2>1 DEF Full, DataInv, Copied
<1>7. Valids'
  <2> SUFFICES ASSUME NEW q \in Proc
               PROVE  /\ op'[q].pc = "read" => ~ valid'[op'[q].b]
                      /\ op'[q].pc \in {"use", "write"} => valid'[op'[q].b]
    BY <1>1, <1>2, <1>5 DEF Full, DataInv, Valids
  <2>1. CASE q = p
    BY <1>3, <1>5, <2>1
  <2>2. CASE q # p
    <3>1. op[q].pc \in {"read", "use", "write"} => op[q].b \in Buf
      BY BufOf DEF Full
    <3> QED
      BY <1>3, <1>4, <1>5, <2>2, <3>1 DEF Full, DataInv, Valids
  <2> QED
    BY <2>1, <2>2
<1>8. Copied'
  <2>1. \A q \in Proc : Phase(q)' = Phase(q)
    BY <1>1, PhaseKept
  <2> QED
    BY <1>1, <1>3, <2>1 DEF Full, DataInv, Copied
<1>9. Clean'
  BY <1>1, <1>5, <1>6 DEF Full, DataInv, Clean
<1>10. Kept'
  BY <1>1, <1>3 DEF Full, DataInv, Kept
<1>11. Users[blockno[b]] = {} /\ Users' = [Users EXCEPT ![blockno[b]] = {p}]
  BY <1>1, <1>2, <1>3, <1>4, UsersGain DEF Full, Using
<1>12. ValueStays
  <2> SUFFICES ASSUME NEW j \in Block PROVE Value'[j] = Value[j]
    BY DEF ValueStays
  <2>1. Unique /\ Unique'
    BY DEF Full, IInv, CacheInv
  <2>2. CASE j = blockno[b]
    <3>1. \A c \in Buf : blockno[c] = j => c = b
      BY <1>2, <2>1, <2>2, CacheConstants DEF Unique
    <3>2. Value[j] = store[j]
      BY <1>5, <2>1, <3>1, ValueIs
    <3>3. Value'[j] = data'[b]
      BY <1>1, <1>2, <1>5, <2>1, <2>2, ValueIsNext
    <3> QED
      BY <1>1, <1>6, <2>2, <3>2, <3>3
  <2>3. CASE j # blockno[b] /\ \E c \in Buf : blockno[c] = j /\ valid[c]
    <3>1. PICK c \in Buf : blockno[c] = j /\ valid[c]
      BY <2>3
    <3>2. valid'[c] /\ blockno'[c] = j
      BY <1>1, <1>5, <3>1
    <3> QED
      BY <1>1, <2>1, <3>1, <3>2, ValueIs, ValueIsNext
  <2>4. CASE j # blockno[b] /\ \A c \in Buf : blockno[c] = j => ~ valid[c]
    <3>1. \A c \in Buf : blockno'[c] = j => ~ valid'[c]
      BY <1>1, <1>5, <2>4
    <3> QED
      BY <1>1, <2>1, <2>4, <3>1, ValueIs, ValueIsNext
  <2> QED
    BY <2>2, <2>3, <2>4
<1>13. Value' = Value
  <2>1. Value' = [j \in Block |-> Value'[j]]
    BY DEF Value
  <2> QED
    BY <1>12, <2>1, ValueTyped DEF ValueStays
<1> QED
  BY <1>2, <1>7, <1>8, <1>9, <1>10, <1>11, <1>13 DEF Keeps, Gets, DataInv

\* A buffer that was written is on the disk.
LEMMA WriteDoneMaps == ASSUME Full, NEW p \in Proc, WriteDone(p) PROVE Keeps
<1> DEFINE b == op[p].b
<1>1. /\ op[p].pc = "write" /\ io[p].pc = "idle" /\ Goto(p, "use")
      /\ change' = [change EXCEPT ![b] = "clean"]
      /\ UNCHANGED <<store, data, io, info, blockno, valid, pinned>>
  BY DEF WriteDone, At, dvars, content, queue
<1>2. b \in Buf /\ blockno[b] \in Block /\ TypeOK
  BY <1>1, BufOf DEF Full, IInv, CacheInv
<1>3. op'[p].pc = "use" /\ op'[p].b = b /\ \A q \in Proc : q # p => op'[q] = op[q]
  BY <1>1, <1>2, GotoIs
<1>4. change'[b] = "clean" /\ \A c \in Buf : c # b => change'[c] = change[c]
  BY <1>1, <1>2, CacheTyped
<1>5. data[b] = store[blockno[b]]
  <2>1. Phase(p) = "idle"
    BY <1>1 DEF Phase
  <2> QED
    BY <1>1, <2>1 DEF Full, DataInv, Copied
<1>6. Valids'
  BY <1>1, <1>3 DEF Full, DataInv, Valids
<1>7. Copied'
  <2>1. \A q \in Proc : Phase(q)' = Phase(q)
    BY <1>1, PhaseKept
  <2> QED
    BY <1>1, <1>3, <2>1 DEF Full, DataInv, Copied
<1>8. Clean'
  BY <1>1, <1>4, <1>5 DEF Full, DataInv, Clean
<1>9. Kept'
  BY <1>1, <1>3, <1>4 DEF Full, DataInv, Kept
<1>10. UsersStay
  BY <1>1, <1>3, UsersSame DEF Using
<1> QED
  BY <1>1, <1>6, <1>7, <1>8, <1>9, <1>10, NothingNew, SameIs DEF Keeps, DataInv, Full

\* The process that holds b starts to write it.
LEMMA BwriteMaps == ASSUME Full, NEW p \in Proc, NEW b \in Buf, Bwrite(p, b) PROVE Keeps
<1>1. /\ op[p].pc = "use" /\ op[p].b = b /\ Goto(p, "write") /\ Rw(p, b, blockno[b], TRUE)
      /\ UNCHANGED <<store, data, info, blockno, valid, change, pinned>>
  BY DEF Bwrite, Holds, At, content, queue
<1>2. blockno[b] \in Block /\ TypeOK
  BY <1>1, BufOf DEF Full, IInv, CacheInv
<1>3. op'[p].pc = "write" /\ op'[p].b = b /\ \A q \in Proc : q # p => op'[q] = op[q]
  BY <1>1, <1>2, GotoIs
<1>4. Phase(p)' = "asked" /\ \A q \in Proc : q # p => Phase(q)' = Phase(q)
  BY <1>1, <1>2, AskingMaps
<1>5. Valids' /\ Clean' /\ Kept'
  BY <1>1, <1>3 DEF Full, DataInv, Valids, Clean, Kept
<1>6. Copied'
  BY <1>1, <1>3, <1>4 DEF Full, DataInv, Copied
<1>7. UsersStay
  BY <1>1, <1>3, UsersSame DEF Using
<1> QED
  BY <1>1, <1>5, <1>6, <1>7, NothingNew, SameIs DEF Keeps, DataInv, Full

\* What the holder of a buffer puts into it is the block from then on.
LEMMA ChangeMaps == ASSUME Full, IInv', NEW p \in Proc, NEW b \in Buf, Change(p, b) PROVE Keeps
<1>1. /\ op[p].pc = "use" /\ op[p].b = b /\ change' = [change EXCEPT ![b] = "dirty"]
      /\ UNCHANGED <<store, io, info, blockno, valid, op, pinned>>
  BY DEF Change, Holds, At, queue
<1>2. PICK v \in Val : data' = [data EXCEPT ![b] = v]
  BY DEF Change
<1>3. blockno[b] \in Block /\ TypeOK /\ valid[b]
  BY <1>1, BufOf DEF Full, IInv, CacheInv, DataInv, Valids
<1>4. data'[b] = v /\ \A c \in Buf : c # b => data'[c] = data[c]
  BY <1>2 DEF Full, IInv, DiskInv, DiskTypeOK
<1>5. change'[b] = "dirty" /\ \A c \in Buf : c # b => change'[c] = change[c]
  BY <1>1, <1>3, CacheTyped
<1>6. Valids'
  BY <1>1 DEF Full, DataInv, Valids
<1>7. Copied'
  <2>1. \A q \in Proc : Phase(q)' = Phase(q)
    BY <1>1, PhaseKept
  <2>2. \A q \in Proc : op[q].pc \in {"read", "write"} => op[q].b \in Buf /\ op[q].b # b
    BY <1>1, HolderAlone DEF Full
  <2> QED
    BY <1>1, <1>4, <2>1, <2>2 DEF Full, DataInv, Copied
<1>8. Clean'
  BY <1>1, <1>4, <1>5 DEF Full, DataInv, Clean
<1>9. Kept'
  BY <1>1, <1>5 DEF Full, DataInv, Kept
<1>10. p \in Users[blockno[b]] /\ UsersStay
  BY <1>1, <1>3, NobodyNew, UsersIs
<1>11. \A j \in Block : Value'[j] = IF j = blockno[b] THEN v ELSE Value[j]
  <2> SUFFICES ASSUME NEW j \in Block PROVE Value'[j] = IF j = blockno[b] THEN v ELSE Value[j]
    OBVIOUS
  <2>1. Unique /\ Unique'
    BY DEF Full, IInv, CacheInv
  <2>2. CASE j = blockno[b]
    BY <1>1, <1>3, <1>4, <2>1, <2>2, ValueIsNext
  <2>3. CASE j # blockno[b] /\ \E c \in Buf : blockno[c] = j /\ valid[c]
    <3>1. PICK c \in Buf : blockno[c] = j /\ valid[c]
      BY <2>3
    <3>2. data'[c] = data[c]
      BY <1>4, <2>3, <3>1
    <3> QED
      BY <1>1, <2>1, <2>3, <3>1, <3>2, ValueIs, ValueIsNext
  <2>4. CASE j # blockno[b] /\ \A c \in Buf : blockno[c] = j => ~ valid[c]
    BY <1>1, <2>1, <2>4, ValueIs, ValueIsNext
  <2> QED
    BY <2>2, <2>3, <2>4
<1>12. Value' = [Value EXCEPT ![blockno[b]] = v]
  <2>1. Value' = [j \in Block |-> Value'[j]]
    BY DEF Value
  <2> QED
    BY <1>11, <2>1, ValueTyped
<1>13. Users' = Users
  BY <1>1 DEF Users
<1> QED
  BY <1>3, <1>6, <1>7, <1>8, <1>9, <1>10, <1>12, <1>13 DEF Keeps, Sets, DataInv

\* log_write() and install_trans() change who refers to the buffer only.
LEMMA PinMaps == ASSUME Full, NEW p \in Proc, NEW b \in Buf, Pin(p, b) \/ Unpin(p, b) PROVE Keeps
<1>1. /\ op[p].pc = "use" /\ op[p].b = b
      /\ UNCHANGED <<store, data, io, info, blockno, valid, op>>
  BY DEF Pin, Unpin, Holds, At, dvars, content, queue
<1>2. /\ TypeOK /\ (change[b] = "dirty" \/ UNCHANGED change)
      /\ \A c \in Buf : c # b => change'[c] = change[c] /\ (c \in pinned' <=> c \in pinned)
      /\ change'[b] = "clean" => change[b] = "clean"
  <2>1. TypeOK
    BY DEF Full, IInv, CacheInv
  <2>2. CASE Pin(p, b)
    BY <2>1, <2>2, CacheTyped DEF Pin
  <2>3. CASE Unpin(p, b)
    BY <2>1, <2>3 DEF Unpin
  <2> QED
    BY <2>2, <2>3
<1>3. Valids'
  BY <1>1 DEF Full, DataInv, Valids
<1>4. Copied'
  <2>1. \A q \in Proc : Phase(q)' = Phase(q)
    BY <1>1, PhaseKept
  <2> QED
    BY <1>1, <2>1 DEF Full, DataInv, Copied
<1>5. Clean'
  BY <1>1, <1>2 DEF Full, DataInv, Clean
<1>6. Kept'
  BY <1>1, <1>2 DEF Full, DataInv, Kept
<1> QED
  BY <1>1, <1>3, <1>4, <1>5, <1>6, NothingNew, NobodyNew, SameIs DEF Keeps, DataInv, Full

\* A process gives up a block that is clean, or logged and pinned.
LEMMA ReleaseMaps == ASSUME Full, NEW p \in Proc, NEW b \in Buf, Release(p, b) PROVE Keeps
<1>1. /\ op[p].pc = "use" /\ op[p].b = b /\ Goto(p, "release")
      /\ change[b] = IF b \in pinned THEN "logged" ELSE "clean"
      /\ UNCHANGED <<store, data, io, info, blockno, valid, change, pinned>>
  BY DEF Release, Holds, At, dvars, content, queue
<1>2. blockno[b] \in Block /\ TypeOK
  BY <1>1, BufOf DEF Full, IInv, CacheInv
<1>3. op'[p].pc = "release" /\ \A q \in Proc : q # p => op'[q] = op[q]
  BY <1>1, <1>2, GotoIs
<1>4. \A c \in Buf : change[c] # "clean" =>
         c \in pinned' \/ \E q \in Proc : op'[q].pc \in Using /\ op'[q].b = c
  BY <1>1, <1>3 DEF Full, DataInv, Kept, Using
<1>5. DataInv' /\ ValueStays
  BY <1>1, <1>3, <1>4, StillKeeps
<1>6. p \in Users[blockno[b]] /\ Users' = [Users EXCEPT ![blockno[b]] = {}]
  BY <1>1, <1>2, <1>3, UsersLose DEF Full
<1>7. Value' = Value
  BY <1>1 DEF Value, Cached
<1> QED
  BY <1>2, <1>5, <1>6, <1>7 DEF Keeps, Puts

\* The rest of brelse() does not show.
LEMMA BrelseEndMaps == ASSUME Full, NEW p \in Proc, BrelseEnd(p) PROVE Keeps
<1>1. /\ op[p].pc = "release" /\ op' = [op EXCEPT ![p] = [pc |-> "user", b |-> None]]
      /\ UNCHANGED <<store, data, io, info, blockno, valid, change, pinned>>
  BY DEF BrelseEnd, At, dvars, content, queue
<1>2. op'[p].pc = "user" /\ \A q \in Proc : q # p => op'[q] = op[q]
  BY <1>1, CacheTyped DEF Full, IInv, CacheInv
<1>3. \A c \in Buf : change[c] # "clean" =>
         c \in pinned' \/ \E q \in Proc : op'[q].pc \in Using /\ op'[q].b = c
  BY <1>1, <1>2 DEF Full, DataInv, Kept, Using
<1>4. DataInv' /\ ValueStays
  BY <1>1, <1>2, <1>3, StillKeeps
<1>5. UsersStay
  BY <1>1, <1>2, UsersSame DEF Using
<1> QED
  BY <1>4, <1>5, SameIs DEF Keeps
-----------------------------------------------------------------------------
\* Every step of the cache is a step of CachedDisk, or does not show.
LEMMA CacheStepMaps ==
    ASSUME CopyinFails = FALSE, Full, IInv', NEW p \in Proc, CacheStep(p)
    PROVE  Keeps
<1>1. \A b \in Buf : ~ WriteFails(p, b)
  BY DEF WriteFails
<1> QED
  BY <1>1, HitMaps, RecycleMaps, LockMaps, LockSleepMaps, ReadDoneMaps, WriteDoneMaps, BrelseEndMaps,
     ChangeMaps, BwriteMaps, PinMaps, ReleaseMaps DEF CacheStep

\* No step of the disk shows.
LEMMA DiskStepMaps == ASSUME Full, IInv', DiskNext, UNCHANGED cvars PROVE Keeps
<1>1. Stays \/ Copies \/ Returns
  BY DiskMaps DEF Full, IInv
<1> QED
  BY <1>1, QuietKeeps, CopyKeeps DEF Keeps

\* Nothing changes.
LEMMA NothingMaps == ASSUME Full, UNCHANGED vars PROVE Keeps
<1>1. UNCHANGED <<store, data, io, info, blockno, valid, change, op, pinned>>
  BY DEF vars, dvars, cvars, content, queue
<1>2. DataInv'
  <2>1. \A q \in Proc : Phase(q)' = Phase(q)
    BY <1>1, PhaseKept
  <2>2. Valids' /\ Clean' /\ Kept'
    BY <1>1 DEF Full, DataInv, Valids, Clean, Kept
  <2>3. Copied'
    BY <1>1, <2>1 DEF Full, DataInv, Copied
  <2> QED
    BY <2>2, <2>3 DEF DataInv
<1> QED
  BY <1>1, <1>2, NothingNew, NobodyNew, SameIs DEF Keeps, Full

\* At boot no buffer is valid.
LEMMA DataInit == Init => DataInv /\ Blocks!Init
<1> SUFFICES ASSUME Init PROVE DataInv /\ Blocks!Init
  OBVIOUS
<1>1. /\ \A p \in Proc : op[p].pc = "user"
      /\ \A b \in Buf : ~ valid[b] /\ change[b] = "clean"
  BY DEF Init
<1>2. DataInv
  BY <1>1 DEF DataInv, Valids, Copied, Clean, Kept
<1>3. \A k \in Block : Value[k] = store[k] /\ Users[k] = {}
  BY <1>1 DEF Value, Users, Cached
<1>4. store \in [Block -> Val]
  BY DEF Init, DiskInit
<1>5. Value \in [Block -> Val] /\ Users = [k \in Block |-> {}]
  BY <1>3, <1>4, ValueTyped
<1> QED
  BY <1>2, <1>5 DEF Blocks!Init

\* The same as a step of CachedDisk.
LEMMA KeepsIs == ASSUME Keeps PROVE DataInv' /\ [Blocks!Next]_(Blocks!vars)
<1>1. CASE Same
  BY <1>1 DEF Keeps, Same, Blocks!vars
<1>2. CASE Gets
  <2>1. PICK p \in Proc, k \in Block : Blocks!Get(p, k)
    BY <1>2 DEF Gets, Blocks!Get
  <2> QED
    BY <2>1 DEF Keeps, Blocks!Next
<1>3. CASE Sets
  <2>1. PICK p \in Proc, k \in Block, v \in Val : Blocks!Set(p, k, v)
    BY <1>3 DEF Sets, Blocks!Set
  <2> QED
    BY <2>1 DEF Keeps, Blocks!Next
<1>4. CASE Puts
  <2>1. PICK p \in Proc, k \in Block : Blocks!Put(p, k)
    BY <1>4 DEF Puts, Blocks!Put
  <2> QED
    BY <2>1 DEF Keeps, Blocks!Next
<1> QED
  BY <1>1, <1>2, <1>3, <1>4 DEF Keeps

\* As long as no write() fails half way, every step keeps what the buffers hold and
\* is a step of CachedDisk.
LEMMA StepMaps ==
    ASSUME CopyinFails = FALSE
    PROVE  IInv /\ IInv' /\ DataInv /\ [Next]_vars => DataInv' /\ [Blocks!Next]_(Blocks!vars)
<1> SUFFICES ASSUME IInv, IInv', DataInv, [Next]_vars PROVE Keeps
  BY KeepsIs
<1>1. Full
  BY DEF Full
<1>2. CASE Next
  BY <1>1, <1>2, CacheStepMaps, DiskStepMaps DEF Next
<1>3. CASE UNCHANGED vars
  BY <1>1, <1>3, NothingMaps
<1> QED
  BY <1>2, <1>3

\* The processes of fs.c see one copy of every block, used by one process at a time,
\* that keeps what was last put into it, whatever the cache recycles, reads and writes,
\* as long as no write() fails half way.
THEOREM CacheIsOneCopy == CopyinFails = FALSE => (Spec => Blocks!Spec)
<1> SUFFICES ASSUME CopyinFails = FALSE PROVE Spec => Blocks!Spec
  OBVIOUS
<1>1. Init => DataInv /\ Blocks!Init
  BY DataInit
<1>2. IInv /\ IInv' /\ DataInv /\ [Next]_vars => DataInv' /\ [Blocks!Next]_(Blocks!vars)
  BY StepMaps
<1>3. Spec => []IInv
  BY CacheInvariant
<1> QED
  BY <1>1, <1>2, <1>3, PTL DEF Spec, Blocks!Spec

\* bio.c, "After changing buffer data, call bwrite to write it to disk": as long as no
\* write() fails half way, what is in a buffer that nobody refers to is on the disk too.
THEOREM CacheWritesBack == CopyinFails = FALSE => (Spec => []WrittenBack)
<1> SUFFICES ASSUME CopyinFails = FALSE PROVE Spec => []WrittenBack
  OBVIOUS
<1>1. Init => DataInv
  BY DataInit
<1>2. IInv /\ IInv' /\ DataInv /\ [Next]_vars => DataInv'
  BY StepMaps
<1>3. IInv /\ DataInv => WrittenBack
  <2> SUFFICES ASSUME IInv, DataInv, NEW b \in Buf, valid[b], refcnt[b] = 0
               PROVE  data[b] = store[blockno[b]]
    BY DEF WrittenBack
  <2>1. b \notin pinned /\ \A p \in Proc : op[p].b # b
    BY CountIsUses DEF IInv, CacheInv
  <2> QED
    BY <2>1 DEF DataInv, Kept, Clean
<1>4. Spec => []IInv
  BY CacheInvariant
<1> QED
  BY <1>1, <1>2, <1>3, <1>4, PTL DEF Spec
=============================================================================
