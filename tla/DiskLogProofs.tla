--------------------------- MODULE DiskLogProofs ---------------------------
(***************************************************************************)
(* Proofs about DiskLog, for any number of processes, blocks, calls and    *)
(* crashes, and any sizes of the log that leave room for the calls.        *)
(*                                                                         *)
(* The inductive invariant says, for each place where the machine can      *)
(* stop, where the content of a block is: at home, in the cache (then the  *)
(* log has the buffer pinned), or in the log area under a header that      *)
(* names it.                                                               *)
(***************************************************************************)
EXTENDS DiskLog, FiniteSetTheorems, TLAPS

Distinct(s) == \A i, j \in DOMAIN s : s[i] = s[j] => i = j

Committer == {"commit", "write_log", "install", "done"}
InOp == {p \in Proc : At(p, "op")}

\* While the machine boots nothing else runs.
Booting ==
    /\ pc[Boot] \in {"boot", "recover"} =>
         /\ \A p \in Proc \ {Boot} : At(p, "down")
         /\ outstanding = 0 /\ ~ committing
         /\ \A b \in Block : pin[b] = 0
    /\ At(Boot, "boot") => lh = <<>>
    /\ At(Boot, "recover") => lh = hdr
    /\ Booted => \A p \in Proc : pc[p] \notin {"boot", "recover", "down"}

\* One process commits, and no call is in progress then.
OneCommitter ==
    /\ \A p \in Proc : pc[p] \in Committer => committing /\ outstanding = 0
    /\ \A p, q \in Proc : pc[p] \in Committer /\ pc[q] \in Committer => p = q
    /\ committing => \E p \in Proc : pc[p] \in Committer

\* A block that is not pinned can be read again from its home; the pinned ones
\* are those that are logged and not yet installed.
Cached ==
    \A b \in Block : IF pin[b] = 0 THEN buf[b] \in {NoBuf, disk[b]} ELSE buf[b] # NoBuf
Pinned ==
    /\ Booted /\ (\A p \in Proc : ~ At(p, "install")) =>
         \A b \in Block : pin[b] = 1 <=> Logged(b)
    /\ \A p \in Proc : At(p, "install") =>
         /\ \A b \in Block : pin[b] = 1 => Logged(b)
         /\ \A i \in 1 .. Len(lh) : pin[lh[i]] = 1 <=> i >= tail

\* How far the loops of write_log() and install_trans() are.
Copied ==
    /\ \A p \in Proc : pc[p] \in {"write_log", "install", "recover"} => tail <= Len(lh) + 1
    /\ \A p \in Proc : At(p, "write_log") =>
         \A i \in 1 .. Len(lh) : i < tail => logdisk[i] = buf[lh[i]]
    /\ \A p \in Proc : At(p, "install") =>
         \A i \in 1 .. Len(lh) : i >= tail => logdisk[i] = buf[lh[i]]
    /\ \A p \in Proc : pc[p] \in {"install", "recover"} =>
         \A i \in 1 .. Len(lh) : i < tail => disk[lh[i]] = logdisk[i]

\* The header names blocks only from write_head() until all are installed.
Headed ==
    /\ \A p \in Proc : At(p, "install") => hdr = lh
    /\ Booted /\ (\A p \in Proc : ~ At(p, "install")) => hdr = <<>>
    /\ Booted /\ outstanding = 0 /\ ~ committing => lh = <<>>
    /\ \A p \in Proc : At(p, "done") => lh = <<>>

\* The blocks that calls in progress may still log fit behind those logged.
Reserve == {r \in InOp \X (1 .. OpBlocks) : r[2] > Cardinality(wrote[r[1]])}
Reserved ==
    /\ outstanding = Cardinality(InOp)
    /\ \A p \in Proc : IsFiniteSet(wrote[p])
    /\ \A p \in Proc : pc[p] \in {"begin", "asleep"} => wrote[p] = {}
    /\ \A p \in InOp : \A b \in wrote[p] : Logged(b)
    /\ outstanding > 0 => Len(lh) + Cardinality(Reserve) <= Quota

IInv == /\ TypeOK /\ NoPanic
        /\ Distinct(hdr) /\ Distinct(lh)
        /\ Booting /\ OneCommitter /\ Cached /\ Pinned /\ Copied /\ Headed /\ Reserved
-----------------------------------------------------------------------------
(* The operators.                                                          *)

LEMMA BootInProc == Boot \in Proc
BY LogConstants DEF Boot

LEMMA LogDomain ==
    ASSUME TypeOK
    PROVE  /\ DOMAIN lh = 1 .. Len(lh) /\ Len(lh) \in Nat
           /\ \A i \in 1 .. Len(lh) : lh[i] \in Block
           /\ DOMAIN hdr = 1 .. Len(hdr) /\ Len(hdr) \in Nat
           /\ \A i \in 1 .. Len(hdr) : hdr[i] \in Block
BY DEF TypeOK

LEMMA AppendLog ==
    ASSUME TypeOK, NEW b \in Block
    PROVE  /\ Append(lh, b) \in Seq(Block) /\ Len(Append(lh, b)) = Len(lh) + 1
           /\ DOMAIN lh = 1 .. Len(lh) /\ DOMAIN Append(lh, b) = 1 .. Len(lh) + 1
           /\ \A i \in 1 .. Len(lh) : Append(lh, b)[i] = lh[i]
           /\ Append(lh, b)[Len(lh) + 1] = b /\ Len(lh) \in Nat
BY DEF TypeOK

LEMMA SubsetOfProc ==
    ASSUME NEW S \in SUBSET Proc
    PROVE  IsFiniteSet(S) /\ Cardinality(S) \in 0 .. Cardinality(Proc)
<1>1. IsFiniteSet(Proc)
  BY LogConstants
<1>2. IsFiniteSet(S) /\ Cardinality(S) <= Cardinality(Proc)
  BY <1>1, FS_Subset
<1>3. Cardinality(S) \in Nat /\ Cardinality(Proc) \in Nat
  BY <1>1, <1>2, FS_CardinalityType
<1> QED
  BY <1>2, <1>3

\* Each call in progress may still log OpBlocks blocks at most.
LEMMA ReserveBound ==
    ASSUME NEW S \in SUBSET Proc, NEW R \in SUBSET (S \X (1 .. OpBlocks))
    PROVE  /\ IsFiniteSet(R) /\ Cardinality(R) \in Nat
           /\ Cardinality(R) <= Cardinality(S) * OpBlocks
<1>1. OpBlocks \in Nat
  BY LogConstants
<1>2. IsFiniteSet(1 .. OpBlocks) /\ Cardinality(1 .. OpBlocks) = OpBlocks
  BY <1>1, FS_Interval
<1>3. IsFiniteSet(S)
  BY SubsetOfProc
<1>4. /\ IsFiniteSet(S \X (1 .. OpBlocks))
      /\ Cardinality(S \X (1 .. OpBlocks)) = Cardinality(S) * OpBlocks
  BY <1>2, <1>3, FS_Product
<1>5. IsFiniteSet(R) /\ Cardinality(R) <= Cardinality(S \X (1 .. OpBlocks))
  BY <1>4, FS_Subset
<1> QED
  BY <1>4, <1>5, FS_CardinalityType

-----------------------------------------------------------------------------
(* The room in the log.                                                    *)

\* Steps that neither begin nor end a call nor log a block.
LEMMA ReservedSame ==
    ASSUME Reserved, InOp' = InOp, outstanding' = outstanding,
           \A p \in InOp : wrote'[p] = wrote[p],
           \A p \in Proc : wrote'[p] = wrote[p] \/ wrote'[p] = {},
           \A p \in Proc : pc'[p] \in {"begin", "asleep"} =>
                             pc[p] \in {"begin", "asleep"} \/ wrote'[p] = {},
           lh' = lh \/ outstanding = 0
    PROVE  Reserved'
<1>1. Reserve' = Reserve
  BY DEF Reserve
<1>2. \A p \in Proc : IsFiniteSet(wrote'[p])
  BY FS_EmptySet DEF Reserved
<1>3. \A p \in Proc : pc'[p] \in {"begin", "asleep"} => wrote'[p] = {}
  BY DEF Reserved
<1>4. \A p \in InOp' : \A b \in wrote'[p] : Logged(b)'
  <2>1. InOp \in SUBSET Proc
    BY DEF InOp
  <2>2. outstanding = 0 => InOp = {}
    BY <2>1, SubsetOfProc, FS_EmptySet DEF Reserved
  <2> QED
    BY <2>2 DEF Reserved, Logged
<1> QED
  BY <1>1, <1>2, <1>3, <1>4 DEF Reserved

LEMMA BeginOpReserved ==
    ASSUME IInv, NEW p \in Proc, BeginOp(p)
    PROVE  Reserved'
<1>1. CASE committing \/ ~ Room
  <2>1. InOp' = InOp /\ UNCHANGED <<outstanding, wrote, lh>>
    BY <1>1 DEF BeginOp, InOp, At, Goto, IInv, TypeOK
  <2>2. \A r \in Proc : pc'[r] \in {"begin", "asleep"} => pc[r] \in {"begin", "asleep"}
    BY <1>1 DEF BeginOp, At, Goto, IInv, TypeOK
  <2> QED
    BY <2>1, <2>2, ReservedSame DEF IInv
<1>2. CASE ~ committing /\ Room
  <2>1. /\ At(p, "begin") /\ pc' = [pc EXCEPT ![p] = "op"]
        /\ outstanding' = outstanding + 1 /\ UNCHANGED <<wrote, lh>>
    BY <1>2 DEF BeginOp, Goto
  <2>2. InOp' = InOp \cup {p} /\ p \notin InOp
    BY <2>1 DEF InOp, At, IInv, TypeOK
  <2>3. InOp \in SUBSET Proc /\ InOp' \in SUBSET Proc
    BY DEF InOp
  <2>4. outstanding' = Cardinality(InOp')
    BY <2>1, <2>2, <2>3, SubsetOfProc, FS_AddElement DEF IInv, Reserved
  <2>5. Reserve' \in SUBSET (InOp' \X (1 .. OpBlocks))
    BY DEF Reserve
  <2>6. Cardinality(Reserve') \in Nat /\ Cardinality(Reserve') <= outstanding' * OpBlocks
    BY <2>3, <2>4, <2>5, ReserveBound
  <2>7. /\ {MAXOPBLOCKS, LOGSIZE, OpBlocks} \subseteq Nat /\ OpBlocks <= MAXOPBLOCKS
        /\ Quota \in Int /\ OpBlocks <= Quota
        /\ LOGSIZE - 2 * (MAXOPBLOCKS - OpBlocks) <= Quota
    BY LogConstants, LogRoom DEF Quota
  <2>8. outstanding \in Nat /\ Len(lh) \in Nat
    BY SubsetOfProc, <2>3, LogDomain DEF IInv, Reserved
  <2>9. Len(lh) + Cardinality(Reserve') <= Quota
    <3>1. CASE outstanding = 0
      <4>1. \A r \in Proc : pc[r] \notin {"boot", "recover", "down"}
        BY <2>1, BootInProc DEF IInv, Booting, Booted, At
      <4>2. Len(lh) = 0
        BY <1>2, <3>1, <4>1, BootInProc DEF IInv, Headed, Booted
      <4> QED
        BY <2>1, <2>6, <2>7, <3>1, <4>2
    <3>2. CASE outstanding > 0
      <4>1. outstanding + 1 \in Nat /\ outstanding + 1 >= 2
        BY <2>8, <3>2
      <4>2. (outstanding + 1) * OpBlocks \in Nat /\ (outstanding + 1) * MAXOPBLOCKS \in Nat
        BY <2>7, <2>8
      <4>3. (outstanding + 1) * MAXOPBLOCKS - (outstanding + 1) * OpBlocks
              >= 2 * (MAXOPBLOCKS - OpBlocks)
        <5> DEFINE n == outstanding + 1
                   d == MAXOPBLOCKS - OpBlocks
        <5>1. n \in Nat /\ d \in Nat /\ n >= 2
          BY <2>7, <4>1
        <5>2. n * MAXOPBLOCKS - n * OpBlocks = n * d
          BY <2>7, <5>1
        <5> HIDE DEF n, d
        <5>3. n * d >= 2 * d
          BY <5>1
        <5> QED
          BY <5>2, <5>3 DEF n, d
      <4>4. Len(lh) + (outstanding + 1) * MAXOPBLOCKS <= LOGSIZE
        BY <1>2 DEF Room
      <4>5. Cardinality(Reserve') <= (outstanding + 1) * OpBlocks
        BY <2>1, <2>6
      <4> DEFINE x == (outstanding + 1) * OpBlocks
                 y == (outstanding + 1) * MAXOPBLOCKS
                 z == 2 * (MAXOPBLOCKS - OpBlocks)
                 c == Cardinality(Reserve')
                 l == Len(lh)
      <4>6. {x, y, z, c, l, LOGSIZE, Quota} \subseteq Int
        BY <2>6, <2>7, <2>8, <4>2
      <4>7. y - x >= z /\ l + y <= LOGSIZE /\ c <= x /\ LOGSIZE - z <= Quota
        BY <2>7, <4>3, <4>4, <4>5
      <4> HIDE DEF x, y, z, c, l
      <4>8. l + c <= Quota
        BY <4>6, <4>7
      <4> QED
        BY <4>8 DEF c, l
    <3> QED
      BY <2>8, <3>1, <3>2
  <2>10. \A r \in Proc : pc'[r] \in {"begin", "asleep"} => pc[r] \in {"begin", "asleep"}
    BY <2>1 DEF IInv, TypeOK
  <2>11. wrote[p] = {}
    BY <2>1 DEF IInv, Reserved, At
  <2>12. \A r \in InOp' : \A b \in wrote'[r] : Logged(b)'
    BY <2>1, <2>2, <2>11 DEF IInv, Reserved, Logged
  <2> QED
    BY <2>1, <2>4, <2>9, <2>10, <2>12 DEF IInv, Reserved
<1> QED
  BY <1>1, <1>2

LEMMA EndOpReserved ==
    ASSUME IInv, NEW p \in Proc, EndOp(p)
    PROVE  Reserved' /\ ~ committing /\ outstanding > 0
<1>1. p \in InOp /\ At(p, "op")
  BY DEF EndOp, InOp
<1>2. InOp \in SUBSET Proc
  BY DEF InOp
<1>3. outstanding = Cardinality(InOp) /\ IsFiniteSet(InOp) /\ outstanding \in Nat
  BY <1>2, SubsetOfProc DEF IInv, Reserved
<1>4. outstanding > 0
  BY <1>1, <1>3, FS_EmptySet
<1>5. ~ committing
  BY <1>4 DEF IInv, OneCommitter
<1>6. /\ outstanding' = outstanding - 1 /\ UNCHANGED <<lh, wrote>>
      /\ \A r \in Proc : pc'[r] = pc[r] \/ (pc'[r] = "begin" /\ pc[r] = "asleep")
                         \/ (r = p /\ pc'[r] \in {"idle", "commit"})
      /\ pc'[p] \in {"idle", "commit"}
  BY <1>5 DEF EndOp, Goto, Wakeup, IInv, TypeOK, inLog
<1>7. InOp' = InOp \ {p}
  BY <1>1, <1>6 DEF InOp, At
<1>8. outstanding' = Cardinality(InOp')
  BY <1>1, <1>3, <1>6, <1>7, FS_RemoveElement
<1>9. Reserve' \in SUBSET Reserve /\ Reserve \in SUBSET (InOp \X (1 .. OpBlocks))
  BY <1>6, <1>7 DEF Reserve
<1>10. /\ IsFiniteSet(Reserve) /\ Cardinality(Reserve) \in Nat
       /\ IsFiniteSet(Reserve') /\ Cardinality(Reserve') \in Nat
  BY <1>2, <1>9, ReserveBound, FS_Subset, FS_CardinalityType
<1>11. Cardinality(Reserve') <= Cardinality(Reserve)
  BY <1>9, <1>10, FS_Subset
<1>12. Len(lh') + Cardinality(Reserve') <= Quota
  <2>1. Len(lh) \in Nat /\ Quota \in Int
    BY LogDomain, LogConstants DEF IInv, Quota
  <2> QED
    BY <1>4, <1>6, <1>10, <1>11, <2>1 DEF IInv, Reserved
<1>13. \A r \in Proc : pc'[r] \in {"begin", "asleep"} => pc[r] \in {"begin", "asleep"}
  BY <1>6
<1>14. \A r \in InOp' : \A b \in wrote'[r] : Logged(b)'
  BY <1>6, <1>7 DEF IInv, Reserved, Logged
<1> QED
  BY <1>4, <1>5, <1>6, <1>8, <1>12, <1>13, <1>14 DEF IInv, Reserved

\* A call that has room for it logs one more block, and no panic is reached.
LEMMA LogWriteReserved ==
    ASSUME IInv, NEW p \in Proc, NEW b \in Block, LogWrite(p, b)
    PROVE  /\ Reserved'
           /\ Len(lh) < LOGSIZE /\ Len(lh) < NLOG - 1 /\ outstanding >= 1
<1>1. p \in InOp /\ At(p, "op") /\ p \in Proc
  BY DEF LogWrite, InOp
<1>2. InOp \in SUBSET Proc
  BY DEF InOp
<1>3. outstanding = Cardinality(InOp) /\ outstanding \in Nat /\ outstanding > 0
  BY <1>1, <1>2, SubsetOfProc, FS_EmptySet DEF IInv, Reserved
<1>4. Reserve \in SUBSET (InOp \X (1 .. OpBlocks))
  BY DEF Reserve
<1>5. IsFiniteSet(Reserve) /\ Cardinality(Reserve) \in Nat
  BY <1>2, <1>4, ReserveBound
<1>6. /\ Len(lh) \in Nat /\ {LOGSIZE, NLOG, OpBlocks} \subseteq Nat
      /\ Quota \in Int /\ Quota < LOGSIZE /\ Quota < NLOG - 1
  BY LogDomain, LogConstants, LogRoom DEF IInv, Quota
<1>7. Len(lh) + Cardinality(Reserve) <= Quota
  BY <1>3 DEF IInv, Reserved
<1>8. Len(lh) < LOGSIZE /\ Len(lh) < NLOG - 1
  BY <1>5, <1>6, <1>7
<1>9. /\ (Logged(b) /\ lh' = lh) \/ (~ Logged(b) /\ lh' = Append(lh, b))
      /\ UNCHANGED <<pc, outstanding>> /\ wrote' = [wrote EXCEPT ![p] = @ \cup {b}]
      /\ b \in wrote[p] \/ Cardinality(wrote[p]) < OpBlocks
  <2>1. ~ (Len(lh) >= LOGSIZE \/ Len(lh) >= NLOG - 1) /\ ~ (outstanding < 1)
    BY <1>3, <1>6, <1>8
  <2> QED
    BY <2>1 DEF LogWrite
<1>10. InOp' = InOp
  BY <1>9 DEF InOp, At
<1>11. /\ IsFiniteSet(wrote[p]) /\ IsFiniteSet(wrote'[p])
       /\ Cardinality(wrote[p]) \in Nat
       /\ wrote'[p] = wrote[p] \cup {b}
       /\ Cardinality(wrote'[p]) = IF b \in wrote[p] THEN Cardinality(wrote[p])
                                                     ELSE Cardinality(wrote[p]) + 1
  BY <1>9, FS_AddElement, FS_CardinalityType DEF IInv, TypeOK, Reserved
<1>12. \A r \in Proc \ {p} : wrote'[r] = wrote[r]
  BY <1>9 DEF IInv, TypeOK
<1>13. Len(lh') + Cardinality(Reserve') <= Quota
  <2>1. CASE b \in wrote[p]
    <3>1. Reserve' = Reserve
      <4>1. wrote'[p] = wrote[p]
        BY <1>11, <2>1
      <4>2. \A r \in InOp \X (1 .. OpBlocks) : wrote'[r[1]] = wrote[r[1]]
        BY <1>2, <1>12, <4>1
      <4> QED
        BY <1>10, <4>2 DEF Reserve
    <3>2. Logged(b)
      BY <1>1, <2>1 DEF IInv, Reserved
    <3> QED
      BY <1>7, <1>9, <3>1, <3>2
  <2>2. CASE b \notin wrote[p]
    <3> DEFINE c == <<p, Cardinality(wrote[p]) + 1>>
    <3>1. c \in Reserve
      BY <1>1, <1>6, <1>9, <1>11, <2>2 DEF Reserve
    <3>2. Reserve' = Reserve \ {c}
      <4>1. ASSUME NEW r \in Reserve' PROVE r \in Reserve \ {c}
        <5>1. r \in InOp \X (1 .. OpBlocks) /\ r[2] > Cardinality(wrote'[r[1]])
          BY <1>10, <4>1 DEF Reserve
        <5>2. r[1] = p => r[2] > Cardinality(wrote[p]) + 1
          BY <1>11, <2>2, <5>1
        <5>3. r[2] > Cardinality(wrote[r[1]])
          <6>1. CASE r[1] = p
            BY <1>6, <1>11, <5>1, <5>2, <6>1
          <6>2. CASE r[1] # p
            BY <1>2, <1>12, <5>1, <6>2
          <6> QED
            BY <6>1, <6>2
        <5>4. r # c
          BY <1>11, <5>2
        <5> QED
          BY <5>1, <5>3, <5>4 DEF Reserve
      <4>2. ASSUME NEW r \in Reserve \ {c} PROVE r \in Reserve'
        <5>1. r \in InOp \X (1 .. OpBlocks) /\ r[2] > Cardinality(wrote[r[1]]) /\ r # c
          BY <4>2 DEF Reserve
        <5>2. r[1] = p => r[2] # Cardinality(wrote[p]) + 1
          BY <5>1
        <5>3. r[2] > Cardinality(wrote'[r[1]])
          <6>1. CASE r[1] = p
            <7>1. Cardinality(wrote'[r[1]]) = Cardinality(wrote[p]) + 1
              BY <1>11, <2>2, <6>1
            <7>2. r[2] \in Nat /\ r[2] > Cardinality(wrote[p])
              BY <1>6, <5>1, <6>1
            <7> QED
              BY <1>11, <5>2, <6>1, <7>1, <7>2
          <6>2. CASE r[1] # p
            BY <1>2, <1>12, <5>1, <6>2
          <6> QED
            BY <6>1, <6>2
        <5> QED
          BY <1>10, <5>1, <5>3 DEF Reserve
      <4> QED
        BY <4>1, <4>2
    <3>3. Cardinality(Reserve') = Cardinality(Reserve) - 1
      BY <1>5, <3>1, <3>2, FS_RemoveElement
    <3>4. Len(lh') <= Len(lh) + 1 /\ Len(lh') \in Nat
      BY <1>6, <1>9 DEF IInv, TypeOK
    <3> QED
      BY <1>5, <1>6, <1>7, <3>3, <3>4
  <2> QED
    BY <2>1, <2>2
<1>14. \A r \in Proc : IsFiniteSet(wrote'[r])
  BY <1>11, <1>12 DEF IInv, Reserved
<1>15. \A r \in Proc : pc'[r] \in {"begin", "asleep"} => wrote'[r] = {}
  BY <1>1, <1>9, <1>12 DEF IInv, Reserved, At
<1>16. \A r \in InOp' : \A c \in wrote'[r] : Logged(c)'
  <2>1. \A c \in Block : Logged(c) => Logged(c)'
    BY <1>9, AppendLog DEF Logged, IInv
  <2>2. Logged(b)'
    BY <1>9, AppendLog DEF Logged, IInv
  <2>3. \A r \in Proc : wrote[r] \subseteq Block
    BY DEF IInv, TypeOK
  <2> QED
    BY <1>2, <1>10, <1>11, <1>12, <2>1, <2>2, <2>3 DEF IInv, Reserved
<1>17. outstanding >= 1
  BY <1>3
<1>18. outstanding' = Cardinality(InOp')
  BY <1>3, <1>9, <1>10
<1>19. Reserved'
  BY <1>13, <1>14, <1>15, <1>16, <1>18 DEF Reserved
<1> QED
  BY <1>8, <1>17, <1>19

-----------------------------------------------------------------------------
(* Each action preserves the invariant.                                    *)

LEMMA Counts ==
    ASSUME Reserved
    PROVE  outstanding \in Nat /\ (outstanding = 0 <=> InOp = {})
<1>1. InOp \in SUBSET Proc
  BY DEF InOp
<1> QED
  BY <1>1, SubsetOfProc, FS_EmptySet DEF Reserved

\* Steps outside the loops of the commit and of recovery.
LEMMA CopiedSame ==
    ASSUME Copied, UNCHANGED <<lh, disk, logdisk, tail>>,
           \A r \in Proc : pc'[r] \in {"write_log", "install", "recover"} => pc'[r] = pc[r],
           \A r \in Proc : pc[r] \in {"write_log", "install"} =>
               \A i \in 1 .. Len(lh) : (At(r, "install") => i >= tail) => buf'[lh[i]] = buf[lh[i]]
    PROVE  Copied'
BY DEF Copied, At

LEMMA CallKeeps ==
    ASSUME IInv, NEW p \in Proc, Call(p)
    PROVE  IInv'
<1> USE DEF Call, Goto, At
<1>0. Reserved'
  <2>1. InOp' = InOp
    BY DEF IInv, TypeOK, InOp, OneCommitter, Committer, Booting, inLog
  <2> QED
    BY <2>1, ReservedSame DEF IInv, TypeOK, InOp, OneCommitter, Committer, inLog
<1>1. NoPanic'
  BY BootInProc, LogDomain, LogConstants DEF IInv, TypeOK, NoPanic, onDisk, inLog
<1>2. Distinct(hdr)'
  BY BootInProc, LogDomain, LogConstants DEF IInv, TypeOK, Distinct, onDisk, inLog
<1>3. Distinct(lh)'
  BY BootInProc, LogDomain, LogConstants DEF IInv, TypeOK, Distinct, Logged, onDisk, inLog
<1>4. Booting'
  BY BootInProc, LogDomain, LogConstants DEF IInv, TypeOK, Booting, Booted, OneCommitter, Committer, onDisk, inLog
<1>5. OneCommitter'
  BY BootInProc, LogDomain, LogConstants DEF IInv, TypeOK, OneCommitter, Committer, Booting, Booted, onDisk, inLog
<1>6. Cached'
  BY BootInProc, LogDomain, LogConstants DEF IInv, TypeOK, Cached, Pinned, Logged, Copied, Booting, Booted, onDisk, inLog
<1>7. Pinned'
  BY SMTT(30), BootInProc, LogDomain, LogConstants DEF IInv, TypeOK, Pinned, Logged, Booted, Booting, OneCommitter, Committer, Distinct, Copied, onDisk, inLog
<1>8. Copied'
  BY BootInProc, LogDomain, LogConstants DEF IInv, TypeOK, Copied, Logged, Pinned, Booted, Booting, OneCommitter, Committer, Distinct, Cached, onDisk, inLog
<1>9. Headed'
  BY BootInProc, LogDomain, LogConstants DEF IInv, TypeOK, Headed, Booted, Booting, OneCommitter, Committer, onDisk, inLog
<1>10. TypeOK'
  <2>1. outstanding' \in 0 .. Cardinality(Proc)
    BY <1>0, SubsetOfProc DEF Reserved, InOp
  <2>2. pc' \in [Proc -> Place]
    BY BootInProc DEF IInv, TypeOK, Place
  <2>3. tail' \in 1 .. NLOG
    BY LogConstants, LogDomain DEF IInv, TypeOK, Copied
  <2>4. calls' \in 0 .. MaxOp /\ id' \in [Proc -> Val]
    BY LogConstants DEF IInv, TypeOK, Val
  <2> QED
    BY <2>1, <2>2, <2>3, <2>4 DEF IInv, TypeOK, onDisk, inLog
<1> QED
  BY <1>0, <1>1, <1>2, <1>3, <1>4, <1>5, <1>6, <1>7, <1>8, <1>9, <1>10 DEF IInv

LEMMA BeginOpKeeps ==
    ASSUME IInv, NEW p \in Proc, BeginOp(p)
    PROVE  IInv'
<1> USE DEF BeginOp, Goto, At
<1>0. Reserved'
  BY BeginOpReserved
<1>1. NoPanic'
  BY BootInProc, LogDomain, LogConstants DEF IInv, TypeOK, NoPanic, onDisk, inLog
<1>2. Distinct(hdr)'
  BY BootInProc, LogDomain, LogConstants DEF IInv, TypeOK, Distinct, onDisk, inLog
<1>3. Distinct(lh)'
  BY BootInProc, LogDomain, LogConstants DEF IInv, TypeOK, Distinct, Logged, onDisk, inLog
<1>4. Booting'
  BY BootInProc, LogDomain, LogConstants DEF IInv, TypeOK, Booting, Booted, OneCommitter, Committer, onDisk, inLog
<1>5. OneCommitter'
  BY BootInProc, LogDomain, LogConstants DEF IInv, TypeOK, OneCommitter, Committer, Booting, Booted, onDisk, inLog
<1>6. Cached'
  BY BootInProc, LogDomain, LogConstants DEF IInv, TypeOK, Cached, Pinned, Logged, Copied, Booting, Booted, onDisk, inLog
<1>7. Pinned'
  BY BootInProc, LogDomain, LogConstants DEF IInv, TypeOK, Pinned, Logged, Booted, Booting, OneCommitter, Committer, Distinct, Copied, onDisk, inLog
<1>8. Copied'
  <2>1. \A r \in Proc : pc'[r] = pc[r] \/ pc'[r] \in {"asleep", "op"}
    BY DEF IInv, TypeOK
  <2> QED
    BY <2>1, CopiedSame DEF IInv, onDisk
<1>9. Headed'
  BY SMTT(30), BootInProc, LogDomain, LogConstants DEF IInv, TypeOK, Headed, Booted, Booting, OneCommitter, Committer, onDisk, inLog
<1>10. TypeOK'
  <2>1. outstanding' \in 0 .. Cardinality(Proc)
    BY <1>0, SubsetOfProc DEF Reserved, InOp
  <2>2. pc' \in [Proc -> Place]
    BY BootInProc DEF IInv, TypeOK, Place
  <2>3. tail' \in 1 .. NLOG
    BY LogConstants, LogDomain DEF IInv, TypeOK, Copied
  <2> QED
    BY <2>1, <2>2, <2>3, LogDomain, LogConstants DEF IInv, TypeOK, onDisk, inLog, Val
<1> QED
  BY <1>0, <1>1, <1>2, <1>3, <1>4, <1>5, <1>6, <1>7, <1>8, <1>9, <1>10 DEF IInv

LEMMA LogWriteKeeps ==
    ASSUME IInv, NEW p \in Proc, NEW b \in Block, LogWrite(p, b)
    PROVE  IInv'
<1> USE DEF At
<1>0. /\ ~ (Len(lh) >= LOGSIZE) /\ ~ (Len(lh) >= NLOG - 1) /\ ~ (outstanding < 1)
      /\ Reserved' /\ outstanding \in Nat /\ Len(lh) < NLOG - 1
  <2>1. /\ Reserved' /\ Len(lh) < LOGSIZE /\ Len(lh) < NLOG - 1 /\ outstanding >= 1
        /\ outstanding \in Nat
    BY LogWriteReserved, Counts DEF IInv
  <2>2. Len(lh) \in Nat /\ LOGSIZE \in Nat /\ NLOG \in Nat
    BY LogConstants, LogDomain DEF IInv
  <2> QED
    BY <2>1, <2>2
<1>a. /\ \/ Logged(b) /\ UNCHANGED <<lh, pin>>
         \/ ~ Logged(b) /\ lh' = Append(lh, b) /\ pin' = [pin EXCEPT ![b] = @ + 1]
      /\ buf' = [buf EXCEPT ![b] = id[p]]
      /\ UNCHANGED <<onDisk, outstanding, committing, pc, id, tail, calls, crashes, panicked>>
      /\ wrote' = [wrote EXCEPT ![p] = @ \cup {b}] /\ At(p, "op")
  BY <1>0 DEF LogWrite
<1>b. /\ outstanding # 0 /\ Booted
      /\ \A r \in Proc : pc[r] \notin Committer /\ pc[r] # "recover"
  <2>1. Booted
    BY <1>a, BootInProc DEF IInv, Booting, Booted
  <2>2. \A r \in Proc : pc[r] # "recover"
    BY <2>1, BootInProc DEF IInv, Booting
  <2> QED
    BY <1>0, <2>1, <2>2 DEF IInv, OneCommitter
<1>c. \A c \in Block : pin[c] \in {0, 1} /\ (pin[c] = 1 <=> Logged(c))
  BY <1>b DEF IInv, Pinned, Committer, TypeOK
<1>d. lh' # lh => /\ Len(lh') = Len(lh) + 1 /\ DOMAIN lh' = 1 .. Len(lh) + 1
                  /\ \A i \in 1 .. Len(lh) : lh'[i] = lh[i]
                  /\ lh'[Len(lh) + 1] = b /\ lh' \in Seq(Block)
  BY ZenonT(30), <1>a, AppendLog DEF IInv
<1>e. \A c \in Block : Logged(c)' <=> Logged(c) \/ c = b
  <2>1. CASE lh' = lh
    <3>1. Logged(b)
      BY <1>a, <2>1, AppendLog DEF IInv
    <3> QED
      BY <2>1, <3>1 DEF Logged
  <2>2. CASE lh' # lh
    BY <1>d, <2>2, LogDomain DEF IInv, Logged
  <2> QED
    BY <2>1, <2>2
<1>f. pin'[b] = 1 /\ \A c \in Block \ {b} : pin'[c] = pin[c] /\ buf'[c] = buf[c]
  BY <1>a, <1>c DEF IInv, TypeOK
<1>1. NoPanic'
  BY <1>a DEF IInv, NoPanic
<1>2. Distinct(hdr)'
  BY <1>a DEF IInv, Distinct, onDisk
<1>3. Distinct(lh)'
  <2>1. CASE lh' = lh
    BY <2>1 DEF IInv, Distinct
  <2>2. CASE lh' # lh
    <3>1. \A i \in 1 .. Len(lh) : lh[i] # b
      BY <1>a, <2>2, LogDomain DEF IInv, Logged
    <3>2. \A i, j \in 1 .. Len(lh) : lh[i] = lh[j] => i = j
      BY LogDomain DEF IInv, Distinct
    <3>3. \A i \in DOMAIN lh' : i \in 1 .. Len(lh) \/ i = Len(lh) + 1
      BY <1>d, <2>2, LogDomain DEF IInv
    <3> QED
      BY <1>d, <2>2, <3>1, <3>2, <3>3 DEF Distinct
  <2> QED
    BY <2>1, <2>2
<1>4. Booting'
  BY <1>a, <1>b DEF IInv, Booting, Booted
<1>5. OneCommitter'
  BY <1>a, <1>b DEF IInv, OneCommitter
<1>6. Cached'
  <2>1. id[p] \in Val
    BY DEF IInv, TypeOK
  <2>2. id[p] # NoBuf
    BY <2>1, LogConstants DEF Val
  <2>3. buf'[b] # NoBuf
    BY <1>a, <2>2 DEF IInv, TypeOK
  <2> QED
    BY <1>a, <1>f, <2>3 DEF IInv, Cached, onDisk
<1>7. Pinned'
  <2>1. \A c \in Block : pin'[c] = 1 <=> Logged(c)'
    BY <1>c, <1>e, <1>f
  <2> QED
    BY <1>a, <1>b, <2>1 DEF Pinned, Committer
<1>8. Copied'
  BY <1>a, <1>b DEF Copied, Committer
<1>9. Headed'
  BY <1>a, <1>b DEF IInv, Headed, Committer, Booted, onDisk
<1>10. TypeOK'
  <2>1. outstanding' \in 0 .. Cardinality(Proc)
    BY <1>a DEF IInv, TypeOK
  <2>2. lh' \in Seq(Block) /\ Len(lh') <= NLOG - 1
    <3>1. Len(lh) \in Nat /\ NLOG \in Nat
      BY LogConstants, LogDomain DEF IInv
    <3> QED
      BY <1>0, <1>d, <3>1 DEF IInv, TypeOK
  <2>3. pin' \in [Block -> {0, 1}]
    <3>1. pin' = [pin EXCEPT ![b] = 1]
      BY <1>a, <1>c, <1>f DEF IInv, TypeOK
    <3> QED
      BY <3>1 DEF IInv, TypeOK
  <2>4. buf' \in [Block -> Val \cup {NoBuf}] /\ wrote' \in [Proc -> SUBSET Block]
    BY <1>a DEF IInv, TypeOK
  <2> QED
    BY <1>a, <2>1, <2>2, <2>3, <2>4 DEF IInv, TypeOK, onDisk
<1> QED
  BY <1>0, <1>1, <1>2, <1>3, <1>4, <1>5, <1>6, <1>7, <1>8, <1>9, <1>10 DEF IInv

LEMMA EndOpKeeps ==
    ASSUME IInv, NEW p \in Proc, EndOp(p)
    PROVE  IInv'
<1> USE DEF EndOp, Goto, Wakeup, At
<1>0. ~ committing /\ outstanding > 0 /\ Reserved' /\ outstanding \in Nat
  BY EndOpReserved, Counts DEF IInv
<1>a. /\ \A r \in Proc : pc'[r] = pc[r] \/ (pc'[r] = "begin" /\ pc[r] = "asleep")
                           \/ (r = p /\ pc'[r] \in {"idle", "commit"})
      /\ pc[p] = "op" /\ pc'[p] = IF outstanding = 1 THEN "commit" ELSE "idle"
      /\ outstanding' = outstanding - 1 /\ committing' = (outstanding = 1)
      /\ UNCHANGED <<onDisk, lh, pin, buf, tail>>
  BY <1>0 DEF IInv, TypeOK
<1>b. \A r \in Proc : pc[r] \notin Committer
  BY <1>0 DEF IInv, OneCommitter
<1>1. NoPanic'
  BY <1>0, BootInProc, LogDomain, LogConstants DEF IInv, TypeOK, NoPanic, onDisk, inLog
<1>2. Distinct(hdr)'
  BY <1>0, BootInProc, LogDomain, LogConstants DEF IInv, TypeOK, Distinct, onDisk, inLog
<1>3. Distinct(lh)'
  BY <1>0, BootInProc, LogDomain, LogConstants DEF IInv, TypeOK, Distinct, Logged, onDisk, inLog
<1>4. Booting'
  BY ZenonT(30), <1>0, BootInProc, LogDomain, LogConstants DEF IInv, TypeOK, Booting, Booted, OneCommitter, Committer, onDisk, inLog
<1>5. OneCommitter'
  <2>1. \A r \in Proc : pc'[r] \in Committer => r = p /\ outstanding = 1
    BY <1>a, <1>b DEF Committer
  <2> QED
    BY <1>0, <1>a, <2>1 DEF OneCommitter, Committer
<1>6. Cached'
  BY <1>0, BootInProc, LogDomain, LogConstants DEF IInv, TypeOK, Cached, Pinned, Logged, Copied, Booting, Booted, onDisk, inLog
<1>7. Pinned'
  <2>1. Booted /\ (\A r \in Proc : ~ At(r, "install")) /\ (\A r \in Proc : ~ At(r, "install")')
    BY <1>a, <1>b, BootInProc DEF IInv, Booting, Booted, Committer
  <2> QED
    BY <1>a, <2>1 DEF IInv, Pinned, Logged
<1>8. Copied'
  BY <1>a, <1>b, CopiedSame DEF IInv, onDisk, Committer
<1>9. Headed'
  <2>1. Booted /\ (\A r \in Proc : ~ At(r, "install")) /\ (\A r \in Proc : ~ At(r, "done")')
        /\ (\A r \in Proc : ~ At(r, "install")')
    BY <1>a, <1>b, BootInProc DEF IInv, Booting, Booted, Committer
  <2>2. hdr' = <<>>
    BY <1>a, <2>1 DEF IInv, Headed, onDisk
  <2>3. ~ (outstanding' = 0 /\ ~ committing')
    BY <1>0, <1>a
  <2> QED
    BY <2>1, <2>2, <2>3 DEF Headed
<1>10. TypeOK'
  <2>1. outstanding' \in 0 .. Cardinality(Proc)
    BY <1>0, SubsetOfProc DEF Reserved, InOp
  <2>2. pc' \in [Proc -> Place]
    BY <1>0, BootInProc DEF IInv, TypeOK, Place
  <2>3. tail' \in 1 .. NLOG
    BY <1>0, LogConstants, LogDomain DEF IInv, TypeOK, Copied
  <2> QED
    BY <1>0, <2>1, <2>2, <2>3, LogDomain, LogConstants DEF IInv, TypeOK, onDisk, inLog, Val
<1> QED
  BY <1>0, <1>1, <1>2, <1>3, <1>4, <1>5, <1>6, <1>7, <1>8, <1>9, <1>10 DEF IInv

LEMMA CommitKeeps ==
    ASSUME IInv, NEW p \in Proc, Commit(p)
    PROVE  IInv'
<1> USE DEF Commit, Goto, Loop, At
<1>0. Reserved'
  <2>1. InOp' = InOp
    BY DEF IInv, TypeOK, InOp, OneCommitter, Committer, Booting, inLog
  <2> QED
    BY <2>1, ReservedSame DEF IInv, TypeOK, InOp, OneCommitter, Committer, inLog
<1>1. NoPanic'
  BY BootInProc, LogDomain, LogConstants DEF IInv, TypeOK, NoPanic, onDisk, inLog
<1>2. Distinct(hdr)'
  BY BootInProc, LogDomain, LogConstants DEF IInv, TypeOK, Distinct, onDisk, inLog
<1>3. Distinct(lh)'
  BY BootInProc, LogDomain, LogConstants DEF IInv, TypeOK, Distinct, Logged, onDisk, inLog
<1>4. Booting'
  BY BootInProc, LogDomain, LogConstants DEF IInv, TypeOK, Booting, Booted, OneCommitter, Committer, onDisk, inLog
<1>5. OneCommitter'
  BY BootInProc, LogDomain, LogConstants DEF IInv, TypeOK, OneCommitter, Committer, Booting, Booted, onDisk, inLog
<1>6. Cached'
  BY BootInProc, LogDomain, LogConstants DEF IInv, TypeOK, Cached, Pinned, Logged, Copied, Booting, Booted, onDisk, inLog
<1>7. Pinned'
  BY BootInProc, LogDomain, LogConstants DEF IInv, TypeOK, Pinned, Logged, Booted, Booting, OneCommitter, Committer, Distinct, Copied, onDisk, inLog
<1>8. Copied'
  BY BootInProc, LogDomain, LogConstants DEF IInv, TypeOK, Copied, Logged, Pinned, Booted, Booting, OneCommitter, Committer, Distinct, Cached, onDisk, inLog
<1>9. Headed'
  BY BootInProc, LogDomain, LogConstants DEF IInv, TypeOK, Headed, Booted, Booting, OneCommitter, Committer, onDisk, inLog
<1>10. TypeOK'
  <2>1. outstanding' \in 0 .. Cardinality(Proc)
    BY <1>0, SubsetOfProc DEF Reserved, InOp
  <2>2. pc' \in [Proc -> Place]
    BY BootInProc DEF IInv, TypeOK, Place
  <2>3. tail' \in 1 .. NLOG
    BY LogConstants, LogDomain DEF IInv, TypeOK, Copied
  <2> QED
    BY <2>1, <2>2, <2>3, LogDomain, LogConstants DEF IInv, TypeOK, onDisk, inLog, Val
<1> QED
  BY <1>0, <1>1, <1>2, <1>3, <1>4, <1>5, <1>6, <1>7, <1>8, <1>9, <1>10 DEF IInv

LEMMA WriteLogKeeps ==
    ASSUME IInv, NEW p \in Proc, WriteLog(p)
    PROVE  IInv'
<1> USE DEF WriteLog, Goto, Loop, Bread, At
<1>0. Reserved'
  <2>1. InOp' = InOp
    BY DEF IInv, TypeOK, InOp, OneCommitter, Committer, Booting, inLog
  <2> QED
    BY <2>1, ReservedSame DEF IInv, TypeOK, InOp, OneCommitter, Committer, inLog
<1>1. NoPanic'
  BY BootInProc, LogDomain, LogConstants DEF IInv, TypeOK, NoPanic, onDisk, inLog
<1>2. Distinct(hdr)'
  BY BootInProc, LogDomain, LogConstants DEF IInv, TypeOK, Distinct, onDisk, inLog
<1>3. Distinct(lh)'
  BY BootInProc, LogDomain, LogConstants DEF IInv, TypeOK, Distinct, Logged, onDisk, inLog
<1>4. Booting'
  BY BootInProc, LogDomain, LogConstants DEF IInv, TypeOK, Booting, Booted, OneCommitter, Committer, onDisk, inLog
<1>5. OneCommitter'
  BY BootInProc, LogDomain, LogConstants DEF IInv, TypeOK, OneCommitter, Committer, Booting, Booted, onDisk, inLog
<1>6. Cached'
  BY BootInProc, LogDomain, LogConstants DEF IInv, TypeOK, Cached, Pinned, Logged, Copied, Booting, Booted, onDisk, inLog
<1>7. Pinned'
  BY BootInProc, LogDomain, LogConstants DEF IInv, TypeOK, Pinned, Logged, Booted, Booting, OneCommitter, Committer, Distinct, Copied, onDisk, inLog
<1>8. Copied'
  BY BootInProc, LogDomain, LogConstants DEF IInv, TypeOK, Copied, Logged, Pinned, Booted, Booting, OneCommitter, Committer, Distinct, Cached, onDisk, inLog
<1>9. Headed'
  BY BootInProc, LogDomain, LogConstants DEF IInv, TypeOK, Headed, Booted, Booting, OneCommitter, Committer, onDisk, inLog
<1>10. TypeOK'
  <2>1. outstanding' \in 0 .. Cardinality(Proc)
    BY <1>0, SubsetOfProc DEF Reserved, InOp
  <2>2. pc' \in [Proc -> Place]
    BY BootInProc DEF IInv, TypeOK, Place
  <2>3. tail' \in 1 .. NLOG
    BY LogConstants, LogDomain DEF IInv, TypeOK, Copied
  <2>4. logdisk' \in [1 .. NLOG - 1 -> Val] /\ buf' \in [Block -> Val \cup {NoBuf}]
    <3>1. lh[tail] \in Block /\ tail \in 1 .. Len(lh)
      BY LogDomain DEF IInv, TypeOK
    <3>2. Bread(lh[tail]) \in Val
      BY <3>1 DEF IInv, TypeOK
    <3> QED
      BY <3>1, <3>2 DEF IInv, TypeOK
  <2> QED
    BY <2>1, <2>2, <2>3, <2>4 DEF IInv, TypeOK, onDisk, inLog
<1> QED
  BY <1>0, <1>1, <1>2, <1>3, <1>4, <1>5, <1>6, <1>7, <1>8, <1>9, <1>10 DEF IInv

LEMMA WriteHeadKeeps ==
    ASSUME IInv, NEW p \in Proc, WriteHead(p)
    PROVE  IInv'
<1> USE DEF WriteHead, Goto, Loop, At
<1>0. Reserved'
  <2>1. InOp' = InOp
    BY DEF IInv, TypeOK, InOp, OneCommitter, Committer, Booting, inLog
  <2> QED
    BY <2>1, ReservedSame DEF IInv, TypeOK, InOp, OneCommitter, Committer, inLog
<1>1. NoPanic'
  BY BootInProc, LogDomain, LogConstants DEF IInv, TypeOK, NoPanic, onDisk, inLog
<1>2. Distinct(hdr)'
  BY BootInProc, LogDomain, LogConstants DEF IInv, TypeOK, Distinct, onDisk, inLog
<1>3. Distinct(lh)'
  BY BootInProc, LogDomain, LogConstants DEF IInv, TypeOK, Distinct, Logged, onDisk, inLog
<1>4. Booting'
  BY BootInProc, LogDomain, LogConstants DEF IInv, TypeOK, Booting, Booted, OneCommitter, Committer, onDisk, inLog
<1>5. OneCommitter'
  BY BootInProc, LogDomain, LogConstants DEF IInv, TypeOK, OneCommitter, Committer, Booting, Booted, onDisk, inLog
<1>6. Cached'
  BY BootInProc, LogDomain, LogConstants DEF IInv, TypeOK, Cached, Pinned, Logged, Copied, Booting, Booted, onDisk, inLog
<1>7. Pinned'
  BY BootInProc, LogDomain, LogConstants DEF IInv, TypeOK, Pinned, Logged, Booted, Booting, OneCommitter, Committer, Distinct, Copied, onDisk, inLog
<1>8. Copied'
  BY BootInProc, LogDomain, LogConstants DEF IInv, TypeOK, Copied, Logged, Pinned, Booted, Booting, OneCommitter, Committer, Distinct, Cached, onDisk, inLog
<1>9. Headed'
  BY BootInProc, LogDomain, LogConstants DEF IInv, TypeOK, Headed, Booted, Booting, OneCommitter, Committer, onDisk, inLog
<1>10. TypeOK'
  <2>1. outstanding' \in 0 .. Cardinality(Proc)
    BY <1>0, SubsetOfProc DEF Reserved, InOp
  <2>2. pc' \in [Proc -> Place]
    BY BootInProc DEF IInv, TypeOK, Place
  <2>3. tail' \in 1 .. NLOG
    BY LogConstants, LogDomain DEF IInv, TypeOK, Copied
  <2> QED
    BY <2>1, <2>2, <2>3, LogDomain, LogConstants DEF IInv, TypeOK, onDisk, inLog, Val
<1> QED
  BY <1>0, <1>1, <1>2, <1>3, <1>4, <1>5, <1>6, <1>7, <1>8, <1>9, <1>10 DEF IInv

LEMMA InstallKeeps ==
    ASSUME IInv, NEW p \in Proc, Install(p)
    PROVE  IInv'
<1> USE DEF Install, Goto, Loop, At
<1>0. Reserved'
  <2>1. InOp' = InOp
    BY DEF IInv, TypeOK, InOp, OneCommitter, Committer, Booting, inLog
  <2> QED
    BY <2>1, ReservedSame DEF IInv, TypeOK, InOp, OneCommitter, Committer, inLog
<1>1. NoPanic'
  BY BootInProc, LogDomain, LogConstants DEF IInv, TypeOK, NoPanic, onDisk, inLog
<1>2. Distinct(hdr)'
  BY BootInProc, LogDomain, LogConstants DEF IInv, TypeOK, Distinct, onDisk, inLog
<1>3. Distinct(lh)'
  BY BootInProc, LogDomain, LogConstants DEF IInv, TypeOK, Distinct, Logged, onDisk, inLog
<1>4. Booting'
  BY BootInProc, LogDomain, LogConstants DEF IInv, TypeOK, Booting, Booted, OneCommitter, Committer, onDisk, inLog
<1>5. OneCommitter'
  BY BootInProc, LogDomain, LogConstants DEF IInv, TypeOK, OneCommitter, Committer, Booting, Booted, onDisk, inLog
<1>6. Cached'
  BY BootInProc, LogDomain, LogConstants DEF IInv, TypeOK, Cached, Pinned, Logged, Copied, Booting, Booted, onDisk, inLog
<1>7. Pinned'
  BY SMTT(30), BootInProc, LogDomain, LogConstants DEF IInv, TypeOK, Pinned, Logged, Booted, Booting, OneCommitter, Committer, Distinct, Copied, onDisk, inLog
<1>8. Copied'
  <2>1. \A r \in Proc : pc'[r] = pc[r]
    BY DEF IInv, TypeOK
  <2>2. \A r \in Proc : At(r, "write_log") => r = p
    BY BootInProc DEF IInv, OneCommitter, Committer, Booting, Booted
  <2>3. /\ tail \in 1 .. Len(lh) /\ tail' = tail + 1 /\ tail \in Nat
        /\ disk' = [disk EXCEPT ![lh[tail]] = logdisk[tail]]
        /\ buf' = [buf EXCEPT ![lh[tail]] = logdisk[tail]]
    BY LogDomain, LogConstants DEF IInv, TypeOK
  <2>4. \A i \in 1 .. Len(lh) \ {tail} : disk'[lh[i]] = disk[lh[i]] /\ buf'[lh[i]] = buf[lh[i]]
    BY <2>3, LogDomain DEF IInv, TypeOK, Distinct
  <2>5. disk'[lh[tail]] = logdisk[tail]
    BY <2>3, LogDomain DEF IInv, TypeOK
  <2>6. tail' <= Len(lh) + 1
    BY <2>3, LogDomain DEF IInv
  <2>7. ~ At(p, "write_log")
    OBVIOUS
  <2> QED
    BY <2>1, <2>2, <2>3, <2>4, <2>5, <2>6, <2>7, LogDomain DEF IInv, Copied
<1>9. Headed'
  BY BootInProc, LogDomain, LogConstants DEF IInv, TypeOK, Headed, Booted, Booting, OneCommitter, Committer, onDisk, inLog
<1>10. TypeOK'
  <2>1. outstanding' \in 0 .. Cardinality(Proc)
    BY <1>0, SubsetOfProc DEF Reserved, InOp
  <2>2. pc' \in [Proc -> Place]
    BY BootInProc DEF IInv, TypeOK, Place
  <2>3. tail' \in 1 .. NLOG
    BY LogConstants, LogDomain DEF IInv, TypeOK, Copied
  <2>4. /\ disk' \in [Block -> Val] /\ buf' \in [Block -> Val \cup {NoBuf}]
        /\ pin' \in [Block -> {0, 1}]
    <3>1. lh[tail] \in Block /\ tail \in 1 .. Len(lh)
      BY LogDomain DEF IInv, TypeOK
    <3>2. logdisk[tail] \in Val
      BY <3>1, LogConstants, LogDomain DEF IInv, TypeOK
    <3>3. At(p, "install") => pin[lh[tail]] = 1
      BY <3>1 DEF IInv, TypeOK, Pinned
    <3> QED
      BY <3>1, <3>2, <3>3 DEF IInv, TypeOK
  <2> QED
    BY <2>1, <2>2, <2>3, <2>4 DEF IInv, TypeOK, onDisk, inLog
<1> QED
  BY <1>0, <1>1, <1>2, <1>3, <1>4, <1>5, <1>6, <1>7, <1>8, <1>9, <1>10 DEF IInv

LEMMA EraseHeadKeeps ==
    ASSUME IInv, NEW p \in Proc, EraseHead(p)
    PROVE  IInv'
<1> USE DEF EraseHead, Goto, At
<1>0. Reserved'
  <2>1. outstanding = 0 /\ InOp = {}
    BY Counts, BootInProc DEF IInv, OneCommitter, Booting, Booted, Committer
  <2>2. InOp' = {}
    BY <2>1 DEF IInv, TypeOK, InOp
  <2> QED
    BY <2>1, <2>2, ReservedSame DEF IInv, TypeOK
<1>1. NoPanic'
  BY BootInProc, LogDomain, LogConstants DEF IInv, TypeOK, NoPanic, onDisk, inLog
<1>2. Distinct(hdr)'
  BY BootInProc, LogDomain, LogConstants DEF IInv, TypeOK, Distinct, onDisk, inLog
<1>3. Distinct(lh)'
  BY BootInProc, LogDomain, LogConstants DEF IInv, TypeOK, Distinct, Logged, onDisk, inLog
<1>4. Booting'
  BY BootInProc, LogDomain, LogConstants DEF IInv, TypeOK, Booting, Booted, OneCommitter, Committer, onDisk, inLog
<1>5. OneCommitter'
  BY BootInProc, LogDomain, LogConstants DEF IInv, TypeOK, OneCommitter, Committer, Booting, Booted, onDisk, inLog
<1>6. Cached'
  BY BootInProc, LogDomain, LogConstants DEF IInv, TypeOK, Cached, Pinned, Logged, Copied, Booting, Booted, onDisk, inLog
<1>7. Pinned'
  BY BootInProc, LogDomain, LogConstants DEF IInv, TypeOK, Pinned, Logged, Booted, Booting, OneCommitter, Committer, Distinct, Copied, onDisk, inLog
<1>8. Copied'
  BY BootInProc, LogDomain, LogConstants DEF IInv, TypeOK, Copied, Logged, Pinned, Booted, Booting, OneCommitter, Committer, Distinct, Cached, onDisk, inLog
<1>9. Headed'
  BY BootInProc, LogDomain, LogConstants DEF IInv, TypeOK, Headed, Booted, Booting, OneCommitter, Committer, onDisk, inLog
<1>10. TypeOK'
  <2>1. outstanding' \in 0 .. Cardinality(Proc)
    BY <1>0, SubsetOfProc DEF Reserved, InOp
  <2>2. pc' \in [Proc -> Place]
    BY BootInProc DEF IInv, TypeOK, Place
  <2>3. tail' \in 1 .. NLOG
    BY LogConstants, LogDomain DEF IInv, TypeOK, Copied
  <2>4. hdr' \in Seq(Block) /\ Len(hdr') <= NLOG - 1
    BY LogConstants
  <2> QED
    BY <2>1, <2>2, <2>3, <2>4 DEF IInv, TypeOK, inLog
<1> QED
  BY <1>0, <1>1, <1>2, <1>3, <1>4, <1>5, <1>6, <1>7, <1>8, <1>9, <1>10 DEF IInv

LEMMA CommitDoneKeeps ==
    ASSUME IInv, NEW p \in Proc, CommitDone(p)
    PROVE  IInv'
<1> USE DEF CommitDone, Wakeup, At
<1>0. Reserved'
  <2>1. InOp' = InOp
    BY DEF IInv, TypeOK, InOp, OneCommitter, Committer, Booting, inLog
  <2> QED
    BY <2>1, ReservedSame DEF IInv, TypeOK, InOp, OneCommitter, Committer, inLog
<1>1. NoPanic'
  BY BootInProc, LogDomain, LogConstants DEF IInv, TypeOK, NoPanic, onDisk, inLog
<1>2. Distinct(hdr)'
  BY BootInProc, LogDomain, LogConstants DEF IInv, TypeOK, Distinct, onDisk, inLog
<1>3. Distinct(lh)'
  BY BootInProc, LogDomain, LogConstants DEF IInv, TypeOK, Distinct, Logged, onDisk, inLog
<1>4. Booting'
  BY BootInProc, LogDomain, LogConstants DEF IInv, TypeOK, Booting, Booted, OneCommitter, Committer, onDisk, inLog
<1>5. OneCommitter'
  BY BootInProc, LogDomain, LogConstants DEF IInv, TypeOK, OneCommitter, Committer, Booting, Booted, onDisk, inLog
<1>6. Cached'
  BY BootInProc, LogDomain, LogConstants DEF IInv, TypeOK, Cached, Pinned, Logged, Copied, Booting, Booted, onDisk, inLog
<1>7. Pinned'
  BY BootInProc, LogDomain, LogConstants DEF IInv, TypeOK, Pinned, Logged, Booted, Booting, OneCommitter, Committer, Distinct, Copied, onDisk, inLog
<1>8. Copied'
  BY BootInProc, LogDomain, LogConstants DEF IInv, TypeOK, Copied, Logged, Pinned, Booted, Booting, OneCommitter, Committer, Distinct, Cached, onDisk, inLog
<1>9. Headed'
  BY BootInProc, LogDomain, LogConstants DEF IInv, TypeOK, Headed, Booted, Booting, OneCommitter, Committer, onDisk, inLog
<1>10. TypeOK'
  <2>1. outstanding' \in 0 .. Cardinality(Proc)
    BY <1>0, SubsetOfProc DEF Reserved, InOp
  <2>2. pc' \in [Proc -> Place]
    BY BootInProc DEF IInv, TypeOK, Place
  <2>3. tail' \in 1 .. NLOG
    BY LogConstants, LogDomain DEF IInv, TypeOK, Copied
  <2> QED
    BY <2>1, <2>2, <2>3, LogDomain, LogConstants DEF IInv, TypeOK, onDisk, inLog, Val
<1> QED
  BY <1>0, <1>1, <1>2, <1>3, <1>4, <1>5, <1>6, <1>7, <1>8, <1>9, <1>10 DEF IInv

LEMMA ReadHeadKeeps ==
    ASSUME IInv, NEW p \in Proc, ReadHead(p)
    PROVE  IInv'
<1> USE DEF ReadHead, Goto, Loop, At
<1>0. Reserved'
  <2>1. p = Boot /\ outstanding = 0 /\ InOp = {}
    BY Counts, BootInProc DEF IInv, Booting, Booted
  <2>2. InOp' = {}
    BY <2>1 DEF IInv, TypeOK, InOp
  <2> QED
    BY <2>1, <2>2, ReservedSame DEF IInv, TypeOK
<1>1. NoPanic'
  BY BootInProc, LogDomain, LogConstants DEF IInv, TypeOK, NoPanic, onDisk, inLog
<1>2. Distinct(hdr)'
  BY BootInProc, LogDomain, LogConstants DEF IInv, TypeOK, Distinct, onDisk, inLog
<1>3. Distinct(lh)'
  BY BootInProc, LogDomain, LogConstants DEF IInv, TypeOK, Distinct, Logged, onDisk, inLog
<1>4. Booting'
  BY BootInProc, LogDomain, LogConstants DEF IInv, TypeOK, Booting, Booted, OneCommitter, Committer, onDisk, inLog
<1>5. OneCommitter'
  BY BootInProc, LogDomain, LogConstants DEF IInv, TypeOK, OneCommitter, Committer, Booting, Booted, onDisk, inLog
<1>6. Cached'
  BY BootInProc, LogDomain, LogConstants DEF IInv, TypeOK, Cached, Pinned, Logged, Copied, Booting, Booted, onDisk, inLog
<1>7. Pinned'
  BY BootInProc, LogDomain, LogConstants DEF IInv, TypeOK, Pinned, Logged, Booted, Booting, OneCommitter, Committer, Distinct, Copied, onDisk, inLog
<1>8. Copied'
  BY BootInProc, LogDomain, LogConstants DEF IInv, TypeOK, Copied, Logged, Pinned, Booted, Booting, OneCommitter, Committer, Distinct, Cached, onDisk, inLog
<1>9. Headed'
  BY BootInProc, LogDomain, LogConstants DEF IInv, TypeOK, Headed, Booted, Booting, OneCommitter, Committer, onDisk, inLog
<1>10. TypeOK'
  <2>1. outstanding' \in 0 .. Cardinality(Proc)
    BY <1>0, SubsetOfProc DEF Reserved, InOp
  <2>2. pc' \in [Proc -> Place]
    BY BootInProc DEF IInv, TypeOK, Place
  <2>3. tail' \in 1 .. NLOG
    BY LogConstants, LogDomain DEF IInv, TypeOK, Copied
  <2> QED
    BY <2>1, <2>2, <2>3, LogDomain, LogConstants DEF IInv, TypeOK, onDisk, inLog, Val
<1> QED
  BY <1>0, <1>1, <1>2, <1>3, <1>4, <1>5, <1>6, <1>7, <1>8, <1>9, <1>10 DEF IInv

LEMMA ReadBlockKeeps ==
    ASSUME IInv, NEW b \in Block, ReadBlock(b)
    PROVE  IInv'
<1> USE DEF ReadBlock, At
<1>0. Reserved'
  <2>1. InOp' = InOp
    BY DEF IInv, TypeOK, InOp, OneCommitter, Committer, Booting, inLog
  <2> QED
    BY <2>1, ReservedSame DEF IInv, TypeOK, InOp, OneCommitter, Committer, inLog
<1>1. NoPanic'
  BY BootInProc, LogDomain, LogConstants DEF IInv, TypeOK, NoPanic, onDisk, inLog
<1>2. Distinct(hdr)'
  BY BootInProc, LogDomain, LogConstants DEF IInv, TypeOK, Distinct, onDisk, inLog
<1>3. Distinct(lh)'
  BY BootInProc, LogDomain, LogConstants DEF IInv, TypeOK, Distinct, Logged, onDisk, inLog
<1>4. Booting'
  BY BootInProc, LogDomain, LogConstants DEF IInv, TypeOK, Booting, Booted, OneCommitter, Committer, onDisk, inLog
<1>5. OneCommitter'
  BY BootInProc, LogDomain, LogConstants DEF IInv, TypeOK, OneCommitter, Committer, Booting, Booted, onDisk, inLog
<1>6. Cached'
  BY BootInProc, LogDomain, LogConstants DEF IInv, TypeOK, Cached, Pinned, Logged, Copied, Booting, Booted, onDisk, inLog
<1>7. Pinned'
  BY BootInProc, LogDomain, LogConstants DEF IInv, TypeOK, Pinned, Logged, Booted, Booting, OneCommitter, Committer, Distinct, Copied, onDisk, inLog
<1>8. Copied'
  <2>1. \A r \in Proc : pc[r] \in {"write_log", "install"} =>
          \A i \in 1 .. Len(lh) : (At(r, "install") => i >= tail) => pin[lh[i]] = 1
    BY BootInProc, LogDomain DEF IInv, Pinned, Logged, Booting, Booted, OneCommitter, Committer
  <2>2. pin[b] = 0
    BY DEF IInv, Cached, TypeOK
  <2>3. \A c \in Block : pin[c] = 1 => buf'[c] = buf[c]
    BY <2>2 DEF IInv, TypeOK
  <2> QED
    BY <2>1, <2>3, LogDomain, CopiedSame DEF IInv, onDisk, inLog
<1>9. Headed'
  BY BootInProc, LogDomain, LogConstants DEF IInv, TypeOK, Headed, Booted, Booting, OneCommitter, Committer, onDisk, inLog
<1>10. TypeOK'
  <2>1. outstanding' \in 0 .. Cardinality(Proc)
    BY <1>0, SubsetOfProc DEF Reserved, InOp
  <2>2. pc' \in [Proc -> Place]
    BY BootInProc DEF IInv, TypeOK, Place
  <2>3. tail' \in 1 .. NLOG
    BY LogConstants, LogDomain DEF IInv, TypeOK, Copied
  <2> QED
    BY <2>1, <2>2, <2>3, LogDomain, LogConstants DEF IInv, TypeOK, onDisk, inLog, Val
<1> QED
  BY <1>0, <1>1, <1>2, <1>3, <1>4, <1>5, <1>6, <1>7, <1>8, <1>9, <1>10 DEF IInv

LEMMA RecycleKeeps ==
    ASSUME IInv, NEW b \in Block, Recycle(b)
    PROVE  IInv'
<1> USE DEF Recycle, At
<1>0. Reserved'
  <2>1. InOp' = InOp
    BY DEF IInv, TypeOK, InOp, OneCommitter, Committer, Booting, inLog
  <2> QED
    BY <2>1, ReservedSame DEF IInv, TypeOK, InOp, OneCommitter, Committer, inLog
<1>1. NoPanic'
  BY BootInProc, LogDomain, LogConstants DEF IInv, TypeOK, NoPanic, onDisk, inLog
<1>2. Distinct(hdr)'
  BY BootInProc, LogDomain, LogConstants DEF IInv, TypeOK, Distinct, onDisk, inLog
<1>3. Distinct(lh)'
  BY BootInProc, LogDomain, LogConstants DEF IInv, TypeOK, Distinct, Logged, onDisk, inLog
<1>4. Booting'
  BY BootInProc, LogDomain, LogConstants DEF IInv, TypeOK, Booting, Booted, OneCommitter, Committer, onDisk, inLog
<1>5. OneCommitter'
  BY BootInProc, LogDomain, LogConstants DEF IInv, TypeOK, OneCommitter, Committer, Booting, Booted, onDisk, inLog
<1>6. Cached'
  BY BootInProc, LogDomain, LogConstants DEF IInv, TypeOK, Cached, Pinned, Logged, Copied, Booting, Booted, onDisk, inLog
<1>7. Pinned'
  BY BootInProc, LogDomain, LogConstants DEF IInv, TypeOK, Pinned, Logged, Booted, Booting, OneCommitter, Committer, Distinct, Copied, onDisk, inLog
<1>8. Copied'
  <2>1. \A r \in Proc : pc[r] \in {"write_log", "install"} =>
          \A i \in 1 .. Len(lh) : (At(r, "install") => i >= tail) => pin[lh[i]] = 1
    BY BootInProc, LogDomain DEF IInv, Pinned, Logged, Booting, Booted, OneCommitter, Committer
  <2>2. pin[b] = 0
    BY DEF IInv, Cached, TypeOK
  <2>3. \A c \in Block : pin[c] = 1 => buf'[c] = buf[c]
    BY <2>2 DEF IInv, TypeOK
  <2> QED
    BY <2>1, <2>3, LogDomain, CopiedSame DEF IInv, onDisk, inLog
<1>9. Headed'
  BY BootInProc, LogDomain, LogConstants DEF IInv, TypeOK, Headed, Booted, Booting, OneCommitter, Committer, onDisk, inLog
<1>10. TypeOK'
  <2>1. outstanding' \in 0 .. Cardinality(Proc)
    BY <1>0, SubsetOfProc DEF Reserved, InOp
  <2>2. pc' \in [Proc -> Place]
    BY BootInProc DEF IInv, TypeOK, Place
  <2>3. tail' \in 1 .. NLOG
    BY LogConstants, LogDomain DEF IInv, TypeOK, Copied
  <2> QED
    BY <2>1, <2>2, <2>3, LogDomain, LogConstants DEF IInv, TypeOK, onDisk, inLog, Val
<1> QED
  BY <1>0, <1>1, <1>2, <1>3, <1>4, <1>5, <1>6, <1>7, <1>8, <1>9, <1>10 DEF IInv

LEMMA CrashKeeps ==
    ASSUME IInv, Crash
    PROVE  IInv'
<1> USE DEF Crash, Down, At
<1>0. Reserved'
  <2>1. InOp' = {} /\ outstanding' = 0
    BY DEF InOp
  <2>2. \A p \in Proc : wrote'[p] = {}
    OBVIOUS
  <2> QED
    BY <2>1, <2>2, FS_EmptySet DEF Reserved
<1>1. NoPanic'
  BY BootInProc, LogDomain, LogConstants DEF IInv, TypeOK, NoPanic, onDisk, inLog
<1>2. Distinct(hdr)'
  BY BootInProc, LogDomain, LogConstants DEF IInv, TypeOK, Distinct, onDisk, inLog
<1>3. Distinct(lh)'
  BY BootInProc, LogDomain, LogConstants DEF IInv, TypeOK, Distinct, Logged, onDisk, inLog
<1>4. Booting'
  BY BootInProc, LogDomain, LogConstants DEF IInv, TypeOK, Booting, Booted, OneCommitter, Committer, onDisk, inLog
<1>5. OneCommitter'
  BY BootInProc, LogDomain, LogConstants DEF IInv, TypeOK, OneCommitter, Committer, Booting, Booted, onDisk, inLog
<1>6. Cached'
  BY BootInProc, LogDomain, LogConstants DEF IInv, TypeOK, Cached, Pinned, Logged, Copied, Booting, Booted, onDisk, inLog
<1>7. Pinned'
  BY BootInProc, LogDomain, LogConstants DEF IInv, TypeOK, Pinned, Logged, Booted, Booting, OneCommitter, Committer, Distinct, Copied, onDisk, inLog
<1>8. Copied'
  BY BootInProc, LogDomain, LogConstants DEF IInv, TypeOK, Copied, Logged, Pinned, Booted, Booting, OneCommitter, Committer, Distinct, Cached, onDisk, inLog
<1>9. Headed'
  BY BootInProc, LogDomain, LogConstants DEF IInv, TypeOK, Headed, Booted, Booting, OneCommitter, Committer, onDisk, inLog
<1>10. TypeOK'
  <2>1. outstanding' \in 0 .. Cardinality(Proc)
    BY <1>0, SubsetOfProc DEF Reserved, InOp
  <2>2. pc' \in [Proc -> Place]
    BY BootInProc DEF IInv, TypeOK, Place
  <2>3. tail' \in 1 .. NLOG
    BY LogConstants, LogDomain DEF IInv, TypeOK, Copied
  <2>4. crashes' \in 0 .. MaxCrash /\ id' \in [Proc -> Val]
    BY LogConstants DEF IInv, TypeOK, Val
  <2>5. lh' \in Seq(Block) /\ Len(lh') <= NLOG - 1
    BY LogConstants
  <2> QED
    BY <2>1, <2>2, <2>3, <2>4, <2>5 DEF IInv, TypeOK, onDisk
<1> QED
  BY <1>0, <1>1, <1>2, <1>3, <1>4, <1>5, <1>6, <1>7, <1>8, <1>9, <1>10 DEF IInv

LEMMA SameKeeps ==
    ASSUME IInv, UNCHANGED vars
    PROVE  IInv'
<1>1. InOp' = InOp /\ Reserve' = Reserve
  BY DEF InOp, Reserve, At, vars, inLog
<1>2. Reserved'
  BY <1>1 DEF IInv, Reserved, Logged, vars, inLog
<1> QED
  BY <1>2 DEF IInv, vars, onDisk, inLog, TypeOK, NoPanic, Distinct, Booting, Booted, OneCommitter,
              Cached, Pinned, Copied, Headed, Logged, At

LEMMA InitIInv == Init => IInv
<1> SUFFICES ASSUME Init PROVE IInv
  OBVIOUS
<1> USE DEF Init, At, Down
<1>1. pc[Boot] = "boot" /\ \A p \in Proc \ {Boot} : pc[p] = "down"
  BY BootInProc
<1>2. TypeOK
  <2>1. 0 \in Val /\ 0 \in 0 .. Cardinality(Proc) /\ 0 \in 0 .. MaxCrash /\ 0 \in 0 .. MaxOp
    BY SubsetOfProc, LogConstants DEF Val
  <2>2. 1 \in 1 .. NLOG /\ 0 <= NLOG - 1
    BY LogConstants
  <2>3. pc \in [Proc -> Place]
    BY DEF Place
  <2>4. <<>> \in Seq(Block) /\ Len(<<>>) = 0
    OBVIOUS
  <2> HIDE DEF Down
  <2> QED
    BY <2>1, <2>2, <2>3, <2>4 DEF TypeOK
<1>3. NoPanic /\ Distinct(hdr) /\ Distinct(lh)
  BY DEF NoPanic, Distinct
<1>4. Booting /\ OneCommitter
  BY <1>1, BootInProc DEF Booting, OneCommitter, Booted, Committer
<1>5. Cached /\ Pinned /\ Copied /\ Headed
  BY <1>1, BootInProc DEF Cached, Pinned, Copied, Headed, Booted
<1>6. Reserved
  <2>1. InOp = {}
    BY <1>1 DEF InOp
  <2> QED
    BY <1>1, <2>1, FS_EmptySet DEF Reserved
<1> QED
  BY <1>2, <1>3, <1>4, <1>5, <1>6 DEF IInv

LEMMA NextIInv == IInv /\ [Next]_vars => IInv'
<1> SUFFICES ASSUME IInv, [Next]_vars PROVE IInv'
  OBVIOUS
<1>1. ASSUME NEW p \in Proc, LogStep(p) PROVE IInv'
  BY <1>1, BeginOpKeeps, EndOpKeeps, CommitKeeps, WriteLogKeeps, WriteHeadKeeps, InstallKeeps,
     EraseHeadKeeps, CommitDoneKeeps, ReadHeadKeeps DEF LogStep
<1> QED
  BY <1>1, CallKeeps, LogWriteKeeps, ReadBlockKeeps, RecycleKeeps, CrashKeeps, SameKeeps DEF Next

\* The inductive invariant holds in every reachable state.
THEOREM LogInvariant == Spec => []IInv
BY InitIInv, NextIInv, PTL DEF Spec

\* Every variable keeps its type: log.lh never outgrows the log area, and no
\* buffer is pinned twice.
THEOREM LogTypeOK == Spec => []TypeOK
<1>1. IInv => TypeOK
  BY DEF IInv
<1> QED
  BY <1>1, LogInvariant, PTL

\* log.c: whatever calls overlap, begin_op() admits none that the log has no
\* room for, nobody logs outside a call, and no call ends during a commit.
THEOREM LogNeverPanics == Spec => []NoPanic
<1>1. IInv => NoPanic
  BY DEF IInv
<1> QED
  BY <1>1, LogInvariant, PTL

\* end_op(): when the last call has ended and its commit is over, the disk has
\* every write at its home, the header is clear, and no buffer is pinned.
THEOREM LogDurable == Spec => []Durable
<1>1. IInv => Durable
  <2> SUFFICES ASSUME IInv, Booted, outstanding = 0, ~ committing PROVE
               /\ \A b \in Block : disk[b] = Bread(b) /\ pin[b] = 0
               /\ lh = <<>> /\ hdr = <<>>
    BY DEF Durable
  <2>1. \A p \in Proc : pc[p] \notin Committer
    BY DEF IInv, OneCommitter
  <2>2. lh = <<>> /\ hdr = <<>>
    BY <2>1 DEF IInv, Headed, Committer, At
  <2>3. \A b \in Block : ~ Logged(b)
    BY <2>2 DEF Logged
  <2>4. \A b \in Block : pin[b] = 0
    BY <2>1, <2>3 DEF IInv, Pinned, Committer, At, TypeOK
  <2> QED
    BY <2>2, <2>4 DEF IInv, Cached, Bread
<1> QED
  BY <1>1, LogInvariant, PTL

-----------------------------------------------------------------------------
(* The log implements AtomicDisk.                                          *)

Current == [b \in Block |-> IF Booted THEN Bread(b) ELSE Recovered[b]]

\* What the header names is in the log area, the rest at home.
LEMMA RecoveredIs ==
    ASSUME IInv, NEW b \in Block
    PROVE  /\ \A i \in 1 .. Len(hdr) : hdr[i] = b => Recovered[b] = logdisk[i]
           /\ (\A i \in 1 .. Len(hdr) : hdr[i] # b) => Recovered[b] = disk[b]
BY LogDomain DEF IInv, Distinct, Recovered

LEMMA RecoveredIsNext ==
    ASSUME IInv', NEW b \in Block
    PROVE  /\ \A i \in 1 .. Len(hdr') : hdr'[i] = b => Recovered'[b] = logdisk'[i]
           /\ (\A i \in 1 .. Len(hdr') : hdr'[i] # b) => Recovered'[b] = disk'[b]
<1>1. DOMAIN hdr' = 1 .. Len(hdr')
  BY DEF IInv, TypeOK
<1> QED
  BY <1>1 DEF IInv, Distinct, Recovered

\* Two contents are equal when every block is.
LEMMA SameContent ==
    /\ (\A b \in Block : Recovered'[b] = Recovered[b]) => Recovered' = Recovered
    /\ (\A b \in Block : Current'[b] = Current[b]) => Current' = Current
    /\ (\A b \in Block : Recovered'[b] = Current[b]) => Recovered' = Current
    /\ (\A b \in Block : Current'[b] = Recovered[b]) => Current' = Recovered
BY DEF Recovered, Current

\* Steps that write neither the disk nor what a read returns are invisible.
LEMMA ReadsSame ==
    ASSUME UNCHANGED onDisk, Booted' = Booted, \A b \in Block : Bread(b)' = Bread(b)
    PROVE  Recovered' = Recovered /\ Current' = Current
BY DEF Recovered, Current, onDisk

LEMMA WriteLogMaps ==
    ASSUME IInv, IInv', NEW p \in Proc, WriteLog(p)
    PROVE  Recovered' = Recovered /\ Current' = Current
<1>1. /\ \A r \in Proc : pc'[r] = pc[r] /\ ~ At(r, "install")
      /\ UNCHANGED <<disk, hdr>> /\ buf' = [buf EXCEPT ![lh[tail]] = Bread(lh[tail])]
  BY DEF WriteLog, Loop, Goto, At, IInv, TypeOK, OneCommitter, Committer
<1>2. Booted /\ Booted'
  BY <1>1, BootInProc DEF IInv, Booting, Booted, WriteLog, At
<1>3. hdr = <<>> /\ hdr' = <<>>
  BY <1>1, <1>2 DEF IInv, Headed
<1>4. \A b \in Block : Bread(b)' = Bread(b)
  BY <1>1 DEF Bread, IInv, TypeOK
<1>5. \A b \in Block : Recovered'[b] = Recovered[b]
  BY <1>1, <1>3, RecoveredIs, RecoveredIsNext
<1>6. \A b \in Block : Current'[b] = Current[b]
  BY <1>2, <1>4 DEF Current
<1> QED
  BY <1>5, <1>6, SameContent

\* The commit point: what the processes read becomes what a crash leaves.
LEMMA WriteHeadMaps ==
    ASSUME IInv, IInv', NEW p \in Proc, WriteHead(p)
    PROVE  Recovered' = Current /\ Current' = Current /\ outstanding = 0
<1>1. /\ At(p, "write_log") /\ tail > Len(lh) /\ hdr' = lh /\ outstanding = 0
      /\ UNCHANGED <<disk, logdisk, lh, buf>>
      /\ \A r \in Proc : ~ At(r, "install")
      /\ \A r \in Proc : pc'[r] = pc[r] \/ (r = p /\ pc'[r] = "install")
  BY DEF WriteHead, Loop, Goto, At, IInv, TypeOK, OneCommitter, Committer, inLog
<1>2. Booted /\ Booted'
  BY <1>1, BootInProc DEF IInv, Booting, Booted, At
<1>3. ASSUME NEW b \in Block PROVE Recovered'[b] = Current[b]
  <2>1. pin[b] = 1 <=> Logged(b)
    BY <1>1, <1>2 DEF IInv, Pinned
  <2>2. CASE Logged(b)
    <3>1. PICK i \in 1 .. Len(lh) : lh[i] = b
      BY <2>2, LogDomain DEF IInv, Logged
    <3>2. logdisk[i] = buf[b] /\ buf[b] # NoBuf
      <4>1. i < tail
        BY <1>1, LogDomain, LogConstants DEF IInv, TypeOK
      <4>2. logdisk[i] = buf[b]
        BY <1>1, <3>1, <4>1 DEF IInv, Copied
      <4> QED
        BY <2>1, <2>2, <4>2 DEF IInv, Cached
    <3> QED
      BY <1>1, <1>2, <3>1, <3>2, RecoveredIsNext DEF Current, Bread
  <2>3. CASE ~ Logged(b)
    <3>1. \A i \in 1 .. Len(hdr') : hdr'[i] # b
      BY <1>1, <2>3, LogDomain DEF IInv, Logged
    <3>2. pin[b] = 0
      BY <2>1, <2>3 DEF IInv, TypeOK
    <3> QED
      BY <1>1, <1>2, <3>1, <3>2, RecoveredIsNext DEF Current, Bread, IInv, Cached
  <2> QED
    BY <2>2, <2>3
<1>4. \A b \in Block : Current'[b] = Current[b]
  BY <1>1, <1>2 DEF Current, Bread
<1> QED
  BY <1>1, <1>3, <1>4, SameContent

\* Installing a block changes the disk, but not what a crash leaves on it.
LEMMA InstallMaps ==
    ASSUME IInv, IInv', NEW p \in Proc, Install(p)
    PROVE  Recovered' = Recovered /\ Current' = Current
<1>1. /\ pc[p] \in {"install", "recover"} /\ tail \in 1 .. Len(lh)
      /\ disk' = [disk EXCEPT ![lh[tail]] = logdisk[tail]]
      /\ buf' = [buf EXCEPT ![lh[tail]] = logdisk[tail]]
      /\ UNCHANGED <<logdisk, hdr, lh>> /\ \A r \in Proc : pc'[r] = pc[r]
  BY LogConstants, LogDomain DEF Install, Loop, Goto, At, IInv, TypeOK
<1>2. hdr = lh
  BY <1>1, BootInProc DEF IInv, Headed, Booting, Booted, At
<1>3. lh[tail] \in Block /\ \A b \in Block \ {lh[tail]} : disk'[b] = disk[b] /\ buf'[b] = buf[b]
  BY <1>1, LogDomain DEF IInv, TypeOK
<1>4. ASSUME NEW b \in Block PROVE Recovered'[b] = Recovered[b]
  <2>1. CASE b = lh[tail]
    BY <1>1, <1>2, <2>1, RecoveredIs, RecoveredIsNext
  <2>2. CASE b # lh[tail]
    <3>1. CASE \E i \in 1 .. Len(hdr) : hdr[i] = b
      BY <1>1, <3>1, RecoveredIs, RecoveredIsNext
    <3>2. CASE \A i \in 1 .. Len(hdr) : hdr[i] # b
      BY <1>1, <1>3, <2>2, <3>2, RecoveredIs, RecoveredIsNext
    <3> QED
      BY <3>1, <3>2
  <2> QED
    BY <2>1, <2>2
<1>5. Booted' = Booted
  BY <1>1, BootInProc DEF Booted
<1>6. Booted => \A b \in Block : Bread(b)' = Bread(b)
  <2> SUFFICES ASSUME Booted PROVE \A b \in Block : Bread(b)' = Bread(b)
    OBVIOUS
  <2>1. At(p, "install")
    BY <1>1 DEF IInv, Booting, At
  <2>2. pin[lh[tail]] = 1 /\ logdisk[tail] = buf[lh[tail]]
    BY <1>1, <2>1, LogConstants DEF IInv, Pinned, Copied, TypeOK
  <2>3. buf[lh[tail]] # NoBuf
    BY <1>3, <2>2 DEF IInv, Cached
  <2>4. buf'[lh[tail]] = buf[lh[tail]]
    BY <1>1, <1>3, <2>2 DEF IInv, TypeOK
  <2> QED
    BY <1>3, <2>3, <2>4 DEF Bread
<1>7. \A b \in Block : Current'[b] = Current[b]
  BY <1>4, <1>5, <1>6 DEF Current
<1> QED
  BY <1>4, <1>7, SameContent

\* When the header is cleared, everything it named is at home.
LEMMA EraseHeadMaps ==
    ASSUME IInv, IInv', NEW p \in Proc, EraseHead(p)
    PROVE  Recovered' = Recovered /\ Current' = Current
<1>1. /\ pc[p] \in {"install", "recover"} /\ tail > Len(lh) /\ hdr' = <<>>
      /\ UNCHANGED <<disk, logdisk, buf, pin>>
  BY DEF EraseHead, At
<1>2. hdr = lh
  BY <1>1, BootInProc DEF IInv, Headed, Booting, Booted, At
<1>3. \A i \in 1 .. Len(lh) : disk[lh[i]] = logdisk[i]
  BY SMTT(30), <1>1, LogDomain, LogConstants DEF IInv, Copied, TypeOK
<1>4. \A b \in Block : Recovered'[b] = disk[b]
  BY <1>1, RecoveredIsNext
<1>5. \A b \in Block : Recovered[b] = disk[b]
  BY <1>2, <1>3, RecoveredIs
<1>6. Booted'
  BY <1>1, BootInProc DEF EraseHead, Goto, At, IInv, Booting, Booted, TypeOK
<1>7. \A b \in Block : Bread(b)' = Bread(b)
  BY <1>1 DEF Bread
<1>8. ASSUME ~ Booted, NEW b \in Block PROVE Bread(b) = disk[b]
  <2>1. pin[b] = 0
    BY <1>8 DEF IInv, Booting, Booted
  <2> QED
    BY <2>1 DEF IInv, Cached, Bread
<1>9. \A b \in Block : Current'[b] = Current[b]
  BY <1>5, <1>6, <1>7, <1>8 DEF Current
<1> QED
  BY <1>4, <1>5, <1>9, SameContent

LEMMA LogWriteMaps ==
    ASSUME IInv, IInv', NEW p \in Proc, NEW b \in Block, LogWrite(p, b)
    PROVE  Recovered' = Recovered /\ Atomic!Write(b, id[p])
<1>1. outstanding > 0 /\ At(p, "op")
  <2>1. outstanding >= 1 /\ outstanding \in Nat
    BY LogWriteReserved, Counts DEF IInv
  <2>2. outstanding > 0
    BY <2>1
  <2>3. At(p, "op")
    BY DEF LogWrite
  <2> QED
    BY <2>2, <2>3
<1>2. UNCHANGED <<onDisk, pc, outstanding>> /\ buf' = [buf EXCEPT ![b] = id[p]]
  <2>1. panicked' = "no"
    BY DEF IInv, NoPanic
  <2> QED
    BY <2>1 DEF LogWrite, Panic
<1>3. Booted /\ Booted'
  BY <1>1, <1>2, BootInProc DEF IInv, Booting, Booted, At
<1>4. Recovered' = Recovered
  BY <1>2 DEF Recovered, onDisk
<1>5. id[p] # NoBuf
  BY LogConstants DEF IInv, TypeOK, Val
<1>6. \A c \in Block : Bread(c)' = IF c = b THEN id[p] ELSE Bread(c)
  BY <1>2, <1>5 DEF Bread, IInv, TypeOK, onDisk
<1>7. Current' = [Current EXCEPT ![b] = id[p]]
  BY <1>3, <1>6 DEF Current
<1> QED
  BY <1>1, <1>2, <1>4, <1>7 DEF Atomic!Write, Current

LEMMA InitMaps == Init => Atomic!Init
<1> SUFFICES ASSUME Init PROVE Atomic!Init
  OBVIOUS
<1>1. \A b \in Block : Recovered[b] = 0
  BY DEF Init, Recovered
<1>2. ~ Booted
  BY BootInProc DEF Init, Down, Booted
<1>3. Recovered \in [Block -> Val]
  BY <1>1, LogConstants DEF Recovered, Val
<1>4. Current = Recovered
  BY <1>2 DEF Current, Recovered
<1> QED
  BY <1>3, <1>4 DEF Init, Atomic!Init, Current

LEMMA NextMaps == IInv /\ IInv' /\ [Next]_vars => [Atomic!Next]_Atomic!vars
<1> SUFFICES ASSUME IInv, IInv', [Next]_vars PROVE [Atomic!Next]_Atomic!vars
  OBVIOUS
<1> DEFINE Same == Recovered' = Recovered /\ Current' = Current
<1>1. ASSUME Same, UNCHANGED outstanding PROVE UNCHANGED Atomic!vars
  BY <1>1 DEF Atomic!vars, Current
<1>2. ASSUME UNCHANGED <<onDisk, buf>>, Booted' = Booted PROVE Same
  BY <1>2, ReadsSame DEF Bread, onDisk
<1>3. ASSUME NEW p \in Proc, Call(p) PROVE UNCHANGED Atomic!vars
  <2>1. Booted' = Booted
    BY <1>3, BootInProc DEF Call, At, Goto, IInv, TypeOK, Booted
  <2> QED
    BY <1>1, <1>2, <1>3, <2>1 DEF Call, inLog
<1>4. ASSUME NEW p \in Proc, BeginOp(p) PROVE [Atomic!Begin]_Atomic!vars
  <2>1. Booted' = Booted
    BY <1>4, BootInProc DEF BeginOp, At, Goto, IInv, TypeOK, Booted
  <2>2. Same
    BY <1>2, <1>4, <2>1 DEF BeginOp
  <2>3. outstanding' = outstanding \/ outstanding' = outstanding + 1
    BY <1>4 DEF BeginOp
  <2> QED
    BY <1>1, <2>2, <2>3 DEF Atomic!Begin, Current
<1>5. ASSUME NEW p \in Proc, EndOp(p) PROVE Atomic!End
  <2>1. ~ committing /\ outstanding > 0
    BY <1>5, EndOpReserved
  <2>2. Booted' = Booted
    BY <1>5, <2>1, BootInProc DEF EndOp, At, Goto, Wakeup, IInv, TypeOK, Booted
  <2>3. outstanding' = outstanding - 1 /\ UNCHANGED <<onDisk, buf>>
    BY <1>5, <2>1 DEF EndOp
  <2>4. Same
    BY <1>2, <2>2, <2>3
  <2> QED
    BY <2>1, <2>3, <2>4 DEF Atomic!End, Current
<1>6. ASSUME NEW p \in Proc, Commit(p) \/ CommitDone(p) \/ ReadHead(p)
      PROVE  UNCHANGED Atomic!vars
  <2>1. Booted' = Booted
    BY <1>6, BootInProc DEF Commit, CommitDone, ReadHead, Loop, At, Goto, Wakeup, IInv, TypeOK,
                            Booted, Booting
  <2> QED
    BY <1>1, <1>2, <1>6, <2>1 DEF Commit, CommitDone, ReadHead, inLog
<1>7. ASSUME NEW p \in Proc, WriteLog(p) PROVE UNCHANGED Atomic!vars
  BY <1>1, <1>7, WriteLogMaps DEF WriteLog, inLog
<1>8. ASSUME NEW p \in Proc, WriteHead(p) PROVE Atomic!Commit
  BY <1>8, WriteHeadMaps DEF WriteHead, inLog, Atomic!Commit, Current
<1>9. ASSUME NEW p \in Proc, Install(p) PROVE UNCHANGED Atomic!vars
  BY <1>1, <1>9, InstallMaps DEF Install
<1>10. ASSUME NEW p \in Proc, EraseHead(p) PROVE UNCHANGED Atomic!vars
  BY <1>1, <1>10, EraseHeadMaps DEF EraseHead
<1>11. ASSUME NEW p \in Proc, NEW b \in Block, LogWrite(p, b) PROVE Atomic!Next
  <2>1. id[p] \in Val
    BY DEF IInv, TypeOK
  <2>2. Atomic!Write(b, id[p])
    BY <1>11, LogWriteMaps
  <2> QED
    BY <2>1, <2>2 DEF Atomic!Next, Atomic!Write
<1>12. ASSUME NEW b \in Block, ReadBlock(b) \/ Recycle(b) PROVE UNCHANGED Atomic!vars
  <2>1. \A c \in Block : Bread(c)' = Bread(c)
    BY <1>12 DEF ReadBlock, Recycle, Bread, IInv, TypeOK, Cached, onDisk
  <2>2. Booted' = Booted
    BY <1>12 DEF ReadBlock, Recycle, Booted
  <2> QED
    BY <1>1, <1>12, <2>1, <2>2, ReadsSame DEF ReadBlock, Recycle, inLog
<1>13. ASSUME Crash PROVE Atomic!Crash
  <2>1. Recovered' = Recovered /\ outstanding' = 0
    BY <1>13 DEF Crash, Recovered, onDisk
  <2>2. ~ Booted'
    BY <1>13, BootInProc DEF Crash, Down, Booted
  <2>3. \A b \in Block : Current'[b] = Recovered[b]
    BY <2>1, <2>2 DEF Current
  <2>4. Current' = Recovered
    BY <2>3, SameContent
  <2> QED
    BY <2>1, <2>4 DEF Atomic!Crash, Current
<1>14. CASE UNCHANGED vars
  <2>1. Booted' = Booted
    BY <1>14 DEF vars, Booted
  <2> QED
    BY <1>1, <1>2, <1>14, <2>1 DEF vars, inLog
<1> QED
  BY <1>3, <1>4, <1>5, <1>6, <1>7, <1>8, <1>9, <1>10, <1>11, <1>12, <1>13, <1>14
  DEF Next, LogStep, Atomic!Next

\* log.c, "the true point at which the current transaction commits": for any
\* overlap of calls and any crashes, what the disk holds after recovery moves
\* from one content between calls to the next, never to a part of one.
THEOREM LogIsAtomic == Spec => CrashAtomic
<1>1. Spec => Atomic!Init /\ [][Atomic!Next]_Atomic!vars
  BY InitMaps, NextMaps, LogInvariant, PTL DEF Spec
<1> QED
  BY <1>1, PTL DEF CrashAtomic, Atomic!Spec
=============================================================================
