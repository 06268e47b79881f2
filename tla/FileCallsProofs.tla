--------------------------- MODULE FileCallsProofs ---------------------------
(***************************************************************************)
(* Proofs about FileCalls.  Two inductive invariants, one on the other:    *)
(*                                                                         *)
(* Accounted: the shapes of the calls, and the references as RefsExact     *)
(*   says.  It holds whatever the calls do, at every step and on every     *)
(*   error path.                                                           *)
(* Consistent: the disk is a tree whose link counts are the entries, but   *)
(*   for the links that calls owe; the locks are held by the calls that    *)
(*   are where they are held; the table says what the disk says; and what  *)
(*   a call has found is still so when it uses it, although it holds no    *)
(*   lock meanwhile.  It holds where directories are not removed while     *)
(*   others refer to them (RemoveInUse = FALSE): the run file_removed of   *)
(*   MCFileCalls shows what happens where they are.                        *)
(*                                                                         *)
(* The other invariants of FileCalls follow from these two.                *)
(***************************************************************************)
EXTENDS FileCalls, FiniteSetTheorems, WellFoundedInduction, TLAPS

\* Where a call is inside iput(); where it returns to; and all the places and calls.
Puts   == {"put", "trunc", "drop"}
Rets   == {"end", "walk", "create", "exists", "file", "unlockput_ip", "unlockput_dp", "open", "chdir",
           "link", "link_dir", "link_undo", "put_ip", "unlink", "unlinked"}
Places == Rets \cup {"idle", "dead", "exit", "closing", "ialloc", "iget", "fill", "link_new",
                     "unlink_ip"}
Ops    == {"none", "open", "create", "mkdir", "chdir", "link", "unlink", "idle", "exit", "die"}

\* What the variables hold.
InodeType == [type : {"free", "dir", "file"}, nlink : Int, ents : [Names -> Inum \cup {None}]]
EntryType == [ref : Nat, valid : BOOLEAN, type : {"free", "dir", "file"}, nlink : Int,
              lock : Proc \cup {None}]
FileType  == [ref : Nat, type : {"FD_NONE", "FD_INODE"}, ip : Inum \cup {None}]
CallType  == [pc : (Places \ {"put_ip"}) \cup Puts, op : Ops, path : Seq(Names), new : Path \cup {None},
              at : Inum \cup {None}, ip : Inum \cup {None}, dp : Inum \cup {None},
              inum : Inum \cup {None}, put : Inum \cup {None}, ret : Rets \cup {"none"}]

\* Where a call is, or returns to from iput().
Place(c) == IF c.pc \in Puts THEN c.ret ELSE c.pc

\* The places at which a call has dp, has ip, may have ip, creates an inode, and
\* has a path left.
HasDp  == {"create", "ialloc", "iget", "fill", "link_dir", "unlink", "unlink_ip", "unlockput_dp"}
HasIp  == {"exists", "file", "unlockput_ip", "fill", "open", "chdir", "link", "link_new", "link_dir",
           "link_undo", "unlink_ip", "unlinked", "put_ip"}
MayIp  == {"walk", "unlockput_dp"}
Making == {"create", "exists", "ialloc", "iget", "fill"}
Onward == {"walk", "create", "ialloc", "iget", "fill", "link_dir", "unlink", "unlink_ip"}

\* The local variables of a call, at the place where it is.
Shape(c) ==
    /\ c.pc \in Puts => c.ret \in Rets
    /\ c.put = None <=> c.pc \notin Puts \cup {"closing"}
    /\ c.at = None <=> Place(c) # "walk"
    /\ c.dp = None <=> Place(c) \notin HasDp
    /\ Place(c) \in HasIp => c.ip # None
    /\ Place(c) \notin HasIp \cup MayIp => c.ip = None
    /\ c.inum = None <=> c.pc # "iget"
    /\ Place(c) = "walk" => c.op \in {"open", "create", "mkdir", "chdir", "link", "unlink"}
    /\ Place(c) = "walk" /\ c.ip # None => c.op = "link"
    /\ Place(c) \in Making => c.op \in {"create", "mkdir"}
    /\ Place(c) \in {"open", "chdir"} => c.op = Place(c)
    /\ Place(c) \in {"link", "link_new", "link_dir"} => c.op = "link"
    /\ Place(c) \in {"unlink", "unlink_ip"} => c.op = "unlink"
    /\ Place(c) \in {"idle", "dead", "file", "unlockput_ip", "unlockput_dp", "link_undo", "put_ip", "unlinked"}
          => c.op = "none"
    /\ Place(c) = "closing" => c.op \in {"idle", "exit"}
    /\ Place(c) = "exit" => c.op \in {"none", "exit"}
    /\ Place(c) = "end" => c.op \in {"none", "idle", "exit", "die"}
    /\ c.op = "link" /\ (c.ip = None \/ Place(c) \in {"link", "link_new"}) => c.new \in Path
    /\ Place(c) \in Onward => c.path # <<>>

\* A process that has exited has no directory and no files.
CwdShape(p) ==
    /\ cwd[p] = None <=> call[p].pc = "dead" \/ call[p].op = "die"
    /\ cwd[p] = None => \A d \in Fd : ofile[p][d] = None

\* A closed entry of the file table bears no type: fileclose() drops no inode twice.
FileShape(f) == IF ftable[f].ref = 0 THEN ftable[f].type = "FD_NONE" ELSE ftable[f].ip \in Inum

\* The type invariant.
TypeOK ==
    /\ inode \in [Inum -> InodeType]
    /\ itable \in [Inum -> EntryType]
    /\ ftable \in [File -> FileType]
    /\ ofile \in [Proc -> [Fd -> File \cup {None}]]
    /\ cwd \in [Proc -> Inum \cup {None}]
    /\ call \in [Proc -> CallType]

\* The first inductive invariant: types, shapes of the calls, and exact
\* reference counts.
Accounted ==
    /\ TypeOK
    /\ \A p \in Proc : Shape(call[p]) /\ CwdShape(p)
    /\ \A f \in File : FileShape(f)
    /\ RefsExact

\* Counting of the pointers: in a set, and of one call.
Ind(b)      == IF b THEN 1 ELSE 0
Fields      == {"at", "ip", "dp", "put"}
Pointers(cl, i) == {pl \in Proc \X Fields : cl[pl[1]][pl[2]] = i}
Ptr(c, i)   == Ind(c.at = i) + Ind(c.ip = i) + Ind(c.dp = i) + Ind(c.put = i)

\* The sets that are counted are finite.
LEMMA Finite == /\ IsFiniteSet(Proc) /\ IsFiniteSet(Inum) /\ IsFiniteSet(Name) /\ IsFiniteSet(Fd)
                /\ IsFiniteSet(File) /\ IsFiniteSet(Names) /\ IsFiniteSet(Proc \X Fields)
                /\ IsFiniteSet(Proc \X Fd) /\ IsFiniteSet(Inum \X (Names \ {"."}))
<1>1. IsFiniteSet(Proc) /\ IsFiniteSet(Inum) /\ IsFiniteSet(Name) /\ IsFiniteSet(Fd) /\ IsFiniteSet(File)
  BY FileConstants
<1>2. IsFiniteSet({".", ".."})
  <2>1. {".", ".."} = {"."} \cup {".."}
    OBVIOUS
  <2>2. IsFiniteSet({"."}) /\ IsFiniteSet({".."})
    BY FS_Singleton
  <2> QED BY <2>1, <2>2, FS_Union
<1>3. IsFiniteSet(Names)
  BY <1>1, <1>2, FS_Union DEF Names
<1>4. IsFiniteSet(Fields)
  <2>1. Fields = ({"at"} \cup {"ip"}) \cup ({"dp"} \cup {"put"})
    BY DEF Fields
  <2> QED BY <2>1, FS_Singleton, FS_Union
<1>5. IsFiniteSet(Names \ {"."})
  BY <1>3, FS_Subset
<1> QED BY <1>1, <1>3, <1>4, <1>5, FS_Product

\* Two sets that differ at most in x.
LEMMA CardShift ==
    ASSUME NEW A, NEW B, IsFiniteSet(A), NEW x, A \ {x} = B \ {x}
    PROVE  /\ IsFiniteSet(B) /\ Cardinality(A) \in Nat /\ Cardinality(B) \in Nat
           /\ Cardinality(B) = Cardinality(A) + Ind(x \in B) - Ind(x \in A)
<1> DEFINE R == A \ {x}
<1>1. IsFiniteSet(R)
  BY FS_Subset
<1>2. Cardinality(R) \in Nat
  BY <1>1, FS_CardinalityType
<1>3. x \notin R
  OBVIOUS
<1>4. IsFiniteSet(R \cup {x}) /\ Cardinality(R \cup {x}) = Cardinality(R) + 1
  BY <1>1, <1>3, FS_AddElement
<1>5. A = IF x \in A THEN R \cup {x} ELSE R
  OBVIOUS
<1>6. B = IF x \in B THEN R \cup {x} ELSE R
  OBVIOUS
<1>7. Cardinality(A) = Cardinality(R) + Ind(x \in A)
  BY <1>2, <1>4, <1>5 DEF Ind
<1>9. IsFiniteSet(B)
  BY <1>1, <1>4, <1>6
<1>8. Cardinality(B) = Cardinality(R) + Ind(x \in B)
  <2>1. CASE x \in B
    <3>1. B = R \cup {x} /\ Ind(x \in B) = 1
      BY <2>1, <1>6 DEF Ind
    <3> QED BY ONLY <1>4, <3>1
  <2>2. CASE x \notin B
    <3>1. B = R /\ Ind(x \in B) = 0
      BY <2>2, <1>6 DEF Ind
    <3> QED BY ONLY <1>2, <3>1
  <2> QED BY <2>1, <2>2
<1> HIDE DEF R
<1> QED BY <1>2, <1>7, <1>8, <1>9 DEF Ind

\* The cardinality of a disjoint union.
LEMMA CardDisjoint ==
    ASSUME NEW A, NEW B, IsFiniteSet(A), IsFiniteSet(B), A \cap B = {}
    PROVE  /\ IsFiniteSet(A \cup B) /\ Cardinality(A) \in Nat /\ Cardinality(B) \in Nat
           /\ Cardinality(A \cup B) = Cardinality(A) + Cardinality(B)
<1>1. Cardinality(A) \in Nat /\ Cardinality(B) \in Nat
  BY FS_CardinalityType
<1>2. Cardinality(A \cap B) = 0
  BY FS_EmptySet
<1>3. IsFiniteSet(A \cup B) /\ Cardinality(A \cup B) = Cardinality(A) + Cardinality(B) - Cardinality(A \cap B)
  BY FS_Union
<1> QED BY <1>1, <1>2, <1>3

\* The pointers of one call.
LEMMA CardMine ==
    ASSUME NEW c \in CallType, NEW p, NEW i
    PROVE  LET M == {pl \in {p} \X Fields : c[pl[2]] = i} IN
           IsFiniteSet(M) /\ Cardinality(M) = Ptr(c, i)
<1> DEFINE M == {pl \in {p} \X Fields : c[pl[2]] = i}
           O(b, l) == IF b THEN {<<p, l>>} ELSE {}
           A == O(c.at = i, "at")  B == O(c.ip = i, "ip")  C == O(c.dp = i, "dp")  D == O(c.put = i, "put")
<1>1. /\ IsFiniteSet(A) /\ Cardinality(A) = Ind(c.at = i)
      /\ IsFiniteSet(B) /\ Cardinality(B) = Ind(c.ip = i)
      /\ IsFiniteSet(C) /\ Cardinality(C) = Ind(c.dp = i)
      /\ IsFiniteSet(D) /\ Cardinality(D) = Ind(c.put = i)
  BY FS_EmptySet, FS_Singleton DEF Ind
<1>2. A \cap B = {} /\ C \cap D = {} /\ (A \cup B) \cap (C \cup D) = {}
  OBVIOUS
<1>3. M = (A \cup B) \cup (C \cup D)
  <2>1. ASSUME NEW x PROVE x \in M <=> x \in (A \cup B) \cup (C \cup D)
    BY DEF Fields
  <2> QED BY <2>1
<1> HIDE DEF A, B, C, D
<1>4. IsFiniteSet(A \cup B) /\ Cardinality(A \cup B) = Ind(c.at = i) + Ind(c.ip = i)
  <2>1. A \cap B = {}
    BY <1>2
  <2>2. IsFiniteSet(A \cup B) /\ Cardinality(A \cup B) = Cardinality(A) + Cardinality(B)
    BY <1>1, <2>1, CardDisjoint
  <2> QED BY ONLY <1>1, <2>2
<1>5. IsFiniteSet(C \cup D) /\ Cardinality(C \cup D) = Ind(c.dp = i) + Ind(c.put = i)
  <2>1. C \cap D = {}
    BY <1>2
  <2>2. IsFiniteSet(C \cup D) /\ Cardinality(C \cup D) = Cardinality(C) + Cardinality(D)
    BY <1>1, <2>1, CardDisjoint
  <2> QED BY ONLY <1>1, <2>2
<1> HIDE DEF M
<1>6. IsFiniteSet(M) /\ Cardinality(M) = Cardinality(A \cup B) + Cardinality(C \cup D)
  <2>1. (A \cup B) \cap (C \cup D) = {}
    BY <1>2
  <2>2. /\ IsFiniteSet((A \cup B) \cup (C \cup D))
        /\ Cardinality((A \cup B) \cup (C \cup D)) = Cardinality(A \cup B) + Cardinality(C \cup D)
    BY <1>4, <1>5, <2>1, CardDisjoint
  <2> QED BY ONLY <1>3, <2>2
<1>7. Cardinality(M) = Ptr(c, i)
  BY <1>4, <1>5, <1>6 DEF Ptr, Ind
<1> QED BY <1>6, <1>7 DEF M

\* The pointers of the calls change by those of the call that goes on.
LEMMA PtrChange ==
    ASSUME NEW cl \in [Proc -> CallType], NEW p \in Proc, NEW c \in CallType, NEW i
    PROVE  LET new == [cl EXCEPT ![p] = c] IN
           /\ Cardinality(Pointers(cl, i)) \in Nat /\ Cardinality(Pointers(new, i)) \in Nat
           /\ Cardinality(Pointers(new, i)) = Cardinality(Pointers(cl, i)) + Ptr(c, i) - Ptr(cl[p], i)
<1> DEFINE new == [cl EXCEPT ![p] = c]
           R == {pl \in (Proc \ {p}) \X Fields : cl[pl[1]][pl[2]] = i}
           M == {pl \in {p} \X Fields : cl[p][pl[2]] = i}
           N == {pl \in {p} \X Fields : c[pl[2]] = i}
<1>1. IsFiniteSet(R)
  <2>1. R \subseteq Proc \X Fields
    OBVIOUS
  <2> QED BY <2>1, Finite, FS_Subset
<1>2. IsFiniteSet(M) /\ Cardinality(M) = Ptr(cl[p], i)
  BY CardMine
<1>3. IsFiniteSet(N) /\ Cardinality(N) = Ptr(c, i)
  BY CardMine
<1>4. R \cap M = {} /\ R \cap N = {}
  OBVIOUS
<1>5. Pointers(cl, i) = R \cup M
  BY DEF Pointers
<1>6. Pointers(new, i) = R \cup N
  BY DEF Pointers
<1> HIDE DEF R, M, N, new
<1>7. /\ Cardinality(R) \in Nat /\ Cardinality(M) \in Nat /\ Cardinality(R \cup M) \in Nat
      /\ Cardinality(R \cup M) = Cardinality(R) + Cardinality(M)
  <2>1. IsFiniteSet(R \cup M)
    BY <1>1, <1>2, FS_Union
  <2> QED BY <1>1, <1>2, <1>4, <2>1, CardDisjoint, FS_CardinalityType
<1>8. /\ Cardinality(N) \in Nat /\ Cardinality(R \cup N) \in Nat
      /\ Cardinality(R \cup N) = Cardinality(R) + Cardinality(N)
  <2>1. IsFiniteSet(R \cup N)
    BY <1>1, <1>3, FS_Union
  <2> QED BY <1>1, <1>3, <1>4, <2>1, CardDisjoint, FS_CardinalityType
<1>9. /\ Cardinality(Pointers(cl, i)) \in Nat /\ Cardinality(Pointers(new, i)) \in Nat
      /\ Cardinality(Pointers(new, i)) = Cardinality(Pointers(cl, i)) + Ptr(c, i) - Ptr(cl[p], i)
  BY ONLY <1>2, <1>3, <1>5, <1>6, <1>7, <1>8
<1> QED BY <1>9 DEF new

-----------------------------------------------------------------------------
(* The records that the actions build.                                     *)

\* The fields of a call.
LEMMA CallFields ==
    ASSUME NEW c \in CallType
    PROVE  /\ c.pc \in (Places \ {"put_ip"}) \cup Puts /\ c.op \in Ops /\ c.path \in Seq(Names)
           /\ c.new \in Path \cup {None} /\ c.at \in Inum \cup {None} /\ c.ip \in Inum \cup {None}
           /\ c.dp \in Inum \cup {None} /\ c.inum \in Inum \cup {None} /\ c.put \in Inum \cup {None}
           /\ c.ret \in Rets \cup {"none"}
  BY DEF CallType

\* What a call looks like in iput(), with one inode left, idle, and in its last
\* iput().
LEMMA IputRecord ==
    ASSUME NEW c \in CallType, NEW i \in Inum, NEW r \in Rets
    PROVE  /\ Iput(c, i, r) \in CallType
           /\ Iput(c, i, r).pc = "put" /\ Iput(c, i, r).put = i /\ Iput(c, i, r).ret = r
           /\ Iput(c, i, r).op = c.op /\ Iput(c, i, r).path = c.path /\ Iput(c, i, r).new = c.new
           /\ Iput(c, i, r).at = c.at /\ Iput(c, i, r).ip = c.ip /\ Iput(c, i, r).dp = c.dp
           /\ Iput(c, i, r).inum = c.inum
<1>1. PICK e : e = Iput(c, i, r)
  OBVIOUS
<1>2. /\ e.pc = "put" /\ e.put = i /\ e.ret = r
      /\ e.op = c.op /\ e.path = c.path /\ e.new = c.new
      /\ e.at = c.at /\ e.ip = c.ip /\ e.dp = c.dp /\ e.inum = c.inum
  BY <1>1 DEF Iput, CallType
<1>3. e = [pc |-> e.pc, op |-> e.op, path |-> e.path, new |-> e.new, at |-> e.at, ip |-> e.ip,
           dp |-> e.dp, inum |-> e.inum, put |-> e.put, ret |-> e.ret]
  BY <1>1 DEF Iput, CallType
<1>4. "put" \in (Places \ {"put_ip"}) \cup Puts
  BY DEF Puts
<1>5. e \in CallType
  BY <1>2, <1>3, <1>4, CallFields DEF CallType
<1> QED BY <1>1, <1>2, <1>5

\* A call that needs only i.
LEMMA OnlyRecord ==
    ASSUME NEW i \in Inum \cup {None}
    PROVE  /\ Only(i) \in CallType
           /\ Only(i) = [pc |-> "idle", op |-> "none", path |-> <<>>, new |-> None, at |-> None,
                         ip |-> i, dp |-> None, inum |-> None, put |-> None, ret |-> "none"]
<1>1. Only(i) = [pc |-> "idle", op |-> "none", path |-> <<>>, new |-> None, at |-> None,
                 ip |-> i, dp |-> None, inum |-> None, put |-> None, ret |-> "none"]
  BY DEF Only, Idle
<1>2. "idle" \in (Places \ {"put_ip"}) \cup Puts /\ "none" \in Ops /\ <<>> \in Seq(Names)
  BY DEF Places, Ops
<1>3. Only(i) \in CallType
  BY <1>1, <1>2 DEF CallType
<1> QED BY <1>1, <1>3

\* A process outside of calls, and one that has exited.
LEMMA IdleRecord ==
    /\ Idle \in CallType /\ Dead \in CallType
    /\ Idle = [pc |-> "idle", op |-> "none", path |-> <<>>, new |-> None, at |-> None,
               ip |-> None, dp |-> None, inum |-> None, put |-> None, ret |-> "none"]
    /\ Dead = [pc |-> "dead", op |-> "none", path |-> <<>>, new |-> None, at |-> None,
               ip |-> None, dp |-> None, inum |-> None, put |-> None, ret |-> "none"]
<1>1. /\ Idle = [pc |-> "idle", op |-> "none", path |-> <<>>, new |-> None, at |-> None,
                 ip |-> None, dp |-> None, inum |-> None, put |-> None, ret |-> "none"]
      /\ Dead = [pc |-> "dead", op |-> "none", path |-> <<>>, new |-> None, at |-> None,
                 ip |-> None, dp |-> None, inum |-> None, put |-> None, ret |-> "none"]
  BY DEF Idle, Dead
<1>2. /\ "idle" \in (Places \ {"put_ip"}) \cup Puts /\ "dead" \in (Places \ {"put_ip"}) \cup Puts
      /\ "none" \in Ops /\ <<>> \in Seq(Names)
  BY DEF Places, Ops
<1>3. Idle \in CallType /\ Dead \in CallType
  BY <1>1, <1>2 DEF CallType
<1> QED BY <1>1, <1>3

\* A call in its last iput().
LEMMA LastRecord ==
    ASSUME NEW i \in Inum
    PROVE  /\ Last(i) \in CallType
           /\ Last(i) = [pc |-> "put", op |-> "none", path |-> <<>>, new |-> None, at |-> None,
                         ip |-> None, dp |-> None, inum |-> None, put |-> i, ret |-> "end"]
<1>1. "end" \in Rets
  BY DEF Rets
<1>2. Last(i) \in CallType
  BY <1>1, IdleRecord, IputRecord DEF Last
<1>3. Last(i) = [pc |-> "put", op |-> "none", path |-> <<>>, new |-> None, at |-> None,
                 ip |-> None, dp |-> None, inum |-> None, put |-> i, ret |-> "end"]
  <2>1. PICK e : e = Idle
    OBVIOUS
  <2>2. Last(i) = [e EXCEPT !.pc = "put", !.put = i, !.ret = "end"]
    BY <2>1 DEF Last, Iput
  <2>3. e = [pc |-> "idle", op |-> "none", path |-> <<>>, new |-> None, at |-> None,
             ip |-> None, dp |-> None, inum |-> None, put |-> None, ret |-> "none"]
    BY <2>1, IdleRecord
  <2> QED BY ONLY <2>2, <2>3
<1> QED BY <1>2, <1>3

\* iget() adds a reference, and forgets what an unused entry said.
LEMMA IgetTable ==
    ASSUME NEW tab \in [Inum -> EntryType], NEW i \in Inum
    PROVE  /\ Iget(tab, i) \in [Inum -> EntryType]
           /\ \A k \in Inum : k # i => Iget(tab, i)[k] = tab[k]
           /\ Iget(tab, i)[i].ref = tab[i].ref + 1
           /\ Iget(tab, i)[i].valid = (tab[i].ref > 0 /\ tab[i].valid)
           /\ Iget(tab, i)[i].type = tab[i].type /\ Iget(tab, i)[i].nlink = tab[i].nlink
           /\ Iget(tab, i)[i].lock = tab[i].lock
           /\ \A k \in Inum : Iget(tab, i)[k].ref = tab[k].ref + Ind(k = i)
           /\ \A k \in Inum : Iget(tab, i)[k].lock = tab[k].lock
<1>1. tab[i] \in EntryType
  OBVIOUS
<1>2. Iget(tab, i) = [tab EXCEPT ![i] = [tab[i] EXCEPT !.ref = tab[i].ref + 1,
                                                       !.valid = tab[i].ref > 0 /\ tab[i].valid]]
  BY <1>1 DEF Iget, EntryType
<1>3. PICK e : e = [tab[i] EXCEPT !.ref = tab[i].ref + 1, !.valid = tab[i].ref > 0 /\ tab[i].valid]
  OBVIOUS
<1>10. e.ref = tab[i].ref + 1 /\ e.type = tab[i].type /\ e.nlink = tab[i].nlink /\ e.lock = tab[i].lock
  BY <1>1, <1>3 DEF EntryType
<1>11. e.valid \in BOOLEAN
  BY <1>1, <1>3 DEF EntryType
<1>12. e = [ref |-> e.ref, valid |-> e.valid, type |-> e.type, nlink |-> e.nlink, lock |-> e.lock]
  BY <1>1, <1>3 DEF EntryType
<1>13. tab[i].ref + 1 \in Nat
  BY <1>1 DEF EntryType
<1>4. e \in EntryType /\ e.ref = tab[i].ref + 1 /\ e.type = tab[i].type /\ e.nlink = tab[i].nlink
      /\ e.lock = tab[i].lock
  BY <1>1, <1>10, <1>11, <1>12, <1>13 DEF EntryType
<1>5. e.valid = (tab[i].ref > 0 /\ tab[i].valid)
  BY <1>1, <1>3 DEF EntryType
<1>6. Iget(tab, i) = [tab EXCEPT ![i] = e]
  BY <1>2, <1>3
<1>7. \A k \in Inum : tab[k].ref \in Nat
  BY DEF EntryType
<1>8. \A k \in Inum : Iget(tab, i)[k] = IF k = i THEN e ELSE tab[k]
  BY <1>6
<1>9. \A k \in Inum : Iget(tab, i)[k].ref = tab[k].ref + Ind(k = i)
  BY <1>4, <1>7, <1>8 DEF Ind
<1> QED BY <1>4, <1>5, <1>6, <1>8, <1>9

\* ilock() reads the inode unless the entry is valid.
LEMMA LoadedEntry ==
    ASSUME TypeOK, NEW i \in Inum
    PROVE  /\ Loaded(i) \in EntryType /\ Loaded(i).ref = itable[i].ref /\ Loaded(i).valid
           /\ Loaded(i).lock = itable[i].lock
           /\ itable[i].valid => Loaded(i) = itable[i]
           /\ ~ itable[i].valid => Loaded(i).type = inode[i].type /\ Loaded(i).nlink = inode[i].nlink
  BY DEF TypeOK, Loaded, EntryType, InodeType

\* The table after ilock() and iunlock().
LEMMA SeenTable ==
    ASSUME TypeOK, NEW i \in Inum
    PROVE  /\ Seen(i) \in [Inum -> EntryType]
           /\ Seen(i)[i] = Loaded(i) /\ \A k \in Inum : k # i => Seen(i)[k] = itable[k]
           /\ \A k \in Inum : Seen(i)[k].ref = itable[k].ref /\ Seen(i)[k].lock = itable[k].lock
<1>1. Loaded(i) \in EntryType /\ Loaded(i).ref = itable[i].ref /\ Loaded(i).lock = itable[i].lock
  BY LoadedEntry
<1> QED BY <1>1 DEF Seen, TypeOK

\* The table after ilock().
LEMMA LockedTable ==
    ASSUME TypeOK, NEW p \in Proc, NEW i \in Inum
    PROVE  /\ Locked(p, i) \in [Inum -> EntryType]
           /\ Locked(p, i)[i] \in EntryType
           /\ Locked(p, i)[i].ref = itable[i].ref /\ Locked(p, i)[i].valid /\ Locked(p, i)[i].lock = p
           /\ Locked(p, i)[i].type = Loaded(i).type /\ Locked(p, i)[i].nlink = Loaded(i).nlink
           /\ \A k \in Inum : k # i => Locked(p, i)[k] = itable[k]
           /\ \A k \in Inum : Locked(p, i)[k].ref = itable[k].ref
<1>1. Loaded(i) \in EntryType /\ Loaded(i).ref = itable[i].ref /\ Loaded(i).valid
  BY LoadedEntry
<1>2. PICK e : e = [Loaded(i) EXCEPT !.lock = p]
  OBVIOUS
<1>3. e \in EntryType /\ e.ref = itable[i].ref /\ e.valid /\ e.lock = p /\ e.type = Loaded(i).type
      /\ e.nlink = Loaded(i).nlink
  BY <1>1, <1>2 DEF EntryType
<1>4. Locked(p, i) = [itable EXCEPT ![i] = e]
  BY <1>2 DEF Locked
<1> QED BY <1>2, <1>3, <1>4 DEF TypeOK

\* The table when k links are added.
LEMMA UpTable ==
    ASSUME NEW tab \in [Inum -> EntryType], NEW i \in Inum, NEW k \in Int
    PROVE  /\ Up(tab, i, k) \in [Inum -> EntryType]
           /\ Up(tab, i, k)[i].nlink = tab[i].nlink + k
           /\ Up(tab, i, k)[i].ref = tab[i].ref /\ Up(tab, i, k)[i].valid = tab[i].valid
           /\ Up(tab, i, k)[i].type = tab[i].type /\ Up(tab, i, k)[i].lock = tab[i].lock
           /\ \A j \in Inum : j # i => Up(tab, i, k)[j] = tab[j]
           /\ \A j \in Inum : Up(tab, i, k)[j].ref = tab[j].ref /\ Up(tab, i, k)[j].lock = tab[j].lock
<1>1. tab[i] \in EntryType
  OBVIOUS
<1>2. PICK e : e = [tab[i] EXCEPT !.nlink = tab[i].nlink + k]
  OBVIOUS
<1>3. e \in EntryType /\ e.ref = tab[i].ref /\ e.valid = tab[i].valid /\ e.lock = tab[i].lock
      /\ e.type = tab[i].type /\ e.nlink = tab[i].nlink + k
  BY <1>1, <1>2 DEF EntryType
<1>4. Up(tab, i, k) = [tab EXCEPT ![i] = e]
  BY <1>1, <1>2 DEF Up, EntryType
<1> QED BY <1>2, <1>3, <1>4

\* The table when a link is taken.
LEMMA DownTable ==
    ASSUME NEW tab \in [Inum -> EntryType], NEW i \in Inum
    PROVE  /\ Down(tab, i) \in [Inum -> EntryType]
           /\ Down(tab, i)[i].nlink = tab[i].nlink - 1
           /\ Down(tab, i)[i].ref = tab[i].ref /\ Down(tab, i)[i].valid = tab[i].valid
           /\ Down(tab, i)[i].type = tab[i].type /\ Down(tab, i)[i].lock = tab[i].lock
           /\ \A j \in Inum : j # i => Down(tab, i)[j] = tab[j]
           /\ \A j \in Inum : Down(tab, i)[j].ref = tab[j].ref /\ Down(tab, i)[j].lock = tab[j].lock
<1>1. tab[i] \in EntryType
  OBVIOUS
<1>2. PICK e : e = [tab[i] EXCEPT !.nlink = tab[i].nlink - 1]
  OBVIOUS
<1>3. e \in EntryType /\ e.ref = tab[i].ref /\ e.valid = tab[i].valid /\ e.lock = tab[i].lock
      /\ e.type = tab[i].type /\ e.nlink = tab[i].nlink - 1
  BY <1>1, <1>2 DEF EntryType
<1>4. Down(tab, i) = [tab EXCEPT ![i] = e]
  BY <1>1, <1>2 DEF Down, EntryType
<1> QED BY <1>2, <1>3, <1>4

\* The lock of an entry is taken or given back.
Owner == Proc \cup {None}

\* The table when a lock is taken or given back.
SetLock(tab, i, o) == [tab EXCEPT ![i].lock = o]

\* A lock is all that changes.
LEMMA LockTable ==
    ASSUME NEW tab \in [Inum -> EntryType], NEW i \in Inum, NEW o \in Owner
    PROVE  /\ SetLock(tab, i, o) \in [Inum -> EntryType]
           /\ SetLock(tab, i, o)[i].ref = tab[i].ref /\ SetLock(tab, i, o)[i].valid = tab[i].valid
           /\ SetLock(tab, i, o)[i].type = tab[i].type /\ SetLock(tab, i, o)[i].nlink = tab[i].nlink
           /\ SetLock(tab, i, o)[i].lock = o
           /\ \A j \in Inum : j # i => SetLock(tab, i, o)[j] = tab[j]
           /\ \A j \in Inum : SetLock(tab, i, o)[j].ref = tab[j].ref
<1>1. tab[i] \in EntryType
  OBVIOUS
<1>2. PICK e : e = [tab[i] EXCEPT !.lock = o]
  OBVIOUS
<1>3. e \in EntryType /\ e.ref = tab[i].ref /\ e.valid = tab[i].valid /\ e.lock = o
      /\ e.type = tab[i].type /\ e.nlink = tab[i].nlink
  BY <1>1, <1>2 DEF EntryType, Owner
<1>4. SetLock(tab, i, o) = [tab EXCEPT ![i] = e]
  BY <1>1, <1>2 DEF SetLock
<1> QED BY <1>2, <1>3, <1>4

\* The same of the inodes on the disk.
LEMMA UpInode ==
    ASSUME NEW fs \in [Inum -> InodeType], NEW i \in Inum, NEW k \in Int
    PROVE  /\ Up(fs, i, k) \in [Inum -> InodeType]
           /\ Up(fs, i, k)[i].nlink = fs[i].nlink + k
           /\ Up(fs, i, k)[i].type = fs[i].type /\ Up(fs, i, k)[i].ents = fs[i].ents
           /\ \A j \in Inum : j # i => Up(fs, i, k)[j] = fs[j]
<1>1. fs[i] \in InodeType
  OBVIOUS
<1>2. PICK e : e = [fs[i] EXCEPT !.nlink = fs[i].nlink + k]
  OBVIOUS
<1>3. e \in InodeType /\ e.nlink = fs[i].nlink + k /\ e.type = fs[i].type /\ e.ents = fs[i].ents
  BY <1>1, <1>2 DEF InodeType
<1>4. Up(fs, i, k) = [fs EXCEPT ![i] = e]
  BY <1>1, <1>2 DEF Up, InodeType
<1> QED BY <1>3, <1>4

\* The disk, or the table, when k links are taken.
SubLinks(tab, i, k) == [tab EXCEPT ![i].nlink = @ - k]

\* Links taken on the disk.
LEMMA SubInode ==
    ASSUME NEW fs \in [Inum -> InodeType], NEW i \in Inum, NEW k \in Int
    PROVE  /\ SubLinks(fs, i, k) \in [Inum -> InodeType]
           /\ SubLinks(fs, i, k)[i].nlink = fs[i].nlink - k
           /\ SubLinks(fs, i, k)[i].type = fs[i].type /\ SubLinks(fs, i, k)[i].ents = fs[i].ents
           /\ \A j \in Inum : j # i => SubLinks(fs, i, k)[j] = fs[j]
<1>1. fs[i] \in InodeType
  OBVIOUS
<1>2. PICK e : e = [fs[i] EXCEPT !.nlink = fs[i].nlink - k]
  OBVIOUS
<1>3. e \in InodeType /\ e.nlink = fs[i].nlink - k /\ e.type = fs[i].type /\ e.ents = fs[i].ents
  BY <1>1, <1>2 DEF InodeType
<1>4. SubLinks(fs, i, k) = [fs EXCEPT ![i] = e]
  BY <1>1, <1>2 DEF SubLinks, InodeType
<1> QED BY <1>3, <1>4

\* Links taken in the table.
LEMMA SubTable ==
    ASSUME NEW tab \in [Inum -> EntryType], NEW i \in Inum, NEW k \in Int
    PROVE  /\ SubLinks(tab, i, k) \in [Inum -> EntryType]
           /\ SubLinks(tab, i, k)[i].nlink = tab[i].nlink - k
           /\ SubLinks(tab, i, k)[i].ref = tab[i].ref /\ SubLinks(tab, i, k)[i].valid = tab[i].valid
           /\ SubLinks(tab, i, k)[i].type = tab[i].type /\ SubLinks(tab, i, k)[i].lock = tab[i].lock
           /\ \A j \in Inum : j # i => SubLinks(tab, i, k)[j] = tab[j]
           /\ \A j \in Inum : SubLinks(tab, i, k)[j].ref = tab[j].ref
                              /\ SubLinks(tab, i, k)[j].lock = tab[j].lock
<1>1. tab[i] \in EntryType
  OBVIOUS
<1>2. PICK e : e = [tab[i] EXCEPT !.nlink = tab[i].nlink - k]
  OBVIOUS
<1>3. e \in EntryType /\ e.ref = tab[i].ref /\ e.valid = tab[i].valid /\ e.lock = tab[i].lock
      /\ e.type = tab[i].type /\ e.nlink = tab[i].nlink - k
  BY <1>1, <1>2 DEF EntryType
<1>4. SubLinks(tab, i, k) = [tab EXCEPT ![i] = e]
  BY <1>1, <1>2 DEF SubLinks, EntryType
<1> QED BY <1>3, <1>4

\* One link taken.
LEMMA DownIs == ASSUME NEW tab, NEW i PROVE Down(tab, i) = SubLinks(tab, i, 1)
  BY DEF Down, SubLinks

\* An inode with k links.
SetLinks(fs, i, k) == [fs EXCEPT ![i].nlink = k]

\* Only its links change.
LEMMA SetLinksInode ==
    ASSUME NEW fs \in [Inum -> InodeType], NEW i \in Inum, NEW k \in Int
    PROVE  /\ SetLinks(fs, i, k) \in [Inum -> InodeType]
           /\ SetLinks(fs, i, k)[i].nlink = k
           /\ SetLinks(fs, i, k)[i].type = fs[i].type /\ SetLinks(fs, i, k)[i].ents = fs[i].ents
           /\ \A j \in Inum : j # i => SetLinks(fs, i, k)[j] = fs[j]
<1>1. fs[i] \in InodeType
  OBVIOUS
<1>2. PICK e : e = [fs[i] EXCEPT !.nlink = k]
  OBVIOUS
<1>3. e \in InodeType /\ e.nlink = k /\ e.type = fs[i].type /\ e.ents = fs[i].ents
  BY <1>1, <1>2 DEF InodeType
<1>4. SetLinks(fs, i, k) = [fs EXCEPT ![i] = e]
  BY <1>1, <1>2 DEF SetLinks, InodeType
<1> QED BY <1>3, <1>4

\* A directory with j under the name n.
SetEnt(fs, d, n, j) == [fs EXCEPT ![d].ents[n] = j]

\* Only that entry changes.
LEMMA SetEntInode ==
    ASSUME NEW fs \in [Inum -> InodeType], NEW d \in Inum, NEW n \in Names, NEW j, j \in Inum \cup {None}
    PROVE  /\ SetEnt(fs, d, n, j) \in [Inum -> InodeType]
           /\ SetEnt(fs, d, n, j)[d].nlink = fs[d].nlink /\ SetEnt(fs, d, n, j)[d].type = fs[d].type
           /\ SetEnt(fs, d, n, j)[d].ents[n] = j
           /\ \A m \in Names : m # n => SetEnt(fs, d, n, j)[d].ents[m] = fs[d].ents[m]
           /\ \A i \in Inum : i # d => SetEnt(fs, d, n, j)[i] = fs[i]
<1>1. fs[d] \in InodeType
  OBVIOUS
<1>5. PICK t : t = [fs[d].ents EXCEPT ![n] = j]
  OBVIOUS
<1>6. t \in [Names -> Inum \cup {None}] /\ t[n] = j /\ \A m \in Names : m # n => t[m] = fs[d].ents[m]
  BY <1>1, <1>5 DEF InodeType
<1>2. PICK e : e = [fs[d] EXCEPT !.ents = t]
  OBVIOUS
<1>3. e \in InodeType /\ e.nlink = fs[d].nlink /\ e.type = fs[d].type /\ e.ents = t
  BY <1>1, <1>2, <1>6 DEF InodeType
<1>4. SetEnt(fs, d, n, j) = [fs EXCEPT ![d] = e]
  BY <1>1, <1>2, <1>5 DEF SetEnt, InodeType
<1> QED BY <1>3, <1>4, <1>6

\* The entries of a new inode.
NewEnts(op, i, d) == IF op = "mkdir" THEN [NoEnts EXCEPT !["."] = i, ![".."] = d] ELSE NoEnts

\* A new directory has "." and "..", a new file nothing.
LEMMA NewEntsType ==
    ASSUME NEW op, NEW i \in Inum, NEW d \in Inum
    PROVE  /\ NewEnts(op, i, d) \in [Names -> Inum \cup {None}]
           /\ op # "mkdir" => NewEnts(op, i, d) = NoEnts
           /\ op = "mkdir" => /\ NewEnts(op, i, d)["."] = i /\ NewEnts(op, i, d)[".."] = d
                              /\ \A n \in Name : NewEnts(op, i, d)[n] = None
  BY FileConstants DEF NewEnts, NoEnts, Names

\* An inode filled in.
SetInode(fs, i, k, ents) == [fs EXCEPT ![i] = [fs[i] EXCEPT !.nlink = k, !.ents = ents]]

\* The same when the entry into the parent fails: the count stays.
SetEnts(fs, i, ents) == [fs EXCEPT ![i].ents = ents]

\* Only that inode changes.
LEMMA SetInodeType ==
    ASSUME NEW fs \in [Inum -> InodeType], NEW i \in Inum, NEW k \in Int, NEW ents \in [Names -> Inum \cup {None}]
    PROVE  /\ SetInode(fs, i, k, ents) \in [Inum -> InodeType]
           /\ SetInode(fs, i, k, ents)[i].nlink = k /\ SetInode(fs, i, k, ents)[i].type = fs[i].type
           /\ SetInode(fs, i, k, ents)[i].ents = ents
           /\ \A j \in Inum : j # i => SetInode(fs, i, k, ents)[j] = fs[j]
           /\ SetEnts(fs, i, ents) = SetInode(fs, i, fs[i].nlink, ents)
<1>1. fs[i] \in InodeType
  OBVIOUS
<1>2. PICK e : e = [fs[i] EXCEPT !.nlink = k, !.ents = ents]
  OBVIOUS
<1>3. e \in InodeType /\ e.nlink = k /\ e.type = fs[i].type /\ e.ents = ents
  BY <1>1, <1>2 DEF InodeType
<1>4. SetInode(fs, i, k, ents) = [fs EXCEPT ![i] = e]
  BY <1>1, <1>2 DEF SetInode, InodeType
<1>5. SetEnts(fs, i, ents) = SetInode(fs, i, fs[i].nlink, ents)
  <2>1. [fs[i] EXCEPT !.ents = ents] = [fs[i] EXCEPT !.nlink = fs[i].nlink, !.ents = ents]
    BY <1>1 DEF InodeType
  <2> QED BY <1>1, <2>1 DEF SetEnts, SetInode
<1> QED BY <1>3, <1>4, <1>5

-----------------------------------------------------------------------------
(* Reference counts.                                                       *)

\* What panic() leaves alone.
AllButPanic == <<inode, itable, ftable, ofile, cwd, call, orphans, missed>>

\* panic() changes no count.
LEMMA PanicAccounted == ASSUME Accounted, UNCHANGED AllButPanic PROVE Accounted'
  BY DEF Accounted, TypeOK, CwdShape, FileShape, RefsExact, InodeRefs, FileRefs, AllButPanic

\* The pointers to an inode, or to a file, are finitely many.
LEMMA Pointed ==
    ASSUME NEW i
    PROVE  /\ IsFiniteSet({p \in Proc : cwd[p] = i})
           /\ IsFiniteSet({f \in File : ftable[f].ref > 0 /\ ftable[f].ip = i})
           /\ IsFiniteSet(Pointers(call, i))
           /\ IsFiniteSet({pd \in Proc \X Fd : ofile[pd[1]][pd[2]] = i})
           /\ Cardinality({p \in Proc : cwd[p] = i}) \in Nat
           /\ Cardinality({f \in File : ftable[f].ref > 0 /\ ftable[f].ip = i}) \in Nat
           /\ Cardinality(Pointers(call, i)) \in Nat
           /\ Cardinality({pd \in Proc \X Fd : ofile[pd[1]][pd[2]] = i}) \in Nat
<1>1. /\ {p \in Proc : cwd[p] = i} \subseteq Proc
      /\ {f \in File : ftable[f].ref > 0 /\ ftable[f].ip = i} \subseteq File
      /\ Pointers(call, i) \subseteq Proc \X Fields
      /\ {pd \in Proc \X Fd : ofile[pd[1]][pd[2]] = i} \subseteq Proc \X Fd
  BY DEF Pointers
<1>2. /\ IsFiniteSet({p \in Proc : cwd[p] = i})
      /\ IsFiniteSet({f \in File : ftable[f].ref > 0 /\ ftable[f].ip = i})
      /\ IsFiniteSet(Pointers(call, i))
      /\ IsFiniteSet({pd \in Proc \X Fd : ofile[pd[1]][pd[2]] = i})
  BY <1>1, Finite, FS_Subset
<1> QED BY <1>2, FS_CardinalityType

\* InodeRefs with the pointers named.
LEMMA RefsIs ==
    InodeRefs <=> \A i \in Inum :
        itable[i].ref = Cardinality({p \in Proc : cwd[p] = i})
                        + Cardinality({f \in File : ftable[f].ref > 0 /\ ftable[f].ip = i})
                        + Cardinality(Pointers(call, i))
  BY DEF InodeRefs, Pointers, Fields

\* A step of p inside a call.
LEMMA CallAccounted ==
    ASSUME Accounted, NEW p \in Proc, NEW c \in CallType, Shape(c), call' = [call EXCEPT ![p] = c],
           inode' \in [Inum -> InodeType], itable' \in [Inum -> EntryType],
           \A i \in Inum : itable'[i].ref = itable[i].ref + Ptr(c, i) - Ptr(call[p], i),
           (c.pc = "dead" \/ c.op = "die") <=> (call[p].pc = "dead" \/ call[p].op = "die"),
           UNCHANGED <<ftable, ofile, cwd>>
    PROVE  Accounted'
<1>1. TypeOK'
  BY DEF Accounted, TypeOK
<1>2. \A q \in Proc : Shape(call'[q]) /\ CwdShape(q)'
  BY DEF Accounted, TypeOK, CwdShape
<1>3. FileRefs' /\ \A f \in File : FileShape(f)'
  BY DEF Accounted, RefsExact, FileRefs, FileShape
<1>4. InodeRefs'
  <2>1. SUFFICES ASSUME NEW i \in Inum
                 PROVE  itable'[i].ref = Cardinality({q \in Proc : cwd'[q] = i})
                        + Cardinality({f \in File : ftable'[f].ref > 0 /\ ftable'[f].ip = i})
                        + Cardinality(Pointers(call', i))
    <3>1. InodeRefs' <=> \A i \in Inum :
            itable'[i].ref = Cardinality({q \in Proc : cwd'[q] = i})
                        + Cardinality({f \in File : ftable'[f].ref > 0 /\ ftable'[f].ip = i})
                        + Cardinality(Pointers(call', i))
      BY DEF InodeRefs, Pointers, Fields
    <3> QED BY <3>1
  <2>2. Cardinality(Pointers(call', i)) = Cardinality(Pointers(call, i)) + Ptr(c, i) - Ptr(call[p], i)
    BY PtrChange DEF Accounted, TypeOK
  <2>3. itable[i].ref = Cardinality({q \in Proc : cwd[q] = i})
                        + Cardinality({f \in File : ftable[f].ref > 0 /\ ftable[f].ip = i})
                        + Cardinality(Pointers(call, i))
    BY RefsIs DEF Accounted, RefsExact
  <2>4. /\ Cardinality({q \in Proc : cwd[q] = i}) \in Nat
        /\ Cardinality({f \in File : ftable[f].ref > 0 /\ ftable[f].ip = i}) \in Nat
        /\ Cardinality(Pointers(call, i)) \in Nat
    BY Pointed
  <2>5. Ptr(c, i) \in Int /\ Ptr(call[p], i) \in Int
    BY DEF Ptr, Ind
  <2>6. itable'[i].ref = itable[i].ref + Ptr(c, i) - Ptr(call[p], i)
    OBVIOUS
  <2>7. /\ {q \in Proc : cwd'[q] = i} = {q \in Proc : cwd[q] = i}
        /\ {f \in File : ftable'[f].ref > 0 /\ ftable'[f].ip = i}
              = {f \in File : ftable[f].ref > 0 /\ ftable[f].ip = i}
    OBVIOUS
  <2>8. /\ Cardinality({q \in Proc : cwd'[q] = i}) = Cardinality({q \in Proc : cwd[q] = i})
        /\ Cardinality({f \in File : ftable'[f].ref > 0 /\ ftable'[f].ip = i})
              = Cardinality({f \in File : ftable[f].ref > 0 /\ ftable[f].ip = i})
    BY <2>7, Zenon
  <2> QED BY ONLY <2>2, <2>3, <2>4, <2>5, <2>6, <2>8
<1> QED BY <1>1, <1>2, <1>3, <1>4 DEF Accounted, RefsExact

\* An inode to which a call has a pointer is in the table.
LEMMA RefPositive ==
    ASSUME Accounted, NEW p \in Proc, NEW i \in Inum, Ptr(call[p], i) > 0
    PROVE  itable[i].ref \in Nat \ {0}
<1>1. itable[i].ref = Cardinality({q \in Proc : cwd[q] = i})
                        + Cardinality({f \in File : ftable[f].ref > 0 /\ ftable[f].ip = i})
                        + Cardinality(Pointers(call, i))
  BY RefsIs DEF Accounted, RefsExact
<1>2. /\ Cardinality({q \in Proc : cwd[q] = i}) \in Nat
      /\ Cardinality({f \in File : ftable[f].ref > 0 /\ ftable[f].ip = i}) \in Nat
      /\ Cardinality(Pointers(call, i)) \in Nat /\ IsFiniteSet(Pointers(call, i))
  BY Pointed
<1>3. \E f \in Fields : <<p, f>> \in Pointers(call, i)
  <2>1. call[p].at = i \/ call[p].ip = i \/ call[p].dp = i \/ call[p].put = i
    BY DEF Ptr, Ind
  <2> QED BY <2>1 DEF Pointers, Fields
<1>4. Cardinality(Pointers(call, i)) # 0
  BY <1>2, <1>3, FS_EmptySet
<1>5. itable[i].ref = 0 + Cardinality({q \in Proc : cwd[q] = i})
                        + Cardinality({f \in File : ftable[f].ref > 0 /\ ftable[f].ip = i})
                        + Cardinality(Pointers(call, i)) => itable[i].ref \in Nat \ {0}
  BY ONLY <1>2, <1>4
<1> QED BY ONLY <1>1, <1>2, <1>5

\* The constant records.
LEMMA Records ==
    /\ Free \in InodeType /\ Free.type = "free" /\ Free.nlink = 0 /\ Free.ents = NoEnts
    /\ NoEnts \in [Names -> Inum \cup {None}] /\ \A n \in Names : NoEnts[n] = None
    /\ Free = [type |-> "free", nlink |-> 0, ents |-> NoEnts]
    /\ NoEntry \in EntryType /\ NoEntry.ref = 0 /\ NoEntry.lock = None /\ NoEntry.valid = FALSE
    /\ NoFile \in FileType /\ NoFile.ref = 0 /\ NoFile.type = "FD_NONE"
  BY DEF Free, NoEnts, NoEntry, NoFile, InodeType, EntryType, FileType

\* A process that has not exited and is not about to.
Alive(c) == c.pc # "dead" /\ c.op # "die"

\* The call of a process has its shape.
LEMMA CallOf ==
    ASSUME Accounted, NEW p \in Proc
    PROVE  call[p] \in CallType /\ Shape(call[p])
  BY DEF Accounted, TypeOK

\* A step that changes no pointers.
LEMMA WriteAccounted ==
    ASSUME Accounted, NEW p \in Proc, NEW fs \in [Inum -> InodeType], NEW tab \in [Inum -> EntryType],
           NEW c \in CallType, Shape(c), Alive(c) <=> Alive(call[p]), Write(p, fs, tab, c),
           \A i \in Inum : tab[i].ref = itable[i].ref,
           \A i \in Inum : Ptr(c, i) = Ptr(call[p], i)
    PROVE  Accounted'
<1>1. /\ inode' = fs /\ itable' = tab /\ call' = [call EXCEPT ![p] = c]
      /\ UNCHANGED <<ftable, ofile, cwd>>
  BY DEF Write, Become
<1>2. \A i \in Inum : itable'[i].ref = itable[i].ref + Ptr(c, i) - Ptr(call[p], i)
  BY <1>1 DEF Ptr, Ind, Accounted, TypeOK, EntryType
<1>3. (c.pc = "dead" \/ c.op = "die") <=> (call[p].pc = "dead" \/ call[p].op = "die")
  BY DEF Alive
<1> QED BY <1>1, <1>2, <1>3, CallAccounted

\* iget(): one pointer and one reference more.
LEMMA GetAccounted ==
    ASSUME Accounted, NEW p \in Proc, NEW i \in Inum, NEW tab \in [Inum -> EntryType],
           NEW c \in CallType, Shape(c), Alive(c) <=> Alive(call[p]), Get(p, i, tab, c),
           \A k \in Inum : tab[k].ref = itable[k].ref,
           \A k \in Inum : Ptr(c, k) = Ptr(call[p], k) + Ind(k = i)
    PROVE  Accounted'
<1>1. CASE i \notin InTable /\ Cardinality(InTable) = NINODE
  BY <1>1, PanicAccounted DEF Get, Panic, AllButPanic
<1>2. CASE ~ (i \notin InTable /\ Cardinality(InTable) = NINODE)
  <2>1. Write(p, inode, Iget(tab, i), c)
    BY <1>2 DEF Get, Step
  <2>2. /\ inode' = inode /\ itable' = Iget(tab, i) /\ call' = [call EXCEPT ![p] = c]
        /\ UNCHANGED <<ftable, ofile, cwd>>
    BY <2>1 DEF Write, Become
  <2>3. /\ Iget(tab, i) \in [Inum -> EntryType]
        /\ \A k \in Inum : Iget(tab, i)[k].ref = tab[k].ref + Ind(k = i)
    BY IgetTable
  <2>4. inode \in [Inum -> InodeType] /\ \A k \in Inum : itable[k].ref \in Nat
    BY DEF Accounted, TypeOK, EntryType
  <2>5. \A k \in Inum : itable'[k].ref = itable[k].ref + Ptr(c, k) - Ptr(call[p], k)
    BY <2>2, <2>3, <2>4 DEF Ptr, Ind
  <2>6. (c.pc = "dead" \/ c.op = "die") <=> (call[p].pc = "dead" \/ call[p].op = "die")
    BY DEF Alive
  <2> QED BY <2>2, <2>3, <2>4, <2>5, <2>6, CallAccounted
<1> QED BY <1>1, <1>2

\* The last iput() has its shape.
LEMMA ShapeLast == ASSUME NEW i \in Inum PROVE Shape(Last(i)) /\ Alive(Last(i))
  BY LastRecord, FileConstants DEF Shape, Place, Puts, Rets, HasDp, HasIp, MayIp, Making, Onward, Alive

\* The last iput() has one pointer.
LEMMA PtrLast == ASSUME NEW i \in Inum, NEW k \in Inum PROVE Ptr(Last(i), k) = Ind(k = i)
  BY LastRecord, FileConstants DEF Ptr, Ind

-----------------------------------------------------------------------------
(* The disk, and what the calls know of it.                                *)

\* A link that the count of c.ip has and that no entry stands for.
Pending(c) == \/ Place(c) \in {"link_new", "link_dir", "link_undo", "unlinked"}
              \/ Place(c) \in {"walk", "unlockput_dp"} /\ c.ip # None

\* Who has a pending link of i, and how many a call owes to i.
PendingOn(cl, i) == {p \in Proc : Pending(cl[p]) /\ cl[p].ip = i}
Owes(c, i) == IF Pending(c) /\ c.ip = i THEN 1 ELSE 0

\* The links of an inode that entries stand for.
links == [i \in Inum |-> inode[i].nlink - Cardinality(PendingOn(call, i))]

\* fs is a disk and l the links of its inodes.
EntriesIn(fs, l, i) ==
    {e \in Inum \X (Names \ {"."}) : l[e[1]] > 0 /\ fs[e[1]].ents[e[2]] = i}

\* A directory that has a name, and its parent.
Live(fs, l, i) == fs[i].type = "dir" /\ l[i] > 0
Up2(fs, i) == fs[i].ents[".."]

\* The named directories are a tree with the names that lead down and ".." that
\* leads up.
Tree(fs, l) ==
    /\ Live(fs, l, ROOTINO) /\ Up2(fs, ROOTINO) = ROOTINO
    /\ \A i \in Inum : Live(fs, l, i) =>
          /\ fs[i].ents["."] = i
          /\ Up2(fs, i) \in Inum /\ Live(fs, l, Up2(fs, i))
          /\ i # ROOTINO => \E n \in Name : fs[Up2(fs, i)].ents[n] = i
    /\ \A i, j \in Inum, n \in Name : Live(fs, l, i) /\ Live(fs, l, j) /\ fs[i].ents[n] = j =>
          /\ j # ROOTINO /\ Up2(fs, j) = i
          /\ \A m \in Name : fs[i].ents[m] = j => m = n

\* No directory is below itself.
Ranked(fs, l) ==
    \E rank \in [Inum -> Nat] : \A i \in Inum :
        Live(fs, l, i) /\ i # ROOTINO => rank[i] < rank[Up2(fs, i)]

\* The disk, at every step: what the links count, and the tree.
Disk(fs, l) ==
    /\ \A i \in Inum : fs[i].type = "free" => fs[i] = Free
    /\ \A i \in Inum : fs[i].type = "file" => fs[i].ents = NoEnts
    /\ \A i \in Inum : l[i] = Cardinality(EntriesIn(fs, l, i))
    /\ Tree(fs, l)
    /\ Ranked(fs, l)

\* Where ip is locked, and dp; the inodes that a call has locked.
HoldIp == {"file", "unlockput_ip", "unlinked"}
HoldDp == {"ialloc", "iget", "fill", "unlink_ip", "unlockput_dp"}
Holds(c, i) == \/ Place(c) \in HoldIp /\ c.ip = i
               \/ Place(c) \in HoldDp /\ c.dp = i
               \/ c.pc = "trunc" /\ c.put = i

\* The lock of an inode is held by the call that is where it holds it.
Locks(tab, cl) == \A i \in Inum, p \in Proc : tab[i].lock = p <=> Holds(cl[p], i)

\* The copy of an inode in the table.
Cached(fs, tab) == \A i \in Inum :
    /\ tab[i].ref > 0 /\ tab[i].valid =>
          /\ tab[i].type = fs[i].type /\ tab[i].nlink = fs[i].nlink
          /\ fs[i].type # "free"
    /\ tab[i].lock # None => tab[i].valid

\* The inode that ialloc() has taken and that is not filled in.
New(c) == IF c.pc = "iget" THEN c.inum ELSE IF c.pc = "fill" THEN c.ip ELSE None

\* An inode without links that is in use but was never read is about to be
\* filled in.
UnreadAt(i) ==
    inode[i].type # "free" /\ inode[i].nlink = 0 /\ itable[i].ref > 0 /\ ~ itable[i].valid
      /\ i \notin orphans \cup missed
    => \E p \in Proc : New(call[p]) = i

\* The pointers of a call that keep the inode.
Uses(c, i) == c.at = i \/ c.ip = i \/ c.dp = i \/ c.inum = i \/ (c.put = i /\ c.pc # "drop")

\* The pointers whose directories have names, and all pointers that count.
Firm(c, i) == c.at = i \/ c.dp = i \/ (c.ip = i /\ Place(c) \notin {"fill", "unlinked"})
Has(c, i) == c.at = i \/ c.ip = i \/ c.dp = i \/ c.put = i

\* What a call has found out, and relies on while it holds no lock.
Knows(fs, l, c) ==
    /\ \A i \in Inum : Uses(c, i) => fs[i].type # "free"
    /\ \A i \in Inum : Firm(c, i) /\ fs[i].type = "dir" => l[i] > 0
    /\ c.dp # None => fs[c.dp].type = "dir"
    /\ Pending(c) /\ Place(c) # "unlinked" => fs[c.ip].type = "file"
    /\ Place(c) \in {"ialloc", "iget", "fill"} => fs[c.dp].ents[Head(c.path)] = None
    /\ Place(c) = "unlink_ip" => Head(c.path) \in Name /\ fs[c.dp].ents[Head(c.path)] = c.ip
    /\ New(c) # None => fs[New(c)] = [Free EXCEPT !.type = NewType(c.op)]

\* iput() frees an inode that nobody else has.
Truncates(c) == c.pc = "trunc" => itable[c.put].ref = 1 /\ inode[c.put].nlink = 0

\* A current directory has a name.
CwdLive == \A p \in Proc : cwd[p] # None => Live(inode, links, cwd[p])

\* An open file is allocated.
FilesUsed == \A f \in File : ftable[f].ref > 0 => inode[ftable[f].ip].type # "free"

\* Nobody else knows the inode that a call creates.
Fresh(cl, ft, p) == LET i == New(cl[p]) IN i # None =>
    /\ \A q \in Proc : q # p => ~ Uses(cl[q], i)
    /\ \A f \in File : ft[f].ref > 0 => ft[f].ip # i

\* The second inductive invariant.
Consistent ==
    /\ Disk(inode, links)
    /\ Locks(itable, call)
    /\ Cached(inode, itable)
    /\ \A i \in Inum : UnreadAt(i)
    /\ \A p \in Proc : Knows(inode, links, call[p]) /\ Truncates(call[p]) /\ Fresh(call, ftable, p)
    /\ CwdLive /\ FilesUsed
    /\ Reclaimed

\* panic() changes nothing that the invariant speaks of.
LEMMA PanicConsistent == ASSUME Consistent, UNCHANGED AllButPanic PROVE Consistent'
<1>1. links' = links
  BY DEF links, AllButPanic
<1> QED BY <1>1
        DEF Consistent, UnreadAt, Truncates, CwdLive, FilesUsed, Reclaimed, Unused, AllButPanic

\* The pending links are finitely many.
LEMMA PendingNat == \A i \in Inum : /\ IsFiniteSet(PendingOn(call, i)) /\ Cardinality(PendingOn(call, i)) \in Nat
                                    /\ PendingOn(call, i) \subseteq Proc
<1>1. ASSUME NEW i \in Inum PROVE IsFiniteSet(PendingOn(call, i)) /\ PendingOn(call, i) \subseteq Proc
  <2>1. PendingOn(call, i) \subseteq Proc
    BY DEF PendingOn
  <2> QED BY <2>1, Finite, FS_Subset
<1> QED BY <1>1, FS_CardinalityType

\* The links are never more than the count says.
LEMMA LinksInt ==
    ASSUME Accounted, NEW i \in Inum
    PROVE  links[i] \in Int /\ inode[i].nlink \in Int /\ links[i] <= inode[i].nlink
<1>1. inode[i].nlink \in Int
  BY DEF Accounted, TypeOK, InodeType
<1>2. links[i] = inode[i].nlink - Cardinality(PendingOn(call, i))
  BY DEF links
<1>3. Cardinality(PendingOn(call, i)) \in Nat
  BY PendingNat
<1> QED BY ONLY <1>1, <1>2, <1>3

\* The links when p goes on as c.
LEMMA LinksMove ==
    ASSUME Accounted, NEW p \in Proc, NEW c, call' = [call EXCEPT ![p] = c], NEW i \in Inum,
           inode'[i].nlink \in Int
    PROVE  links'[i] = inode'[i].nlink - inode[i].nlink + links[i] + Owes(call[p], i) - Owes(c, i)
<1>1. PICK A : A = PendingOn(call, i)
  OBVIOUS
<1>2. PICK B : B = PendingOn(call', i)
  OBVIOUS
<1>3. \A q \in Proc : call'[q] = IF q = p THEN c ELSE call[q]
  BY DEF Accounted, TypeOK
<1>4. A \ {p} = B \ {p}
  BY <1>1, <1>2, <1>3 DEF PendingOn
<1>5. IsFiniteSet(A)
  BY <1>1, PendingNat
<1>6. /\ Cardinality(A) \in Nat /\ Cardinality(B) \in Nat
      /\ Cardinality(B) = Cardinality(A) + Ind(p \in B) - Ind(p \in A)
  BY <1>4, <1>5, CardShift
<1>7. Ind(p \in B) = Owes(c, i) /\ Ind(p \in A) = Owes(call[p], i)
  BY <1>1, <1>2, <1>3 DEF Ind, Owes, PendingOn
<1>8. Owes(c, i) \in Int /\ Owes(call[p], i) \in Int
  BY DEF Owes
<1>9. links[i] = inode[i].nlink - Cardinality(A) /\ links'[i] = inode'[i].nlink - Cardinality(B)
  BY <1>1, <1>2 DEF links
<1>10. inode[i].nlink \in Int
  BY LinksInt
<1>11. inode'[i].nlink \in Int
  OBVIOUS
<1> QED BY ONLY <1>6, <1>7, <1>8, <1>9, <1>10, <1>11

\* An inode with one reference has no other pointer to it.
LEMMA Sole ==
    ASSUME Accounted, NEW q \in Proc, NEW l \in Fields, NEW i \in Inum, call[q][l] = i, itable[i].ref = 1
    PROVE  /\ \A r \in Proc, m \in Fields : call[r][m] = i => r = q /\ m = l
           /\ \A r \in Proc : cwd[r] # i
           /\ \A f \in File : ~ (ftable[f].ref > 0 /\ ftable[f].ip = i)
<1>1. PICK A : A = {r \in Proc : cwd[r] = i}
  OBVIOUS
<1>2. PICK B : B = {f \in File : ftable[f].ref > 0 /\ ftable[f].ip = i}
  OBVIOUS
<1>3. PICK C : C = Pointers(call, i)
  OBVIOUS
<1>4. 1 = Cardinality(A) + Cardinality(B) + Cardinality(C)
  BY <1>1, <1>2, <1>3, RefsIs DEF Accounted, RefsExact
<1>5. /\ Cardinality(A) \in Nat /\ Cardinality(B) \in Nat /\ Cardinality(C) \in Nat
      /\ IsFiniteSet(A) /\ IsFiniteSet(B) /\ IsFiniteSet(C)
  BY <1>1, <1>2, <1>3, Pointed
<1>6. <<q, l>> \in C
  BY <1>3 DEF Pointers
<1>7. Cardinality(C) # 0
  BY <1>5, <1>6, FS_EmptySet
<1>8. Cardinality(A) = 0 /\ Cardinality(B) = 0 /\ Cardinality(C) = 1
  BY ONLY <1>4, <1>5, <1>7
<1>9. A = {} /\ B = {}
  BY <1>5, <1>8, FS_EmptySet
<1>10. PICK x : C = {x}
  BY <1>5, <1>8, FS_Singleton
<1>11. ASSUME NEW r \in Proc, NEW m \in Fields, call[r][m] = i PROVE r = q /\ m = l
  <2>1. <<r, m>> \in C
    BY <1>3, <1>11 DEF Pointers
  <2>2. <<r, m>> = <<q, l>>
    BY <1>6, <1>10, <2>1
  <2> QED BY <2>2
<1> QED BY <1>1, <1>2, <1>9, <1>11

\* The same for the calls as a whole.
LEMMA SoleHas ==
    ASSUME Accounted, NEW q \in Proc, NEW i \in Inum, Has(call[q], i), itable[i].ref = 1
    PROVE  /\ \A r \in Proc : Has(call[r], i) => r = q
           /\ \A r \in Proc : cwd[r] # i
           /\ \A f \in File : ~ (ftable[f].ref > 0 /\ ftable[f].ip = i)
<1>1. PICK l \in Fields : call[q][l] = i
  BY DEF Has, Fields
<1>2. /\ \A r \in Proc, m \in Fields : call[r][m] = i => r = q /\ m = l
      /\ \A r \in Proc : cwd[r] # i
      /\ \A f \in File : ~ (ftable[f].ref > 0 /\ ftable[f].ip = i)
  BY <1>1, Sole
<1>3. ASSUME NEW r \in Proc, Has(call[r], i) PROVE r = q
  <2>1. PICK m \in Fields : call[r][m] = i
    BY <1>3 DEF Has, Fields
  <2> QED BY <1>2, <2>1
<1> QED BY <1>2, <1>3

\* What a call has is in the table.
LEMMA HasRef ==
    ASSUME Accounted, NEW q \in Proc, NEW i \in Inum, Has(call[q], i)
    PROVE  itable[i].ref \in Nat \ {0}
<1>1. Ptr(call[q], i) > 0
  BY DEF Has, Ptr, Ind
<1> QED BY <1>1, RefPositive

-----------------------------------------------------------------------------
(* What a step of p leaves to the others.                                  *)

\* p changes the inodes it uses; frees one that nobody else has; changes the
\* entries of a directory that is not locked by another; takes the last link
\* of a directory that nobody else has; and takes references to inodes that
\* have links.
Touches(p) == \A i \in Inum :
    /\ inode'[i] # inode[i] => Uses(call[p], i) \/ inode[i].type = "free"
    /\ inode'[i].type # inode[i].type =>
          inode[i].type = "free" \/ (Has(call[p], i) /\ Uses(call[p], i) /\ itable[i].ref = 1)
    /\ inode'[i].ents # inode[i].ents => itable[i].lock \in {p, None} \/ inode[i].type = "free"
    /\ Live(inode, links, i) => links'[i] > 0 \/ (Has(call[p], i) /\ itable[i].ref = 1)
    /\ itable'[i].ref # itable[i].ref => Has(call[p], i) \/ inode[i].nlink > 0 \/ call[p].inum = i

\* What another call knows stays true.
LEMMA OthersKnow ==
    ASSUME Accounted, Consistent, NEW p \in Proc, Touches(p), NEW q \in Proc, q # p
    PROVE  /\ Knows(inode', links', call[q])
           /\ call[q].pc = "trunc" => itable'[call[q].put].ref = 1 /\ inode'[call[q].put].nlink = 0
<1>1. PICK d : d = call[q]
  OBVIOUS
<1>2. d \in CallType /\ Shape(d)
  BY <1>1, CallOf
<1>3. /\ Knows(inode, links, d) /\ Truncates(d) /\ Fresh(call, ftable, q) /\ Fresh(call, ftable, p)
      /\ Locks(itable, call)
  BY <1>1 DEF Consistent
<1>4. \A i \in Inum : itable[i].ref = 1 /\ Has(call[p], i) => ~ Has(d, i)
  BY <1>1, SoleHas
<1>5. /\ d.inum = None <=> d.pc # "iget"
      /\ d.inum \in Inum \cup {None} /\ d.dp \in Inum \cup {None} /\ d.ip \in Inum \cup {None}
      /\ d.put \in Inum \cup {None} /\ (d.pc = "trunc" => d.put # None) /\ (d.pc = "fill" => d.ip # None)
  BY <1>2, CallFields DEF Shape, Puts, Place, HasIp
<1>6. New(d) \in Inum \cup {None} /\ (d.inum # None => New(d) = d.inum)
  BY <1>5 DEF New
<1>7. New(d) # None => ~ Uses(call[p], New(d))
  BY <1>1, <1>3 DEF Fresh
<1>8. \A i \in Inum : Uses(d, i) => inode[i].type # "free"
  BY <1>3 DEF Knows
<1>9. \A i \in Inum : Uses(d, i) => inode'[i].type = inode[i].type
  <2>1. SUFFICES ASSUME NEW i \in Inum, Uses(d, i), Has(call[p], i), Uses(call[p], i), itable[i].ref = 1
                 PROVE  FALSE
    BY <1>8 DEF Touches
  <2>2. ~ Has(d, i)
    BY <1>4, <2>1
  <2>3. d.inum = i
    BY <2>1, <2>2 DEF Has, Uses
  <2> QED BY <1>6, <1>7, <2>1, <2>3, FileConstants
<1>10. \A i \in Inum : Firm(d, i) => Uses(d, i) /\ Has(d, i)
  BY DEF Firm, Uses, Has
<1>11. \A i \in Inum : Firm(d, i) /\ inode'[i].type = "dir" => links'[i] > 0
  BY <1>3, <1>4, <1>8, <1>9, <1>10 DEF Knows, Touches, Live
<1>12. d.dp # None => inode'[d.dp].type = "dir"
  BY <1>3, <1>5, <1>9 DEF Knows, Uses
<1>13. Pending(d) /\ Place(d) # "unlinked" => inode'[d.ip].type = "file"
  <2>1. Pending(d) => d.ip # None
    BY <1>2 DEF Pending, Shape, HasIp
  <2> QED BY <1>3, <1>5, <1>9, <2>1 DEF Knows, Uses
<1>14. Place(d) \in {"ialloc", "iget", "fill", "unlink_ip"} => inode'[d.dp].ents = inode[d.dp].ents
  <2>1. SUFFICES ASSUME Place(d) \in {"ialloc", "iget", "fill", "unlink_ip"}
                 PROVE  inode'[d.dp].ents = inode[d.dp].ents
    OBVIOUS
  <2>2. d.dp \in Inum
    BY <1>2, <1>5, <2>1 DEF Shape, HasDp
  <2>3. itable[d.dp].lock = q
    BY <1>1, <1>3, <2>1, <2>2 DEF Locks, Holds, HoldDp
  <2>4. inode[d.dp].type # "free"
    BY <1>8, <2>2 DEF Uses
  <2> QED BY <2>2, <2>3, <2>4, FileConstants DEF Touches
<1>15. New(d) # None => inode'[New(d)] = inode[New(d)]
  <2>1. New(d) # None => Uses(d, New(d))
    BY DEF New, Uses
  <2> QED BY <1>6, <1>7, <1>8, <2>1 DEF Touches
<1>16. Knows(inode', links', d)
  <2>1. \A i \in Inum : Uses(d, i) => inode'[i].type # "free"
    BY <1>8, <1>9
  <2>2. Place(d) \in {"ialloc", "iget", "fill"} => inode'[d.dp].ents[Head(d.path)] = None
    BY <1>3, <1>14 DEF Knows
  <2>3. Place(d) = "unlink_ip" => Head(d.path) \in Name /\ inode'[d.dp].ents[Head(d.path)] = d.ip
    BY <1>3, <1>14 DEF Knows
  <2>4. New(d) # None => inode'[New(d)] = [Free EXCEPT !.type = NewType(d.op)]
    BY <1>3, <1>15 DEF Knows
  <2> QED BY <1>11, <1>12, <1>13, <2>1, <2>2, <2>3, <2>4 DEF Knows
<1>17. ASSUME d.pc = "trunc" PROVE itable'[d.put].ref = 1 /\ inode'[d.put].nlink = 0
  <2>1. PICK i : i = d.put
    OBVIOUS
  <2>2. i \in Inum /\ itable[i].ref = 1 /\ inode[i].nlink = 0
    BY <1>3, <1>5, <1>17, <2>1 DEF Truncates
  <2>3. Has(d, i) /\ Uses(d, i)
    BY <1>17, <2>1 DEF Has, Uses
  <2>4. ~ Has(call[p], i)
    BY <1>1, <2>2, <2>3, SoleHas
  <2>5. call[p].inum # i
    <3>1. call[p] \in CallType /\ Shape(call[p])
      BY CallOf
    <3>2. call[p].inum = i => New(call[p]) = i
      BY <2>2, <3>1, FileConstants DEF Shape, New
    <3> QED BY <1>1, <1>3, <2>2, <2>3, <3>2, FileConstants DEF Fresh
  <2>6. ~ Uses(call[p], i)
    BY <2>4, <2>5 DEF Uses, Has
  <2>7. inode'[i] = inode[i]
    BY <1>8, <2>2, <2>3, <2>6 DEF Touches
  <2>8. itable'[i].ref = itable[i].ref
    <3>1. ~ (inode[i].nlink > 0)
      BY <2>2
    <3> QED BY <2>2, <2>4, <2>5, <3>1 DEF Touches
  <2> QED BY <2>1, <2>2, <2>7, <2>8
<1> QED BY <1>1, <1>16, <1>17

\* An inode is open.
IsOpen(i) == \E f \in File : ftable[f].ref > 0 /\ ftable[f].ip = i

\* What p gets a pointer to has links, or was free, or is open.
Gains(p, c) == \A i \in Inum : Uses(c, i) =>
    Uses(call[p], i) \/ inode[i].nlink > 0 \/ inode[i].type = "free" \/ IsOpen(i)

\* What p opens is its own.
FilesFrom(p) == \A f \in File : ftable'[f].ref > 0 =>
    (ftable[f].ref > 0 /\ ftable[f].ip = ftable'[f].ip) \/ Uses(call[p], ftable'[f].ip)

\* What another call creates stays unknown to the rest.
LEMMA OthersFresh ==
    ASSUME Accounted, Consistent, NEW p \in Proc, NEW c, call' = [call EXCEPT ![p] = c], Gains(p, c), FilesFrom(p),
           NEW q \in Proc, q # p
    PROVE  Fresh(call', ftable', q)
<1>1. PICK i : i = New(call[q])
  OBVIOUS
<1>2. \A r \in Proc : call'[r] = IF r = p THEN c ELSE call[r]
  BY DEF Accounted, TypeOK
<1>3. SUFFICES ASSUME i # None
               PROVE  /\ \A r \in Proc : r # q => ~ Uses(call'[r], i)
                      /\ \A f \in File : ftable'[f].ref > 0 => ftable'[f].ip # i
  BY <1>1, <1>2 DEF Fresh
<1>4. /\ \A r \in Proc : r # q => ~ Uses(call[r], i)
      /\ \A f \in File : ftable[f].ref > 0 => ftable[f].ip # i
  BY <1>1, <1>3 DEF Consistent, Fresh
<1>5. i \in Inum
  <2>1. call[q] \in CallType
    BY CallOf
  <2> QED BY <1>1, <1>3, <2>1, CallFields DEF New
<1>6. inode[i].nlink = 0 /\ inode[i].type # "free"
  <2>1. inode[i] = [Free EXCEPT !.type = NewType(call[q].op)]
    BY <1>1, <1>3 DEF Consistent, Knows
  <2> QED BY <2>1 DEF Free, NewType
<1>7. ~ Uses(c, i)
  BY <1>4, <1>5, <1>6 DEF Gains, IsOpen
<1> QED BY <1>2, <1>4, <1>7 DEF FilesFrom

\* p takes locks that are free, and gives back its own.
LockMoves(p, c) == \A i \in Inum :
    /\ itable'[i].lock = p <=> Holds(c, i)
    /\ \/ itable'[i].lock = itable[i].lock
       \/ itable[i].lock \in {p, None} /\ itable'[i].lock \in {p, None}

\* Locks move only between p and nobody.
LEMMA LocksKept ==
    ASSUME Accounted, Consistent, NEW p \in Proc, NEW c, call' = [call EXCEPT ![p] = c], LockMoves(p, c)
    PROVE  Locks(itable', call')
<1>1. \A r \in Proc : call'[r] = IF r = p THEN c ELSE call[r]
  BY DEF Accounted, TypeOK
<1>2. SUFFICES ASSUME NEW i \in Inum, NEW q \in Proc PROVE itable'[i].lock = q <=> Holds(call'[q], i)
  BY DEF Locks
<1>3. CASE q = p
  BY <1>1, <1>3 DEF LockMoves
<1>4. CASE q # p
  <2>1. itable[i].lock = q <=> Holds(call[q], i)
    BY DEF Consistent, Locks
  <2>2. itable'[i].lock = q <=> itable[i].lock = q
    BY <1>4, FileConstants DEF LockMoves
  <2> QED BY <1>1, <1>4, <2>1, <2>2
<1> QED BY <1>3, <1>4

\* Current directories keep their names.
LEMMA CwdKept ==
    ASSUME Accounted, Consistent, NEW p \in Proc, Touches(p), NEW q \in Proc, cwd[q] # None
    PROVE  Live(inode', links', cwd[q])
<1>1. PICK i : i = cwd[q]
  OBVIOUS
<1>2. i \in Inum /\ Live(inode, links, i)
  BY <1>1 DEF Accounted, TypeOK, Consistent, CwdLive
<1>3. ~ (itable[i].ref = 1 /\ Has(call[p], i))
  BY <1>1, <1>2, SoleHas
<1> QED BY <1>1, <1>2, <1>3 DEF Live, Touches

\* Open files stay allocated.
LEMMA FilesKept ==
    ASSUME Accounted, Consistent, NEW p \in Proc, Touches(p), NEW f \in File, ftable[f].ref > 0
    PROVE  inode'[ftable[f].ip].type # "free"
<1>1. PICK i : i = ftable[f].ip
  OBVIOUS
<1>2. ftable[f].ref # 0
  OBVIOUS
<1>3. i \in Inum
  BY <1>1, <1>2 DEF Accounted, FileShape
<1>4. inode[i].type # "free"
  BY <1>1 DEF Consistent, FilesUsed
<1>5. ~ (itable[i].ref = 1 /\ Has(call[p], i))
  BY <1>1, <1>3, SoleHas
<1> QED BY <1>1, <1>3, <1>4, <1>5 DEF Touches

\* The inodes without links that p leaves unread or unused.
Leaves(p, c) == \A i \in Inum : inode'[i].type # "free" /\ inode'[i].nlink = 0 /\ i \notin orphans' \cup missed' =>
    /\ itable'[i].ref > 0 /\ ~ itable'[i].valid =>
          \/ New(c) = i
          \/ inode[i].type # "free" /\ inode[i].nlink = 0 /\ itable[i].ref > 0 /\ ~ itable[i].valid
             /\ i \notin orphans \cup missed /\ New(call[p]) # i
    /\ itable'[i].ref = 0 /\ c.inum # i /\ (\A r \in Proc : r # p => call[r].inum # i) =>
          inode[i].type # "free" /\ inode[i].nlink = 0 /\ itable[i].ref = 0 /\ call[p].inum # i
             /\ i \notin orphans \cup missed

\* No inode is lost by a step of p.
LEMMA Left ==
    ASSUME Accounted, Consistent, NEW p \in Proc, NEW c, call' = [call EXCEPT ![p] = c], Leaves(p, c)
    PROVE  Reclaimed' /\ \A i \in Inum : UnreadAt(i)'
<1>1. \A r \in Proc : call'[r] = IF r = p THEN c ELSE call[r]
  BY DEF Accounted, TypeOK
<1>2. ASSUME NEW i \in Inum PROVE UnreadAt(i)'
  <2>1. SUFFICES ASSUME inode'[i].type # "free", inode'[i].nlink = 0, itable'[i].ref > 0, ~ itable'[i].valid,
                        i \notin orphans' \cup missed', New(c) # i
                 PROVE  \E r \in Proc : New(call'[r]) = i
    BY <1>1 DEF UnreadAt
  <2>2. /\ inode[i].type # "free" /\ inode[i].nlink = 0 /\ itable[i].ref > 0 /\ ~ itable[i].valid
        /\ i \notin orphans \cup missed /\ New(call[p]) # i
    BY <2>1 DEF Leaves
  <2>3. PICK r \in Proc : New(call[r]) = i
    BY <2>2 DEF Consistent, UnreadAt
  <2> QED BY <1>1, <2>2, <2>3
<1>3. ASSUME NEW i \in Inum, Unused(i)' PROVE i \in orphans' \cup missed'
  <2>1. SUFFICES ASSUME i \notin orphans' \cup missed' PROVE FALSE
    OBVIOUS
  <2>2. /\ inode'[i].type # "free" /\ inode'[i].nlink = 0 /\ itable'[i].ref = 0 /\ c.inum # i
        /\ \A r \in Proc : r # p => call[r].inum # i
    BY <1>1, <1>3 DEF Unused
  <2>3. inode[i].type # "free" /\ inode[i].nlink = 0 /\ itable[i].ref = 0 /\ call[p].inum # i
        /\ i \notin orphans \cup missed
    BY <2>1, <2>2 DEF Leaves
  <2>4. Unused(i)
    BY <2>2, <2>3 DEF Unused
  <2> QED BY <2>3, <2>4 DEF Consistent, Reclaimed
<1> QED BY <1>2, <1>3 DEF Reclaimed

\* Current directories after a step: as before, or named.
CwdFrom == \A q \in Proc : cwd'[q] # None => cwd'[q] = cwd[q] \/ Live(inode', links', cwd'[q])

\* Open files after a step: as before, or allocated and from the call.
FilesIn(p) == /\ FilesFrom(p)
              /\ \A f \in File : ftable'[f].ref > 0 =>
                    (ftable[f].ref > 0 /\ ftable[f].ip = ftable'[f].ip) \/ inode'[ftable'[f].ip].type # "free"

\* A step of p that goes on as c.
LEMMA StepConsistent ==
    ASSUME Accounted, Consistent, NEW p \in Proc, NEW c, call' = [call EXCEPT ![p] = c],
           Touches(p), Gains(p, c), LockMoves(p, c), Leaves(p, c), CwdFrom, FilesIn(p),
           Disk(inode', links'), Cached(inode', itable'), Knows(inode', links', c), Fresh(call', ftable', p),
           c.pc = "trunc" => itable'[c.put].ref = 1 /\ inode'[c.put].nlink = 0
    PROVE  Consistent'
<1>1. \A r \in Proc : call'[r] = IF r = p THEN c ELSE call[r]
  BY DEF Accounted, TypeOK
<1>2. ASSUME NEW q \in Proc PROVE Knows(inode', links', call'[q]) /\ Truncates(call[q])' /\ Fresh(call', ftable', q)
  <2>1. CASE q = p
    BY <1>1, <2>1 DEF Truncates
  <2>2. CASE q # p
    <3>1. Knows(inode', links', call[q])
      BY <2>2, OthersKnow
    <3>2. call[q].pc = "trunc" => itable'[call[q].put].ref = 1 /\ inode'[call[q].put].nlink = 0
      BY <2>2, OthersKnow
    <3>3. Fresh(call', ftable', q)
      BY <2>2, OthersFresh DEF FilesIn
    <3>4. call'[q] = call[q]
      BY <1>1, <2>2
    <3> QED BY <3>1, <3>2, <3>3, <3>4 DEF Truncates
  <2> QED BY <2>1, <2>2
<1>3. CwdLive'
  BY CwdKept DEF CwdLive, CwdFrom
<1>4. FilesUsed'
  BY FilesKept DEF FilesUsed, FilesIn
<1>5. Locks(itable', call')
  BY LocksKept
<1>6. Reclaimed' /\ \A i \in Inum : UnreadAt(i)'
  BY Left
<1> QED BY <1>2, <1>3, <1>4, <1>5, <1>6 DEF Consistent

\* A table that keeps the references and the copies that are read.
TabKeeps(tab) == \A k \in Inum : tab[k].ref = itable[k].ref /\ (itable[k].valid => tab[k].valid)

\* In tab, p holds the locks that e holds.
LockTo(tab, p, e) == \A k \in Inum :
    /\ tab[k].lock = p <=> Holds(e, k)
    /\ \/ tab[k].lock = itable[k].lock
       \/ itable[k].lock \in {p, None} /\ tab[k].lock \in {p, None}

\* The disk, and what is owed, stay as they are.
LEMMA Quiet ==
    ASSUME Accounted, Consistent, NEW p \in Proc, NEW e, call' = [call EXCEPT ![p] = e], inode' = inode,
           \A k \in Inum : Owes(e, k) = Owes(call[p], k)
    PROVE  links' = links /\ Disk(inode', links')
<1>1. \A k \in Inum : links'[k] = links[k]
  <2>1. SUFFICES ASSUME NEW k \in Inum PROVE links'[k] = links[k]
    OBVIOUS
  <2>2. inode'[k].nlink \in Int /\ inode[k].nlink \in Int /\ links[k] \in Int
    BY LinksInt
  <2>3. links'[k] = inode'[k].nlink - inode[k].nlink + links[k] + Owes(call[p], k) - Owes(e, k)
    BY <2>2, LinksMove
  <2>4. Owes(call[p], k) \in Int /\ Owes(e, k) = Owes(call[p], k) /\ inode'[k].nlink = inode[k].nlink
    BY DEF Owes
  <2> QED BY ONLY <2>2, <2>3, <2>4
<1>2. links' = links
  BY <1>1 DEF links
<1> QED BY <1>2 DEF Consistent

\* A step that leaves the disk alone.
LEMMA QuietConsistent ==
    ASSUME Accounted, Consistent, NEW p \in Proc, NEW tab, NEW e, Write(p, inode, tab, e), TabKeeps(tab),
           Cached(inode, tab), LockTo(tab, p, e), Knows(inode, links, e),
           \A k \in Inum : Owes(e, k) = Owes(call[p], k),
           \A k \in Inum : Uses(e, k) => Uses(call[p], k),
           New(e) = None, New(call[p]) = None,
           e.pc = "trunc" => tab[e.put].ref = 1 /\ inode[e.put].nlink = 0
    PROVE  Consistent'
<1>1. /\ inode' = inode /\ itable' = tab /\ call' = [call EXCEPT ![p] = e]
      /\ UNCHANGED <<ftable, ofile, cwd, orphans, missed>>
  BY DEF Write, Become
<1>2. links' = links /\ Disk(inode', links')
  <2>1. call' = [call EXCEPT ![p] = e] /\ inode' = inode
    BY <1>1
  <2>2. \A k \in Inum : Owes(e, k) = Owes(call[p], k)
    OBVIOUS
  <2> QED BY ONLY Accounted, Consistent, p \in Proc, <2>1, <2>2, Quiet
<1>3. Touches(p)
  <2>1. \A i \in Inum : inode'[i] = inode[i]
    BY <1>1
  <2>2. \A i \in Inum : Live(inode, links, i) => links'[i] > 0
    BY <1>2 DEF Live
  <2>3. \A i \in Inum : inode'[i].type = inode[i].type /\ inode'[i].ents = inode[i].ents
    BY <2>1
  <2>4. \A i \in Inum : itable'[i].ref = itable[i].ref
    BY <1>1 DEF TabKeeps
  <2> QED BY <2>1, <2>2, <2>3, <2>4 DEF Touches
<1>4. Gains(p, e) /\ LockMoves(p, e) /\ CwdFrom /\ FilesIn(p)
  BY <1>1 DEF Gains, LockMoves, LockTo, CwdFrom, FilesIn, FilesFrom
<1>5. call[p].inum = None
  <2>1. Shape(call[p])
    BY CallOf
  <2>2. call[p].pc # "iget" \/ call[p].inum = None
    BY DEF New
  <2> QED BY <2>1, <2>2 DEF Shape
<1>6. Leaves(p, e)
  BY <1>1, <1>5, FileConstants DEF Leaves, TabKeeps
<1>7. Fresh(call', ftable', p)
  <2>1. call'[p] = e
    BY <1>1 DEF Accounted, TypeOK
  <2> QED BY <2>1 DEF Fresh
<1>8. Cached(inode', itable') /\ Knows(inode', links', e)
      /\ (e.pc = "trunc" => itable'[e.put].ref = 1 /\ inode'[e.put].nlink = 0)
  BY <1>1, <1>2
<1> QED BY <1>1, <1>2, <1>3, <1>4, <1>6, <1>7, <1>8, StepConsistent

\* A lock is held on an inode that has references.
LEMMA LockRef == ASSUME Accounted, Consistent, NEW k \in Inum, itable[k].lock # None PROVE itable[k].ref > 0
<1>1. PICK r \in Proc : itable[k].lock = r
  BY DEF Accounted, TypeOK, EntryType
<1>2. Has(call[r], k)
  BY <1>1 DEF Consistent, Locks, Holds, Has
<1> QED BY <1>2, HasRef

\* iget() of an inode that has links.
LEMMA GetConsistent ==
    ASSUME Accounted, Consistent, NEW p \in Proc, NEW i \in Inum, NEW tab \in [Inum -> EntryType], NEW e,
           Get(p, i, tab, e), TabKeeps(tab), Cached(inode, tab), LockTo(tab, p, e), Knows(inode, links, e),
           \A k \in Inum : tab[k].lock = p => Has(call[p], k),
           \A k \in Inum : Owes(e, k) = Owes(call[p], k),
           \A k \in Inum : Uses(e, k) => Uses(call[p], k) \/ k = i,
           New(e) = None, New(call[p]) = None, e.pc # "trunc", links[i] > 0
    PROVE  Consistent'
<1>0. CASE i \notin InTable /\ Cardinality(InTable) = NINODE
  BY <1>0, PanicConsistent DEF Get, Panic, AllButPanic
<1>1. CASE ~ (i \notin InTable /\ Cardinality(InTable) = NINODE)
  <2>1. /\ inode' = inode /\ itable' = Iget(tab, i) /\ call' = [call EXCEPT ![p] = e]
        /\ UNCHANGED <<ftable, ofile, cwd, orphans, missed>>
    BY <1>1 DEF Get, Step, Write, Become
  <2>2. links' = links /\ Disk(inode', links')
    BY <2>1, Quiet
  <2>3. /\ \A k \in Inum : k # i => itable'[k] = tab[k]
        /\ itable'[i].ref = tab[i].ref + 1
        /\ itable'[i].valid = (tab[i].ref > 0 /\ tab[i].valid)
        /\ itable'[i].type = tab[i].type /\ itable'[i].nlink = tab[i].nlink
        /\ \A k \in Inum : itable'[k].lock = tab[k].lock
    BY <2>1, IgetTable
  <2>4. inode[i].nlink > 0
    <3>1. links[i] \in Int /\ inode[i].nlink \in Int /\ links[i] <= inode[i].nlink
      BY LinksInt
    <3> QED BY ONLY <3>1, links[i] > 0
  <2>5. Touches(p)
    <3>1. \A k \in Inum : itable'[k].ref # itable[k].ref => k = i
      BY <2>3 DEF TabKeeps
    <3> QED BY <2>1, <2>2, <2>4, <3>1 DEF Touches, Live
  <2>6. Gains(p, e) /\ LockMoves(p, e) /\ CwdFrom /\ FilesIn(p)
    BY <2>1, <2>3, <2>4 DEF Gains, LockMoves, LockTo, CwdFrom, FilesIn, FilesFrom
  <2>7. call[p].inum = None
    <3>1. Shape(call[p])
      BY CallOf
    <3>2. call[p].pc # "iget" \/ call[p].inum = None
      BY DEF New
    <3> QED BY <3>1, <3>2 DEF Shape
  <2>8. Leaves(p, e)
    <3>1. \A k \in Inum : inode[k].nlink = 0 => k # i
      BY <2>4
    <3>2. \A k \in Inum : k # i => itable'[k].ref = itable[k].ref /\ (itable[k].valid => itable'[k].valid)
      BY <2>3 DEF TabKeeps
    <3> QED BY <2>1, <2>7, <3>1, <3>2, FileConstants DEF Leaves
  <2>9. Fresh(call', ftable', p)
    <3>1. call'[p] = e
      BY <2>1 DEF Accounted, TypeOK
    <3> QED BY <3>1 DEF Fresh
  <2>10. Cached(inode', itable')
    <3>1. \A k \in Inum : tab[k].ref \in Nat
      BY DEF EntryType
    <3>2. tab[i].lock # None => tab[i].ref > 0
      <4>1. tab[i].ref = itable[i].ref
        BY DEF TabKeeps
      <4>2. itable[i].lock # None => itable[i].ref > 0
        BY LockRef
      <4>3. tab[i].lock = p => itable[i].ref > 0
        BY HasRef
      <4> QED BY <4>1, <4>2, <4>3 DEF LockTo
    <3>3. \A k \in Inum : /\ tab[k].ref > 0 /\ tab[k].valid =>
                                /\ tab[k].type = inode[k].type /\ tab[k].nlink = inode[k].nlink
                                /\ inode[k].type # "free"
                          /\ tab[k].lock # None => tab[k].valid
      BY DEF Cached
    <3>4. \A k \in Inum : k # i => itable'[k] = tab[k]
      BY <2>3
    <3>5. /\ itable'[i].ref > 0 /\ itable'[i].valid =>
                /\ itable'[i].type = inode[i].type /\ itable'[i].nlink = inode[i].nlink
                /\ inode[i].type # "free"
          /\ itable'[i].lock # None => itable'[i].valid
      BY <2>3, <3>1, <3>2, <3>3
    <3> QED BY <2>1, <3>3, <3>4, <3>5 DEF Cached
  <2>11. Knows(inode', links', e)
    BY <2>1, <2>2
  <2> QED BY <2>1, <2>2, <2>5, <2>6, <2>8, <2>9, <2>10, <2>11, StepConsistent
<1> QED BY <1>0, <1>1

\* e goes on from c, with a pointer to j in addition.
Follows(c, e, j) ==
    /\ \A k \in Inum : Owes(e, k) = Owes(c, k) /\ (Uses(e, k) => Uses(c, k) \/ k = j)
    /\ New(c) = None /\ New(e) = None /\ e.pc # "trunc"

\* The call holds what it did.
SameHolds(c, e)    == \A k \in Inum : Holds(e, k) <=> Holds(c, k)

\* The call holds i too.
AlsoHolds(c, e, i) == \A k \in Inum : Holds(e, k) <=> Holds(c, k) \/ k = i

\* What ilock() has read is what the disk says.
LEMMA LoadedIs ==
    ASSUME Accounted, Consistent, NEW i \in Inum, itable[i].ref > 0
    PROVE  Loaded(i).type = inode[i].type /\ Loaded(i).nlink = inode[i].nlink
<1>1. TypeOK
  BY DEF Accounted
<1>2. /\ itable[i].valid => Loaded(i) = itable[i]
      /\ ~ itable[i].valid => Loaded(i).type = inode[i].type /\ Loaded(i).nlink = inode[i].nlink
  BY <1>1, LoadedEntry
<1> QED BY <1>2 DEF Consistent, Cached

\* ilock() and iunlock() leave the copy right.
LEMMA SeenKeeps ==
    ASSUME Accounted, Consistent, NEW i \in Inum, inode[i].type # "free"
    PROVE  /\ TabKeeps(Seen(i)) /\ Cached(inode, Seen(i)) /\ Seen(i)[i].valid
           /\ \A k \in Inum : Seen(i)[k].lock = itable[k].lock
<1>1. TypeOK
  BY DEF Accounted
<1>2. /\ Seen(i)[i] = Loaded(i) /\ \A k \in Inum : k # i => Seen(i)[k] = itable[k]
      /\ \A k \in Inum : Seen(i)[k].ref = itable[k].ref /\ Seen(i)[k].lock = itable[k].lock
  BY <1>1, SeenTable
<1>3. Loaded(i).valid
  BY <1>1, LoadedEntry
<1>4. itable[i].ref > 0 => Loaded(i).type = inode[i].type /\ Loaded(i).nlink = inode[i].nlink
  BY LoadedIs
<1>5. TabKeeps(Seen(i))
  BY <1>2, <1>3 DEF TabKeeps
<1>6. Cached(inode, Seen(i))
  BY <1>2, <1>3, <1>4 DEF Consistent, Cached
<1> QED BY <1>2, <1>3, <1>5, <1>6

\* ilock() leaves the copy right.
LEMMA LockedKeeps ==
    ASSUME Accounted, Consistent, NEW p \in Proc, NEW i \in Inum, inode[i].type # "free"
    PROVE  /\ TabKeeps(Locked(p, i)) /\ Cached(inode, Locked(p, i)) /\ Locked(p, i)[i].lock = p
           /\ \A k \in Inum : k # i => Locked(p, i)[k].lock = itable[k].lock
<1>1. TypeOK
  BY DEF Accounted
<1>2. /\ Locked(p, i)[i].ref = itable[i].ref /\ Locked(p, i)[i].valid /\ Locked(p, i)[i].lock = p
      /\ Locked(p, i)[i].type = Loaded(i).type /\ Locked(p, i)[i].nlink = Loaded(i).nlink
      /\ \A k \in Inum : k # i => Locked(p, i)[k] = itable[k]
      /\ \A k \in Inum : Locked(p, i)[k].ref = itable[k].ref
  BY <1>1, LockedTable
<1>4. itable[i].ref > 0 => Loaded(i).type = inode[i].type /\ Loaded(i).nlink = inode[i].nlink
  BY LoadedIs
<1>5. TabKeeps(Locked(p, i))
  BY <1>2 DEF TabKeeps
<1>6. Cached(inode, Locked(p, i))
  BY <1>2, <1>4 DEF Consistent, Cached
<1> QED BY <1>2, <1>5, <1>6

\* A lock leaves the copy right.
LEMMA SetLockKeeps ==
    ASSUME Accounted, Consistent, NEW i \in Inum, NEW o \in Owner, o = None \/ itable[i].valid
    PROVE  /\ TabKeeps(SetLock(itable, i, o)) /\ Cached(inode, SetLock(itable, i, o))
           /\ SetLock(itable, i, o)[i].lock = o
           /\ \A k \in Inum : k # i => SetLock(itable, i, o)[k].lock = itable[k].lock
<1>1. itable \in [Inum -> EntryType]
  BY DEF Accounted, TypeOK
<1>2. /\ SetLock(itable, i, o)[i].ref = itable[i].ref /\ SetLock(itable, i, o)[i].valid = itable[i].valid
      /\ SetLock(itable, i, o)[i].type = itable[i].type /\ SetLock(itable, i, o)[i].nlink = itable[i].nlink
      /\ SetLock(itable, i, o)[i].lock = o
      /\ \A j \in Inum : j # i => SetLock(itable, i, o)[j] = itable[j]
      /\ \A j \in Inum : SetLock(itable, i, o)[j].ref = itable[j].ref
  BY <1>1, LockTable
<1>3. Cached(inode, itable)
  BY DEF Consistent
<1>4. TabKeeps(SetLock(itable, i, o))
  BY <1>2 DEF TabKeeps
<1>5. Cached(inode, SetLock(itable, i, o))
  BY <1>2, <1>3 DEF Cached
<1> QED BY <1>2, <1>4, <1>5

\* Who holds a lock is where it is held.
LEMMA HeldBy ==
    ASSUME Accounted, Consistent, NEW p \in Proc, NEW k \in Inum
    PROVE  itable[k].lock = p <=> Holds(call[p], k)
  BY DEF Consistent, Locks

\* A step of a call that changes nothing else.
LEMMA SameConsistent ==
    ASSUME Accounted, Consistent, NEW p \in Proc, NEW e, Write(p, inode, itable, e),
           Follows(call[p], e, None), SameHolds(call[p], e), Knows(inode, links, e)
    PROVE  Consistent'
<1>1. TabKeeps(itable) /\ Cached(inode, itable)
  BY DEF TabKeeps, Consistent
<1>2. LockTo(itable, p, e)
  BY HeldBy DEF LockTo, SameHolds
<1>3. /\ \A k \in Inum : Owes(e, k) = Owes(call[p], k)
      /\ \A k \in Inum : Uses(e, k) => Uses(call[p], k)
      /\ New(e) = None /\ New(call[p]) = None /\ e.pc # "trunc"
  BY FileConstants DEF Follows
<1> QED BY <1>1, <1>2, <1>3, QuietConsistent

\* A step that only reads an inode.
LEMMA SeenConsistent ==
    ASSUME Accounted, Consistent, NEW p \in Proc, NEW i \in Inum, NEW e, Write(p, inode, Seen(i), e),
           inode[i].type # "free",
           Follows(call[p], e, None), SameHolds(call[p], e), Knows(inode, links, e)
    PROVE  Consistent'
<1>1. TabKeeps(Seen(i)) /\ Cached(inode, Seen(i)) /\ \A k \in Inum : Seen(i)[k].lock = itable[k].lock
  BY SeenKeeps
<1>2. LockTo(Seen(i), p, e)
  BY <1>1, HeldBy DEF LockTo, SameHolds
<1>3. /\ \A k \in Inum : Owes(e, k) = Owes(call[p], k)
      /\ \A k \in Inum : Uses(e, k) => Uses(call[p], k)
      /\ New(e) = None /\ New(call[p]) = None /\ e.pc # "trunc"
  BY FileConstants DEF Follows
<1> QED BY <1>1, <1>2, <1>3, QuietConsistent

\* A step that locks an inode.
LEMMA LockedConsistent ==
    ASSUME Accounted, Consistent, NEW p \in Proc, NEW i \in Inum, NEW e, Write(p, inode, Locked(p, i), e),
           inode[i].type # "free", itable[i].lock = None,
           Follows(call[p], e, None), AlsoHolds(call[p], e, i), Knows(inode, links, e)
    PROVE  Consistent'
<1>1. TabKeeps(Locked(p, i)) /\ Cached(inode, Locked(p, i)) /\ Locked(p, i)[i].lock = p
      /\ \A k \in Inum : k # i => Locked(p, i)[k].lock = itable[k].lock
  BY LockedKeeps
<1>2. LockTo(Locked(p, i), p, e)
  BY <1>1, HeldBy DEF LockTo, AlsoHolds
<1>3. /\ \A k \in Inum : Owes(e, k) = Owes(call[p], k)
      /\ \A k \in Inum : Uses(e, k) => Uses(call[p], k)
      /\ New(e) = None /\ New(call[p]) = None /\ e.pc # "trunc"
  BY FileConstants DEF Follows
<1> QED BY <1>1, <1>2, <1>3, QuietConsistent

\* A step that gives a lock back.
LEMMA UnlockConsistent ==
    ASSUME Accounted, Consistent, NEW p \in Proc, NEW i \in Inum, NEW e, Write(p, inode, SetLock(itable, i, None), e),
           Follows(call[p], e, None), AlsoHolds(e, call[p], i), ~ Holds(e, i), Knows(inode, links, e)
    PROVE  Consistent'
<1>1. /\ TabKeeps(SetLock(itable, i, None)) /\ Cached(inode, SetLock(itable, i, None))
      /\ SetLock(itable, i, None)[i].lock = None
      /\ \A k \in Inum : k # i => SetLock(itable, i, None)[k].lock = itable[k].lock
  BY SetLockKeeps DEF Owner
<1>2. LockTo(SetLock(itable, i, None), p, e)
  BY <1>1, HeldBy, FileConstants DEF LockTo, AlsoHolds
<1>3. /\ \A k \in Inum : Owes(e, k) = Owes(call[p], k)
      /\ \A k \in Inum : Uses(e, k) => Uses(call[p], k)
      /\ New(e) = None /\ New(call[p]) = None /\ e.pc # "trunc"
  BY FileConstants DEF Follows
<1> QED BY <1>1, <1>2, <1>3, QuietConsistent

\* iget() of j.
LEMMA SameGetConsistent ==
    ASSUME Accounted, Consistent, NEW p \in Proc, NEW j \in Inum, NEW e, Get(p, j, itable, e), links[j] > 0,
           Follows(call[p], e, j), SameHolds(call[p], e), Knows(inode, links, e)
    PROVE  Consistent'
<1>1. TabKeeps(itable) /\ Cached(inode, itable) /\ itable \in [Inum -> EntryType]
  BY DEF TabKeeps, Accounted, TypeOK, Consistent
<1>2. LockTo(itable, p, e)
  BY HeldBy DEF LockTo, SameHolds
<1>3. /\ \A k \in Inum : Owes(e, k) = Owes(call[p], k)
      /\ \A k \in Inum : Uses(e, k) => Uses(call[p], k) \/ k = j
      /\ New(e) = None /\ New(call[p]) = None /\ e.pc # "trunc"
  BY DEF Follows
<1>4. \A k \in Inum : itable[k].lock = p => Has(call[p], k)
  BY HeldBy DEF Holds, Has
<1> QED BY <1>1, <1>2, <1>3, <1>4, GetConsistent

\* iget() of j, found in i.
LEMMA SeenGetConsistent ==
    ASSUME Accounted, Consistent, NEW p \in Proc, NEW i \in Inum, NEW j \in Inum, NEW e, Get(p, j, Seen(i), e),
           links[j] > 0, inode[i].type # "free",
           Follows(call[p], e, j), SameHolds(call[p], e), Knows(inode, links, e)
    PROVE  Consistent'
<1>0. TypeOK
  BY DEF Accounted
<1>1. TabKeeps(Seen(i)) /\ Cached(inode, Seen(i)) /\ \A k \in Inum : Seen(i)[k].lock = itable[k].lock
  BY SeenKeeps
<1>2. LockTo(Seen(i), p, e)
  BY <1>1, HeldBy DEF LockTo, SameHolds
<1>3. /\ \A k \in Inum : Owes(e, k) = Owes(call[p], k)
      /\ \A k \in Inum : Uses(e, k) => Uses(call[p], k) \/ k = j
      /\ New(e) = None /\ New(call[p]) = None /\ e.pc # "trunc"
  BY DEF Follows
<1>4. \A k \in Inum : Seen(i)[k].lock = p => Has(call[p], k)
  BY <1>1, HeldBy DEF Holds, Has
<1>5. Seen(i) \in [Inum -> EntryType]
  BY <1>0, SeenTable
<1> QED BY <1>1, <1>2, <1>3, <1>4, <1>5, GetConsistent

\* iget() of j, found in i, which stays locked.
LEMMA LockedGetConsistent ==
    ASSUME Accounted, Consistent, NEW p \in Proc, NEW i \in Inum, NEW j \in Inum, NEW e, Get(p, j, Locked(p, i), e),
           links[j] > 0, inode[i].type # "free", itable[i].lock = None, Has(call[p], i),
           Follows(call[p], e, j), AlsoHolds(call[p], e, i), Knows(inode, links, e)
    PROVE  Consistent'
<1>0. TypeOK
  BY DEF Accounted
<1>1. TabKeeps(Locked(p, i)) /\ Cached(inode, Locked(p, i)) /\ Locked(p, i)[i].lock = p
      /\ \A k \in Inum : k # i => Locked(p, i)[k].lock = itable[k].lock
  BY LockedKeeps
<1>2. LockTo(Locked(p, i), p, e)
  BY <1>1, HeldBy DEF LockTo, AlsoHolds
<1>3. /\ \A k \in Inum : Owes(e, k) = Owes(call[p], k)
      /\ \A k \in Inum : Uses(e, k) => Uses(call[p], k) \/ k = j
      /\ New(e) = None /\ New(call[p]) = None /\ e.pc # "trunc"
  BY DEF Follows
<1>4. \A k \in Inum : Locked(p, i)[k].lock = p => Has(call[p], k)
  BY <1>1, HeldBy DEF Holds, Has
<1>5. Locked(p, i) \in [Inum -> EntryType]
  BY <1>0, LockedTable
<1> QED BY <1>1, <1>2, <1>3, <1>4, <1>5, GetConsistent

\* An inode with links is allocated.
LEMMA LinkedUsed ==
    ASSUME Accounted, Consistent, NEW i \in Inum, links[i] > 0
    PROVE  inode[i].type # "free" /\ inode[i].nlink > 0
<1>1. links[i] \in Int /\ inode[i].nlink \in Int /\ links[i] <= inode[i].nlink
  BY LinksInt
<1>2. inode[i].nlink > 0
  BY ONLY <1>1, links[i] > 0
<1>3. inode[i].type = "free" => inode[i].nlink = 0
  BY Records DEF Consistent, Disk
<1> QED BY <1>2, <1>3

\* The entries that name an inode are finitely many.
LEMMA EntriesFinite ==
    ASSUME NEW fs, NEW l, NEW i
    PROVE  IsFiniteSet(EntriesIn(fs, l, i)) /\ Cardinality(EntriesIn(fs, l, i)) \in Nat
<1>1. EntriesIn(fs, l, i) \subseteq Inum \X (Names \ {"."})
  BY DEF EntriesIn
<1>2. IsFiniteSet(EntriesIn(fs, l, i))
  BY <1>1, Finite, FS_Subset
<1> QED BY <1>2, FS_CardinalityType

\* What a live directory names has links.
LEMMA EntryLinked ==
    ASSUME Accounted, Consistent, NEW i \in Inum, Live(inode, links, i), NEW n \in Names, inode[i].ents[n] # None
    PROVE  inode[i].ents[n] \in Inum /\ links[inode[i].ents[n]] > 0
<1>1. PICK j : j = inode[i].ents[n]
  OBVIOUS
<1>2. j \in Inum
  BY <1>1 DEF Accounted, TypeOK, InodeType
<1>3. CASE n = "."
  <2>1. j = i
    BY <1>1, <1>3 DEF Consistent, Disk, Tree
  <2> QED BY <1>1, <1>2, <2>1 DEF Live
<1>4. CASE n # "."
  <2>1. <<i, n>> \in EntriesIn(inode, links, j)
    BY <1>1, <1>4 DEF EntriesIn, Live
  <2>2. Cardinality(EntriesIn(inode, links, j)) \in Nat \ {0}
    BY <2>1, EntriesFinite, FS_EmptySet
  <2>3. links[j] = Cardinality(EntriesIn(inode, links, j))
    BY <1>2 DEF Consistent, Disk
  <2> QED BY <1>1, <1>2, <2>2, <2>3
<1> QED BY <1>3, <1>4

\* What ilock() returns of an inode that p uses.
LEMMA Read ==
    ASSUME Accounted, Consistent, NEW p \in Proc, NEW i \in Inum, Has(call[p], i), Uses(call[p], i)
    PROVE  /\ inode[i].type # "free" /\ Loaded(i).type = inode[i].type /\ Loaded(i).nlink = inode[i].nlink
           /\ Firm(call[p], i) /\ inode[i].type = "dir" => Live(inode, links, i)
<1>1. itable[i].ref > 0
  BY HasRef
<1>2. Knows(inode, links, call[p])
  BY DEF Consistent
<1> QED BY <1>1, <1>2, LoadedIs DEF Knows, Live

-----------------------------------------------------------------------------
(* What the calls do to a disk.                                            *)

\* Disks, and counts of links.
Disks == [Inum -> InodeType]
Counts == [Inum -> Int]

\* Free inodes and files have no entries.
Blank(fs) == /\ \A i \in Inum : fs[i].type = "free" => fs[i] = Free
             /\ \A i \in Inum : fs[i].type = "file" => fs[i].ents = NoEnts

\* Only inodes without links change.
LEMMA DiskSame ==
    ASSUME NEW fs \in Disks, NEW l \in Counts, NEW fs2 \in Disks, NEW l2 \in Counts, Disk(fs, l), Blank(fs2),
           \A i \in Inum : l2[i] = l[i],
           \A i \in Inum : l[i] > 0 => fs2[i].ents = fs[i].ents /\ (fs2[i].type = "dir" <=> fs[i].type = "dir")
    PROVE  Disk(fs2, l2)
<1>1. \A i \in Inum : EntriesIn(fs2, l2, i) = EntriesIn(fs, l, i)
  BY DEF EntriesIn
<1>2. \A i \in Inum : l2[i] = Cardinality(EntriesIn(fs2, l2, i))
  BY <1>1 DEF Disk
<1>3. \A i \in Inum : /\ Live(fs2, l2, i) <=> Live(fs, l, i)
                      /\ Live(fs, l, i) => fs2[i].ents = fs[i].ents /\ Up2(fs2, i) = Up2(fs, i)
  BY DEF Live, Up2
<1>4. Tree(fs2, l2)
  BY <1>3, FileConstants DEF Disk, Tree
<1>5. Ranked(fs2, l2)
  BY <1>3 DEF Disk, Ranked
<1> QED BY <1>2, <1>4, <1>5 DEF Disk, Blank

\* Nothing but a directory has entries.
LEMMA EntryDir ==
    ASSUME NEW fs \in Disks, NEW l \in Counts, Disk(fs, l), NEW i \in Inum, NEW n \in Names, fs[i].ents[n] # None
    PROVE  fs[i].type = "dir"
<1>1. NoEnts[n] = None /\ Free.ents[n] = None
  BY DEF NoEnts, Free
<1>2. fs[i].type \in {"free", "dir", "file"}
  BY DEF Disks, InodeType
<1> QED BY <1>1, <1>2 DEF Disk

\* What a named directory names has links.
LEMMA EntryCounts ==
    ASSUME NEW fs \in Disks, NEW l \in Counts, Disk(fs, l), NEW i \in Inum, l[i] > 0, NEW n \in Names, n # ".",
           NEW j \in Inum, fs[i].ents[n] = j
    PROVE  l[j] > 0
<1>1. <<i, n>> \in EntriesIn(fs, l, j)
  BY DEF EntriesIn
<1>2. Cardinality(EntriesIn(fs, l, j)) \in Nat \ {0}
  BY <1>1, EntriesFinite, FS_EmptySet
<1>3. l[j] = Cardinality(EntriesIn(fs, l, j))
  BY DEF Disk
<1> QED BY <1>2, <1>3

\* The entry n of d, that named j, names k now: neither is a directory.
LEMMA DiskEntry ==
    ASSUME NEW fs \in Disks, NEW l \in Counts, NEW fs2 \in Disks, NEW l2 \in Counts, Disk(fs, l), Blank(fs2),
           NEW d \in Inum, Live(fs, l, d), NEW n \in Name, NEW j, NEW k, j \in Inum \cup {None}, k \in Inum \cup {None},
           fs[d].ents[n] = j, fs2[d].ents[n] = k, fs2[d].type = "dir",
           \A m \in Names : m # n => fs2[d].ents[m] = fs[d].ents[m],
           \A i \in Inum : i # d => (fs2[i].type = "dir" <=> fs[i].type = "dir") /\ fs2[i].ents = fs[i].ents,
           \A i \in {j, k} \ {None} : fs[i].type # "dir",
           \A i \in Inum : l2[i] = l[i] + Ind(i = k) - Ind(i = j)
    PROVE  Disk(fs2, l2)
<1>1. n \in Names /\ n # "." /\ n # ".." /\ "." \in Names /\ ".." \in Names /\ Name \subseteq Names
  BY FileConstants DEF Names
<1>2. d \notin {j, k}
  BY FileConstants DEF Live
<1>3. \A i \in Inum : i \notin {j, k} => l2[i] = l[i]
  BY DEF Ind, Counts
<1>4. \A i \in Inum, m \in Names : i \in {j, k} => fs[i].ents[m] = None /\ fs2[i].ents[m] = None
  <2>1. SUFFICES ASSUME NEW i \in Inum, NEW m \in Names, i \in {j, k} PROVE fs[i].ents[m] = None /\ fs2[i].ents[m] = None
    OBVIOUS
  <2>2. i # None /\ fs[i].type # "dir"
    BY <2>1, FileConstants
  <2>3. fs[i].ents[m] = None
    BY <2>2, EntryDir
  <2> QED BY <1>2, <2>1, <2>3
<1>5. l[d] > 0 /\ l2[d] > 0
  BY <1>2, <1>3 DEF Live
<1>6. ASSUME NEW i \in Inum PROVE l2[i] = Cardinality(EntriesIn(fs2, l2, i))
  <2>1. PICK A : A = EntriesIn(fs, l, i)
    OBVIOUS
  <2>2. PICK B : B = EntriesIn(fs2, l2, i)
    OBVIOUS
  <2>3. PICK x : x = <<d, n>>
    OBVIOUS
  <2>4. x \in A <=> i = j
    BY <1>1, <1>5, <2>1, <2>3 DEF EntriesIn
  <2>5. x \in B <=> i = k
    BY <1>1, <1>5, <2>2, <2>3 DEF EntriesIn
  <2>6. ASSUME NEW y, y # x PROVE y \in A <=> y \in B
    <3>1. SUFFICES ASSUME y \in Inum \X (Names \ {"."}) PROVE y \in A <=> y \in B
      BY <2>1, <2>2 DEF EntriesIn
    <3>2. PICK a \in Inum, m \in Names \ {"."} : y = <<a, m>>
      BY <3>1
    <3>3. y \in A <=> l[a] > 0 /\ fs[a].ents[m] = i
      BY <2>1, <3>2 DEF EntriesIn
    <3>4. y \in B <=> l2[a] > 0 /\ fs2[a].ents[m] = i
      BY <2>2, <3>2 DEF EntriesIn
    <3>5. CASE a = d
      <4>1. m # n
        BY <2>3, <2>6, <3>2, <3>5
      <4> QED BY <1>5, <3>3, <3>4, <3>5, <4>1
    <3>6. CASE a \in {j, k}
      BY <1>4, <3>3, <3>4, <3>6, FileConstants
    <3>7. CASE a # d /\ a \notin {j, k}
      BY <1>3, <3>3, <3>4, <3>7
    <3> QED BY <3>5, <3>6, <3>7
  <2>7. A \ {x} = B \ {x}
    BY <2>6
  <2>8. IsFiniteSet(A)
    BY <2>1, EntriesFinite
  <2>9. Cardinality(A) \in Nat /\ Cardinality(B) = Cardinality(A) + Ind(x \in B) - Ind(x \in A)
    BY ONLY <2>7, <2>8, CardShift
  <2>10. Ind(x \in B) = Ind(i = k) /\ Ind(x \in A) = Ind(i = j)
    BY <2>4, <2>5 DEF Ind
  <2>11. l[i] = Cardinality(A)
    BY <2>1 DEF Disk
  <2>12. l2[i] = l[i] + Ind(i = k) - Ind(i = j)
    OBVIOUS
  <2>13. l2[i] = Cardinality(B)
    BY ONLY <2>9, <2>10, <2>11, <2>12
  <2> QED BY <2>2, <2>13
<1>7. ASSUME NEW i \in Inum
      PROVE  /\ Live(fs2, l2, i) <=> Live(fs, l, i)
             /\ Live(fs, l, i) => Up2(fs2, i) = Up2(fs, i) /\ fs2[i].ents["."] = fs[i].ents["."]
  <2>1. CASE i = d
    BY <1>1, <1>5, <2>1 DEF Live, Up2
  <2>2. CASE i \in {j, k}
    BY <1>2, <2>2, FileConstants DEF Live
  <2>3. CASE i # d /\ i \notin {j, k}
    BY <1>3, <2>3 DEF Live, Up2
  <2> QED BY <2>1, <2>2, <2>3
<1>8. \A i, a \in Inum, m \in Name : Live(fs, l, a) => (fs2[i].ents[m] = a <=> fs[i].ents[m] = a)
  <2>1. \A a \in Inum : Live(fs, l, a) => a \notin {j, k}
    BY FileConstants DEF Live
  <2> QED BY <1>1, <2>1
<1>9. Tree(fs2, l2)
  <2>1. \A i \in Inum : Live(fs2, l2, i) =>
          /\ fs2[i].ents["."] = i
          /\ Up2(fs2, i) \in Inum /\ Live(fs2, l2, Up2(fs2, i))
          /\ i # ROOTINO => \E m \in Name : fs2[Up2(fs2, i)].ents[m] = i
    BY <1>7, <1>8, SMTT(30) DEF Disk, Tree
  <2>2. Live(fs2, l2, ROOTINO) /\ Up2(fs2, ROOTINO) = ROOTINO
    BY <1>7, FileConstants DEF Disk, Tree
  <2>3. \A i, a \in Inum, m \in Name : Live(fs2, l2, i) /\ Live(fs2, l2, a) /\ fs2[i].ents[m] = a =>
          /\ a # ROOTINO /\ Up2(fs2, a) = i
          /\ \A o \in Name : fs2[i].ents[o] = a => o = m
    BY <1>7, <1>8 DEF Disk, Tree
  <2> QED BY <2>1, <2>2, <2>3 DEF Tree
<1>10. Ranked(fs2, l2)
  BY <1>7 DEF Disk, Ranked
<1> QED BY <1>6, <1>9, <1>10 DEF Disk, Blank

\* A new directory f is entered into d under n.
LEMMA DiskMkdir ==
    ASSUME NEW fs \in Disks, NEW l \in Counts, NEW fs2 \in Disks, NEW l2 \in Counts, Disk(fs, l), Blank(fs2),
           NEW d \in Inum, Live(fs, l, d), NEW n \in Name, fs[d].ents[n] = None,
           NEW f \in Inum, l[f] = 0, f # d,
           fs2[f].type = "dir", fs2[f].ents["."] = f, fs2[f].ents[".."] = d, \A m \in Name : fs2[f].ents[m] = None,
           fs2[d].type = "dir", fs2[d].ents[n] = f, \A m \in Names : m # n => fs2[d].ents[m] = fs[d].ents[m],
           \A i \in Inum : i \notin {d, f} => (fs2[i].type = "dir" <=> fs[i].type = "dir") /\ fs2[i].ents = fs[i].ents,
           l2[f] = 1, l2[d] = l[d] + 1, \A i \in Inum : i \notin {d, f} => l2[i] = l[i]
    PROVE  Disk(fs2, l2)
<1>1. /\ n \in Names /\ n # "." /\ n # ".." /\ "." \in Names /\ ".." \in Names /\ Name \subseteq Names
      /\ "." # ".."
      /\ \A m \in Names : m \notin Name => m = "." \/ m = ".."
  BY FileConstants DEF Names
<1>2. l[d] \in Int /\ l[d] > 0 /\ l2[d] > 0 /\ l2[f] > 0
  <2>1. l[d] \in Int /\ l[d] > 0
    BY DEF Live, Counts
  <2>2. l2[d] > 0
    BY ONLY <2>1, l2[d] = l[d] + 1
  <2> QED BY <2>1, <2>2
<1>3. \A i \in Inum, m \in Names : m # "." /\ l[i] > 0 => fs[i].ents[m] # f
  BY EntryCounts
<1>4. ASSUME NEW i \in Inum PROVE l2[i] = Cardinality(EntriesIn(fs2, l2, i))
  <2>1. PICK A : A = EntriesIn(fs, l, i)
    OBVIOUS
  <2>2. PICK B : B = EntriesIn(fs2, l2, i)
    OBVIOUS
  <2>3. PICK x : x = IF i = d THEN <<f, "..">> ELSE <<d, n>>
    OBVIOUS
  <2>4. x \notin A
    <3>1. <<d, n>> \notin A
      BY <1>1, <2>1, FileConstants DEF EntriesIn
    <3>2. <<f, "..">> \notin A
      BY <1>1, <2>1 DEF EntriesIn
    <3> QED BY <2>3, <3>1, <3>2
  <2>5. x \in B <=> i \in {d, f}
    <3>1. <<d, n>> \in B <=> i = f
      BY <1>1, <1>2, <2>2 DEF EntriesIn
    <3>2. <<f, "..">> \in B <=> i = d
      BY <1>1, <1>2, <2>2 DEF EntriesIn
    <3> QED BY <2>3, <3>1, <3>2
  <2>6. ASSUME NEW y, y # x PROVE y \in A <=> y \in B
    <3>1. SUFFICES ASSUME y \in Inum \X (Names \ {"."}) PROVE y \in A <=> y \in B
      BY <2>1, <2>2 DEF EntriesIn
    <3>2. PICK a \in Inum, m \in Names \ {"."} : y = <<a, m>>
      BY <3>1
    <3>3. y \in A <=> l[a] > 0 /\ fs[a].ents[m] = i
      BY <2>1, <3>2 DEF EntriesIn
    <3>4. y \in B <=> l2[a] > 0 /\ fs2[a].ents[m] = i
      BY <2>2, <3>2 DEF EntriesIn
    <3>5. CASE a = d /\ m # n
      BY <1>1, <1>2, <3>3, <3>4, <3>5
    <3>6. CASE a = d /\ m = n
      <4>1. i = d
        BY <2>3, <2>6, <3>2, <3>6
      <4> QED BY <3>3, <3>4, <3>6, <4>1, FileConstants
    <3>7. CASE a = f
      <4>1. y \notin A
        BY <3>3, <3>7
      <4>2. m \in Name => y \notin B
        BY <3>4, <3>7, FileConstants
      <4>3. m = ".." => y \notin B
        BY <2>3, <2>6, <3>2, <3>4, <3>7
      <4> QED BY <1>1, <4>1, <4>2, <4>3
    <3>8. CASE a # d /\ a # f
      BY <3>3, <3>4, <3>8
    <3> QED BY <3>5, <3>6, <3>7, <3>8
  <2>7. A \ {x} = B \ {x}
    BY <2>6
  <2>8. IsFiniteSet(A)
    BY <2>1, EntriesFinite
  <2>9. Cardinality(A) \in Nat /\ Cardinality(B) = Cardinality(A) + Ind(x \in B) - Ind(x \in A)
    BY ONLY <2>7, <2>8, CardShift
  <2>10. Ind(x \in B) = (IF i \in {d, f} THEN 1 ELSE 0) /\ Ind(x \in A) = 0
    BY <2>4, <2>5 DEF Ind
  <2>11. l[i] = Cardinality(A)
    BY <2>1 DEF Disk
  <2>12. l2[i] = l[i] + (IF i \in {d, f} THEN 1 ELSE 0)
    <3>1. l[i] \in Int
      BY DEF Counts
    <3> QED BY <3>1
  <2>13. l2[i] = Cardinality(B)
    BY ONLY <2>9, <2>10, <2>11, <2>12
  <2> QED BY <2>2, <2>13
<1>5. ASSUME NEW i \in Inum, i # f
      PROVE  /\ Live(fs2, l2, i) <=> Live(fs, l, i)
             /\ Live(fs, l, i) => Up2(fs2, i) = Up2(fs, i) /\ fs2[i].ents["."] = fs[i].ents["."]
  <2>1. CASE i = d
    BY <1>1, <1>2, <2>1 DEF Live, Up2
  <2>2. CASE i # d
    BY <1>5, <2>2 DEF Live, Up2
  <2> QED BY <2>1, <2>2
<1>6. Live(fs2, l2, f) /\ Up2(fs2, f) = d /\ fs2[f].ents["."] = f /\ ~ Live(fs, l, f)
  BY <1>2 DEF Live, Up2
<1>7. \A i \in Inum, a \in Inum, m \in Name : i # f /\ a # f => (fs2[i].ents[m] = a <=> fs[i].ents[m] = a)
  BY <1>1, FileConstants
<1>8. f # ROOTINO
  BY <1>6 DEF Disk, Tree
<1>9. Tree(fs2, l2)
  <2>1. ASSUME NEW i \in Inum, Live(fs2, l2, i)
        PROVE  /\ fs2[i].ents["."] = i
               /\ Up2(fs2, i) \in Inum /\ Live(fs2, l2, Up2(fs2, i))
               /\ i # ROOTINO => \E m \in Name : fs2[Up2(fs2, i)].ents[m] = i
    <3>1. CASE i = f
      <4>1. Live(fs2, l2, d)
        BY <1>5
      <4> QED BY <1>6, <3>1, <4>1
    <3>2. CASE i # f
      <4>1. /\ Live(fs, l, i) /\ fs[i].ents["."] = i /\ Up2(fs, i) \in Inum /\ Live(fs, l, Up2(fs, i))
            /\ i # ROOTINO => \E m \in Name : fs[Up2(fs, i)].ents[m] = i
            /\ Up2(fs2, i) = Up2(fs, i) /\ fs2[i].ents["."] = fs[i].ents["."]
        BY <1>5, <2>1, <3>2 DEF Disk, Tree
      <4>2. Up2(fs, i) # f
        BY <1>6, <4>1
      <4>3. Live(fs2, l2, Up2(fs, i))
        BY <1>5, <4>1, <4>2
      <4> QED BY <1>7, <3>2, <4>1, <4>2, <4>3
    <3> QED BY <3>1, <3>2
  <2>2. Live(fs2, l2, ROOTINO) /\ Up2(fs2, ROOTINO) = ROOTINO
    BY <1>5, <1>8, FileConstants DEF Disk, Tree
  <2>3. ASSUME NEW i \in Inum, NEW a \in Inum, NEW m \in Name, Live(fs2, l2, i), Live(fs2, l2, a), fs2[i].ents[m] = a
        PROVE  /\ a # ROOTINO /\ Up2(fs2, a) = i
               /\ \A o \in Name : fs2[i].ents[o] = a => o = m
    <3>1. i # f
      BY <2>3, FileConstants
    <3>2. CASE a = f
      <4>1. \A o \in Name : fs[i].ents[o] # f
        BY <1>1, <1>3, <1>5, <2>3, <3>1 DEF Live
      <4>2. i = d
        BY <1>1, <2>3, <3>1, <3>2, <4>1
      <4>3. \A o \in Name : fs2[i].ents[o] = a => o = n
        BY <1>1, <3>2, <4>1, <4>2
      <4> QED BY <1>6, <1>8, <2>3, <3>2, <4>2, <4>3
    <3>3. CASE a # f
      <4>1. Live(fs, l, i) /\ Live(fs, l, a) /\ fs[i].ents[m] = a
        BY <1>5, <1>7, <2>3, <3>1, <3>3
      <4>2. /\ a # ROOTINO /\ Up2(fs, a) = i
            /\ \A o \in Name : fs[i].ents[o] = a => o = m
        BY <4>1 DEF Disk, Tree
      <4> QED BY <1>5, <1>7, <3>1, <3>3, <4>1, <4>2
    <3> QED BY <3>2, <3>3
  <2> QED BY <2>1, <2>2, <2>3 DEF Tree
<1>10. Ranked(fs2, l2)
  <2>1. PICK rank \in [Inum -> Nat] : \A i \in Inum : Live(fs, l, i) /\ i # ROOTINO => rank[i] < rank[Up2(fs, i)]
    BY DEF Disk, Ranked
  <2>2. PICK r2 : r2 = [i \in Inum |-> IF i = f THEN 0 ELSE rank[i] + 1]
    OBVIOUS
  <2>3. r2 \in [Inum -> Nat]
    BY <2>1, <2>2
  <2>4. ASSUME NEW i \in Inum, Live(fs2, l2, i), i # ROOTINO PROVE r2[i] < r2[Up2(fs2, i)]
    <3>1. CASE i = f
      <4>1. r2[i] = 0 /\ r2[d] = rank[d] + 1 /\ rank[d] \in Nat
        BY <2>1, <2>2, <3>1
      <4> QED BY <1>6, <3>1, <4>1
    <3>2. CASE i # f
      <4>1. Live(fs, l, i) /\ Up2(fs2, i) = Up2(fs, i) /\ Up2(fs, i) \in Inum /\ Live(fs, l, Up2(fs, i))
        BY <1>5, <2>4, <3>2 DEF Disk, Tree
      <4>2. Up2(fs, i) # f
        BY <1>6, <4>1
      <4>3. rank[i] < rank[Up2(fs, i)]
        BY <2>1, <2>4, <4>1
      <4>4. /\ r2[i] = rank[i] + 1 /\ r2[Up2(fs, i)] = rank[Up2(fs, i)] + 1 /\ rank[i] \in Nat
            /\ rank[Up2(fs, i)] \in Nat
        BY <2>1, <2>2, <3>2, <4>1, <4>2
      <4> QED BY <4>1, <4>3, <4>4
    <3> QED BY <3>1, <3>2
  <2> QED BY <2>3, <2>4 DEF Ranked
<1> QED BY <1>4, <1>9, <1>10 DEF Disk, Blank

\* A directory without entries has one link, and is not the parent of any.
LEMMA EmptyDir ==
    ASSUME NEW fs \in Disks, NEW l \in Counts, Disk(fs, l), NEW d \in Inum, Live(fs, l, d), NEW n \in Name,
           NEW f \in Inum, fs[d].ents[n] = f, Live(fs, l, f), \A m \in Name : fs[f].ents[m] = None
    PROVE  /\ l[f] = 1 /\ f # d /\ f # ROOTINO /\ Up2(fs, f) = d /\ l[d] > 1
           /\ \A i \in Inum : Live(fs, l, i) => Up2(fs, i) # f
           /\ \A i \in Inum, m \in Names : m # "." /\ l[i] > 0 /\ fs[i].ents[m] = f => i = d /\ m = n
<1>1. /\ n \in Names /\ n # "." /\ n # ".." /\ "." \in Names /\ ".." \in Names /\ Name \subseteq Names
      /\ "." # ".."
      /\ \A m \in Names : m \notin Name => m = "." \/ m = ".."
  BY FileConstants DEF Names
<1>2. f # d
  BY FileConstants
<1>3. f # ROOTINO /\ Up2(fs, f) = d /\ \A m \in Name : fs[d].ents[m] = f => m = n
  BY DEF Disk, Tree
<1>4. ASSUME NEW i \in Inum, Live(fs, l, i) PROVE Up2(fs, i) # f
  <2>1. CASE i = ROOTINO
    BY <1>3, <2>1 DEF Disk, Tree
  <2>2. CASE i # ROOTINO
    <3>1. PICK m \in Name : fs[Up2(fs, i)].ents[m] = i
      BY <1>4, <2>2 DEF Disk, Tree
    <3> QED BY <3>1, FileConstants
  <2> QED BY <2>1, <2>2
<1>5. ASSUME NEW i \in Inum, NEW m \in Names, m # ".", l[i] > 0, fs[i].ents[m] = f PROVE i = d /\ m = n
  <2>1. Live(fs, l, i)
    BY <1>5, EntryDir, FileConstants DEF Live
  <2>2. m # ".."
    BY <1>4, <1>5, <2>1 DEF Up2
  <2>3. m \in Name
    BY <1>1, <1>5, <2>2
  <2>4. Up2(fs, f) = i
    BY <1>5, <2>1, <2>3 DEF Disk, Tree
  <2> QED BY <1>3, <1>5, <2>3, <2>4
<1>6. l[f] = 1
  <2>1. <<d, n>> \in EntriesIn(fs, l, f)
    BY <1>1 DEF EntriesIn, Live
  <2>2. \A y \in EntriesIn(fs, l, f) : y = <<d, n>>
    BY <1>5 DEF EntriesIn
  <2>3. EntriesIn(fs, l, f) = {<<d, n>>}
    BY <2>1, <2>2
  <2>4. Cardinality(EntriesIn(fs, l, f)) = 1
    BY <2>3, FS_Singleton
  <2> QED BY <2>4 DEF Disk
<1>7. l[d] > 1
  <2>1. <<f, "..">> \in EntriesIn(fs, l, d)
    BY <1>1, <1>3 DEF EntriesIn, Live, Up2
  <2>2. PICK y \in EntriesIn(fs, l, d) : y # <<f, "..">>
    <3>1. CASE d = ROOTINO
      <4>1. <<d, "..">> \in EntriesIn(fs, l, d)
        BY <1>1, <3>1 DEF EntriesIn, Live, Disk, Tree, Up2
      <4>2. <<d, "..">> # <<f, "..">>
        BY <1>2
      <4> QED BY <4>1, <4>2
    <3>2. CASE d # ROOTINO
      <4>1. PICK m \in Name : fs[Up2(fs, d)].ents[m] = d
        BY <3>2 DEF Disk, Tree
      <4>2. Up2(fs, d) \in Inum /\ Live(fs, l, Up2(fs, d))
        BY DEF Disk, Tree
      <4>3. <<Up2(fs, d), m>> \in EntriesIn(fs, l, d)
        BY <1>1, <4>1, <4>2, FileConstants DEF EntriesIn, Live
      <4>4. m # ".."
        BY FileConstants
      <4>5. <<Up2(fs, d), m>> # <<f, "..">>
        BY <4>4
      <4> QED BY <4>3, <4>5
    <3> QED BY <3>1, <3>2
  <2>3. PICK A : A = EntriesIn(fs, l, d)
    OBVIOUS
  <2>4. IsFiniteSet(A) /\ Cardinality(A) \in Nat /\ l[d] = Cardinality(A)
    BY <2>3, EntriesFinite DEF Disk
  <2>5. Cardinality(A) # 0 /\ Cardinality(A) # 1
    <3>1. A # {}
      BY <2>1, <2>3
    <3>2. ~ \E x : A = {x}
      BY <2>1, <2>2, <2>3
    <3> QED BY <2>4, <3>1, <3>2, FS_EmptySet, FS_Singleton
  <2> QED BY <2>4, <2>5
<1> QED BY <1>2, <1>3, <1>4, <1>5, <1>6, <1>7

\* The entry n of d, of the directory f without entries, is erased.
LEMMA DiskRmdir ==
    ASSUME NEW fs \in Disks, NEW l \in Counts, NEW fs2 \in Disks, NEW l2 \in Counts, Disk(fs, l), Blank(fs2),
           NEW d \in Inum, Live(fs, l, d), NEW n \in Name,
           NEW f \in Inum, fs[d].ents[n] = f, Live(fs, l, f), \A m \in Name : fs[f].ents[m] = None,
           fs2[d].type = "dir", fs2[d].ents[n] = None, \A m \in Names : m # n => fs2[d].ents[m] = fs[d].ents[m],
           \A i \in Inum : i # d => (fs2[i].type = "dir" <=> fs[i].type = "dir") /\ fs2[i].ents = fs[i].ents,
           l2[f] = l[f] - 1, l2[d] = l[d] - 1, \A i \in Inum : i \notin {d, f} => l2[i] = l[i]
    PROVE  Disk(fs2, l2)
<1>1. /\ n \in Names /\ n # "." /\ n # ".." /\ "." \in Names /\ ".." \in Names /\ Name \subseteq Names
      /\ "." # ".."
      /\ \A m \in Names : m \notin Name => m = "." \/ m = ".."
  BY FileConstants DEF Names
<1>2. /\ l[f] = 1 /\ f # d /\ f # ROOTINO /\ Up2(fs, f) = d /\ l[d] > 1
      /\ \A i \in Inum : Live(fs, l, i) => Up2(fs, i) # f
      /\ \A i \in Inum, m \in Names : m # "." /\ l[i] > 0 /\ fs[i].ents[m] = f => i = d /\ m = n
  BY EmptyDir
<1>3. l[d] \in Int /\ l2[d] > 0 /\ l2[f] = 0
  <2>1. l[d] \in Int
    BY DEF Counts
  <2>2. l2[d] > 0
    BY ONLY <1>2, <2>1, l2[d] = l[d] - 1
  <2>3. l2[f] = 0
    BY <1>2
  <2> QED BY <2>1, <2>2, <2>3
<1>4. ASSUME NEW i \in Inum PROVE l2[i] = Cardinality(EntriesIn(fs2, l2, i))
  <2>1. PICK A : A = EntriesIn(fs, l, i)
    OBVIOUS
  <2>2. PICK B : B = EntriesIn(fs2, l2, i)
    OBVIOUS
  <2>3. PICK x : x = IF i = d THEN <<f, "..">> ELSE <<d, n>>
    OBVIOUS
  <2>4. x \notin B
    <3>1. <<d, n>> \notin B
      BY <1>1, <2>2, FileConstants DEF EntriesIn
    <3>2. <<f, "..">> \notin B
      BY <1>1, <1>3, <2>2 DEF EntriesIn
    <3> QED BY <2>3, <3>1, <3>2
  <2>5. x \in A <=> i \in {d, f}
    <3>1. <<d, n>> \in A <=> i = f
      BY <1>1, <1>2, <2>1 DEF EntriesIn, Live
    <3>2. <<f, "..">> \in A <=> i = d
      BY <1>1, <1>2, <2>1 DEF EntriesIn, Live, Up2
    <3> QED BY <2>3, <3>1, <3>2
  <2>6. ASSUME NEW y, y # x PROVE y \in A <=> y \in B
    <3>1. SUFFICES ASSUME y \in Inum \X (Names \ {"."}) PROVE y \in A <=> y \in B
      BY <2>1, <2>2 DEF EntriesIn
    <3>2. PICK a \in Inum, m \in Names \ {"."} : y = <<a, m>>
      BY <3>1
    <3>3. y \in A <=> l[a] > 0 /\ fs[a].ents[m] = i
      BY <2>1, <3>2 DEF EntriesIn
    <3>4. y \in B <=> l2[a] > 0 /\ fs2[a].ents[m] = i
      BY <2>2, <3>2 DEF EntriesIn
    <3>5. CASE a = d /\ m # n
      BY <1>3, <3>3, <3>4, <3>5 DEF Live
    <3>6. CASE a = d /\ m = n
      <4>1. i = d
        BY <2>3, <2>6, <3>2, <3>6
      <4> QED BY <1>2, <3>3, <3>4, <3>6, <4>1, FileConstants
    <3>7. CASE a = f
      <4>1. y \notin B
        BY <1>3, <3>4, <3>7
      <4>2. m \in Name => y \notin A
        BY <3>3, <3>7, FileConstants
      <4>3. m = ".." => y \notin A
        BY <1>2, <2>3, <2>6, <3>2, <3>3, <3>7 DEF Up2
      <4> QED BY <1>1, <4>1, <4>2, <4>3
    <3>8. CASE a # d /\ a # f
      BY <3>3, <3>4, <3>8
    <3> QED BY <3>5, <3>6, <3>7, <3>8
  <2>7. A \ {x} = B \ {x}
    BY <2>6
  <2>8. IsFiniteSet(A)
    BY <2>1, EntriesFinite
  <2>9. /\ Cardinality(A) \in Nat /\ Cardinality(B) \in Nat
        /\ Cardinality(B) = Cardinality(A) + Ind(x \in B) - Ind(x \in A)
    BY ONLY <2>7, <2>8, CardShift
  <2>10. Ind(x \in A) = (IF i \in {d, f} THEN 1 ELSE 0) /\ Ind(x \in B) = 0
    BY <2>4, <2>5 DEF Ind
  <2>11. l[i] = Cardinality(A)
    BY <2>1 DEF Disk
  <2>12. l2[i] = l[i] - (IF i \in {d, f} THEN 1 ELSE 0)
    <3>1. l[i] \in Int
      BY DEF Counts
    <3> QED BY <3>1
  <2>13. l2[i] = Cardinality(B)
    BY ONLY <2>9, <2>10, <2>11, <2>12
  <2> QED BY <2>2, <2>13
<1>5. ASSUME NEW i \in Inum, i # f
      PROVE  /\ Live(fs2, l2, i) <=> Live(fs, l, i)
             /\ Live(fs, l, i) => Up2(fs2, i) = Up2(fs, i) /\ fs2[i].ents["."] = fs[i].ents["."]
  <2>1. CASE i = d
    BY <1>1, <1>3, <2>1 DEF Live, Up2
  <2>2. CASE i # d
    BY <1>5, <2>2 DEF Live, Up2
  <2> QED BY <2>1, <2>2
<1>6. ~ Live(fs2, l2, f)
  BY <1>3 DEF Live
<1>7. \A i \in Inum, a \in Inum, m \in Name : a # f => (fs2[i].ents[m] = a <=> fs[i].ents[m] = a)
  BY <1>1, FileConstants
<1>9. Tree(fs2, l2)
  <2>1. ASSUME NEW i \in Inum, Live(fs2, l2, i)
        PROVE  /\ fs2[i].ents["."] = i
               /\ Up2(fs2, i) \in Inum /\ Live(fs2, l2, Up2(fs2, i))
               /\ i # ROOTINO => \E m \in Name : fs2[Up2(fs2, i)].ents[m] = i
    <3>0. i # f
      BY <1>6, <2>1
    <3>1. /\ Live(fs, l, i) /\ fs[i].ents["."] = i /\ Up2(fs, i) \in Inum /\ Live(fs, l, Up2(fs, i))
          /\ i # ROOTINO => \E m \in Name : fs[Up2(fs, i)].ents[m] = i
          /\ Up2(fs2, i) = Up2(fs, i) /\ fs2[i].ents["."] = fs[i].ents["."]
      BY <1>5, <2>1, <3>0 DEF Disk, Tree
    <3>2. Up2(fs, i) # f
      BY <1>2, <3>1
    <3>3. Live(fs2, l2, Up2(fs, i))
      BY <1>5, <3>1, <3>2
    <3> QED BY <1>7, <3>0, <3>1, <3>3
  <2>2. Live(fs2, l2, ROOTINO) /\ Up2(fs2, ROOTINO) = ROOTINO
    BY <1>2, <1>5, FileConstants DEF Disk, Tree
  <2>3. ASSUME NEW i \in Inum, NEW a \in Inum, NEW m \in Name, Live(fs2, l2, i), Live(fs2, l2, a), fs2[i].ents[m] = a
        PROVE  /\ a # ROOTINO /\ Up2(fs2, a) = i
               /\ \A o \in Name : fs2[i].ents[o] = a => o = m
    <3>1. i # f /\ a # f
      BY <1>6, <2>3
    <3>2. Live(fs, l, i) /\ Live(fs, l, a) /\ fs[i].ents[m] = a
      BY <1>5, <1>7, <2>3, <3>1
    <3>3. /\ a # ROOTINO /\ Up2(fs, a) = i
          /\ \A o \in Name : fs[i].ents[o] = a => o = m
      BY <3>2 DEF Disk, Tree
    <3> QED BY <1>5, <1>7, <3>1, <3>2, <3>3
  <2> QED BY <2>1, <2>2, <2>3 DEF Tree
<1>10. Ranked(fs2, l2)
  <2>1. PICK rank \in [Inum -> Nat] : \A i \in Inum : Live(fs, l, i) /\ i # ROOTINO => rank[i] < rank[Up2(fs, i)]
    BY DEF Disk, Ranked
  <2>2. ASSUME NEW i \in Inum, Live(fs2, l2, i), i # ROOTINO PROVE rank[i] < rank[Up2(fs2, i)]
    BY <1>5, <1>6, <2>1, <2>2
  <2> QED BY <2>1, <2>2 DEF Ranked
<1> QED BY <1>4, <1>9, <1>10 DEF Disk, Blank

-----------------------------------------------------------------------------
(* The calls that change the disk.                                         *)

\* The links when p goes on as c.
LEMMA LinksNew ==
    ASSUME Accounted, NEW p \in Proc, NEW c, call' = [call EXCEPT ![p] = c], inode' \in Disks
    PROVE  /\ inode \in Disks /\ links \in Counts /\ links' \in Counts
           /\ \A i \in Inum : /\ inode[i].nlink \in Int /\ inode'[i].nlink \in Int /\ links[i] \in Int
                              /\ links'[i] = inode'[i].nlink - inode[i].nlink + links[i] + Owes(call[p], i) - Owes(c, i)
<1>1. inode \in Disks
  BY DEF Accounted, TypeOK, Disks
<1>2. ASSUME NEW i \in Inum
      PROVE  /\ inode[i].nlink \in Int /\ inode'[i].nlink \in Int /\ links[i] \in Int /\ links'[i] \in Int
             /\ links'[i] = inode'[i].nlink - inode[i].nlink + links[i] + Owes(call[p], i) - Owes(c, i)
  <2>1. inode'[i].nlink \in Int
    BY DEF Disks, InodeType
  <2>2. links[i] \in Int /\ inode[i].nlink \in Int
    BY LinksInt
  <2>3. links'[i] = inode'[i].nlink - inode[i].nlink + links[i] + Owes(call[p], i) - Owes(c, i)
    BY <2>1, LinksMove
  <2>4. Owes(call[p], i) \in Int /\ Owes(c, i) \in Int
    BY DEF Owes
  <2>5. links'[i] \in Int
    BY ONLY <2>1, <2>2, <2>3, <2>4
  <2> QED BY <2>1, <2>2, <2>3, <2>5
<1>3. links \in Counts /\ links' \in Counts
  <2>1. links = [i \in Inum |-> links[i]] /\ links' = [i \in Inum |-> links'[i]]
    BY DEF links
  <2>2. \A i \in Inum : links[i] \in Int /\ links'[i] \in Int
    BY <1>2
  <2> QED BY <2>1, <2>2 DEF Counts
<1> QED BY <1>1, <1>2, <1>3

\* As in Touches, Gains and Leaves, for a step that keeps the references.
SameRefs(tab) == \A k \in Inum : tab[k].ref = itable[k].ref

\* What p may change on the disk.
Changes(p, fs) == \A k \in Inum :
    /\ fs[k] # inode[k] => Uses(call[p], k) \/ inode[k].type = "free"
    /\ fs[k].type # inode[k].type =>
          inode[k].type = "free" \/ (Has(call[p], k) /\ Uses(call[p], k) /\ itable[k].ref = 1)
    /\ fs[k].ents # inode[k].ents => itable[k].lock \in {p, None} \/ inode[k].type = "free"
    /\ Live(inode, links, k) => links'[k] > 0 \/ (Has(call[p], k) /\ itable[k].ref = 1)

\* What p may go on with.
Onwards(p, e) == e.pc # "trunc" /\ \A k \in Inum : Uses(e, k) => Uses(call[p], k) \/ inode[k].type = "free"

\* An inode without links was read, or is being created.
Unlinks(p, fs, tab, e) == \A k \in Inum :
    /\ fs[k].type # "free" /\ fs[k].nlink = 0 /\ New(e) # k =>
          \/ tab[k].ref > 0 /\ tab[k].valid
          \/ inode[k].type # "free" /\ inode[k].nlink = 0 /\ New(call[p]) # k /\ (itable[k].valid => tab[k].valid)
    /\ New(e) = k => tab[k].ref > 0 \/ e.inum = k

\* A step that changes the disk.
LEMMA WriteConsistent ==
    ASSUME Accounted, Consistent, NEW p \in Proc, NEW fs, NEW tab \in [Inum -> EntryType], NEW e, Write(p, fs, tab, e),
           SameRefs(tab), Changes(p, fs), Onwards(p, e), LockTo(tab, p, e), Unlinks(p, fs, tab, e),
           Disk(fs, links'), Cached(fs, tab), Knows(fs, links', e), Fresh(call', ftable, p)
    PROVE  Consistent'
<1>1. /\ inode' = fs /\ itable' = tab /\ call' = [call EXCEPT ![p] = e]
      /\ UNCHANGED <<ftable, ofile, cwd, orphans, missed>>
  BY DEF Write, Become
<1>2. Touches(p)
  BY <1>1 DEF Touches, Changes, SameRefs
<1>3. Gains(p, e) /\ LockMoves(p, e) /\ CwdFrom /\ FilesIn(p)
  BY <1>1 DEF Onwards, Gains, LockMoves, LockTo, CwdFrom, FilesIn, FilesFrom
<1>4. Leaves(p, e)
  <2>1. SUFFICES ASSUME NEW k \in Inum, fs[k].type # "free", fs[k].nlink = 0, k \notin orphans \cup missed
                 PROVE  /\ tab[k].ref > 0 /\ ~ tab[k].valid =>
                              \/ New(e) = k
                              \/ inode[k].type # "free" /\ inode[k].nlink = 0 /\ itable[k].ref > 0 /\ ~ itable[k].valid
                                 /\ k \notin orphans \cup missed /\ New(call[p]) # k
                        /\ tab[k].ref = 0 /\ e.inum # k =>
                              inode[k].type # "free" /\ inode[k].nlink = 0 /\ itable[k].ref = 0 /\ call[p].inum # k
    BY <1>1 DEF Leaves
  <2>2. tab[k].ref = itable[k].ref
    BY DEF SameRefs
  <2>3. New(e) = k => tab[k].ref > 0 \/ e.inum = k
    BY DEF Unlinks
  <2>4. New(e) # k => \/ tab[k].ref > 0 /\ tab[k].valid
                      \/ inode[k].type # "free" /\ inode[k].nlink = 0 /\ New(call[p]) # k /\ (itable[k].valid => tab[k].valid)
    BY <2>1 DEF Unlinks
  <2>5. New(call[p]) # k => call[p].inum # k
    <3>1. Shape(call[p])
      BY CallOf
    <3>2. call[p].inum = k => call[p].pc = "iget"
      BY <3>1, FileConstants DEF Shape
    <3> QED BY <3>2 DEF New
  <2>6. tab[k].ref > 0 \/ tab[k].ref = 0
    BY DEF EntryType
  <2>7. ~ (tab[k].ref > 0 /\ tab[k].ref = 0)
    BY DEF EntryType
  <2> QED BY <2>1, <2>2, <2>3, <2>4, <2>5, <2>6, <2>7
<1>5. Disk(inode', links') /\ Cached(inode', itable') /\ Knows(inode', links', e) /\ Fresh(call', ftable', p)
  BY <1>1
<1>6. e.pc # "trunc"
  BY DEF Onwards
<1> QED BY <1>1, <1>2, <1>3, <1>4, <1>5, <1>6, StepConsistent

\* A call gives up at its first look at an inode.
LEMMA LastSeenConsistent ==
    ASSUME Accounted, Consistent, NEW p \in Proc, call[p].pc \in {"chdir", "link", "unlink"},
           NEW i \in Inum, call[p].ip = i \/ call[p].dp = i, Write(p, inode, Seen(i), Last(i))
    PROVE  Consistent'
<1>1. PICK c : c = call[p]
  OBVIOUS
<1>2. PICK e : e = Last(i)
  OBVIOUS
<1>3. e \in CallType /\ e.pc = "put" /\ e.put = i /\ e.ret = "end" /\ e.op = "none" /\ e.path = <<>>
      /\ e.at = None /\ e.ip = None /\ e.dp = None /\ e.inum = None
  BY <1>2, LastRecord
<1>4. c.pc \in {"chdir", "link", "unlink"} /\ (c.ip = i \/ c.dp = i)
  BY <1>1
<1>5. Knows(inode, links, c)
  BY <1>1 DEF Consistent
<1>6. inode[i].type # "free"
  BY <1>4, <1>5 DEF Knows, Uses
<1>7. Follows(call[p], e, None)
  BY <1>1, <1>3, <1>4, FileConstants DEF Follows, Owes, Pending, Place, Puts, Uses, New
<1>8. SameHolds(call[p], e)
  BY <1>1, <1>3, <1>4, FileConstants DEF SameHolds, Holds, HoldIp, HoldDp, Place, Puts
<1>9. Knows(inode, links, e)
  BY <1>3, <1>6, FileConstants DEF Knows, Uses, Firm, Pending, New, Place, Puts
<1>10. Write(p, inode, Seen(i), e)
  BY <1>2
<1> QED BY <1>6, <1>7, <1>8, <1>9, <1>10, SeenConsistent

\* The fields of an inode without those that stay.
Recount(fs, i, k) ==
    /\ fs \in Disks /\ fs[i].nlink = inode[i].nlink + k
    /\ fs[i].type = inode[i].type /\ fs[i].ents = inode[i].ents
    /\ \A j \in Inum : j # i => fs[j] = inode[j]

\* The table with k links of i more.
RecountTable(tab, i, k) ==
    /\ tab[i].valid /\ tab[i].type = inode[i].type /\ tab[i].nlink = inode[i].nlink + k
    /\ \A j \in Inum : j # i => tab[j] = itable[j]

\* The call owes k links of i more than before.
Owed(c, e, i, k) == \A j \in Inum : Owes(e, j) = Owes(c, j) + IF j = i THEN k ELSE 0

\* The count of an inode changes, and what p owes changes with it.
LEMMA CountConsistent ==
    ASSUME Accounted, Consistent, NEW p \in Proc, NEW i \in Inum, NEW k \in Int, NEW fs, NEW tab \in [Inum -> EntryType],
           NEW e, Write(p, fs, tab, e), Recount(fs, i, k), RecountTable(tab, i, k), SameRefs(tab),
           Has(call[p], i), Uses(call[p], i), Owed(call[p], e, i, k),
           \A j \in Inum : Uses(e, j) => Uses(call[p], j),
           New(e) = None, New(call[p]) = None, e.pc # "trunc", e.dp = None,
           Pending(e) => e.ip \in Inum, Place(e) \notin {"ialloc", "iget", "fill", "unlink_ip"},
           LockTo(tab, p, e), Knows(inode, links, e)
    PROVE  Consistent'
<1>1. inode' = fs /\ call' = [call EXCEPT ![p] = e]
  BY DEF Write, Become
<1>2. fs \in Disks
  BY DEF Recount
<1>3. /\ inode \in Disks /\ links \in Counts /\ links' \in Counts
      /\ \A j \in Inum : /\ inode[j].nlink \in Int /\ fs[j].nlink \in Int /\ links[j] \in Int
                         /\ links'[j] = fs[j].nlink - inode[j].nlink + links[j] + Owes(call[p], j) - Owes(e, j)
  BY <1>1, <1>2, LinksNew
<1>4. \A j \in Inum : links'[j] = links[j]
  <2>1. TAKE j \in Inum
  <2>2. /\ inode[j].nlink \in Int /\ links[j] \in Int
        /\ links'[j] = fs[j].nlink - inode[j].nlink + links[j] + Owes(call[p], j) - Owes(e, j)
    BY <1>3
  <2>3. Owes(call[p], j) \in Int
    BY DEF Owes
  <2>4. CASE j = i
    <3>1. fs[j].nlink = inode[j].nlink + k /\ Owes(e, j) = Owes(call[p], j) + k /\ k \in Int
      BY <2>4 DEF Recount, Owed
    <3> QED BY ONLY <2>2, <2>3, <3>1
  <2>5. CASE j # i
    <3>1. fs[j].nlink = inode[j].nlink /\ Owes(e, j) = Owes(call[p], j) + 0
      BY <2>5 DEF Recount, Owed
    <3> QED BY ONLY <2>2, <2>3, <3>1
  <2> QED BY <2>4, <2>5
<1>5. Knows(inode, links, call[p]) /\ Disk(inode, links) /\ Cached(inode, itable)
  BY DEF Consistent
<1>6. inode[i].type # "free"
  BY <1>5 DEF Knows
<1>7. \A j \in Inum : fs[j].type = inode[j].type /\ fs[j].ents = inode[j].ents
  BY DEF Recount
<1>8. Disk(fs, links')
  <2>1. Blank(fs)
    BY <1>5, <1>6, <1>7 DEF Recount, Blank, Disk
  <2> QED BY <1>2, <1>3, <1>4, <1>5, <1>7, <2>1, DiskSame
<1>9. Changes(p, fs)
  BY <1>4, <1>7 DEF Recount, Changes, Live
<1>10. Onwards(p, e)
  BY DEF Onwards
<1>11. \A j \in Inum : tab[j].ref = itable[j].ref
  BY DEF SameRefs
<1>12. itable[i].ref > 0
  BY HasRef
<1>13. Unlinks(p, fs, tab, e)
  BY <1>11, <1>12, FileConstants DEF Recount, RecountTable, Unlinks
<1>14. Cached(fs, tab)
  BY <1>5, <1>6, <1>11 DEF Recount, RecountTable, Cached
<1>15. Knows(fs, links', e)
  <2>1. New(e) = None /\ Knows(inode, links, e)
    OBVIOUS
  <2> QED BY <1>4, <1>7, <2>1 DEF Knows
<1>16. Fresh(call', ftable, p)
  <2>1. call'[p] = e
    BY <1>1 DEF Accounted, TypeOK
  <2> QED BY <2>1 DEF Fresh
<1> QED BY <1>8, <1>9, <1>10, <1>13, <1>14, <1>15, <1>16, WriteConsistent

\* Entries of the table that keep what is read, and the references of inodes
\* without links.
TabHolds(tab) == \A k \in Inum : /\ itable[k].valid => tab[k].valid
                                 /\ tab[k].ref = itable[k].ref \/ inode[k].nlink > 0

\* Directories as before, or named.
CwdLinked(w) == \A q \in Proc : w[q] # None => w[q] = cwd[q] \/ Live(inode, links, w[q])

\* Files as before, or allocated and from the call.
FilesLinked(p, ft) == \A f \in File : ft[f].ref > 0 =>
    (ftable[f].ref > 0 /\ ftable[f].ip = ft[f].ip) \/ (Uses(call[p], ft[f].ip) /\ inode[ft[f].ip].type # "free")

\* A step that leaves the disk alone, and changes files and directories of p.
LEMMA FilesConsistent ==
    ASSUME Accounted, Consistent, NEW p \in Proc, NEW e, call' = [call EXCEPT ![p] = e],
           inode' = inode, orphans' = orphans, missed' = missed,
           TabHolds(itable'), Cached(inode, itable'), LockTo(itable', p, e),
           CwdLinked(cwd'), FilesLinked(p, ftable'), Gains(p, e), Knows(inode, links, e),
           \A k \in Inum : Owes(e, k) = Owes(call[p], k),
           New(e) = None, New(call[p]) = None, call[p].inum = None, e.pc # "trunc"
    PROVE  Consistent'
<1>1. links' = links /\ Disk(inode', links')
  BY Quiet
<1>2. Touches(p)
  <2>1. \A k \in Inum : Live(inode, links, k) => links[k] > 0
    BY DEF Live
  <2> QED BY <1>1, <2>1 DEF Touches, TabHolds
<1>3. LockMoves(p, e)
  BY DEF LockMoves, LockTo
<1>4. Leaves(p, e)
  <2>1. \A k \in Inum : inode[k].nlink = 0 => itable'[k].ref = itable[k].ref
    BY DEF TabHolds
  <2> QED BY <2>1, FileConstants DEF Leaves, TabHolds
<1>5. CwdFrom
  BY <1>1 DEF CwdFrom, CwdLinked
<1>6. FilesIn(p)
  BY DEF FilesIn, FilesFrom, FilesLinked
<1>7. Cached(inode', itable') /\ Knows(inode', links', e)
  BY <1>1
<1>8. Fresh(call', ftable', p)
  <2>1. call'[p] = e
    BY DEF Accounted, TypeOK
  <2> QED BY <2>1 DEF Fresh
<1> QED BY <1>1, <1>2, <1>3, <1>4, <1>5, <1>6, <1>7, <1>8, StepConsistent

\* A process outside the calls that hold locks takes and gives back none.
LEMMA NoLocks ==
    ASSUME Accounted, Consistent, NEW p \in Proc, NEW e, \A k \in Inum : ~ Holds(e, k), \A k \in Inum : ~ Holds(call[p], k),
           \A k \in Inum : itable'[k].lock = itable[k].lock
    PROVE  LockTo(itable', p, e)
  BY HeldBy DEF LockTo

\* What is current, open or used is allocated.
LEMMA CwdLinks ==
    ASSUME Accounted, Consistent, NEW p \in Proc, NEW o \in Inum, cwd[p] = o
    PROVE  Live(inode, links, o) /\ inode[o].nlink > 0 /\ inode[o].type # "free"
<1>1. Live(inode, links, o)
  BY FileConstants DEF Consistent, CwdLive
<1>2. links[o] > 0
  BY <1>1 DEF Live
<1> QED BY <1>1, <1>2, LinkedUsed

\* iunlockput(ip) keeps both invariants.
LEMMA UnlockPutIpKeeps ==
    ASSUME Accounted, NEW p \in Proc, UnlockPutIp(p)
    PROVE  Accounted' /\ (Consistent => Consistent')
<1>1. PICK c : c = call[p]
  OBVIOUS
<1>2. c \in CallType /\ Shape(c) /\ c.pc = "unlockput_ip"
  BY <1>1, CallOf DEF UnlockPutIp, At
<1>3. /\ c.ip \in Inum /\ c.at = None /\ c.dp = None /\ c.put = None /\ Alive(c)
  BY <1>2, CallFields DEF Shape, Place, Puts, HasDp, HasIp, Alive
<1>4. \A i \in Inum : Ptr(Last(c.ip), i) = Ptr(c, i)
  BY <1>3, PtrLast, FileConstants DEF Ptr, Ind
<1>5. Write(p, inode, SetLock(itable, c.ip, None), Last(c.ip))
  BY <1>1 DEF UnlockPutIp, Step, SetLock
<1>6. inode \in [Inum -> InodeType] /\ itable \in [Inum -> EntryType]
  BY DEF Accounted, TypeOK
<1>7. /\ SetLock(itable, c.ip, None) \in [Inum -> EntryType]
      /\ \A i \in Inum : SetLock(itable, c.ip, None)[i].ref = itable[i].ref
  <2>1. itable \in [Inum -> EntryType] /\ c.ip \in Inum /\ None \in Owner
    BY <1>3, <1>6 DEF Owner
  <2> QED BY ONLY <2>1, LockTable
<1>8. Last(c.ip) \in CallType /\ Shape(Last(c.ip)) /\ Alive(Last(c.ip))
  BY <1>3, LastRecord, ShapeLast
<1>20. Accounted'
  BY <1>1, <1>3, <1>4, <1>5, <1>6, <1>7, <1>8, WriteAccounted
<1>21. ASSUME Consistent PROVE Consistent'
  <2>1. Knows(inode, links, c)
    BY <1>1, <1>21 DEF Consistent
  <2>0. PICK e : e = Last(c.ip)
    OBVIOUS
  <2>7. /\ e.pc = "put" /\ e.op = "none" /\ e.at = None /\ e.ip = None /\ e.dp = None /\ e.inum = None
        /\ e.put = c.ip /\ e.ret = "end"
    BY <1>3, <2>0, LastRecord
  <2>2. Follows(call[p], e, None)
    BY <1>1, <1>2, <1>3, <2>7, FileConstants DEF Follows, Owes, Pending, Place, Puts, Uses, New
  <2>3. AlsoHolds(e, call[p], c.ip) /\ ~ Holds(e, c.ip)
    BY <1>1, <1>2, <1>3, <2>7, FileConstants DEF AlsoHolds, Holds, HoldIp, HoldDp, Place, Puts
  <2>4. Knows(inode, links, e)
    BY <2>1, <1>2, <1>3, <2>7, FileConstants DEF Knows, Uses, Firm, Pending, New, Place, Puts
  <2> QED BY <1>1, <1>21, <1>5, <2>0, <1>2, <1>3, <2>7, <2>2, <2>3, <2>4, UnlockConsistent
<1> QED BY <1>20, <1>21

\* iunlockput(dp) keeps both invariants.
LEMMA UnlockPutDpKeeps ==
    ASSUME Accounted, NEW p \in Proc, UnlockPutDp(p)
    PROVE  Accounted' /\ (Consistent => Consistent')
<1>1. PICK c : c = call[p]
  OBVIOUS
<1>2. c \in CallType /\ Shape(c) /\ c.pc = "unlockput_dp"
  BY <1>1, CallOf DEF UnlockPutDp, At
<1>3. /\ c.dp \in Inum /\ c.ip \in Inum \cup {None} /\ c.at = None /\ c.put = None /\ Alive(c)
  BY <1>2, CallFields DEF Shape, Place, Puts, HasDp, HasIp, Alive
<1>4. PICK r : r = IF c.ip = None THEN "end" ELSE "link_undo"
  OBVIOUS
<1>5. PICK e : e = Iput(Only(c.ip), c.dp, r)
  OBVIOUS
<1>6. /\ e \in CallType /\ e.pc = "put" /\ e.put = c.dp /\ e.ret = r /\ e.op = "none" /\ e.path = <<>>
      /\ e.at = None /\ e.ip = c.ip /\ e.dp = None /\ e.inum = None
  <2>1. r \in Rets
    BY <1>4 DEF Rets
  <2>2. Only(c.ip) \in CallType
    BY <1>3, OnlyRecord
  <2> QED BY <1>3, <1>5, <2>1, <2>2, IputRecord, OnlyRecord
<1>7. Shape(e) /\ Alive(e)
  BY <1>3, <1>4, <1>6, FileConstants
     DEF Shape, Place, Puts, Rets, HasDp, HasIp, MayIp, Making, Onward, Alive
<1>8. \A i \in Inum : Ptr(e, i) = Ptr(c, i)
  BY <1>3, <1>6, FileConstants DEF Ptr, Ind
<1>9. Write(p, inode, SetLock(itable, c.dp, None), e)
  BY <1>1, <1>4, <1>5 DEF UnlockPutDp, Step, SetLock
<1>10. inode \in [Inum -> InodeType] /\ itable \in [Inum -> EntryType]
  BY DEF Accounted, TypeOK
<1>11. /\ SetLock(itable, c.dp, None) \in [Inum -> EntryType]
       /\ \A i \in Inum : SetLock(itable, c.dp, None)[i].ref = itable[i].ref
  <2>1. itable \in [Inum -> EntryType] /\ c.dp \in Inum /\ None \in Owner
    BY <1>3, <1>10 DEF Owner
  <2> QED BY ONLY <2>1, LockTable
<1>20. Accounted'
  BY <1>1, <1>3, <1>6, <1>7, <1>8, <1>9, <1>10, <1>11, WriteAccounted
<1>21. ASSUME Consistent PROVE Consistent'
  <2>1. Knows(inode, links, c)
    BY <1>1, <1>21 DEF Consistent
  <2>2. Follows(call[p], e, None)
    BY <1>1, <1>2, <1>3, <1>4, <1>6, FileConstants DEF Follows, Owes, Pending, Place, Puts, Uses, New
  <2>3. AlsoHolds(e, call[p], c.dp) /\ ~ Holds(e, c.dp)
    BY <1>1, <1>2, <1>3, <1>4, <1>6, FileConstants DEF AlsoHolds, Holds, HoldIp, HoldDp, Place, Puts
  <2>4. Knows(inode, links, e)
    BY <2>1, <1>2, <1>3, <1>4, <1>6, FileConstants DEF Knows, Uses, Firm, Pending, New, Place, Puts
  <2> QED BY <1>1, <1>21, <1>9, <1>2, <1>3, <1>4, <1>6, <2>2, <2>3, <2>4, UnlockConsistent
<1> QED BY <1>20, <1>21

\* The head and the tail of a path.
LEMMA PathSeq ==
    ASSUME NEW s \in Seq(Names), s # <<>>
    PROVE  /\ Head(s) \in Names /\ Tail(s) \in Seq(Names) /\ Len(s) # 1 => Tail(s) # <<>>
<1>1. Head(s) \in Names /\ Tail(s) \in Seq(Names)
  OBVIOUS
<1>2. Len(Tail(s)) = Len(s) - 1 /\ Len(s) \in Nat /\ Len(s) # 0
  OBVIOUS
<1>3. Len(s) # 1 => Tail(s) # <<>>
  <2>1. Len(<<>>) = 0
    OBVIOUS
  <2>2. Len(s) # 1 => Len(Tail(s)) # 0
    BY ONLY <1>2
  <2> QED BY <2>1, <2>2, ZenonT(20)
<1> QED BY <1>1, <1>3

\* A turn of namex() keeps both invariants.
LEMMA NamexKeeps == ASSUME Accounted, NEW p \in Proc, Namex(p) PROVE Accounted' /\ (Consistent => Consistent')
<1>1. PICK c : c = call[p]
  OBVIOUS
<1>2. c \in CallType /\ Shape(c) /\ c.pc = "walk"
  BY <1>1, CallOf DEF Namex, Ilock, At
<1>3. /\ c.at \in Inum /\ c.ip \in Inum \cup {None} /\ c.dp = None /\ c.put = None /\ c.inum = None
      /\ c.path \in Seq(Names) /\ c.path # <<>> /\ Alive(c)
      /\ c.op \in {"open", "create", "mkdir", "chdir", "link", "unlink"}
      /\ c.ip # None => c.op = "link"
      /\ c.op = "link" /\ c.ip = None => c.new \in Path
  BY <1>2, CallFields, FileConstants DEF Shape, Place, Puts, Rets, HasDp, HasIp, MayIp, Making, Onward, Alive
<1>4. inode \in [Inum -> InodeType] /\ itable \in [Inum -> EntryType] /\ TypeOK
  BY DEF Accounted, TypeOK
<1>5. PICK i : i = c.at
  OBVIOUS
<1>6. PICK j : j = Dirlookup(i, Head(c.path))
  OBVIOUS
<1>7. /\ i \in Inum /\ j \in Inum \cup {None} /\ Head(c.path) \in Names
      /\ Tail(c.path) \in Seq(Names) /\ Len(c.path) # 1 => Tail(c.path) # <<>>
  <2>1. Head(c.path) \in Names /\ Tail(c.path) \in Seq(Names) /\ Len(c.path) # 1 => Tail(c.path) # <<>>
    BY <1>3, PathSeq
  <2> QED BY <1>3, <1>4, <1>5, <1>6, <2>1 DEF Dirlookup, InodeType
<1>8. /\ Seen(i) \in [Inum -> EntryType]
      /\ \A k \in Inum : Seen(i)[k].ref = itable[k].ref
  BY <1>4, <1>7, SeenTable
<1>9. CASE Fault(p) # "no"
  BY <1>9, PanicAccounted, PanicConsistent DEF Namex, Ilock, Panic, AllButPanic
<1>10. CASE Fault(p) = "no" /\ Loaded(i).type = "dir" /\ Parent(c) /\ Len(c.path) = 1
  <2>1. /\ Found(c) \in {"create", "link_dir", "unlink"}
        /\ Found(c) = "create" => c.op \in {"create", "mkdir"} /\ c.ip = None
        /\ Found(c) = "link_dir" => c.op = "link" /\ c.ip # None
        /\ Found(c) = "unlink" => c.op = "unlink" /\ c.ip = None
    BY <1>3, <1>10 DEF Found, Parent, Second
  <2>2. Found(c) \in (Places \ {"put_ip"}) \cup Puts
    BY <2>1 DEF Places, Rets
  <2>11. PICK e : e = [c EXCEPT !.pc = Found(c), !.dp = i, !.at = None]
    OBVIOUS
  <2>12. e \in CallType /\ e.pc = Found(c) /\ e.dp = i /\ e.at = None /\ e.ip = c.ip
        /\ e.op = c.op /\ e.path = c.path /\ e.new = c.new /\ e.inum = None /\ e.put = None /\ e.ret = c.ret
    BY <1>2, <1>3, <1>7, <2>1, <2>2, <2>11 DEF CallType
  <2>13. Shape(e) /\ Alive(e)
    BY <1>3, <1>5, <1>7, <2>1, <2>12, FileConstants
       DEF Shape, Place, Puts, Rets, HasDp, HasIp, MayIp, Making, Onward, Alive
  <2>14. \A k \in Inum : Ptr(e, k) = Ptr(c, k)
    BY <1>3, <1>5, <1>7, <2>1, <2>12, FileConstants DEF Ptr, Ind
  <2>15. Write(p, inode, Seen(i), e)
    BY <1>1, <1>5, <1>6, <1>10, <2>11 DEF Namex, Ilock, Step
  <2>20. Accounted'
    BY <1>1, <1>3, <1>4, <1>8, <2>12, <2>13, <2>14, <2>15, WriteAccounted
  <2>21. ASSUME Consistent PROVE Consistent'
    <3>1. Knows(inode, links, c)
      BY <1>1, <2>21 DEF Consistent
    <3>7. /\ inode[i].type # "free" /\ Loaded(i).type = inode[i].type
          /\ inode[i].type = "dir" => links[i] > 0 /\ Live(inode, links, i)
      BY <1>1, <1>3, <1>5, <1>7, <2>21, Read DEF Has, Uses, Firm, Live
    <3>2. Follows(call[p], e, None)
      BY <1>1, <1>2, <1>3, <1>5, <1>7, <2>1, <2>12, FileConstants
         DEF Follows, Owes, Pending, Place, Puts, Uses, New
    <3>3. SameHolds(call[p], e)
      BY <1>1, <1>2, <1>3, <1>5, <1>7, <2>1, <2>12, FileConstants
         DEF SameHolds, Holds, HoldIp, HoldDp, Place, Puts
    <3>4. Knows(inode, links, e)
      BY <3>1, <1>2, <1>3, <1>5, <1>7, <2>1, <2>12, <3>7, <1>10, FileConstants
         DEF Knows, Uses, Firm, Pending, New, Place, Puts
    <3> QED BY <1>1, <2>21, <2>15, <1>2, <1>3, <1>5, <1>7, <2>1, <2>12, <3>2, <3>3, <3>4, <3>7, SeenConsistent
  <2> QED BY <2>20, <2>21
<1>11. CASE Fault(p) = "no" /\ ~ (Loaded(i).type = "dir" /\ Parent(c) /\ Len(c.path) = 1) /\ (Loaded(i).type # "dir" \/ j = None)
  <2>1. PICK r : r = IF c.ip = None THEN "end" ELSE "link_undo"
    OBVIOUS
  <2>11. PICK e : e = Iput(Only(c.ip), i, r)
    OBVIOUS
  <2>12. e \in CallType /\ e.pc = "put" /\ e.put = i /\ e.ret = r /\ e.op = "none" /\ e.path = <<>>
        /\ e.at = None /\ e.ip = c.ip /\ e.dp = None /\ e.inum = None
    <3>1. r \in Rets
      BY <2>1 DEF Rets
    <3>2. Only(c.ip) \in CallType
      BY <1>3, OnlyRecord
    <3> QED BY <1>3, <1>7, <2>11, <3>1, <3>2, IputRecord, OnlyRecord
  <2>13. Shape(e) /\ Alive(e)
    BY <1>3, <1>5, <1>7, <2>1, <2>12, FileConstants
       DEF Shape, Place, Puts, Rets, HasDp, HasIp, MayIp, Making, Onward, Alive
  <2>14. \A k \in Inum : Ptr(e, k) = Ptr(c, k)
    BY <1>3, <1>5, <1>7, <2>1, <2>12, FileConstants DEF Ptr, Ind
  <2>15. Write(p, inode, Seen(i), e)
    BY <1>1, <1>5, <1>6, <1>11, <2>1, <2>11 DEF Namex, Ilock, Step
  <2>20. Accounted'
    BY <1>1, <1>3, <1>4, <1>8, <2>12, <2>13, <2>14, <2>15, WriteAccounted
  <2>21. ASSUME Consistent PROVE Consistent'
    <3>1. Knows(inode, links, c)
      BY <1>1, <2>21 DEF Consistent
    <3>7. /\ inode[i].type # "free" /\ Loaded(i).type = inode[i].type
          /\ inode[i].type = "dir" => links[i] > 0 /\ Live(inode, links, i)
      BY <1>1, <1>3, <1>5, <1>7, <2>21, Read DEF Has, Uses, Firm, Live
    <3>2. Follows(call[p], e, None)
      BY <1>1, <1>2, <1>3, <1>5, <1>7, <2>1, <2>12, FileConstants
         DEF Follows, Owes, Pending, Place, Puts, Uses, New
    <3>3. SameHolds(call[p], e)
      BY <1>1, <1>2, <1>3, <1>5, <1>7, <2>1, <2>12, FileConstants
         DEF SameHolds, Holds, HoldIp, HoldDp, Place, Puts
    <3>4. Knows(inode, links, e)
      BY <3>1, <1>2, <1>3, <1>5, <1>7, <2>1, <2>12, FileConstants
         DEF Knows, Uses, Firm, Pending, New, Place, Puts
    <3> QED BY <1>1, <2>21, <2>15, <1>2, <1>3, <1>5, <1>7, <2>1, <2>12, <3>2, <3>3, <3>4, <3>7, SeenConsistent
  <2> QED BY <2>20, <2>21
<1>12. CASE Fault(p) = "no" /\ Loaded(i).type = "dir" /\ ~ (Parent(c) /\ Len(c.path) = 1) /\ j # None /\ Len(c.path) = 1
  <2>1. /\ j \in Inum /\ Found(c) = c.op /\ c.op \in {"open", "chdir", "link"} /\ c.ip = None
        /\ <<>> \in Seq(Names)
        /\ c.op = "link" => c.new \in Path
    BY <1>3, <1>7, <1>12 DEF Found, Parent, Second
  <2>10. PICK e0 : e0 = [c EXCEPT !.at = None, !.ip = j, !.path = <<>>]
    OBVIOUS
  <2>16. e0 \in CallType /\ e0.at = None /\ e0.ip = j /\ e0.path = <<>> /\ e0.op = c.op
        /\ e0.new = c.new /\ e0.dp = None /\ e0.inum = None
    BY <1>2, <1>3, <1>7, <2>1, <2>10 DEF CallType
  <2>11. PICK e : e = Iput(e0, i, Found(c))
    OBVIOUS
  <2>12. e \in CallType /\ e.pc = "put" /\ e.put = i /\ e.ret = c.op /\ e.op = c.op /\ e.path = <<>>
        /\ e.at = None /\ e.ip = j /\ e.dp = None /\ e.inum = None /\ e.new = c.new
    <3>1. Found(c) \in Rets
      BY <2>1 DEF Rets
    <3> QED BY <1>3, <1>5, <1>7, <2>1, <2>11, <2>16, <3>1, IputRecord
  <2>13. Shape(e) /\ Alive(e)
    BY <1>3, <1>5, <1>7, <2>1, <2>12, FileConstants
       DEF Shape, Place, Puts, Rets, HasDp, HasIp, MayIp, Making, Onward, Alive
  <2>14. \A k \in Inum : Ptr(e, k) = Ptr(c, k) + Ind(k = j)
    BY <1>3, <1>5, <1>7, <2>1, <2>12, FileConstants DEF Ptr, Ind
  <2>15. Get(p, j, Seen(i), e)
    BY <1>1, <1>5, <1>6, <1>12, <2>10, <2>11 DEF Namex, Ilock
  <2>20. Accounted'
    BY <1>1, <1>3, <1>4, <1>8, <2>1, <2>12, <2>13, <2>14, <2>15, GetAccounted
  <2>21. ASSUME Consistent PROVE Consistent'
    <3>1. Knows(inode, links, c)
      BY <1>1, <2>21 DEF Consistent
    <3>7. /\ inode[i].type # "free" /\ Loaded(i).type = inode[i].type
          /\ inode[i].type = "dir" => links[i] > 0 /\ Live(inode, links, i)
      BY <1>1, <1>3, <1>5, <1>7, <2>21, Read DEF Has, Uses, Firm, Live
    <3>8. links[j] > 0 /\ inode[j].type # "free"
      <4>1. Live(inode, links, i) /\ inode[i].ents[Head(c.path)] = j /\ j # None
        BY <1>6, <2>1, <3>7, FileConstants, <1>12 DEF Dirlookup
      <4>3. PICK n : n = Head(c.path)
        OBVIOUS
      <4>4. n \in Names /\ inode[i].ents[n] = j
        BY <1>7, <4>1, <4>3
      <4>2. links[j] > 0
        BY <1>7, <2>21, <4>1, <4>4, EntryLinked
      <4> QED BY <1>7, <2>1, <2>21, <4>2, LinkedUsed
    <3>2. Follows(call[p], e, j)
      BY <1>1, <1>2, <1>3, <1>5, <1>7, <2>1, <2>12, FileConstants
         DEF Follows, Owes, Pending, Place, Puts, Uses, New
    <3>3. SameHolds(call[p], e)
      BY <1>1, <1>2, <1>3, <1>5, <1>7, <2>1, <2>12, FileConstants
         DEF SameHolds, Holds, HoldIp, HoldDp, Place, Puts
    <3>4. Knows(inode, links, e)
      BY <3>1, <1>2, <1>3, <1>5, <1>7, <2>1, <2>12, <3>8, FileConstants
         DEF Knows, Uses, Firm, Pending, New, Place, Puts
    <3> QED BY <1>1, <2>21, <2>15, <1>2, <1>3, <1>5, <1>7, <2>1, <2>12, <3>2, <3>3, <3>4, <3>7, <3>8,
               SeenGetConsistent
  <2> QED BY <2>20, <2>21
<1>13. CASE Fault(p) = "no" /\ Loaded(i).type = "dir" /\ ~ (Parent(c) /\ Len(c.path) = 1) /\ j # None /\ Len(c.path) # 1
  <2>1. /\ j \in Inum /\ Tail(c.path) # <<>> /\ Tail(c.path) \in Seq(Names)
    <3>1. Len(c.path) # 1
      BY <1>13
    <3>2. j \in Inum
      BY <1>7, <1>13
    <3>3. Tail(c.path) # <<>> /\ Tail(c.path) \in Seq(Names)
      BY <1>3, <3>1, PathSeq
    <3> QED BY <3>2, <3>3
  <2>10. PICK e0 : e0 = [c EXCEPT !.at = j, !.path = Tail(c.path)]
    OBVIOUS
  <2>16. e0 \in CallType /\ e0.at = j /\ e0.ip = c.ip /\ e0.path = Tail(c.path) /\ e0.op = c.op
        /\ e0.new = c.new /\ e0.dp = None /\ e0.inum = None
    BY <1>2, <1>3, <1>7, <2>1, <2>10 DEF CallType
  <2>11. PICK e : e = Iput(e0, i, "walk")
    OBVIOUS
  <2>12. e \in CallType /\ e.pc = "put" /\ e.put = i /\ e.ret = "walk" /\ e.op = c.op /\ e.path = Tail(c.path)
        /\ e.at = j /\ e.ip = c.ip /\ e.dp = None /\ e.inum = None /\ e.new = c.new
    <3>1. "walk" \in Rets
      BY <2>1 DEF Rets
    <3> QED BY <1>3, <1>5, <1>7, <2>1, <2>11, <2>16, <3>1, IputRecord
  <2>13. Shape(e) /\ Alive(e)
    BY <1>3, <1>5, <1>7, <2>1, <2>12, FileConstants
       DEF Shape, Place, Puts, Rets, HasDp, HasIp, MayIp, Making, Onward, Alive
  <2>14. \A k \in Inum : Ptr(e, k) = Ptr(c, k) + Ind(k = j)
    BY <1>3, <1>5, <1>7, <2>1, <2>12, FileConstants DEF Ptr, Ind
  <2>15. Get(p, j, Seen(i), e)
    <3>1. e0 = [c EXCEPT !.at = j, !.path = Tail(@)]
      BY <1>2, <2>10 DEF CallType
    <3> QED BY <1>1, <1>5, <1>6, <1>13, <2>11, <3>1 DEF Namex, Ilock
  <2>20. Accounted'
    BY <1>1, <1>3, <1>4, <1>8, <2>1, <2>12, <2>13, <2>14, <2>15, GetAccounted
  <2>21. ASSUME Consistent PROVE Consistent'
    <3>1. Knows(inode, links, c)
      BY <1>1, <2>21 DEF Consistent
    <3>7. /\ inode[i].type # "free" /\ Loaded(i).type = inode[i].type
          /\ inode[i].type = "dir" => links[i] > 0 /\ Live(inode, links, i)
      BY <1>1, <1>3, <1>5, <1>7, <2>21, Read DEF Has, Uses, Firm, Live
    <3>8. links[j] > 0 /\ inode[j].type # "free"
      <4>1. Live(inode, links, i) /\ inode[i].ents[Head(c.path)] = j /\ j # None
        BY <1>6, <2>1, <3>7, FileConstants, <1>13 DEF Dirlookup
      <4>3. PICK n : n = Head(c.path)
        OBVIOUS
      <4>4. n \in Names /\ inode[i].ents[n] = j
        BY <1>7, <4>1, <4>3
      <4>2. links[j] > 0
        BY <1>7, <2>21, <4>1, <4>4, EntryLinked
      <4> QED BY <1>7, <2>1, <2>21, <4>2, LinkedUsed
    <3>2. Follows(call[p], e, j)
      BY <1>1, <1>2, <1>3, <1>5, <1>7, <2>1, <2>12, FileConstants
         DEF Follows, Owes, Pending, Place, Puts, Uses, New
    <3>3. SameHolds(call[p], e)
      BY <1>1, <1>2, <1>3, <1>5, <1>7, <2>1, <2>12, FileConstants
         DEF SameHolds, Holds, HoldIp, HoldDp, Place, Puts
    <3>4. Knows(inode, links, e)
      BY <3>1, <1>2, <1>3, <1>5, <1>7, <2>1, <2>12, <3>8, FileConstants
         DEF Knows, Uses, Firm, Pending, New, Place, Puts
    <3> QED BY <1>1, <2>21, <2>15, <1>2, <1>3, <1>5, <1>7, <2>1, <2>12, <3>2, <3>3, <3>4, <3>7, <3>8,
               SeenGetConsistent
  <2> QED BY <2>20, <2>21
<1> QED BY <1>7, <1>9, <1>10, <1>11, <1>12, <1>13

\* What create() knows when it fills in the new inode.
LEMMA Filling ==
    ASSUME Accounted, Consistent, NEW p \in Proc, call[p].pc = "fill",
           NEW i \in Inum, i = call[p].ip, NEW d \in Inum, d = call[p].dp
    PROVE  /\ inode[i].type = NewType(call[p].op) /\ inode[i].nlink = 0 /\ inode[i].ents = NoEnts
           /\ links[i] = 0 /\ i # d /\ Live(inode, links, d) /\ inode[d].nlink \in Nat \ {0}
           /\ itable[d].lock = p /\ itable[d].valid
           /\ itable[d].type = inode[d].type /\ itable[d].nlink = inode[d].nlink
           /\ Loaded(i).type = inode[i].type /\ Loaded(i).nlink = 0
           /\ Head(call[p].path) \in Name /\ inode[d].ents[Head(call[p].path)] = None
           /\ itable[i].ref > 0 /\ itable[d].ref > 0
<1>1. Knows(inode, links, call[p]) /\ Cached(inode, itable) /\ Disk(inode, links) /\ Locks(itable, call)
  BY DEF Consistent
<1>2. New(call[p]) = i /\ i # None /\ Place(call[p]) = "fill" /\ d # None
  BY FileConstants DEF New, Place, Puts
<1>3. inode[i].type = NewType(call[p].op) /\ inode[i].nlink = 0 /\ inode[i].ents = NoEnts
  BY <1>1, <1>2, Records DEF Knows
<1>4. /\ Has(call[p], i) /\ Uses(call[p], i) /\ Has(call[p], d) /\ Uses(call[p], d) /\ Firm(call[p], d)
      /\ Holds(call[p], d)
  BY <1>2 DEF Has, Uses, Firm, Holds, HoldDp
<1>5. itable[i].ref > 0 /\ itable[d].ref > 0
  BY <1>4, HasRef
<1>6. Live(inode, links, d)
  BY <1>1, <1>2, <1>4 DEF Knows, Live
<1>7. links[i] = 0
  <2>1. ~ (links[i] > 0)
    BY <1>3, LinkedUsed
  <2>2. links[i] \in Nat
    BY <1>1, EntriesFinite DEF Disk
  <2> QED BY <2>1, <2>2
<1>8. i # d
  BY <1>6, <1>7 DEF Live
<1>9. itable[d].lock = p /\ itable[d].valid
  BY <1>1, <1>4, FileConstants DEF Locks, Cached
<1>10. itable[d].type = inode[d].type /\ itable[d].nlink = inode[d].nlink
  BY <1>1, <1>5, <1>9 DEF Cached
<1>11. Loaded(i).type = inode[i].type /\ Loaded(i).nlink = 0
  BY <1>3, <1>5, LoadedIs
<1>12. PICK n : n = Head(call[p].path)
  OBVIOUS
<1>13. n \in Names
  <2>1. call[p] \in CallType /\ Shape(call[p])
    BY CallOf
  <2>2. call[p].path \in Seq(Names) /\ call[p].path # <<>>
    BY <1>2, <2>1, CallFields DEF Shape, Onward
  <2> QED BY <1>12, <2>2, PathSeq
<1>14. inode[d].ents[n] = None
  BY <1>1, <1>2, <1>12 DEF Knows
<1>15. n \in Name
  <2>1. inode[d].ents["."] = d /\ inode[d].ents[".."] # None
    BY <1>1, <1>6, FileConstants DEF Disk, Tree, Up2
  <2> QED BY <1>2, <1>13, <1>14, <2>1 DEF Names
<1>16. inode[d].nlink \in Nat \ {0}
  <2>1. inode[d].nlink \in Int /\ inode[d].nlink > 0
    BY <1>6, LinkedUsed, LinksInt DEF Live
  <2> QED BY <2>1
<1> QED BY <1>3, <1>5, <1>6, <1>7, <1>8, <1>9, <1>10, <1>11, <1>12, <1>14, <1>15, <1>16

\* iput() of the last reference keeps both invariants.
LEMMA IputLockKeeps ==
    ASSUME Accounted, NEW p \in Proc, IputLock(p)
    PROVE  Accounted' /\ (Consistent => Consistent')
<1>1. PICK c : c = call[p]
  OBVIOUS
<1>2. c \in CallType /\ Shape(c) /\ c.pc = "put"
  BY <1>1, CallOf DEF IputLock, Ilock, At
<1>3. c.put \in Inum /\ c.ret \in Rets
  BY <1>2, CallFields, FileConstants DEF Shape, Place, Puts, Rets, HasDp, HasIp, MayIp, Making, Onward, Alive
<1>4. inode \in [Inum -> InodeType] /\ itable \in [Inum -> EntryType] /\ TypeOK
  BY DEF Accounted, TypeOK
<1>5. PICK i : i = c.put
  OBVIOUS
<1>6. CASE itable[i].lock # None
  BY <1>1, <1>5, <1>6, PanicAccounted, PanicConsistent DEF IputLock, Panic, AllButPanic
<1>7. CASE itable[i].lock = None
  <2>1. PICK tab : tab = SetLock(itable, i, p)
    OBVIOUS
  <2>2. tab \in [Inum -> EntryType] /\ \A k \in Inum : tab[k].ref = itable[k].ref
    BY <1>3, <1>4, <1>5, <2>1, LockTable DEF Owner
  <2>11. PICK e : e = [c EXCEPT !.pc = "trunc"]
    OBVIOUS
  <2>12. /\ e \in CallType /\ e.pc = "trunc" /\ e.op = c.op /\ e.path = c.path /\ e.new = c.new /\ e.at = c.at
         /\ e.ip = c.ip /\ e.dp = c.dp /\ e.inum = c.inum /\ e.put = c.put /\ e.ret = c.ret
    <3>1. "trunc" \in (Places \ {"put_ip"}) \cup Puts
      BY DEF Puts
    <3> QED BY <1>2, <2>11, <3>1 DEF CallType
  <2>13. Shape(e) /\ (Alive(e) <=> Alive(c))
    BY <1>2, <1>3, <2>12, FileConstants
       DEF Shape, Place, Puts, Rets, HasDp, HasIp, MayIp, Making, Onward, Alive
  <2>14. \A k \in Inum : Ptr(e, k) = Ptr(c, k)
    BY <1>2, <1>3, <2>12, FileConstants DEF Ptr, Ind
  <2>15. Write(p, inode, tab, e)
    BY <1>1, <1>5, <1>7, <2>1, <2>11 DEF IputLock, Step, SetLock
  <2>20. Accounted'
    BY <1>1, <1>4, <2>2, <2>12, <2>13, <2>14, <2>15, WriteAccounted
  <2>21. ASSUME Consistent PROVE Consistent'
    <3>1. Knows(inode, links, c)
      BY <1>1, <2>21 DEF Consistent
    <3>2. itable[i].ref = 1 /\ itable[i].valid /\ itable[i].nlink = 0 /\ inode[i].nlink = 0
      <4>1. itable[i].ref = 1 /\ itable[i].valid /\ itable[i].nlink = 0
        BY <1>1, <1>5 DEF IputLock, LastPut
      <4> QED BY <1>3, <1>5, <2>21, <4>1 DEF Consistent, Cached
    <3>3. /\ TabKeeps(tab) /\ Cached(inode, tab) /\ tab[i].lock = p
          /\ \A k \in Inum : k # i => tab[k].lock = itable[k].lock
      BY <1>3, <1>5, <2>1, <2>21, <3>2, SetLockKeeps DEF Owner
    <3>4. \A k \in Inum : itable[k].lock = p <=> Holds(c, k)
      BY <1>1, <2>21, HeldBy
    <3>5. AlsoHolds(c, e, i)
      BY <1>2, <1>3, <1>5, <2>12, FileConstants DEF AlsoHolds, Holds, HoldIp, HoldDp, Place, Puts
    <3>6. LockTo(tab, p, e)
      BY <1>7, <3>3, <3>4, <3>5 DEF LockTo, AlsoHolds
    <3>7. Knows(inode, links, e)
      BY <1>2, <1>3, <2>12, <3>1, FileConstants DEF Knows, Uses, Firm, Pending, New, Place, Puts
    <3>8. /\ \A k \in Inum : Owes(e, k) = Owes(call[p], k)
          /\ \A k \in Inum : Uses(e, k) => Uses(call[p], k)
          /\ New(e) = None /\ New(call[p]) = None
      BY <1>1, <1>2, <1>3, <2>12, FileConstants DEF Owes, Pending, Place, Puts, Uses, New
    <3>9. e.pc = "trunc" => tab[e.put].ref = 1 /\ inode[e.put].nlink = 0
      BY <1>3, <1>5, <2>2, <2>12, <3>2
    <3> QED BY <2>15, <2>21, <3>3, <3>6, <3>7, <3>8, <3>9, QuietConsistent
  <2> QED BY <2>20, <2>21
<1> QED BY <1>6, <1>7

\* itrunc() in iput() keeps both invariants.
LEMMA IputFreeKeeps ==
    ASSUME Accounted, NEW p \in Proc, IputFree(p)
    PROVE  Accounted' /\ (Consistent => Consistent')
<1>1. PICK c : c = call[p]
  OBVIOUS
<1>2. c \in CallType /\ Shape(c) /\ c.pc = "trunc"
  BY <1>1, CallOf DEF IputFree, Ilock, At
<1>3. c.put \in Inum /\ c.ret \in Rets
  BY <1>2, CallFields, FileConstants DEF Shape, Place, Puts, Rets, HasDp, HasIp, MayIp, Making, Onward, Alive
<1>4. inode \in [Inum -> InodeType] /\ itable \in [Inum -> EntryType] /\ TypeOK
  BY DEF Accounted, TypeOK
<1>5. PICK i : i = c.put
  OBVIOUS
<1>6. PICK tab : tab = [itable EXCEPT ![i].type = "free", ![i].valid = FALSE, ![i].lock = None]
  OBVIOUS
<1>7. tab \in [Inum -> EntryType] /\ \A k \in Inum : tab[k].ref = itable[k].ref
  BY <1>3, <1>4, <1>5, <1>6 DEF EntryType
<1>8. [inode EXCEPT ![i] = Free] \in [Inum -> InodeType]
  BY <1>3, <1>4, <1>5, Records
<1>11. PICK e : e = [c EXCEPT !.pc = "drop"]
  OBVIOUS
<1>12. /\ e \in CallType /\ e.pc = "drop" /\ e.op = c.op /\ e.path = c.path /\ e.new = c.new /\ e.at = c.at
       /\ e.ip = c.ip /\ e.dp = c.dp /\ e.inum = c.inum /\ e.put = c.put /\ e.ret = c.ret
  <2>1. "drop" \in (Places \ {"put_ip"}) \cup Puts
    BY DEF Puts
  <2> QED BY <1>2, <1>11, <2>1 DEF CallType
<1>13. Shape(e) /\ (Alive(e) <=> Alive(c))
  BY <1>2, <1>3, <1>12, FileConstants
     DEF Shape, Place, Puts, Rets, HasDp, HasIp, MayIp, Making, Onward, Alive
<1>14. \A k \in Inum : Ptr(e, k) = Ptr(c, k)
  BY <1>2, <1>3, <1>12, FileConstants DEF Ptr, Ind
<1>15. Write(p, [inode EXCEPT ![i] = Free], tab, e)
  BY <1>1, <1>5, <1>6, <1>11 DEF IputFree
<1>20. Accounted'
  BY <1>1, <1>7, <1>8, <1>12, <1>13, <1>14, <1>15, WriteAccounted
<1>21. ASSUME Consistent PROVE Consistent'
  <2>1. Knows(inode, links, c) /\ Locks(itable, call)
    BY <1>1, <1>21 DEF Consistent
  <2>2. i \in Inum /\ itable[i].ref = 1 /\ inode[i].nlink = 0 /\ itable[i].lock = p
    BY <1>1, <1>2, <1>3, <1>5, <1>21, <2>1 DEF Consistent, Truncates, Locks, Holds
  <2>3. Has(c, i) /\ Uses(c, i) /\ c.at # i /\ c.ip # i /\ c.dp # i
    <3>1. "put" \in Fields /\ call[p]["put"] = i
      BY <1>1, <1>5 DEF Fields
    <3>2. \A m \in Fields : call[p][m] = i => m = "put"
      BY <2>2, <3>1, Sole
    <3>3. c.at # i /\ c.ip # i /\ c.dp # i
      <4>1. call[p]["at"] # i /\ call[p]["ip"] # i /\ call[p]["dp"] # i
        BY <3>2 DEF Fields
      <4> QED BY <1>1, <4>1
    <3> QED BY <1>2, <1>5, <3>3 DEF Has, Uses
  <2>4. PICK fs : fs = [inode EXCEPT ![i] = Free]
    OBVIOUS
  <2>5. fs \in Disks /\ inode' = fs /\ call' = [call EXCEPT ![p] = e] /\ fs[i] = Free /\ \A k \in Inum : k # i => fs[k] = inode[k]
    BY <1>4, <1>8, <1>15, <2>2, <2>4 DEF Disks, Write, Become
  <2>6. links' \in Counts /\ inode \in Disks /\ links \in Counts /\ \A k \in Inum : links'[k] = links[k]
    <3>1. \A k \in Inum : Owes(e, k) = Owes(c, k) /\ Owes(e, k) \in Int
      BY <1>2, <1>3, <1>12 DEF Owes, Pending, Place, Puts
    <3>2. Free.nlink = 0
      BY DEF Free
    <3>3. /\ inode \in Disks /\ links \in Counts /\ links' \in Counts
          /\ \A k \in Inum : /\ inode[k].nlink \in Int /\ inode'[k].nlink \in Int /\ links[k] \in Int
                             /\ links'[k] = inode'[k].nlink - inode[k].nlink + links[k] + Owes(call[p], k) - Owes(e, k)
      BY <2>5, LinksNew
    <3>4. \A k \in Inum : inode'[k].nlink = inode[k].nlink
      BY <2>2, <2>5, <3>2
    <3> QED BY <1>1, <3>1, <3>3, <3>4
  <2>7. ~ (links[i] > 0)
    BY <1>21, <2>2, LinkedUsed
  <2>8. Disk(fs, links')
    <3>1. Free.type = "free"
      BY DEF Free
    <3>2. Blank(fs)
      BY <1>21, <2>2, <2>5, <3>1 DEF Consistent, Disk, Blank
    <3>3. \A k \in Inum : links[k] > 0 => fs[k].ents = inode[k].ents /\ (fs[k].type = "dir" <=> inode[k].type = "dir")
      BY <2>5, <2>7
    <3>4. Disk(inode, links)
      BY <1>21 DEF Consistent
    <3> QED BY <2>5, <2>6, <3>2, <3>3, <3>4, DiskSame
  <2>9. /\ tab[i].valid = FALSE /\ tab[i].lock = None
        /\ \A k \in Inum : k # i => tab[k] = itable[k]
    BY <1>4, <1>6, <2>2 DEF EntryType
  <2>10. Cached(fs, tab)
    BY <1>21, <2>5, <2>9 DEF Consistent, Cached
  <2>11. Uses(e, i) = FALSE /\ New(e) = None /\ New(c) = None
    BY <1>2, <1>3, <1>5, <1>12, <2>2, <2>3, FileConstants DEF Uses, New, Shape
  <2>12. LockTo(tab, p, e)
    <3>1. \A k \in Inum : k # i => (Holds(e, k) <=> Holds(c, k))
      BY <1>2, <1>3, <1>5, <1>12 DEF Holds, Place, Puts
    <3>2. ~ Holds(e, i)
      BY <1>12, <2>3 DEF Holds
    <3>3. \A k \in Inum : itable[k].lock = p <=> Holds(c, k)
      BY <1>1, <1>21, HeldBy
    <3> QED BY <2>2, <2>9, <3>1, <3>2, <3>3, FileConstants DEF LockTo
  <2>13. Knows(fs, links', e)
    <3>1. \A k \in Inum : Uses(e, k) => Uses(c, k) /\ k # i
      BY <1>2, <1>12, <2>2, <2>11 DEF Uses
    <3>2. \A k \in Inum : Firm(e, k) => Firm(c, k) /\ k # i
      BY <1>2, <1>3, <1>12, <2>2, <2>3 DEF Firm, Place, Puts
    <3>3. /\ Pending(e) <=> Pending(c)
          /\ Place(e) = Place(c) /\ Place(c) \notin {"ialloc", "iget", "fill", "unlink_ip"} /\ e.ip = c.ip
          /\ e.dp = c.dp
      BY <1>2, <1>3, <1>12 DEF Pending, Place, Puts, Rets
    <3>4. Pending(c) => c.ip \in Inum
      BY <1>2, CallFields DEF Pending, Shape, HasIp
    <3>5. c.dp \in Inum \cup {None}
      BY <1>2, CallFields
    <3> QED BY <2>1, <2>3, <2>5, <2>6, <2>11, <3>1, <3>2, <3>3, <3>4, <3>5 DEF Knows
  <2>14. Fresh(call', ftable, p)
    <3>1. call'[p] = e
      BY <2>5 DEF Accounted, TypeOK
    <3> QED BY <2>11, <3>1 DEF Fresh
  <2>15. Write(p, fs, tab, e)
    BY <1>15, <2>4
  <2>16. SameRefs(tab) /\ Changes(p, fs)
    BY <1>1, <1>7, <2>2, <2>3, <2>5, <2>6 DEF Live, SameRefs, Changes
  <2>17. Onwards(p, e) /\ Unlinks(p, fs, tab, e)
    <3>1. Free.type = "free"
      BY DEF Free
    <3>2. \A k \in Inum : Uses(e, k) => Uses(c, k)
      BY <1>2, <1>12 DEF Uses
    <3> QED BY <1>1, <1>12, <2>5, <2>9, <2>11, <3>1, <3>2, FileConstants DEF Onwards, Unlinks
  <2> QED BY <1>7, <1>21, <2>8, <2>10, <2>12, <2>13, <2>14, <2>15, <2>16, <2>17, WriteConsistent
<1> QED BY <1>20, <1>21

\* What a call looks like after iput().
LEMMA PutDoneRecord ==
    ASSUME NEW c \in CallType, Shape(c), c.pc \in {"put", "drop"}
    PROVE  /\ PutDone(c) \in CallType /\ Shape(PutDone(c)) /\ (Alive(PutDone(c)) <=> Alive(c))
           /\ c.ret = "put_ip" => PutDone(c) = Last(c.ip) /\ c.ip \in Inum
           /\ c.ret # "put_ip" =>
                 /\ PutDone(c).pc = c.ret /\ PutDone(c).put = None
                 /\ PutDone(c).op = c.op /\ PutDone(c).path = c.path /\ PutDone(c).new = c.new
                 /\ PutDone(c).at = c.at /\ PutDone(c).ip = c.ip /\ PutDone(c).dp = c.dp
                 /\ PutDone(c).inum = c.inum
           /\ \A k \in Inum : Ptr(PutDone(c), k) = Ptr(c, k) - Ind(c.put = k)
<1>1. c.put \in Inum /\ c.ret \in Rets /\ c.inum = None
  BY CallFields DEF Shape, Puts
<1>2. CASE c.ret = "put_ip"
  <2>1. c.ip \in Inum /\ c.at = None /\ c.dp = None /\ c.op = "none"
    BY <1>2, CallFields DEF Shape, Place, Puts, HasIp, HasDp
  <2>2. PutDone(c) = Last(c.ip)
    BY <1>2 DEF PutDone
  <2>3. Last(c.ip) \in CallType /\ Shape(Last(c.ip)) /\ Alive(Last(c.ip)) /\ Alive(c)
    BY <2>1, LastRecord, ShapeLast DEF Alive
  <2>4. \A k \in Inum : Ptr(Last(c.ip), k) = Ptr(c, k) - Ind(c.put = k)
    BY <1>1, <2>1, PtrLast, FileConstants DEF Ptr, Ind
  <2> QED BY <1>2, <2>1, <2>2, <2>3, <2>4
<1>3. CASE c.ret # "put_ip"
  <2>1. PICK e : e = [c EXCEPT !.pc = c.ret, !.put = None, !.ret = "none"]
    OBVIOUS
  <2>2. PutDone(c) = e
    BY <1>3, <2>1 DEF PutDone, CallType
  <2>3. c.ret \in (Places \ {"put_ip"}) \cup Puts
    BY <1>1, <1>3 DEF Places
  <2>4. /\ e \in CallType /\ e.pc = c.ret /\ e.put = None /\ e.op = c.op /\ e.path = c.path
        /\ e.new = c.new /\ e.at = c.at /\ e.ip = c.ip /\ e.dp = c.dp /\ e.inum = c.inum
    BY <2>1, <2>3 DEF CallType
  <2>5. Place(e) = Place(c)
    BY <1>1, <2>4 DEF Place, Puts, Rets
  <2>8. c.ret \notin Puts \cup {"closing", "iget", "dead"} /\ c.pc # "dead"
    BY <1>1 DEF Puts, Rets
  <2>6. Shape(e) /\ (Alive(e) <=> Alive(c))
    BY <1>1, <2>4, <2>5, <2>8 DEF Shape, Alive
  <2>7. \A k \in Inum : Ptr(e, k) = Ptr(c, k) - Ind(c.put = k)
    BY <1>1, <2>4, FileConstants DEF Ptr, Ind
  <2> QED BY <1>3, <2>2, <2>4, <2>6, <2>7
<1> QED BY <1>2, <1>3

\* The decrement in iput() keeps both invariants.
LEMMA IputDropKeeps ==
    ASSUME Accounted, NEW p \in Proc, IputDrop(p)
    PROVE  Accounted' /\ (Consistent => Consistent')
<1>1. PICK c : c = call[p]
  OBVIOUS
<1>2. c \in CallType /\ Shape(c) /\ c.pc \in {"put", "drop"}
  BY <1>1, CallOf DEF IputDrop, At
<1>3. PICK i : i = c.put
  OBVIOUS
<1>4. i \in Inum
  BY <1>2, <1>3, CallFields DEF Shape, Puts
<1>5. /\ itable' = [itable EXCEPT ![i].ref = @ - 1] /\ call' = [call EXCEPT ![p] = PutDone(c)]
      /\ UNCHANGED <<inode, ftable, ofile, cwd>>
  BY <1>1, <1>3 DEF IputDrop, Become
<1>6. inode \in [Inum -> InodeType] /\ itable \in [Inum -> EntryType]
  BY DEF Accounted, TypeOK
<1>7. itable[i].ref \in Nat \ {0}
  <2>1. Ptr(call[p], i) > 0
    BY <1>1, <1>3 DEF Ptr, Ind
  <2> QED BY <1>4, <2>1, RefPositive
<1>8. itable' \in [Inum -> EntryType] /\ \A k \in Inum : itable'[k].ref = itable[k].ref - Ind(k = i)
  <2>1. PICK e : e = [itable[i] EXCEPT !.ref = itable[i].ref - 1]
    OBVIOUS
  <2>2. e.ref = itable[i].ref - 1 /\ e \in EntryType
    BY <1>4, <1>6, <1>7, <2>1 DEF EntryType
  <2>3. itable' = [itable EXCEPT ![i] = e]
    BY <1>4, <1>5, <1>6, <2>1 DEF EntryType
  <2>4. \A k \in Inum : itable[k].ref \in Nat
    BY <1>6 DEF EntryType
  <2> QED BY <1>4, <1>6, <2>2, <2>3, <2>4 DEF Ind
<1>9. /\ PutDone(c) \in CallType /\ Shape(PutDone(c)) /\ (Alive(PutDone(c)) <=> Alive(c))
      /\ \A k \in Inum : Ptr(PutDone(c), k) = Ptr(c, k) - Ind(i = k)
  BY <1>2, <1>3, PutDoneRecord
<1>10. \A k \in Inum : itable'[k].ref = itable[k].ref + Ptr(PutDone(c), k) - Ptr(call[p], k)
  BY <1>1, <1>6, <1>8, <1>9 DEF Ptr, Ind, EntryType
<1>11. (PutDone(c).pc = "dead" \/ PutDone(c).op = "die") <=> (call[p].pc = "dead" \/ call[p].op = "die")
  BY <1>1, <1>9 DEF Alive
<1>20. Accounted'
  BY <1>5, <1>6, <1>8, <1>9, <1>10, <1>11, CallAccounted
<1>21. ASSUME Consistent PROVE Consistent'
  <2>1. PICK e : e = PutDone(c)
    OBVIOUS
  <2>2. /\ c.ret \in Rets /\ c.inum = None /\ c.ip \in Inum \cup {None}
        /\ \/ /\ c.ret = "put_ip" /\ e.pc = "put" /\ e.ret = "end" /\ e.put = c.ip /\ e.ip = None
              /\ e.at = None /\ e.dp = None /\ e.inum = None /\ c.ip \in Inum
           \/ /\ c.ret # "put_ip" /\ e.pc = c.ret /\ e.put = None /\ e.op = c.op /\ e.path = c.path
              /\ e.at = c.at /\ e.ip = c.ip /\ e.dp = c.dp /\ e.inum = c.inum
    <3>1. c.ret \in Rets /\ c.inum = None /\ c.ip \in Inum \cup {None}
      BY <1>2, CallFields, FileConstants DEF Shape, Puts
    <3>2. CASE c.ret = "put_ip"
      BY <1>2, <2>1, <3>1, <3>2, PutDoneRecord, LastRecord
    <3>3. CASE c.ret # "put_ip"
      BY <1>2, <2>1, <3>1, <3>3, PutDoneRecord
    <3> QED BY <3>2, <3>3
  <2>3. New(c) = None /\ New(e) = None /\ e.pc # "trunc"
    BY <1>2, <2>2 DEF New, Rets
  <2>4. \A k \in Inum : (Uses(e, k) => Uses(c, k)) /\ (Firm(e, k) => Firm(c, k))
    BY <1>2, <2>2, FileConstants DEF Uses, Firm, Place, Puts, Rets
  <2>5. \A k \in Inum : Owes(e, k) = Owes(c, k) /\ (Holds(e, k) <=> Holds(c, k))
    BY <1>2, <2>2, FileConstants DEF Owes, Pending, Holds, HoldIp, HoldDp, Place, Puts, Rets
  <2>6. call' = [call EXCEPT ![p] = e] /\ inode' = inode /\ UNCHANGED <<ftable, ofile, cwd, orphans>>
        /\ missed' = IF LastPut(itable[i]) THEN missed \cup {i} ELSE missed
    BY <1>1, <1>3, <1>5, <2>1 DEF IputDrop
  <2>7. links' = links /\ Disk(inode', links')
    BY <1>1, <1>21, <2>5, <2>6, Quiet
  <2>8. /\ itable'[i].ref = itable[i].ref - 1 /\ itable'[i].valid = itable[i].valid
        /\ itable'[i].lock = itable[i].lock
        /\ itable'[i].type = itable[i].type /\ itable'[i].nlink = itable[i].nlink
        /\ \A k \in Inum : k # i => itable'[k] = itable[k]
    BY <1>4, <1>5, <1>6 DEF EntryType
  <2>9. Has(c, i)
    BY <1>3 DEF Has
  <2>10. Touches(p)
    BY <1>1, <2>6, <2>7, <2>8, <2>9 DEF Touches, Live
  <2>11. Gains(p, e) /\ LockMoves(p, e) /\ CwdFrom /\ FilesIn(p)
    <3>1. \A k \in Inum : itable[k].lock = p <=> Holds(c, k)
      BY <1>1, <1>21, HeldBy
    <3>2. \A k \in Inum : itable'[k].lock = itable[k].lock
      BY <2>8
    <3> QED BY <1>1, <2>4, <2>5, <2>6, <3>1, <3>2 DEF Gains, LockMoves, CwdFrom, FilesIn, FilesFrom
  <2>12. Leaves(p, e)
    <3>1. SUFFICES ASSUME NEW k \in Inum, inode[k].type # "free", inode[k].nlink = 0, k \notin orphans \cup missed'
                   PROVE  /\ itable'[k].ref > 0 /\ ~ itable'[k].valid => itable[k].ref > 0 /\ ~ itable[k].valid
                          /\ itable'[k].ref = 0 /\ (\A r \in Proc : r # p => call[r].inum # k) => itable[k].ref = 0
      BY <1>1, <2>2, <2>3, <2>6, FileConstants DEF Leaves
    <3>2. k # i => itable'[k] = itable[k]
      BY <2>8
    <3>3. CASE k = i
      <4>1. itable'[k].ref > 0 => itable[k].ref > 0
        BY <1>7, <2>8, <3>3
      <4>2. ASSUME itable'[k].ref = 0, \A r \in Proc : r # p => call[r].inum # k PROVE FALSE
        <5>1. itable[i].ref = 1
          BY <1>7, <2>8, <3>3, <4>2
        <5>2. ~ itable[i].valid
          <6>1. itable[i].valid => itable[i].nlink = 0
            BY <1>4, <1>21, <3>1, <3>3, <5>1 DEF Consistent, Cached
          <6>2. ~ LastPut(itable[i])
            BY <2>6, <3>1, <3>3
          <6> QED BY <5>1, <6>1, <6>2 DEF LastPut
        <5>3. UnreadAt(i)
          BY <1>4, <1>21 DEF Consistent
        <5>4. i \notin orphans \cup missed
          BY <2>6, <3>1, <3>3
        <5>5. PICK q \in Proc : New(call[q]) = i
          BY <3>1, <3>3, <5>1, <5>2, <5>3, <5>4 DEF UnreadAt
        <5>6. q # p
          BY <1>1, <1>4, <2>3, <5>5, FileConstants
        <5>7. call[q].ip = i
          BY <1>4, <3>3, <4>2, <5>5, <5>6, FileConstants DEF New
        <5>8. Has(call[q], i)
          BY <5>7 DEF Has
        <5> QED BY <1>1, <1>4, <2>9, <5>1, <5>6, <5>8, SoleHas
      <4> QED BY <2>8, <3>3, <4>1, <4>2
    <3> QED BY <3>2, <3>3
  <2>13. Cached(inode', itable')
    <3>1. \A k \in Inum : itable'[k].ref > 0 => itable[k].ref > 0
      BY <1>7, <2>8
    <3> QED BY <1>21, <2>6, <2>8, <3>1 DEF Consistent, Cached
  <2>14. Knows(inode', links', e)
    <3>1. Knows(inode, links, c)
      BY <1>1, <1>21 DEF Consistent
    <3>2. Pending(e) => Pending(c) /\ Place(e) = Place(c) /\ e.ip = c.ip
      BY <1>2, <2>2, FileConstants DEF Pending, Place, Puts, Rets
    <3>3. Place(e) \notin {"ialloc", "iget", "fill", "unlink_ip"}
      BY <2>2 DEF Place, Puts, Rets
    <3>4. e.dp # None => e.dp = c.dp
      BY <2>2
    <3> QED BY <2>3, <2>4, <2>6, <2>7, <3>1, <3>2, <3>3, <3>4 DEF Knows
  <2>15. Fresh(call', ftable', p)
    <3>1. call'[p] = e
      BY <2>6 DEF Accounted, TypeOK
    <3> QED BY <2>3, <3>1 DEF Fresh
  <2> QED BY <1>21, <2>3, <2>6, <2>7, <2>10, <2>11, <2>12, <2>13, <2>14, <2>15, StepConsistent
<1> QED BY <1>20, <1>21

\* end_op() keeps both invariants.
LEMMA EndOpKeeps == ASSUME Accounted, NEW p \in Proc, EndOp(p) PROVE Accounted' /\ (Consistent => Consistent')
<1>1. PICK c : c = call[p]
  OBVIOUS
<1>2. c \in CallType /\ Shape(c) /\ c.pc = "end"
  BY <1>1, CallOf DEF EndOp, Ilock, At
<1>3. /\ c.op \in {"none", "idle", "exit", "die"} /\ c.at = None /\ c.ip = None /\ c.dp = None
      /\ c.put = None
  BY <1>2, CallFields, FileConstants DEF Shape, Place, Puts, Rets, HasDp, HasIp, MayIp, Making, Onward, Alive
<1>4. inode \in [Inum -> InodeType] /\ itable \in [Inum -> EntryType] /\ TypeOK
  BY DEF Accounted, TypeOK
<1>5. PICK e : e = Returned(c)
  OBVIOUS
<1>6. CASE c.op = "exit"
  <2>1. e = [Idle EXCEPT !.pc = "exit", !.op = "exit"]
    BY <1>5, <1>6 DEF Returned
  <2>2. /\ e.pc = "exit" /\ e.op = "exit" /\ e.at = None /\ e.ip = None /\ e.dp = None /\ e.put = None
        /\ e.inum = None /\ e.path = <<>>
    BY <2>1, IdleRecord
  <2>3. "exit" \in (Places \ {"put_ip"}) \cup Puts /\ "exit" \in Ops
    BY DEF Places, Ops
  <2>4. e \in CallType
    BY <2>1, <2>3, IdleRecord DEF CallType
  <2>5. Shape(e) /\ (Alive(e) <=> Alive(c))
    BY <1>2, <1>6, <2>2, FileConstants
       DEF Shape, Place, Puts, Rets, HasDp, HasIp, MayIp, Making, Onward, Alive
  <2>6. \A k \in Inum : Ptr(e, k) = Ptr(c, k)
    BY <1>3, <2>2 DEF Ptr, Ind
  <2>7. Write(p, inode, itable, e)
    BY <1>1, <1>5 DEF EndOp, Step
  <2>20. Accounted'
    BY <1>1, <1>4, <2>4, <2>5, <2>6, <2>7, WriteAccounted
  <2>21. ASSUME Consistent PROVE Consistent'
    <3>1. Knows(inode, links, c)
      BY <1>1, <2>21 DEF Consistent
    <3>2. Follows(call[p], e, None)
      BY <1>1, <1>2, <1>3, <1>6, <2>2, FileConstants DEF Follows, Owes, Pending, Place, Puts, Uses, New
    <3>3. SameHolds(call[p], e)
      BY <1>1, <1>2, <1>3, <1>6, <2>2, FileConstants DEF SameHolds, Holds, HoldIp, HoldDp, Place, Puts
    <3>4. Knows(inode, links, e)
      BY <3>1, <1>2, <1>3, <1>6, <2>2, FileConstants DEF Knows, Uses, Firm, Pending, New, Place, Puts
    <3> QED BY <1>1, <2>21, <2>7, <1>2, <1>3, <1>6, <2>2, <3>2, <3>3, <3>4, SameConsistent
  <2> QED BY <2>20, <2>21
<1>7. CASE c.op # "exit"
  <2>1. e = IF c.op = "die" THEN Dead ELSE Idle
    BY <1>5, <1>7 DEF Returned
  <2>2. /\ e.pc = (IF c.op = "die" THEN "dead" ELSE "idle") /\ e.op = "none" /\ e.at = None /\ e.ip = None
        /\ e.dp = None /\ e.put = None /\ e.inum = None /\ e.path = <<>> /\ e \in CallType
    BY <2>1, IdleRecord
  <2>5. Shape(e) /\ (Alive(e) <=> Alive(c))
    BY <1>2, <1>3, <1>7, <2>2, FileConstants
       DEF Shape, Place, Puts, Rets, HasDp, HasIp, MayIp, Making, Onward, Alive
  <2>6. \A k \in Inum : Ptr(e, k) = Ptr(c, k)
    BY <1>3, <2>2 DEF Ptr, Ind
  <2>7. Write(p, inode, itable, e)
    BY <1>1, <1>5 DEF EndOp, Step
  <2>20. Accounted'
    BY <1>1, <1>4, <2>2, <2>5, <2>6, <2>7, WriteAccounted
  <2>21. ASSUME Consistent PROVE Consistent'
    <3>1. Knows(inode, links, c)
      BY <1>1, <2>21 DEF Consistent
    <3>2. Follows(call[p], e, None)
      BY <1>1, <1>2, <1>3, <1>7, <2>2, FileConstants DEF Follows, Owes, Pending, Place, Puts, Uses, New
    <3>3. SameHolds(call[p], e)
      BY <1>1, <1>2, <1>3, <1>7, <2>2, FileConstants DEF SameHolds, Holds, HoldIp, HoldDp, Place, Puts
    <3>4. Knows(inode, links, e)
      BY <3>1, <1>2, <1>3, <1>7, <2>2, FileConstants DEF Knows, Uses, Firm, Pending, New, Place, Puts
    <3> QED BY <1>1, <2>21, <2>7, <1>2, <1>3, <1>7, <2>2, <3>2, <3>3, <3>4, SameConsistent
  <2> QED BY <2>20, <2>21
<1> QED BY <1>6, <1>7

\* dirlookup() in create() keeps both invariants.
LEMMA CreateLookupKeeps ==
    ASSUME Accounted, NEW p \in Proc, CreateLookup(p)
    PROVE  Accounted' /\ (Consistent => Consistent')
<1>1. PICK c : c = call[p]
  OBVIOUS
<1>2. c \in CallType /\ Shape(c) /\ c.pc = "create"
  BY <1>1, CallOf DEF CreateLookup, Ilock, At
<1>3. /\ c.dp \in Inum /\ c.ip = None /\ c.inum = None /\ c.at = None /\ c.put = None /\ Alive(c)
      /\ c.op \in {"create", "mkdir"} /\ c.path \in Seq(Names) /\ c.path # <<>>
  BY <1>2, CallFields, FileConstants DEF Shape, Place, Puts, Rets, HasDp, HasIp, MayIp, Making, Onward, Alive
<1>4. inode \in [Inum -> InodeType] /\ itable \in [Inum -> EntryType] /\ TypeOK
  BY DEF Accounted, TypeOK
<1>5. PICK d : d = c.dp
  OBVIOUS
<1>6. PICK j : j = Dirlookup(d, Head(c.path))
  OBVIOUS
<1>7. d \in Inum /\ j \in Inum \cup {None} /\ Head(c.path) \in Names
  <2>1. Head(c.path) \in Names
    BY <1>3, PathSeq
  <2> QED BY <1>3, <1>4, <1>5, <1>6, <2>1 DEF Dirlookup, InodeType
<1>8. Seen(d) \in [Inum -> EntryType] /\ \A k \in Inum : Seen(d)[k].ref = itable[k].ref
  BY <1>7, <1>4, SeenTable
<1>9. CASE Fault(p) # "no"
  BY <1>9, PanicAccounted, PanicConsistent DEF CreateLookup, Ilock, Panic, AllButPanic
<1>10. CASE Fault(p) = "no" /\ j # None
  <2>1. j \in Inum /\ <<>> \in Seq(Names)
    BY <1>7, <1>10
  <2>10. PICK e0 : e0 = [c EXCEPT !.ip = j, !.dp = None, !.path = <<>>]
    OBVIOUS
  <2>16. /\ e0 \in CallType /\ e0.ip = j /\ e0.dp = None /\ e0.path = <<>> /\ e0.op = c.op /\ e0.new = c.new
         /\ e0.at = c.at /\ e0.inum = c.inum
    BY <1>2, <1>3, <2>1, <2>10 DEF CallType
  <2>11. PICK e : e = Iput(e0, d, "exists")
    OBVIOUS
  <2>12. /\ e \in CallType /\ e.pc = "put" /\ e.put = d /\ e.ret = "exists" /\ e.ip = e0.ip /\ e.dp = e0.dp
         /\ e.path = e0.path /\ e.op = e0.op /\ e.new = e0.new /\ e.at = e0.at /\ e.inum = e0.inum
    <3>1. "exists" \in Rets
      BY DEF Rets
    <3> QED BY <1>7, <2>11, <2>16, <3>1, IputRecord
  <2>13. Shape(e) /\ Alive(e)
    BY <1>3, <1>5, <1>7, <2>1, <2>16, <2>12, FileConstants
       DEF Shape, Place, Puts, Rets, HasDp, HasIp, MayIp, Making, Onward, Alive
  <2>14. \A k \in Inum : Ptr(e, k) = Ptr(c, k) + Ind(k = j)
    BY <1>3, <1>5, <1>7, <2>1, <2>16, <2>12, FileConstants DEF Ptr, Ind
  <2>15. Get(p, j, Seen(d), e)
    BY <1>1, <1>10, <2>10, <2>11, <1>5, <1>6 DEF CreateLookup, Ilock
  <2>20. Accounted'
    BY <1>1, <1>3, <1>4, <2>12, <2>13, <2>14, <2>15, <1>8, <2>1, GetAccounted
  <2>21. ASSUME Consistent PROVE Consistent'
    <3>1. Knows(inode, links, c)
      BY <1>1, <2>21 DEF Consistent
    <3>7. /\ inode[d].type # "free" /\ Loaded(d).type = inode[d].type
          /\ inode[d].type = "dir" => links[d] > 0 /\ Live(inode, links, d)
      BY <1>1, <1>3, <1>5, <1>7, <2>21, Read DEF Has, Uses, Firm, Live
    <3>9. itable[d].lock = None /\ Wanted(p) = d /\ inode[d].type = "dir"
      <4>1. Wanted(p) = d
        BY <1>1, <1>2, <1>5 DEF Wanted
      <4>2. itable[Wanted(p)].lock = None
        BY DEF CreateLookup, Ilock
      <4> QED BY <1>3, <1>5, <3>1, <4>1, <4>2, FileConstants DEF Knows
    <3>8. links[j] > 0 /\ inode[j].type # "free"
      <4>1. Live(inode, links, d) /\ inode[d].ents[Head(c.path)] = j /\ j # None
        BY <1>6, <1>10, <3>7, <3>9 DEF Dirlookup
      <4>3. PICK n : n = Head(c.path)
        OBVIOUS
      <4>4. n \in Names /\ inode[d].ents[n] = j
        BY <1>7, <4>1, <4>3
      <4>2. links[j] > 0
        BY <1>7, <2>21, <4>1, <4>4, EntryLinked
      <4> QED BY <1>7, <2>1, <2>21, <4>2, LinkedUsed
    <3>2. Follows(call[p], e, j)
      BY <1>1, <1>2, <1>3, <1>5, <1>7, <2>1, <2>16, <2>12, FileConstants
         DEF Follows, Owes, Pending, Place, Puts, Uses, New
    <3>3. SameHolds(call[p], e)
      BY <1>1, <1>2, <1>3, <1>5, <1>7, <2>1, <2>16, <2>12, FileConstants
         DEF SameHolds, Holds, HoldIp, HoldDp, Place, Puts
    <3>4. Knows(inode, links, e)
      BY <3>1, <1>2, <1>3, <1>5, <1>7, <2>1, <2>16, <2>12, <3>8, FileConstants
         DEF Knows, Uses, Firm, Pending, New, Place, Puts
    <3> QED BY <1>1, <2>21, <2>15, <1>2, <1>3, <1>5, <1>7, <2>1, <2>16, <2>12, <3>2, <3>3, <3>4, <3>7, <3>8,
               SeenGetConsistent
  <2> QED BY <2>20, <2>21
<1>11. CASE Fault(p) = "no" /\ j = None
  <2>1. "ialloc" \in (Places \ {"put_ip"}) \cup Puts
    BY DEF Places
  <2>2. Locked(p, d) \in [Inum -> EntryType] /\ \A k \in Inum : Locked(p, d)[k].ref = itable[k].ref
    BY <1>4, <1>7, LockedTable
  <2>11. PICK e : e = [c EXCEPT !.pc = "ialloc"]
    OBVIOUS
  <2>12. /\ e \in CallType /\ e.pc = "ialloc" /\ e.op = c.op /\ e.path = c.path /\ e.new = c.new /\ e.at = c.at
         /\ e.ip = c.ip /\ e.dp = c.dp /\ e.inum = c.inum /\ e.put = c.put /\ e.ret = c.ret
    BY <1>2, <2>1, <2>11 DEF CallType
  <2>13. Shape(e) /\ Alive(e)
    BY <1>2, <1>3, <2>12, FileConstants
       DEF Shape, Place, Puts, Rets, HasDp, HasIp, MayIp, Making, Onward, Alive
  <2>14. \A k \in Inum : Ptr(e, k) = Ptr(c, k)
    BY <1>2, <1>3, <2>12, FileConstants DEF Ptr, Ind
  <2>15. Write(p, inode, Locked(p, d), e)
    BY <1>1, <1>11, <2>11, <1>5, <1>6 DEF CreateLookup, Ilock, Step
  <2>20. Accounted'
    BY <1>1, <1>3, <1>4, <2>12, <2>13, <2>14, <2>15, <2>2, WriteAccounted
  <2>21. ASSUME Consistent PROVE Consistent'
    <3>1. Knows(inode, links, c)
      BY <1>1, <2>21 DEF Consistent
    <3>7. /\ inode[d].type # "free" /\ Loaded(d).type = inode[d].type
          /\ inode[d].type = "dir" => links[d] > 0 /\ Live(inode, links, d)
      BY <1>1, <1>3, <1>5, <1>7, <2>21, Read DEF Has, Uses, Firm, Live
    <3>9. itable[d].lock = None /\ Wanted(p) = d /\ inode[d].type = "dir"
      <4>1. Wanted(p) = d
        BY <1>1, <1>2, <1>5 DEF Wanted
      <4>2. itable[Wanted(p)].lock = None
        BY DEF CreateLookup, Ilock
      <4> QED BY <1>3, <1>5, <3>1, <4>1, <4>2, FileConstants DEF Knows
    <3>8. inode[c.dp].ents[Head(c.path)] = None
      BY <1>5, <1>6, <1>11 DEF Dirlookup
    <3>2. Follows(call[p], e, None)
      BY <1>1, <1>2, <1>3, <1>5, <2>12, FileConstants DEF Follows, Owes, Pending, Place, Puts, Uses, New
    <3>3. AlsoHolds(call[p], e, d)
      BY <1>1, <1>2, <1>3, <1>5, <2>12, FileConstants DEF AlsoHolds, Holds, HoldIp, HoldDp, Place, Puts
    <3>4. Knows(inode, links, e)
      BY <3>1, <1>2, <1>3, <1>5, <2>12, <3>8, FileConstants DEF Knows, Uses, Firm, Pending, New, Place, Puts
    <3> QED BY <1>1, <2>21, <2>15, <1>2, <1>3, <1>5, <2>12, <3>2, <3>3, <3>4, <3>7, <3>9, LockedConsistent
  <2> QED BY <2>20, <2>21
<1> QED BY <1>7, <1>9, <1>10, <1>11

\* create() of a name that is there keeps both invariants.
LEMMA CreateExistsKeeps ==
    ASSUME Accounted, NEW p \in Proc, CreateExists(p)
    PROVE  Accounted' /\ (Consistent => Consistent')
<1>1. PICK c : c = call[p]
  OBVIOUS
<1>2. c \in CallType /\ Shape(c) /\ c.pc = "exists"
  BY <1>1, CallOf DEF CreateExists, Ilock, At
<1>3. /\ c.ip \in Inum /\ c.at = None /\ c.dp = None /\ c.put = None /\ Alive(c)
  BY <1>2, CallFields, FileConstants DEF Shape, Place, Puts, Rets, HasDp, HasIp, MayIp, Making, Onward, Alive
<1>4. inode \in [Inum -> InodeType] /\ itable \in [Inum -> EntryType] /\ TypeOK
  BY DEF Accounted, TypeOK
<1>9. CASE Fault(p) # "no"
  BY <1>9, PanicAccounted, PanicConsistent DEF CreateExists, Ilock, Panic, AllButPanic
<1>10. CASE Fault(p) = "no"
  <2>1. PICK l : l \in {"file", "unlockput_ip"} /\ Write(p, inode, Locked(p, c.ip), [Only(c.ip) EXCEPT !.pc = l])
    BY <1>1, <1>10 DEF CreateExists, Ilock, Step
  <2>2. l \in (Places \ {"put_ip"}) \cup Puts
    BY <2>1 DEF Places, Rets
  <2>3. Only(c.ip) \in CallType
    BY <1>3, OnlyRecord
  <2>11. PICK e : e = [Only(c.ip) EXCEPT !.pc = l]
    OBVIOUS
  <2>12. e \in CallType /\ e.pc = l /\ e.op = "none" /\ e.at = None /\ e.ip = c.ip /\ e.dp = None
        /\ e.inum = None /\ e.put = None /\ e.path = <<>>
    <3>1. PICK e0 : e0 = Only(c.ip)
      OBVIOUS
    <3>2. e0 \in CallType /\ e0.op = "none" /\ e0.at = None /\ e0.ip = c.ip /\ e0.dp = None
          /\ e0.inum = None /\ e0.put = None /\ e0.path = <<>>
      BY <1>3, <3>1, OnlyRecord
    <3>3. e = [e0 EXCEPT !.pc = l]
      BY <2>11, <3>1
    <3> QED BY <2>2, <3>2, <3>3 DEF CallType
  <2>13. Shape(e) /\ Alive(e)
    BY <1>3, <2>1, <2>12, FileConstants
       DEF Shape, Place, Puts, Rets, HasDp, HasIp, MayIp, Making, Onward, Alive
  <2>14. \A k \in Inum : Ptr(e, k) = Ptr(c, k)
    BY <1>3, <2>1, <2>12, FileConstants DEF Ptr, Ind
  <2>15. Write(p, inode, Locked(p, c.ip), e)
    BY <2>1, <2>11
  <2>16. Locked(p, c.ip) \in [Inum -> EntryType] /\ \A k \in Inum : Locked(p, c.ip)[k].ref = itable[k].ref
    BY <1>3, <1>4, LockedTable
  <2>20. Accounted'
    BY <1>1, <1>3, <1>4, <2>12, <2>13, <2>14, <2>15, <2>16, WriteAccounted
  <2>21. ASSUME Consistent PROVE Consistent'
    <3>1. Knows(inode, links, c)
      BY <1>1, <2>21 DEF Consistent
    <3>7. inode[c.ip].type # "free" /\ itable[c.ip].lock = None
      <4>1. Wanted(p) = c.ip
        BY <1>1, <1>2 DEF Wanted
      <4>2. itable[Wanted(p)].lock = None
        BY DEF CreateExists, Ilock
      <4> QED BY <1>3, <3>1, <4>1, <4>2 DEF Knows, Uses
    <3>2. Follows(call[p], e, None)
      BY <1>1, <1>2, <1>3, <2>1, <2>12, FileConstants DEF Follows, Owes, Pending, Place, Puts, Uses, New
    <3>3. AlsoHolds(call[p], e, c.ip)
      BY <1>1, <1>2, <1>3, <2>1, <2>12, FileConstants DEF AlsoHolds, Holds, HoldIp, HoldDp, Place, Puts
    <3>4. Knows(inode, links, e)
      BY <3>1, <1>2, <1>3, <2>1, <2>12, FileConstants DEF Knows, Uses, Firm, Pending, New, Place, Puts
    <3> QED BY <1>1, <2>21, <2>15, <1>2, <1>3, <2>1, <2>12, <3>2, <3>3, <3>4, <3>7, LockedConsistent
  <2> QED BY <2>20, <2>21
<1> QED BY <1>9, <1>10

\* open() of a path keeps both invariants.
LEMMA OpenKeeps == ASSUME Accounted, NEW p \in Proc, Open(p) PROVE Accounted' /\ (Consistent => Consistent')
<1>1. PICK c : c = call[p]
  OBVIOUS
<1>2. c \in CallType /\ Shape(c) /\ c.pc = "open"
  BY <1>1, CallOf DEF Open, Ilock, At
<1>3. /\ c.ip \in Inum /\ c.at = None /\ c.dp = None /\ c.put = None /\ Alive(c)
  BY <1>2, CallFields, FileConstants DEF Shape, Place, Puts, Rets, HasDp, HasIp, MayIp, Making, Onward, Alive
<1>4. inode \in [Inum -> InodeType] /\ itable \in [Inum -> EntryType] /\ TypeOK
  BY DEF Accounted, TypeOK
<1>9. CASE Fault(p) # "no"
  BY <1>9, PanicAccounted, PanicConsistent DEF Open, Ilock, Panic, AllButPanic
<1>10. CASE Fault(p) = "no"
  <2>1. PICK l : l \in {"file", "unlockput_ip"} /\ Write(p, inode, Locked(p, c.ip), [Only(c.ip) EXCEPT !.pc = l])
    BY <1>1, <1>10 DEF Open, Ilock, Step
  <2>2. l \in (Places \ {"put_ip"}) \cup Puts
    BY <2>1 DEF Places, Rets
  <2>3. Only(c.ip) \in CallType
    BY <1>3, OnlyRecord
  <2>11. PICK e : e = [Only(c.ip) EXCEPT !.pc = l]
    OBVIOUS
  <2>12. e \in CallType /\ e.pc = l /\ e.op = "none" /\ e.at = None /\ e.ip = c.ip /\ e.dp = None
        /\ e.inum = None /\ e.put = None /\ e.path = <<>>
    <3>1. PICK e0 : e0 = Only(c.ip)
      OBVIOUS
    <3>2. e0 \in CallType /\ e0.op = "none" /\ e0.at = None /\ e0.ip = c.ip /\ e0.dp = None
          /\ e0.inum = None /\ e0.put = None /\ e0.path = <<>>
      BY <1>3, <3>1, OnlyRecord
    <3>3. e = [e0 EXCEPT !.pc = l]
      BY <2>11, <3>1
    <3> QED BY <2>2, <3>2, <3>3 DEF CallType
  <2>13. Shape(e) /\ Alive(e)
    BY <1>3, <2>1, <2>12, FileConstants
       DEF Shape, Place, Puts, Rets, HasDp, HasIp, MayIp, Making, Onward, Alive
  <2>14. \A k \in Inum : Ptr(e, k) = Ptr(c, k)
    BY <1>3, <2>1, <2>12, FileConstants DEF Ptr, Ind
  <2>15. Write(p, inode, Locked(p, c.ip), e)
    BY <2>1, <2>11
  <2>16. Locked(p, c.ip) \in [Inum -> EntryType] /\ \A k \in Inum : Locked(p, c.ip)[k].ref = itable[k].ref
    BY <1>3, <1>4, LockedTable
  <2>20. Accounted'
    BY <1>1, <1>3, <1>4, <2>12, <2>13, <2>14, <2>15, <2>16, WriteAccounted
  <2>21. ASSUME Consistent PROVE Consistent'
    <3>1. Knows(inode, links, c)
      BY <1>1, <2>21 DEF Consistent
    <3>7. inode[c.ip].type # "free" /\ itable[c.ip].lock = None
      <4>1. Wanted(p) = c.ip
        BY <1>1, <1>2 DEF Wanted
      <4>2. itable[Wanted(p)].lock = None
        BY DEF Open, Ilock
      <4> QED BY <1>3, <3>1, <4>1, <4>2 DEF Knows, Uses
    <3>2. Follows(call[p], e, None)
      BY <1>1, <1>2, <1>3, <2>1, <2>12, FileConstants DEF Follows, Owes, Pending, Place, Puts, Uses, New
    <3>3. AlsoHolds(call[p], e, c.ip)
      BY <1>1, <1>2, <1>3, <2>1, <2>12, FileConstants DEF AlsoHolds, Holds, HoldIp, HoldDp, Place, Puts
    <3>4. Knows(inode, links, e)
      BY <3>1, <1>2, <1>3, <2>1, <2>12, FileConstants DEF Knows, Uses, Firm, Pending, New, Place, Puts
    <3> QED BY <1>1, <2>21, <2>15, <1>2, <1>3, <2>1, <2>12, <3>2, <3>3, <3>4, <3>7, LockedConsistent
  <2> QED BY <2>20, <2>21
<1> QED BY <1>9, <1>10

\* ialloc() keeps both invariants.
LEMMA IallocKeeps == ASSUME Accounted, NEW p \in Proc, Ialloc(p) PROVE Accounted' /\ (Consistent => Consistent')
<1>1. PICK c : c = call[p]
  OBVIOUS
<1>2. c \in CallType /\ Shape(c) /\ c.pc = "ialloc"
  BY <1>1, CallOf DEF Ialloc, Ilock, At
<1>3. /\ c.dp \in Inum /\ c.ip = None /\ c.inum = None /\ c.at = None /\ c.put = None /\ Alive(c)
      /\ c.op \in {"create", "mkdir"} /\ c.path \in Seq(Names) /\ c.path # <<>>
  BY <1>2, CallFields, FileConstants DEF Shape, Place, Puts, Rets, HasDp, HasIp, MayIp, Making, Onward, Alive
<1>4. inode \in [Inum -> InodeType] /\ itable \in [Inum -> EntryType] /\ TypeOK
  BY DEF Accounted, TypeOK
<1>10. CASE {i \in Inum : inode[i].type = "free"} = {}
  <2>1. "unlockput_dp" \in (Places \ {"put_ip"}) \cup Puts
    BY DEF Places, Rets
  <2>11. PICK e : e = [Idle EXCEPT !.pc = "unlockput_dp", !.dp = c.dp]
    OBVIOUS
  <2>12. e \in CallType /\ e.pc = "unlockput_dp" /\ e.op = "none" /\ e.dp = c.dp /\ e.ip = None
        /\ e.at = None /\ e.inum = None /\ e.put = None /\ e.path = <<>>
    <3>1. PICK e0 : e0 = Idle
      OBVIOUS
    <3>2. e0 \in CallType /\ e0.op = "none" /\ e0.ip = None /\ e0.at = None /\ e0.inum = None
          /\ e0.put = None /\ e0.path = <<>>
      BY <3>1, IdleRecord
    <3>3. e = [e0 EXCEPT !.pc = "unlockput_dp", !.dp = c.dp]
      BY <2>11, <3>1
    <3> QED BY <1>3, <2>1, <3>2, <3>3 DEF CallType
  <2>13. Shape(e) /\ Alive(e)
    BY <1>3, <2>12, FileConstants
       DEF Shape, Place, Puts, Rets, HasDp, HasIp, MayIp, Making, Onward, Alive
  <2>14. \A k \in Inum : Ptr(e, k) = Ptr(c, k)
    BY <1>3, <2>12, FileConstants DEF Ptr, Ind
  <2>15. Write(p, inode, itable, e)
    BY <1>1, <1>10, <2>11 DEF Ialloc, Step
  <2>20. Accounted'
    BY <1>1, <1>3, <1>4, <2>12, <2>13, <2>14, <2>15, WriteAccounted
  <2>21. ASSUME Consistent PROVE Consistent'
    <3>1. Knows(inode, links, c)
      BY <1>1, <2>21 DEF Consistent
    <3>2. Follows(call[p], e, None)
      BY <1>1, <1>2, <1>3, <2>12, FileConstants DEF Follows, Owes, Pending, Place, Puts, Uses, New
    <3>3. SameHolds(call[p], e)
      BY <1>1, <1>2, <1>3, <2>12, FileConstants DEF SameHolds, Holds, HoldIp, HoldDp, Place, Puts
    <3>4. Knows(inode, links, e)
      BY <3>1, <1>2, <1>3, <2>12, FileConstants DEF Knows, Uses, Firm, Pending, New, Place, Puts
    <3> QED BY <1>1, <2>21, <2>15, <1>2, <1>3, <2>12, <3>2, <3>3, <3>4, SameConsistent
  <2> QED BY <2>20, <2>21
<1>11. CASE {i \in Inum : inode[i].type = "free"} # {}
  <2>1. PICK i \in Inum : /\ inode[i].type = "free"
                          /\ Write(p, [inode EXCEPT ![i] = [Free EXCEPT !.type = NewType(c.op)]], itable,
                                   [c EXCEPT !.pc = "iget", !.inum = i])
    BY <1>1, <1>11 DEF Ialloc
  <2>2. "iget" \in (Places \ {"put_ip"}) \cup Puts
    BY DEF Places
  <2>11. PICK e : e = [c EXCEPT !.pc = "iget", !.inum = i]
    OBVIOUS
  <2>12. /\ e \in CallType /\ e.pc = "iget" /\ e.inum = i /\ e.op = c.op /\ e.path = c.path /\ e.new = c.new
         /\ e.at = c.at /\ e.ip = c.ip /\ e.dp = c.dp /\ e.put = c.put /\ e.ret = c.ret
    BY <1>2, <2>2, <2>11 DEF CallType
  <2>13. Shape(e) /\ Alive(e)
    BY <1>2, <1>3, <2>12, FileConstants
       DEF Shape, Place, Puts, Rets, HasDp, HasIp, MayIp, Making, Onward, Alive
  <2>14. \A k \in Inum : Ptr(e, k) = Ptr(c, k)
    BY <1>2, <1>3, <2>12, FileConstants DEF Ptr, Ind
  <2>15. [inode EXCEPT ![i] = [Free EXCEPT !.type = NewType(c.op)]] \in [Inum -> InodeType]
    <3>1. NewType(c.op) \in {"free", "dir", "file"}
      BY DEF NewType
    <3>2. [Free EXCEPT !.type = NewType(c.op)] \in InodeType
      BY <3>1, Records DEF InodeType
    <3> QED BY <1>4, <3>2
  <2>20. Accounted'
    BY <1>1, <1>3, <1>4, <2>1, <2>11, <2>12, <2>13, <2>14, <2>15, WriteAccounted
  <2>21. ASSUME Consistent PROVE Consistent'
    <3>1. Knows(inode, links, c) /\ Disk(inode, links) /\ Cached(inode, itable)
      BY <1>1, <2>21 DEF Consistent
    <3>0. PICK tab : tab = itable
      OBVIOUS
    <3>2. PICK b : b = [Free EXCEPT !.type = NewType(c.op)]
      OBVIOUS
    <3>3. b.type \in {"dir", "file"} /\ b.nlink = 0 /\ b.ents = NoEnts
      BY <3>2, Records DEF NewType
    <3>4. PICK fs : fs = [inode EXCEPT ![i] = b]
      OBVIOUS
    <3>5. /\ fs \in Disks /\ inode' = fs /\ call' = [call EXCEPT ![p] = e] /\ Write(p, fs, tab, e)
          /\ fs[i] = b /\ \A k \in Inum : k # i => fs[k] = inode[k]
      BY <1>4, <2>1, <2>11, <2>15, <3>0, <3>2, <3>4 DEF Disks, Write, Become
    <3>6. inode[i].type = "free" /\ inode[i].nlink = 0
      <4>1. inode[i].type = "free"
        BY <2>1
      <4> QED BY <2>1, <3>1, <4>1, Records DEF Disk
    <3>7. links' \in Counts /\ inode \in Disks /\ links \in Counts /\ \A k \in Inum : links'[k] = links[k]
      <4>1. \A k \in Inum : Owes(e, k) = Owes(c, k) /\ Owes(e, k) \in Int
        BY <1>2, <1>3, <2>12 DEF Owes, Pending, Place, Puts
      <4>3. /\ inode \in Disks /\ links \in Counts /\ links' \in Counts
            /\ \A k \in Inum : /\ inode[k].nlink \in Int /\ inode'[k].nlink \in Int /\ links[k] \in Int
                               /\ links'[k] = inode'[k].nlink - inode[k].nlink + links[k] + Owes(call[p], k) - Owes(e, k)
        BY <3>5, LinksNew
      <4>4. \A k \in Inum : inode'[k].nlink = inode[k].nlink
        BY <3>3, <3>5, <3>6
      <4> QED BY <1>1, <4>1, <4>3, <4>4
    <3>8. ~ (links[i] > 0)
      BY <2>1, <2>21, <3>6, LinkedUsed
    <3>9. Disk(fs, links')
      <4>2. Blank(fs)
        BY <3>1, <3>3, <3>5 DEF Disk, Blank
      <4>3. \A k \in Inum : links[k] > 0 => fs[k].ents = inode[k].ents /\ (fs[k].type = "dir" <=> inode[k].type = "dir")
        BY <3>5, <3>8
      <4> QED BY <3>1, <3>5, <3>7, <4>2, <4>3, DiskSame
    <3>10. Cached(fs, tab)
      BY <3>0, <2>1, <3>1, <3>3, <3>5, <3>6 DEF Cached
    <3>11. New(e) = i /\ New(c) = None
      BY <1>2, <2>12 DEF New
    <3>12. LockTo(tab, p, e)
      <4>1. \A k \in Inum : Holds(e, k) <=> Holds(c, k)
        BY <1>2, <1>3, <2>12 DEF Holds, HoldIp, HoldDp, Place, Puts
      <4> QED BY <1>1, <2>21, <3>0, <4>1, HeldBy DEF LockTo
    <3>13. c.dp # i /\ Live(inode, links, c.dp)
      BY <1>2, <1>3, <3>1, <3>6, FileConstants DEF Knows, Firm, Uses, Live
    <3>14. Knows(fs, links', e)
      <4>1. \A k \in Inum : Uses(e, k) => k = i \/ (k # i /\ Uses(c, k))
        BY <1>2, <2>12 DEF Uses
      <4>2. \A k \in Inum : Firm(e, k) => Firm(c, k) /\ k # i
        BY <1>2, <1>3, <2>12, <3>13, FileConstants DEF Firm, Place, Puts
      <4>3. ~ Pending(e) /\ Place(e) = "iget"
        BY <2>12 DEF Pending, Place, Puts
      <4>4. fs[e.dp] = inode[c.dp] /\ e.path = c.path
        BY <1>3, <2>12, <3>5, <3>13
      <4>5. inode[c.dp].ents[Head(c.path)] = None /\ inode[c.dp].type = "dir"
        BY <1>2, <1>3, <3>1, FileConstants DEF Knows, Place, Puts
      <4>6. fs[New(e)] = [Free EXCEPT !.type = NewType(e.op)]
        BY <2>12, <3>2, <3>5, <3>11
      <4> QED BY <3>1, <3>3, <3>5, <3>7, <4>1, <4>2, <4>3, <4>4, <4>5, <4>6 DEF Knows
    <3>15. Fresh(call', ftable, p)
      <4>1. \A q \in Proc : call'[q] = IF q = p THEN e ELSE call[q]
        BY <3>5 DEF Accounted, TypeOK
      <4>2. \A q \in Proc : ~ Uses(call[q], i)
        BY <2>1, <2>21, <3>6 DEF Consistent, Knows
      <4>3. \A f \in File : ftable[f].ref > 0 => ftable[f].ip # i
        BY <2>21, <3>6 DEF Consistent, FilesUsed
      <4> QED BY <3>11, <4>1, <4>2, <4>3 DEF Fresh
    <3>16. Changes(p, fs)
      BY <3>5, <3>6, <3>7 DEF Live, Changes
    <3>17. Onwards(p, e) /\ Unlinks(p, fs, tab, e)
      <4>1. \A k \in Inum : Uses(e, k) => k = i \/ Uses(c, k)
        BY <1>2, <2>12 DEF Uses
      <4> QED BY <1>1, <2>12, <3>0, <3>5, <3>6, <3>11, <4>1, FileConstants DEF Onwards, Unlinks
    <3>18. tab \in [Inum -> EntryType] /\ SameRefs(tab)
      BY <1>4, <3>0 DEF SameRefs
    <3> QED BY <2>21, <3>5, <3>9, <3>10, <3>12, <3>14, <3>15, <3>16, <3>17, <3>18, WriteConsistent
  <2> QED BY <2>20, <2>21
<1> QED BY <1>10, <1>11

\* iget() in ialloc() keeps both invariants.
LEMMA IallocGetKeeps ==
    ASSUME Accounted, NEW p \in Proc, IallocGet(p)
    PROVE  Accounted' /\ (Consistent => Consistent')
<1>1. PICK c : c = call[p]
  OBVIOUS
<1>2. c \in CallType /\ Shape(c) /\ c.pc = "iget"
  BY <1>1, CallOf DEF IallocGet, Ilock, At
<1>3. /\ c.dp \in Inum /\ c.ip = None /\ c.inum \in Inum /\ c.at = None /\ c.put = None /\ Alive(c)
      /\ c.op \in {"create", "mkdir"} /\ c.path \in Seq(Names) /\ c.path # <<>>
  BY <1>2, CallFields, FileConstants DEF Shape, Place, Puts, Rets, HasDp, HasIp, MayIp, Making, Onward, Alive
<1>4. inode \in [Inum -> InodeType] /\ itable \in [Inum -> EntryType] /\ TypeOK
  BY DEF Accounted, TypeOK
<1>5. PICK i : i = c.inum
  OBVIOUS
<1>6. "fill" \in (Places \ {"put_ip"}) \cup Puts
  BY DEF Places
<1>11. PICK e : e = [c EXCEPT !.pc = "fill", !.ip = i, !.inum = None]
  OBVIOUS
<1>12. /\ e \in CallType /\ e.pc = "fill" /\ e.ip = i /\ e.inum = None /\ e.op = c.op /\ e.path = c.path
       /\ e.new = c.new /\ e.at = c.at /\ e.dp = c.dp /\ e.put = c.put /\ e.ret = c.ret
  BY <1>2, <1>3, <1>5, <1>6, <1>11 DEF CallType
<1>13. Shape(e) /\ (Alive(e) <=> Alive(c))
  BY <1>2, <1>3, <1>5, <1>12, FileConstants
     DEF Shape, Place, Puts, Rets, HasDp, HasIp, MayIp, Making, Onward, Alive
<1>14. \A k \in Inum : Ptr(e, k) = Ptr(c, k) + Ind(k = i)
  BY <1>2, <1>3, <1>5, <1>12, FileConstants DEF Ptr, Ind
<1>15. Get(p, i, itable, e)
  BY <1>1, <1>5, <1>11 DEF IallocGet
<1>20. Accounted'
  BY <1>1, <1>3, <1>4, <1>5, <1>12, <1>13, <1>14, <1>15, GetAccounted
<1>21. ASSUME Consistent, ~ (i \notin InTable /\ Cardinality(InTable) = NINODE) PROVE Consistent'
  <2>1. Knows(inode, links, c) /\ Fresh(call, ftable, p) /\ Cached(inode, itable)
    BY <1>1, <1>21 DEF Consistent
  <2>2. /\ inode' = inode /\ itable' = Iget(itable, i) /\ call' = [call EXCEPT ![p] = e]
        /\ UNCHANGED <<ftable, ofile, cwd, orphans, missed>>
    BY <1>15, <1>21 DEF Get, Step, Write, Become
  <2>3. New(c) = i /\ New(e) = i /\ i \in Inum /\ e.pc # "trunc"
    BY <1>2, <1>3, <1>5, <1>12 DEF New
  <2>4. \A k \in Inum : /\ Uses(e, k) <=> Uses(c, k)
                        /\ Firm(e, k) => Firm(c, k)
                        /\ Owes(e, k) = Owes(c, k)
                        /\ Holds(e, k) <=> Holds(c, k)
    BY <1>2, <1>3, <1>5, <1>12, FileConstants DEF Uses, Firm, Owes, Pending, Holds, HoldIp, HoldDp, Place, Puts
  <2>5. links' = links /\ Disk(inode', links')
    BY <1>1, <1>21, <2>2, <2>4, Quiet
  <2>6. /\ \A k \in Inum : k # i => itable'[k] = itable[k]
        /\ itable'[i].ref = itable[i].ref + 1
        /\ itable'[i].valid = (itable[i].ref > 0 /\ itable[i].valid)
        /\ itable'[i].type = itable[i].type /\ itable'[i].nlink = itable[i].nlink
        /\ \A k \in Inum : itable'[k].lock = itable[k].lock
    BY <1>4, <2>2, <2>3, IgetTable
  <2>7. itable[i].ref \in Nat
    BY <1>4, <2>3 DEF EntryType
  <2>8. Touches(p)
    BY <1>1, <1>5, <2>2, <2>5, <2>6 DEF Touches, Live
  <2>9. Gains(p, e) /\ LockMoves(p, e) /\ CwdFrom /\ FilesIn(p)
    <3>1. \A k \in Inum : itable[k].lock = p <=> Holds(c, k)
      BY <1>1, <1>21, HeldBy
    <3> QED BY <1>1, <2>2, <2>4, <2>6, <3>1 DEF Gains, LockMoves, CwdFrom, FilesIn, FilesFrom
  <2>10. Leaves(p, e)
    <3>1. itable'[i].ref > 0 /\ itable'[i].ref # 0
      BY <2>6, <2>7
    <3> QED BY <1>1, <1>5, <2>2, <2>3, <2>6, <3>1 DEF Leaves
  <2>11. Cached(inode', itable')
    <3>1. itable[i].lock # None => itable[i].ref > 0
      BY <1>21, <2>3, LockRef
    <3> QED BY <2>1, <2>2, <2>3, <2>6, <2>7, <3>1 DEF Cached
  <2>12. Knows(inode', links', e)
    <3>1. /\ Place(e) = "fill" /\ Place(c) = "iget" /\ ~ Pending(e) /\ e.dp = c.dp /\ e.op = c.op
          /\ e.path = c.path
      BY <1>2, <1>12 DEF Pending, Place, Puts
    <3> QED BY <2>1, <2>2, <2>3, <2>4, <2>5, <3>1 DEF Knows
  <2>13. Fresh(call', ftable', p)
    <3>1. \A q \in Proc : call'[q] = IF q = p THEN e ELSE call[q]
      BY <2>2 DEF Accounted, TypeOK
    <3> QED BY <1>1, <2>1, <2>2, <2>3, <3>1 DEF Fresh
  <2> QED BY <1>21, <2>2, <2>3, <2>5, <2>8, <2>9, <2>10, <2>11, <2>12, <2>13, StepConsistent
<1>22. ASSUME Consistent, i \notin InTable /\ Cardinality(InTable) = NINODE PROVE Consistent'
  BY <1>15, <1>22, PanicConsistent DEF Get, Panic, AllButPanic
<1> QED BY <1>20, <1>21, <1>22

\* The rest of create() keeps both invariants.
LEMMA FillKeeps == ASSUME Accounted, NEW p \in Proc, Fill(p) PROVE Accounted' /\ (Consistent => Consistent')
<1>1. PICK c : c = call[p]
  OBVIOUS
<1>2. c \in CallType /\ Shape(c) /\ c.pc = "fill"
  BY <1>1, CallOf DEF Fill, Ilock, At
<1>3. /\ c.dp \in Inum /\ c.ip \in Inum /\ c.inum = None /\ c.at = None /\ c.put = None /\ Alive(c)
      /\ c.path \in Seq(Names) /\ c.path # <<>>
  BY <1>2, CallFields, FileConstants DEF Shape, Place, Puts, Rets, HasDp, HasIp, MayIp, Making, Onward, Alive
<1>4. inode \in [Inum -> InodeType] /\ itable \in [Inum -> EntryType] /\ TypeOK
  BY DEF Accounted, TypeOK
<1>5. PICK i : i = c.ip
  OBVIOUS
<1>6. PICK d : d = c.dp
  OBVIOUS
<1>7. PICK n : n = Head(c.path)
  OBVIOUS
<1>8. i \in Inum /\ d \in Inum /\ n \in Names /\ NewEnts(c.op, i, d) \in [Names -> Inum \cup {None}]
  <2>1. i \in Inum /\ d \in Inum /\ n \in Names
    BY <1>3, <1>5, <1>6, <1>7, PathSeq
  <2> QED BY <2>1, NewEntsType
<1>9. CASE Fault(p) # "no"
  BY <1>9, PanicAccounted, PanicConsistent DEF Fill, Ilock, Panic, AllButPanic
<1>10. CASE Fault(p) = "no"
  <2>1. PICK up : up = IF c.op = "mkdir" THEN 1 ELSE 0
    OBVIOUS
  <2>2. \/ Write(p, SetLinks(SetEnt(SetInode(inode, i, 1, NewEnts(c.op, i, d)), d, n, i), d, inode[d].nlink + up),
                 SetLock(Up(Up(Locked(p, i), i, 1), d, up), d, None),
                 Iput(Only(i), d, IF c.op = "mkdir" THEN "unlockput_ip" ELSE "file"))
        \/ Write(p, SetEnts(inode, i, NewEnts(c.op, i, d)), Seen(i), Iput([Idle EXCEPT !.dp = d], i, "unlockput_dp"))
    BY <1>1, <1>5, <1>6, <1>7, <1>10, <2>1
       DEF Fill, Ilock, SetEnt, SetInode, SetEnts, SetLinks, NewEnts, SetLock
  <2>3. CASE Write(p, SetLinks(SetEnt(SetInode(inode, i, 1, NewEnts(c.op, i, d)), d, n, i), d, inode[d].nlink + up),
                 SetLock(Up(Up(Locked(p, i), i, 1), d, up), d, None),
                 Iput(Only(i), d, IF c.op = "mkdir" THEN "unlockput_ip" ELSE "file"))
    <3>1. PICK r : r = IF c.op = "mkdir" THEN "unlockput_ip" ELSE "file"
      OBVIOUS
    <3>2. PICK e : e = Iput(Only(i), d, r)
      OBVIOUS
    <3>3. e \in CallType /\ e.pc = "put" /\ e.put = d /\ e.ret = r /\ e.op = "none" /\ e.path = <<>>
          /\ e.at = None /\ e.ip = i /\ e.dp = None /\ e.inum = None
      <4>1. r \in Rets
        BY <3>1 DEF Rets
      <4> QED BY <1>8, <3>2, <4>1, OnlyRecord, IputRecord
    <3>4. Shape(e) /\ Alive(e)
      BY <1>8, <3>1, <3>3, FileConstants
         DEF Shape, Place, Puts, Rets, HasDp, HasIp, MayIp, Making, Onward, Alive
    <3>5. \A k \in Inum : Ptr(e, k) = Ptr(c, k)
      BY <1>3, <1>5, <1>6, <3>3, FileConstants DEF Ptr, Ind
    <3>6. up \in Int
      BY <2>1
    <3>7. /\ SetLinks(SetEnt(SetInode(inode, i, 1, NewEnts(c.op, i, d)), d, n, i), d, inode[d].nlink + up) \in [Inum -> InodeType]
      <4>1. SetInode(inode, i, 1, NewEnts(c.op, i, d)) \in [Inum -> InodeType]
        BY <1>4, <1>8, SetInodeType
      <4>2. SetEnt(SetInode(inode, i, 1, NewEnts(c.op, i, d)), d, n, i) \in [Inum -> InodeType]
        BY <1>8, <4>1, SetEntInode
      <4>3. inode[d].nlink + up \in Int
        BY <1>4, <1>8, <3>6 DEF InodeType
      <4> QED BY <1>8, <4>2, <4>3, SetLinksInode
    <3>8. LET tab == SetLock(Up(Up(Locked(p, i), i, 1), d, up), d, None)
          IN  tab \in [Inum -> EntryType] /\ \A k \in Inum : tab[k].ref = itable[k].ref
      <4>1. PICK t1 : t1 = Up(Locked(p, i), i, 1)
        OBVIOUS
      <4>2. t1 \in [Inum -> EntryType] /\ \A k \in Inum : t1[k].ref = itable[k].ref
        BY <1>4, <1>8, <4>1, LockedTable, UpTable
      <4>3. PICK t2 : t2 = Up(t1, d, up)
        OBVIOUS
      <4>4. t2 \in [Inum -> EntryType] /\ \A k \in Inum : t2[k].ref = itable[k].ref
        BY <1>8, <3>6, <4>2, <4>3, UpTable
      <4>5. None \in Owner
        BY DEF Owner
      <4>6. SetLock(t2, d, None) \in [Inum -> EntryType] /\ \A k \in Inum : SetLock(t2, d, None)[k].ref = t2[k].ref
        BY <1>8, <4>4, <4>5, LockTable
      <4> QED BY <4>1, <4>3, <4>4, <4>6
    <3>20. Accounted'
      BY <1>1, <1>3, <2>3, <3>1, <3>2, <3>3, <3>4, <3>5, <3>7, <3>8, WriteAccounted
    <3>21. ASSUME Consistent PROVE Consistent'
      <4>1. /\ inode[i].type = NewType(c.op) /\ inode[i].nlink = 0 /\ inode[i].ents = NoEnts
            /\ links[i] = 0 /\ i # d /\ Live(inode, links, d) /\ inode[d].nlink \in Nat \ {0}
            /\ itable[d].lock = p /\ itable[d].valid
            /\ itable[d].type = inode[d].type /\ itable[d].nlink = inode[d].nlink
            /\ Loaded(i).type = inode[i].type /\ Loaded(i).nlink = 0
            /\ n \in Name /\ inode[d].ents[n] = None
            /\ itable[i].ref > 0 /\ itable[d].ref > 0
        BY <1>1, <1>2, <1>5, <1>6, <1>7, <1>8, <3>21, Filling
      <4>2. Knows(inode, links, c) /\ Disk(inode, links) /\ Cached(inode, itable)
        BY <1>1, <3>21 DEF Consistent
      <4>3. PICK fs : fs = SetLinks(SetEnt(SetInode(inode, i, 1, NewEnts(c.op, i, d)), d, n, i), d, inode[d].nlink + up)
        OBVIOUS
      <4>4. /\ fs \in Disks
            /\ fs[i].type = inode[i].type /\ fs[i].nlink = 1 /\ fs[i].ents = NewEnts(c.op, i, d)
            /\ fs[d].type = inode[d].type /\ fs[d].nlink = inode[d].nlink + up /\ fs[d].ents[n] = i
            /\ \A m \in Names : m # n => fs[d].ents[m] = inode[d].ents[m]
            /\ \A k \in Inum : k \notin {i, d} => fs[k] = inode[k]
        <5>1. PICK f1 : f1 = SetInode(inode, i, 1, NewEnts(c.op, i, d))
          OBVIOUS
        <5>2. /\ f1 \in [Inum -> InodeType] /\ f1[i].nlink = 1 /\ f1[i].type = inode[i].type
              /\ f1[i].ents = NewEnts(c.op, i, d) /\ \A k \in Inum : k # i => f1[k] = inode[k]
          <6>1. PICK t : t = NewEnts(c.op, i, d)
            OBVIOUS
          <6>2. t \in [Names -> Inum \cup {None}] /\ 1 \in Int
            BY <1>8, <6>1
          <6>3. PICK u : u = SetInode(inode, i, 1, t)
            OBVIOUS
          <6>4. /\ u \in [Inum -> InodeType] /\ u[i].nlink = 1 /\ u[i].type = inode[i].type
                /\ u[i].ents = t /\ \A k \in Inum : k # i => u[k] = inode[k]
            BY <1>4, <1>8, <6>2, <6>3, SetInodeType
          <6>5. f1 = u
            BY <5>1, <6>1, <6>3
          <6> QED BY <6>1, <6>4, <6>5
        <5>3. PICK f2 : f2 = SetEnt(f1, d, n, i)
          OBVIOUS
        <5>4. /\ f2 \in [Inum -> InodeType] /\ f2[d].nlink = f1[d].nlink /\ f2[d].type = f1[d].type
              /\ f2[d].ents[n] = i
              /\ \A m \in Names : m # n => f2[d].ents[m] = f1[d].ents[m]
              /\ \A k \in Inum : k # d => f2[k] = f1[k]
          BY <1>8, <5>2, <5>3, SetEntInode
        <5>5. inode[d].nlink + up \in Int
          BY <3>6, <4>1
        <5>6. fs = SetLinks(f2, d, inode[d].nlink + up)
          BY <4>3, <5>1, <5>3
        <5>7. /\ fs \in [Inum -> InodeType] /\ fs[d].nlink = inode[d].nlink + up
              /\ fs[d].type = f2[d].type /\ fs[d].ents = f2[d].ents
              /\ \A k \in Inum : k # d => fs[k] = f2[k]
          BY <1>8, <5>4, <5>5, <5>6, SetLinksInode
        <5> QED BY <1>8, <4>1, <5>2, <5>4, <5>7 DEF Disks
      <4>5. PICK tab : tab = SetLock(Up(Up(Locked(p, i), i, 1), d, up), d, None)
        OBVIOUS
      <4>6. /\ tab \in [Inum -> EntryType] /\ SameRefs(tab)
            /\ tab[i].valid /\ tab[i].type = inode[i].type /\ tab[i].nlink = 1 /\ tab[i].lock = p
            /\ tab[d].valid /\ tab[d].type = inode[d].type /\ tab[d].nlink = inode[d].nlink + up
            /\ tab[d].lock = None
            /\ \A k \in Inum : k \notin {i, d} => tab[k] = itable[k]
        <5>1. PICK t0 : t0 = Locked(p, i)
          OBVIOUS
        <5>2. /\ t0 \in [Inum -> EntryType] /\ t0[i].valid /\ t0[i].lock = p /\ t0[i].type = Loaded(i).type
              /\ t0[i].nlink = Loaded(i).nlink /\ \A k \in Inum : k # i => t0[k] = itable[k]
          BY <1>4, <1>8, <5>1, LockedTable
        <5>3. PICK t1 : t1 = Up(t0, i, 1)
          OBVIOUS
        <5>4. /\ t1 \in [Inum -> EntryType] /\ t1[i].nlink = t0[i].nlink + 1 /\ t1[i].valid = t0[i].valid
              /\ t1[i].type = t0[i].type /\ t1[i].lock = t0[i].lock /\ \A k \in Inum : k # i => t1[k] = t0[k]
          <6>1. 1 \in Int
            OBVIOUS
          <6>2. t0 \in [Inum -> EntryType] /\ i \in Inum
            BY <1>8, <5>2
          <6>3. /\ Up(t0, i, 1) \in [Inum -> EntryType] /\ Up(t0, i, 1)[i].nlink = t0[i].nlink + 1
                /\ Up(t0, i, 1)[i].valid = t0[i].valid
                /\ Up(t0, i, 1)[i].type = t0[i].type /\ Up(t0, i, 1)[i].lock = t0[i].lock
                /\ \A k \in Inum : k # i => Up(t0, i, 1)[k] = t0[k]
            BY ONLY <6>1, <6>2, UpTable
          <6> QED BY <5>3, <6>3
        <5>5. PICK t2 : t2 = Up(t1, d, up)
          OBVIOUS
        <5>6. /\ t2 \in [Inum -> EntryType] /\ t2[d].nlink = t1[d].nlink + up /\ t2[d].valid = t1[d].valid
              /\ t2[d].type = t1[d].type /\ \A k \in Inum : k # d => t2[k] = t1[k]
          BY <1>8, <3>6, <5>4, <5>5, UpTable
        <5>7. None \in Owner /\ tab = SetLock(t2, d, None)
          BY <4>5, <5>1, <5>3, <5>5 DEF Owner
        <5>8. /\ tab \in [Inum -> EntryType] /\ tab[d].valid = t2[d].valid /\ tab[d].type = t2[d].type
              /\ tab[d].nlink = t2[d].nlink /\ tab[d].lock = None /\ \A k \in Inum : k # d => tab[k] = t2[k]
          BY <1>8, <5>6, <5>7, LockTable
        <5>9. SameRefs(tab)
          BY <3>8, <4>5 DEF SameRefs
        <5>10. tab[d].nlink = inode[d].nlink + up /\ tab[d].type = inode[d].type /\ tab[d].valid
          BY <1>8, <4>1, <5>2, <5>4, <5>6, <5>8
        <5>11. tab[i].valid /\ tab[i].type = inode[i].type /\ tab[i].nlink = 1 /\ tab[i].lock = p
          <6>1. tab[i] = t1[i]
            BY <1>8, <4>1, <5>6, <5>8
          <6>2. tab[i].nlink = t0[i].nlink + 1
            BY <5>4, <6>1
          <6>3. t0[i].nlink = 0
            BY <4>1, <5>2
          <6>4. tab[i].nlink = 1
            BY ONLY <6>2, <6>3
          <6>5. tab[i].valid /\ tab[i].type = inode[i].type /\ tab[i].lock = p
            BY <4>1, <5>2, <5>4, <6>1
          <6> QED BY <6>4, <6>5
        <5>12. \A k \in Inum : k \notin {i, d} => tab[k] = itable[k]
          BY <5>2, <5>4, <5>6, <5>8
        <5> QED BY <5>8, <5>9, <5>10, <5>11, <5>12
      <4>7. Write(p, fs, tab, e)
        BY <2>3, <3>1, <3>2, <4>3, <4>5
      <4>8. inode' = fs /\ call' = [call EXCEPT ![p] = e]
        BY <4>7 DEF Write, Become
      <4>9. /\ inode \in Disks /\ links \in Counts /\ links' \in Counts
            /\ links'[i] = 1 /\ links'[d] = links[d] + up /\ \A k \in Inum : k \notin {i, d} => links'[k] = links[k]
        <5>1. \A k \in Inum : Owes(e, k) = 0 /\ Owes(c, k) = 0
          BY <1>2, <3>1, <3>3 DEF Owes, Pending, Place, Puts
        <5>2. /\ inode \in Disks /\ links \in Counts /\ links' \in Counts
              /\ \A k \in Inum : /\ inode[k].nlink \in Int /\ inode'[k].nlink \in Int /\ links[k] \in Int
                                 /\ links'[k] = inode'[k].nlink - inode[k].nlink + links[k] + Owes(call[p], k) - Owes(e, k)
          BY <4>4, <4>8, LinksNew
        <5>3. \A k \in Inum : links'[k] = fs[k].nlink - inode[k].nlink + links[k] /\ inode[k].nlink \in Int /\ links[k] \in Int
          BY <1>1, <4>8, <5>1, <5>2
        <5>4. links'[i] = 1
          BY <1>8, <4>1, <4>4, <5>3
        <5>5. links'[d] = links[d] + up
          <6>1. /\ links'[d] = fs[d].nlink - inode[d].nlink + links[d] /\ inode[d].nlink \in Int
                /\ links[d] \in Int
                /\ fs[d].nlink = inode[d].nlink + up
            BY <1>8, <4>4, <5>3
          <6> QED BY ONLY <3>6, <6>1
        <5>6. \A k \in Inum : k \notin {i, d} => links'[k] = links[k]
          BY <4>4, <5>3
        <5> QED BY <5>2, <5>4, <5>5, <5>6
      <4>10. links[d] \in Int /\ links[d] > 0 /\ links'[d] > 0
        <5>1. links[d] \in Int /\ links[d] > 0 /\ links'[d] = links[d] + up /\ up \in {0, 1}
          BY <1>8, <2>1, <4>1, <4>9 DEF Live, Counts
        <5> QED BY ONLY <5>1
      <4>11. "." \in Names /\ ".." \in Names /\ Name \subseteq Names
        BY DEF Names
      <4>12. Blank(fs)
        <5>1. fs[i].type # "free" /\ (fs[i].type = "file" => fs[i].ents = NoEnts)
          BY <1>8, <4>1, <4>4, NewEntsType DEF NewType
        <5>2. fs[d].type = "dir"
          BY <4>1, <4>4 DEF Live
        <5> QED BY <4>2, <4>4, <5>1, <5>2 DEF Blank, Disk
      <4>13. Disk(fs, links')
        <5>1. CASE c.op = "mkdir"
          <6>1. /\ fs[i].type = "dir" /\ fs[i].ents["."] = i /\ fs[i].ents[".."] = d
                /\ \A m \in Name : fs[i].ents[m] = None
            <7>1. PICK t : t = NewEnts(c.op, i, d)
              OBVIOUS
            <7>2. t["."] = i /\ t[".."] = d /\ \A m \in Name : t[m] = None
              <8>1. PICK o : o = c.op
                OBVIOUS
              <8>2. NewEnts(o, i, d)["."] = i /\ NewEnts(o, i, d)[".."] = d /\ \A m \in Name : NewEnts(o, i, d)[m] = None
                <9>1. i \in Inum /\ d \in Inum /\ o = "mkdir"
                  BY <1>8, <5>1, <8>1
                <9>2. NewEnts(o, i, d) = [NoEnts EXCEPT !["."] = i, ![".."] = d]
                  BY <9>1 DEF NewEnts
                <9>3. /\ "." \in Names /\ ".." \in Names /\ Name \subseteq Names /\ "." \notin Name
                      /\ ".." \notin Name
                  BY FileConstants DEF Names
                <9> QED BY ONLY <9>2, <9>3 DEF NoEnts
              <8> QED BY <7>1, <8>1, <8>2
            <7>3. fs[i].ents = t
              BY <4>4, <7>1
            <7>4. fs[i].type = "dir"
              BY <4>1, <4>4, <5>1 DEF NewType
            <7> QED BY <7>2, <7>3, <7>4
          <6>2. fs[d].type = "dir" /\ links'[d] = links[d] + 1
            BY <2>1, <4>1, <4>4, <4>9, <5>1 DEF Live
          <6>3. \A k \in Inum : k \notin {d, i} => links'[k] = links[k] /\ (fs[k].type = "dir" <=> inode[k].type = "dir") /\ fs[k].ents = inode[k].ents
            BY <4>4, <4>9
          <6> QED BY <1>8, <4>1, <4>2, <4>4, <4>9, <4>12, <6>1, <6>2, <6>3, DiskMkdir
        <5>2. CASE c.op # "mkdir"
          <6>1. inode[i].type = "file" /\ fs[i].type = "file" /\ fs[i].ents = inode[i].ents
            BY <1>8, <4>1, <4>4, <5>2, NewEntsType DEF NewType
          <6>2. fs[d].type = "dir" /\ links'[d] = links[d]
            BY <2>1, <4>1, <4>4, <4>9, <4>10, <5>2 DEF Live
          <6>3. \A k \in Inum : links'[k] = links[k] + Ind(k = i) - Ind(k = None)
            BY <4>1, <4>9, <6>2, FileConstants DEF Ind, Counts
          <6>4. \A k \in Inum : k # d => (fs[k].type = "dir" <=> inode[k].type = "dir") /\ fs[k].ents = inode[k].ents
            BY <4>4, <6>1
          <6>5. \A k \in {None, i} \ {None} : inode[k].type # "dir"
            BY <6>1
          <6> QED BY <1>8, <4>1, <4>2, <4>4, <4>9, <4>12, <6>2, <6>3, <6>4, <6>5, DiskEntry
        <5> QED BY <5>1, <5>2
      <4>14. Cached(fs, tab)
        <5>1. fs[i].type # "free" /\ fs[d].type # "free"
          BY <4>1, <4>4 DEF Live, NewType
        <5>2. \A k \in Inum : tab[k].ref = itable[k].ref
          BY <4>6 DEF SameRefs
        <5> QED BY <4>2, <4>4, <4>6, <5>1, <5>2 DEF Cached
      <4>15. LockTo(tab, p, e)
        <5>1. \A k \in Inum : Holds(e, k) <=> k = i
          BY <1>8, <3>1, <3>3, FileConstants DEF Holds, HoldIp, HoldDp, Place, Puts
        <5>2. \A k \in Inum : itable[k].lock = p <=> k = d
          <6>1. \A k \in Inum : Holds(c, k) <=> k = d
            BY <1>2, <1>3, <1>6 DEF Holds, HoldIp, HoldDp, Place, Puts
          <6> QED BY <1>1, <3>21, <6>1, HeldBy
        <5>3. itable[i].lock = None
          <6>1. Wanted(p) = i
            BY <1>1, <1>2, <1>5 DEF Wanted
          <6> QED BY <6>1 DEF Fill, Ilock
        <5> QED BY <4>1, <4>6, <5>1, <5>2, <5>3, FileConstants DEF LockTo
      <4>16. Knows(fs, links', e)
        <5>1. \A k \in Inum : Uses(e, k) => k \in {i, d}
          BY <3>3, FileConstants DEF Uses
        <5>2. \A k \in Inum : Firm(e, k) => k = i
          BY <3>3, FileConstants DEF Firm
        <5>3. /\ ~ Pending(e) /\ Place(e) \notin {"ialloc", "iget", "fill", "unlink_ip"} /\ New(e) = None
              /\ e.dp = None
          BY <3>1, <3>3 DEF Pending, Place, Puts, New
        <5>4. fs[i].type # "free" /\ fs[d].type # "free"
          BY <4>1, <4>4 DEF Live, NewType
        <5> QED BY <4>9, <5>1, <5>2, <5>3, <5>4 DEF Knows
      <4>17. Fresh(call', ftable, p) /\ New(e) = None
        <5>1. call'[p] = e
          BY <4>8 DEF Accounted, TypeOK
        <5>2. New(e) = None
          BY <3>3 DEF New
        <5> QED BY <5>1, <5>2 DEF Fresh
      <4>18. Changes(p, fs)
        <5>1. Uses(call[p], i) /\ Uses(call[p], d)
          BY <1>1, <1>5, <1>6 DEF Uses
        <5>2. itable[i].lock = None
          <6>1. Wanted(p) = i
            BY <1>1, <1>2, <1>5 DEF Wanted
          <6> QED BY <6>1 DEF Fill, Ilock
        <5> QED BY <4>1, <4>4, <4>9, <4>10, <5>1, <5>2 DEF Changes, Live
      <4>19. Onwards(p, e) /\ Unlinks(p, fs, tab, e)
        <5>1. \A k \in Inum : Uses(e, k) => Uses(c, k)
          BY <1>5, <1>6, <3>3, FileConstants DEF Uses
        <5>2. New(c) = i
          BY <1>2, <1>5 DEF New
        <5>3. fs[d].nlink # 0 /\ fs[i].nlink # 0
          <6>1. inode[d].nlink + up # 0
            <7>1. inode[d].nlink \in Nat \ {0} /\ up \in {0, 1}
              BY <2>1, <4>1
            <7> QED BY ONLY <7>1
          <6> QED BY <4>4, <6>1
        <5> QED BY <1>1, <3>3, <4>4, <4>6, <4>17, <5>1, <5>2, <5>3, FileConstants DEF Onwards, Unlinks
      <4> QED BY <3>21, <4>6, <4>7, <4>13, <4>14, <4>15, <4>16, <4>17, <4>18, <4>19, WriteConsistent
    <3> QED BY <3>20, <3>21
  <2>4. CASE Write(p, SetEnts(inode, i, NewEnts(c.op, i, d)), Seen(i), Iput([Idle EXCEPT !.dp = d], i, "unlockput_dp"))
    <3>1. PICK e0 : e0 = [Idle EXCEPT !.dp = d]
      OBVIOUS
    <3>2. e0 \in CallType /\ e0.dp = d /\ e0.op = "none" /\ e0.path = <<>> /\ e0.at = None /\ e0.ip = None
          /\ e0.inum = None
      BY <1>8, <3>1, IdleRecord DEF CallType
    <3>3. PICK e : e = Iput(e0, i, "unlockput_dp")
      OBVIOUS
    <3>4. /\ e \in CallType /\ e.pc = "put" /\ e.put = i /\ e.ret = "unlockput_dp" /\ e.op = "none"
          /\ e.path = <<>>
          /\ e.at = None /\ e.ip = None /\ e.dp = d /\ e.inum = None
      <4>1. "unlockput_dp" \in Rets
        BY DEF Rets
      <4> QED BY <1>8, <3>2, <3>3, <4>1, IputRecord
    <3>5. Shape(e) /\ Alive(e)
      BY <1>8, <3>4, FileConstants
         DEF Shape, Place, Puts, Rets, HasDp, HasIp, MayIp, Making, Onward, Alive
    <3>6. \A k \in Inum : Ptr(e, k) = Ptr(c, k)
      BY <1>3, <1>5, <1>6, <3>4, FileConstants DEF Ptr, Ind
    <3>7. SetEnts(inode, i, NewEnts(c.op, i, d)) \in [Inum -> InodeType]
      <4>1. inode[i].nlink \in Int
        BY <1>4, <1>8 DEF InodeType
      <4> QED BY <1>4, <1>8, <4>1, SetInodeType
    <3>8. Seen(i) \in [Inum -> EntryType] /\ \A k \in Inum : Seen(i)[k].ref = itable[k].ref
      BY <1>4, <1>8, SeenTable
    <3>20. Accounted'
      BY <1>1, <1>3, <2>4, <3>1, <3>3, <3>4, <3>5, <3>6, <3>7, <3>8, WriteAccounted
    <3>21. ASSUME Consistent PROVE Consistent'
      <4>1. /\ inode[i].type = NewType(c.op) /\ inode[i].nlink = 0 /\ inode[i].ents = NoEnts
            /\ links[i] = 0 /\ i # d /\ Live(inode, links, d)
            /\ Loaded(i).type = inode[i].type /\ Loaded(i).nlink = 0 /\ itable[i].ref > 0
        BY <1>1, <1>2, <1>5, <1>6, <1>8, <3>21, Filling
      <4>2. Knows(inode, links, c) /\ Disk(inode, links) /\ Cached(inode, itable)
        BY <1>1, <3>21 DEF Consistent
      <4>3. PICK fs : fs = SetEnts(inode, i, NewEnts(c.op, i, d))
        OBVIOUS
      <4>4. /\ fs \in Disks /\ fs[i].type = inode[i].type /\ fs[i].nlink = 0 /\ fs[i].ents = NewEnts(c.op, i, d)
            /\ \A k \in Inum : k # i => fs[k] = inode[k]
        <5>1. inode[i].nlink \in Int
          BY <1>4, <1>8 DEF InodeType
        <5>2. PICK t : t = NewEnts(c.op, i, d)
          OBVIOUS
        <5>3. t \in [Names -> Inum \cup {None}]
          BY <1>8, <5>2
        <5>4. PICK k : k = inode[i].nlink
          OBVIOUS
        <5>5. k \in Int /\ k = 0
          BY <4>1, <5>1, <5>4
        <5>6. /\ SetInode(inode, i, k, t) \in [Inum -> InodeType]
              /\ SetInode(inode, i, k, t)[i].nlink = k /\ SetInode(inode, i, k, t)[i].type = inode[i].type
              /\ SetInode(inode, i, k, t)[i].ents = t
              /\ \A j \in Inum : j # i => SetInode(inode, i, k, t)[j] = inode[j]
              /\ SetEnts(inode, i, t) = SetInode(inode, i, inode[i].nlink, t)
          <6>1. inode \in [Inum -> InodeType] /\ i \in Inum /\ k \in Int /\ t \in [Names -> Inum \cup {None}]
            BY <1>4, <1>8, <5>3, <5>5
          <6> QED BY ONLY <6>1, SetInodeType
        <5>7. fs = SetInode(inode, i, k, t)
          BY <4>3, <5>2, <5>4, <5>6
        <5> QED BY <4>1, <5>2, <5>5, <5>6, <5>7 DEF Disks
      <4>5. PICK tab : tab = Seen(i)
        OBVIOUS
      <4>6. /\ tab \in [Inum -> EntryType] /\ SameRefs(tab) /\ TabKeeps(tab) /\ Cached(inode, tab)
            /\ tab[i].valid
            /\ \A k \in Inum : tab[k].lock = itable[k].lock
        <5>1. inode[i].type # "free"
          BY <4>1 DEF NewType
        <5> QED BY <1>8, <3>8, <3>21, <4>5, <5>1, SeenKeeps DEF SameRefs
      <4>7. Write(p, fs, tab, e)
        BY <2>4, <3>1, <3>3, <4>3, <4>5
      <4>8. inode' = fs /\ call' = [call EXCEPT ![p] = e]
        BY <4>7 DEF Write, Become
      <4>9. /\ inode \in Disks /\ links \in Counts /\ links' \in Counts /\ \A k \in Inum : links'[k] = links[k]
        <5>1. \A k \in Inum : Owes(e, k) = 0 /\ Owes(c, k) = 0
          BY <1>2, <3>4 DEF Owes, Pending, Place, Puts
        <5>2. /\ inode \in Disks /\ links \in Counts /\ links' \in Counts
              /\ \A k \in Inum : /\ inode[k].nlink \in Int /\ inode'[k].nlink \in Int /\ links[k] \in Int
                                 /\ links'[k] = inode'[k].nlink - inode[k].nlink + links[k] + Owes(call[p], k) - Owes(e, k)
          BY <4>4, <4>8, LinksNew
        <5>3. \A k \in Inum : fs[k].nlink = inode[k].nlink
          BY <4>1, <4>4
        <5> QED BY <1>1, <4>8, <5>1, <5>2, <5>3
      <4>10. Disk(fs, links')
        <5>1. Blank(fs)
          <6>1. fs[i].type # "free" /\ (fs[i].type = "file" => fs[i].ents = NoEnts)
            BY <1>8, <4>1, <4>4, NewEntsType DEF NewType
          <6> QED BY <4>2, <4>4, <6>1 DEF Blank, Disk
        <5>2. \A k \in Inum : links[k] > 0 => fs[k].ents = inode[k].ents /\ (fs[k].type = "dir" <=> inode[k].type = "dir")
          BY <4>1, <4>4
        <5> QED BY <4>2, <4>4, <4>9, <5>1, <5>2, DiskSame
      <4>11. Cached(fs, tab)
        BY <4>1, <4>4, <4>6 DEF Cached
      <4>12. LockTo(tab, p, e)
        <5>1. \A k \in Inum : Holds(e, k) <=> Holds(c, k)
          BY <1>2, <1>3, <1>6, <3>4 DEF Holds, HoldIp, HoldDp, Place, Puts
        <5> QED BY <1>1, <3>21, <4>6, <5>1, HeldBy DEF LockTo
      <4>13. Knows(fs, links', e)
        <5>1. \A k \in Inum : Uses(e, k) => k \in {i, d}
          BY <3>4, FileConstants DEF Uses
        <5>2. \A k \in Inum : Firm(e, k) => k = d
          BY <3>4, FileConstants DEF Firm
        <5>3. /\ ~ Pending(e) /\ Place(e) \notin {"ialloc", "iget", "fill", "unlink_ip"} /\ New(e) = None
              /\ e.dp = d
          BY <3>4 DEF Pending, Place, Puts, New
        <5>4. fs[i].type # "free" /\ fs[d].type = "dir"
          BY <1>8, <4>1, <4>4 DEF Live, NewType
        <5>5. links'[d] > 0
          BY <1>8, <4>1, <4>9 DEF Live
        <5> QED BY <5>1, <5>2, <5>3, <5>4, <5>5 DEF Knows
      <4>14. Fresh(call', ftable, p) /\ New(e) = None
        <5>1. call'[p] = e
          BY <4>8 DEF Accounted, TypeOK
        <5>2. New(e) = None
          BY <3>4 DEF New
        <5> QED BY <5>1, <5>2 DEF Fresh
      <4>15. Changes(p, fs)
        <5>1. Uses(call[p], i)
          BY <1>1, <1>5 DEF Uses
        <5>2. itable[i].lock = None
          <6>1. Wanted(p) = i
            BY <1>1, <1>2, <1>5 DEF Wanted
          <6> QED BY <6>1 DEF Fill, Ilock
        <5> QED BY <4>1, <4>4, <4>9, <5>1, <5>2 DEF Changes, Live
      <4>16. Onwards(p, e) /\ Unlinks(p, fs, tab, e)
        <5>1. \A k \in Inum : Uses(e, k) => Uses(c, k)
          BY <1>5, <1>6, <3>4, FileConstants DEF Uses
        <5>2. New(c) = i
          BY <1>2, <1>5 DEF New
        <5>3. tab[i].ref > 0 /\ \A k \in Inum : itable[k].valid => tab[k].valid
          BY <1>8, <4>1, <4>6 DEF TabKeeps
        <5> QED BY <1>1, <3>4, <4>4, <4>6, <4>14, <5>1, <5>2, <5>3, FileConstants DEF Onwards, Unlinks
      <4> QED BY <3>21, <4>6, <4>7, <4>10, <4>11, <4>12, <4>13, <4>14, <4>15, <4>16, WriteConsistent
    <3> QED BY <3>20, <3>21
  <2> QED BY <2>2, <2>3, <2>4
<1> QED BY <1>9, <1>10

\* chdir() keeps both invariants.
LEMMA ChdirKeeps == ASSUME Accounted, NEW p \in Proc, Chdir(p) PROVE Accounted' /\ (Consistent => Consistent')
<1>1. PICK c : c = call[p]
  OBVIOUS
<1>2. c \in CallType /\ Shape(c) /\ c.pc = "chdir"
  BY <1>1, CallOf DEF Chdir, Ilock, At
<1>3. /\ c.ip \in Inum /\ c.inum = None /\ c.at = None /\ c.dp = None /\ c.put = None /\ Alive(c)
  BY <1>2, CallFields, FileConstants DEF Shape, Place, Puts, Rets, HasDp, HasIp, MayIp, Making, Onward, Alive
<1>4. inode \in [Inum -> InodeType] /\ itable \in [Inum -> EntryType] /\ TypeOK
  BY DEF Accounted, TypeOK
<1>9. CASE Fault(p) # "no"
  BY <1>9, PanicAccounted, PanicConsistent DEF Chdir, Ilock, Panic, AllButPanic
<1>10. CASE Fault(p) = "no"
  <2>1. /\ itable' = Seen(c.ip) /\ UNCHANGED <<inode, ftable, ofile>>
        /\ \/ cwd' = [cwd EXCEPT ![p] = c.ip] /\ call' = [call EXCEPT ![p] = Last(cwd[p])]
           \/ cwd' = cwd /\ call' = [call EXCEPT ![p] = Last(c.ip)]
    BY <1>1, <1>10 DEF Chdir, Ilock, Become
  <2>2. Seen(c.ip) \in [Inum -> EntryType] /\ \A k \in Inum : Seen(c.ip)[k].ref = itable[k].ref
    BY <1>3, <1>4, SeenTable
  <2>3. cwd[p] \in Inum
    BY <1>1, <1>3 DEF Accounted, TypeOK, CwdShape, Alive
  <2>6. ASSUME Consistent
        PROVE  /\ Knows(inode, links, c) /\ inode[c.ip].type # "free" /\ Loaded(c.ip).type = inode[c.ip].type
               /\ inode[c.ip].type = "dir" => Live(inode, links, c.ip)
    <3>1. Has(c, c.ip) /\ Uses(c, c.ip) /\ Firm(c, c.ip)
      BY <1>2 DEF Has, Uses, Firm, Place, Puts
    <3>2. Knows(inode, links, call[p])
      BY <2>6 DEF Consistent
    <3>3. PICK i : i = c.ip
      OBVIOUS
    <3>4. i \in Inum /\ Has(call[p], i) /\ Uses(call[p], i) /\ Firm(call[p], i)
      BY <1>1, <1>3, <3>1, <3>3
    <3>5. /\ inode[i].type # "free" /\ Loaded(i).type = inode[i].type
          /\ Firm(call[p], i) /\ inode[i].type = "dir" => Live(inode, links, i)
      BY <2>6, <3>4, Read
    <3> QED BY <1>1, <3>2, <3>3, <3>4, <3>5
  <2>4. CASE cwd' = cwd /\ call' = [call EXCEPT ![p] = Last(c.ip)]
    <3>1. Last(c.ip) \in CallType /\ Shape(Last(c.ip)) /\ Alive(Last(c.ip))
      BY <1>3, LastRecord, ShapeLast
    <3>2. \A k \in Inum : Ptr(Last(c.ip), k) = Ptr(c, k)
      BY <1>3, PtrLast, FileConstants DEF Ptr, Ind
    <3>3. (Last(c.ip).pc = "dead" \/ Last(c.ip).op = "die") <=> (call[p].pc = "dead" \/ call[p].op = "die")
      BY <1>1, <1>3, <3>1 DEF Alive
    <3>4. \A k \in Inum : itable'[k].ref = itable[k].ref + Ptr(Last(c.ip), k) - Ptr(call[p], k)
      BY <1>1, <1>4, <2>1, <2>2, <3>2 DEF Ptr, Ind, EntryType
    <3>5. inode' \in [Inum -> InodeType] /\ itable' \in [Inum -> EntryType]
      BY <1>4, <2>1, <2>2
    <3>20. Accounted'
      BY <2>1, <2>4, <3>1, <3>3, <3>4, <3>5, CallAccounted
    <3>21. ASSUME Consistent PROVE Consistent'
      <4>1. PICK e : e = Last(c.ip)
        OBVIOUS
      <4>2. e \in CallType /\ e.pc = "put" /\ e.put = c.ip /\ e.ret = "end" /\ e.op = "none" /\ e.path = <<>>
            /\ e.at = None /\ e.ip = None /\ e.dp = None /\ e.inum = None
        BY <1>3, <4>1, LastRecord
      <4>3. Knows(inode, links, c) /\ inode[c.ip].type # "free"
        BY <2>6, <3>21
      <4>4. Follows(call[p], e, None)
        BY <1>1, <1>2, <1>3, <4>2, FileConstants DEF Follows, Owes, Pending, Place, Puts, Uses, New
      <4>5. SameHolds(call[p], e)
        BY <1>1, <1>2, <1>3, <4>2, FileConstants DEF SameHolds, Holds, HoldIp, HoldDp, Place, Puts
      <4>6. Knows(inode, links, e)
        BY <4>2, <4>3, FileConstants DEF Knows, Uses, Firm, Pending, New, Place, Puts
      <4>7. Write(p, inode, Seen(c.ip), e)
        BY <1>10, <2>1, <2>4, <4>1 DEF Write, Become, Chdir, Ilock
      <4>8. PICK i : i = c.ip
        OBVIOUS
      <4>9. i \in Inum /\ inode[i].type # "free" /\ Write(p, inode, Seen(i), e)
        BY <1>3, <4>3, <4>7, <4>8
      <4> QED BY <3>21, <4>4, <4>5, <4>6, <4>9, SeenConsistent
    <3> QED BY <3>20, <3>21
  <2>5. CASE cwd' = [cwd EXCEPT ![p] = c.ip] /\ call' = [call EXCEPT ![p] = Last(cwd[p])]
    <3>1. PICK o : o = cwd[p]
      OBVIOUS
    <3>2. Last(o) \in CallType /\ Shape(Last(o)) /\ Alive(Last(o))
      BY <2>3, <3>1, LastRecord, ShapeLast
    <3>3. TypeOK'
      BY <1>3, <1>4, <2>1, <2>2, <2>5, <3>1, <3>2 DEF TypeOK
    <3>4. \A q \in Proc : Shape(call'[q]) /\ CwdShape(q)'
      BY <1>1, <1>3, <2>1, <2>5, <3>1, <3>2, FileConstants DEF Accounted, TypeOK, CwdShape, Alive
    <3>5. FileRefs' /\ \A f \in File : FileShape(f)'
      BY <2>1 DEF Accounted, RefsExact, FileRefs, FileShape
    <3>6. InodeRefs'
      <4>1. SUFFICES ASSUME NEW i \in Inum
                     PROVE  itable'[i].ref = Cardinality({q \in Proc : cwd'[q] = i})
                            + Cardinality({f \in File : ftable'[f].ref > 0 /\ ftable'[f].ip = i})
                            + Cardinality(Pointers(call', i))
        BY DEF InodeRefs, Pointers, Fields
      <4>2. Cardinality(Pointers(call', i)) = Cardinality(Pointers(call, i)) + Ptr(Last(o), i) - Ptr(call[p], i)
        BY <2>5, <3>1, <3>2, PtrChange DEF Accounted, TypeOK
      <4>3. Ptr(Last(o), i) = Ind(i = o) /\ Ptr(call[p], i) = Ind(i = c.ip)
        BY <1>1, <1>3, <2>3, <3>1, PtrLast, FileConstants DEF Ptr, Ind
      <4>4. itable[i].ref = Cardinality({q \in Proc : cwd[q] = i})
                            + Cardinality({f \in File : ftable[f].ref > 0 /\ ftable[f].ip = i})
                            + Cardinality(Pointers(call, i))
        BY RefsIs DEF Accounted, RefsExact
      <4>5. /\ Cardinality({q \in Proc : cwd[q] = i}) \in Nat /\ IsFiniteSet({q \in Proc : cwd[q] = i})
            /\ Cardinality({f \in File : ftable[f].ref > 0 /\ ftable[f].ip = i}) \in Nat
            /\ Cardinality(Pointers(call, i)) \in Nat
        BY Pointed
      <4>6. Cardinality({q \in Proc : cwd'[q] = i})
              = Cardinality({q \in Proc : cwd[q] = i}) + Ind(i = c.ip) - Ind(i = o)
        <5>1. PICK A : A = {q \in Proc : cwd[q] = i}
          OBVIOUS
        <5>2. PICK B : B = {q \in Proc : cwd'[q] = i}
          OBVIOUS
        <5>3. A \ {p} = B \ {p}
          BY <2>5, <5>1, <5>2 DEF Accounted, TypeOK
        <5>4. (p \in A <=> i = o) /\ (p \in B <=> i = c.ip)
          BY <2>5, <3>1, <5>1, <5>2 DEF Accounted, TypeOK
        <5>5. Cardinality(B) = Cardinality(A) + Ind(p \in B) - Ind(p \in A)
          BY <4>5, <5>1, <5>3, CardShift
        <5>6. Ind(p \in B) = Ind(i = c.ip) /\ Ind(p \in A) = Ind(i = o)
          BY <5>4 DEF Ind
        <5> QED BY <5>1, <5>2, <5>5, <5>6
      <4>7. itable'[i].ref = itable[i].ref
        BY <2>1, <2>2
      <4>8. Cardinality({f \in File : ftable'[f].ref > 0 /\ ftable'[f].ip = i})
              = Cardinality({f \in File : ftable[f].ref > 0 /\ ftable[f].ip = i})
        BY <2>1, Zenon
      <4>9. Ind(i = o) \in Int /\ Ind(i = c.ip) \in Int
        BY DEF Ind
      <4> QED BY ONLY <4>2, <4>3, <4>4, <4>5, <4>6, <4>7, <4>8, <4>9
    <3>20. Accounted'
      BY <3>3, <3>4, <3>5, <3>6 DEF Accounted, RefsExact
    <3>21. ASSUME Consistent PROVE Consistent'
      <4>1. PICK i : i = c.ip
        OBVIOUS
      <4>2. i \in Inum /\ inode[i].type = "dir" /\ Live(inode, links, i) /\ Knows(inode, links, c)
        <5>1. Loaded(c.ip).type = "dir"
          <6>1. cwd' = [cwd EXCEPT ![p] = c.ip] /\ call'[p] = Last(cwd[p]) /\ c.ip # None
            BY <1>3, <2>5, FileConstants DEF Accounted, TypeOK
          <6>2. c.ip = cwd[p] => call'[p] = Last(c.ip) /\ UNCHANGED cwd
            BY <2>5, <6>1 DEF Accounted, TypeOK
          <6>3. CASE c.ip = cwd[p]
            <7>1. Live(inode, links, cwd[p])
              BY <2>3, <3>21, FileConstants DEF Consistent, CwdLive
            <7> QED BY <2>6, <3>21, <6>3, <7>1 DEF Live
          <6>4. CASE c.ip # cwd[p]
            <7>1. cwd'[p] = c.ip
              BY <6>1 DEF Accounted, TypeOK
            <7>2. cwd' # cwd
              BY <6>4, <7>1
            <7> QED BY <1>1, <1>10, <7>2 DEF Chdir, Ilock
          <6> QED BY <6>3, <6>4
        <5> QED BY <1>3, <2>6, <3>21, <4>1, <5>1
      <4>3. Live(inode, links, o) /\ o \in Inum
        BY <2>3, <3>1, <3>21, FileConstants DEF Consistent, CwdLive
      <4>4. PICK e : e = Last(o)
        OBVIOUS
      <4>5. e \in CallType /\ e.pc = "put" /\ e.put = o /\ e.ret = "end" /\ e.op = "none" /\ e.path = <<>>
            /\ e.at = None /\ e.ip = None /\ e.dp = None /\ e.inum = None
        BY <4>3, <4>4, LastRecord
      <4>6. call' = [call EXCEPT ![p] = e] /\ inode' = inode /\ ftable' = ftable /\ itable' = Seen(i)
            /\ orphans' = orphans /\ missed' = missed
        BY <1>1, <1>10, <2>1, <2>5, <3>1, <4>1, <4>4 DEF Chdir, Ilock
      <4>7. TabKeeps(Seen(i)) /\ Cached(inode, Seen(i)) /\ Seen(i)[i].valid /\ \A k \in Inum : Seen(i)[k].lock = itable[k].lock
        BY <3>21, <4>2, SeenKeeps
      <4>8. \A k \in Inum : Owes(e, k) = Owes(call[p], k)
        BY <1>1, <1>2, <4>5 DEF Owes, Pending, Place, Puts
      <4>9. links' = links /\ Disk(inode', links')
        BY <3>21, <4>6, <4>8, Quiet
      <4>10. Touches(p)
        BY <4>6, <4>7, <4>9 DEF Touches, TabKeeps, Live
      <4>11. Gains(p, e)
        <5>1. links[o] > 0
          BY <4>3 DEF Live
        <5>2. inode[o].nlink > 0
          BY <3>21, <4>3, <5>1, LinkedUsed
        <5> QED BY <4>5, <5>2, FileConstants DEF Gains, Uses
      <4>12. LockMoves(p, e)
        <5>1. \A k \in Inum : Holds(e, k) <=> Holds(call[p], k)
          BY <1>1, <1>2, <1>3, <4>5, FileConstants DEF Holds, HoldIp, HoldDp, Place, Puts
        <5>2. \A k \in Inum : itable[k].lock = p <=> Holds(call[p], k)
          BY <3>21, HeldBy
        <5> QED BY <4>6, <4>7, <5>1, <5>2 DEF LockMoves
      <4>13. Leaves(p, e)
        <5>1. New(call[p]) = None
          BY <1>1, <1>2 DEF New
        <5>2. call[p].inum = None
          BY <1>1, <1>3
        <5> QED BY <4>6, <4>7, <5>1, <5>2, FileConstants DEF Leaves, TabKeeps
      <4>14. CwdFrom
        <5>1. \A q \in Proc : cwd'[q] = cwd[q] \/ cwd'[q] = i
          BY <2>5, <4>1 DEF Accounted, TypeOK
        <5>2. Live(inode', links', i)
          BY <4>2, <4>6, <4>9
        <5> QED BY <5>1, <5>2 DEF CwdFrom
      <4>15. FilesIn(p)
        BY <4>6 DEF FilesIn, FilesFrom
      <4>16. Cached(inode', itable') /\ Knows(inode', links', e)
        <5>1. Knows(inode, links, e)
          BY <4>3, <4>5, FileConstants DEF Knows, Uses, Firm, Pending, New, Place, Puts, Live
        <5> QED BY <4>6, <4>7, <4>9, <5>1
      <4>17. Fresh(call', ftable', p)
        <5>1. call'[p] = e
          BY <4>6 DEF Accounted, TypeOK
        <5>2. New(e) = None
          BY <4>5 DEF New
        <5> QED BY <5>1, <5>2 DEF Fresh
      <4>18. e.pc # "trunc"
        BY <4>5
      <4> QED BY <3>21, <4>6, <4>9, <4>10, <4>11, <4>12, <4>13, <4>14, <4>15, <4>16, <4>17, <4>18, StepConsistent
    <3> QED BY <3>20, <3>21
  <2> QED BY <2>1, <2>4, <2>5
<1> QED BY <1>9, <1>10

\* The first half of link() keeps both invariants.
LEMMA LinkKeeps == ASSUME Accounted, NEW p \in Proc, Link(p) PROVE Accounted' /\ (Consistent => Consistent')
<1>1. PICK c : c = call[p]
  OBVIOUS
<1>2. c \in CallType /\ Shape(c) /\ c.pc = "link"
  BY <1>1, CallOf DEF Link, Ilock, At
<1>3. /\ c.ip \in Inum /\ c.inum = None /\ c.at = None /\ c.dp = None /\ c.put = None /\ Alive(c)
      /\ c.new \in Path /\ c.op = "link"
  BY <1>2, CallFields, FileConstants DEF Shape, Place, Puts, Rets, HasDp, HasIp, MayIp, Making, Onward, Alive
<1>4. inode \in [Inum -> InodeType] /\ itable \in [Inum -> EntryType] /\ TypeOK
  BY DEF Accounted, TypeOK
<1>9. CASE Fault(p) # "no"
  BY <1>9, PanicAccounted, PanicConsistent DEF Link, Ilock, Panic, AllButPanic
<1>8. Seen(c.ip) \in [Inum -> EntryType] /\ \A k \in Inum : Seen(c.ip)[k].ref = itable[k].ref
  BY <1>3, <1>4, SeenTable
<1>10. CASE Fault(p) = "no" /\ Loaded(c.ip).type = "dir"
  <2>5. Write(p, inode, Seen(c.ip), Last(c.ip))
    BY <1>1, <1>10 DEF Link, Ilock, Step
  <2>6. Last(c.ip) \in CallType /\ Shape(Last(c.ip)) /\ Alive(Last(c.ip))
    BY <1>3, LastRecord, ShapeLast
  <2>7. \A k \in Inum : Ptr(Last(c.ip), k) = Ptr(c, k)
    BY <1>3, PtrLast, FileConstants DEF Ptr, Ind
  <2>20. Accounted'
    BY <1>1, <1>3, <1>4, <1>8, <2>5, <2>6, <2>7, WriteAccounted
  <2>21. ASSUME Consistent PROVE Consistent'
    <3>1. PICK i : i = c.ip
      OBVIOUS
    <3>2. /\ i \in Inum /\ call[p].ip = i /\ call[p].pc \in {"chdir", "link", "unlink"}
          /\ Write(p, inode, Seen(i), Last(i))
      BY <1>1, <1>2, <1>3, <2>5, <3>1
    <3> QED BY <2>21, <3>2, LastSeenConsistent
  <2> QED BY <2>20, <2>21
<1>11. CASE Fault(p) = "no" /\ Loaded(c.ip).type # "dir"
  <2>1. "link_new" \in (Places \ {"put_ip"}) \cup Puts
    BY DEF Places
  <2>11. PICK e : e = [c EXCEPT !.pc = "link_new"]
    OBVIOUS
  <2>12. /\ e \in CallType /\ e.pc = "link_new" /\ e.op = c.op /\ e.path = c.path /\ e.new = c.new
         /\ e.at = c.at /\ e.ip = c.ip /\ e.dp = c.dp /\ e.inum = c.inum /\ e.put = c.put /\ e.ret = c.ret
    BY <1>2, <2>1, <2>11 DEF CallType
  <2>13. Shape(e) /\ Alive(e)
    BY <1>2, <1>3, <2>12, FileConstants
       DEF Shape, Place, Puts, Rets, HasDp, HasIp, MayIp, Making, Onward, Alive
  <2>14. \A k \in Inum : Ptr(e, k) = Ptr(c, k)
    BY <1>2, <1>3, <2>12, FileConstants DEF Ptr, Ind
  <2>15. Write(p, Up(inode, c.ip, 1), Up(Seen(c.ip), c.ip, 1), e)
    BY <1>1, <1>11, <2>11 DEF Link, Ilock
  <2>16. /\ Up(inode, c.ip, 1) \in [Inum -> InodeType] /\ Up(Seen(c.ip), c.ip, 1) \in [Inum -> EntryType]
         /\ \A k \in Inum : Up(Seen(c.ip), c.ip, 1)[k].ref = itable[k].ref
    BY <1>3, <1>4, <1>8, UpInode, UpTable
  <2>20. Accounted'
    BY <1>1, <1>3, <2>12, <2>13, <2>14, <2>15, <2>16, WriteAccounted
  <2>21. ASSUME Consistent PROVE Consistent'
    <3>1. PICK i : i = c.ip
      OBVIOUS
    <3>2. i \in Inum /\ call[p] = c /\ Has(call[p], i) /\ Uses(call[p], i) /\ Firm(call[p], i)
      BY <1>1, <1>2, <1>3, <3>1 DEF Has, Uses, Firm, Place, Puts
    <3>3. Knows(inode, links, c)
      BY <1>1, <2>21 DEF Consistent
    <3>4. /\ inode[i].type # "free" /\ Loaded(i).type = inode[i].type /\ Loaded(i).nlink = inode[i].nlink
      BY <2>21, <3>2, Read
    <3>5. inode[i].type = "file"
      BY <1>4, <1>11, <3>1, <3>2, <3>4 DEF InodeType
    <3>6. PICK fs : fs = Up(inode, i, 1)
      OBVIOUS
    <3>7. PICK s : s = Seen(i)
      OBVIOUS
    <3>8. PICK tab : tab = Up(s, i, 1)
      OBVIOUS
    <3>9. Write(p, fs, tab, e) /\ 1 \in Int
      BY <2>15, <3>1, <3>6, <3>7, <3>8
    <3>10. Recount(fs, i, 1)
      <4>1. /\ Up(inode, i, 1) \in [Inum -> InodeType] /\ Up(inode, i, 1)[i].nlink = inode[i].nlink + 1
            /\ Up(inode, i, 1)[i].type = inode[i].type /\ Up(inode, i, 1)[i].ents = inode[i].ents
            /\ \A j \in Inum : j # i => Up(inode, i, 1)[j] = inode[j]
        BY <1>4, <3>2, <3>9, UpInode
      <4> QED BY <3>6, <4>1 DEF Recount, Disks
    <3>11. /\ TabKeeps(s) /\ Cached(inode, s) /\ s[i].valid /\ \A k \in Inum : s[k].lock = itable[k].lock
      BY <2>21, <3>2, <3>4, <3>7, SeenKeeps
    <3>12. s \in [Inum -> EntryType] /\ s[i] = Loaded(i) /\ (\A k \in Inum : k # i => s[k] = itable[k])
           /\ \A k \in Inum : s[k].ref = itable[k].ref
      BY <1>4, <3>2, <3>7, SeenTable
    <3>13. /\ tab \in [Inum -> EntryType] /\ tab[i].nlink = s[i].nlink + 1
           /\ tab[i].ref = s[i].ref /\ tab[i].valid = s[i].valid /\ tab[i].type = s[i].type
           /\ tab[i].lock = s[i].lock
           /\ \A j \in Inum : j # i => tab[j] = s[j]
      <4>1. /\ Up(s, i, 1) \in [Inum -> EntryType] /\ Up(s, i, 1)[i].nlink = s[i].nlink + 1
            /\ Up(s, i, 1)[i].ref = s[i].ref /\ Up(s, i, 1)[i].valid = s[i].valid
            /\ Up(s, i, 1)[i].type = s[i].type /\ Up(s, i, 1)[i].lock = s[i].lock
            /\ \A j \in Inum : j # i => Up(s, i, 1)[j] = s[j]
        BY <3>2, <3>9, <3>12, UpTable
      <4> QED BY <3>8, <4>1
    <3>14. RecountTable(tab, i, 1)
      BY <3>4, <3>11, <3>12, <3>13 DEF RecountTable
    <3>15. SameRefs(tab)
      BY <3>12, <3>13 DEF SameRefs
    <3>16. \A k \in Inum : tab[k].lock = itable[k].lock
      BY <3>11, <3>12, <3>13
    <3>17. LockTo(tab, p, e)
      <4>1. \A k \in Inum : Holds(e, k) <=> Holds(call[p], k)
        BY <1>1, <1>2, <1>3, <2>12, FileConstants DEF Holds, HoldIp, HoldDp, Place, Puts
      <4> QED BY <2>21, <3>16, <4>1, HeldBy DEF LockTo
    <3>18. Owed(call[p], e, i, 1)
      BY <1>1, <1>2, <1>3, <2>12, <3>1 DEF Owed, Owes, Pending, Place, Puts
    <3>19. \A j \in Inum : Uses(e, j) => Uses(call[p], j)
      BY <1>1, <1>2, <1>3, <2>12 DEF Uses
    <3>20. New(e) = None /\ New(call[p]) = None /\ e.pc # "trunc" /\ e.dp = None
      BY <1>1, <1>2, <1>3, <2>12 DEF New
    <3>22. (Pending(e) => e.ip \in Inum) /\ Place(e) \notin {"ialloc", "iget", "fill", "unlink_ip"}
      BY <1>3, <2>12 DEF Place, Puts
    <3>21. Knows(inode, links, e)
      <4>1. e.ip = i
        BY <2>12, <3>1
      <4> QED BY <1>2, <1>3, <2>12, <3>3, <3>5, <4>1, FileConstants
                 DEF Knows, Uses, Firm, Pending, New, Place, Puts
    <3> QED BY <2>21, <3>2, <3>9, <3>10, <3>13, <3>14, <3>15, <3>17, <3>18, <3>19, <3>20, <3>21, <3>22,
               CountConsistent
  <2> QED BY <2>20, <2>21
<1> QED BY <1>9, <1>10, <1>11

\* The start of namex().
LEMMA LookupAccounted ==
    ASSUME Accounted, NEW p \in Proc, NEW path \in Path, NEW c \in CallType, Alive(c), Alive(call[p]),
           c.pc \notin Puts, c.at = None, c.put = None, c.dp = None, c.inum = None,
           c.op \in {"open", "create", "mkdir", "chdir", "link", "unlink"}, c.ip # None => c.op = "link",
           c.op = "link" /\ c.ip = None => c.new \in Path,
           call[p].pc \in {"idle", "link_new"}, c.ip = call[p].ip,
           \A k \in Inum : Ptr(c, k) = Ptr(call[p], k), Lookup(p, path, c)
    PROVE  Accounted' /\ (Consistent => Consistent')
<1>1. PICK i : i = IF path.abs THEN ROOTINO ELSE cwd[p]
  OBVIOUS
<1>2. cwd[p] \in Inum
  BY DEF Accounted, TypeOK, CwdShape, Alive
<1>3. i \in Inum
  BY <1>1, <1>2, FileConstants
<1>4. path.elems \in Seq(Names) /\ path.elems # <<>>
  BY DEF Path
<1>5. PICK e : e = [c EXCEPT !.pc = "walk", !.path = path.elems, !.at = i]
  OBVIOUS
<1>6. "walk" \in (Places \ {"put_ip"}) \cup Puts
  BY DEF Places, Rets
<1>7. /\ e \in CallType /\ e.pc = "walk" /\ e.path = path.elems /\ e.at = i /\ e.op = c.op /\ e.new = c.new
      /\ e.ip = c.ip /\ e.dp = c.dp /\ e.inum = c.inum /\ e.put = c.put
  BY <1>3, <1>4, <1>5, <1>6 DEF CallType
<1>8. Shape(e) /\ Alive(e)
  BY <1>3, <1>4, <1>7, FileConstants
     DEF Shape, Place, Puts, Rets, HasDp, HasIp, MayIp, Making, Onward, Alive
<1>9. \A k \in Inum : Ptr(e, k) = Ptr(call[p], k) + Ind(k = i)
  <2>1. \A k \in Inum : Ptr(e, k) = Ptr(c, k) + Ind(k = i)
    BY <1>3, <1>7, FileConstants DEF Ptr, Ind
  <2> QED BY <2>1
<1>10. Get(p, i, itable, e)
  BY <1>1, <1>5 DEF Lookup
<1>11. itable \in [Inum -> EntryType]
  BY DEF Accounted, TypeOK
<1>12. Accounted'
  BY <1>3, <1>7, <1>8, <1>9, <1>10, <1>11, GetAccounted
<1>13. ASSUME Consistent PROVE Consistent'
  <2>1. Live(inode, links, i)
    BY <1>1, <1>2, <1>13, FileConstants DEF Consistent, CwdLive, Disk, Tree
  <2>2. links[i] > 0 /\ inode[i].type = "dir"
    BY <2>1 DEF Live
  <2>3. PICK b : b = call[p]
    OBVIOUS
  <2>4. b \in CallType /\ Shape(b) /\ b.pc \in {"idle", "link_new"} /\ b.ip = c.ip
    BY <2>3, CallOf
  <2>5. /\ b.at = None /\ b.dp = None /\ b.put = None /\ b.inum = None
        /\ b.pc = "idle" => b.ip = None
        /\ b.pc = "link_new" => b.ip # None
    BY <2>4 DEF Shape, Place, Puts, Rets, HasDp, HasIp, MayIp, Making, Onward
  <2>6. Knows(inode, links, b)
    BY <1>13, <2>3 DEF Consistent
  <2>7. Follows(call[p], e, i)
    BY <1>7, <2>3, <2>4, <2>5, FileConstants DEF Follows, Owes, Pending, Place, Puts, Uses, New
  <2>8. SameHolds(call[p], e)
    BY <1>7, <2>3, <2>4, <2>5, FileConstants DEF SameHolds, Holds, HoldIp, HoldDp, Place, Puts
  <2>9. Knows(inode, links, e)
    BY <1>3, <1>7, <2>2, <2>4, <2>5, <2>6, FileConstants DEF Knows, Uses, Firm, Pending, New, Place, Puts
  <2> QED BY <1>3, <1>10, <1>13, <2>2, <2>7, <2>8, <2>9, SameGetConsistent
<1> QED BY <1>12, <1>13

\* The second path of link() keeps both invariants.
LEMMA LinkNewKeeps ==
    ASSUME Accounted, NEW p \in Proc, LinkNew(p)
    PROVE  Accounted' /\ (Consistent => Consistent')
<1>1. PICK c : c = call[p]
  OBVIOUS
<1>2. c \in CallType /\ Shape(c) /\ c.pc = "link_new"
  BY <1>1, CallOf DEF LinkNew, Ilock, At
<1>3. /\ c.ip \in Inum /\ c.inum = None /\ c.at = None /\ c.dp = None /\ c.put = None /\ Alive(c)
      /\ c.new \in Path /\ c.op = "link"
  BY <1>2, CallFields, FileConstants DEF Shape, Place, Puts, Rets, HasDp, HasIp, MayIp, Making, Onward, Alive
<1>4. inode \in [Inum -> InodeType] /\ itable \in [Inum -> EntryType] /\ TypeOK
  BY DEF Accounted, TypeOK
<1>5. PICK e : e = [c EXCEPT !.new = None]
  OBVIOUS
<1>6. /\ e \in CallType /\ e.new = None /\ e.pc = c.pc /\ e.op = c.op /\ e.at = c.at /\ e.ip = c.ip
      /\ e.dp = c.dp /\ e.inum = c.inum /\ e.put = c.put
  BY <1>2, <1>5 DEF CallType
<1>7. Lookup(p, c.new, e)
  BY <1>1, <1>5 DEF LinkNew
<1>8. \A k \in Inum : Ptr(e, k) = Ptr(c, k)
  BY <1>6 DEF Ptr
<1>9. Alive(e) /\ e.pc \notin Puts /\ e.ip # None
  BY <1>2, <1>3, <1>6, FileConstants DEF Alive, Puts
<1>10. call[p].pc = "link_new" /\ e.ip = call[p].ip
  BY <1>1, <1>2, <1>6
<1> QED BY <1>1, <1>3, <1>6, <1>7, <1>8, <1>9, <1>10, LookupAccounted

\* The start of a call keeps both invariants.
LEMMA CallStartKeeps ==
    ASSUME Accounted, NEW p \in Proc, Call(p)
    PROVE  Accounted' /\ (Consistent => Consistent')
<1>1. PICK c \in Calls[p] :
          Lookup(p, c.path, [Idle EXCEPT !.op = c.op, !.new = IF c.op = "link" THEN c.new ELSE None])
  BY DEF Call
<1>2. /\ c.op \in {"open", "create", "mkdir", "chdir", "link", "unlink"} /\ c.path \in Path /\ c.new \in Path
  BY FileConstants
<1>3. PICK n : n = IF c.op = "link" THEN c.new ELSE None
  OBVIOUS
<1>4. PICK e0 : e0 = Idle
  OBVIOUS
<1>5. /\ e0 \in CallType /\ e0.pc = "idle" /\ e0.at = None /\ e0.ip = None /\ e0.dp = None /\ e0.put = None
      /\ e0.inum = None
  BY <1>4, IdleRecord
<1>6. PICK e : e = [e0 EXCEPT !.op = c.op, !.new = n]
  OBVIOUS
<1>7. /\ e.pc = "idle" /\ e.at = None /\ e.ip = None /\ e.dp = None /\ e.put = None
      /\ e.inum = None /\ e.op = c.op /\ e.new = n
  BY <1>5, <1>6 DEF CallType
<1>8. e \in CallType
  <2>1. c.op \in Ops
    BY <1>2 DEF Ops
  <2>2. n \in Path \cup {None}
    BY <1>2, <1>3
  <2> QED BY <1>5, <1>6, <2>1, <2>2 DEF CallType
<1>9. Lookup(p, c.path, e)
  BY <1>1, <1>3, <1>4, <1>6
<1>10. call[p] \in CallType /\ Shape(call[p]) /\ call[p].pc = "idle"
  BY CallOf DEF Call, At
<1>11. /\ Alive(call[p]) /\ call[p].at = None /\ call[p].ip = None /\ call[p].dp = None /\ call[p].put = None
  BY <1>10 DEF Shape, Place, Puts, Rets, HasDp, HasIp, MayIp, Making, Onward, Alive
<1>12. \A k \in Inum : Ptr(e, k) = Ptr(call[p], k)
  BY <1>7, <1>11 DEF Ptr
<1>13. Alive(e) /\ e.pc \notin Puts /\ (e.op = "link" => e.new \in Path)
  BY <1>2, <1>3, <1>7 DEF Alive, Puts
<1>14. call[p].pc = "idle" /\ e.ip = call[p].ip
  BY <1>7, <1>10, <1>11
<1> QED BY <1>2, <1>7, <1>8, <1>9, <1>11, <1>12, <1>13, <1>14, LookupAccounted

\* dirlink() in link() keeps both invariants.
LEMMA LinkDirKeeps ==
    ASSUME Accounted, NEW p \in Proc, LinkDir(p)
    PROVE  Accounted' /\ (Consistent => Consistent')
<1>1. PICK c : c = call[p]
  OBVIOUS
<1>2. c \in CallType /\ Shape(c) /\ c.pc = "link_dir"
  BY <1>1, CallOf DEF LinkDir, Ilock, At
<1>3. /\ c.dp \in Inum /\ c.ip \in Inum /\ c.inum = None /\ c.at = None /\ c.put = None /\ Alive(c)
      /\ c.path \in Seq(Names) /\ c.path # <<>>
  BY <1>2, CallFields, FileConstants DEF Shape, Place, Puts, Rets, HasDp, HasIp, MayIp, Making, Onward, Alive
<1>4. inode \in [Inum -> InodeType] /\ itable \in [Inum -> EntryType] /\ TypeOK
  BY DEF Accounted, TypeOK
<1>5. PICK d : d = c.dp
  OBVIOUS
<1>6. PICK j : j = Dirlookup(d, Head(c.path))
  OBVIOUS
<1>7. d \in Inum /\ j \in Inum \cup {None} /\ Head(c.path) \in Names
  <2>1. Head(c.path) \in Names
    BY <1>3, PathSeq
  <2> QED BY <1>3, <1>4, <1>5, <1>6, <2>1 DEF Dirlookup, InodeType
<1>8. Seen(d) \in [Inum -> EntryType] /\ \A k \in Inum : Seen(d)[k].ref = itable[k].ref
  BY <1>7, <1>4, SeenTable
<1>9. CASE Fault(p) # "no"
  BY <1>9, PanicAccounted, PanicConsistent DEF LinkDir, Ilock, Panic, AllButPanic
<1>10. PICK e0 : e0 = Only(c.ip)
  OBVIOUS
<1>11. /\ e0 \in CallType /\ e0.op = "none" /\ e0.path = <<>> /\ e0.at = None /\ e0.ip = c.ip /\ e0.dp = None
       /\ e0.inum = None /\ e0.put = None
  BY <1>3, <1>10, OnlyRecord
<1>12. CASE Fault(p) = "no" /\ j # None
  <2>1. PICK e1 : e1 = [e0 EXCEPT !.dp = d]
    OBVIOUS
  <2>2. /\ e1 \in CallType /\ e1.op = "none" /\ e1.path = <<>> /\ e1.at = None /\ e1.ip = c.ip /\ e1.dp = d
        /\ e1.inum = None /\ e1.put = None
    BY <1>7, <1>11, <2>1 DEF CallType
  <2>3. j \in Inum
    BY <1>7, <1>12
  <2>11. PICK e : e = Iput(e1, j, "unlockput_dp")
    OBVIOUS
  <2>12. e \in CallType /\ e.pc = "put" /\ e.put = j /\ e.ret = "unlockput_dp" /\ e.op = "none" /\ e.path = <<>>
        /\ e.at = None /\ e.ip = c.ip /\ e.dp = d /\ e.inum = None
    <3>1. "unlockput_dp" \in Rets
      BY DEF Rets
    <3> QED BY <2>2, <2>3, <2>11, <3>1, IputRecord
  <2>13. Shape(e) /\ Alive(e)
    BY <1>3, <1>5, <1>7, <2>3, <2>12, FileConstants
       DEF Shape, Place, Puts, Rets, HasDp, HasIp, MayIp, Making, Onward, Alive
  <2>14. \A k \in Inum : Ptr(e, k) = Ptr(c, k) + Ind(k = j)
    BY <1>3, <1>5, <1>7, <2>3, <2>12, FileConstants DEF Ptr, Ind
  <2>15. Get(p, j, Locked(p, d), e)
    BY <1>1, <1>5, <1>6, <1>10, <1>12, <2>1, <2>11 DEF LinkDir, Ilock
  <2>16. Locked(p, d) \in [Inum -> EntryType] /\ \A k \in Inum : Locked(p, d)[k].ref = itable[k].ref
    BY <1>4, <1>7, LockedTable
  <2>20. Accounted'
    BY <1>1, <1>3, <2>3, <2>12, <2>13, <2>14, <2>15, <2>16, GetAccounted
  <2>21. ASSUME Consistent PROVE Consistent'
    <3>1. Knows(inode, links, c)
      BY <1>1, <2>21 DEF Consistent
    <3>7. /\ inode[d].type # "free" /\ Loaded(d).type = inode[d].type
          /\ inode[d].type = "dir" => links[d] > 0 /\ Live(inode, links, d)
      BY <1>1, <1>3, <1>5, <1>7, <2>21, Read DEF Has, Uses, Firm, Live
    <3>9. itable[d].lock = None /\ Wanted(p) = d /\ inode[d].type = "dir" /\ Has(call[p], d)
      <4>1. Wanted(p) = d
        BY <1>1, <1>2, <1>5 DEF Wanted
      <4>2. itable[Wanted(p)].lock = None
        BY DEF LinkDir, Ilock
      <4> QED BY <1>1, <1>3, <1>5, <3>1, <4>1, <4>2, FileConstants DEF Knows, Has
    <3>8. links[j] > 0 /\ inode[j].type # "free"
      <4>1. Live(inode, links, d) /\ inode[d].ents[Head(c.path)] = j /\ j # None
        BY <1>6, <1>12, <3>7, <3>9 DEF Dirlookup
      <4>3. PICK n : n = Head(c.path)
        OBVIOUS
      <4>4. n \in Names /\ inode[d].ents[n] = j
        BY <1>7, <4>1, <4>3
      <4>2. links[j] > 0
        BY <1>7, <2>21, <4>1, <4>4, EntryLinked
      <4> QED BY <1>7, <2>3, <2>21, <4>2, LinkedUsed
    <3>2. Follows(call[p], e, j)
      BY <1>1, <1>2, <1>3, <1>5, <1>7, <2>3, <2>12, FileConstants
         DEF Follows, Owes, Pending, Place, Puts, Uses, New
    <3>3. AlsoHolds(call[p], e, d)
      BY <1>1, <1>2, <1>3, <1>5, <1>7, <2>3, <2>12, FileConstants
         DEF AlsoHolds, Holds, HoldIp, HoldDp, Place, Puts
    <3>4. Knows(inode, links, e)
      BY <3>1, <1>2, <1>3, <1>5, <1>7, <2>3, <2>12, <3>7, <3>8, <3>9, FileConstants
         DEF Knows, Uses, Firm, Pending, New, Place, Puts
    <3> QED BY <1>1, <2>21, <2>15, <1>2, <1>3, <1>5, <1>7, <2>3, <2>12, <3>2, <3>3, <3>4, <3>7, <3>8, <3>9,
               <1>7, <2>3, LockedGetConsistent
  <2> QED BY <2>20, <2>21
<1>13. CASE Fault(p) = "no" /\ j = None
  <2>1. PICK r : /\ r \in {"put_ip", "link_undo"}
                 /\ \/ Write(p, SetEnt(inode, d, Head(c.path), c.ip), Seen(d), Iput(e0, d, r)) /\ r = "put_ip"
                    \/ Write(p, inode, Seen(d), Iput(e0, d, r)) /\ r = "link_undo"
    <3>1. \/ Write(p, SetEnt(inode, d, Head(c.path), c.ip), Seen(d), Iput(e0, d, "put_ip"))
          \/ Write(p, inode, Seen(d), Iput(e0, d, "link_undo"))
      BY <1>1, <1>5, <1>6, <1>10, <1>13 DEF LinkDir, Ilock, Step, SetEnt
    <3> QED BY <3>1
  <2>11. PICK e : e = Iput(e0, d, r)
    OBVIOUS
  <2>12. e \in CallType /\ e.pc = "put" /\ e.put = d /\ e.ret = r /\ e.op = "none" /\ e.path = <<>>
        /\ e.at = None /\ e.ip = c.ip /\ e.dp = None /\ e.inum = None
    <3>1. r \in Rets
      BY <2>1 DEF Rets
    <3> QED BY <1>7, <1>11, <2>11, <3>1, IputRecord
  <2>13. Shape(e) /\ Alive(e)
    BY <1>3, <1>5, <1>7, <2>1, <2>12, FileConstants
       DEF Shape, Place, Puts, Rets, HasDp, HasIp, MayIp, Making, Onward, Alive
  <2>14. \A k \in Inum : Ptr(e, k) = Ptr(c, k)
    BY <1>3, <1>5, <1>7, <2>1, <2>12, FileConstants DEF Ptr, Ind
  <2>15. SetEnt(inode, d, Head(c.path), c.ip) \in [Inum -> InodeType]
    BY <1>3, <1>4, <1>7, SetEntInode
  <2>20. Accounted'
    BY <1>1, <1>3, <1>4, <1>8, <2>1, <2>11, <2>12, <2>13, <2>14, <2>15, WriteAccounted
  <2>21. ASSUME Consistent PROVE Consistent'
    <3>1. Knows(inode, links, c)
      BY <1>1, <2>21 DEF Consistent
    <3>7. /\ inode[d].type # "free" /\ Loaded(d).type = inode[d].type
          /\ inode[d].type = "dir" => links[d] > 0 /\ Live(inode, links, d)
      BY <1>1, <1>3, <1>5, <1>7, <2>21, Read DEF Has, Uses, Firm, Live
    <3>9. itable[d].lock = None /\ Wanted(p) = d /\ inode[d].type = "dir" /\ Has(call[p], d)
      <4>1. Wanted(p) = d
        BY <1>1, <1>2, <1>5 DEF Wanted
      <4>2. itable[Wanted(p)].lock = None
        BY DEF LinkDir, Ilock
      <4> QED BY <1>1, <1>3, <1>5, <3>1, <4>1, <4>2, FileConstants DEF Knows, Has
    <3>10. PICK i : i = c.ip
      OBVIOUS
    <3>11. i \in Inum /\ inode[i].type = "file" /\ e.ip = i /\ Live(inode, links, d) /\ i # d
      BY <1>2, <1>3, <2>12, <3>1, <3>7, <3>9, <3>10 DEF Knows, Pending, Place, Puts
    <3>12. SameHolds(call[p], e)
      BY <1>1, <1>2, <1>3, <2>1, <2>12, FileConstants DEF SameHolds, Holds, HoldIp, HoldDp, Place, Puts
    <3>13. /\ TabKeeps(Seen(d)) /\ Cached(inode, Seen(d)) /\ Seen(d)[d].valid
           /\ \A k \in Inum : Seen(d)[k].lock = itable[k].lock
      BY <1>7, <2>21, <3>7, SeenKeeps
    <3>14. CASE Write(p, inode, Seen(d), Iput(e0, d, r)) /\ r = "link_undo"
      <4>1. Write(p, inode, Seen(d), e)
        BY <2>11, <3>14
      <4>2. Follows(call[p], e, None)
        BY <1>1, <1>2, <1>3, <1>5, <2>12, <3>14, FileConstants
           DEF Follows, Owes, Pending, Place, Puts, Uses, New
      <4>3. Knows(inode, links, e)
        BY <1>2, <1>3, <2>12, <3>1, <3>7, <3>11, <3>14, FileConstants
           DEF Knows, Uses, Firm, Pending, New, Place, Puts
      <4> QED BY <1>7, <2>21, <3>7, <3>12, <4>1, <4>2, <4>3, SeenConsistent
    <3>15. CASE Write(p, SetEnt(inode, d, Head(c.path), c.ip), Seen(d), Iput(e0, d, r)) /\ r = "put_ip"
      <4>1. PICK n : n = Head(c.path)
        OBVIOUS
      <4>2. PICK fs : fs = SetEnt(inode, d, n, i)
        OBVIOUS
      <4>3. PICK tab : tab = Seen(d)
        OBVIOUS
      <4>4. Write(p, fs, tab, e)
        BY <2>11, <3>10, <3>15, <4>1, <4>2, <4>3
      <4>5. inode[d].ents[n] = None /\ n \in Name
        <5>1. inode[d].ents[n] = None /\ n \in Names
          BY <1>6, <1>7, <1>13, <4>1 DEF Dirlookup
        <5>2. inode[d].ents["."] = d /\ inode[d].ents[".."] \in Inum
          BY <1>7, <2>21, <3>11 DEF Consistent, Disk, Tree, Up2
        <5> QED BY <1>7, <5>1, <5>2, FileConstants DEF Names
      <4>6. /\ fs \in Disks /\ fs[d].nlink = inode[d].nlink /\ fs[d].type = inode[d].type /\ fs[d].ents[n] = i
            /\ \A m \in Names : m # n => fs[d].ents[m] = inode[d].ents[m]
            /\ \A k \in Inum : k # d => fs[k] = inode[k]
        <5>1. n \in Names /\ i \in Inum \cup {None}
          BY <3>11, <4>5 DEF Names
        <5>2. /\ SetEnt(inode, d, n, i) \in [Inum -> InodeType]
              /\ SetEnt(inode, d, n, i)[d].nlink = inode[d].nlink
              /\ SetEnt(inode, d, n, i)[d].type = inode[d].type
              /\ SetEnt(inode, d, n, i)[d].ents[n] = i
              /\ \A m \in Names : m # n => SetEnt(inode, d, n, i)[d].ents[m] = inode[d].ents[m]
              /\ \A k \in Inum : k # d => SetEnt(inode, d, n, i)[k] = inode[k]
          BY <1>4, <1>7, <5>1, SetEntInode
        <5> QED BY <4>2, <5>2 DEF Disks
      <4>7. inode' = fs /\ call' = [call EXCEPT ![p] = e]
        BY <4>4 DEF Write, Become
      <4>8. \A k \in Inum : fs[k].type = inode[k].type /\ fs[k].nlink = inode[k].nlink
        BY <4>6
      <4>9. /\ inode \in Disks /\ links \in Counts /\ links' \in Counts
            /\ \A k \in Inum : links'[k] = links[k] + Ind(k = i)
        <5>1. \A k \in Inum : Owes(e, k) = 0 /\ Owes(call[p], k) = IF k = i THEN 1 ELSE 0
          BY <1>1, <1>2, <2>12, <3>10, <3>15 DEF Owes, Pending, Place, Puts
        <5>2. /\ inode \in Disks /\ links \in Counts /\ links' \in Counts
              /\ \A k \in Inum : /\ inode[k].nlink \in Int /\ inode'[k].nlink \in Int /\ links[k] \in Int
                                 /\ links'[k] = inode'[k].nlink - inode[k].nlink + links[k] + Owes(call[p], k) - Owes(e, k)
          BY <4>6, <4>7, LinksNew
        <5>3. \A k \in Inum : inode'[k].nlink = inode[k].nlink
          BY <4>7, <4>8
        <5> QED BY <5>1, <5>2, <5>3 DEF Ind
      <4>10. Disk(inode, links) /\ links[d] > 0
        BY <2>21, <3>11 DEF Consistent, Live
      <4>11. Disk(fs, links')
        <5>1. Blank(fs)
          BY <3>9, <4>6, <4>10 DEF Blank, Disk
        <5>2. \A k \in Inum : links'[k] = links[k] + Ind(k = i) - Ind(k = None)
          <6>1. \A k \in Inum : Ind(k = None) = 0 /\ Ind(k = i) \in Int
            BY FileConstants DEF Ind
          <6> QED BY <4>9, <6>1 DEF Counts
        <5>3. \A k \in Inum : k # d => (fs[k].type = "dir" <=> inode[k].type = "dir") /\ fs[k].ents = inode[k].ents
          BY <4>6
        <5>4. \A k \in {None, i} \ {None} : inode[k].type # "dir"
          BY <3>11
        <5>5. fs[d].type = "dir"
          BY <3>9, <4>6
        <5> QED BY <1>7, <3>11, <4>5, <4>6, <4>9, <4>10, <5>1, <5>2, <5>3, <5>4, <5>5, DiskEntry
      <4>12. SameRefs(tab) /\ tab \in [Inum -> EntryType]
        BY <1>8, <4>3 DEF SameRefs
      <4>13. Cached(fs, tab)
        BY <3>13, <4>3, <4>8 DEF Cached
      <4>14. LockTo(tab, p, e)
        BY <2>21, <3>12, <3>13, <4>3, HeldBy DEF LockTo, SameHolds
      <4>15. Knows(fs, links', e)
        <5>1. \A k \in Inum : Uses(e, k) => k \in {i, d}
          BY <2>12, <3>11, FileConstants DEF Uses
        <5>2. \A k \in Inum : Firm(e, k) => k = i
          BY <2>12, <3>11, FileConstants DEF Firm
        <5>3. /\ ~ Pending(e) /\ Place(e) \notin {"ialloc", "iget", "fill", "unlink_ip"} /\ New(e) = None
              /\ e.dp = None
          BY <2>12, <3>15 DEF Pending, Place, Puts, New
        <5> QED BY <3>9, <3>11, <4>8, <5>1, <5>2, <5>3 DEF Knows
      <4>16. New(e) = None /\ New(call[p]) = None
        BY <1>1, <1>2, <2>12 DEF New
      <4>17. Fresh(call', ftable, p)
        <5>1. call'[p] = e
          BY <4>7 DEF Accounted, TypeOK
        <5> QED BY <4>16, <5>1 DEF Fresh
      <4>18. Changes(p, fs)
        <5>1. Uses(call[p], d)
          BY <1>1, <1>5 DEF Uses
        <5>2. \A k \in Inum : Live(inode, links, k) => links'[k] > 0
          <6>1. \A k \in Inum : links[k] \in Int /\ links'[k] = links[k] + Ind(k = i) /\ Ind(k = i) \in {0, 1}
            BY <4>9 DEF Counts, Ind
          <6>2. \A k \in Inum : Live(inode, links, k) => links[k] > 0
            BY DEF Live
          <6> QED BY ONLY <6>1, <6>2
        <5> QED BY <3>9, <4>6, <4>8, <5>1, <5>2 DEF Changes
      <4>19. Onwards(p, e)
        <5>1. \A k \in Inum : Uses(e, k) => Uses(call[p], k)
          BY <1>1, <1>5, <2>12, FileConstants DEF Uses
        <5> QED BY <2>12, <5>1 DEF Onwards
      <4>20. Unlinks(p, fs, tab, e)
        BY <3>13, <4>3, <4>8, <4>16, FileConstants DEF Unlinks, TabKeeps
      <4> QED BY <2>21, <4>4, <4>11, <4>12, <4>13, <4>14, <4>15, <4>17, <4>18, <4>19, <4>20, WriteConsistent
    <3>17. \/ Write(p, SetEnt(inode, d, Head(c.path), c.ip), Seen(d), Iput(e0, d, r)) /\ r = "put_ip"
           \/ Write(p, inode, Seen(d), Iput(e0, d, r)) /\ r = "link_undo"
      BY <2>1
    <3> QED BY <3>14, <3>15, <3>17
  <2> QED BY <2>20, <2>21
<1> QED BY <1>7, <1>9, <1>12, <1>13

\* The bad: path of link() keeps both invariants.
LEMMA LinkUndoKeeps ==
    ASSUME Accounted, NEW p \in Proc, LinkUndo(p)
    PROVE  Accounted' /\ (Consistent => Consistent')
<1>1. PICK c : c = call[p]
  OBVIOUS
<1>2. c \in CallType /\ Shape(c) /\ c.pc = "link_undo"
  BY <1>1, CallOf DEF LinkUndo, Ilock, At
<1>3. /\ c.ip \in Inum /\ c.inum = None /\ c.at = None /\ c.dp = None /\ c.put = None /\ Alive(c)
  BY <1>2, CallFields, FileConstants DEF Shape, Place, Puts, Rets, HasDp, HasIp, MayIp, Making, Onward, Alive
<1>4. inode \in [Inum -> InodeType] /\ itable \in [Inum -> EntryType] /\ TypeOK
  BY DEF Accounted, TypeOK
<1>9. CASE Fault(p) # "no"
  BY <1>9, PanicAccounted, PanicConsistent DEF LinkUndo, Ilock, Panic, AllButPanic
<1>8. Seen(c.ip) \in [Inum -> EntryType] /\ \A k \in Inum : Seen(c.ip)[k].ref = itable[k].ref
  BY <1>3, <1>4, SeenTable
<1>10. CASE Fault(p) = "no"
  <2>5. Write(p, Down(inode, c.ip), Down(Seen(c.ip), c.ip), Last(c.ip))
    BY <1>1, <1>10 DEF LinkUndo, Ilock
  <2>6. Last(c.ip) \in CallType /\ Shape(Last(c.ip)) /\ Alive(Last(c.ip))
    BY <1>3, LastRecord, ShapeLast
  <2>7. \A k \in Inum : Ptr(Last(c.ip), k) = Ptr(c, k)
    BY <1>3, PtrLast, FileConstants DEF Ptr, Ind
  <2>8. /\ Down(inode, c.ip) \in [Inum -> InodeType] /\ Down(Seen(c.ip), c.ip) \in [Inum -> EntryType]
        /\ \A k \in Inum : Down(Seen(c.ip), c.ip)[k].ref = itable[k].ref
    BY <1>3, <1>4, <1>8, DownIs, SubInode, DownTable
  <2>20. Accounted'
    BY <1>1, <1>3, <2>5, <2>6, <2>7, <2>8, WriteAccounted
  <2>21. ASSUME Consistent PROVE Consistent'
    <3>1. PICK i : i = c.ip
      OBVIOUS
    <3>2. i \in Inum /\ call[p] = c /\ Has(call[p], i) /\ Uses(call[p], i)
      BY <1>1, <1>2, <1>3, <3>1 DEF Has, Uses, Place, Puts
    <3>3. Knows(inode, links, c)
      BY <1>1, <2>21 DEF Consistent
    <3>4. /\ inode[i].type # "free" /\ Loaded(i).type = inode[i].type /\ Loaded(i).nlink = inode[i].nlink
      BY <2>21, <3>2, Read
    <3>5. PICK e : e = Last(i)
      OBVIOUS
    <3>6. e \in CallType /\ e.pc = "put" /\ e.put = i /\ e.ret = "end" /\ e.op = "none" /\ e.path = <<>>
          /\ e.at = None /\ e.ip = None /\ e.dp = None /\ e.inum = None
      BY <3>2, <3>5, LastRecord
    <3>7. PICK k : k = -1
      OBVIOUS
    <3>8. PICK fs : fs = SubLinks(inode, i, 1)
      OBVIOUS
    <3>9. PICK s : s = Seen(i)
      OBVIOUS
    <3>10. PICK tab : tab = Down(s, i)
      OBVIOUS
    <3>11. Write(p, fs, tab, e) /\ k \in Int /\ 1 \in Int
      BY <2>5, <3>1, <3>5, <3>7, <3>8, <3>9, <3>10, DownIs
    <3>12. inode[i].nlink \in Int
      BY <1>4, <3>2 DEF InodeType
    <3>13. Recount(fs, i, k)
      <4>1. /\ SubLinks(inode, i, 1) \in [Inum -> InodeType]
            /\ SubLinks(inode, i, 1)[i].nlink = inode[i].nlink - 1
            /\ SubLinks(inode, i, 1)[i].type = inode[i].type /\ SubLinks(inode, i, 1)[i].ents = inode[i].ents
            /\ \A j \in Inum : j # i => SubLinks(inode, i, 1)[j] = inode[j]
        BY <1>4, <3>2, <3>11, SubInode
      <4>2. fs[i].nlink = inode[i].nlink + k
        BY <3>7, <3>8, <3>12, <4>1
      <4> QED BY <3>8, <4>1, <4>2 DEF Recount, Disks
    <3>14. /\ TabKeeps(s) /\ Cached(inode, s) /\ s[i].valid /\ \A j \in Inum : s[j].lock = itable[j].lock
      BY <2>21, <3>2, <3>4, <3>9, SeenKeeps
    <3>15. s \in [Inum -> EntryType] /\ s[i] = Loaded(i) /\ (\A j \in Inum : j # i => s[j] = itable[j])
           /\ \A j \in Inum : s[j].ref = itable[j].ref
      BY <1>4, <3>2, <3>9, SeenTable
    <3>16. /\ tab \in [Inum -> EntryType] /\ tab[i].nlink = s[i].nlink - 1
           /\ tab[i].valid = s[i].valid /\ tab[i].type = s[i].type
           /\ (\A j \in Inum : j # i => tab[j] = s[j])
           /\ \A j \in Inum : tab[j].ref = s[j].ref /\ tab[j].lock = s[j].lock
      BY <3>2, <3>10, <3>15, DownTable
    <3>17. RecountTable(tab, i, k)
      <4>1. tab[i].nlink = inode[i].nlink + k
        BY <3>4, <3>7, <3>12, <3>15, <3>16
      <4> QED BY <3>4, <3>14, <3>15, <3>16, <4>1 DEF RecountTable
    <3>18. SameRefs(tab)
      BY <3>15, <3>16 DEF SameRefs
    <3>19. LockTo(tab, p, e)
      <4>1. \A j \in Inum : Holds(e, j) <=> Holds(call[p], j)
        BY <1>1, <1>2, <1>3, <3>6, FileConstants DEF Holds, HoldIp, HoldDp, Place, Puts
      <4>2. \A j \in Inum : tab[j].lock = itable[j].lock
        BY <3>14, <3>16
      <4> QED BY <2>21, <4>1, <4>2, HeldBy DEF LockTo
    <3>20. Owed(call[p], e, i, k)
      BY <1>1, <1>2, <1>3, <3>1, <3>6, <3>7 DEF Owed, Owes, Pending, Place, Puts
    <3>21. \A j \in Inum : Uses(e, j) => Uses(call[p], j)
      BY <3>2, <3>6, FileConstants DEF Uses
    <3>22. New(e) = None /\ New(call[p]) = None /\ e.pc # "trunc" /\ e.dp = None
      BY <1>1, <1>2, <3>6 DEF New
    <3>23. (Pending(e) => e.ip \in Inum) /\ Place(e) \notin {"ialloc", "iget", "fill", "unlink_ip"}
      BY <3>6 DEF Pending, Place, Puts
    <3>24. Knows(inode, links, e)
      BY <3>4, <3>6, FileConstants DEF Knows, Uses, Firm, Pending, New, Place, Puts
    <3> QED BY <2>21, <3>2, <3>11, <3>13, <3>16, <3>17, <3>18, <3>19, <3>20, <3>21, <3>22, <3>23, <3>24,
               CountConsistent
  <2> QED BY <2>20, <2>21
<1> QED BY <1>9, <1>10

\* dirlookup() in unlink() keeps both invariants.
LEMMA UnlinkKeeps == ASSUME Accounted, NEW p \in Proc, Unlink(p) PROVE Accounted' /\ (Consistent => Consistent')
<1>1. PICK c : c = call[p]
  OBVIOUS
<1>2. c \in CallType /\ Shape(c) /\ c.pc = "unlink"
  BY <1>1, CallOf DEF Unlink, Ilock, At
<1>3. /\ c.dp \in Inum /\ c.ip = None /\ c.inum = None /\ c.at = None /\ c.put = None /\ Alive(c)
      /\ c.path \in Seq(Names) /\ c.path # <<>> /\ c.op = "unlink"
  BY <1>2, CallFields, FileConstants DEF Shape, Place, Puts, Rets, HasDp, HasIp, MayIp, Making, Onward, Alive
<1>4. inode \in [Inum -> InodeType] /\ itable \in [Inum -> EntryType] /\ TypeOK
  BY DEF Accounted, TypeOK
<1>5. PICK d : d = c.dp
  OBVIOUS
<1>6. PICK j : j = Dirlookup(d, Head(c.path))
  OBVIOUS
<1>7. d \in Inum /\ j \in Inum \cup {None} /\ Head(c.path) \in Names
  <2>1. Head(c.path) \in Names
    BY <1>3, PathSeq
  <2> QED BY <1>3, <1>4, <1>5, <1>6, <2>1 DEF Dirlookup, InodeType
<1>8. Seen(d) \in [Inum -> EntryType] /\ \A k \in Inum : Seen(d)[k].ref = itable[k].ref
  BY <1>7, <1>4, SeenTable
<1>9. CASE Fault(p) # "no"
  BY <1>9, PanicAccounted, PanicConsistent DEF Unlink, Ilock, Panic, AllButPanic
<1>10. CASE Fault(p) = "no" /\ (Head(c.path) \in {".", ".."} \/ j = None)
  <2>5. Write(p, inode, Seen(d), Last(d))
    BY <1>1, <1>5, <1>6, <1>10 DEF Unlink, Ilock, Step
  <2>6. Last(d) \in CallType /\ Shape(Last(d)) /\ Alive(Last(d))
    BY <1>3, <1>5, <1>7, LastRecord, ShapeLast
  <2>7. \A k \in Inum : Ptr(Last(d), k) = Ptr(c, k)
    BY <1>3, <1>5, <1>7, PtrLast, FileConstants DEF Ptr, Ind
  <2>20. Accounted'
    BY <1>1, <1>3, <1>4, <1>7, <1>8, <2>5, <2>6, <2>7, WriteAccounted
  <2>21. ASSUME Consistent PROVE Consistent'
    <3>1. call[p].dp = d /\ call[p].pc \in {"chdir", "link", "unlink"}
      BY <1>1, <1>2, <1>5
    <3> QED BY <1>7, <2>5, <2>21, <3>1, LastSeenConsistent
  <2> QED BY <2>20, <2>21
<1>11. CASE Fault(p) = "no" /\ ~ (Head(c.path) \in {".", ".."} \/ j = None)
  <2>1. "unlink_ip" \in (Places \ {"put_ip"}) \cup Puts
    BY DEF Places
  <2>2. j \in Inum
    BY <1>7, <1>11
  <2>11. PICK e : e = [c EXCEPT !.pc = "unlink_ip", !.ip = j]
    OBVIOUS
  <2>12. /\ e \in CallType /\ e.pc = "unlink_ip" /\ e.ip = j /\ e.op = c.op /\ e.path = c.path /\ e.new = c.new
         /\ e.at = c.at /\ e.dp = c.dp /\ e.inum = c.inum /\ e.put = c.put /\ e.ret = c.ret
    BY <1>2, <2>1, <2>2, <2>11 DEF CallType
  <2>13. Shape(e) /\ Alive(e)
    BY <1>2, <1>3, <2>2, <2>12, FileConstants
       DEF Shape, Place, Puts, Rets, HasDp, HasIp, MayIp, Making, Onward, Alive
  <2>14. \A k \in Inum : Ptr(e, k) = Ptr(c, k) + Ind(k = j)
    BY <1>2, <1>3, <2>2, <2>12, FileConstants DEF Ptr, Ind
  <2>15. Get(p, j, Locked(p, d), e)
    BY <1>1, <1>5, <1>6, <1>11, <2>11 DEF Unlink, Ilock
  <2>16. Locked(p, d) \in [Inum -> EntryType] /\ \A k \in Inum : Locked(p, d)[k].ref = itable[k].ref
    BY <1>4, <1>7, LockedTable
  <2>20. Accounted'
    BY <1>1, <1>3, <2>2, <2>12, <2>13, <2>14, <2>15, <2>16, GetAccounted
  <2>21. ASSUME Consistent PROVE Consistent'
    <3>1. Knows(inode, links, c)
      BY <1>1, <2>21 DEF Consistent
    <3>7. /\ inode[d].type # "free" /\ Loaded(d).type = inode[d].type
          /\ inode[d].type = "dir" => links[d] > 0 /\ Live(inode, links, d)
      BY <1>1, <1>3, <1>5, <1>7, <2>21, Read DEF Has, Uses, Firm, Live
    <3>9. itable[d].lock = None /\ Wanted(p) = d /\ inode[d].type = "dir" /\ Has(call[p], d)
      <4>1. Wanted(p) = d
        BY <1>1, <1>2, <1>5 DEF Wanted
      <4>2. itable[Wanted(p)].lock = None
        BY DEF Unlink, Ilock
      <4> QED BY <1>1, <1>3, <1>5, <3>1, <4>1, <4>2, FileConstants DEF Knows, Has
    <3>8. links[j] > 0 /\ inode[j].type # "free"
      <4>1. Live(inode, links, d) /\ inode[d].ents[Head(c.path)] = j /\ j # None
        BY <1>6, <1>11, <3>7, <3>9 DEF Dirlookup
      <4>3. PICK n : n = Head(c.path)
        OBVIOUS
      <4>4. n \in Names /\ inode[d].ents[n] = j
        BY <1>7, <4>1, <4>3
      <4>2. links[j] > 0
        BY <1>7, <2>21, <4>1, <4>4, EntryLinked
      <4> QED BY <1>7, <2>2, <2>21, <4>2, LinkedUsed
    <3>10. Head(c.path) \in Name /\ inode[c.dp].ents[Head(c.path)] = j
      BY <1>5, <1>6, <1>7, <1>11 DEF Dirlookup, Names
    <3>2. Follows(call[p], e, j)
      BY <1>1, <1>2, <1>3, <1>5, <1>7, <2>2, <2>12, FileConstants
         DEF Follows, Owes, Pending, Place, Puts, Uses, New
    <3>3. AlsoHolds(call[p], e, d)
      BY <1>1, <1>2, <1>3, <1>5, <1>7, <2>2, <2>12, FileConstants
         DEF AlsoHolds, Holds, HoldIp, HoldDp, Place, Puts
    <3>4. Knows(inode, links, e)
      BY <3>1, <1>2, <1>3, <1>5, <1>7, <2>2, <2>12, <3>7, <3>8, <3>9, <3>10, FileConstants
         DEF Knows, Uses, Firm, Pending, New, Place, Puts
    <3> QED BY <1>1, <2>21, <2>15, <1>2, <1>3, <1>5, <1>7, <2>2, <2>12, <3>2, <3>3, <3>4, <3>7, <3>8, <3>9,
               LockedGetConsistent
  <2> QED BY <2>20, <2>21
<1> QED BY <1>7, <1>9, <1>10, <1>11

\* The entry erased in unlink() keeps both invariants, where directories in use
\* are not removed.
LEMMA UnlinkEntryKeeps ==
    ASSUME Accounted, NEW p \in Proc, UnlinkEntry(p)
    PROVE  Accounted' /\ (Consistent /\ ~ RemoveInUse => Consistent')
<1>1. PICK c : c = call[p]
  OBVIOUS
<1>2. c \in CallType /\ Shape(c) /\ c.pc = "unlink_ip"
  BY <1>1, CallOf DEF UnlinkEntry, Ilock, At
<1>3. /\ c.dp \in Inum /\ c.ip \in Inum /\ c.inum = None /\ c.at = None /\ c.put = None /\ Alive(c)
      /\ c.path \in Seq(Names) /\ c.path # <<>>
  BY <1>2, CallFields, FileConstants DEF Shape, Place, Puts, Rets, HasDp, HasIp, MayIp, Making, Onward, Alive
<1>4. inode \in [Inum -> InodeType] /\ itable \in [Inum -> EntryType] /\ TypeOK
  BY DEF Accounted, TypeOK
<1>9. CASE Fault(p) # "no"
  BY <1>9, PanicAccounted, PanicConsistent DEF UnlinkEntry, Ilock, Panic, AllButPanic
<1>5. PICK i : i = c.ip
  OBVIOUS
<1>6. PICK d : d = c.dp
  OBVIOUS
<1>7. i \in Inum /\ d \in Inum /\ Head(c.path) \in Names
  BY <1>3, <1>5, <1>6, PathSeq
<1>8. PICK dn : dn = IF Loaded(i).type = "dir" THEN 1 ELSE 0
  OBVIOUS
<1>10. CASE Fault(p) = "no"
  <2>1. \/ Write(p, inode, Seen(i), Iput([Idle EXCEPT !.dp = d], i, "unlockput_dp"))
        \/ Write(p, SetLinks(SetEnt(inode, d, Head(c.path), None), d, inode[d].nlink - dn),
                 SetLock(SubLinks(Locked(p, i), d, dn), d, None), Iput(Only(i), d, "unlinked"))
    <3>1. \/ Write(p, inode, Seen(i), Iput([Idle EXCEPT !.dp = d], i, "unlockput_dp"))
          \/ Write(p, [inode EXCEPT ![d].ents[Head(c.path)] = None, ![d].nlink = @ - dn],
                      [Locked(p, i) EXCEPT ![d].nlink = @ - dn, ![d].lock = None],
                      Iput(Only(i), d, "unlinked"))
      BY <1>1, <1>5, <1>6, <1>8, <1>10 DEF UnlinkEntry, Ilock, Step
    <3>2. [inode EXCEPT ![d].ents[Head(c.path)] = None, ![d].nlink = @ - dn]
            = SetLinks(SetEnt(inode, d, Head(c.path), None), d, inode[d].nlink - dn)
      BY DEF SetLinks, SetEnt
    <3>3. [Locked(p, i) EXCEPT ![d].nlink = @ - dn, ![d].lock = None]
            = SetLock(SubLinks(Locked(p, i), d, dn), d, None)
      BY DEF SetLock, SubLinks
    <3> QED BY <3>1, <3>2, <3>3
  <2>2. CASE Write(p, inode, Seen(i), Iput([Idle EXCEPT !.dp = d], i, "unlockput_dp"))
    <3>1. PICK e0 : e0 = [Idle EXCEPT !.dp = d]
      OBVIOUS
    <3>2. e0 \in CallType /\ e0.dp = d /\ e0.op = "none" /\ e0.path = <<>> /\ e0.at = None /\ e0.ip = None
          /\ e0.inum = None
      BY <1>7, <3>1, IdleRecord DEF CallType
    <3>3. PICK e : e = Iput(e0, i, "unlockput_dp")
      OBVIOUS
    <3>4. /\ e \in CallType /\ e.pc = "put" /\ e.put = i /\ e.ret = "unlockput_dp" /\ e.op = "none"
          /\ e.path = <<>>
          /\ e.at = None /\ e.ip = None /\ e.dp = d /\ e.inum = None
      <4>1. "unlockput_dp" \in Rets
        BY DEF Rets
      <4> QED BY <1>7, <3>2, <3>3, <4>1, IputRecord
    <3>5. Shape(e) /\ Alive(e)
      BY <1>7, <3>4, FileConstants
         DEF Shape, Place, Puts, Rets, HasDp, HasIp, MayIp, Making, Onward, Alive
    <3>6. \A k \in Inum : Ptr(e, k) = Ptr(c, k)
      BY <1>3, <1>5, <1>6, <3>4, FileConstants DEF Ptr, Ind
    <3>8. Seen(i) \in [Inum -> EntryType] /\ \A k \in Inum : Seen(i)[k].ref = itable[k].ref
      BY <1>4, <1>7, SeenTable
    <3>20. Accounted'
      BY <1>1, <1>3, <1>4, <2>2, <3>1, <3>3, <3>4, <3>5, <3>6, <3>8, WriteAccounted
    <3>21. ASSUME Consistent PROVE Consistent'
      <4>1. Knows(inode, links, c)
        BY <1>1, <3>21 DEF Consistent
      <4>7. PICK j : j = i
        OBVIOUS
      <4>9. j \in Inum /\ inode[j].type # "free" /\ Write(p, inode, Seen(j), e)
        <5>1. inode[i].type # "free"
          BY <1>5, <1>7, <4>1 DEF Knows, Uses
        <5> QED BY <1>7, <2>2, <3>1, <3>3, <4>7, <5>1
      <4>10. links[d] > 0
        <5>1. Firm(c, d) /\ inode[d].type = "dir"
          BY <1>3, <1>6, <4>1, FileConstants DEF Knows, Firm
        <5> QED BY <1>7, <4>1, <5>1 DEF Knows
      <4>11. inode[i].type = "dir" => links[i] > 0
        BY <1>2, <1>3, <1>5, <1>7, <4>1 DEF Knows, Firm, Place, Puts
      <4>2. Follows(call[p], e, None)
        BY <1>1, <1>2, <1>3, <1>5, <1>6, <1>7, <3>4, FileConstants
           DEF Follows, Owes, Pending, Place, Puts, Uses, New
      <4>3. SameHolds(call[p], e)
        BY <1>1, <1>2, <1>3, <1>5, <1>6, <1>7, <3>4, FileConstants
           DEF SameHolds, Holds, HoldIp, HoldDp, Place, Puts
      <4>4. Knows(inode, links, e)
        BY <4>1, <1>2, <1>3, <1>5, <1>6, <1>7, <3>4, <4>9, <4>10, <4>11, FileConstants
           DEF Knows, Uses, Firm, Pending, New, Place, Puts
      <4> QED BY <1>1, <3>21, <4>9, <1>2, <1>3, <1>5, <1>6, <1>7, <3>4, <4>2, <4>3, <4>4, SeenConsistent
    <3> QED BY <3>20, <3>21
  <2>3. CASE Write(p, SetLinks(SetEnt(inode, d, Head(c.path), None), d, inode[d].nlink - dn),
                   SetLock(SubLinks(Locked(p, i), d, dn), d, None), Iput(Only(i), d, "unlinked"))
    <3>2. PICK e : e = Iput(Only(i), d, "unlinked")
      OBVIOUS
    <3>3. e \in CallType /\ e.pc = "put" /\ e.put = d /\ e.ret = "unlinked" /\ e.op = "none" /\ e.path = <<>>
          /\ e.at = None /\ e.ip = i /\ e.dp = None /\ e.inum = None
      <4>1. "unlinked" \in Rets
        BY DEF Rets
      <4> QED BY <1>7, <3>2, <4>1, OnlyRecord, IputRecord
    <3>4. Shape(e) /\ Alive(e)
      BY <1>7, <3>3, FileConstants
         DEF Shape, Place, Puts, Rets, HasDp, HasIp, MayIp, Making, Onward, Alive
    <3>5. \A k \in Inum : Ptr(e, k) = Ptr(c, k)
      BY <1>3, <1>5, <1>6, <3>3, FileConstants DEF Ptr, Ind
    <3>6. dn \in Int
      BY <1>8
    <3>7. SetLinks(SetEnt(inode, d, Head(c.path), None), d, inode[d].nlink - dn) \in [Inum -> InodeType]
      <4>1. SetEnt(inode, d, Head(c.path), None) \in [Inum -> InodeType]
        BY <1>4, <1>7, SetEntInode
      <4>2. inode[d].nlink - dn \in Int
        BY <1>4, <1>7, <3>6 DEF InodeType
      <4> QED BY <1>7, <4>1, <4>2, SetLinksInode
    <3>8. PICK tab : tab = SetLock(SubLinks(Locked(p, i), d, dn), d, None)
      OBVIOUS
    <3>9. tab \in [Inum -> EntryType] /\ \A k \in Inum : tab[k].ref = itable[k].ref
      <4>1. PICK t1 : t1 = SubLinks(Locked(p, i), d, dn)
        OBVIOUS
      <4>2. t1 \in [Inum -> EntryType] /\ \A k \in Inum : t1[k].ref = itable[k].ref
        BY <1>4, <1>7, <3>6, <4>1, LockedTable, SubTable
      <4>3. None \in Owner
        BY DEF Owner
      <4>4. /\ SetLock(t1, d, None) \in [Inum -> EntryType]
            /\ \A k \in Inum : SetLock(t1, d, None)[k].ref = t1[k].ref
        BY <1>7, <4>2, <4>3, LockTable
      <4> QED BY <3>8, <4>1, <4>2, <4>4
    <3>20. Accounted'
      BY <1>1, <1>3, <2>3, <3>2, <3>3, <3>4, <3>5, <3>7, <3>8, <3>9, WriteAccounted
    <3>21. ASSUME Consistent, ~ RemoveInUse PROVE Consistent'
      <4>1. Knows(inode, links, c) /\ Disk(inode, links) /\ Cached(inode, itable)
        BY <1>1, <3>21 DEF Consistent
      <4>2. PICK n : n = Head(c.path)
        OBVIOUS
      <4>3. /\ n \in Name /\ n \in Names /\ inode[d].ents[n] = i /\ inode[i].type # "free"
            /\ inode[d].type = "dir"
        BY <1>2, <1>3, <1>5, <1>6, <1>7, <4>1, <4>2, FileConstants DEF Knows, Uses, Place, Puts
      <4>4. Live(inode, links, d) /\ links[d] > 0
        <5>1. Firm(c, d)
          BY <1>6 DEF Firm
        <5> QED BY <1>7, <4>1, <4>3, <5>1 DEF Knows, Live
      <4>5. links[i] > 0
        <5>1. n \in Names /\ inode[d].ents[n] # None
          BY <1>7, <4>3, FileConstants
        <5>2. links[inode[d].ents[n]] > 0
          BY <1>7, <3>21, <4>4, <5>1, EntryLinked
        <5> QED BY <4>3, <5>2
      <4>6. itable[i].lock = None /\ Wanted(p) = i
        <5>1. Wanted(p) = i
          BY <1>1, <1>2, <1>5 DEF Wanted
        <5>2. itable[Wanted(p)].lock = None
          BY DEF UnlinkEntry, Ilock
        <5> QED BY <5>1, <5>2
      <4>7. \A k \in Inum : itable[k].lock = p <=> k = d
        <5>1. \A k \in Inum : Holds(c, k) <=> k = d
          BY <1>2, <1>3, <1>6 DEF Holds, HoldIp, HoldDp, Place, Puts
        <5> QED BY <1>1, <3>21, <5>1, HeldBy
      <4>8. i # d
        BY <1>7, <4>6, <4>7, FileConstants
      <4>9. itable[d].valid /\ itable[d].ref > 0 /\ itable[i].ref > 0 /\ itable[d].type = inode[d].type
            /\ itable[d].nlink = inode[d].nlink
        <5>1. Has(call[p], d) /\ Has(call[p], i)
          BY <1>1, <1>5, <1>6 DEF Has
        <5>2. itable[d].ref > 0 /\ itable[i].ref > 0
          BY <1>7, <5>1, HasRef
        <5>3. itable[d].valid
          BY <1>7, <4>1, <4>7, FileConstants DEF Cached
        <5> QED BY <1>7, <4>1, <5>2, <5>3 DEF Cached
      <4>10. Loaded(i).type = inode[i].type /\ Loaded(i).nlink = inode[i].nlink
        BY <1>7, <3>21, <4>9, LoadedIs
      <4>11. inode[d].nlink \in Int /\ inode[i].nlink \in Int /\ dn \in Int
        BY <1>4, <1>7, <3>6 DEF InodeType
      <4>12. PICK fs : fs = SetLinks(SetEnt(inode, d, n, None), d, inode[d].nlink - dn)
        OBVIOUS
      <4>13. /\ fs \in Disks
             /\ fs[d].type = inode[d].type /\ fs[d].nlink = inode[d].nlink - dn /\ fs[d].ents[n] = None
             /\ \A m \in Names : m # n => fs[d].ents[m] = inode[d].ents[m]
             /\ \A k \in Inum : k # d => fs[k] = inode[k]
        <5>1. PICK f2 : f2 = SetEnt(inode, d, n, None)
          OBVIOUS
        <5>2. /\ f2 \in [Inum -> InodeType] /\ f2[d].nlink = inode[d].nlink /\ f2[d].type = inode[d].type
              /\ f2[d].ents[n] = None
              /\ \A m \in Names : m # n => f2[d].ents[m] = inode[d].ents[m]
              /\ \A k \in Inum : k # d => f2[k] = inode[k]
          <6>1. None \in Inum \cup {None}
            OBVIOUS
          <6>2. /\ SetEnt(inode, d, n, None) \in [Inum -> InodeType]
                /\ SetEnt(inode, d, n, None)[d].nlink = inode[d].nlink
                /\ SetEnt(inode, d, n, None)[d].type = inode[d].type
                /\ SetEnt(inode, d, n, None)[d].ents[n] = None
                /\ \A m \in Names : m # n => SetEnt(inode, d, n, None)[d].ents[m] = inode[d].ents[m]
                /\ \A k \in Inum : k # d => SetEnt(inode, d, n, None)[k] = inode[k]
            BY <1>4, <1>7, <4>3, <6>1, SetEntInode
          <6> QED BY <5>1, <6>2
        <5>3. PICK v : v = inode[d].nlink - dn
          OBVIOUS
        <5>4. v \in Int
          BY <4>11, <5>3
        <5>5. fs = SetLinks(f2, d, v)
          BY <4>12, <5>1, <5>3
        <5>6. /\ fs \in [Inum -> InodeType] /\ fs[d].nlink = v
              /\ fs[d].type = f2[d].type /\ fs[d].ents = f2[d].ents
              /\ \A k \in Inum : k # d => fs[k] = f2[k]
          BY <1>7, <5>2, <5>4, <5>5, SetLinksInode
        <5> QED BY <5>2, <5>3, <5>6 DEF Disks
      <4>14. /\ tab[i].valid /\ tab[i].type = inode[i].type /\ tab[i].nlink = inode[i].nlink /\ tab[i].lock = p
             /\ tab[d].valid /\ tab[d].type = inode[d].type /\ tab[d].nlink = inode[d].nlink - dn
             /\ tab[d].lock = None
             /\ \A k \in Inum : k \notin {i, d} => tab[k] = itable[k]
        <5>1. PICK t0 : t0 = Locked(p, i)
          OBVIOUS
        <5>2. /\ t0 \in [Inum -> EntryType] /\ t0[i].valid /\ t0[i].lock = p /\ t0[i].type = Loaded(i).type
              /\ t0[i].nlink = Loaded(i).nlink /\ \A k \in Inum : k # i => t0[k] = itable[k]
          BY <1>4, <1>7, <5>1, LockedTable
        <5>3. PICK t1 : t1 = SubLinks(t0, d, dn)
          OBVIOUS
        <5>4. /\ t1 \in [Inum -> EntryType] /\ t1[d].nlink = t0[d].nlink - dn /\ t1[d].valid = t0[d].valid
              /\ t1[d].type = t0[d].type /\ \A k \in Inum : k # d => t1[k] = t0[k]
          BY <1>7, <3>6, <5>2, <5>3, SubTable
        <5>5. None \in Owner /\ tab = SetLock(t1, d, None)
          BY <3>8, <5>1, <5>3 DEF Owner
        <5>6. /\ tab[d].valid = t1[d].valid /\ tab[d].type = t1[d].type
              /\ tab[d].nlink = t1[d].nlink /\ tab[d].lock = None /\ \A k \in Inum : k # d => tab[k] = t1[k]
          BY <1>7, <5>4, <5>5, LockTable
        <5>7. t0[d] = itable[d]
          BY <1>7, <4>8, <5>2
        <5>8. tab[i] = t0[i]
          BY <1>7, <4>8, <5>4, <5>6
        <5>9. tab[i].valid /\ tab[i].type = inode[i].type /\ tab[i].nlink = inode[i].nlink /\ tab[i].lock = p
          BY <4>10, <5>2, <5>8
        <5>10. /\ tab[d].valid /\ tab[d].type = inode[d].type /\ tab[d].nlink = inode[d].nlink - dn
               /\ tab[d].lock = None
          BY <4>9, <5>4, <5>6, <5>7
        <5>11. \A k \in Inum : k \notin {i, d} => tab[k] = itable[k]
          BY <5>2, <5>4, <5>6
        <5> QED BY <5>9, <5>10, <5>11
      <4>15. SameRefs(tab)
        BY <3>9 DEF SameRefs
      <4>16. Write(p, fs, tab, e)
        BY <2>3, <3>2, <3>8, <4>2, <4>12
      <4>17. inode' = fs /\ call' = [call EXCEPT ![p] = e]
        BY <4>16 DEF Write, Become
      <4>18. /\ inode \in Disks /\ links \in Counts /\ links' \in Counts
             /\ links'[i] = links[i] - 1 /\ links'[d] = links[d] - dn
             /\ \A k \in Inum : k \notin {i, d} => links'[k] = links[k]
        <5>1. \A k \in Inum : Owes(call[p], k) = 0 /\ Owes(e, k) = IF k = i THEN 1 ELSE 0
          BY <1>1, <1>2, <3>3 DEF Owes, Pending, Place, Puts
        <5>2. /\ inode \in Disks /\ links \in Counts /\ links' \in Counts
              /\ \A k \in Inum : /\ inode[k].nlink \in Int /\ inode'[k].nlink \in Int /\ links[k] \in Int
                                 /\ links'[k] = inode'[k].nlink - inode[k].nlink + links[k] + Owes(call[p], k) - Owes(e, k)
          BY <4>13, <4>17, LinksNew
        <5>3. links'[i] = links[i] - 1
          <6>1. fs[i].nlink = inode[i].nlink /\ Owes(call[p], i) = 0 /\ Owes(e, i) = 1
            BY <1>7, <4>8, <4>13, <5>1
          <6>2. /\ links[i] \in Int
                /\ links'[i] = fs[i].nlink - inode[i].nlink + links[i] + Owes(call[p], i) - Owes(e, i)
            BY <1>7, <4>17, <5>2
          <6> QED BY ONLY <4>11, <6>1, <6>2
        <5>4. links'[d] = links[d] - dn
          <6>1. fs[d].nlink = inode[d].nlink - dn /\ Owes(call[p], d) = 0 /\ Owes(e, d) = 0
            BY <1>7, <4>8, <4>13, <5>1
          <6>2. /\ links[d] \in Int
                /\ links'[d] = fs[d].nlink - inode[d].nlink + links[d] + Owes(call[p], d) - Owes(e, d)
            BY <1>7, <4>17, <5>2
          <6> QED BY ONLY <4>11, <6>1, <6>2
        <5>5. \A k \in Inum : k \notin {i, d} => links'[k] = links[k]
          <6>1. SUFFICES ASSUME NEW k \in Inum, k \notin {i, d} PROVE links'[k] = links[k]
            OBVIOUS
          <6>2. fs[k].nlink = inode[k].nlink /\ Owes(call[p], k) = 0 /\ Owes(e, k) = 0 /\ inode[k].nlink \in Int
            BY <4>13, <5>1, <5>2, <6>1
          <6>3. /\ links[k] \in Int
                /\ links'[k] = fs[k].nlink - inode[k].nlink + links[k] + Owes(call[p], k) - Owes(e, k)
            BY <4>17, <5>2
          <6> QED BY ONLY <6>2, <6>3
        <5> QED BY <5>2, <5>3, <5>4, <5>5
      <4>19. \A k \in Inum : fs[k].type = inode[k].type
        BY <4>13
      <4>20. Blank(fs)
        BY <4>1, <4>3, <4>13 DEF Blank, Disk
      <4>21. /\ Disk(fs, links') /\ links'[d] > 0
             /\ inode[i].type = "dir" => itable[i].ref = 1
        <5>1. CASE inode[i].type = "dir"
          <6>1. dn = 1
            BY <1>8, <4>10, <5>1
          <6>2. \A m \in Name : inode[i].ents[m] = None
            <7>1. Fault(p) = "no" /\ Loaded(c.ip).type = "dir" /\ e.ret # "unlockput_dp"
              BY <1>5, <1>10, <3>3, <4>10, <5>1
            <7>2. Isdirempty(c.ip)
              <8>1. ~ Isdirempty(c.ip) => Write(p, inode, Seen(c.ip), Iput([Idle EXCEPT !.dp = c.dp], c.ip, "unlockput_dp"))
                BY <1>1, <7>1 DEF UnlinkEntry, Ilock, Step
              <8>2. Write(p, inode, Seen(c.ip), Iput([Idle EXCEPT !.dp = c.dp], c.ip, "unlockput_dp")) => inode' = inode
                BY DEF Write
              <8>3. inode' # inode
                <9>1. inode[d].ents[n] # fs[d].ents[n]
                  BY <1>7, <4>3, <4>13, FileConstants
                <9> QED BY <4>17, <9>1
              <8> QED BY <8>1, <8>2, <8>3
            <7> QED BY <1>5, <7>2 DEF Isdirempty, Dirlookup
          <6>3. itable[i].ref = 1
            <7>1. Fault(p) = "no" /\ Loaded(c.ip).type = "dir" /\ Isdirempty(c.ip)
              BY <1>5, <1>10, <4>10, <5>1, <6>2 DEF Isdirempty, Dirlookup
            <7> QED BY <1>1, <1>5, <3>21, <7>1 DEF UnlinkEntry, Ilock
          <6>4. Live(inode, links, i)
            BY <4>5, <5>1 DEF Live
          <6>5. links'[i] = links[i] - 1 /\ links'[d] = links[d] - 1
            BY <4>18, <6>1
          <6>6. links[d] > 1 /\ links[d] \in Int
            <7>1. links[d] > 1
              BY <1>7, <4>1, <4>3, <4>4, <4>18, <6>2, <6>4, EmptyDir
            <7> QED BY <1>7, <4>18, <7>1 DEF Counts
          <6>7. links'[d] > 0
            BY ONLY <6>5, <6>6
          <6>8. \A k \in Inum : k # d => (fs[k].type = "dir" <=> inode[k].type = "dir") /\ fs[k].ents = inode[k].ents
            BY <4>13
          <6>9. fs[d].type = "dir"
            BY <4>3, <4>13
          <6>10. Disk(fs, links')
            BY <1>7, <4>1, <4>3, <4>4, <4>13, <4>18, <4>20, <6>2, <6>4, <6>5, <6>8, <6>9, DiskRmdir
          <6> QED BY <6>3, <6>7, <6>10
        <5>2. CASE inode[i].type # "dir"
          <6>1. dn = 0
            BY <1>8, <4>10, <5>2
          <6>2. links'[d] = links[d]
            <7>1. links[d] \in Int /\ links'[d] = links[d] - dn
              BY <1>7, <4>18 DEF Counts
            <7> QED BY ONLY <6>1, <7>1
          <6>3. \A k \in Inum : links'[k] = links[k] + Ind(k = None) - Ind(k = i)
            <7>1. SUFFICES ASSUME NEW k \in Inum PROVE links'[k] = links[k] + Ind(k = None) - Ind(k = i)
              OBVIOUS
            <7>2. links[k] \in Int /\ Ind(k = None) = 0 /\ Ind(k = i) = IF k = i THEN 1 ELSE 0
              BY <4>18, FileConstants DEF Counts, Ind
            <7>3. links'[k] = IF k = i THEN links[k] - 1 ELSE links[k]
              BY <4>18, <6>2
            <7> QED BY ONLY <7>2, <7>3
          <6>4. \A k \in Inum : k # d => (fs[k].type = "dir" <=> inode[k].type = "dir") /\ fs[k].ents = inode[k].ents
            BY <4>13
          <6>5. \A k \in {i, None} \ {None} : inode[k].type # "dir"
            BY <5>2
          <6>6. fs[d].type = "dir" /\ None \in Inum \cup {None} /\ i \in Inum \cup {None}
            BY <1>7, <4>3, <4>13
          <6>7. Disk(fs, links')
            BY <1>7, <4>1, <4>3, <4>4, <4>13, <4>18, <4>20, <6>3, <6>4, <6>5, <6>6, DiskEntry
          <6> QED BY <4>4, <5>2, <6>2, <6>7
        <5> QED BY <5>1, <5>2
      <4>22. Cached(fs, tab)
        BY <3>9, <4>1, <4>3, <4>13, <4>14 DEF Cached
      <4>23. LockTo(tab, p, e)
        <5>1. \A k \in Inum : Holds(e, k) <=> k = i
          BY <1>7, <3>3, FileConstants DEF Holds, HoldIp, HoldDp, Place, Puts
        <5> QED BY <4>6, <4>7, <4>8, <4>14, <5>1, FileConstants DEF LockTo
      <4>24. Knows(fs, links', e)
        <5>1. \A k \in Inum : Uses(e, k) => k \in {i, d}
          BY <3>3, FileConstants DEF Uses
        <5>2. \A k \in Inum : ~ Firm(e, k)
          BY <3>3, FileConstants DEF Firm, Place, Puts
        <5>3. Place(e) = "unlinked" /\ New(e) = None /\ e.dp = None
          BY <3>3 DEF Place, Puts, New
        <5> QED BY <4>3, <4>19, <5>1, <5>2, <5>3 DEF Knows
      <4>25. New(e) = None /\ New(call[p]) = None
        BY <1>1, <1>2, <3>3 DEF New
      <4>26. Fresh(call', ftable, p)
        <5>1. call'[p] = e
          BY <4>17 DEF Accounted, TypeOK
        <5> QED BY <4>25, <5>1 DEF Fresh
      <4>27. Changes(p, fs)
        <5>1. Uses(call[p], d) /\ Has(call[p], i)
          BY <1>1, <1>5, <1>6 DEF Uses, Has
        <5>2. \A k \in Inum : Live(inode, links, k) => links'[k] > 0 \/ (Has(call[p], k) /\ itable[k].ref = 1)
          <6>1. SUFFICES ASSUME NEW k \in Inum, Live(inode, links, k)
                         PROVE  links'[k] > 0 \/ (Has(call[p], k) /\ itable[k].ref = 1)
            OBVIOUS
          <6> QED BY <4>18, <4>21, <5>1, <6>1 DEF Live
        <5>3. itable[d].lock = p
          BY <1>7, <4>7
        <5> QED BY <4>13, <4>19, <5>1, <5>2, <5>3 DEF Changes
      <4>28. Onwards(p, e)
        <5>1. \A k \in Inum : Uses(e, k) => Uses(call[p], k)
          BY <1>1, <1>5, <1>6, <3>3, FileConstants DEF Uses
        <5> QED BY <3>3, <5>1 DEF Onwards
      <4>29. Unlinks(p, fs, tab, e)
        BY <3>9, <4>9, <4>13, <4>14, <4>25, FileConstants DEF Unlinks
      <4> QED BY <3>9, <3>21, <4>15, <4>16, <4>21, <4>22, <4>23, <4>24, <4>26, <4>27, <4>28, <4>29,
                 WriteConsistent
    <3> QED BY <3>20, <3>21
  <2> QED BY <2>1, <2>2, <2>3
<1> QED BY <1>9, <1>10

\* The count in unlink() keeps both invariants.
LEMMA UnlinkedKeeps ==
    ASSUME Accounted, NEW p \in Proc, Unlinked(p)
    PROVE  Accounted' /\ (Consistent => Consistent')
<1>1. PICK c : c = call[p]
  OBVIOUS
<1>2. c \in CallType /\ Shape(c) /\ c.pc = "unlinked"
  BY <1>1, CallOf DEF Unlinked, Ilock, At
<1>3. /\ c.ip \in Inum /\ c.inum = None /\ c.at = None /\ c.dp = None /\ c.put = None /\ Alive(c)
  BY <1>2, CallFields, FileConstants DEF Shape, Place, Puts, Rets, HasDp, HasIp, MayIp, Making, Onward, Alive
<1>4. inode \in [Inum -> InodeType] /\ itable \in [Inum -> EntryType] /\ TypeOK
  BY DEF Accounted, TypeOK
<1>5. PICK i : i = c.ip
  OBVIOUS
<1>6. Write(p, Down(inode, i), SetLock(Down(itable, i), i, None), Last(i))
  BY <1>1, <1>5 DEF Unlinked, SetLock
<1>7. /\ Down(inode, i) \in [Inum -> InodeType] /\ Down(itable, i) \in [Inum -> EntryType]
      /\ \A k \in Inum : Down(itable, i)[k].ref = itable[k].ref
  BY <1>3, <1>4, <1>5, DownIs, SubInode, DownTable
<1>8. None \in Owner
  BY DEF Owner
<1>9. PICK tab : tab = SetLock(Down(itable, i), i, None)
  OBVIOUS
<1>10. tab \in [Inum -> EntryType] /\ \A k \in Inum : tab[k].ref = itable[k].ref
  BY <1>3, <1>5, <1>7, <1>8, <1>9, LockTable
<1>11. Last(i) \in CallType /\ Shape(Last(i)) /\ Alive(Last(i))
  BY <1>3, <1>5, LastRecord, ShapeLast
<1>12. \A k \in Inum : Ptr(Last(i), k) = Ptr(c, k)
  BY <1>3, <1>5, PtrLast, FileConstants DEF Ptr, Ind
<1>20. Accounted'
  BY <1>1, <1>3, <1>6, <1>7, <1>9, <1>10, <1>11, <1>12, WriteAccounted
<1>21. ASSUME Consistent PROVE Consistent'
  <2>1. i \in Inum /\ call[p] = c /\ Has(call[p], i) /\ Uses(call[p], i)
    BY <1>1, <1>2, <1>3, <1>5 DEF Has, Uses, Place, Puts
  <2>2. Knows(inode, links, c) /\ Cached(inode, itable)
    BY <1>1, <1>21 DEF Consistent
  <2>3. \A k \in Inum : itable[k].lock = p <=> k = i
    <3>1. \A k \in Inum : Holds(c, k) <=> k = i
      BY <1>2, <1>3, <1>5 DEF Holds, HoldIp, HoldDp, Place, Puts
    <3> QED BY <1>1, <1>21, <3>1, HeldBy
  <2>4. /\ itable[i].valid /\ itable[i].type = inode[i].type /\ itable[i].nlink = inode[i].nlink
        /\ inode[i].type # "free"
    <3>1. itable[i].ref > 0
      BY <2>1, HasRef
    <3>2. itable[i].valid
      BY <2>1, <2>2, <2>3, FileConstants DEF Cached
    <3> QED BY <2>1, <2>2, <3>1, <3>2 DEF Cached
  <2>5. PICK e : e = Last(i)
    OBVIOUS
  <2>6. e \in CallType /\ e.pc = "put" /\ e.put = i /\ e.ret = "end" /\ e.op = "none" /\ e.path = <<>>
        /\ e.at = None /\ e.ip = None /\ e.dp = None /\ e.inum = None
    BY <2>1, <2>5, LastRecord
  <2>7. PICK k : k = -1
    OBVIOUS
  <2>8. PICK fs : fs = SubLinks(inode, i, 1)
    OBVIOUS
  <2>9. PICK s : s = Down(itable, i)
    OBVIOUS
  <2>11. Write(p, fs, tab, e) /\ k \in Int /\ 1 \in Int
    BY <1>6, <1>9, <2>5, <2>7, <2>8, DownIs
  <2>12. inode[i].nlink \in Int
    BY <1>4, <2>1 DEF InodeType
  <2>13. Recount(fs, i, k)
    <3>1. /\ SubLinks(inode, i, 1) \in [Inum -> InodeType]
          /\ SubLinks(inode, i, 1)[i].nlink = inode[i].nlink - 1
          /\ SubLinks(inode, i, 1)[i].type = inode[i].type /\ SubLinks(inode, i, 1)[i].ents = inode[i].ents
          /\ \A j \in Inum : j # i => SubLinks(inode, i, 1)[j] = inode[j]
      BY <1>4, <2>1, <2>11, SubInode
    <3>2. fs[i].nlink = inode[i].nlink + k
      BY <2>7, <2>8, <2>12, <3>1
    <3> QED BY <2>8, <3>1, <3>2 DEF Recount, Disks
  <2>14. /\ s \in [Inum -> EntryType] /\ s[i].nlink = itable[i].nlink - 1
         /\ s[i].valid = itable[i].valid /\ s[i].type = itable[i].type
         /\ (\A j \in Inum : j # i => s[j] = itable[j])
    BY <1>4, <2>1, <2>9, DownTable
  <2>15. tab = SetLock(s, i, None)
    BY <1>9, <2>9
  <2>16. /\ tab[i].nlink = s[i].nlink /\ tab[i].valid = s[i].valid /\ tab[i].type = s[i].type
         /\ tab[i].lock = None
         /\ (\A j \in Inum : j # i => tab[j] = s[j])
    BY <1>8, <2>1, <2>14, <2>15, LockTable
  <2>17. RecountTable(tab, i, k)
    <3>1. tab[i].nlink = inode[i].nlink + k
      BY <2>4, <2>7, <2>12, <2>14, <2>16
    <3> QED BY <2>4, <2>14, <2>16, <3>1 DEF RecountTable
  <2>18. SameRefs(tab)
    BY <1>10 DEF SameRefs
  <2>19. LockTo(tab, p, e)
    <3>1. \A j \in Inum : ~ Holds(e, j)
      BY <2>6, FileConstants DEF Holds, HoldIp, HoldDp, Place, Puts
    <3> QED BY <2>3, <2>14, <2>16, <3>1, FileConstants DEF LockTo
  <2>20. Owed(call[p], e, i, k)
    BY <1>1, <1>2, <1>3, <1>5, <2>6, <2>7 DEF Owed, Owes, Pending, Place, Puts
  <2>21. \A j \in Inum : Uses(e, j) => Uses(call[p], j)
    BY <2>1, <2>6, FileConstants DEF Uses
  <2>22. New(e) = None /\ New(call[p]) = None /\ e.pc # "trunc" /\ e.dp = None
    BY <1>1, <1>2, <2>6 DEF New
  <2>23. (Pending(e) => e.ip \in Inum) /\ Place(e) \notin {"ialloc", "iget", "fill", "unlink_ip"}
    BY <2>6 DEF Pending, Place, Puts
  <2>24. Knows(inode, links, e)
    BY <2>4, <2>6, FileConstants DEF Knows, Uses, Firm, Pending, New, Place, Puts
  <2> QED BY <1>10, <1>21, <2>1, <2>11, <2>13, <2>17, <2>18, <2>19, <2>20, <2>21, <2>22, <2>23, <2>24,
             CountConsistent
<1> QED BY <1>20, <1>21

\* The descriptors of a file, one of them, and the open files of an inode.
Descs(of, f)  == {pd \in Proc \X Fd : of[pd[1]][pd[2]] = f}
Hit(of, p, d, f) == IF of[p][d] = f THEN 1 ELSE 0
OpenOn(ft, i) == {g \in File : ft[g].ref > 0 /\ ft[g].ip = i}

\* The counts when p changes its call and ftable changes at f only.
LEMMA OpenCount ==
    ASSUME NEW f \in File, NEW i,
           \A g \in File \ {f} : ftable'[g] = ftable[g]
    PROVE  Cardinality(OpenOn(ftable', i))
             = Cardinality(OpenOn(ftable, i))
               + Ind(ftable'[f].ref > 0 /\ ftable'[f].ip = i) - Ind(ftable[f].ref > 0 /\ ftable[f].ip = i)
<1>1. PICK A : A = OpenOn(ftable, i)
  OBVIOUS
<1>2. PICK B : B = OpenOn(ftable', i)
  OBVIOUS
<1>3. IsFiniteSet(A)
  BY <1>1, Pointed DEF OpenOn
<1>4. A \ {f} = B \ {f}
  BY <1>1, <1>2 DEF OpenOn
<1>5. Cardinality(B) = Cardinality(A) + Ind(f \in B) - Ind(f \in A)
  BY <1>3, <1>4, CardShift
<1>6. (f \in B <=> ftable'[f].ref > 0 /\ ftable'[f].ip = i) /\ (f \in A <=> ftable[f].ref > 0 /\ ftable[f].ip = i)
  BY <1>1, <1>2 DEF OpenOn
<1>7. /\ Ind(f \in B) = Ind(ftable'[f].ref > 0 /\ ftable'[f].ip = i)
      /\ Ind(f \in A) = Ind(ftable[f].ref > 0 /\ ftable[f].ip = i)
  BY <1>6 DEF Ind
<1> QED BY <1>1, <1>2, <1>5, <1>7

\* The counts when ofile changes at one descriptor only.
LEMMA DescCount ==
    ASSUME NEW of, NEW of2, NEW p \in Proc, NEW d \in Fd, NEW f,
           \A q \in Proc, e \in Fd : q # p \/ e # d => of2[q][e] = of[q][e],
           IsFiniteSet(Descs(of, f))
    PROVE  Cardinality(Descs(of2, f)) = Cardinality(Descs(of, f)) + Hit(of2, p, d, f) - Hit(of, p, d, f)
<1>1. PICK A : A = Descs(of, f)
  OBVIOUS
<1>2. PICK B : B = Descs(of2, f)
  OBVIOUS
<1>3. IsFiniteSet(A)
  BY <1>1
<1>4. A \ {<<p, d>>} = B \ {<<p, d>>}
  <2>2. ASSUME NEW x PROVE x \in A \ {<<p, d>>} <=> x \in B \ {<<p, d>>}
    <3>1. CASE x \in Proc \X Fd
      <4>1. PICK q \in Proc, e \in Fd : x = <<q, e>>
        BY <3>1
      <4> QED BY <1>1, <1>2, <4>1 DEF Descs
    <3> QED BY <1>1, <1>2, <3>1 DEF Descs
  <2> QED BY <2>2
<1>5. Cardinality(B) = Cardinality(A) + Ind(<<p, d>> \in B) - Ind(<<p, d>> \in A)
  BY <1>3, <1>4, CardShift
<1>6. (<<p, d>> \in B <=> of2[p][d] = f) /\ (<<p, d>> \in A <=> of[p][d] = f)
  BY <1>1, <1>2 DEF Descs
<1>7. Ind(<<p, d>> \in B) = Hit(of2, p, d, f) /\ Ind(<<p, d>> \in A) = Hit(of, p, d, f)
  BY <1>6 DEF Ind, Hit
<1> QED BY <1>1, <1>2, <1>5, <1>7

\* A descriptor refers to an open file.
LEMMA OpenRef ==
    ASSUME Accounted, NEW p \in Proc, NEW d \in Fd, ofile[p][d] # None
    PROVE  /\ ofile[p][d] \in File /\ ftable[ofile[p][d]].ref \in Nat \ {0}
           /\ ftable[ofile[p][d]].ip \in Inum
<1>1. PICK f : f = ofile[p][d]
  OBVIOUS
<1>2. f \in File
  BY <1>1 DEF Accounted, TypeOK
<1>3. ftable[f].ref = Cardinality({pd \in Proc \X Fd : ofile[pd[1]][pd[2]] = f})
  BY <1>2 DEF Accounted, RefsExact, FileRefs
<1>4. <<p, d>> \in {pd \in Proc \X Fd : ofile[pd[1]][pd[2]] = f}
  BY <1>1
<1>5. Cardinality({pd \in Proc \X Fd : ofile[pd[1]][pd[2]] = f}) # 0
  BY <1>4, Pointed, FS_EmptySet
<1>6. ftable[f].ref \in Nat
  BY <1>2 DEF Accounted, TypeOK, FileType
<1>7. ftable[f].ref # 0
  BY ONLY <1>3, <1>5
<1> QED BY <1>1, <1>2, <1>6, <1>7 DEF Accounted, FileShape

\* filealloc() and fdalloc() in open() keeps both invariants.
LEMMA OpenFileKeeps ==
    ASSUME Accounted, NEW p \in Proc, OpenFile(p)
    PROVE  Accounted' /\ (Consistent => Consistent')
<1>1. PICK c : c = call[p]
  OBVIOUS
<1>2. c \in CallType /\ Shape(c) /\ c.pc = "file"
  BY <1>1, CallOf DEF OpenFile, At
<1>3. c.ip \in Inum /\ c.at = None /\ c.dp = None /\ c.put = None /\ Alive(c)
  BY <1>2, CallFields, FileConstants DEF Shape, Place, Puts, Rets, HasDp, HasIp, MayIp, Making, Onward, Alive
<1>4. inode \in [Inum -> InodeType] /\ itable \in [Inum -> EntryType] /\ TypeOK
  BY DEF Accounted, TypeOK
<1>5. CASE Filealloc = {} \/ Fdalloc(p) = {}
  <2>1. {f \in Filealloc : ftable[f].type = "FD_INODE"} = {}
    BY DEF Filealloc, Accounted, FileShape
  <2>2. PICK e : e = [c EXCEPT !.pc = "unlockput_ip"]
    OBVIOUS
  <2>3. "unlockput_ip" \in (Places \ {"put_ip"}) \cup Puts
    BY DEF Places, Rets
  <2>4. e \in CallType /\ e.pc = "unlockput_ip" /\ e.op = c.op /\ e.path = c.path /\ e.new = c.new
        /\ e.at = c.at /\ e.ip = c.ip /\ e.dp = c.dp /\ e.inum = c.inum /\ e.put = c.put
    BY <1>2, <2>2, <2>3 DEF CallType
  <2>5. Shape(e) /\ Alive(e)
    BY <1>2, <1>3, <2>4, FileConstants
       DEF Shape, Place, Puts, Rets, HasDp, HasIp, MayIp, Making, Onward, Alive
  <2>6. \A k \in Inum : Ptr(e, k) = Ptr(c, k)
    BY <2>4 DEF Ptr
  <2>7. Write(p, inode, itable, e)
    BY <1>1, <1>5, <2>1, <2>2 DEF OpenFile, Step
  <2>20. Accounted'
    BY <1>1, <1>3, <1>4, <2>4, <2>5, <2>6, <2>7, WriteAccounted
  <2>21. ASSUME Consistent PROVE Consistent'
    <3>1. Knows(inode, links, c)
      BY <1>1, <2>21 DEF Consistent
    <3>2. Follows(call[p], e, None)
      BY <1>1, <1>2, <1>3, <2>4, FileConstants DEF Follows, Owes, Pending, Place, Puts, Uses, New
    <3>3. SameHolds(call[p], e)
      BY <1>1, <1>2, <1>3, <2>4, FileConstants DEF SameHolds, Holds, HoldIp, HoldDp, Place, Puts
    <3>4. Knows(inode, links, e)
      BY <3>1, <1>2, <1>3, <2>4, FileConstants DEF Knows, Uses, Firm, Pending, New, Place, Puts
    <3> QED BY <1>1, <2>21, <2>7, <1>2, <1>3, <2>4, <3>2, <3>3, <3>4, SameConsistent
  <2> QED BY <2>20, <2>21
<1>6. CASE ~ (Filealloc = {} \/ Fdalloc(p) = {})
  <2>1. PICK f \in Filealloc, d \in Fdalloc(p) :
            /\ ftable' = [ftable EXCEPT ![f] = [ref |-> 1, type |-> "FD_INODE", ip |-> c.ip]]
            /\ ofile' = [ofile EXCEPT ![p][d] = f]
            /\ itable' = [itable EXCEPT ![c.ip].lock = None]
            /\ Become(p, [Idle EXCEPT !.pc = "end"])
            /\ UNCHANGED <<inode, cwd, orphans, missed, panicked>>
    BY <1>1, <1>6 DEF OpenFile
  <2>2. f \in File /\ ftable[f].ref = 0 /\ d \in Fd /\ ofile[p][d] = None
    BY DEF Filealloc, Fdalloc
  <2>3. PICK e : e = [Idle EXCEPT !.pc = "end"]
    OBVIOUS
  <2>4. /\ e \in CallType /\ e.pc = "end" /\ e.op = "none" /\ e.path = <<>> /\ e.at = None /\ e.ip = None
        /\ e.dp = None
        /\ e.inum = None /\ e.put = None
    <3>1. PICK e0 : e0 = Idle
      OBVIOUS
    <3>2. e0 \in CallType /\ e0.op = "none" /\ e0.path = <<>> /\ e0.at = None /\ e0.ip = None /\ e0.dp = None
          /\ e0.inum = None /\ e0.put = None
      BY <3>1, IdleRecord
    <3>3. e = [e0 EXCEPT !.pc = "end"]
      BY <2>3, <3>1
    <3>4. "end" \in (Places \ {"put_ip"}) \cup Puts
      BY DEF Places, Rets
    <3> QED BY <3>2, <3>3, <3>4 DEF CallType
  <2>5. Shape(e) /\ Alive(e)
    BY <2>4, FileConstants
       DEF Shape, Place, Puts, Rets, HasDp, HasIp, MayIp, Making, Onward, Alive
  <2>6. itable' = SetLock(itable, c.ip, None) /\ call' = [call EXCEPT ![p] = e]
    BY <2>1, <2>3 DEF SetLock, Become
  <2>7. itable' \in [Inum -> EntryType] /\ \A k \in Inum : itable'[k].ref = itable[k].ref
    <3>1. None \in Owner
      BY DEF Owner
    <3> QED BY <1>3, <1>4, <2>6, <3>1, LockTable
  <2>8. PICK g : g = [ref |-> 1, type |-> "FD_INODE", ip |-> c.ip]
    OBVIOUS
  <2>9. g \in FileType /\ g.ref = 1 /\ g.ip = c.ip
    BY <1>3, <2>8 DEF FileType
  <2>10. ftable' = [ftable EXCEPT ![f] = g]
    BY <2>1, <2>8
  <2>11. TypeOK'
    BY <1>4, <2>1, <2>2, <2>4, <2>6, <2>7, <2>9, <2>10 DEF TypeOK
  <2>12. \A q \in Proc : Shape(call'[q]) /\ CwdShape(q)'
    <3>1. cwd[p] # None
      BY <1>1, <1>3 DEF Accounted, CwdShape, Alive
    <3> QED BY <1>1, <1>3, <2>1, <2>5, <2>6, <3>1 DEF Accounted, TypeOK, CwdShape, Alive
  <2>13. \A h \in File : FileShape(h)'
    BY <1>3, <2>2, <2>9, <2>10 DEF Accounted, TypeOK, FileShape
  <2>14. FileRefs'
    <3>1. SUFFICES ASSUME NEW h \in File
                   PROVE  ftable'[h].ref = Cardinality(Descs(ofile', h))
      BY DEF FileRefs, Descs
    <3>2. ftable[h].ref = Cardinality(Descs(ofile, h))
      BY DEF Accounted, RefsExact, FileRefs, Descs
    <3>3. Cardinality(Descs(ofile', h)) = Cardinality(Descs(ofile, h)) + Ind(f = h) - Ind(ofile[p][d] = h)
      <4>1. ofile' = [ofile EXCEPT ![p][d] = f]
        BY <2>1
      <4>2. /\ ofile'[p][d] = f
            /\ \A q \in Proc, b \in Fd : q # p \/ b # d => ofile'[q][b] = ofile[q][b]
        BY <1>4, <2>2, <4>1 DEF TypeOK
      <4>3. IsFiniteSet(Descs(ofile, h))
        BY Pointed DEF Descs
      <4>4. Cardinality(Descs(ofile', h))
              = Cardinality(Descs(ofile, h)) + Hit(ofile', p, d, h) - Hit(ofile, p, d, h)
        BY <2>2, <4>2, <4>3, DescCount
      <4> QED BY <4>2, <4>4 DEF Hit, Ind
    <3>4. Ind(ofile[p][d] = h) = 0
      BY <2>2, FileConstants DEF Ind
    <3>5. ftable'[h].ref = ftable[h].ref + Ind(f = h)
      BY <1>4, <2>2, <2>9, <2>10 DEF Ind, TypeOK, FileType
    <3>6. Ind(f = h) \in Int /\ ftable[h].ref \in Nat
      BY <1>4 DEF Ind, TypeOK, FileType
    <3> QED BY ONLY <3>2, <3>3, <3>4, <3>5, <3>6
  <2>15. InodeRefs'
    <3>1. SUFFICES ASSUME NEW i \in Inum
                   PROVE  itable'[i].ref = Cardinality({q \in Proc : cwd'[q] = i})
                          + Cardinality(OpenOn(ftable', i))
                          + Cardinality(Pointers(call', i))
      BY DEF InodeRefs, Pointers, Fields, OpenOn
    <3>2. Cardinality(Pointers(call', i)) = Cardinality(Pointers(call, i)) + Ptr(e, i) - Ptr(call[p], i)
      BY <1>4, <2>4, <2>6, PtrChange DEF TypeOK
    <3>3. Ptr(e, i) = 0 /\ Ptr(call[p], i) = Ind(i = c.ip)
      BY <1>1, <1>3, <2>4, FileConstants DEF Ptr, Ind
    <3>4. itable[i].ref = Cardinality({q \in Proc : cwd[q] = i})
                          + Cardinality(OpenOn(ftable, i))
                          + Cardinality(Pointers(call, i))
      BY RefsIs DEF Accounted, RefsExact, OpenOn
    <3>5. /\ Cardinality({q \in Proc : cwd[q] = i}) \in Nat
          /\ Cardinality(OpenOn(ftable, i)) \in Nat
          /\ Cardinality(Pointers(call, i)) \in Nat
      BY Pointed DEF OpenOn
    <3>6. Cardinality({q \in Proc : cwd'[q] = i}) = Cardinality({q \in Proc : cwd[q] = i})
      BY <2>1, Zenon
    <3>7. Cardinality(OpenOn(ftable', i))
            = Cardinality(OpenOn(ftable, i)) + Ind(i = c.ip)
      <4>1. \A h \in File \ {f} : ftable'[h] = ftable[h]
        BY <1>4, <2>10 DEF TypeOK
      <4>2. Ind(ftable'[f].ref > 0 /\ ftable'[f].ip = i) = Ind(i = c.ip)
        BY <1>4, <2>2, <2>9, <2>10 DEF Ind, TypeOK
      <4>3. Ind(ftable[f].ref > 0 /\ ftable[f].ip = i) = 0
        BY <2>2 DEF Ind
      <4>4. Cardinality(OpenOn(ftable', i))
             = Cardinality(OpenOn(ftable, i))
               + Ind(ftable'[f].ref > 0 /\ ftable'[f].ip = i) - Ind(ftable[f].ref > 0 /\ ftable[f].ip = i)
        BY <2>2, <4>1, OpenCount
      <4>5. Ind(i = c.ip) \in Int
        BY DEF Ind
      <4> QED BY ONLY <3>5, <4>2, <4>3, <4>4, <4>5
    <3>8. itable'[i].ref = itable[i].ref /\ Ind(i = c.ip) \in Int
      BY <2>7 DEF Ind
    <3> QED BY ONLY <3>2, <3>3, <3>4, <3>5, <3>6, <3>7, <3>8
  <2>20. Accounted'
    BY <2>11, <2>12, <2>13, <2>14, <2>15 DEF Accounted, RefsExact
  <2>21. ASSUME Consistent PROVE Consistent'
    <3>1. PICK i : i = c.ip
      OBVIOUS
    <3>2. i \in Inum /\ call[p].ip = i /\ call[p].inum = None /\ Knows(inode, links, c) /\ Cached(inode, itable)
      <4>1. c.inum = None
        BY <1>2 DEF Shape
      <4> QED BY <1>1, <1>3, <2>21, <3>1, <4>1 DEF Consistent
    <3>3. inode[i].type # "free" /\ Uses(call[p], i)
      BY <1>1, <3>1, <3>2 DEF Knows, Uses
    <3>4. \A k \in Inum : Holds(c, k) <=> k = i
      BY <1>2, <1>3, <3>1 DEF Holds, HoldIp, HoldDp, Place, Puts
    <3>5. \A k \in Inum : ~ Holds(e, k)
      BY <2>4, FileConstants DEF Holds, HoldIp, HoldDp, Place, Puts
    <3>6. /\ TabKeeps(itable') /\ Cached(inode, itable') /\ itable'[i].lock = None
          /\ \A k \in Inum : k # i => itable'[k].lock = itable[k].lock
      BY <2>6, <2>21, <3>1, <3>2, SetLockKeeps DEF Owner
    <3>7. LockTo(itable', p, e)
      <4>1. \A k \in Inum : itable[k].lock = p <=> k = i
        BY <1>1, <2>21, <3>4, HeldBy
      <4> QED BY <3>5, <3>6, <4>1, FileConstants DEF LockTo
    <3>8. TabHolds(itable') /\ CwdLinked(cwd')
      BY <2>1, <3>6 DEF TabHolds, TabKeeps, CwdLinked
    <3>9. FilesLinked(p, ftable')
      BY <1>4, <2>2, <2>9, <2>10, <3>1, <3>3 DEF FilesLinked, TypeOK
    <3>10. Gains(p, e) /\ Knows(inode, links, e)
      BY <2>4, FileConstants DEF Gains, Knows, Uses, Firm, Pending, New, Place, Puts
    <3>11. /\ \A k \in Inum : Owes(e, k) = Owes(call[p], k)
           /\ New(e) = None /\ New(call[p]) = None /\ e.pc # "trunc"
      BY <1>1, <1>2, <2>4 DEF Owes, Pending, New, Place, Puts
    <3> QED BY <2>1, <2>6, <2>21, <3>2, <3>6, <3>7, <3>8, <3>9, <3>10, <3>11, FilesConsistent
  <2> QED BY <2>20, <2>21
<1> QED BY <1>5, <1>6

\* begin_op() in fileclose() keeps both invariants.
LEMMA CloseOpKeeps ==
    ASSUME Accounted, NEW p \in Proc, CloseOp(p)
    PROVE  Accounted' /\ (Consistent => Consistent')
<1>1. PICK c : c = call[p]
  OBVIOUS
<1>2. c \in CallType /\ Shape(c) /\ c.pc = "closing"
  BY <1>1, CallOf DEF CloseOp, At
<1>3. /\ c.put \in Inum /\ c.at = None /\ c.ip = None /\ c.dp = None /\ c.inum = None /\ Alive(c)
      /\ c.op \in {"idle", "exit"}
  BY <1>2, CallFields, FileConstants DEF Shape, Place, Puts, Rets, HasDp, HasIp, MayIp, Making, Onward, Alive
<1>4. inode \in [Inum -> InodeType] /\ itable \in [Inum -> EntryType]
  BY DEF Accounted, TypeOK
<1>5. PICK e : e = Iput(c, c.put, "end")
  OBVIOUS
<1>6. e \in CallType /\ e.pc = "put" /\ e.put = c.put /\ e.ret = "end" /\ e.op = c.op /\ e.path = c.path
      /\ e.at = None /\ e.ip = None /\ e.dp = None /\ e.inum = None
  <2>1. "end" \in Rets
    BY DEF Rets
  <2> QED BY <1>2, <1>3, <1>5, <2>1, IputRecord
<1>7. Shape(e) /\ Alive(e)
  BY <1>3, <1>6, FileConstants DEF Shape, Place, Puts, Rets, HasDp, HasIp, MayIp, Making, Onward, Alive
<1>8. \A k \in Inum : Ptr(e, k) = Ptr(c, k)
  BY <1>3, <1>6 DEF Ptr
<1>9. Write(p, inode, itable, e)
  BY <1>1, <1>5 DEF CloseOp, Step
<1>20. Accounted'
  BY <1>1, <1>3, <1>4, <1>6, <1>7, <1>8, <1>9, WriteAccounted
<1>21. ASSUME Consistent PROVE Consistent'
  <2>1. Knows(inode, links, c)
    BY <1>1, <1>21 DEF Consistent
  <2>2. Follows(call[p], e, None)
    BY <1>1, <1>2, <1>3, <1>6, FileConstants DEF Follows, Owes, Pending, Place, Puts, Uses, New
  <2>3. SameHolds(call[p], e)
    BY <1>1, <1>2, <1>3, <1>6, FileConstants DEF SameHolds, Holds, HoldIp, HoldDp, Place, Puts
  <2>4. Knows(inode, links, e)
    BY <2>1, <1>2, <1>3, <1>6, FileConstants DEF Knows, Uses, Firm, Pending, New, Place, Puts
  <2> QED BY <1>1, <1>21, <1>9, <1>2, <1>3, <1>6, <2>2, <2>3, <2>4, SameConsistent
<1> QED BY <1>20, <1>21

\* fileclose() keeps both invariants.
LEMMA CloseKeeps ==
    ASSUME Accounted, NEW p \in Proc, NEW l \in {"idle", "exit"}, Close(p, l)
    PROVE  Accounted' /\ (Consistent => Consistent')
<1>1. PICK c : c = call[p]
  OBVIOUS
<1>2. PICK d \in Fd : LET f == ofile[p][d] IN
        /\ At(p, l) /\ f # None
        /\ ofile' = [ofile EXCEPT ![p][d] = None]
        /\ IF ftable[f].ref > 1
           THEN ftable' = [ftable EXCEPT ![f].ref = @ - 1] /\ UNCHANGED call
           ELSE /\ ftable' = [ftable EXCEPT ![f].ref = 0, ![f].type = "FD_NONE"]
                /\ Become(p, [Idle EXCEPT !.pc = "closing", !.op = l, !.put = ftable[f].ip])
        /\ UNCHANGED <<inode, itable, cwd, orphans, missed, panicked>>
  BY DEF Close
<1>3. PICK f : f = ofile[p][d]
  OBVIOUS
<1>4. /\ c \in CallType /\ Shape(c) /\ c.pc = l
      /\ ofile' = [ofile EXCEPT ![p][d] = None] /\ UNCHANGED <<inode, itable, cwd>> /\ d \in Fd
  BY <1>1, <1>2, CallOf DEF At
<1>5. /\ c.put = None /\ c.at = None /\ c.ip = None /\ c.dp = None /\ Alive(c)
  BY <1>4, CallFields, FileConstants DEF Shape, Place, Puts, Rets, HasDp, HasIp, MayIp, Making, Onward, Alive
<1>6. TypeOK
  BY DEF Accounted
<1>7. f \in File /\ ftable[f].ref \in Nat \ {0} /\ ftable[f].ip \in Inum /\ f # None
  BY <1>2, <1>3, OpenRef
<1>8. \A h \in File : Cardinality(Descs(ofile', h)) = Cardinality(Descs(ofile, h)) - Ind(f = h)
  <2>1. SUFFICES ASSUME NEW h \in File
                 PROVE  Cardinality(Descs(ofile', h)) = Cardinality(Descs(ofile, h)) - Ind(f = h)
    OBVIOUS
  <2>2. Cardinality(Descs(ofile', h)) = Cardinality(Descs(ofile, h)) + Ind(None = h) - Ind(ofile[p][d] = h)
    <3>1. /\ ofile'[p][d] = None
          /\ \A q \in Proc, b \in Fd : q # p \/ b # d => ofile'[q][b] = ofile[q][b]
      BY <1>4, <1>6 DEF TypeOK
    <3>2. IsFiniteSet(Descs(ofile, h))
      BY Pointed DEF Descs
    <3>3. /\ Cardinality(Descs(ofile', h)) = Cardinality(Descs(ofile, h)) + Hit(ofile', p, d, h) - Hit(ofile, p, d, h)
      BY <3>1, <3>2, DescCount
    <3> QED BY <3>1, <3>3 DEF Hit, Ind
  <2>3. Ind(None = h) = 0 /\ Ind(ofile[p][d] = h) = Ind(f = h) /\ Ind(f = h) \in Int
    BY <1>3, FileConstants DEF Ind
  <2>4. Cardinality(Descs(ofile, h)) \in Nat
    BY Pointed DEF Descs
  <2> QED BY ONLY <2>2, <2>3, <2>4
<1>9. \A h \in File : ftable[h].ref = Cardinality(Descs(ofile, h))
  BY DEF Accounted, RefsExact, FileRefs, Descs
<1>10. \A q \in Proc : CwdShape(q)' <=> (cwd[q] = None <=> call'[q].pc = "dead" \/ call'[q].op = "die")
                                        /\ (cwd[q] = None => \A e \in Fd : ofile'[q][e] = None)
  BY <1>4 DEF CwdShape
<1>11. cwd[p] # None
  BY <1>1, <1>5 DEF Accounted, CwdShape, Alive
<1>12. ofile' \in [Proc -> [Fd -> File \cup {None}]] /\ \A q \in Proc : q # p => ofile'[q] = ofile[q]
  BY <1>4, <1>6 DEF TypeOK
<1>15. /\ c.inum = None /\ New(c) = None /\ c.pc # "trunc" /\ \A k \in Inum : ~ Holds(c, k)
  BY <1>4, FileConstants DEF Shape, New, Holds, HoldIp, HoldDp, Place, Puts
<1>16. /\ inode' = inode /\ itable' = itable /\ orphans' = orphans /\ missed' = missed
       /\ TabHolds(itable') /\ CwdLinked(cwd')
  BY <1>2, <1>4 DEF TabHolds, CwdLinked
<1>17. ASSUME Consistent PROVE LockTo(itable', p, c)
  BY <1>1, <1>15, <1>16, <1>17, NoLocks
<1>13. CASE ftable[f].ref > 1
  <2>1. ftable' = [ftable EXCEPT ![f].ref = @ - 1] /\ call' = call
    BY <1>2, <1>3, <1>13
  <2>2. PICK g : g = [ftable[f] EXCEPT !.ref = ftable[f].ref - 1]
    OBVIOUS
  <2>3. g \in FileType /\ g.ref = ftable[f].ref - 1 /\ g.ip = ftable[f].ip /\ g.ref > 0
    <3>1. PICK r : r = ftable[f].ref - 1
      OBVIOUS
    <3>2. r \in Nat /\ r > 0
      BY <1>7, <1>13, <3>1
    <3>3. ftable[f] \in FileType
      BY <1>6, <1>7 DEF TypeOK
    <3>4. g \in FileType /\ g.ref = r /\ g.ip = ftable[f].ip
      BY <2>2, <3>1, <3>2, <3>3 DEF FileType
    <3> QED BY <3>1, <3>2, <3>4
  <2>4. ftable' = [ftable EXCEPT ![f] = g]
    BY <1>6, <1>7, <2>1, <2>2 DEF TypeOK, FileType
  <2>5. TypeOK'
    BY <1>4, <1>6, <1>7, <1>12, <2>1, <2>3, <2>4 DEF TypeOK
  <2>6. \A q \in Proc : Shape(call'[q]) /\ CwdShape(q)'
    BY <1>10, <1>11, <1>12, <2>1 DEF Accounted, CwdShape
  <2>7. \A h \in File : FileShape(h)'
    BY <1>6, <1>7, <2>3, <2>4 DEF Accounted, TypeOK, FileShape
  <2>8. FileRefs'
    <3>1. SUFFICES ASSUME NEW h \in File PROVE ftable'[h].ref = Cardinality(Descs(ofile', h))
      BY DEF FileRefs, Descs
    <3>2. ftable'[h].ref = ftable[h].ref - Ind(f = h)
      BY <1>6, <2>3, <2>4 DEF Ind, TypeOK, FileType
    <3>3. ftable[h].ref = Cardinality(Descs(ofile, h))
          /\ Cardinality(Descs(ofile', h)) = Cardinality(Descs(ofile, h)) - Ind(f = h)
      BY <1>8, <1>9
    <3> QED BY ONLY <3>2, <3>3
  <2>9. InodeRefs'
    <3>1. SUFFICES ASSUME NEW i \in Inum
                   PROVE  itable'[i].ref = Cardinality({q \in Proc : cwd'[q] = i})
                          + Cardinality(OpenOn(ftable', i)) + Cardinality(Pointers(call', i))
      BY DEF InodeRefs, Pointers, Fields, OpenOn
    <3>2. itable[i].ref = Cardinality({q \in Proc : cwd[q] = i})
                          + Cardinality(OpenOn(ftable, i)) + Cardinality(Pointers(call, i))
      BY RefsIs DEF Accounted, RefsExact, OpenOn
    <3>3. OpenOn(ftable', i) = OpenOn(ftable, i)
      BY <1>6, <1>7, <2>3, <2>4 DEF OpenOn, TypeOK
    <3>4. Cardinality({q \in Proc : cwd'[q] = i}) = Cardinality({q \in Proc : cwd[q] = i})
      BY <1>4, Zenon
    <3>5. itable'[i].ref = itable[i].ref /\ Pointers(call', i) = Pointers(call, i)
      BY <1>4, <2>1
    <3> QED BY ONLY <3>2, <3>3, <3>4, <3>5
  <2>20. Accounted'
    BY <2>5, <2>6, <2>7, <2>8, <2>9 DEF Accounted, RefsExact
  <2>21. ASSUME Consistent PROVE Consistent'
    <3>1. call' = [call EXCEPT ![p] = c]
      BY <1>1, <1>6, <2>1 DEF TypeOK
    <3>2. Gains(p, c) /\ Knows(inode, links, c) /\ Cached(inode, itable)
      BY <1>1, <2>21 DEF Consistent, Gains
    <3>3. FilesLinked(p, ftable')
      BY <1>6, <1>7, <2>3, <2>4 DEF FilesLinked, TypeOK
    <3> QED BY <1>1, <1>15, <1>16, <1>17, <2>21, <3>1, <3>2, <3>3, FilesConsistent
  <2> QED BY <2>20, <2>21
<1>14. CASE ~ (ftable[f].ref > 1)
  <2>1. PICK e : e = [Idle EXCEPT !.pc = "closing", !.op = l, !.put = ftable[f].ip]
    OBVIOUS
  <2>2. /\ ftable' = [ftable EXCEPT ![f].ref = 0, ![f].type = "FD_NONE"]
        /\ call' = [call EXCEPT ![p] = e]
    BY <1>2, <1>3, <1>14, <2>1 DEF Become
  <2>3. e \in CallType /\ e.pc = "closing" /\ e.op = l /\ e.put = ftable[f].ip /\ e.path = <<>> /\ e.at = None
        /\ e.ip = None /\ e.dp = None /\ e.inum = None
    <3>1. PICK e0 : e0 = Idle
      OBVIOUS
    <3>2. e0 \in CallType /\ e0.path = <<>> /\ e0.at = None /\ e0.ip = None /\ e0.dp = None
          /\ e0.inum = None
      BY <3>1, IdleRecord
    <3>3. e = [e0 EXCEPT !.pc = "closing", !.op = l, !.put = ftable[f].ip]
      BY <2>1, <3>1
    <3>4. "closing" \in (Places \ {"put_ip"}) \cup Puts /\ l \in Ops
      BY DEF Places, Rets, Ops
    <3> QED BY <1>7, <3>2, <3>3, <3>4 DEF CallType
  <2>4. Shape(e) /\ Alive(e)
    BY <1>7, <2>3, FileConstants
       DEF Shape, Place, Puts, Rets, HasDp, HasIp, MayIp, Making, Onward, Alive
  <2>5. PICK g : g = [ftable[f] EXCEPT !.ref = 0, !.type = "FD_NONE"]
    OBVIOUS
  <2>6. g \in FileType /\ g.ref = 0 /\ g.type = "FD_NONE"
    BY <1>6, <1>7, <2>5 DEF TypeOK, FileType
  <2>7. ftable' = [ftable EXCEPT ![f] = g]
    BY <1>6, <1>7, <2>2, <2>5 DEF TypeOK, FileType
  <2>8. TypeOK'
    <3>1. call' \in [Proc -> CallType]
      BY <1>6, <2>2, <2>3 DEF TypeOK
    <3>2. ftable' \in [File -> FileType]
      BY <1>6, <2>6, <2>7 DEF TypeOK
    <3> QED BY <1>4, <1>6, <1>12, <3>1, <3>2 DEF TypeOK
  <2>9. \A q \in Proc : Shape(call'[q]) /\ CwdShape(q)'
    BY <1>6, <1>10, <1>11, <1>12, <2>2, <2>4 DEF Accounted, TypeOK, CwdShape, Alive
  <2>10. \A h \in File : FileShape(h)'
    BY <1>6, <2>6, <2>7 DEF Accounted, TypeOK, FileShape
  <2>11. FileRefs'
    <3>1. SUFFICES ASSUME NEW h \in File PROVE ftable'[h].ref = Cardinality(Descs(ofile', h))
      BY DEF FileRefs, Descs
    <3>2. ftable'[h].ref = ftable[h].ref - Ind(f = h)
      <4>1. ftable[f].ref = 1
        BY <1>7, <1>14
      <4>2. ftable[h].ref \in Nat
        BY <1>6 DEF TypeOK, FileType
      <4>3. CASE h = f
        <5>1. ftable'[h].ref = 0 /\ Ind(f = h) = 1
          BY <1>6, <1>7, <2>6, <2>7, <4>3 DEF Ind, TypeOK
        <5> QED BY <4>1, <4>3, <5>1
      <4>4. CASE h # f
        <5>1. ftable'[h] = ftable[h] /\ Ind(f = h) = 0
          BY <1>6, <2>7, <4>4 DEF Ind, TypeOK
        <5> QED BY <4>2, <5>1
      <4> QED BY <4>3, <4>4
    <3>3. ftable[h].ref = Cardinality(Descs(ofile, h))
          /\ Cardinality(Descs(ofile', h)) = Cardinality(Descs(ofile, h)) - Ind(f = h)
      BY <1>8, <1>9
    <3> QED BY ONLY <3>2, <3>3
  <2>12. InodeRefs'
    <3>1. SUFFICES ASSUME NEW i \in Inum
                   PROVE  itable'[i].ref = Cardinality({q \in Proc : cwd'[q] = i})
                          + Cardinality(OpenOn(ftable', i)) + Cardinality(Pointers(call', i))
      BY DEF InodeRefs, Pointers, Fields, OpenOn
    <3>2. itable[i].ref = Cardinality({q \in Proc : cwd[q] = i})
                          + Cardinality(OpenOn(ftable, i)) + Cardinality(Pointers(call, i))
      BY RefsIs DEF Accounted, RefsExact, OpenOn
    <3>3. /\ Cardinality({q \in Proc : cwd[q] = i}) \in Nat
          /\ Cardinality(OpenOn(ftable, i)) \in Nat
          /\ Cardinality(Pointers(call, i)) \in Nat
      BY Pointed DEF OpenOn
    <3>4. Cardinality({q \in Proc : cwd'[q] = i}) = Cardinality({q \in Proc : cwd[q] = i})
      BY <1>4, Zenon
    <3>5. Cardinality(OpenOn(ftable', i)) = Cardinality(OpenOn(ftable, i)) - Ind(i = ftable[f].ip)
      <4>1. \A h \in File \ {f} : ftable'[h] = ftable[h]
        BY <1>6, <2>7 DEF TypeOK
      <4>2. Ind(ftable'[f].ref > 0 /\ ftable'[f].ip = i) = 0
        BY <1>6, <1>7, <2>6, <2>7 DEF Ind, TypeOK
      <4>3. Ind(ftable[f].ref > 0 /\ ftable[f].ip = i) = Ind(i = ftable[f].ip)
        BY <1>7 DEF Ind
      <4>4. Cardinality(OpenOn(ftable', i))
             = Cardinality(OpenOn(ftable, i))
               + Ind(ftable'[f].ref > 0 /\ ftable'[f].ip = i) - Ind(ftable[f].ref > 0 /\ ftable[f].ip = i)
        BY <1>7, <4>1, OpenCount
      <4>5. Ind(i = ftable[f].ip) \in Int
        BY DEF Ind
      <4> QED BY ONLY <3>3, <4>2, <4>3, <4>4, <4>5
    <3>6. Cardinality(Pointers(call', i)) = Cardinality(Pointers(call, i)) + Ptr(e, i) - Ptr(call[p], i)
      BY <1>6, <2>2, <2>3, PtrChange DEF TypeOK
    <3>7. Ptr(e, i) = Ind(i = ftable[f].ip) /\ Ptr(call[p], i) = 0
      BY <1>1, <1>5, <2>3, FileConstants DEF Ptr, Ind
    <3>8. itable'[i].ref = itable[i].ref /\ Ind(i = ftable[f].ip) \in Int
      BY <1>4 DEF Ind
    <3> QED BY ONLY <3>2, <3>3, <3>4, <3>5, <3>6, <3>7, <3>8
  <2>20. Accounted'
    BY <2>8, <2>9, <2>10, <2>11, <2>12 DEF Accounted, RefsExact
  <2>21. ASSUME Consistent PROVE Consistent'
    <3>1. PICK i : i = ftable[f].ip
      OBVIOUS
    <3>2. i \in Inum /\ e.put = i /\ IsOpen(i)
      BY <1>7, <2>3, <3>1 DEF IsOpen
    <3>3. inode[i].type # "free" /\ Cached(inode, itable)
      BY <1>7, <2>21, <3>1 DEF Consistent, FilesUsed
    <3>4. Gains(p, e) /\ Knows(inode, links, e)
      BY <2>3, <3>2, <3>3, FileConstants DEF Gains, Knows, Uses, Firm, Pending, New, Place, Puts
    <3>5. FilesLinked(p, ftable')
      BY <1>6, <1>7, <2>6, <2>7 DEF FilesLinked, TypeOK
    <3>6. \A k \in Inum : ~ Holds(e, k)
      BY <2>3, FileConstants DEF Holds, HoldIp, HoldDp, Place, Puts
    <3>7. /\ \A k \in Inum : Owes(e, k) = Owes(c, k)
          /\ New(e) = None /\ e.pc # "trunc"
      BY <1>4, <2>3 DEF Owes, Pending, New, Place, Puts
    <3>8. LockTo(itable', p, e)
      BY <1>1, <1>4, <1>15, <2>21, <3>6, NoLocks
    <3> QED BY <1>1, <1>15, <1>16, <2>2, <2>21, <3>3, <3>4, <3>5, <3>7, <3>8, FilesConsistent
  <2> QED BY <2>20, <2>21
<1> QED BY <1>13, <1>14

\* dup() keeps both invariants.
LEMMA DupKeeps == ASSUME Accounted, NEW p \in Proc, Dup(p) PROVE Accounted' /\ (Consistent => Consistent')
<1>1. PICK d \in Fd, e \in Fd : /\ ofile[p][d] # None /\ ofile[p][e] = None
                                /\ ofile' = [ofile EXCEPT ![p][e] = ofile[p][d]]
                                /\ ftable' = [ftable EXCEPT ![ofile[p][d]].ref = @ + 1]
  BY DEF Dup
<1>2. UNCHANGED <<inode, itable, cwd, call>> /\ call[p].pc = "idle"
  BY DEF Dup, At
<1>3. PICK f : f = ofile[p][d]
  OBVIOUS
<1>4. f \in File /\ ftable[f].ref \in Nat \ {0} /\ ftable[f].ip \in Inum /\ f # None
  BY <1>1, <1>3, OpenRef
<1>5. TypeOK
  BY DEF Accounted
<1>6. PICK g : g = [ftable[f] EXCEPT !.ref = ftable[f].ref + 1]
  OBVIOUS
<1>7. g.ref = ftable[f].ref + 1 /\ g.ip = ftable[f].ip /\ g.ref > 0 /\ g \in FileType
  <2>1. PICK r : r = ftable[f].ref + 1
    OBVIOUS
  <2>2. r \in Nat /\ r > 0
    BY <1>4, <2>1
  <2>3. ftable[f] \in FileType
    BY <1>4, <1>5 DEF TypeOK
  <2>4. g \in FileType /\ g.ref = r /\ g.ip = ftable[f].ip
    BY <1>6, <2>1, <2>2, <2>3 DEF FileType
  <2> QED BY <2>1, <2>2, <2>4
<1>8. ftable' = [ftable EXCEPT ![f] = g] /\ ofile' = [ofile EXCEPT ![p][e] = f]
  BY <1>1, <1>3, <1>4, <1>5, <1>6 DEF TypeOK, FileType
<1>9. ofile' \in [Proc -> [Fd -> File \cup {None}]] /\ \A q \in Proc : q # p => ofile'[q] = ofile[q]
  BY <1>4, <1>5, <1>8 DEF TypeOK
<1>10. TypeOK'
  BY <1>2, <1>4, <1>5, <1>7, <1>8, <1>9 DEF TypeOK
<1>11. cwd[p] # None
  <2>1. Shape(call[p]) /\ call[p].pc = "idle"
    BY <1>2 DEF Accounted
  <2>2. call[p].op = "none"
    BY <2>1 DEF Shape, Place, Puts
  <2> QED BY <2>1, <2>2 DEF Accounted, CwdShape
<1>12. \A q \in Proc : Shape(call'[q]) /\ CwdShape(q)'
  BY <1>2, <1>9, <1>11 DEF Accounted, CwdShape
<1>13. \A h \in File : FileShape(h)'
  BY <1>4, <1>5, <1>7, <1>8 DEF Accounted, TypeOK, FileShape
<1>14. FileRefs'
  <2>1. SUFFICES ASSUME NEW h \in File PROVE ftable'[h].ref = Cardinality(Descs(ofile', h))
    BY DEF FileRefs, Descs
  <2>2. ftable'[h].ref = ftable[h].ref + Ind(f = h)
    BY <1>5, <1>7, <1>8 DEF Ind, TypeOK, FileType
  <2>3. ftable[h].ref = Cardinality(Descs(ofile, h))
    BY DEF Accounted, RefsExact, FileRefs, Descs
  <2>4. Cardinality(Descs(ofile', h)) = Cardinality(Descs(ofile, h)) + Ind(f = h) - Ind(ofile[p][e] = h)
    <3>1. /\ ofile'[p][e] = f
          /\ \A q \in Proc, b \in Fd : q # p \/ b # e => ofile'[q][b] = ofile[q][b]
      BY <1>5, <1>8 DEF TypeOK
    <3>2. IsFiniteSet(Descs(ofile, h))
      BY Pointed DEF Descs
    <3>3. /\ Cardinality(Descs(ofile', h)) = Cardinality(Descs(ofile, h)) + Hit(ofile', p, e, h) - Hit(ofile, p, e, h)
      BY <3>1, <3>2, DescCount
    <3> QED BY <3>1, <3>3 DEF Hit, Ind
  <2>5. Ind(ofile[p][e] = h) = 0 /\ Ind(f = h) \in Int /\ ftable[h].ref \in Nat
    BY <1>1, <1>5, FileConstants DEF Ind, TypeOK, FileType
  <2> QED BY ONLY <2>2, <2>3, <2>4, <2>5
<1>15. InodeRefs'
  <2>1. SUFFICES ASSUME NEW i \in Inum
                 PROVE  itable'[i].ref = Cardinality({q \in Proc : cwd'[q] = i})
                        + Cardinality(OpenOn(ftable', i)) + Cardinality(Pointers(call', i))
    BY DEF InodeRefs, Pointers, Fields, OpenOn
  <2>2. itable[i].ref = Cardinality({q \in Proc : cwd[q] = i})
                        + Cardinality(OpenOn(ftable, i)) + Cardinality(Pointers(call, i))
    BY RefsIs DEF Accounted, RefsExact, OpenOn
  <2>3. OpenOn(ftable', i) = OpenOn(ftable, i)
    BY <1>4, <1>5, <1>7, <1>8 DEF OpenOn, TypeOK
  <2>4. Cardinality({q \in Proc : cwd'[q] = i}) = Cardinality({q \in Proc : cwd[q] = i})
    BY <1>2, Zenon
  <2>5. itable'[i].ref = itable[i].ref /\ Pointers(call', i) = Pointers(call, i)
    BY <1>2
  <2> QED BY ONLY <2>2, <2>3, <2>4, <2>5
<1>20. Accounted'
  BY <1>10, <1>12, <1>13, <1>14, <1>15 DEF Accounted, RefsExact
<1>21. ASSUME Consistent PROVE Consistent'
  <2>1. PICK c : c = call[p]
    OBVIOUS
  <2>2. call' = [call EXCEPT ![p] = c] /\ Shape(c) /\ c.pc = "idle"
    BY <1>2, <1>5, <2>1, CallOf DEF TypeOK
  <2>3. /\ c.inum = None /\ New(c) = None /\ c.pc # "trunc" /\ \A k \in Inum : ~ Holds(c, k)
    BY <2>2, FileConstants DEF Shape, New, Holds, HoldIp, HoldDp, Place, Puts
  <2>4. Gains(p, c) /\ Knows(inode, links, c) /\ Cached(inode, itable)
    BY <1>21, <2>1 DEF Consistent, Gains
  <2>5. FilesLinked(p, ftable')
    BY <1>4, <1>5, <1>7, <1>8 DEF FilesLinked, TypeOK
  <2>6. /\ inode' = inode /\ itable' = itable /\ orphans' = orphans /\ missed' = missed
        /\ TabHolds(itable') /\ CwdLinked(cwd')
    BY DEF Dup, TabHolds, CwdLinked
  <2>7. LockTo(itable', p, c)
    BY <1>21, <2>1, <2>3, <2>6, NoLocks
  <2> QED BY <1>21, <2>1, <2>2, <2>3, <2>4, <2>5, <2>6, <2>7, FilesConsistent
<1> QED BY <1>20, <1>21

\* The processes whose directory is i, and whether p is one.
CwdOn(w, i) == {q \in Proc : w[q] = i}
CwdIs(w, p, i) == IF w[p] = i THEN 1 ELSE 0

\* The counts when cwd changes for p only.
LEMMA CwdCount ==
    ASSUME NEW w, NEW w2, NEW p \in Proc, NEW i, \A q \in Proc : q # p => w2[q] = w[q],
           IsFiniteSet(CwdOn(w, i))
    PROVE  Cardinality(CwdOn(w2, i))
             = Cardinality(CwdOn(w, i))
               + CwdIs(w2, p, i) - CwdIs(w, p, i)
<1>1. PICK A : A = CwdOn(w, i)
  OBVIOUS
<1>2. PICK B : B = CwdOn(w2, i)
  OBVIOUS
<1>3. IsFiniteSet(A) /\ A \ {p} = B \ {p}
  BY <1>1, <1>2 DEF CwdOn
<1>4. Cardinality(B) = Cardinality(A) + Ind(p \in B) - Ind(p \in A)
  BY <1>3, CardShift
<1>5. (p \in B <=> w2[p] = i) /\ (p \in A <=> w[p] = i)
  BY <1>1, <1>2 DEF CwdOn
<1>6. Ind(p \in B) = CwdIs(w2, p, i) /\ Ind(p \in A) = CwdIs(w, p, i)
  BY <1>5 DEF Ind, CwdIs
<1> QED BY <1>1, <1>2, <1>4, <1>6

\* exit() keeps both invariants.
LEMMA ExitKeeps == ASSUME Accounted, NEW p \in Proc, Exit(p) PROVE Accounted' /\ (Consistent => Consistent')
<1>1. PICK c : c = call[p]
  OBVIOUS
<1>2. c \in CallType /\ Shape(c) /\ c.pc = "idle"
  BY <1>1, CallOf DEF Exit, At
<1>3. c.put = None /\ c.at = None /\ c.ip = None /\ c.dp = None /\ Alive(c)
  BY <1>2, CallFields, FileConstants DEF Shape, Place, Puts, Rets, HasDp, HasIp, MayIp, Making, Onward, Alive
<1>4. PICK e : e = [Idle EXCEPT !.pc = "exit"]
  OBVIOUS
<1>5. /\ call' = [call EXCEPT ![p] = e] /\ UNCHANGED <<inode, itable, ftable, ofile, cwd>>
  BY <1>4 DEF Exit, Become
<1>6. e \in CallType /\ e.pc = "exit" /\ e.op = "none" /\ e.path = <<>> /\ e.at = None /\ e.ip = None
      /\ e.dp = None /\ e.inum = None /\ e.put = None
  <2>1. PICK e0 : e0 = Idle
    OBVIOUS
  <2>2. e0 \in CallType /\ e0.op = "none" /\ e0.path = <<>> /\ e0.at = None /\ e0.ip = None /\ e0.dp = None
        /\ e0.inum = None /\ e0.put = None
    BY <2>1, IdleRecord
  <2>3. e = [e0 EXCEPT !.pc = "exit"]
    BY <1>4, <2>1
  <2>4. "exit" \in (Places \ {"put_ip"}) \cup Puts
    BY DEF Places, Rets
  <2> QED BY <2>2, <2>3, <2>4 DEF CallType
<1>7. Shape(e) /\ Alive(e)
  BY <1>6, FileConstants DEF Shape, Place, Puts, Rets, HasDp, HasIp, MayIp, Making, Onward, Alive
<1>8. \A k \in Inum : Ptr(e, k) = 0 /\ Ptr(call[p], k) = 0
  BY <1>1, <1>3, <1>6, FileConstants DEF Ptr, Ind
<1>9. /\ inode' \in [Inum -> InodeType] /\ itable' \in [Inum -> EntryType]
      /\ \A k \in Inum : itable'[k].ref = itable[k].ref /\ itable[k].ref \in Nat
  BY <1>5 DEF Accounted, TypeOK, EntryType
<1>10. \A k \in Inum : itable'[k].ref = itable[k].ref + Ptr(e, k) - Ptr(call[p], k)
  BY <1>8, <1>9
<1>11. (e.pc = "dead" \/ e.op = "die") <=> (call[p].pc = "dead" \/ call[p].op = "die")
  BY <1>1, <1>3, <1>7 DEF Alive
<1>20. Accounted'
  BY <1>5, <1>6, <1>7, <1>9, <1>10, <1>11, CallAccounted
<1>30. Write(p, inode, itable, e)
  BY <1>4, <1>5 DEF Exit, Write, Become
<1>21. ASSUME Consistent PROVE Consistent'
  <2>1. Knows(inode, links, c)
    BY <1>1, <1>21 DEF Consistent
  <2>2. Follows(call[p], e, None)
    BY <1>1, <1>2, <1>3, <1>6, FileConstants DEF Follows, Owes, Pending, Place, Puts, Uses, New
  <2>3. SameHolds(call[p], e)
    BY <1>1, <1>2, <1>3, <1>6, FileConstants DEF SameHolds, Holds, HoldIp, HoldDp, Place, Puts
  <2>4. Knows(inode, links, e)
    BY <2>1, <1>2, <1>3, <1>6, FileConstants DEF Knows, Uses, Firm, Pending, New, Place, Puts
  <2> QED BY <1>1, <1>21, <1>30, <1>2, <1>3, <1>6, <2>2, <2>3, <2>4, SameConsistent
<1> QED BY <1>20, <1>21

\* iput(p->cwd) in exit() keeps both invariants.
LEMMA ExitCwdKeeps ==
    ASSUME Accounted, NEW p \in Proc, ExitCwd(p)
    PROVE  Accounted' /\ (Consistent => Consistent')
<1>1. PICK c : c = call[p]
  OBVIOUS
<1>2. c \in CallType /\ Shape(c) /\ c.pc = "exit"
  BY <1>1, CallOf DEF ExitCwd, At
<1>3. c.put = None /\ c.at = None /\ c.ip = None /\ c.dp = None /\ Alive(c)
  BY <1>2, CallFields, FileConstants DEF Shape, Place, Puts, Rets, HasDp, HasIp, MayIp, Making, Onward, Alive
<1>4. inode \in [Inum -> InodeType] /\ itable \in [Inum -> EntryType] /\ TypeOK
  BY DEF Accounted, TypeOK
<1>5. PICK o : o = cwd[p]
  OBVIOUS
<1>6. o \in Inum
  BY <1>1, <1>3, <1>5 DEF Accounted, TypeOK, CwdShape, Alive
<1>7. PICK e : e = Iput([Idle EXCEPT !.op = "die"], o, "end")
  OBVIOUS
<1>8. /\ call' = [call EXCEPT ![p] = e] /\ cwd' = [cwd EXCEPT ![p] = None]
      /\ UNCHANGED <<inode, itable, ftable, ofile>> /\ \A d \in Fd : ofile[p][d] = None
  BY <1>5, <1>7 DEF ExitCwd, Become
<1>9. /\ e \in CallType /\ e.pc = "put" /\ e.put = o /\ e.ret = "end" /\ e.op = "die" /\ e.path = <<>>
      /\ e.at = None /\ e.ip = None /\ e.dp = None /\ e.inum = None
  <2>1. PICK e0 : e0 = Idle
    OBVIOUS
  <2>2. e0 \in CallType /\ e0.op = "none" /\ e0.path = <<>> /\ e0.at = None /\ e0.ip = None /\ e0.dp = None
        /\ e0.inum = None /\ e0.put = None
    BY <2>1, IdleRecord
  <2>3. PICK e1 : e1 = [e0 EXCEPT !.op = "die"]
    OBVIOUS
  <2>4. e1 \in CallType /\ e1.op = "die" /\ e1.path = <<>> /\ e1.at = None /\ e1.ip = None
        /\ e1.dp = None /\ e1.inum = None /\ e1.put = None
    BY <2>2, <2>3 DEF CallType, Ops
  <2>5. e = Iput(e1, o, "end") /\ "end" \in Rets
    BY <1>7, <2>1, <2>3 DEF Rets
  <2> QED BY <1>6, <2>4, <2>5, IputRecord
<1>10. Shape(e)
  BY <1>6, <1>9, FileConstants DEF Shape, Place, Puts, Rets, HasDp, HasIp, MayIp, Making, Onward, Alive
<1>11. TypeOK'
  BY <1>4, <1>8, <1>9 DEF TypeOK
<1>12. \A q \in Proc : Shape(call'[q]) /\ CwdShape(q)'
  BY <1>4, <1>8, <1>9, <1>10 DEF Accounted, TypeOK, CwdShape
<1>13. FileRefs' /\ \A f \in File : FileShape(f)'
  BY <1>8 DEF Accounted, RefsExact, FileRefs, FileShape
<1>14. InodeRefs'
  <2>1. SUFFICES ASSUME NEW i \in Inum
                 PROVE  itable'[i].ref = Cardinality(CwdOn(cwd', i))
                            + Cardinality(OpenOn(ftable', i)) + Cardinality(Pointers(call', i))
    BY DEF InodeRefs, Pointers, Fields, OpenOn, CwdOn
  <2>2. Cardinality(Pointers(call', i)) = Cardinality(Pointers(call, i)) + Ptr(e, i) - Ptr(call[p], i)
    BY <1>4, <1>8, <1>9, PtrChange DEF TypeOK
  <2>3. Ptr(e, i) = (IF o = i THEN 1 ELSE 0) /\ Ptr(call[p], i) = 0
    BY <1>1, <1>3, <1>6, <1>9, FileConstants DEF Ptr, Ind
  <2>4. itable[i].ref = Cardinality(CwdOn(cwd, i))
                            + Cardinality(OpenOn(ftable, i)) + Cardinality(Pointers(call, i))
    BY RefsIs DEF Accounted, RefsExact, OpenOn, CwdOn
  <2>5. /\ Cardinality(CwdOn(cwd, i)) \in Nat /\ Cardinality(OpenOn(ftable, i)) \in Nat
        /\ Cardinality(Pointers(call, i)) \in Nat
    BY Pointed DEF OpenOn, CwdOn
  <2>6. Cardinality(CwdOn(cwd', i))
          = Cardinality(CwdOn(cwd, i)) - (IF o = i THEN 1 ELSE 0)
    <3>1. \A q \in Proc : q # p => cwd'[q] = cwd[q]
      BY <1>4, <1>8 DEF TypeOK
    <3>2. cwd'[p] # i
      BY <1>4, <1>8, FileConstants DEF TypeOK
    <3>3. IsFiniteSet(CwdOn(cwd, i))
      BY Pointed DEF CwdOn
    <3>4. Cardinality(CwdOn(cwd', i))
             = Cardinality(CwdOn(cwd, i))
               + CwdIs(cwd', p, i) - CwdIs(cwd, p, i)
      BY <3>1, <3>3, CwdCount
    <3> QED BY ONLY <1>5, <2>5, <3>2, <3>4 DEF CwdIs
  <2>7. itable'[i].ref = itable[i].ref /\ OpenOn(ftable', i) = OpenOn(ftable, i)
    BY <1>8
  <2> QED BY ONLY <2>2, <2>3, <2>4, <2>5, <2>6, <2>7
<1>20. Accounted'
  BY <1>11, <1>12, <1>13, <1>14 DEF Accounted, RefsExact
<1>21. ASSUME Consistent PROVE Consistent'
  <2>1. Live(inode, links, o) /\ inode[o].nlink > 0 /\ inode[o].type # "free"
    BY <1>5, <1>6, <1>21, CwdLinks
  <2>2. Gains(p, e) /\ Knows(inode, links, e)
    BY <1>9, <2>1, FileConstants DEF Gains, Knows, Uses, Firm, Pending, New, Place, Puts
  <2>3. /\ Cached(inode, itable) /\ TabHolds(itable') /\ FilesLinked(p, ftable') /\ itable' = itable
        /\ inode' = inode
    BY <1>8, <1>21 DEF Consistent, TabHolds, FilesLinked
  <2>4. CwdLinked(cwd')
    BY <1>4, <1>8 DEF CwdLinked, TypeOK
  <2>5. orphans' = orphans /\ missed' = missed
    BY DEF ExitCwd
  <2>6. c.inum = None /\ New(c) = None /\ \A k \in Inum : ~ Holds(c, k)
    BY <1>2, FileConstants DEF Shape, New, Holds, HoldIp, HoldDp, Place, Puts
  <2>7. \A k \in Inum : ~ Holds(e, k)
    BY <1>9, FileConstants DEF Holds, HoldIp, HoldDp, Place, Puts
  <2>8. LockTo(itable', p, e)
    BY <1>1, <1>21, <2>3, <2>6, <2>7, NoLocks
  <2>9. /\ \A k \in Inum : Owes(e, k) = Owes(call[p], k)
        /\ New(e) = None /\ e.pc # "trunc"
    BY <1>1, <1>2, <1>9 DEF Owes, Pending, New, Place, Puts
  <2> QED BY <1>1, <1>8, <1>21, <2>2, <2>3, <2>4, <2>5, <2>6, <2>8, <2>9, FilesConsistent
<1> QED BY <1>20, <1>21

\* fork() keeps both invariants.
LEMMA ForkKeeps ==
    ASSUME Accounted, NEW p \in Proc, NEW q \in Proc, Fork(p, q)
    PROVE  Accounted' /\ (Consistent => Consistent')
<1>1. PICK D : D = [f \in File |-> {d \in Fd : ofile[p][d] = f}]
  OBVIOUS
<1>2. /\ call[p].pc = "idle" /\ call[q].pc = "dead" /\ p # q
      /\ ofile' = [ofile EXCEPT ![q] = ofile[p]] /\ cwd' = [cwd EXCEPT ![q] = cwd[p]]
      /\ itable' = [itable EXCEPT ![cwd[p]].ref = @ + 1] /\ call' = [call EXCEPT ![q] = Idle]
      /\ UNCHANGED inode
  BY DEF Fork, At, Become
<1>3. ftable' = [f \in File |-> [ftable[f] EXCEPT !.ref = @ + Cardinality(D[f])]]
  BY <1>1 DEF Fork
<1>4. TypeOK
  BY DEF Accounted
<1>5. cwd[q] = None /\ \A d \in Fd : ofile[q][d] = None
  BY <1>2 DEF Accounted, CwdShape
<1>6. PICK o : o = cwd[p]
  OBVIOUS
<1>7. o \in Inum
  <2>1. call[p].op = "none"
    BY <1>2, CallOf DEF Shape, Place, Puts
  <2> QED BY <1>2, <1>4, <1>6, <2>1 DEF Accounted, TypeOK, CwdShape
<1>8. \A f \in File : IsFiniteSet(D[f]) /\ Cardinality(D[f]) \in Nat
  <2>1. SUFFICES ASSUME NEW f \in File PROVE IsFiniteSet(D[f])
    BY FS_CardinalityType
  <2>2. D[f] \subseteq Fd
    BY <1>1
  <2> QED BY <2>2, Finite, FS_Subset
<1>9. \A f \in File : ftable'[f] \in FileType /\ ftable'[f].ref = ftable[f].ref + Cardinality(D[f])
                      /\ ftable'[f].ip = ftable[f].ip /\ ftable'[f].type = ftable[f].type
  <2>1. SUFFICES ASSUME NEW f \in File
                 PROVE  ftable'[f] \in FileType /\ ftable'[f].ref = ftable[f].ref + Cardinality(D[f])
                        /\ ftable'[f].ip = ftable[f].ip /\ ftable'[f].type = ftable[f].type
    OBVIOUS
  <2>2. PICK r : r = ftable[f].ref + Cardinality(D[f])
    OBVIOUS
  <2>3. ftable[f] \in FileType
    BY <1>4 DEF TypeOK
  <2>4. ftable'[f] = [ftable[f] EXCEPT !.ref = r]
    BY <1>3, <2>2, <2>3 DEF FileType
  <2>5. r \in Nat
    BY <1>8, <2>2, <2>3 DEF FileType
  <2> QED BY <2>2, <2>3, <2>4, <2>5 DEF FileType
<1>10. DOMAIN ftable' = File /\ ftable' = [f \in File |-> ftable'[f]]
  BY <1>3
<1>11. \A f \in File : ftable[f].ref = Cardinality(Descs(ofile, f))
  BY DEF Accounted, RefsExact, FileRefs, Descs
<1>12. \A f \in File : Cardinality(Descs(ofile', f)) = Cardinality(Descs(ofile, f)) + Cardinality(D[f])
  <2>1. SUFFICES ASSUME NEW f \in File
                 PROVE  Cardinality(Descs(ofile', f)) = Cardinality(Descs(ofile, f)) + Cardinality(D[f])
    OBVIOUS
  <2>2. PICK N : N = {q} \X D[f]
    OBVIOUS
  <2>3. IsFiniteSet(N) /\ Cardinality(N) = Cardinality(D[f])
    <3>1. IsFiniteSet({q}) /\ Cardinality({q}) = 1
      BY FS_Singleton
    <3>2. IsFiniteSet({q} \X D[f]) /\ Cardinality({q} \X D[f]) = Cardinality({q}) * Cardinality(D[f])
      BY <1>8, <3>1, FS_Product
    <3> QED BY <1>8, <2>2, <3>1, <3>2
  <2>4. PICK A : A = Descs(ofile, f)
    OBVIOUS
  <2>5. IsFiniteSet(A)
    BY <2>4, Pointed DEF Descs
  <2>6. A \cap N = {}
    <3>1. ASSUME NEW x \in A, x \in N PROVE FALSE
      <4>1. PICK d \in D[f] : x = <<q, d>>
        BY <2>2, <3>1
      <4>2. d \in Fd /\ ofile[q][d] = f
        BY <1>1, <2>4, <4>1 DEF Descs
      <4> QED BY <1>5, <4>2, FileConstants
    <3> QED BY <3>1
  <2>7. Descs(ofile', f) = A \cup N
    <3>1. \A d \in Fd : d \in D[f] <=> ofile[p][d] = f
      BY <1>1
    <3>5. D[f] \subseteq Fd
      BY <1>1
    <3>2. ofile'[q] = ofile[p] /\ \A r \in Proc : r # q => ofile'[r] = ofile[r]
      BY <1>2, <1>4 DEF TypeOK
    <3>6. None # f
      BY FileConstants
    <3>3. ASSUME NEW r \in Proc, NEW d \in Fd
          PROVE  <<r, d>> \in Descs(ofile', f) <=> <<r, d>> \in A \cup N
      <4>1. <<r, d>> \in Descs(ofile', f) <=> ofile'[r][d] = f
        BY DEF Descs
      <4>2. <<r, d>> \in A <=> ofile[r][d] = f
        BY <2>4 DEF Descs
      <4>3. <<r, d>> \in N <=> r = q /\ ofile[p][d] = f
        BY <2>2, <3>1
      <4> QED BY <1>5, <3>2, <3>6, <4>1, <4>2, <4>3
    <3>4. Descs(ofile', f) \subseteq Proc \X Fd /\ A \cup N \subseteq Proc \X Fd
      BY <2>2, <2>4, <3>5 DEF Descs
    <3>7. ASSUME NEW x PROVE x \in Descs(ofile', f) <=> x \in A \cup N
      <4>1. CASE x \in Proc \X Fd
        <5>1. PICK r \in Proc, d \in Fd : x = <<r, d>>
          BY <4>1
        <5> QED BY <3>3, <5>1
      <4> QED BY <3>4, <4>1
    <3> QED BY <3>7
  <2>8. Cardinality(A \cup N) = Cardinality(A) + Cardinality(N)
    BY <2>3, <2>5, <2>6, CardDisjoint
  <2> QED BY ONLY <2>3, <2>4, <2>7, <2>8
<1>13. FileRefs'
  BY <1>9, <1>11, <1>12 DEF FileRefs, Descs
<1>14. \A f \in File : ftable'[f].ref > 0 <=> ftable[f].ref > 0
  <2>1. SUFFICES ASSUME NEW f \in File PROVE ftable'[f].ref > 0 <=> ftable[f].ref > 0
    OBVIOUS
  <2>2. ftable[f].ref \in Nat
    BY <1>4 DEF TypeOK, FileType
  <2>3. CASE ftable[f].ref = 0
    <3>1. Descs(ofile, f) = {}
      BY <1>11, <2>3, Pointed, FS_EmptySet DEF Descs
    <3>2. \A d \in Fd : ofile[p][d] # f
      <4>1. ASSUME NEW d \in Fd, ofile[p][d] = f PROVE FALSE
        <5>1. <<p, d>> \in Descs(ofile, f)
          BY <4>1 DEF Descs
        <5> QED BY <3>1, <5>1
      <4> QED BY <4>1
    <3>3. D[f] = {}
      BY <1>1, <3>2
    <3>4. Cardinality(D[f]) = 0
      BY <3>3, FS_EmptySet
    <3> QED BY <1>9, <2>3, <3>4
  <2>4. CASE ftable[f].ref # 0
    BY <1>8, <1>9, <2>2, <2>4
  <2> QED BY <2>3, <2>4
<1>15. \A f \in File : FileShape(f)'
  <2>1. SUFFICES ASSUME NEW f \in File PROVE FileShape(f)'
    OBVIOUS
  <2>2. ftable[f].ref \in Nat /\ ftable'[f].ref \in Nat
    BY <1>4, <1>9 DEF TypeOK, FileType
  <2>3. ftable'[f].ref = 0 <=> ftable[f].ref = 0
    BY <1>14, <2>2
  <2> QED BY <1>9, <2>3 DEF Accounted, FileShape
<1>16. PICK e : e = [itable[o] EXCEPT !.ref = itable[o].ref + 1]
  OBVIOUS
<1>17. e \in EntryType /\ e.ref = itable[o].ref + 1 /\ itable' = [itable EXCEPT ![o] = e]
  <2>1. itable[o] \in EntryType /\ itable \in [Inum -> EntryType]
    BY <1>4, <1>7 DEF TypeOK
  <2>2. PICK r : r = itable[o].ref + 1
    OBVIOUS
  <2>3. r \in Nat
    BY <2>1, <2>2 DEF EntryType
  <2>4. e \in EntryType /\ e.ref = r
    BY <1>16, <2>1, <2>2, <2>3 DEF EntryType
  <2>5. itable' = [itable EXCEPT ![o] = e]
    BY <1>2, <1>6, <1>7, <1>16, <2>1 DEF EntryType
  <2> QED BY <2>2, <2>4, <2>5
<1>18. TypeOK'
  <2>1. ftable' \in [File -> FileType]
    BY <1>9, <1>10
  <2>2. Idle \in CallType
    BY IdleRecord
  <2>3. call' \in [Proc -> CallType] /\ cwd' \in [Proc -> Inum \cup {None}]
        /\ ofile' \in [Proc -> [Fd -> File \cup {None}]] /\ itable' \in [Inum -> EntryType]
    BY <1>2, <1>4, <1>6, <1>7, <1>17, <2>2 DEF TypeOK
  <2> QED BY <1>2, <1>4, <2>1, <2>3 DEF TypeOK
<1>19. \A r \in Proc : Shape(call'[r]) /\ CwdShape(r)'
  <2>1. Shape(Idle) /\ Idle.pc = "idle" /\ Idle.op = "none"
    BY IdleRecord, FileConstants DEF Shape, Place, Puts, Rets, HasDp, HasIp, MayIp, Making, Onward
  <2>2. \A r \in Proc : call'[r] = IF r = q THEN Idle ELSE call[r]
    BY <1>2, <1>4 DEF TypeOK
  <2>3. \A r \in Proc : r # q => cwd'[r] = cwd[r] /\ ofile'[r] = ofile[r]
    BY <1>2, <1>4 DEF TypeOK
  <2>4. cwd'[q] = o /\ o # None
    BY <1>2, <1>4, <1>6, <1>7, FileConstants DEF TypeOK
  <2>5. Shape(call'[q]) /\ CwdShape(q)'
    BY <2>1, <2>2, <2>4 DEF CwdShape
  <2>6. ASSUME NEW r \in Proc, r # q PROVE Shape(call'[r]) /\ CwdShape(r)'
    <3>1. Shape(call[r]) /\ CwdShape(r)
      BY DEF Accounted
    <3> QED BY <2>2, <2>3, <2>6, <3>1 DEF CwdShape
  <2> QED BY <2>5, <2>6
<1>20. InodeRefs'
  <2>1. SUFFICES ASSUME NEW i \in Inum
                 PROVE  itable'[i].ref = Cardinality(CwdOn(cwd', i))
                            + Cardinality(OpenOn(ftable', i)) + Cardinality(Pointers(call', i))
    BY DEF InodeRefs, Pointers, Fields, OpenOn, CwdOn
  <2>2. Cardinality(Pointers(call', i)) = Cardinality(Pointers(call, i)) + Ptr(Idle, i) - Ptr(call[q], i)
    <3>1. call \in [Proc -> CallType] /\ call' = [call EXCEPT ![q] = Idle] /\ q \in Proc
      BY <1>2, <1>4 DEF TypeOK
    <3>2. Idle \in CallType
      BY IdleRecord
    <3> QED BY ONLY <3>1, <3>2, PtrChange
  <2>3. Ptr(Idle, i) = 0 /\ Ptr(call[q], i) = 0
    <3>1. PICK c : c = call[q]
      OBVIOUS
    <3>2. c \in CallType /\ Shape(c) /\ c.pc = "dead"
      BY <1>2, <3>1, CallOf
    <3>3. c.put = None /\ c.at = None /\ c.ip = None /\ c.dp = None
      BY <3>2, CallFields, FileConstants DEF Shape, Place, Puts, Rets, HasDp, HasIp, MayIp
    <3> QED BY <3>1, <3>3, IdleRecord, FileConstants DEF Ptr, Ind
  <2>4. itable[i].ref = Cardinality(CwdOn(cwd, i))
                            + Cardinality(OpenOn(ftable, i)) + Cardinality(Pointers(call, i))
    BY RefsIs DEF Accounted, RefsExact, OpenOn, CwdOn
  <2>5. /\ Cardinality(CwdOn(cwd, i)) \in Nat /\ Cardinality(OpenOn(ftable, i)) \in Nat
        /\ Cardinality(Pointers(call, i)) \in Nat
    BY Pointed DEF OpenOn, CwdOn
  <2>6. Cardinality(CwdOn(cwd', i)) = Cardinality(CwdOn(cwd, i)) + (IF o = i THEN 1 ELSE 0)
    <3>1. \A r \in Proc : r # q => cwd'[r] = cwd[r]
      BY <1>2, <1>4 DEF TypeOK
    <3>2. cwd'[q] = o /\ cwd[q] # i
      BY <1>2, <1>4, <1>5, <1>6, FileConstants DEF TypeOK
    <3>3. IsFiniteSet(CwdOn(cwd, i))
      BY Pointed DEF CwdOn
    <3>4. Cardinality(CwdOn(cwd', i))
             = Cardinality(CwdOn(cwd, i)) + CwdIs(cwd', q, i) - CwdIs(cwd, q, i)
      BY <3>1, <3>3, CwdCount
    <3> QED BY ONLY <2>5, <3>2, <3>4 DEF CwdIs
  <2>7. OpenOn(ftable', i) = OpenOn(ftable, i)
    BY <1>9, <1>14 DEF OpenOn
  <2>8. itable'[i].ref = itable[i].ref + (IF o = i THEN 1 ELSE 0) /\ itable[i].ref \in Nat
    BY <1>4, <1>7, <1>17 DEF TypeOK, EntryType
  <2> QED BY ONLY <2>2, <2>3, <2>4, <2>5, <2>6, <2>7, <2>8
<1>30. Accounted'
  BY <1>13, <1>15, <1>18, <1>19, <1>20 DEF Accounted, RefsExact
<1>31. ASSUME Consistent PROVE Consistent'
  <2>1. Live(inode, links, o) /\ inode[o].nlink > 0 /\ inode[o].type # "free"
    BY <1>6, <1>7, <1>31, CwdLinks
  <2>2. PICK c : c = Idle
    OBVIOUS
  <2>3. c.pc = "idle" /\ c.at = None /\ c.ip = None /\ c.dp = None /\ c.put = None /\ c.inum = None
    BY <2>2, IdleRecord
  <2>4. PICK b : b = call[q]
    OBVIOUS
  <2>5. Shape(b) /\ b.pc = "dead"
    BY <1>2, <2>4, CallOf
  <2>6. Gains(q, c) /\ Knows(inode, links, c) /\ New(c) = None /\ c.pc # "trunc" /\ \A k \in Inum : ~ Holds(c, k)
    BY <2>3, FileConstants DEF Gains, Knows, Uses, Firm, Pending, New, Place, Puts, Holds, HoldIp, HoldDp
  <2>7. b.inum = None /\ New(b) = None /\ \A k \in Inum : ~ Holds(b, k)
    BY <2>5, FileConstants DEF Shape, New, Holds, HoldIp, HoldDp, Place, Puts
  <2>8. \A k \in Inum : Owes(c, k) = Owes(b, k)
    BY <2>3, <2>5 DEF Owes, Pending, Place, Puts
  <2>9. /\ itable'[o].valid = itable[o].valid /\ itable'[o].type = itable[o].type
        /\ itable'[o].nlink = itable[o].nlink
        /\ itable'[o].lock = itable[o].lock /\ \A k \in Inum : k # o => itable'[k] = itable[k]
    <3>1. /\ e.valid = itable[o].valid /\ e.type = itable[o].type /\ e.nlink = itable[o].nlink
          /\ e.lock = itable[o].lock
      <4>1. itable[o] \in EntryType
        BY <1>4, <1>7 DEF TypeOK
      <4> QED BY <1>16, <4>1 DEF EntryType
    <3>2. itable'[o] = e /\ \A k \in Inum : k # o => itable'[k] = itable[k]
      BY <1>4, <1>7, <1>17 DEF TypeOK
    <3> QED BY <3>1, <3>2
  <2>10. TabHolds(itable')
    BY <2>1, <2>9 DEF TabHolds
  <2>11. itable[o].ref > 0
    <3>1. PICK A : A = CwdOn(cwd, o)
      OBVIOUS
    <3>2. p \in A
      BY <1>6, <3>1 DEF CwdOn
    <3>3. Cardinality(A) # 0 /\ Cardinality(A) \in Nat
      BY <3>1, <3>2, Pointed, FS_EmptySet DEF CwdOn
    <3>4. /\ itable[o].ref = Cardinality(CwdOn(cwd, o))
                            + Cardinality(OpenOn(ftable, o)) + Cardinality(Pointers(call, o))
          /\ Cardinality(OpenOn(ftable, o)) \in Nat /\ Cardinality(Pointers(call, o)) \in Nat
      BY <1>7, RefsIs, Pointed DEF Accounted, RefsExact, OpenOn, CwdOn
    <3> QED BY ONLY <3>1, <3>3, <3>4
  <2>12. Cached(inode, itable')
    <3>1. Cached(inode, itable)
      BY <1>31 DEF Consistent
    <3> QED BY <1>7, <2>9, <2>11, <3>1 DEF Cached
  <2>13. LockTo(itable', q, c)
    <3>1. \A k \in Inum : itable'[k].lock = itable[k].lock
      BY <2>9
    <3> QED BY <1>31, <2>4, <2>6, <2>7, <3>1, NoLocks
  <2>14. CwdLinked(cwd')
    BY <1>2, <1>4, <1>6, <2>1 DEF CwdLinked, TypeOK
  <2>15. FilesLinked(q, ftable')
    BY <1>9, <1>14 DEF FilesLinked
  <2>16. orphans' = orphans /\ missed' = missed /\ inode' = inode /\ call' = [call EXCEPT ![q] = c]
    BY <1>2, <2>2 DEF Fork
  <2> QED BY <1>31, <2>4, <2>6, <2>7, <2>8, <2>10, <2>12, <2>13, <2>14, <2>15, <2>16, FilesConsistent
<1> QED BY <1>30, <1>31

\* The machine as it boots: the first process has the root directory, and
\* nobody has anything else.
LEMMA BootAccounted ==
    /\ BootTable \in [Inum -> EntryType] /\ [f \in File |-> NoFile] \in [File -> FileType]
    /\ BootFiles \in [Proc -> [Fd -> File \cup {None}]] /\ BootCwd \in [Proc -> Inum \cup {None}]
    /\ BootCall \in [Proc -> CallType]
    /\ \A p \in Proc : /\ Shape(BootCall[p]) /\ BootCall[p].op = "none"
                       /\ BootCwd[p] = None <=> BootCall[p].pc = "dead"
                       /\ \A d \in Fd : BootFiles[p][d] = None
    /\ \A f \in File : Cardinality(Descs(BootFiles, f)) = 0
    /\ \A i \in Inum : BootTable[i].ref = Cardinality(CwdOn(BootCwd, i))
                       /\ Cardinality(OpenOn([f \in File |-> NoFile], i)) = 0
                       /\ Cardinality(Pointers(BootCall, i)) = 0
<1>1. NoEntry \in EntryType /\ NoEntry.ref = 0
  BY DEF NoEntry, EntryType
<1>2. PICK e : e = [NoEntry EXCEPT !.ref = 1]
  OBVIOUS
<1>3. e \in EntryType /\ e.ref = 1
  BY <1>1, <1>2 DEF EntryType
<1>4. \A i \in Inum : BootTable[i] = IF i = ROOTINO THEN e ELSE NoEntry
  BY <1>2 DEF BootTable
<1>5. BootTable = [i \in Inum |-> IF i = ROOTINO THEN e ELSE NoEntry]
  BY <1>2 DEF BootTable
<1>6. BootTable \in [Inum -> EntryType]
  BY <1>1, <1>3, <1>5
<1>7. NoFile \in FileType /\ NoFile.ref = 0
  BY DEF NoFile, FileType
<1>8. [f \in File |-> NoFile] \in [File -> FileType]
  BY <1>7
<1>9. BootFiles \in [Proc -> [Fd -> File \cup {None}]] /\ BootCwd \in [Proc -> Inum \cup {None}]
  BY FileConstants DEF BootFiles, BootCwd
<1>10. BootCall \in [Proc -> CallType]
  BY IdleRecord DEF BootCall
<1>11. /\ Shape(Idle) /\ Idle.op = "none" /\ Idle.pc # "dead"
       /\ Shape(Dead) /\ Dead.op = "none" /\ Dead.pc = "dead"
  BY IdleRecord, FileConstants DEF Shape, Place, Puts, Rets, HasDp, HasIp, MayIp, Making, Onward
<1>12. \A p \in Proc : BootCall[p] = IF p = Boot THEN Idle ELSE Dead
  BY DEF BootCall
<1>13. \A p \in Proc : BootCwd[p] = IF p = Boot THEN ROOTINO ELSE None
  BY DEF BootCwd
<1>14. \A p \in Proc, d \in Fd : BootFiles[p][d] = None
  BY DEF BootFiles
<1>15. \A p \in Proc : /\ Shape(BootCall[p]) /\ BootCall[p].op = "none"
                       /\ BootCwd[p] = None <=> BootCall[p].pc = "dead"
                       /\ \A d \in Fd : BootFiles[p][d] = None
  BY <1>11, <1>12, <1>13, <1>14, FileConstants
<1>16. ASSUME NEW f \in File PROVE Cardinality(Descs(BootFiles, f)) = 0
  <2>1. Descs(BootFiles, f) = {}
    BY <1>14, FileConstants DEF Descs
  <2> QED BY <2>1, FS_EmptySet
<1>17. ASSUME NEW i \in Inum PROVE Cardinality(OpenOn([f \in File |-> NoFile], i)) = 0
  <2>1. PICK ft : ft = [f \in File |-> NoFile]
    OBVIOUS
  <2>2. OpenOn(ft, i) = {}
    BY <1>7, <2>1 DEF OpenOn
  <2> QED BY <2>1, <2>2, FS_EmptySet
<1>18. ASSUME NEW i \in Inum PROVE Cardinality(Pointers(BootCall, i)) = 0
  <2>1. \A p \in Proc, l \in Fields : BootCall[p][l] = None
    BY <1>12, IdleRecord DEF Fields
  <2>2. Pointers(BootCall, i) = {}
    BY <2>1, FileConstants DEF Pointers
  <2> QED BY <2>2, FS_EmptySet
<1>19. ASSUME NEW i \in Inum PROVE BootTable[i].ref = Cardinality(CwdOn(BootCwd, i))
  <2>1. CASE i = ROOTINO
    <3>1. CwdOn(BootCwd, i) = {Boot}
      BY <1>13, <2>1, FileConstants DEF CwdOn
    <3>2. Cardinality({Boot}) = 1
      BY FS_Singleton
    <3> QED BY <1>3, <1>4, <2>1, <3>1, <3>2
  <2>2. CASE i # ROOTINO
    <3>1. CwdOn(BootCwd, i) = {}
      BY <1>13, <2>2, FileConstants DEF CwdOn
    <3> QED BY <1>1, <1>4, <2>2, <3>1, FS_EmptySet
  <2> QED BY <2>1, <2>2
<1> QED BY <1>6, <1>8, <1>9, <1>10, <1>15, <1>16, <1>17, <1>18, <1>19

\* The counts are exact when the machine starts,
LEMMA InitAccounted == ASSUME Init PROVE Accounted
<1>1. /\ itable = BootTable /\ ftable = [f \in File |-> NoFile] /\ ofile = BootFiles /\ cwd = BootCwd
      /\ call = BootCall
  BY DEF Init
<1>2. inode \in [Inum -> InodeType]
  <2>1. Names = Name \cup {".", ".."} /\ NoEnts \in [Names -> Inum \cup {None}]
    BY DEF Names, NoEnts
  <2>2. Free \in InodeType /\ Root \in InodeType
    BY <2>1, FileConstants DEF Free, Root, InodeType
  <2> QED BY <2>2 DEF Init
<1>3. TypeOK
  BY <1>1, <1>2, BootAccounted DEF TypeOK
<1>4. \A p \in Proc : Shape(call[p]) /\ CwdShape(p)
  BY <1>1, BootAccounted DEF CwdShape
<1>5. \A f \in File : ftable[f].ref = 0 /\ FileShape(f)
  BY <1>1 DEF FileShape, NoFile
<1>6. FileRefs
  BY <1>1, <1>5, BootAccounted DEF FileRefs, Descs
<1>7. ASSUME NEW i \in Inum
      PROVE  itable[i].ref = Cardinality(CwdOn(cwd, i)) + Cardinality(OpenOn(ftable, i))
                             + Cardinality(Pointers(call, i))
  <2>1. itable[i].ref = Cardinality(CwdOn(cwd, i)) /\ Cardinality(OpenOn(ftable, i)) = 0
        /\ Cardinality(Pointers(call, i)) = 0
    BY <1>1, BootAccounted
  <2>2. itable[i].ref \in Nat
    BY <1>3 DEF TypeOK, EntryType
  <2> QED BY ONLY <2>1, <2>2
<1>8. InodeRefs
  BY <1>7 DEF InodeRefs, Pointers, Fields, OpenOn, CwdOn
<1> QED BY <1>3, <1>4, <1>5, <1>6, <1>8 DEF Accounted, RefsExact

\* after a crash,
LEMMA CrashAccounted == ASSUME Accounted, Crash PROVE Accounted'
<1>1. /\ itable' = BootTable /\ ftable' = [f \in File |-> NoFile] /\ ofile' = BootFiles /\ cwd' = BootCwd
      /\ call' = BootCall /\ inode' = inode
  BY DEF Crash
<1>3. TypeOK'
  BY <1>1, BootAccounted DEF Accounted, TypeOK
<1>4. \A p \in Proc : Shape(call'[p]) /\ CwdShape(p)'
  BY <1>1, BootAccounted DEF CwdShape
<1>5. \A f \in File : ftable'[f].ref = 0 /\ FileShape(f)'
  BY <1>1 DEF FileShape, NoFile
<1>6. FileRefs'
  BY <1>1, <1>5, BootAccounted DEF FileRefs, Descs
<1>7. ASSUME NEW i \in Inum
      PROVE  itable'[i].ref = Cardinality(CwdOn(cwd', i)) + Cardinality(OpenOn(ftable', i))
                             + Cardinality(Pointers(call', i))
  <2>1. itable'[i].ref = Cardinality(CwdOn(cwd', i)) /\ Cardinality(OpenOn(ftable', i)) = 0
        /\ Cardinality(Pointers(call', i)) = 0
    BY <1>1, BootAccounted
  <2>2. itable'[i].ref \in Nat
    BY <1>3 DEF TypeOK, EntryType
  <2> QED BY ONLY <2>1, <2>2
<1>8. InodeRefs'
  BY <1>7 DEF InodeRefs, Pointers, Fields, OpenOn, CwdOn
<1> QED BY <1>3, <1>4, <1>5, <1>6, <1>8 DEF Accounted, RefsExact

\* and after every step.
LEMMA NextAccounted == ASSUME Accounted, [Next]_vars PROVE Accounted'
<1>1. CASE UNCHANGED vars
  <2>1. UNCHANGED AllButPanic
    BY <1>1 DEF vars, AllButPanic
  <2> QED BY <2>1, PanicAccounted
<1>2. ASSUME NEW p \in Proc, CallStep(p) PROVE Accounted'
  <2>1. CASE IputLock(p) \/ IputFree(p) \/ IputDrop(p) \/ UnlockPutIp(p) \/ UnlockPutDp(p) \/ EndOp(p)
    BY <2>1, IputLockKeeps, IputFreeKeeps, IputDropKeeps, UnlockPutIpKeeps, UnlockPutDpKeeps, EndOpKeeps
  <2>2. CASE Namex(p) \/ CreateLookup(p) \/ CreateExists(p) \/ Ialloc(p) \/ IallocGet(p) \/ Fill(p)
    BY <2>2, NamexKeeps, CreateLookupKeeps, CreateExistsKeeps, IallocKeeps, IallocGetKeeps, FillKeeps
  <2>3. CASE Open(p) \/ OpenFile(p) \/ Chdir(p) \/ Link(p) \/ LinkNew(p) \/ LinkDir(p) \/ LinkUndo(p)
    BY <2>3, OpenKeeps, OpenFileKeeps, ChdirKeeps, LinkKeeps, LinkNewKeeps, LinkDirKeeps, LinkUndoKeeps
  <2>4. CASE Unlink(p) \/ UnlinkEntry(p) \/ Unlinked(p) \/ CloseOp(p) \/ Close(p, "exit") \/ ExitCwd(p)
    BY <2>4, UnlinkKeeps, UnlinkEntryKeeps, UnlinkedKeeps, CloseOpKeeps, CloseKeeps, ExitCwdKeeps
  <2> QED BY <1>2, <2>1, <2>2, <2>3, <2>4 DEF CallStep
<1>3. ASSUME NEW p \in Proc, Call(p) \/ Dup(p) \/ Close(p, "idle") \/ Exit(p) PROVE Accounted'
  BY <1>3, CallStartKeeps, DupKeeps, CloseKeeps, ExitKeeps
<1>4. ASSUME NEW p \in Proc, NEW q \in Proc, Fork(p, q) PROVE Accounted'
  BY <1>4, ForkKeeps
<1> QED BY <1>1, <1>2, <1>3, <1>4, CrashAccounted DEF Next

\* The first inductive invariant holds.
LEMMA FileAccounted == Spec => []Accounted
<1>1. Init => Accounted
  BY InitAccounted
<1>2. Accounted /\ [Next]_vars => Accounted'
  BY NextAccounted
<1> QED BY <1>1, <1>2, PTL DEF Spec

\* fs.c, "ip->ref tracks the number of in-memory pointers to the entry", and
\* likewise f->ref: at every step, on every error path.
THEOREM FileRefsExact == Spec => []RefsExact
<1>1. Accounted => RefsExact
  BY DEF Accounted
<1> QED BY <1>1, FileAccounted, PTL

\* Nobody is in a call, has a lock or a pending link when the machine boots.
LEMMA BootIdle ==
    /\ \A i \in Inum : /\ BootTable[i].ref = (IF i = ROOTINO THEN 1 ELSE 0) /\ ~ BootTable[i].valid
                       /\ BootTable[i].lock = None
    /\ \A p \in Proc : /\ ~ Pending(BootCall[p]) /\ New(BootCall[p]) = None /\ BootCall[p].pc # "trunc"
                       /\ \A i \in Inum : ~ Holds(BootCall[p], i) /\ ~ Uses(BootCall[p], i)
                       /\ BootCall[p].dp = None
                       /\ Place(BootCall[p]) \in {"idle", "dead"}
    /\ \A i \in Inum : Cardinality(PendingOn(BootCall, i)) = 0
    /\ \A p \in Proc : BootCwd[p] # None => BootCwd[p] = ROOTINO
<1>1. NoEntry \in EntryType /\ NoEntry.ref = 0 /\ ~ NoEntry.valid /\ NoEntry.lock = None
  BY DEF NoEntry, EntryType
<1>2. PICK e : e = [NoEntry EXCEPT !.ref = 1]
  OBVIOUS
<1>3. e.ref = 1 /\ ~ e.valid /\ e.lock = None
  BY <1>1, <1>2 DEF EntryType
<1>4. \A i \in Inum : BootTable[i] = IF i = ROOTINO THEN e ELSE NoEntry
  BY <1>2 DEF BootTable
<1>5. \A p \in Proc : BootCall[p] = IF p = Boot THEN Idle ELSE Dead
  BY DEF BootCall
<1>6. \A c \in {Idle, Dead} :
         /\ c.pc \in {"idle", "dead"} /\ c.at = None /\ c.ip = None /\ c.dp = None /\ c.put = None
         /\ c.inum = None
  BY DEF Idle, Dead
<1>7. \A c \in {Idle, Dead} :
         /\ ~ Pending(c) /\ New(c) = None /\ c.pc # "trunc" /\ Place(c) \in {"idle", "dead"}
         /\ \A i \in Inum : ~ Holds(c, i) /\ ~ Uses(c, i)
  BY <1>6, FileConstants DEF Pending, New, Place, Puts, Holds, HoldIp, HoldDp, Uses
<1>8. ASSUME NEW i \in Inum PROVE Cardinality(PendingOn(BootCall, i)) = 0
  <2>1. PendingOn(BootCall, i) = {}
    BY <1>5, <1>7 DEF PendingOn
  <2> QED BY <2>1, FS_EmptySet
<1>9. \A p \in Proc : BootCwd[p] # None => BootCwd[p] = ROOTINO
  BY DEF BootCwd
<1>10. \A i \in Inum : /\ BootTable[i].ref = (IF i = ROOTINO THEN 1 ELSE 0) /\ ~ BootTable[i].valid
                       /\ BootTable[i].lock = None
  BY <1>1, <1>3, <1>4
<1>11. \A p \in Proc : BootCall[p] \in {Idle, Dead}
  BY <1>5
<1> QED BY <1>6, <1>7, <1>8, <1>9, <1>10, <1>11

\* What the calls know when there are none: any disk will do.
LEMMA BootKnows ==
    ASSUME NEW fs, NEW l
    PROVE  /\ Locks(BootTable, BootCall) /\ Cached(fs, BootTable)
           /\ \A p \in Proc : Knows(fs, l, BootCall[p])
           /\ \A ft : \A p \in Proc : Fresh(BootCall, ft, p)
<1>1. Locks(BootTable, BootCall)
  BY BootIdle, FileConstants DEF Locks
<1>2. Cached(fs, BootTable)
  BY BootIdle DEF Cached
<1>3. ASSUME NEW p \in Proc PROVE Knows(fs, l, BootCall[p])
  <2>1. PICK c : c = BootCall[p]
    OBVIOUS
  <2>2. /\ ~ Pending(c) /\ New(c) = None /\ c.dp = None /\ Place(c) \in {"idle", "dead"}
        /\ \A i \in Inum : ~ Uses(c, i)
    BY <2>1, BootIdle
  <2>3. \A i \in Inum : ~ Firm(c, i)
    BY <2>2 DEF Uses, Firm
  <2> QED BY <2>1, <2>2, <2>3 DEF Knows
<1>4. \A ft : \A p \in Proc : Fresh(BootCall, ft, p)
  BY BootIdle DEF Fresh
<1> QED BY <1>1, <1>2, <1>3, <1>4

\* Between calls, no link is pending.
LEMMA Settled == Committed => \A i \in Inum : Cardinality(PendingOn(call, i)) = 0
<1>1. ASSUME Committed, NEW i \in Inum PROVE Cardinality(PendingOn(call, i)) = 0
  <2>1. \A p \in Proc : call[p].pc \in {"idle", "dead", "closing", "exit"}
    BY <1>1 DEF Committed, InOp
  <2>2. \A p \in Proc : ~ Pending(call[p])
    BY <2>1 DEF Pending, Place, Puts
  <2>3. PendingOn(call, i) = {}
    BY <2>2 DEF PendingOn
  <2> QED BY <2>3, FS_EmptySet
<1> QED BY <1>1

\* mkfs leaves a disk on which the root is the only directory.
LEMMA RootDisk ==
    ASSUME NEW fs, fs = [i \in Inum |-> IF i = ROOTINO THEN Root ELSE Free],
           NEW l \in [Inum -> Int], \A i \in Inum : l[i] = fs[i].nlink
    PROVE  Disk(fs, l)
<1>1. Names = Name \cup {".", ".."} /\ NoEnts \in [Names -> Inum \cup {None}]
      /\ \A n \in Names : NoEnts[n] = None
  BY DEF Names, NoEnts
<1>2. /\ Free.type = "free" /\ Free.nlink = 0 /\ Free.ents = NoEnts
      /\ Root.type = "dir" /\ Root.nlink = 1
      /\ \A n \in Names : Root.ents[n] = IF n \in {".", ".."} THEN ROOTINO ELSE None
  BY <1>1 DEF Free, Root
<1>3. \A i \in Inum : fs[i] = IF i = ROOTINO THEN Root ELSE Free
  OBVIOUS
<1>4. \A i \in Inum : Live(fs, l, i) <=> i = ROOTINO
  BY <1>2, <1>3 DEF Live
<1>5. Up2(fs, ROOTINO) = ROOTINO /\ fs[ROOTINO].ents["."] = ROOTINO
  BY <1>1, <1>2, <1>3, FileConstants DEF Up2
<1>6. \A n \in Name : fs[ROOTINO].ents[n] = None
  BY <1>1, <1>2, <1>3, FileConstants
<1>7. Tree(fs, l)
  BY <1>4, <1>5, <1>6, FileConstants DEF Tree
<1>8. Ranked(fs, l)
  <2>1. PICK rank : rank = [i \in Inum |-> 0]
    OBVIOUS
  <2>2. rank \in [Inum -> Nat]
    BY <2>1
  <2>3. \A i \in Inum : Live(fs, l, i) /\ i # ROOTINO => rank[i] < rank[Up2(fs, i)]
    BY <1>4
  <2> QED BY <2>2, <2>3 DEF Ranked
<1>9. ASSUME NEW i \in Inum PROVE l[i] = Cardinality(EntriesIn(fs, l, i))
  <2>1. \A d \in Inum : l[d] > 0 <=> d = ROOTINO
    BY <1>2, <1>3
  <2>2. CASE i = ROOTINO
    <3>1. EntriesIn(fs, l, i) = {<<ROOTINO, "..">>}
      BY <1>1, <1>2, <1>3, <2>1, <2>2, FileConstants DEF EntriesIn
    <3> QED BY <1>2, <1>3, <2>2, <3>1, FS_Singleton
  <2>3. CASE i # ROOTINO
    <3>1. EntriesIn(fs, l, i) = {}
      BY <1>1, <1>2, <1>3, <2>1, <2>3, FileConstants DEF EntriesIn
    <3> QED BY <1>2, <1>3, <2>3, <3>1, FS_EmptySet
  <2> QED BY <2>2, <2>3
<1>10. /\ \A i \in Inum : fs[i].type = "free" => fs[i] = Free
       /\ \A i \in Inum : fs[i].type = "file" => fs[i].ents = NoEnts
  BY <1>2, <1>3
<1> QED BY <1>7, <1>8, <1>9, <1>10 DEF Disk

\* The second inductive invariant holds when the machine starts,
LEMMA InitConsistent == ASSUME Init PROVE Consistent
<1>1. /\ itable = BootTable /\ ftable = [f \in File |-> NoFile] /\ cwd = BootCwd /\ call = BootCall
      /\ inode = [i \in Inum |-> IF i = ROOTINO THEN Root ELSE Free]
  BY DEF Init
<1>2. Accounted
  BY InitAccounted
<1>3. \A i \in Inum : links[i] = inode[i].nlink
  <2>1. \A i \in Inum : Cardinality(PendingOn(call, i)) = 0
    BY <1>1, BootIdle
  <2>2. \A i \in Inum : inode[i].nlink \in Int
    BY <1>2, LinksInt
  <2>3. \A i \in Inum : links[i] = inode[i].nlink - Cardinality(PendingOn(call, i))
    BY DEF links
  <2> QED BY <2>1, <2>2, <2>3
<1>4. links \in [Inum -> Int]
  <2>1. \A i \in Inum : links[i] \in Int
    BY <1>2, LinksInt
  <2> QED BY <2>1 DEF links
<1>5. Disk(inode, links)
  BY <1>1, <1>3, <1>4, RootDisk
<1>6. /\ Locks(itable, call) /\ Cached(inode, itable)
      /\ \A p \in Proc : Knows(inode, links, call[p]) /\ Fresh(call, ftable, p)
  BY <1>1, BootKnows
<1>7. \A p \in Proc : Truncates(call[p])
  BY <1>1, BootIdle DEF Truncates
<1>8. CwdLive
  BY <1>1, <1>5, BootIdle DEF CwdLive, Disk, Tree
<1>9. FilesUsed
  BY <1>1 DEF FilesUsed, NoFile
<1>10. \A i \in Inum : inode[i].type # "free" => inode[i].nlink = 1
  BY <1>1 DEF Root, Free
<1>11. Reclaimed /\ \A i \in Inum : UnreadAt(i)
  BY <1>10 DEF Reclaimed, Unused, UnreadAt
<1> QED BY <1>5, <1>6, <1>7, <1>8, <1>9, <1>11 DEF Consistent

\* A crash leaves the disk, and no call; what was unlinked and open is an orphan.
LEMMA CrashConsistent == ASSUME Accounted, Consistent, Crash PROVE Consistent'
<1>1. /\ itable' = BootTable /\ ftable' = [f \in File |-> NoFile] /\ cwd' = BootCwd /\ call' = BootCall
      /\ inode' = inode /\ orphans' = {i \in Inum : inode[i].type # "free" /\ inode[i].nlink = 0}
      /\ Committed
  BY DEF Crash
<1>2. \A i \in Inum : Cardinality(PendingOn(call, i)) = 0
  BY <1>1, Settled
<1>3. \A i \in Inum : Cardinality(PendingOn(call', i)) = 0
  BY <1>1, BootIdle
<1>4. links' = links
  <2>1. \A i \in Inum : inode[i].nlink - Cardinality(PendingOn(call, i))
                        = inode'[i].nlink - Cardinality(PendingOn(call', i))
    BY <1>1, <1>2, <1>3
  <2> QED BY <2>1 DEF links
<1>5. Disk(inode, links)'
  BY <1>1, <1>4 DEF Consistent
<1>6. /\ Locks(itable, call)' /\ Cached(inode, itable)'
      /\ \A p \in Proc : Knows(inode, links, call[p])' /\ Fresh(call, ftable, p)'
  <2>1. PICK l : l = links'
    OBVIOUS
  <2>2. PICK fs : fs = inode'
    OBVIOUS
  <2>3. /\ Locks(BootTable, BootCall) /\ Cached(fs, BootTable)
        /\ \A p \in Proc : Knows(fs, l, BootCall[p])
        /\ \A ft : \A p \in Proc : Fresh(BootCall, ft, p)
    BY BootKnows
  <2> QED BY <1>1, <2>1, <2>2, <2>3
<1>7. \A p \in Proc : Truncates(call[p])'
  BY <1>1, BootIdle DEF Truncates
<1>8. CwdLive'
  BY <1>1, <1>5, BootIdle DEF CwdLive, Disk, Tree
<1>9. FilesUsed'
  BY <1>1 DEF FilesUsed, NoFile
<1>10. Reclaimed' /\ \A i \in Inum : UnreadAt(i)'
  BY <1>1 DEF Reclaimed, Unused, UnreadAt
<1> QED BY <1>5, <1>6, <1>7, <1>8, <1>9, <1>10 DEF Consistent

\* and after every step, where directories in use are not removed.
LEMMA NextConsistent == ASSUME ~ RemoveInUse, Accounted, Consistent, [Next]_vars PROVE Consistent'
<1>1. CASE UNCHANGED vars
  <2>1. UNCHANGED AllButPanic
    BY <1>1 DEF vars, AllButPanic
  <2> QED BY <2>1, PanicConsistent
<1>2. ASSUME NEW p \in Proc, CallStep(p) PROVE Consistent'
  <2>1. CASE IputLock(p) \/ IputFree(p) \/ IputDrop(p) \/ UnlockPutIp(p) \/ UnlockPutDp(p) \/ EndOp(p)
    BY <2>1, IputLockKeeps, IputFreeKeeps, IputDropKeeps, UnlockPutIpKeeps, UnlockPutDpKeeps, EndOpKeeps
  <2>2. CASE Namex(p) \/ CreateLookup(p) \/ CreateExists(p) \/ Ialloc(p) \/ IallocGet(p) \/ Fill(p)
    BY <2>2, NamexKeeps, CreateLookupKeeps, CreateExistsKeeps, IallocKeeps, IallocGetKeeps, FillKeeps
  <2>3. CASE Open(p) \/ OpenFile(p) \/ Chdir(p) \/ Link(p) \/ LinkNew(p) \/ LinkDir(p) \/ LinkUndo(p)
    BY <2>3, OpenKeeps, OpenFileKeeps, ChdirKeeps, LinkKeeps, LinkNewKeeps, LinkDirKeeps, LinkUndoKeeps
  <2>4. CASE Unlink(p) \/ UnlinkEntry(p) \/ Unlinked(p) \/ CloseOp(p) \/ Close(p, "exit") \/ ExitCwd(p)
    BY <2>4, UnlinkKeeps, UnlinkEntryKeeps, UnlinkedKeeps, CloseOpKeeps, CloseKeeps, ExitCwdKeeps
  <2> QED BY <1>2, <2>1, <2>2, <2>3, <2>4 DEF CallStep
<1>3. ASSUME NEW p \in Proc, Call(p) \/ Dup(p) \/ Close(p, "idle") \/ Exit(p) PROVE Consistent'
  BY <1>3, CallStartKeeps, DupKeeps, CloseKeeps, ExitKeeps
<1>4. ASSUME NEW p \in Proc, NEW q \in Proc, Fork(p, q) PROVE Consistent'
  BY <1>4, ForkKeeps
<1> QED BY <1>1, <1>2, <1>3, <1>4, CrashConsistent DEF Next

\* The second inductive invariant holds.
LEMMA FileConsistent == ASSUME RemoveInUse = FALSE PROVE Spec => []Consistent
<1>1. Init => Consistent
  BY InitConsistent
<1>2. Accounted /\ Consistent /\ [Next]_vars => Consistent'
  BY NextConsistent
<1> QED BY <1>1, <1>2, FileAccounted, PTL DEF Spec

-----------------------------------------------------------------------------
(* Theorems of what the calls leave on the disk.                           *)

\* No inode is lost but those that were unlinked and open at a crash, and those
\* that iput() misses, where a directory is not removed while others use it.
THEOREM FileReclaimed == ASSUME RemoveInUse = FALSE PROVE Spec => []Reclaimed
<1>1. Consistent => Reclaimed
  BY DEF Consistent
<1> QED BY <1>1, FileConsistent, PTL

\* At a commit nothing is pending: the count is the number of entries.
LEMMA LinksCommitted == ASSUME Accounted, Consistent PROVE LinksExact
<1>1. SUFFICES ASSUME Committed, NEW i \in Inum
               PROVE  /\ inode[i].nlink = Cardinality(Entries(i))
                      /\ inode[i].type = "free" => inode[i].nlink = 0
                      /\ inode[i].type = "dir" /\ inode[i].nlink > 0 /\ i # ROOTINO =>
                            \E n \in Name : inode[inode[i].ents[".."]].ents[n] = i
  BY DEF LinksExact
<1>2. \A k \in Inum : links[k] = inode[k].nlink
  <2>1. \A k \in Inum : Cardinality(PendingOn(call, k)) = 0
    BY <1>1, Settled
  <2>2. \A k \in Inum : links[k] = inode[k].nlink - Cardinality(PendingOn(call, k))
    BY DEF links
  <2>3. \A k \in Inum : inode[k].nlink \in Int
    BY LinksInt
  <2> QED BY <2>1, <2>2, <2>3
<1>3. Entries(i) = EntriesIn(inode, links, i)
  BY <1>2 DEF Entries, EntriesIn
<1>4. Disk(inode, links)
  BY DEF Consistent
<1>5. inode[i].nlink = Cardinality(Entries(i))
  BY <1>2, <1>3, <1>4 DEF Disk
<1>6. inode[i].type = "free" => inode[i].nlink = 0
  BY <1>4, Records DEF Disk
<1>7. ASSUME inode[i].type = "dir", inode[i].nlink > 0, i # ROOTINO
      PROVE  \E n \in Name : inode[inode[i].ents[".."]].ents[n] = i
  <2>1. Live(inode, links, i)
    BY <1>2, <1>7 DEF Live
  <2> QED BY <1>4, <1>7, <2>1 DEF Disk, Tree, Up2
<1> QED BY <1>5, <1>6, <1>7

\* At every commit the links of an inode are the entries that name it, they name
\* inodes that are allocated, and every directory but the root is named by its
\* parent: so it is after a crash, too.
THEOREM FileLinksExact == ASSUME RemoveInUse = FALSE PROVE Spec => []LinksExact
<1>1. Accounted /\ Consistent => LinksExact
  BY LinksCommitted
<1> QED BY <1>1, FileAccounted, FileConsistent, PTL

-----------------------------------------------------------------------------
(* The assertions of fs.c, file.c and sysfile.c.                           *)

\* What a call is about to lock: its own pointer, in use, and what it should be.
LEMMA WantedIs ==
    ASSUME Accounted, Consistent, NEW p \in Proc, Wanted(p) # None
    PROVE  /\ Wanted(p) \in Inum /\ Has(call[p], Wanted(p)) /\ Uses(call[p], Wanted(p))
           /\ call[p].pc \in {"create", "unlink", "link_dir"} => Wanted(p) = call[p].dp
           /\ call[p].pc = "unlink_ip" => Wanted(p) = call[p].ip
           /\ call[p].pc = "fill" => Wanted(p) = call[p].ip
<1>1. PICK c : c = call[p]
  OBVIOUS
<1>2. c \in CallType
  BY <1>1, CallOf
<1>3. PICK w : w = Wanted(p)
  OBVIOUS
<1>4. /\ c.pc = "walk" => w = c.at
      /\ c.pc \in {"open", "chdir", "exists", "fill", "unlink_ip", "link", "link_undo"} => w = c.ip
      /\ c.pc \in {"create", "unlink", "link_dir"} => w = c.dp
      /\ c.pc \notin {"walk", "open", "chdir", "exists", "fill", "unlink_ip", "link", "link_undo",
                      "create", "unlink", "link_dir"} => w = None
  BY <1>1, <1>3 DEF Wanted
<1>5. w \in {c.at, c.ip, c.dp} /\ w # None
  BY <1>3, <1>4
<1>6. w \in Inum /\ Has(c, w) /\ Uses(c, w)
  BY <1>2, <1>5, CallFields DEF Has, Uses
<1> QED BY <1>1, <1>3, <1>4, <1>6

\* What a call locks is as ilock(), dirlookup() and unlink() expect it.
LEMMA NoFault == ASSUME Accounted, Consistent, NEW p \in Proc, Wanted(p) # None PROVE Fault(p) = "no"
<1>1. PICK c : c = call[p]
  OBVIOUS
<1>2. PICK w : w = Wanted(p)
  OBVIOUS
<1>3. /\ w \in Inum /\ Has(c, w) /\ Uses(c, w)
      /\ c.pc \in {"create", "unlink", "link_dir"} => w = c.dp
      /\ c.pc = "unlink_ip" => w = c.ip
  BY <1>1, <1>2, WantedIs
<1>4. inode[w].type # "free" /\ Loaded(w).type = inode[w].type /\ Loaded(w).nlink = inode[w].nlink
  BY <1>1, <1>3, Read
<1>5. Knows(inode, links, c) /\ c \in CallType /\ Shape(c)
  BY <1>1, CallOf DEF Consistent
<1>6. ASSUME c.pc \in {"create", "unlink", "link_dir"} PROVE inode[w].type = "dir"
  <2>1. c.dp # None
    BY <1>3, <1>6, FileConstants
  <2> QED BY <1>3, <1>5, <1>6, <2>1 DEF Knows
<1>7. ASSUME c.pc = "unlink_ip" PROVE inode[w].nlink >= 1
  <2>1. PICK d : d = c.dp
    OBVIOUS
  <2>2. d \in Inum /\ d # None /\ Place(c) = "unlink_ip"
    BY <1>5, <1>7, <2>1, CallFields DEF Shape, Place, Puts, HasDp
  <2>3. Firm(c, d) /\ Uses(c, d) /\ inode[d].type = "dir"
    BY <1>5, <2>1, <2>2 DEF Firm, Uses, Knows
  <2>4. Live(inode, links, d)
    BY <1>5, <2>2, <2>3 DEF Knows, Live
  <2>5. PICK n : n = Head(c.path)
    OBVIOUS
  <2>6. n \in Name /\ inode[d].ents[n] = w /\ w # None
    BY <1>3, <1>5, <1>7, <2>1, <2>2, <2>5, FileConstants DEF Knows
  <2>7. links[w] > 0
    BY <2>2, <2>4, <2>6, EntryLinked DEF Names
  <2>8. inode[w].nlink > 0 /\ inode[w].nlink \in Int
    BY <1>3, <2>7, LinkedUsed, LinksInt
  <2> QED BY ONLY <2>8
<1>8. PICK e : e = Loaded(w)
  OBVIOUS
<1>9. e.type # "free" /\ (c.pc \in {"create", "unlink", "link_dir"} => e.type = "dir")
  BY <1>4, <1>6, <1>8
<1>10. c.pc = "unlink_ip" => ~ (e.nlink < 1)
  <2>1. inode[w].nlink \in Int
    BY <1>3, LinksInt
  <2> QED BY <1>4, <1>7, <1>8, <2>1
<1> QED BY <1>1, <1>2, <1>8, <1>9, <1>10 DEF Fault, At

\* iput() does not sleep with itable.lock held.
LEMMA LastUnlocked ==
    ASSUME Accounted, Consistent, NEW p \in Proc, At(p, "put"), LastPut(itable[call[p].put])
    PROVE  itable[call[p].put].lock = None
<1>1. PICK c : c = call[p]
  OBVIOUS
<1>2. PICK i : i = c.put
  OBVIOUS
<1>3. c \in CallType /\ Shape(c) /\ c.pc = "put" /\ itable[i].ref = 1
  BY <1>1, <1>2, CallOf DEF At, LastPut
<1>4. i \in Inum /\ "put" \in Fields
  BY <1>2, <1>3, CallFields DEF Shape, Puts, Fields
<1>5. SUFFICES ASSUME itable[i].lock # None PROVE FALSE
  BY <1>1, <1>2
<1>6. PICK r \in Proc : itable[i].lock = r
  BY <1>4, <1>5 DEF Accounted, TypeOK, EntryType
<1>7. Holds(call[r], i)
  BY <1>4, <1>6, HeldBy
<1>8. \A q \in Proc, m \in Fields : call[q][m] = i => q = p /\ m = "put"
  BY <1>1, <1>2, <1>3, <1>4, Sole
<1>9. call[r].ip # i /\ call[r].dp # i
  BY <1>8 DEF Fields
<1>10. call[r].pc = "trunc" /\ call[r].put = i
  BY <1>7, <1>9 DEF Holds
<1>11. r = p
  BY <1>4, <1>8, <1>10
<1> QED BY <1>1, <1>3, <1>10, <1>11

\* iget() has an entry for every inode if the table is as large as the disk.
LEMMA TableRoom ==
    ASSUME Cardinality(Inum) <= NINODE, NEW i \in Inum, i \notin InTable
    PROVE  Cardinality(InTable) # NINODE
<1>1. IsFiniteSet(Inum) /\ InTable \subseteq Inum
  BY Finite DEF InTable
<1>2. IsFiniteSet(InTable) /\ Cardinality(InTable) <= Cardinality(Inum)
      /\ (Cardinality(InTable) = Cardinality(Inum) => InTable = Inum)
  BY <1>1, FS_Subset
<1>3. InTable # Inum
  OBVIOUS
<1>4. Cardinality(InTable) \in Nat /\ Cardinality(Inum) \in Nat /\ NINODE \in Nat
  BY <1>1, <1>2, FS_CardinalityType, FileConstants
<1>5. Cardinality(InTable) # Cardinality(Inum)
  BY <1>2, <1>3
<1> QED BY ONLY <1>2, <1>4, <1>5, Cardinality(Inum) <= NINODE

\* What iget() panics with.
Full == "iget: no inodes"

\* iget() panics only without an entry for every inode.
LEMMA GetPanics ==
    ASSUME NEW p, NEW i \in Inum, NEW tab, NEW c, Get(p, i, tab, c)
    PROVE  panicked' = panicked \/ (panicked' = Full /\ ~ (Cardinality(Inum) <= NINODE))
<1>1. CASE i \notin InTable /\ Cardinality(InTable) = NINODE
  BY <1>1, TableRoom DEF Get, Panic, Full
<1>2. CASE ~ (i \notin InTable /\ Cardinality(InTable) = NINODE)
  BY <1>2 DEF Get, Step, Write
<1> QED BY <1>1, <1>2

\* Where a call waits for a lock.
Waits == {"walk", "open", "chdir", "exists", "fill", "unlink_ip", "link", "link_undo", "create", "unlink",
          "link_dir"}

\* There it wants an inode.
LEMMA WaitsWant == ASSUME Accounted, NEW p \in Proc, call[p].pc \in Waits PROVE Wanted(p) # None
<1>1. PICK c : c = call[p]
  OBVIOUS
<1>2. c \in CallType /\ Shape(c) /\ c.pc \in Waits
  BY <1>1, CallOf
<1>3. Place(c) = c.pc
  BY <1>2 DEF Place, Waits, Puts
<1>4. /\ c.pc = "walk" => c.at # None
      /\ c.pc \in {"open", "chdir", "exists", "fill", "unlink_ip", "link", "link_undo"} => c.ip # None
      /\ c.pc \in {"create", "unlink", "link_dir"} => c.dp # None
  BY <1>2, <1>3 DEF Shape, HasDp, HasIp
<1> QED BY <1>1, <1>2, <1>4 DEF Wanted, Waits

\* What a call finds in a directory is an inode or nothing.
LEMMA Looked ==
    ASSUME Accounted, Consistent, NEW p \in Proc, NEW i \in Inum, call[p].path # <<>>
    PROVE  Dirlookup(i, Head(call[p].path)) \in Inum \cup {None}
<1>1. call[p].path \in Seq(Names)
  BY CallOf, CallFields
<1>2. Head(call[p].path) \in Names
  BY <1>1
<1> QED BY <1>2 DEF Accounted, TypeOK, InodeType, Dirlookup

\* The step does not panic, but for a full table.
Calm == panicked' = panicked \/ (panicked' = Full /\ ~ (Cardinality(Inum) <= NINODE))

\* ilock() panics for none of the calls: what they do then is what they were to do.
LEMMA IlockCalm ==
    ASSUME Accounted, Consistent, NEW p \in Proc, call[p].pc \in Waits
    PROVE  Fault(p) = "no" /\ Wanted(p) \in Inum
  BY WaitsWant, NoFault, WantedIs

\* A call that looks a name up has one.
LEMMA PathLeft ==
    ASSUME Accounted, NEW p \in Proc, call[p].pc \in {"walk", "create", "unlink", "link_dir"}
    PROVE  call[p].path # <<>>
<1>1. PICK c : c = call[p]
  OBVIOUS
<1>2. Shape(c) /\ c.pc \in {"walk", "create", "unlink", "link_dir"}
  BY <1>1, CallOf
<1>3. Place(c) \in Onward
  BY <1>2 DEF Place, Puts, Onward
<1> QED BY <1>1, <1>2, <1>3 DEF Shape

\* Nor do the calls that look a name up,
LEMMA WalkCalm ==
    ASSUME Accounted, Consistent, NEW p \in Proc, Namex(p) \/ CreateLookup(p) \/ LinkDir(p) \/ Unlink(p)
    PROVE  Calm
<1>1. PICK c : c = call[p]
  OBVIOUS
<1>2. c.pc \in {"walk", "create", "unlink", "link_dir"}
  BY <1>1 DEF Namex, CreateLookup, LinkDir, Unlink, Ilock, At
<1>3. PICK w : w = Wanted(p)
  OBVIOUS
<1>4. Fault(p) = "no" /\ w \in Inum
  BY <1>1, <1>2, <1>3, IlockCalm DEF Waits
<1>5. /\ c.pc = "walk" => w = c.at
      /\ c.pc \in {"create", "unlink", "link_dir"} => w = c.dp
  BY <1>1, <1>3 DEF Wanted
<1>6. PICK j : j = Dirlookup(w, Head(c.path))
  OBVIOUS
<1>7. j \in Inum \cup {None}
  BY <1>1, <1>2, <1>4, <1>6, PathLeft, Looked
<1>8. CASE Namex(p)
  <2>1. c.pc = "walk" /\ w = c.at
    BY <1>1, <1>5, <1>8 DEF Namex, Ilock, At
  <2>2. \/ \E tab, e : Step(p, tab, e)
        \/ j # None /\ \E e : Get(p, j, Seen(w), e)
    BY <1>1, <1>4, <1>6, <1>8, <2>1, Zenon DEF Namex, Ilock
  <2>3. CASE \E tab, e : Step(p, tab, e)
    BY <2>3 DEF Step, Write, Calm
  <2>4. CASE j # None /\ \E e : Get(p, j, Seen(w), e)
    <3>1. PICK e : Get(p, j, Seen(w), e)
      BY <2>4
    <3> QED BY <1>7, <2>4, <3>1, GetPanics DEF Calm
  <2> QED BY <2>2, <2>3, <2>4
<1>9. CASE CreateLookup(p)
  <2>1. c.pc = "create" /\ w = c.dp
    BY <1>1, <1>5, <1>9 DEF CreateLookup, Ilock, At
  <2>2. \/ \E tab, e : Step(p, tab, e)
        \/ j # None /\ \E tab, e : Get(p, j, tab, e)
    BY <1>1, <1>4, <1>6, <1>9, <2>1, Zenon DEF CreateLookup, Ilock
  <2>3. CASE \E tab, e : Step(p, tab, e)
    BY <2>3 DEF Step, Write, Calm
  <2>4. CASE j # None /\ \E tab, e : Get(p, j, tab, e)
    <3>1. PICK tab, e : Get(p, j, tab, e)
      BY <2>4
    <3> QED BY <1>7, <2>4, <3>1, GetPanics DEF Calm
  <2> QED BY <2>2, <2>3, <2>4
<1>10. CASE Unlink(p)
  <2>1. c.pc = "unlink" /\ w = c.dp
    BY <1>1, <1>5, <1>10 DEF Unlink, Ilock, At
  <2>2. \/ \E tab, e : Step(p, tab, e)
        \/ j # None /\ \E tab, e : Get(p, j, tab, e)
    BY <1>1, <1>4, <1>6, <1>10, <2>1, Zenon DEF Unlink, Ilock
  <2>3. CASE \E tab, e : Step(p, tab, e)
    BY <2>3 DEF Step, Write, Calm
  <2>4. CASE j # None /\ \E tab, e : Get(p, j, tab, e)
    <3>1. PICK tab, e : Get(p, j, tab, e)
      BY <2>4
    <3> QED BY <1>7, <2>4, <3>1, GetPanics DEF Calm
  <2> QED BY <2>2, <2>3, <2>4
<1>11. CASE LinkDir(p)
  <2>1. c.pc = "link_dir" /\ w = c.dp
    BY <1>1, <1>5, <1>11 DEF LinkDir, Ilock, At
  <2>2. \/ \E fs, tab, e : Write(p, fs, tab, e)
        \/ \E tab, e : Step(p, tab, e)
        \/ j # None /\ \E tab, e : Get(p, j, tab, e)
    BY <1>1, <1>4, <1>6, <1>11, <2>1, Zenon DEF LinkDir, Ilock
  <2>3. CASE (\E tab, e : Step(p, tab, e)) \/ \E fs, tab, e : Write(p, fs, tab, e)
    BY <2>3 DEF Step, Write, Calm
  <2>4. CASE j # None /\ \E tab, e : Get(p, j, tab, e)
    <3>1. PICK tab, e : Get(p, j, tab, e)
      BY <2>4
    <3> QED BY <1>7, <2>4, <3>1, GetPanics DEF Calm
  <2> QED BY <2>2, <2>3, <2>4
<1> QED BY <1>8, <1>9, <1>10, <1>11

\* those that lock an inode and write,
LEMMA LockCalm ==
    ASSUME Accounted, Consistent, NEW p \in Proc,
           CreateExists(p) \/ Fill(p) \/ Open(p) \/ Chdir(p) \/ Link(p) \/ LinkUndo(p) \/ UnlinkEntry(p)
    PROVE  Calm
<1>1. call[p].pc \in {"exists", "fill", "open", "chdir", "link", "link_undo", "unlink_ip"}
  BY DEF CreateExists, Fill, Open, Chdir, Link, LinkUndo, UnlinkEntry, Ilock, At
<1>2. Fault(p) = "no"
  BY <1>1, IlockCalm DEF Waits
<1>3. panicked' = panicked \/ \E fs, tab, e : Write(p, fs, tab, e)
  <2>1. CASE CreateExists(p)
    BY <1>2, <2>1, Zenon DEF CreateExists, Ilock, Step
  <2>2. CASE Fill(p)
    BY <1>2, <2>2, Zenon DEF Fill, Ilock
  <2>3. CASE Open(p)
    BY <1>2, <2>3, Zenon DEF Open, Ilock, Step
  <2>4. CASE Chdir(p)
    BY <1>2, <2>4 DEF Chdir, Ilock
  <2>5. CASE Link(p)
    BY <1>2, <2>5, Zenon DEF Link, Ilock, Step
  <2>6. CASE LinkUndo(p)
    BY <1>2, <2>6, Zenon DEF LinkUndo, Ilock
  <2>7. CASE UnlinkEntry(p)
    BY <1>2, <2>7, Zenon DEF UnlinkEntry, Ilock, Step
  <2> QED BY <2>1, <2>2, <2>3, <2>4, <2>5, <2>6, <2>7
<1> QED BY <1>3 DEF Write, Calm

\* those that begin with a path or a new inode,
LEMMA LookupCalm == ASSUME Accounted, NEW p \in Proc, Call(p) \/ LinkNew(p) \/ IallocGet(p) PROVE Calm
<1>1. PICK c : c = call[p]
  OBVIOUS
<1>2. c \in CallType /\ Shape(c)
  BY <1>1, CallOf
<1>3. c.pc \in {"idle", "link_new", "iget"}
  BY <1>1 DEF Call, LinkNew, IallocGet, At
<1>4. CASE IallocGet(p)
  <2>1. c.inum \in Inum
    <3>1. c.pc = "iget"
      BY <1>1, <1>4 DEF IallocGet, At
    <3> QED BY <1>2, <3>1, CallFields DEF Shape
  <2>2. \E e : Get(p, c.inum, itable, e)
    BY <1>1, <1>4, Zenon DEF IallocGet
  <2> QED BY <2>1, <2>2, GetPanics DEF Calm
<1>5. CASE Call(p) \/ LinkNew(p)
  <2>1. cwd[p] \in Inum
    <3>1. c.pc # "dead" /\ c.op # "die"
      <4>1. Place(c) = c.pc /\ c.pc \in {"idle", "link_new"}
        BY <1>1, <1>3, <1>5 DEF Place, Puts, Call, LinkNew, At
      <4> QED BY <1>2, <4>1 DEF Shape
    <3> QED BY <1>1, <3>1 DEF Accounted, CwdShape, TypeOK
  <2>2. \E path, e : Lookup(p, path, e)
    BY <1>5, Zenon DEF Call, LinkNew
  <2>3. PICK path, e : Lookup(p, path, e)
    BY <2>2
  <2>4. PICK i : i = IF path.abs THEN ROOTINO ELSE cwd[p]
    OBVIOUS
  <2>5. i \in Inum
    BY <2>1, <2>4, FileConstants
  <2>6. \E f : Get(p, i, itable, f)
    BY <2>3, <2>4, Zenon DEF Lookup
  <2> QED BY <2>5, <2>6, GetPanics DEF Calm
<1> QED BY <1>4, <1>5

\* and the rest.
LEMMA RestCalm ==
    ASSUME Accounted, Consistent, NEW p \in Proc,
           \/ IputLock(p) \/ IputFree(p) \/ IputDrop(p) \/ UnlockPutIp(p) \/ UnlockPutDp(p) \/ EndOp(p)
           \/ Ialloc(p) \/ OpenFile(p) \/ Unlinked(p) \/ CloseOp(p) \/ Close(p, "exit") \/ ExitCwd(p)
           \/ Dup(p) \/ Close(p, "idle") \/ Exit(p) \/ \E q \in Proc : Fork(p, q)
    PROVE  Calm
<1>1. CASE IputLock(p)
  <2>1. At(p, "put") /\ LastPut(itable[call[p].put])
    BY <1>1 DEF IputLock
  <2>2. itable[call[p].put].lock = None
    BY <2>1, LastUnlocked
  <2>3. \E tab, e : Step(p, tab, e)
    BY <1>1, <2>2, Zenon DEF IputLock
  <2> QED BY <2>3 DEF Step, Write, Calm
<1>2. CASE IputFree(p) \/ UnlockPutIp(p) \/ UnlockPutDp(p) \/ EndOp(p) \/ Unlinked(p) \/ CloseOp(p) \/ Ialloc(p)
  <2>1. \E fs, tab, e : Write(p, fs, tab, e)
    <3>1. CASE IputFree(p) \/ UnlockPutIp(p) \/ UnlockPutDp(p) \/ EndOp(p) \/ Unlinked(p) \/ CloseOp(p)
      BY <3>1, Zenon DEF IputFree, UnlockPutIp, UnlockPutDp, EndOp, Unlinked, CloseOp, Step
    <3>2. CASE Ialloc(p)
      BY <3>2, Zenon DEF Ialloc, Step
    <3> QED BY <1>2, <3>1, <3>2
  <2> QED BY <2>1 DEF Write, Calm
<1>3. CASE IputDrop(p) \/ ExitCwd(p) \/ Dup(p) \/ Exit(p) \/ \E q \in Proc : Fork(p, q)
  BY <1>3 DEF IputDrop, ExitCwd, Dup, Exit, Fork, Calm
<1>4. CASE Close(p, "exit") \/ Close(p, "idle")
  BY <1>4, Zenon DEF Close, Calm
<1>5. CASE OpenFile(p)
  <2>1. panicked' = panicked \/ \E tab, e : Step(p, tab, e)
    BY <1>5, Zenon DEF OpenFile
  <2> QED BY <2>1 DEF Step, Write, Calm
<1> QED BY <1>1, <1>2, <1>3, <1>4, <1>5

\* No step panics, but for a full table.
LEMMA NextCalm == ASSUME Accounted, Consistent, Next PROVE Calm
<1>1. ASSUME NEW p \in Proc, CallStep(p) PROVE Calm
  BY <1>1, WalkCalm, LockCalm, LookupCalm, RestCalm DEF CallStep
<1>2. ASSUME NEW p \in Proc, Call(p) \/ Dup(p) \/ Close(p, "idle") \/ Exit(p) \/ \E q \in Proc : Fork(p, q)
      PROVE  Calm
  BY <1>2, LookupCalm, RestCalm
<1>3. CASE Crash
  BY <1>3 DEF Crash, Calm
<1> QED BY <1>1, <1>2, <1>3 DEF Next

\* Of the assertions of fs.c, file.c and sysfile.c only that of a full inode
\* table can fail.
OnlyFull == panicked \in {"no", "iget: no inodes"}

\* Whatever the size of the inode table, no other assertion fails: the inode that
\* a call locks is allocated, a directory where one is expected and has links
\* where unlink() expects them, and iput() finds the lock of the last reference
\* free.
THEOREM FilePanics == ASSUME RemoveInUse = FALSE PROVE Spec => []OnlyFull
<1>1. Init => OnlyFull
  BY DEF Init, OnlyFull
<1>2. Accounted /\ Consistent /\ OnlyFull /\ [Next]_vars => OnlyFull'
  BY NextCalm DEF Calm, Full, vars, OnlyFull
<1> QED BY <1>1, <1>2, FileAccounted, FileConsistent, PTL DEF Spec

\* With an entry for every inode, none fails.
THEOREM FileNoPanic ==
    ASSUME RemoveInUse = FALSE, Cardinality(Inum) <= NINODE
    PROVE  Spec => []NoPanic
<1>1. Init => NoPanic
  BY DEF Init, NoPanic
<1>2. Accounted /\ Consistent /\ NoPanic /\ [Next]_vars => NoPanic'
  BY NextCalm DEF Calm, NoPanic, vars
<1> QED BY <1>1, <1>2, FileAccounted, FileConsistent, PTL DEF Spec

-----------------------------------------------------------------------------
(* The order in which inodes are locked.                                   *)

\* The order by which a least rank is found.
RankLess == {ss \in Nat \X Nat : ss[1] < ss[2]}

\* Who holds an inode and waits for another is filling in a new inode, or
\* about to unlink one: both hold the directory.
LEMMA HolderWaits ==
    ASSUME Accounted, Consistent, NEW q \in Proc, Wanted(q) # None, NEW i \in Inum, itable[i].lock = q
    PROVE  call[q].pc \in {"fill", "unlink_ip"} /\ call[q].dp = i
<1>1. PICK c : c = call[q]
  OBVIOUS
<1>2. Holds(c, i) /\ c \in CallType
  BY <1>1, HeldBy, CallOf
<1>3. c.pc \in Waits
  BY <1>1 DEF Wanted, Waits
<1>4. Place(c) = c.pc /\ c.pc # "trunc"
  BY <1>3 DEF Place, Waits, Puts
<1>5. c.pc \notin HoldIp /\ (c.pc \in HoldDp => c.pc \in {"fill", "unlink_ip"})
  BY <1>3 DEF Waits, HoldIp, HoldDp
<1> QED BY <1>1, <1>2, <1>4, <1>5 DEF Holds

\* Nobody holds an inode that is being filled in.
LEMMA FillUnlocked ==
    ASSUME Accounted, Consistent, NEW q \in Proc, call[q].pc = "fill", NEW r \in Proc, Wanted(r) # None
    PROVE  itable[Wanted(q)].lock # r
<1>1. PICK i : i = Wanted(q)
  OBVIOUS
<1>2. i \in Inum /\ i = call[q].ip
  BY <1>1, WaitsWant, WantedIs DEF Waits
<1>3. SUFFICES ASSUME itable[i].lock = r PROVE FALSE
  BY <1>1
<1>4. call[r].dp = i /\ Uses(call[r], i)
  BY <1>2, <1>3, HolderWaits DEF Uses
<1>5. New(call[q]) = i /\ i # None
  BY <1>2, FileConstants DEF New
<1>6. Fresh(call, ftable, q)
  BY DEF Consistent
<1>7. r = q
  BY <1>4, <1>5, <1>6 DEF Fresh
<1>8. PICK d : d = call[q].dp
  OBVIOUS
<1>9. d \in Inum
  BY <1>2, <1>4, <1>7, <1>8
<1>10. i # d
  BY <1>2, <1>8, <1>9, Filling
<1> QED BY <1>4, <1>7, <1>8, <1>10

\* A call that unlinks waits for an entry of the directory that it holds.
LEMMA UnlinkDown ==
    ASSUME Accounted, Consistent, NEW rank \in [Inum -> Nat],
           \A i \in Inum : Live(inode, links, i) /\ i # ROOTINO => rank[i] < rank[Up2(inode, i)],
           NEW q \in Proc, call[q].pc = "unlink_ip", NEW r \in Proc, Wanted(r) # None,
           itable[Wanted(q)].lock = r, call[r].pc = "unlink_ip"
    PROVE  /\ call[q].dp \in Inum /\ call[r].dp \in Inum
           /\ rank[call[r].dp] < rank[call[q].dp]
<1>1. PICK i : i = Wanted(q)
  OBVIOUS
<1>2. i \in Inum /\ i = call[q].ip
  BY <1>1, WaitsWant, WantedIs DEF Waits
<1>3. call[r].dp = i
  BY <1>1, <1>2, HolderWaits
<1>4. ASSUME NEW s \in Proc, call[s].pc = "unlink_ip", NEW d, d = call[s].dp
      PROVE  d \in Inum /\ Live(inode, links, d)
  <2>1. PICK c : c = call[s]
    OBVIOUS
  <2>2. c \in CallType /\ Shape(c) /\ c.pc = "unlink_ip" /\ Knows(inode, links, c)
    BY <1>4, <2>1, CallOf DEF Consistent
  <2>3. d = c.dp /\ d \in Inum /\ d # None
    BY <1>4, <2>1, <2>2, CallFields DEF Shape, Place, Puts, HasDp
  <2>4. Firm(c, d) /\ inode[d].type = "dir"
    BY <2>2, <2>3 DEF Firm, Knows
  <2> QED BY <2>2, <2>3, <2>4 DEF Knows, Live
<1>5. PICK d : d = call[q].dp
  OBVIOUS
<1>6. d \in Inum /\ Live(inode, links, d) /\ Live(inode, links, i)
  BY <1>2, <1>3, <1>4, <1>5
<1>7. PICK n : n = Head(call[q].path)
  OBVIOUS
<1>8. n \in Name /\ inode[d].ents[n] = i
  <2>1. Knows(inode, links, call[q]) /\ Place(call[q]) = "unlink_ip"
    BY DEF Consistent, Place, Puts
  <2> QED BY <1>2, <1>5, <1>7, <2>1 DEF Knows
<1>9. i # ROOTINO /\ Up2(inode, i) = d
  <2>1. Tree(inode, links)
    BY DEF Consistent, Disk
  <2>2. \A j, k \in Inum, m \in Name : Live(inode, links, j) /\ Live(inode, links, k) /\ inode[j].ents[m] = k =>
           k # ROOTINO /\ Up2(inode, k) = j
    BY <2>1 DEF Tree
  <2> QED BY <1>2, <1>6, <1>8, <2>2
<1>10. rank[i] < rank[d]
  BY <1>2, <1>6, <1>9
<1> QED BY <1>2, <1>3, <1>5, <1>6, <1>10

\* The least directory that is held by one who waits is waited for by nobody.
LEMMA WaitsEnd == ASSUME Accounted, Consistent PROVE NoWaitCycle
<1>1. SUFFICES ASSUME NEW S \in (SUBSET Proc) \ {{}},
                      \A p \in S : Wanted(p) # None /\ itable[Wanted(p)].lock \in S
               PROVE  FALSE
  BY DEF NoWaitCycle
<1>2. PICK rank \in [Inum -> Nat] :
          \A i \in Inum : Live(inode, links, i) /\ i # ROOTINO => rank[i] < rank[Up2(inode, i)]
  BY DEF Consistent, Disk, Ranked
<1>3. PICK H : H = {q \in S : \E p \in S : itable[Wanted(p)].lock = q}
  OBVIOUS
<1>4. H # {}
  <2>1. PICK p \in S : TRUE
    BY <1>1
  <2>2. itable[Wanted(p)].lock \in H
    BY <1>1, <1>3, <2>1
  <2> QED BY <2>2
<1>5. ASSUME NEW q \in H PROVE /\ q \in S /\ q \in Proc /\ call[q].pc = "unlink_ip" /\ call[q].dp \in Inum
  <2>1. q \in S /\ q \in Proc
    BY <1>1, <1>3
  <2>2. PICK p \in S : itable[Wanted(p)].lock = q
    BY <1>3
  <2>3. Wanted(p) \in Inum /\ Wanted(q) # None
    BY <1>1, <2>1, WantedIs
  <2>4. call[q].pc \in {"fill", "unlink_ip"} /\ call[q].dp = Wanted(p)
    BY <2>1, <2>2, <2>3, HolderWaits
  <2>5. PICK r : r = itable[Wanted(q)].lock
    OBVIOUS
  <2>6. r \in S /\ r \in Proc /\ Wanted(r) # None
    BY <1>1, <2>1, <2>5
  <2>7. call[q].pc # "fill"
    BY <2>1, <2>5, <2>6, FillUnlocked
  <2> QED BY <2>1, <2>3, <2>4, <2>7
<1>6. PICK T : T = {rank[call[q].dp] : q \in H}
  OBVIOUS
<1>7. T \subseteq Nat /\ T # {}
  BY <1>4, <1>5, <1>6
<1>8. IsWellFoundedOn(RankLess, Nat)
  BY NatLessThanWellFounded DEF OpToRel, RankLess
<1>9. PICK x \in T : \A y \in T : ~ (<<y, x>> \in RankLess)
  BY <1>7, <1>8, WFMin
<1>10. PICK q \in H : x = rank[call[q].dp]
  BY <1>6, <1>9
<1>11. PICK r : r = itable[Wanted(q)].lock
  OBVIOUS
<1>12. r \in S /\ r \in H
  BY <1>1, <1>3, <1>5, <1>10, <1>11
<1>13. rank[call[r].dp] < rank[call[q].dp] /\ rank[call[r].dp] \in T
  <2>1. /\ q \in Proc /\ call[q].pc = "unlink_ip" /\ r \in Proc /\ call[r].pc = "unlink_ip"
        /\ Wanted(r) # None
    BY <1>1, <1>5, <1>10, <1>12
  <2>2. rank[call[r].dp] < rank[call[q].dp]
    BY <1>2, <1>11, <2>1, UnlinkDown
  <2> QED BY <1>6, <1>12, <2>2
<1> QED BY <1>7, <1>9, <1>10, <1>13 DEF RankLess

\* No processes wait for the inode locks of each other: who holds one and waits
\* for another goes down the tree of directories, or waits for a new inode.
THEOREM FileNoWaitCycle == ASSUME RemoveInUse = FALSE PROVE Spec => []NoWaitCycle
<1>1. Accounted /\ Consistent => NoWaitCycle
  BY WaitsEnd
<1> QED BY <1>1, FileAccounted, FileConsistent, PTL
=============================================================================
