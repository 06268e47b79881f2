-------------------------- MODULE PageTablesProofs --------------------------
(***************************************************************************)
(* Proofs about PageTables, for any number of processes and pages, any     *)
(* page size and geometry, and any choice kalloc() makes.                  *)
(*                                                                         *)
(* The inductive invariant adds to TypeOK and page ownership what each     *)
(* path knows about the process it works on: whom it works for (Workers),  *)
(* how far its loop is (Cursor), which table it holds (Tables), and which  *)
(* pointers are null where the code assigns them without looking (Vars,    *)
(* Roots).                                                                 *)
(*                                                                         *)
(* The image invariant ImgInv, further down, adds what the tables map: the *)
(* whole image of every process that no call works on (Rests), and at each *)
(* point of a call exactly what it has mapped so far (Works).  From both   *)
(* follow the other invariants and the refinement of ProcessImages.        *)
(***************************************************************************)
EXTENDS PageTables, FiniteSetTheorems, TLAPS

Busy(p) == op[p].pc # "user"

\* Every page is on the free list or held by one slot, never both.
Own ==
    /\ \A s1, s2 \in Slot : ptr[s1] = ptr[s2] /\ ptr[s1] # Null => s1 = s2
    /\ \A pg \in Page : free[pg] = 1 <=> \A s \in Slot : ptr[s] # pg

\* Whom a system call works on, and that no two calls work on the same one.
Worker(p, o) ==
    /\ o.t[1] = o.q
    /\ o.call # "none"
    /\ o.call = "userinit" => p = InitProc /\ o.q = p /\ state[p] = "USED"
    /\ o.call # "userinit" => state[p] = "RUNNABLE"
    /\ o.call = "fork" => o.q # p /\ state[o.q] = "USED"
    /\ o.call = "wait" => state[o.q] = "ZOMBIE" /\ parent[o.q] = p
    /\ o.call \in {"exec", "sbrk"} => o.q = p
Workers ==
    /\ \A p \in Proc : Busy(p) => Worker(p, op[p])
    /\ \A p, r \in Proc : Busy(p) /\ Busy(r) /\ op[p].q = op[r].q => p = r

\* Which call can be where, where it goes next, and the range of its loop.
InLoop(o) == o.pc = "alloc" \/ (o.pc \in {"map", "mapfail"} /\ o.a \notin Fixed)
Cursor(o) ==
    /\ o.pc \in {"trapframe", "usyscall"} => o.call \in {"userinit", "fork"}
    /\ o.pc = "root" => o.call \in {"userinit", "fork", "exec"}
    /\ o.pc \in {"map", "mapfail"} => o.a \in Vpn
    /\ o.pc \in {"map", "mapfail"} /\ o.a \in Fixed =>
         o.call \in {"userinit", "fork", "exec"}
    /\ InLoop(o) => /\ o.call \in {"userinit", "fork", "exec", "sbrk"}
                    /\ o.a <= o.lim /\ (o.pc # "alloc" => o.a < o.lim)
                    /\ o.lim <= NPages(MaxSz)
                    /\ o.then \in IF o.call = "exec" THEN {"load", "args"}
                                                     ELSE {"setsz"}
    /\ o.pc \in {"load", "args", "bad"} => o.call = "exec"
    /\ o.pc = "setsz" => o.call \in {"userinit", "fork", "sbrk"}
    /\ o.pc = "unmap" =>
         /\ o.call \in {"fork", "exec", "sbrk"}
         /\ o.then \in (CASE o.call = "fork" -> {"fptf"}
                          [] o.call = "exec" -> {"bad"}
                          [] o.call = "sbrk" -> {"user", "setsz"})
    /\ o.pc \in {"unmap", "uvmfree"} => o.lim <= NPages(MaxSz)
    /\ o.pc = "uvmfree" => o.then = IF o.call = "exec" THEN "user" ELSE "fpend"
    /\ o.pc \in {"uvmfree", "fptf", "fpus", "fppt", "fpend"} => o.call # "sbrk"
    /\ o.pc = "freewalk" => o.then \in IF o.call = "exec" THEN {"user"}
                                       ELSE {"fptf", "fpend"}
    /\ o.pc = "freewalk" => o.call # "sbrk"
    /\ o.pc \in {"fptf", "fpus", "fppt", "fpend"} => o.call # "exec"

\* The table of a process, and the table a call works on.
Holding(o) == \/ InLoop(o) /\ o.call # "exec"
              \/ o.pc = "setsz"
              \/ o.pc = "unmap" /\ o.call # "exec"
              \/ o.pc \in {"uvmfree", "freewalk"} /\ o.then = "fpend"
Fresh(o) == o.call # "exec" /\ (o.pc = "root" \/ (o.pc = "map" /\ o.a \in Fixed))
Tables ==
    /\ \A p \in Proc : pagetable[p] \in {NoTable, <<p, 0>>, <<p, 1>>}
    /\ \A p \in Proc : state[p] \in {"RUNNABLE", "ZOMBIE"} => pagetable[p] # NoTable
    /\ \A p \in Proc : LET o == op[p] IN
         /\ Holding(o) => pagetable[o.q] = o.t
         /\ o.pc \in {"trapframe", "usyscall"} => pagetable[o.q] = NoTable
         /\ o.pc = "root" => pagetable[o.q] # o.t
         /\ Fresh(o) => pagetable[o.q] = NoTable

\* Pointers that are null where they are about to be assigned.
Gone(o) == o.pc = "fppt" \/ o.pc = "fpend"
           \/ (o.pc \in {"uvmfree", "freewalk"} /\ o.then = "fpend")
Vars ==
    /\ \A p \in Proc : state[p] = "UNUSED" =>
         /\ ptr[Var("trapframe", p)] = Null /\ ptr[Var("usyscall", p)] = Null
         /\ pagetable[p] = NoTable
    /\ \A p \in Proc : LET o == op[p] IN
         /\ (o.pc = "trapframe" \/ o.pc = "fpus" \/ Gone(o)) =>
              ptr[Var("trapframe", o.q)] = Null
         /\ (o.pc \in {"trapframe", "usyscall"} \/ Gone(o)) =>
              ptr[Var("usyscall", o.q)] = Null
         /\ ptr[Var("mem", p)] # Null <=>
              o.pc \in {"map", "mapfail"} /\ o.a \notin Fixed

\* A root page belongs to the table of a process or to the table of a call.
Building == {"map", "mapfail", "alloc", "load", "args", "bad", "setsz",
             "unmap", "uvmfree", "freewalk"}
Rooted(T) ==
    \/ pagetable[T[1]] = T /\ \A p \in Proc : op[p].pc = "fpend" => op[p].q # T[1]
    \/ \E p \in Proc : op[p].pc \in Building /\ op[p].t = T
Roots == \A T \in Table : ptr[Root(T)] # Null => Rooted(T)

Cursors == \A p \in Proc : Cursor(op[p])

IInv == TypeOK /\ Own /\ Workers /\ Cursors /\ Tables /\ Vars /\ Roots

-----------------------------------------------------------------------------
(* Lemmas about the operators.                                             *)

\* PGROUNDUP: the number of pages of a size, and that it grows with the size.
LEMMA NPagesRange == \A s \in 0 .. MaxSz : NPages(s) \in 0 .. NPages(MaxSz)
<1>1. \A s, t \in Nat : s <= t => NPages(s) <= NPages(t)
  BY ConstantsAssumption DEF NPages
<1>2. \A s \in Nat : NPages(s) \in Nat
  BY ConstantsAssumption DEF NPages
<1> QED
  BY <1>1, <1>2, ConstantsAssumption

\* The bounds on virtual page numbers; user pages lie below the fixed ones.
LEMMA VpnFacts ==
    /\ NPages(MaxSz) \in Nat /\ NPages(MaxSz) <= USYSCALL
    /\ USYSCALL \in Nat /\ TRAPFRAME = USYSCALL + 1 /\ TRAMPOLINE = USYSCALL + 2
    /\ MAXVPN = USYSCALL + 3 /\ MAXVPN \in Nat
    /\ Fixed \subseteq 0 .. MAXVPN
    /\ \A v \in Vpn : v \notin Fixed => v \in UserVpn
    /\ \A v \in UserVpn : v \notin Fixed /\ v \in 0 .. MAXVPN /\ v < NPages(MaxSz)
<1>1. NPages(MaxSz) \in Nat
  BY NPagesRange, ConstantsAssumption
<1> QED
  BY <1>1, ConstantsAssumption
  DEF USYSCALL, TRAPFRAME, TRAMPOLINE, Fixed, Vpn, UserVpn

\* The slots the operations name are slots.
LEMMA SlotFacts ==
    /\ \A p \in Proc : /\ Var("trapframe", p) \in Slot
                        /\ Var("usyscall", p) \in Slot
                        /\ Var("mem", p) \in Slot
    /\ \A T \in Table : Root(T) \in Slot
    /\ \A T \in Table, v \in Vpn : /\ Ent("l1", T, L1(v)) \in Slot
                                  /\ Ent("l0", T, L0(v)) \in Slot
    /\ \A T \in Table, v \in UserVpn : Ent("leaf", T, v) \in Slot
<1>1. \A p \in Proc : /\ Var("trapframe", p) \in Slot
                     /\ Var("usyscall", p) \in Slot
                     /\ Var("mem", p) \in Slot
  BY DEF Slot, Var
<1>2. \A T \in Table : T[1] \in Proc /\ T[2] \in {0, 1}
  BY DEF Table
<1>3. \A T \in Table : Root(T) \in Slot
  BY <1>2 DEF Slot, Ent, Root
<1>4. ASSUME NEW T \in Table, NEW v \in Vpn PROVE Ent("l1", T, L1(v)) \in Slot
  <2>1. L1(v) \in {L1(x) : x \in Vpn}
    OBVIOUS
  <2> QED
    BY <1>2, <2>1 DEF Slot, Ent
<1>5. ASSUME NEW T \in Table, NEW v \in Vpn PROVE Ent("l0", T, L0(v)) \in Slot
  <2>1. L0(v) \in {L0(x) : x \in Vpn}
    OBVIOUS
  <2> QED
    BY <1>2, <2>1 DEF Slot, Ent
<1>6. \A T \in Table, v \in UserVpn : Ent("leaf", T, v) \in Slot
  BY <1>2 DEF Slot, Ent
<1> QED
  BY <1>1, <1>3, <1>4, <1>5, <1>6

\* kalloc() into a null slot keeps every page owned once.
LEMMA KallocOwn ==
    ASSUME TypeOK, Own, NEW s \in Slot, ptr[s] = Null, ~ OutOfMemory, Kalloc(s)
    PROVE  /\ Own'
           /\ free' \in [Page -> {0, 1}]
           /\ ptr' \in [Slot -> Page \cup {Null}]
           /\ upid' \in [Page -> 0 .. MaxPid]
           /\ ptr'[s] \in Page
           /\ \A r \in Slot : r # s => ptr'[r] = ptr[r]
<1>1. PICK pg \in Pick(FreePages) :
        /\ free' = [free EXCEPT ![pg] = @ - 1]
        /\ ptr'  = [ptr EXCEPT ![s] = pg]
        /\ upid' = [upid EXCEPT ![pg] = Junk]
  BY DEF Kalloc
<1>2. pg \in Page /\ free[pg] = 1
  <2>1. FreePages \in SUBSET Page /\ FreePages # {}
    BY DEF OutOfMemory, FreePages
  <2>2. Pick(FreePages) \subseteq FreePages
    BY <2>1, PickAssumption
  <2> QED
    BY <2>2 DEF FreePages, TypeOK
<1>3. Null \notin Page
  BY ConstantsAssumption
<1>4. /\ free' \in [Page -> {0, 1}]
      /\ ptr' \in [Slot -> Page \cup {Null}]
      /\ upid' \in [Page -> 0 .. MaxPid]
  BY <1>1, <1>2, ConstantsAssumption DEF TypeOK, Junk
<1>5. ptr'[s] = pg /\ \A r \in Slot : r # s => ptr'[r] = ptr[r]
  BY <1>1 DEF TypeOK
<1>6. \A r \in Slot : ptr[r] # pg
  BY <1>2 DEF Own
<1>7. \A s1, s2 \in Slot : ptr'[s1] = ptr'[s2] /\ ptr'[s1] # Null => s1 = s2
  BY <1>5, <1>6 DEF Own
<1>8. free'[pg] = 0 /\ \A r \in Page : r # pg => free'[r] = free[r]
  BY <1>1, <1>2 DEF TypeOK
<1>9. \A r \in Page : free'[r] = 1 <=> \A x \in Slot : ptr'[x] # r
  BY <1>2, <1>3, <1>5, <1>8 DEF Own
<1> QED
  BY <1>2, <1>4, <1>5, <1>7, <1>9 DEF Own

\* kfree() of the page a slot holds keeps every page owned once.
LEMMA KfreeOwn ==
    ASSUME TypeOK, Own, NEW s \in Slot, ptr[s] # Null, Kfree(s)
    PROVE  /\ Own'
           /\ free' \in [Page -> {0, 1}]
           /\ ptr' \in [Slot -> Page \cup {Null}]
           /\ upid' \in [Page -> 0 .. MaxPid]
           /\ ptr'[s] = Null
           /\ \A r \in Slot : r # s => ptr'[r] = ptr[r]
<1> DEFINE pg == ptr[s]
<1>1. pg \in Page /\ pg # Null /\ Null \notin Page
  BY ConstantsAssumption DEF TypeOK
<1>2. free[pg] = 0
  BY <1>1 DEF Own, TypeOK
<1>3. free'[pg] = 1 /\ \A r \in Page : r # pg => free'[r] = free[r]
  BY <1>1, <1>2 DEF Kfree, TypeOK
<1>4. /\ free' \in [Page -> {0, 1}]
      /\ ptr' \in [Slot -> Page \cup {Null}]
      /\ upid' \in [Page -> 0 .. MaxPid]
  BY <1>1, <1>2, ConstantsAssumption DEF Kfree, TypeOK, Junk
<1>5. ptr'[s] = Null /\ \A r \in Slot : r # s => ptr'[r] = ptr[r]
  BY DEF Kfree, TypeOK
<1>6. \A s1, s2 \in Slot : ptr'[s1] = ptr'[s2] /\ ptr'[s1] # Null => s1 = s2
  BY <1>5 DEF Own
<1>7. \A r \in Page : free'[r] = 1 <=> \A x \in Slot : ptr'[x] # r
  BY <1>1, <1>3, <1>5 DEF Own
<1> QED
  BY <1>4, <1>5, <1>6, <1>7 DEF Own

\* Handing the page of one slot to an empty one keeps every page owned once.
LEMMA MoveOwn ==
    ASSUME TypeOK, Own, NEW s \in Slot, NEW d \in Slot, s # d, ptr[d] = Null,
           ptr' = [ptr EXCEPT ![d] = ptr[s], ![s] = Null], UNCHANGED free
    PROVE  /\ Own'
           /\ ptr' \in [Slot -> Page \cup {Null}]
           /\ ptr'[s] = Null
           /\ \A r \in Slot : r # s /\ r # d => ptr'[r] = ptr[r]
<1>1. ptr'[s] = Null /\ ptr'[d] = ptr[s]
      /\ \A r \in Slot : r # s /\ r # d => ptr'[r] = ptr[r]
  BY DEF TypeOK
<1>2. ptr' \in [Slot -> Page \cup {Null}]
  BY DEF TypeOK
<1>3. ASSUME NEW s1 \in Slot, NEW s2 \in Slot,
             ptr'[s1] = ptr'[s2], ptr'[s1] # Null
      PROVE  s1 = s2
  <2>1. s1 # s /\ s2 # s
    BY <1>1, <1>3
  <2>2. CASE s1 = d \/ s2 = d
    BY <1>1, <1>3, <2>1, <2>2 DEF Own
  <2>3. CASE s1 # d /\ s2 # d
    BY <1>1, <1>3, <2>1, <2>3 DEF Own
  <2> QED
    BY <2>2, <2>3
<1>4. ASSUME NEW r \in Page
      PROVE  (\A x \in Slot : ptr'[x] # r) <=> (\A x \in Slot : ptr[x] # r)
  <2>1. r # Null
    BY ConstantsAssumption
  <2>2. ASSUME NEW x \in Slot, ptr'[x] = r PROVE \E y \in Slot : ptr[y] = r
    BY <1>1, <2>1, <2>2
  <2>3. ASSUME NEW x \in Slot, ptr[x] = r PROVE \E y \in Slot : ptr'[y] = r
    <3>1. CASE x = s
      BY <1>1, <2>3, <3>1
    <3>2. CASE x # s
      BY <1>1, <2>1, <2>3, <3>2
    <3> QED
      BY <3>1, <3>2
  <2> QED
    BY <2>2, <2>3
<1>5. \A r \in Page : free'[r] = 1 <=> \A x \in Slot : ptr'[x] # r
  BY <1>4 DEF Own
<1> QED
  BY <1>1, <1>2, <1>3, <1>5 DEF Own

\* Own is what OneOwner says.
LEMMA OwnImpliesOneOwner == TypeOK /\ Own => OneOwner
<1> DEFINE holds == {<<s, ptr[s]>> : s \in {r \in Slot : ptr[r] # Null}}
           holders(pg) == {h \in holds : h[2] = pg}
<1> SUFFICES ASSUME TypeOK, Own, NEW pg \in Page
             PROVE  free[pg] + Cardinality(holders(pg)) = 1
  BY DEF OneOwner
<1>1. CASE free[pg] = 1
  <2>1. holders(pg) = {}
    BY <1>1 DEF Own
  <2> QED
    BY <1>1, <2>1, FS_EmptySet
<1>2. CASE free[pg] = 0
  <2>1. PICK s \in Slot : ptr[s] = pg
    BY <1>2 DEF Own
  <2>2. \A r \in Slot : ptr[r] = pg => r = s
    BY <2>1, ConstantsAssumption DEF Own
  <2>3. \A h : h \in holders(pg) <=> h = <<s, pg>>
    <3>1. <<s, pg>> \in holders(pg)
      <4>1. s \in {r \in Slot : ptr[r] # Null}
        BY <2>1, ConstantsAssumption
      <4> QED
        BY <2>1, <4>1
    <3>2. ASSUME NEW h \in holders(pg) PROVE h = <<s, pg>>
      <4>1. PICK r \in Slot : h = <<r, ptr[r]>>
        OBVIOUS
      <4>2. ptr[r] = pg
        BY <4>1
      <4> QED
        BY <2>2, <4>1, <4>2
    <3> QED
      BY <3>1, <3>2
  <2>4. holders(pg) = {<<s, pg>>}
    BY <2>3
  <2>5. Cardinality({<<s, pg>>}) = 1
    BY FS_Singleton, Zenon
  <2> HIDE DEF holders
  <2> QED
    BY <1>2, <2>4, <2>5
<1> QED
  BY <1>1, <1>2 DEF TypeOK

-----------------------------------------------------------------------------
(* How the local variables of a call move: what each step makes of op[p]   *)
(* is again in range.  These lemmas speak of one record o only.            *)

LEMMA NPagesMono == \A s, t \in 0 .. MaxSz : s <= t => NPages(s) <= NPages(t)
BY ConstantsAssumption DEF NPages

OpMove(o, n) ==
    /\ n \in Op /\ Cursor(n)
    /\ \/ n = Idle
       \/ n.pc # "user" /\ n.call = o.call /\ n.q = o.q /\ n.t[1] = n.q

LEMMA IdleFacts == Idle \in Op /\ Cursor(Idle) /\ Idle.pc = "user"
BY ConstantsAssumption, VpnFacts DEF Idle, Op, Call, Pc, Table, Cursor, InLoop

\* Steps that change nothing but the place in the call.
LEMMA MoveGoto ==
    ASSUME NEW o \in Op, Cursor(o), o.t[1] = o.q
    PROVE  /\ o.pc \in {"trapframe", "usyscall"} => OpMove(o, [o EXCEPT !.pc = "fptf"])
           /\ o.pc = "root" /\ o.call # "exec" => OpMove(o, [o EXCEPT !.pc = "fptf"])
           /\ o.pc = "trapframe" => OpMove(o, [o EXCEPT !.pc = "usyscall"])
           /\ o.pc = "usyscall" => OpMove(o, [o EXCEPT !.pc = "root"])
           /\ o.pc = "map" => OpMove(o, o) /\ OpMove(o, [o EXCEPT !.pc = "mapfail"])
           /\ o.pc = "map" /\ o.a \in Fixed /\ o.call = "exec" =>
                OpMove(o, [o EXCEPT !.pc = "load"])
           /\ o.pc \in {"load", "args"} => OpMove(o, [o EXCEPT !.pc = "bad"])
           /\ o.pc = "fptf" => OpMove(o, [o EXCEPT !.pc = "fpus"])
           /\ o.pc = "fpus" => OpMove(o, [o EXCEPT !.pc = "fppt"])
           /\ o.pc = "fppt" => OpMove(o, [o EXCEPT !.pc = "fpend"])
<1>1. o.pc \in {"trapframe", "usyscall"} => OpMove(o, [o EXCEPT !.pc = "fptf"])
  BY DEF OpMove, Op, Pc, Cursor, InLoop
<1>2. o.pc = "root" /\ o.call # "exec" => OpMove(o, [o EXCEPT !.pc = "fptf"])
  BY DEF OpMove, Op, Pc, Cursor, InLoop
<1>3. o.pc = "trapframe" => OpMove(o, [o EXCEPT !.pc = "usyscall"])
  BY DEF OpMove, Op, Pc, Cursor, InLoop
<1>4. o.pc = "usyscall" => OpMove(o, [o EXCEPT !.pc = "root"])
  BY DEF OpMove, Op, Pc, Cursor, InLoop
<1>5. o.pc = "map" => OpMove(o, o)
  BY DEF OpMove
<1>6. o.pc = "map" => OpMove(o, [o EXCEPT !.pc = "mapfail"])
  BY DEF OpMove, Op, Pc, Cursor, InLoop
<1>7. o.pc = "map" /\ o.a \in Fixed /\ o.call = "exec" =>
        OpMove(o, [o EXCEPT !.pc = "load"])
  BY DEF OpMove, Op, Pc, Cursor, InLoop
<1>8. o.pc \in {"load", "args"} => OpMove(o, [o EXCEPT !.pc = "bad"])
  BY DEF OpMove, Op, Pc, Cursor, InLoop
<1>9. o.pc = "fptf" => OpMove(o, [o EXCEPT !.pc = "fpus"])
  BY DEF OpMove, Op, Pc, Cursor, InLoop
<1>10. o.pc = "fpus" => OpMove(o, [o EXCEPT !.pc = "fppt"])
  BY DEF OpMove, Op, Pc, Cursor, InLoop
<1>11. o.pc = "fppt" => OpMove(o, [o EXCEPT !.pc = "fpend"])
  BY DEF OpMove, Op, Pc, Cursor, InLoop
<1> QED
  BY <1>1, <1>2, <1>3, <1>4, <1>5, <1>6, <1>7, <1>8, <1>9, <1>10, <1>11

\* uvmcreate() succeeded.
LEMMA MoveCreate ==
    ASSUME NEW o \in Op, Cursor(o), o.t[1] = o.q, o.pc = "root"
    PROVE  OpMove(o, [o EXCEPT !.pc = "map", !.a = TRAMPOLINE])
<1> DEFINE n == [o EXCEPT !.pc = "map", !.a = TRAMPOLINE]
<1>1. n.pc = "map" /\ n.a = TRAMPOLINE /\ n.call = o.call /\ n.q = o.q /\ n.t = o.t
  BY DEF Op
<1>2. TRAMPOLINE \in 0 .. MAXVPN
  BY VpnFacts
<1>3. n \in Op
  BY <1>2 DEF Op, Pc
<1>4. n.a \in Fixed /\ n.a \in Vpn
  BY <1>1 DEF Fixed, Vpn
<1>5. Cursor(n)
  BY <1>1, <1>4 DEF Cursor, InLoop
<1> QED
  BY <1>1, <1>3, <1>5 DEF OpMove

\* kalloc() of one more page succeeded.
LEMMA MoveToMap ==
    ASSUME NEW o \in Op, Cursor(o), o.t[1] = o.q, o.pc = "alloc", o.a < o.lim
    PROVE  OpMove(o, [o EXCEPT !.pc = "map"]) /\ o.a \notin Fixed
<1> DEFINE n == [o EXCEPT !.pc = "map"]
<1>1. n.pc = "map" /\ n.a = o.a /\ n.call = o.call /\ n.lim = o.lim
      /\ n.then = o.then /\ n.q = o.q /\ n.t = o.t
  BY DEF Op
<1>2. o.a \in Nat /\ o.lim \in Nat /\ o.lim <= NPages(MaxSz)
  BY DEF Op, Cursor, InLoop
<1>3. o.a \in UserVpn /\ o.a \in Vpn /\ o.a \notin Fixed
  BY <1>2, VpnFacts DEF UserVpn, Vpn
<1>4. n \in Op
  BY DEF Op, Pc
<1>5. Cursor(n)
  BY <1>1, <1>3 DEF Cursor, InLoop
<1> QED
  BY <1>1, <1>3, <1>4, <1>5 DEF OpMove

\* mappages() set a user PTE: on to the next page.
LEMMA MoveUserPage ==
    ASSUME NEW o \in Op, Cursor(o), o.t[1] = o.q, o.pc = "map", o.a \notin Fixed
    PROVE  OpMove(o, [o EXCEPT !.pc = "alloc", !.a = @ + 1])
<1> DEFINE n == [o EXCEPT !.pc = "alloc", !.a = @ + 1]
<1>1. n.pc = "alloc" /\ n.a = o.a + 1 /\ n.call = o.call /\ n.lim = o.lim
      /\ n.then = o.then /\ n.q = o.q /\ n.t = o.t
  BY DEF Op
<1>2. o.a \in Nat /\ o.a < o.lim /\ o.lim \in Nat /\ o.lim <= NPages(MaxSz) /\ InLoop(o)
  BY DEF Op, Cursor, InLoop
<1>3. o.a + 1 \in 0 .. MAXVPN
  BY <1>2, VpnFacts
<1>4. n \in Op
  BY <1>3 DEF Op, Pc
<1>5. Cursor(n)
  BY <1>1, <1>2 DEF Cursor, InLoop
<1> QED
  BY <1>1, <1>4, <1>5 DEF OpMove

\* mappages() set one of the fixed PTEs: on to the one below it.
LEMMA MoveFixed ==
    ASSUME NEW o \in Op, Cursor(o), o.t[1] = o.q, o.pc = "map", o.a \in Fixed,
           o.a # USYSCALL
    PROVE  OpMove(o, [o EXCEPT !.a = @ - 1])
<1> DEFINE n == [o EXCEPT !.a = @ - 1]
<1>1. n.pc = "map" /\ n.a = o.a - 1 /\ n.call = o.call /\ n.q = o.q /\ n.t = o.t
  BY DEF Op
<1>2. o.a - 1 \in Fixed /\ o.a - 1 \in Vpn /\ o.a - 1 \in 0 .. MAXVPN
  BY VpnFacts DEF Fixed, Vpn
<1>3. n \in Op
  BY <1>2 DEF Op
<1>4. Cursor(n)
  BY <1>1, <1>2 DEF Cursor, InLoop
<1> QED
  BY <1>1, <1>3, <1>4 DEF OpMove

\* proc_pagetable() is done: copy or load n bytes of user pages.
LEMMA MoveFirstPage ==
    ASSUME NEW o \in Op, Cursor(o), o.t[1] = o.q, o.pc = "map", o.a \in Fixed,
           o.call # "exec", NEW s \in 0 .. MaxSz
    PROVE  OpMove(o, [o EXCEPT !.pc = "alloc", !.a = 0, !.nsz = s,
                               !.lim = NPages(s), !.then = "setsz"])
<1> DEFINE n == [o EXCEPT !.pc = "alloc", !.a = 0, !.nsz = s,
                          !.lim = NPages(s), !.then = "setsz"]
<1>1. n.pc = "alloc" /\ n.a = 0 /\ n.call = o.call /\ n.lim = NPages(s)
      /\ n.then = "setsz" /\ n.q = o.q /\ n.t = o.t
  BY DEF Op
<1>2. NPages(s) \in Nat /\ NPages(s) <= NPages(MaxSz) /\ NPages(s) \in 0 .. MAXVPN
  BY NPagesRange, VpnFacts
<1>3. 0 \in 0 .. MAXVPN
  BY VpnFacts
<1>4. n \in Op
  BY <1>2, <1>3 DEF Op, Pc
<1>5. Cursor(n)
  BY <1>1, <1>2 DEF Cursor, InLoop
<1> QED
  BY <1>1, <1>4, <1>5 DEF OpMove

\* The loop of uvmalloc() or uvmcopy() failed.
LEMMA MoveUndo ==
    ASSUME NEW o \in Op, Cursor(o), o.t[1] = o.q, InLoop(o), o.call # "userinit"
    PROVE  OpMove(o, UndoLoop(o))
<1> DEFINE n == UndoLoop(o)
<1>1. o.call \in {"fork", "exec", "sbrk"} /\ o.a <= o.lim /\ o.lim <= NPages(MaxSz)
      /\ o.a \in Nat /\ o.lim \in Nat
  BY DEF Cursor, Op
<1>2. n.pc = "unmap" /\ n.call = o.call /\ n.lim = o.a /\ n.q = o.q /\ n.t = o.t
  BY DEF Op, UndoLoop
<1>3. n.then = CASE o.call = "fork" -> "fptf"
                 [] o.call = "exec" -> "bad"
                 [] o.call = "sbrk" -> "user"
  BY DEF Op, UndoLoop
<1>4. n \in Op
  BY <1>1, <1>3, VpnFacts DEF Op, Pc, UndoLoop
<1>5. Cursor(n)
  BY <1>1, <1>2, <1>3, VpnFacts DEF Cursor, InLoop
<1> QED
  BY <1>2, <1>4, <1>5 DEF OpMove

\* The loop is done.
LEMMA MoveLoopDone ==
    ASSUME NEW o \in Op, Cursor(o), o.t[1] = o.q, o.pc = "alloc"
    PROVE  OpMove(o, [o EXCEPT !.pc = o.then, !.sz = o.nsz])
<1> DEFINE n == [o EXCEPT !.pc = o.then, !.sz = o.nsz]
<1>1. o.then \in {"load", "args", "setsz"} /\ (o.then = "setsz" <=> o.call # "exec")
      /\ o.call \in {"userinit", "fork", "exec", "sbrk"}
  BY DEF Cursor, InLoop
<1>2. n.pc = o.then /\ n.call = o.call /\ n.q = o.q /\ n.t = o.t
  BY DEF Op
<1>3. n \in Op
  BY DEF Op
<1>4. Cursor(n)
  BY <1>1, <1>2 DEF Cursor, InLoop
<1> QED
  BY <1>1, <1>2, <1>3, <1>4 DEF OpMove

\* exec() starts uvmalloc() from size s to size e.
LEMMA MoveLoad ==
    ASSUME NEW o \in Op, Cursor(o), o.t[1] = o.q, o.pc = "load",
           NEW s \in 0 .. MaxSz, NEW e \in 0 .. MaxSz, s <= e,
           NEW l \in {"load", "args"}
    PROVE  OpMove(o, [o EXCEPT !.pc = "alloc", !.a = NPages(s), !.base = NPages(s),
                               !.sz = s, !.lim = NPages(e), !.nsz = e, !.then = l])
<1> DEFINE n == [o EXCEPT !.pc = "alloc", !.a = NPages(s), !.base = NPages(s),
                          !.sz = s, !.lim = NPages(e), !.nsz = e, !.then = l]
<1>1. n.pc = "alloc" /\ n.a = NPages(s) /\ n.call = "exec" /\ o.call = "exec"
      /\ n.lim = NPages(e) /\ n.then = l /\ n.q = o.q /\ n.t = o.t
  BY DEF Op, Cursor
<1>2. /\ NPages(s) \in Nat /\ NPages(e) <= NPages(MaxSz) /\ NPages(s) \in 0 .. MAXVPN
      /\ NPages(e) \in 0 .. MAXVPN /\ NPages(s) <= NPages(e)
  BY NPagesRange, VpnFacts, NPagesMono
<1>3. n \in Op
  BY <1>2 DEF Op, Pc
<1>4. Cursor(n)
  BY <1>1, <1>2 DEF Cursor, InLoop
<1> QED
  BY <1>1, <1>3, <1>4 DEF OpMove

\* uvmunmap() freed one page, or is done.
LEMMA MoveUnmap ==
    ASSUME NEW o \in Op, Cursor(o), o.t[1] = o.q, o.pc \in {"unmap", "uvmfree"},
           o.a < o.lim
    PROVE  OpMove(o, [o EXCEPT !.a = @ + 1]) /\ o.a \in UserVpn
<1> DEFINE n == [o EXCEPT !.a = @ + 1]
<1>1. n.pc = o.pc /\ n.lim = o.lim /\ n.call = o.call /\ n.q = o.q /\ n.t = o.t
      /\ n.then = o.then
  BY DEF Op
<1>2. o.a + 1 \in 0 .. MAXVPN /\ o.a \in UserVpn
  BY VpnFacts DEF Op, Cursor, UserVpn
<1>3. n \in Op
  BY <1>2 DEF Op
<1>4. Cursor(n)
  BY <1>1 DEF Cursor, InLoop
<1> QED
  BY <1>1, <1>2, <1>3, <1>4 DEF OpMove

LEMMA MoveUnmapDone ==
    ASSUME NEW o \in Op, Cursor(o), o.t[1] = o.q, o.pc \in {"unmap", "uvmfree"},
           NEW l, l = (IF o.pc = "unmap" THEN o.then ELSE "freewalk")
    PROVE  l # "user" => OpMove(o, [o EXCEPT !.pc = l])
<1> SUFFICES ASSUME l # "user" PROVE OpMove(o, [o EXCEPT !.pc = l])
  OBVIOUS
<1> DEFINE n == [o EXCEPT !.pc = l]
<1>1. n.pc = l /\ n.then = o.then /\ n.call = o.call /\ n.q = o.q /\ n.t = o.t
  BY DEF Op
<1>2. n \in Op
  BY DEF Op, Pc
<1>3. CASE o.pc = "unmap"
  <2>1. l \in {"fptf", "bad", "setsz"} /\ (l = "fptf" => o.call = "fork")
        /\ (l = "bad" => o.call = "exec") /\ (l = "setsz" => o.call = "sbrk")
    BY <1>3 DEF Cursor
  <2>2. Cursor(n)
    BY <1>1, <2>1 DEF Cursor, InLoop
  <2> QED
    BY <1>1, <1>2, <2>2 DEF OpMove
<1>4. CASE o.pc = "uvmfree"
  <2>1. l = "freewalk" /\ o.then = (IF o.call = "exec" THEN "user" ELSE "fpend")
        /\ o.call # "sbrk"
    BY <1>4 DEF Cursor
  <2>2. Cursor(n)
    BY <1>1, <2>1 DEF Cursor, InLoop
  <2> QED
    BY <1>1, <1>2, <2>2 DEF OpMove
<1> QED
  BY <1>3, <1>4

\* proc_freepagetable() starts, or proc_pagetable() frees its empty table.
LEMMA MoveFree ==
    ASSUME NEW o \in Op, Cursor(o), NEW T \in Table, T[1] = o.q,
           NEW s \in 0 .. MaxSz, o.pc \in {"args", "bad", "fppt"},
           NEW l, l = (IF o.call = "exec" THEN "user" ELSE "fpend")
    PROVE  OpMove(o, [o EXCEPT !.pc = "uvmfree", !.t = T, !.a = 0,
                               !.lim = NPages(s), !.then = l])
<1> DEFINE n == [o EXCEPT !.pc = "uvmfree", !.t = T, !.a = 0,
                          !.lim = NPages(s), !.then = l]
<1>1. n.pc = "uvmfree" /\ n.call = o.call /\ n.lim = NPages(s) /\ n.then = l
      /\ n.q = o.q /\ n.t = T
  BY DEF Op
<1>2. NPages(s) <= NPages(MaxSz) /\ NPages(s) \in 0 .. MAXVPN /\ 0 \in 0 .. MAXVPN
  BY NPagesRange, VpnFacts
<1>3. n \in Op
  BY <1>2 DEF Op, Pc
<1>4. o.call # "sbrk"
  BY DEF Cursor
<1>5. Cursor(n)
  BY <1>1, <1>2, <1>4 DEF Cursor, InLoop
<1> QED
  BY <1>1, <1>3, <1>5 DEF OpMove

LEMMA MoveFreeEmpty ==
    ASSUME NEW o \in Op, Cursor(o), o.t[1] = o.q, o.pc = "mapfail", o.a \in Fixed
    PROVE  OpMove(o, [o EXCEPT !.pc = "freewalk", !.then = NoTableThen(o)])
<1> DEFINE n == [o EXCEPT !.pc = "freewalk", !.then = NoTableThen(o)]
<1>1. n.pc = "freewalk" /\ n.call = o.call /\ n.then = NoTableThen(o)
      /\ n.q = o.q /\ n.t = o.t
  BY DEF Op
<1>2. o.call \in {"userinit", "fork", "exec"}
  BY DEF Cursor
<1>3. n \in Op
  BY DEF Op, Pc, NoTableThen
<1>4. Cursor(n)
  BY <1>1, <1>2 DEF Cursor, InLoop, NoTableThen
<1> QED
  BY <1>1, <1>3, <1>4 DEF OpMove

\* freewalk() is done.
LEMMA MoveFreed ==
    ASSUME NEW o \in Op, Cursor(o), o.t[1] = o.q, o.pc = "freewalk", o.then # "user"
    PROVE  OpMove(o, [o EXCEPT !.pc = o.then])
<1> DEFINE n == [o EXCEPT !.pc = o.then]
<1>1. n.pc = o.then /\ n.call = o.call /\ n.q = o.q /\ n.t = o.t
  BY DEF Op
<1>2. o.call \notin {"exec", "sbrk"} /\ o.then \in {"fptf", "fpend"}
  BY DEF Cursor
<1>3. n \in Op
  BY DEF Op
<1>4. Cursor(n)
  BY <1>1, <1>2 DEF Cursor, InLoop
<1> QED
  BY <1>1, <1>2, <1>3, <1>4 DEF OpMove

-----------------------------------------------------------------------------
(* A kernel step of p touches only the process q it works on.              *)

LEMMA SlotsDiffer ==
    /\ \A p, q \in Proc : /\ Var("trapframe", p) # Var("usyscall", q)
                          /\ Var("trapframe", p) # Var("mem", q)
                          /\ Var("usyscall", p) # Var("mem", q)
                          /\ p # q => /\ Var("trapframe", p) # Var("trapframe", q)
                                      /\ Var("usyscall", p) # Var("usyscall", q)
                                      /\ Var("mem", p) # Var("mem", q)
    /\ \A p \in Proc, T \in Table : /\ Var("trapframe", p) # Root(T)
                                    /\ Var("usyscall", p) # Root(T)
                                    /\ Var("mem", p) # Root(T)
    /\ \A T, U \in Table : T # U => Root(T) # Root(U)
    /\ \A p \in Proc, k \in {"l1", "l0", "leaf"} : \A T, U \in Table : \A i \in Int :
         /\ Ent(k, T, i) # Var("trapframe", p)
         /\ Ent(k, T, i) # Var("usyscall", p)
         /\ Ent(k, T, i) # Var("mem", p)
         /\ Ent(k, T, i) # Root(U)
<1>1. \A T, U \in Table : T # U => Root(T) # Root(U)
  <2> SUFFICES ASSUME NEW T \in Table, NEW U \in Table, Root(T) = Root(U)
               PROVE  T = U
    OBVIOUS
  <2>1. T = <<T[1], T[2]>> /\ U = <<U[1], U[2]>>
    BY DEF Table
  <2>2. T[1] = U[1] /\ T[2] = U[2]
    BY DEF Root, Ent
  <2> QED
    BY <2>1, <2>2
<1> QED
  BY <1>1 DEF Var, Root, Ent

\* What the invariant says about the slots of q when a call is at o.
Nulls(o, tf, us) ==
    /\ (o.pc = "trapframe" \/ o.pc = "fpus" \/ Gone(o)) => tf = Null
    /\ (o.pc \in {"trapframe", "usyscall"} \/ Gone(o)) => us = Null

TableOf(o, pt) ==
    /\ Holding(o) => pt = o.t
    /\ o.pc \in {"trapframe", "usyscall"} => pt = NoTable
    /\ o.pc = "root" => pt # o.t
    /\ Fresh(o) => pt = NoTable

RootOf(o, T, pt) == \/ pt = T /\ o.pc # "fpend"
                    \/ o.pc \in Building /\ o.t = T

LocalStep(p, n) ==
    LET o == op[p]
        q == op[p].q
    IN  /\ op' = [op EXCEPT ![p] = n]
        /\ OpMove(o, n)
        /\ \A r \in Proc \ {q} :
             /\ state'[r] = state[r] /\ parent'[r] = parent[r]
             /\ pagetable'[r] = pagetable[r]
             /\ ptr'[Var("trapframe", r)] = ptr[Var("trapframe", r)]
             /\ ptr'[Var("usyscall", r)] = ptr[Var("usyscall", r)]
        /\ \A T \in Table : T[1] # q => ptr'[Root(T)] = ptr[Root(T)]
        /\ \A r \in Proc \ {p} : ptr'[Var("mem", r)] = ptr[Var("mem", r)]
        /\ n.pc # "user" => state'[q] = state[q] /\ parent'[q] = parent[q]
        /\ pagetable'[q] \in {NoTable, <<q, 0>>, <<q, 1>>}
        /\ state'[q] \in {"RUNNABLE", "ZOMBIE"} => pagetable'[q] # NoTable
        /\ state'[q] = "UNUSED" => /\ ptr'[Var("trapframe", q)] = Null
                                   /\ ptr'[Var("usyscall", q)] = Null
                                   /\ pagetable'[q] = NoTable
        /\ Nulls(n, ptr'[Var("trapframe", q)], ptr'[Var("usyscall", q)])
        /\ ptr'[Var("mem", p)] # Null <=> n.pc \in {"map", "mapfail"} /\ n.a \notin Fixed
        /\ TableOf(n, pagetable'[q])
        /\ \A T \in Table : T[1] = q /\ ptr'[Root(T)] # Null => RootOf(n, T, pagetable'[q])

LEMMA LocalKeeps ==
    ASSUME IInv, TypeOK', Own', NEW p \in Proc, op[p].pc # "user", NEW n, LocalStep(p, n)
    PROVE  IInv'
<1> DEFINE o == op[p]
           q == op[p].q
<1>1. op \in [Proc -> Op] /\ o \in Op /\ q \in Proc /\ op'[p] = n /\ n \in Op
      /\ \A r \in Proc \ {p} : op'[r] = op[r]
  BY DEF IInv, TypeOK, LocalStep, OpMove, Op
<1>2. Worker(p, o) /\ \A r \in Proc \ {p} : Busy(r) => Worker(r, op[r]) /\ op[r].q # q
  BY <1>1 DEF IInv, Workers, Busy
<1>3. n.pc # "user" => n.q = q /\ n.call = o.call /\ n.t[1] = q
  BY IdleFacts DEF LocalStep, OpMove
<1>4. \A r \in Proc \ {p} : Busy(r) => r # q
  <2> SUFFICES ASSUME NEW r \in Proc \ {p}, Busy(r), r = q PROVE FALSE
    OBVIOUS
  <2>1. Worker(r, op[r]) /\ op[r].q # r
    BY <1>2
  <2>2. state[r] = "RUNNABLE" /\ op[r].call \notin {"userinit", "exec", "sbrk"}
    BY <2>1 DEF Worker
  <2>3. o.call \in {"fork", "wait", "exec", "sbrk", "userinit"}
    BY <1>1, <1>2 DEF Worker, Op, Call
  <2> QED
    BY <1>2, <2>2, <2>3 DEF Worker
<1>5. Workers'
  <2>1. \A r \in Proc \ {p} : Busy(r)' => Worker(r, op[r])'
    <3> SUFFICES ASSUME NEW r \in Proc \ {p}, op[r].pc # "user" PROVE Worker(r, op[r])'
      BY <1>1 DEF Busy
    <3>1. Worker(r, op[r]) /\ r # q /\ op[r].q # q /\ op[r].q \in Proc
      BY <1>1, <1>2, <1>4 DEF Busy, Op
    <3>2. state'[r] = state[r] /\ state'[op[r].q] = state[op[r].q]
          /\ parent'[op[r].q] = parent[op[r].q]
      BY <3>1 DEF LocalStep
    <3> QED
      BY <1>1, <3>1, <3>2 DEF Worker
  <2>2. Busy(p)' => Worker(p, op[p])'
    <3> SUFFICES ASSUME n.pc # "user" PROVE Worker(p, n)'
      BY <1>1 DEF Busy
    <3>1. state'[p] = state[p] /\ state'[q] = state[q] /\ parent'[q] = parent[q]
      BY <1>1 DEF LocalStep
    <3> QED
      BY <1>2, <1>3, <3>1 DEF Worker
  <2>3. \A r, x \in Proc : Busy(r)' /\ Busy(x)' /\ op'[r].q = op'[x].q => r = x
    <3>1. Busy(p)' => op'[p].q = q
      BY <1>1, <1>3 DEF Busy
    <3>2. \A r \in Proc \ {p} : Busy(r)' => Busy(r) /\ op'[r].q = op[r].q /\ op[r].q # q
      BY <1>1, <1>2 DEF Busy
    <3> QED
      BY <3>1, <3>2 DEF IInv, Workers
  <2> QED
    BY <2>1, <2>2, <2>3 DEF Workers
<1>6. Cursors'
  BY <1>1 DEF IInv, Cursors, LocalStep, OpMove
<1>7. Tables'
  <2>1. \A r \in Proc : /\ pagetable'[r] \in {NoTable, <<r, 0>>, <<r, 1>>}
                        /\ state'[r] \in {"RUNNABLE", "ZOMBIE"} => pagetable'[r] # NoTable
    BY DEF IInv, Tables, LocalStep
  <2>2. \A r \in Proc \ {p} : TableOf(op'[r], pagetable'[op'[r].q])
    <3> SUFFICES ASSUME NEW r \in Proc \ {p} PROVE TableOf(op[r], pagetable'[op[r].q])
      BY <1>1
    <3>1. CASE op[r].pc = "user"
      BY <3>1 DEF TableOf, Holding, InLoop, Fresh
    <3>2. CASE op[r].pc # "user"
      <4>1. pagetable'[op[r].q] = pagetable[op[r].q]
        BY <1>1, <1>2, <3>2 DEF LocalStep, Busy, Op
      <4> QED
        BY <4>1 DEF IInv, Tables, TableOf
    <3> QED
      BY <3>1, <3>2
  <2>3. TableOf(op'[p], pagetable'[op'[p].q])
    <3>1. CASE n.pc = "user"
      BY <1>1, <3>1 DEF TableOf, Holding, InLoop, Fresh
    <3>2. CASE n.pc # "user"
      BY <1>1, <1>3, <3>2 DEF LocalStep
    <3> QED
      BY <3>1, <3>2
  <2> QED
    BY <2>1, <2>2, <2>3 DEF Tables, TableOf
<1>8. Vars'
  <2>1. \A r \in Proc : state'[r] = "UNUSED" =>
          /\ ptr'[Var("trapframe", r)] = Null /\ ptr'[Var("usyscall", r)] = Null
          /\ pagetable'[r] = NoTable
    BY DEF IInv, Vars, LocalStep
  <2>2. \A r \in Proc \ {p} :
          Nulls(op'[r], ptr'[Var("trapframe", op'[r].q)], ptr'[Var("usyscall", op'[r].q)])
    <3> SUFFICES ASSUME NEW r \in Proc \ {p}
                 PROVE  Nulls(op[r], ptr'[Var("trapframe", op[r].q)],
                                        ptr'[Var("usyscall", op[r].q)])
      BY <1>1
    <3>1. CASE op[r].pc = "user"
      BY <3>1 DEF Nulls, Gone
    <3>2. CASE op[r].pc # "user"
      <4>1. /\ ptr'[Var("trapframe", op[r].q)] = ptr[Var("trapframe", op[r].q)]
            /\ ptr'[Var("usyscall", op[r].q)] = ptr[Var("usyscall", op[r].q)]
        BY <1>1, <1>2, <3>2 DEF LocalStep, Busy, Op
      <4> QED
        BY <4>1 DEF IInv, Vars, Nulls
    <3> QED
      BY <3>1, <3>2
  <2>3. Nulls(op'[p], ptr'[Var("trapframe", op'[p].q)], ptr'[Var("usyscall", op'[p].q)])
    <3>1. CASE n.pc = "user"
      BY <1>1, <3>1 DEF Nulls, Gone
    <3>2. CASE n.pc # "user"
      BY <1>1, <1>3, <3>2 DEF LocalStep, Nulls
    <3> QED
      BY <3>1, <3>2
  <2>4. \A r \in Proc : ptr'[Var("mem", r)] # Null <=>
          op'[r].pc \in {"map", "mapfail"} /\ op'[r].a \notin Fixed
    BY <1>1 DEF IInv, Vars, LocalStep
  <2> QED
    BY <2>1, <2>2, <2>3, <2>4 DEF Vars, Nulls
<1>9. Roots'
  <2> SUFFICES ASSUME NEW T \in Table, ptr'[Root(T)] # Null PROVE Rooted(T)'
    BY DEF Roots
  <2>1. CASE T[1] = q
    <3>1. RootOf(n, T, pagetable'[q])
      BY <2>1 DEF LocalStep
    <3>2. CASE n.pc \in Building /\ n.t = T
      BY <1>1, <3>2 DEF Rooted
    <3>3. CASE pagetable'[q] = T /\ n.pc # "fpend"
      <4>1. \A r \in Proc : op'[r].pc = "fpend" => op'[r].q # q
        BY <1>1, <1>2, <3>3 DEF Busy
      <4> QED
        BY <2>1, <3>3, <4>1 DEF Rooted
    <3> QED
      BY <3>1, <3>2, <3>3 DEF RootOf
  <2>2. CASE T[1] # q
    <3>1. T[1] \in Proc /\ pagetable'[T[1]] = pagetable[T[1]] /\ Rooted(T)
      BY <2>2 DEF Table, LocalStep, IInv, Roots
    <3>2. CASE pagetable[T[1]] = T /\ \A r \in Proc : op[r].pc = "fpend" => op[r].q # T[1]
      <4>1. \A r \in Proc : op'[r].pc = "fpend" => op'[r].q # T[1]
        BY <1>1, <1>3, <2>2, <3>2
      <4> QED
        BY <3>1, <3>2, <4>1 DEF Rooted
    <3>3. CASE \E r \in Proc : op[r].pc \in Building /\ op[r].t = T
      <4>1. PICK r \in Proc : op[r].pc \in Building /\ op[r].t = T
        BY <3>3
      <4>2. op[r].t[1] = op[r].q /\ op[r].q # q
        BY <2>2, <4>1 DEF IInv, Workers, Worker, Busy, Building
      <4>3. r # p
        BY <4>2
      <4> QED
        BY <1>1, <4>1, <4>3 DEF Rooted
    <3> QED
      BY <3>1, <3>2, <3>3 DEF Rooted
  <2> QED
    BY <2>1, <2>2
<1> QED
  BY <1>5, <1>6, <1>7, <1>8, <1>9 DEF IInv

\* What the invariant says about a process in the kernel.
LEMMA InKernel ==
    ASSUME IInv, NEW p \in Proc, op[p].pc # "user"
    PROVE  LET o == op[p]
               q == op[p].q
           IN  /\ op \in [Proc -> Op] /\ o \in Op /\ q \in Proc
               /\ o.t \in Table /\ o.t[1] = q
               /\ Cursor(o) /\ Worker(p, o)
               /\ state[q] # "UNUSED"
               /\ TableOf(o, pagetable[q])
               /\ Nulls(o, ptr[Var("trapframe", q)], ptr[Var("usyscall", q)])
               /\ ptr[Var("mem", p)] # Null <=> o.pc \in {"map", "mapfail"} /\ o.a \notin Fixed
               /\ \A T \in Table : T[1] = q /\ ptr[Root(T)] # Null =>
                                     RootOf(o, T, pagetable[q])
<1> DEFINE o == op[p]
           q == op[p].q
<1>1. op \in [Proc -> Op] /\ o \in Op /\ q \in Proc /\ o.t \in Table
  BY DEF IInv, TypeOK, Op
<1>2. Worker(p, o) /\ o.t[1] = q /\ Cursor(o)
  BY DEF IInv, Workers, Cursors, Worker, Busy
<1>3. state[q] # "UNUSED"
  BY <1>1, <1>2 DEF Worker, Op, Call
<1>4. TableOf(o, pagetable[q])
  BY DEF IInv, Tables, TableOf
<1>5. /\ Nulls(o, ptr[Var("trapframe", q)], ptr[Var("usyscall", q)])
      /\ ptr[Var("mem", p)] # Null <=> o.pc \in {"map", "mapfail"} /\ o.a \notin Fixed
  BY DEF IInv, Vars, Nulls
<1>6. ASSUME NEW T \in Table, T[1] = q, ptr[Root(T)] # Null
      PROVE  RootOf(o, T, pagetable[q])
  <2>1. Rooted(T)
    BY <1>6 DEF IInv, Roots
  <2>2. CASE pagetable[T[1]] = T /\ \A r \in Proc : op[r].pc = "fpend" => op[r].q # T[1]
    BY <1>6, <2>2 DEF RootOf
  <2>3. CASE \E r \in Proc : op[r].pc \in Building /\ op[r].t = T
    <3>1. PICK r \in Proc : op[r].pc \in Building /\ op[r].t = T
      BY <2>3
    <3>2. Busy(r) /\ Busy(p) /\ op[r].q = op[p].q
      BY <1>6, <3>1 DEF IInv, Workers, Worker, Busy, Building
    <3>3. r = p
      BY <3>2 DEF IInv, Workers
    <3> QED
      BY <3>1, <3>3 DEF RootOf
  <2> QED
    BY <2>1, <2>2, <2>3 DEF Rooted
<1> QED
  BY <1>1, <1>2, <1>3, <1>4, <1>5, <1>6

\* The slots of the processes that p does not work on.
Untouched(p) ==
    LET q == op[p].q IN
    /\ \A r \in Proc \ {q} : /\ ptr'[Var("trapframe", r)] = ptr[Var("trapframe", r)]
                             /\ ptr'[Var("usyscall", r)] = ptr[Var("usyscall", r)]
    /\ \A T \in Table : T[1] # q => ptr'[Root(T)] = ptr[Root(T)]
    /\ \A r \in Proc \ {p} : ptr'[Var("mem", r)] = ptr[Var("mem", r)]

\* The same for a step that leaves the process table alone.
LEMMA QuietKeeps ==
    ASSUME IInv, TypeOK', Own', NEW p \in Proc, op[p].pc # "user",
           UNCHANGED <<state, parent, pagetable>>,
           NEW n, op' = [op EXCEPT ![p] = n], OpMove(op[p], n), Untouched(p),
           Nulls(n, ptr'[Var("trapframe", op[p].q)], ptr'[Var("usyscall", op[p].q)]),
           ptr'[Var("mem", p)] # Null <=> n.pc \in {"map", "mapfail"} /\ n.a \notin Fixed,
           TableOf(n, pagetable[op[p].q]),
           \A T \in Table : T[1] = op[p].q /\ ptr'[Root(T)] # Null =>
                              RootOf(n, T, pagetable[op[p].q])
    PROVE  IInv'
<1>1. op[p].q \in Proc /\ state[op[p].q] # "UNUSED"
  BY InKernel
<1>2. /\ pagetable[op[p].q] \in {NoTable, <<op[p].q, 0>>, <<op[p].q, 1>>}
      /\ state[op[p].q] \in {"RUNNABLE", "ZOMBIE"} => pagetable[op[p].q] # NoTable
  BY <1>1 DEF IInv, Tables
<1>3. LocalStep(p, n)
  BY <1>1, <1>2 DEF LocalStep, Untouched
<1> QED
  BY <1>3, LocalKeeps

\* A step that changes no page and no process.
LEMMA NoPageKeeps ==
    ASSUME IInv, NEW p \in Proc, op[p].pc # "user", UNCHANGED <<procVars, memVars>>,
           alias' \in [Table -> [Fixed -> Page \cup {Null, Trampoline}]],
           NEW n, op' = [op EXCEPT ![p] = n], OpMove(op[p], n),
           Nulls(n, ptr[Var("trapframe", op[p].q)], ptr[Var("usyscall", op[p].q)]),
           ptr[Var("mem", p)] # Null <=> n.pc \in {"map", "mapfail"} /\ n.a \notin Fixed,
           TableOf(n, pagetable[op[p].q]),
           \A T \in Table : T[1] = op[p].q /\ ptr[Root(T)] # Null =>
                              RootOf(n, T, pagetable[op[p].q])
    PROVE  IInv'
<1>1. TypeOK'
  BY DEF IInv, TypeOK, procVars, memVars, OpMove
<1>2. Own'
  BY DEF IInv, Own, memVars
<1>3. Untouched(p) /\ ptr' = ptr /\ UNCHANGED <<state, parent, pagetable>>
  BY DEF Untouched, memVars, procVars
<1> QED
  BY <1>1, <1>2, <1>3, QuietKeeps

\* A step that allocates, frees or moves pages and changes no process.
LEMMA PageKeeps ==
    ASSUME IInv, NEW p \in Proc, op[p].pc # "user", UNCHANGED <<procVars, alias>>, Own',
           free' \in [Page -> {0, 1}], ptr' \in [Slot -> Page \cup {Null}],
           upid' \in [Page -> 0 .. MaxPid], Untouched(p),
           NEW n, op' = [op EXCEPT ![p] = n], OpMove(op[p], n),
           Nulls(n, ptr'[Var("trapframe", op[p].q)], ptr'[Var("usyscall", op[p].q)]),
           ptr'[Var("mem", p)] # Null <=> n.pc \in {"map", "mapfail"} /\ n.a \notin Fixed,
           TableOf(n, pagetable[op[p].q]),
           \A T \in Table : T[1] = op[p].q /\ ptr'[Root(T)] # Null =>
                              RootOf(n, T, pagetable[op[p].q])
    PROVE  IInv'
<1>1. TypeOK'
  BY DEF IInv, TypeOK, procVars, OpMove
<1>2. UNCHANGED <<state, parent, pagetable>>
  BY DEF procVars
<1> QED
  BY <1>1, <1>2, QuietKeeps

\* What a change of slot s alone leaves untouched.
OnlySlot(s) == \A r \in Slot : r # s => ptr'[r] = ptr[r]

LEMMA OnlySlotFrame ==
    ASSUME NEW p \in Proc, NEW q \in Proc, op[p].q = q, NEW s \in Slot, OnlySlot(s)
    PROVE  /\ s = Var("trapframe", q) =>
                /\ Untouched(p)
                /\ ptr'[Var("usyscall", q)] = ptr[Var("usyscall", q)]
                /\ ptr'[Var("mem", p)] = ptr[Var("mem", p)]
                /\ \A T \in Table : ptr'[Root(T)] = ptr[Root(T)]
           /\ s = Var("usyscall", q) =>
                /\ Untouched(p)
                /\ ptr'[Var("trapframe", q)] = ptr[Var("trapframe", q)]
                /\ ptr'[Var("mem", p)] = ptr[Var("mem", p)]
                /\ \A T \in Table : ptr'[Root(T)] = ptr[Root(T)]
           /\ s = Var("mem", p) =>
                /\ Untouched(p)
                /\ ptr'[Var("trapframe", q)] = ptr[Var("trapframe", q)]
                /\ ptr'[Var("usyscall", q)] = ptr[Var("usyscall", q)]
                /\ \A T \in Table : ptr'[Root(T)] = ptr[Root(T)]
           /\ \A U \in Table : s = Root(U) /\ U[1] = q =>
                /\ Untouched(p)
                /\ ptr'[Var("trapframe", q)] = ptr[Var("trapframe", q)]
                /\ ptr'[Var("usyscall", q)] = ptr[Var("usyscall", q)]
                /\ ptr'[Var("mem", p)] = ptr[Var("mem", p)]
                /\ \A T \in Table : T # U => ptr'[Root(T)] = ptr[Root(T)]
           /\ \A k \in {"l1", "l0", "leaf"}, U \in Table, i \in Int : s = Ent(k, U, i) =>
                /\ Untouched(p)
                /\ ptr'[Var("trapframe", q)] = ptr[Var("trapframe", q)]
                /\ ptr'[Var("usyscall", q)] = ptr[Var("usyscall", q)]
                /\ ptr'[Var("mem", p)] = ptr[Var("mem", p)]
                /\ \A T \in Table : ptr'[Root(T)] = ptr[Root(T)]
<1> USE SlotFacts, SlotsDiffer DEF OnlySlot
<1>1. CASE s = Var("trapframe", q)
  BY <1>1 DEF Untouched
<1>2. CASE s = Var("usyscall", q)
  BY <1>2 DEF Untouched
<1>3. CASE s = Var("mem", p)
  BY <1>3 DEF Untouched
<1>4. ASSUME NEW U \in Table, s = Root(U), U[1] = q
      PROVE  /\ Untouched(p)
             /\ ptr'[Var("trapframe", q)] = ptr[Var("trapframe", q)]
             /\ ptr'[Var("usyscall", q)] = ptr[Var("usyscall", q)]
             /\ ptr'[Var("mem", p)] = ptr[Var("mem", p)]
             /\ \A T \in Table : T # U => ptr'[Root(T)] = ptr[Root(T)]
  BY <1>4 DEF Untouched
<1>5. ASSUME NEW k \in {"l1", "l0", "leaf"}, NEW U \in Table, NEW i \in Int, s = Ent(k, U, i)
      PROVE  /\ Untouched(p)
             /\ ptr'[Var("trapframe", q)] = ptr[Var("trapframe", q)]
             /\ ptr'[Var("usyscall", q)] = ptr[Var("usyscall", q)]
             /\ ptr'[Var("mem", p)] = ptr[Var("mem", p)]
             /\ \A T \in Table : ptr'[Root(T)] = ptr[Root(T)]
  BY <1>5 DEF Untouched
<1> QED
  BY <1>1, <1>2, <1>3, <1>4, <1>5

-----------------------------------------------------------------------------
(* Every kernel step keeps the invariant.                                  *)

LEMMA AllocTrapframeKeeps ==
    ASSUME IInv, NEW p \in Proc, AllocTrapframe(p)
    PROVE  IInv'
<1> DEFINE o == op[p]
           q == op[p].q
           s == Var("trapframe", q)
           n(l) == [o EXCEPT !.pc = l]
<1>1. o.pc = "trapframe" /\ UNCHANGED <<procVars, alias>>
  BY DEF AllocTrapframe, At
<1>2. /\ o \in Op /\ q \in Proc /\ Cursor(o) /\ o.t[1] = q
      /\ TableOf(o, pagetable[q])
      /\ Nulls(o, ptr[Var("trapframe", q)], ptr[Var("usyscall", q)])
      /\ ptr[Var("mem", p)] = Null
      /\ \A T \in Table : T[1] = q /\ ptr[Root(T)] # Null => RootOf(o, T, pagetable[q])
  BY <1>1, InKernel
<1>3. \A l : n(l).pc = l /\ n(l).t = o.t /\ n(l).then = o.then /\ n(l).a = o.a
  BY <1>2 DEF Op
<1>4. /\ OpMove(o, n("fptf")) /\ OpMove(o, n("usyscall"))
      /\ TableOf(n("fptf"), pagetable[q]) /\ TableOf(n("usyscall"), pagetable[q])
  BY <1>1, <1>2, <1>3, MoveGoto DEF TableOf, Holding, InLoop, Fresh
<1>5. \A T \in Table : T[1] = q /\ ptr[Root(T)] # Null =>
         RootOf(n("fptf"), T, pagetable[q]) /\ RootOf(n("usyscall"), T, pagetable[q])
  BY <1>1, <1>2, <1>3 DEF RootOf, Building
<1>6. ptr[s] = Null /\ ptr[Var("usyscall", q)] = Null
  BY <1>1, <1>2 DEF Nulls
<1>7. CASE OutOfMemory
  <2>1. UNCHANGED memVars /\ op' = [op EXCEPT ![p] = n("fptf")]
    BY <1>7 DEF AllocTrapframe, Goto
  <2>2. Nulls(n("fptf"), ptr[Var("trapframe", q)], ptr[Var("usyscall", q)])
    BY <1>3, <1>6 DEF Nulls, Gone
  <2>3. alias' \in [Table -> [Fixed -> Page \cup {Null, Trampoline}]]
    BY <1>1 DEF IInv, TypeOK
  <2> QED
    BY ZenonT(30), <1>1, <1>2, <1>3, <1>4, <1>5, <2>1, <2>2, <2>3, NoPageKeeps
<1>8. CASE ~ OutOfMemory
  <2>1. Kalloc(s) /\ op' = [op EXCEPT ![p] = n("usyscall")]
    BY <1>8 DEF AllocTrapframe, Goto
  <2>2. s \in Slot
    BY <1>2, SlotFacts
  <2>3. /\ Own' /\ free' \in [Page -> {0, 1}] /\ ptr' \in [Slot -> Page \cup {Null}]
        /\ upid' \in [Page -> 0 .. MaxPid] /\ OnlySlot(s)
    BY <1>6, <1>8, <2>1, <2>2, KallocOwn DEF IInv, OnlySlot
  <2>4. /\ Untouched(p)
        /\ ptr'[Var("usyscall", q)] = ptr[Var("usyscall", q)]
        /\ ptr'[Var("mem", p)] = ptr[Var("mem", p)]
        /\ \A T \in Table : ptr'[Root(T)] = ptr[Root(T)]
    BY <1>2, <2>2, <2>3, OnlySlotFrame
  <2>5. Nulls(n("usyscall"), ptr'[s], ptr'[Var("usyscall", q)])
    BY <1>3, <1>6, <2>4 DEF Nulls, Gone
  <2> QED
    BY ZenonT(30), <1>1, <1>2, <1>3, <1>4, <1>5, <2>1, <2>3, <2>4, <2>5, PageKeeps
<1> QED
  BY <1>7, <1>8

LEMMA AllocUsyscallKeeps ==
    ASSUME IInv, NEW p \in Proc, AllocUsyscall(p)
    PROVE  IInv'
<1> DEFINE o == op[p]
           q == op[p].q
           s == Var("usyscall", q)
           n(l) == [o EXCEPT !.pc = l]
<1>1. o.pc = "usyscall" /\ UNCHANGED <<procVars, alias>>
  BY DEF AllocUsyscall, At
<1>2. /\ o \in Op /\ q \in Proc /\ Cursor(o) /\ o.t[1] = q /\ o.t \in Table
      /\ TableOf(o, pagetable[q])
      /\ Nulls(o, ptr[Var("trapframe", q)], ptr[Var("usyscall", q)])
      /\ ptr[Var("mem", p)] = Null
      /\ \A T \in Table : T[1] = q /\ ptr[Root(T)] # Null => RootOf(o, T, pagetable[q])
  BY <1>1, InKernel
<1>3. \A l : n(l).pc = l /\ n(l).t = o.t /\ n(l).then = o.then /\ n(l).a = o.a
  BY <1>2 DEF Op
<1>4. pagetable[q] = NoTable /\ NoTable \notin Table
  BY <1>1, <1>2 DEF TableOf, NoTable, Table
<1>5. /\ OpMove(o, n("fptf")) /\ OpMove(o, n("root"))
      /\ TableOf(n("fptf"), pagetable[q]) /\ TableOf(n("root"), pagetable[q])
  BY <1>1, <1>2, <1>3, <1>4, MoveGoto DEF TableOf, Holding, InLoop, Fresh
<1>6. \A T \in Table : T[1] = q /\ ptr[Root(T)] # Null =>
         RootOf(n("fptf"), T, pagetable[q]) /\ RootOf(n("root"), T, pagetable[q])
  BY <1>1, <1>2, <1>3 DEF RootOf, Building
<1>7. ptr[s] = Null
  BY <1>1, <1>2 DEF Nulls
<1>8. CASE OutOfMemory
  <2>1. UNCHANGED memVars /\ op' = [op EXCEPT ![p] = n("fptf")]
    BY <1>8 DEF AllocUsyscall, Goto
  <2>2. Nulls(n("fptf"), ptr[Var("trapframe", q)], ptr[Var("usyscall", q)])
    BY <1>3, <1>7 DEF Nulls, Gone
  <2>3. alias' \in [Table -> [Fixed -> Page \cup {Null, Trampoline}]]
    BY <1>1 DEF IInv, TypeOK
  <2> QED
    BY ZenonT(30), <1>1, <1>2, <1>3, <1>5, <1>6, <2>1, <2>2, <2>3, NoPageKeeps
<1>9. CASE ~ OutOfMemory
  <2>1. Kalloc(s) /\ op' = [op EXCEPT ![p] = n("root")]
    BY <1>9 DEF AllocUsyscall, Goto
  <2>2. s \in Slot
    BY <1>2, SlotFacts
  <2>3. /\ Own' /\ free' \in [Page -> {0, 1}] /\ ptr' \in [Slot -> Page \cup {Null}]
        /\ upid' \in [Page -> 0 .. MaxPid] /\ OnlySlot(s)
    BY <1>7, <1>9, <2>1, <2>2, KallocOwn DEF IInv, OnlySlot
  <2>4. /\ Untouched(p)
        /\ ptr'[Var("mem", p)] = ptr[Var("mem", p)]
        /\ \A T \in Table : ptr'[Root(T)] = ptr[Root(T)]
    BY <1>2, <2>2, <2>3, OnlySlotFrame
  <2>5. Nulls(n("root"), ptr'[Var("trapframe", q)], ptr'[s])
    BY <1>3 DEF Nulls, Gone
  <2> QED
    BY ZenonT(30), <1>1, <1>2, <1>3, <1>5, <1>6, <2>1, <2>3, <2>4, <2>5, PageKeeps
<1> QED
  BY <1>8, <1>9

LEMMA UvmCreateKeeps ==
    ASSUME IInv, NEW p \in Proc, UvmCreate(p)
    PROVE  IInv'
<1> DEFINE o == op[p]
           q == op[p].q
           s == Root(o.t)
<1>1. o.pc = "root" /\ UNCHANGED <<procVars, alias>>
  BY DEF UvmCreate, At
<1>2. /\ o \in Op /\ q \in Proc /\ Cursor(o) /\ o.t[1] = q /\ o.t \in Table
      /\ TableOf(o, pagetable[q])
      /\ ptr[Var("mem", p)] = Null
      /\ \A T \in Table : T[1] = q /\ ptr[Root(T)] # Null => RootOf(o, T, pagetable[q])
  BY <1>1, InKernel
<1>3. /\ pagetable[q] # o.t
      /\ o.call # "exec" => pagetable[q] = NoTable
      /\ \A T \in Table : T[1] = q /\ ptr[Root(T)] # Null => pagetable[q] = T
  BY <1>1, <1>2 DEF TableOf, RootOf, Building, Fresh
<1>4. alias' \in [Table -> [Fixed -> Page \cup {Null, Trampoline}]]
  BY <1>1 DEF IInv, TypeOK
<1>5. CASE OutOfMemory /\ o.call = "exec"
  <2>1. UNCHANGED memVars /\ op' = [op EXCEPT ![p] = Idle]
    BY <1>5 DEF UvmCreate, Goto, NoTableThen
  <2>2. /\ TableOf(Idle, pagetable[q]) /\ OpMove(o, Idle)
        /\ Nulls(Idle, ptr[Var("trapframe", q)], ptr[Var("usyscall", q)])
        /\ \A T \in Table : pagetable[q] = T => RootOf(Idle, T, pagetable[q])
    BY IdleFacts DEF TableOf, Holding, InLoop, Fresh, Nulls, Gone, RootOf, OpMove
  <2> QED
    BY <1>1, <1>2, <1>3, <1>4, <2>1, <2>2, IdleFacts, NoPageKeeps
<1>6. CASE OutOfMemory /\ o.call # "exec"
  <2> DEFINE n == [o EXCEPT !.pc = "fptf"]
  <2>1. UNCHANGED memVars /\ op' = [op EXCEPT ![p] = n]
    BY <1>6 DEF UvmCreate, Goto, NoTableThen
  <2>2. n.pc = "fptf" /\ OpMove(o, n)
    BY <1>1, <1>2, <1>6, MoveGoto DEF Op
  <2>3. /\ TableOf(n, pagetable[q])
        /\ Nulls(n, ptr[Var("trapframe", q)], ptr[Var("usyscall", q)])
        /\ \A T \in Table : pagetable[q] = T => RootOf(n, T, pagetable[q])
    BY <1>3, <2>2 DEF TableOf, Holding, InLoop, Fresh, Nulls, Gone, RootOf
  <2> QED
    BY <1>1, <1>2, <1>3, <1>4, <2>1, <2>2, <2>3, NoPageKeeps
<1>7. CASE ~ OutOfMemory
  <2> DEFINE n == [o EXCEPT !.pc = "map", !.a = TRAMPOLINE]
  <2>1. Kalloc(s) /\ op' = [op EXCEPT ![p] = n]
    BY <1>7 DEF UvmCreate, Enter
  <2>2. n.pc = "map" /\ n.a \in Fixed /\ n.t = o.t /\ n.call = o.call /\ OpMove(o, n)
    BY <1>1, <1>2, MoveCreate DEF Op, Fixed
  <2>3. s \in Slot /\ ptr[s] = Null
    BY <1>2, <1>3, SlotFacts
  <2>4. /\ Own' /\ free' \in [Page -> {0, 1}] /\ ptr' \in [Slot -> Page \cup {Null}]
        /\ upid' \in [Page -> 0 .. MaxPid] /\ OnlySlot(s)
    BY <1>7, <2>1, <2>3, KallocOwn DEF IInv, OnlySlot
  <2>5. /\ Untouched(p)
        /\ ptr'[Var("mem", p)] = ptr[Var("mem", p)]
        /\ \A T \in Table : T # o.t => ptr'[Root(T)] = ptr[Root(T)]
    BY <1>2, <2>3, <2>4, OnlySlotFrame
  <2>6. /\ TableOf(n, pagetable[q])
        /\ Nulls(n, ptr'[Var("trapframe", q)], ptr'[Var("usyscall", q)])
    BY <1>3, <2>2 DEF TableOf, Holding, InLoop, Fresh, Nulls, Gone
  <2>7. \A T \in Table : T[1] = q /\ ptr'[Root(T)] # Null => RootOf(n, T, pagetable[q])
    BY <1>3, <2>2, <2>5 DEF RootOf, Building
  <2> QED
    BY <1>1, <1>2, <2>1, <2>2, <2>4, <2>5, <2>6, <2>7, PageKeeps
<1> QED
  BY <1>5, <1>6, <1>7

LEMMA WalkAllocKeeps ==
    ASSUME IInv, NEW p \in Proc, WalkAlloc(p)
    PROVE  IInv'
<1> DEFINE o == op[p]
           q == op[p].q
           l1 == Ent("l1", o.t, L1(o.a))
           l0 == Ent("l0", o.t, L0(o.a))
           s == IF ptr[l1] = Null THEN l1 ELSE l0
           n == [o EXCEPT !.pc = "mapfail"]
<1>1. o.pc = "map" /\ ptr[s] = Null /\ UNCHANGED <<procVars, alias>>
  BY DEF WalkAlloc, At
<1>2. /\ op \in [Proc -> Op] /\ o \in Op /\ q \in Proc /\ Cursor(o)
      /\ o.t[1] = q /\ o.t \in Table
      /\ TableOf(o, pagetable[q])
      /\ Nulls(o, ptr[Var("trapframe", q)], ptr[Var("usyscall", q)])
      /\ (ptr[Var("mem", p)] # Null <=> o.pc \in {"map", "mapfail"} /\ o.a \notin Fixed)
      /\ \A T \in Table : T[1] = q /\ ptr[Root(T)] # Null => RootOf(o, T, pagetable[q])
  BY <1>1, InKernel
<1>3. o.a \in Vpn
  BY <1>1, <1>2 DEF Cursor
<1>4. n.pc = "mapfail" /\ n.a = o.a /\ n.t = o.t /\ n.call = o.call /\ OpMove(o, n) /\ OpMove(o, o)
  BY <1>1, <1>2, MoveGoto DEF Op
<1>5. CASE OutOfMemory
  <2>1. UNCHANGED memVars /\ op' = [op EXCEPT ![p] = n]
    BY <1>5 DEF WalkAlloc, Goto
  <2>2. /\ TableOf(n, pagetable[q])
        /\ Nulls(n, ptr[Var("trapframe", q)], ptr[Var("usyscall", q)])
    BY <1>1, <1>2, <1>4 DEF TableOf, Holding, InLoop, Fresh, Nulls, Gone
  <2>3. \A T \in Table : T[1] = q /\ ptr[Root(T)] # Null => RootOf(n, T, pagetable[q])
    BY <1>1, <1>2, <1>4 DEF RootOf, Building
  <2>4. alias' \in [Table -> [Fixed -> Page \cup {Null, Trampoline}]]
    BY <1>1 DEF IInv, TypeOK
  <2> QED
    BY <1>1, <1>2, <1>4, <2>1, <2>2, <2>3, <2>4, NoPageKeeps
<1>6. CASE ~ OutOfMemory
  <2>1. Kalloc(s) /\ op' = op
    BY <1>6 DEF WalkAlloc
  <2>2. op' = [op EXCEPT ![p] = o]
    BY <1>2, <2>1
  <2>3. s \in Slot
    BY <1>2, <1>3, SlotFacts
  <2>4. /\ Own' /\ free' \in [Page -> {0, 1}] /\ ptr' \in [Slot -> Page \cup {Null}]
        /\ upid' \in [Page -> 0 .. MaxPid] /\ OnlySlot(s)
    BY <1>1, <1>6, <2>1, <2>3, KallocOwn DEF IInv, OnlySlot
  <2>5. \E k \in {"l1", "l0", "leaf"}, i \in Int : s = Ent(k, o.t, i)
    <3>1. L1(o.a) \in Int /\ L0(o.a) \in Int
      BY <1>2, ConstantsAssumption DEF L1, L0, Op
    <3> QED
      BY <3>1
  <2>6. /\ Untouched(p)
        /\ ptr'[Var("trapframe", q)] = ptr[Var("trapframe", q)]
        /\ ptr'[Var("usyscall", q)] = ptr[Var("usyscall", q)]
        /\ ptr'[Var("mem", p)] = ptr[Var("mem", p)]
        /\ \A T \in Table : ptr'[Root(T)] = ptr[Root(T)]
    <3> HIDE DEF s
    <3> QED
      BY <1>2, <2>3, <2>4, <2>5, OnlySlotFrame
  <2> QED
    BY <1>1, <1>2, <1>4, <2>2, <2>4, <2>6, PageKeeps
<1> QED
  BY <1>5, <1>6

\* panic() stops the machine; nothing the invariant speaks of changes.
LEMMA SameKeeps ==
    ASSUME IInv, UNCHANGED <<procVars, memVars, alias, op>>
    PROVE  IInv'
<1>1. UNCHANGED <<state, parent, pid, nextpid, sz, pagetable, free, ptr, upid, alias, op>>
  BY DEF procVars, memVars
<1>2. TypeOK'
  BY <1>1 DEF IInv, TypeOK
<1>3. Own'
  BY <1>1 DEF IInv, Own
<1>4. Workers' /\ Cursors'
  BY <1>1 DEF IInv, Workers, Worker, Busy, Cursors
<1>5. Tables'
  BY <1>1 DEF IInv, Tables
<1>6. Vars' /\ Roots'
  BY <1>1 DEF IInv, Vars, Roots, Rooted
<1> QED
  BY <1>2, <1>3, <1>4, <1>5, <1>6 DEF IInv

LEMMA PanicKeeps == ASSUME IInv, NEW msg, Panic(msg) PROVE IInv'
BY SameKeeps DEF Panic

LEMMA MapUserPageKeeps ==
    ASSUME IInv, NEW p \in Proc, MapUserPage(p)
    PROVE  IInv'
<1> DEFINE o == op[p]
           q == op[p].q
           s == Var("mem", p)
           d == Ent("leaf", o.t, o.a)
           n == [o EXCEPT !.pc = "alloc", !.a = @ + 1]
<1>1. o.pc = "map" /\ o.a \notin Fixed
  BY DEF MapUserPage, At
<1>2. /\ o \in Op /\ q \in Proc /\ Cursor(o) /\ o.t[1] = q /\ o.t \in Table
      /\ TableOf(o, pagetable[q])
      /\ \A T \in Table : T[1] = q /\ ptr[Root(T)] # Null => RootOf(o, T, pagetable[q])
  BY <1>1, InKernel
<1>3. CASE Mapped(o.t, o.a)
  <2>1. Panic("mappages: remap")
    BY <1>3 DEF MapUserPage
  <2> QED
    BY <2>1, PanicKeeps
<1>4. CASE ~ Mapped(o.t, o.a)
  <2>1. /\ ptr' = [ptr EXCEPT ![d] = ptr[s], ![s] = Null]
        /\ op' = [op EXCEPT ![p] = n]
        /\ UNCHANGED <<procVars, free, upid, alias>>
    BY <1>4 DEF MapUserPage, Enter
  <2>2. o.a \in UserVpn /\ o.a \in Int
    BY <1>1, <1>2, VpnFacts DEF Cursor, Op
  <2>3. s \in Slot /\ d \in Slot /\ s # d /\ ptr[d] = Null
    BY <1>1, <1>2, <1>4, <2>2, SlotFacts, SlotsDiffer DEF Mapped
  <2>4. /\ Own' /\ ptr' \in [Slot -> Page \cup {Null}] /\ ptr'[s] = Null
        /\ \A r \in Slot : r # s /\ r # d => ptr'[r] = ptr[r]
    BY <2>1, <2>3, MoveOwn DEF IInv
  <2>5. /\ Untouched(p)
        /\ ptr'[Var("trapframe", q)] = ptr[Var("trapframe", q)]
        /\ ptr'[Var("usyscall", q)] = ptr[Var("usyscall", q)]
        /\ \A T \in Table : ptr'[Root(T)] = ptr[Root(T)]
    BY <1>2, <2>2, <2>4, SlotFacts, SlotsDiffer DEF Untouched
  <2>6. n.pc = "alloc" /\ n.t = o.t /\ n.call = o.call /\ OpMove(o, n)
    BY <1>1, <1>2, MoveUserPage DEF Op
  <2>7. /\ TableOf(n, pagetable[q])
        /\ Nulls(n, ptr'[Var("trapframe", q)], ptr'[Var("usyscall", q)])
    BY <1>1, <1>2, <2>6 DEF TableOf, Holding, InLoop, Fresh, Nulls, Gone
  <2>8. \A T \in Table : T[1] = q /\ ptr'[Root(T)] # Null => RootOf(n, T, pagetable[q])
    BY <1>1, <1>2, <2>5, <2>6 DEF RootOf, Building
  <2>9. free' \in [Page -> {0, 1}] /\ upid' \in [Page -> 0 .. MaxPid]
    BY <2>1 DEF IInv, TypeOK
  <2> QED
    BY <1>1, <2>1, <2>4, <2>5, <2>6, <2>7, <2>8, <2>9, PageKeeps
<1> QED
  BY <1>3, <1>4

LEMMA MapFixedKeeps ==
    ASSUME IInv, NEW p \in Proc, MapFixed(p)
    PROVE  IInv'
<1> DEFINE o == op[p]
           q == op[p].q
<1>1. o.pc = "map" /\ o.a \in Fixed
  BY DEF MapFixed, At
<1>2. /\ op \in [Proc -> Op] /\ o \in Op /\ q \in Proc /\ Cursor(o)
      /\ o.t[1] = q /\ o.t \in Table
      /\ TableOf(o, pagetable[q]) /\ Worker(p, o) /\ state[q] # "UNUSED"
      /\ ptr[Var("mem", p)] = Null
      /\ \A T \in Table : T[1] = q /\ ptr[Root(T)] # Null => RootOf(o, T, pagetable[q])
  BY <1>1, InKernel
<1>3. CASE Mapped(o.t, o.a)
  <2>1. Panic("mappages: remap")
    BY <1>3 DEF MapFixed
  <2> QED
    BY <2>1, PanicKeeps
<1>4. ASSUME ~ Mapped(o.t, o.a)
      PROVE  /\ alias' \in [Table -> [Fixed -> Page \cup {Null, Trampoline}]]
             /\ UNCHANGED <<state, parent, pid, nextpid, sz, free, ptr>>
  <2>1. PICK x : /\ alias' = [alias EXCEPT ![o.t][o.a] = x]
                 /\ x = CASE o.a = TRAMPOLINE -> Trampoline
                          [] o.a = TRAPFRAME  -> ptr[Var("trapframe", q)]
                          [] o.a = USYSCALL   -> ptr[Var("usyscall", q)]
    BY <1>4 DEF MapFixed
  <2>2. ptr[Var("trapframe", q)] \in Page \cup {Null}
        /\ ptr[Var("usyscall", q)] \in Page \cup {Null}
    BY <1>2, SlotFacts DEF IInv, TypeOK
  <2>3. x \in Page \cup {Null, Trampoline}
    BY <1>1, <2>1, <2>2 DEF Fixed
  <2>4. UNCHANGED <<state, parent, pid, nextpid, sz, free, ptr>>
    BY <1>4 DEF MapFixed
  <2> QED
    BY <2>1, <2>3, <2>4 DEF IInv, TypeOK
<1>5. CASE ~ Mapped(o.t, o.a) /\ o.a # USYSCALL
  <2> DEFINE n == [o EXCEPT !.a = @ - 1]
  <2>1. op' = [op EXCEPT ![p] = n] /\ UNCHANGED <<upid, pagetable>>
    BY <1>5 DEF MapFixed, Enter
  <2>2. OpMove(o, n) /\ n.pc = "map" /\ n.t = o.t /\ n.call = o.call
    BY <1>1, <1>2, <1>5, MoveFixed DEF Op
  <2>3. n.a \in Fixed
    BY <1>1, <1>2, <1>5, VpnFacts DEF Op, Fixed
  <2>4. /\ TableOf(n, pagetable[q])
        /\ Nulls(n, ptr[Var("trapframe", q)], ptr[Var("usyscall", q)])
    BY <1>1, <1>2, <2>2, <2>3 DEF TableOf, Holding, InLoop, Fresh, Nulls, Gone
  <2>5. \A T \in Table : T[1] = q /\ ptr[Root(T)] # Null => RootOf(n, T, pagetable[q])
    BY <1>1, <1>2, <2>2 DEF RootOf, Building
  <2>6. UNCHANGED <<procVars, memVars>>
    BY <1>4, <1>5, <2>1 DEF procVars, memVars
  <2> QED
    BY <1>1, <1>2, <1>4, <1>5, <2>1, <2>2, <2>3, <2>4, <2>5, <2>6, NoPageKeeps
<1>6. CASE ~ Mapped(o.t, o.a) /\ o.a = USYSCALL /\ o.call = "exec"
  <2> DEFINE n == [o EXCEPT !.pc = "load"]
  <2>1. op' = [op EXCEPT ![p] = n] /\ UNCHANGED <<upid, pagetable>>
    BY <1>6 DEF MapFixed, Enter
  <2>2. OpMove(o, n) /\ n.pc = "load" /\ n.t = o.t /\ n.call = o.call
    BY <1>1, <1>2, <1>6, MoveGoto DEF Op
  <2>3. /\ TableOf(n, pagetable[q])
        /\ Nulls(n, ptr[Var("trapframe", q)], ptr[Var("usyscall", q)])
    BY <2>2 DEF TableOf, Holding, InLoop, Fresh, Nulls, Gone
  <2>4. \A T \in Table : T[1] = q /\ ptr[Root(T)] # Null => RootOf(n, T, pagetable[q])
    BY <1>1, <1>2, <2>2 DEF RootOf, Building
  <2>5. UNCHANGED <<procVars, memVars>>
    BY <1>4, <1>6, <2>1 DEF procVars, memVars
  <2> QED
    BY <1>1, <1>2, <1>4, <1>6, <2>1, <2>2, <2>3, <2>4, <2>5, NoPageKeeps
<1>7. CASE ~ Mapped(o.t, o.a) /\ o.a = USYSCALL /\ o.call # "exec"
  <2> DEFINE k == IF o.call = "userinit" THEN PGSIZE ELSE sz[p]
             n == [o EXCEPT !.pc = "alloc", !.a = 0, !.nsz = k,
                            !.lim = NPages(k), !.then = "setsz"]
  <2>1. /\ op' = [op EXCEPT ![p] = n]
        /\ pagetable' = [pagetable EXCEPT ![q] = o.t]
        /\ upid' = [upid EXCEPT ![ptr[Var("usyscall", q)]] = pid[q]]
    <3>1. o.a # USYSCALL => FALSE
      BY <1>7
    <3> QED
      BY <1>7, <3>1 DEF MapFixed, Enter
  <2>2. k \in 0 .. MaxSz
    BY ConstantsAssumption DEF IInv, TypeOK
  <2>3. OpMove(o, n)
    BY <1>1, <1>2, <1>7, <2>2, MoveFirstPage
  <2>4. n.pc = "alloc" /\ n.t = o.t /\ n.call = o.call
    BY <1>2 DEF Op
  <2>5. pagetable'[q] = o.t /\ \A r \in Proc \ {q} : pagetable'[r] = pagetable[r]
    BY <1>2, <2>1 DEF IInv, TypeOK
  <2>6. o.t \in {<<q, 0>>, <<q, 1>>} /\ o.t # NoTable
    BY <1>2 DEF Table, NoTable
  <2>7. /\ TableOf(n, o.t)
        /\ Nulls(n, ptr[Var("trapframe", q)], ptr[Var("usyscall", q)])
    BY <2>4 DEF TableOf, Holding, InLoop, Fresh, Nulls, Gone
  <2>8. \A T \in Table : T[1] = q /\ ptr[Root(T)] # Null => RootOf(n, T, o.t)
    <3>1. pagetable[q] = NoTable /\ NoTable \notin Table
      BY <1>1, <1>2, <1>7 DEF TableOf, Fresh, NoTable, Table
    <3> QED
      BY <1>2, <2>4, <3>1 DEF RootOf, Building
  <2>9. upid' \in [Page -> 0 .. MaxPid]
    BY <1>2, <2>1 DEF IInv, TypeOK
  <2>10. TypeOK'
    <3>1. op' \in [Proc -> Op]
      BY <1>2, <2>1, <2>3 DEF OpMove
    <3>2. pagetable' \in [Proc -> Table \cup {NoTable}]
      BY <1>2, <2>1 DEF IInv, TypeOK
    <3> QED
      BY <1>4, <1>7, <2>9, <3>1, <3>2 DEF IInv, TypeOK
  <2>11. Own'
    BY <1>4, <1>7 DEF IInv, Own
  <2>12. LocalStep(p, n)
    BY <1>1, <1>2, <1>4, <1>7, <2>1, <2>3, <2>4, <2>5, <2>6, <2>7, <2>8 DEF LocalStep
  <2> QED
    BY <1>1, <2>10, <2>11, <2>12, LocalKeeps
<1> QED
  BY <1>3, <1>5, <1>6, <1>7

LEMMA MapFailFixedKeeps ==
    ASSUME IInv, NEW p \in Proc, MapFailFixed(p)
    PROVE  IInv'
<1> DEFINE o == op[p]
           q == op[p].q
           n == [o EXCEPT !.pc = "freewalk", !.then = NoTableThen(o)]
           bad == \E v \in o.a + 1 .. TRAMPOLINE : ~ Mapped(o.t, v)
<1>1. o.pc = "mapfail" /\ o.a \in Fixed
  BY DEF MapFailFixed, At
<1>2. /\ o \in Op /\ q \in Proc /\ Cursor(o) /\ o.t[1] = q /\ o.t \in Table
      /\ ptr[Var("mem", p)] = Null
      /\ \A T \in Table : T[1] = q /\ ptr[Root(T)] # Null => RootOf(o, T, pagetable[q])
  BY <1>1, InKernel
<1>3. CASE bad
  <2>1. Panic("uvmunmap: not mapped")
    BY <1>3 DEF MapFailFixed
  <2> QED
    BY <2>1, PanicKeeps
<1>4. CASE ~ bad
  <2>1. /\ alias' = [alias EXCEPT ![o.t] =
                        [v \in Fixed |-> IF v > o.a THEN Null ELSE @[v]]]
        /\ op' = [op EXCEPT ![p] = n]
        /\ UNCHANGED <<procVars, memVars>>
    BY <1>4 DEF MapFailFixed, Enter
  <2>2. OpMove(o, n)
    BY <1>1, <1>2, MoveFreeEmpty
  <2>3. n.pc = "freewalk" /\ n.then = NoTableThen(o) /\ n.t = o.t
    BY <1>2 DEF Op
  <2>4. /\ TableOf(n, pagetable[q])
        /\ Nulls(n, ptr[Var("trapframe", q)], ptr[Var("usyscall", q)])
    BY <2>3 DEF TableOf, Holding, InLoop, Fresh, Nulls, Gone, NoTableThen
  <2>5. \A T \in Table : T[1] = q /\ ptr[Root(T)] # Null => RootOf(n, T, pagetable[q])
    BY <1>1, <1>2, <2>3 DEF RootOf, Building
  <2>6. alias' \in [Table -> [Fixed -> Page \cup {Null, Trampoline}]]
    <3>1. alias \in [Table -> [Fixed -> Page \cup {Null, Trampoline}]]
      BY DEF IInv, TypeOK
    <3> QED
      BY <1>2, <2>1, <3>1
  <2> QED
    BY <1>1, <1>2, <2>1, <2>2, <2>3, <2>4, <2>5, <2>6, NoPageKeeps
<1> QED
  BY <1>3, <1>4

LEMMA MapFailUserKeeps ==
    ASSUME IInv, NEW p \in Proc, MapFailUser(p)
    PROVE  IInv'
<1> DEFINE o == op[p]
           q == op[p].q
           s == Var("mem", p)
           n == UndoLoop(o)
<1>1. o.pc = "mapfail" /\ o.a \notin Fixed
  BY DEF MapFailUser, At
<1>2. /\ o \in Op /\ q \in Proc /\ Cursor(o) /\ o.t[1] = q /\ o.t \in Table
      /\ TableOf(o, pagetable[q]) /\ ptr[s] # Null
      /\ \A T \in Table : T[1] = q /\ ptr[Root(T)] # Null => RootOf(o, T, pagetable[q])
  BY <1>1, InKernel
<1>3. CASE o.call = "userinit"
  <2>1. Panic("init exiting")
    BY <1>3 DEF MapFailUser
  <2> QED
    BY <2>1, PanicKeeps
<1>4. CASE o.call # "userinit"
  <2>1. Kfree(s) /\ op' = [op EXCEPT ![p] = n] /\ UNCHANGED <<procVars, alias>>
    BY <1>4 DEF MapFailUser, Enter
  <2>2. InLoop(o)
    BY <1>1 DEF InLoop
  <2>3. OpMove(o, n)
    BY <1>2, <1>4, <2>2, MoveUndo
  <2>4. n.pc = "unmap" /\ n.t = o.t /\ n.call = o.call
    BY <1>2 DEF Op, UndoLoop
  <2>5. s \in Slot
    BY SlotFacts
  <2>6. /\ Own' /\ free' \in [Page -> {0, 1}] /\ ptr' \in [Slot -> Page \cup {Null}]
        /\ upid' \in [Page -> 0 .. MaxPid] /\ OnlySlot(s) /\ ptr'[s] = Null
    BY <1>2, <2>1, <2>5, KfreeOwn DEF IInv, OnlySlot
  <2>7. Untouched(p) /\ \A T \in Table : ptr'[Root(T)] = ptr[Root(T)]
    BY <1>2, <2>5, <2>6, OnlySlotFrame
  <2>8. /\ TableOf(n, pagetable[q])
        /\ Nulls(n, ptr'[Var("trapframe", q)], ptr'[Var("usyscall", q)])
    BY <1>1, <1>2, <2>2, <2>4 DEF TableOf, Holding, InLoop, Fresh, Nulls, Gone
  <2>9. \A T \in Table : T[1] = q /\ ptr'[Root(T)] # Null => RootOf(n, T, pagetable[q])
    BY <1>1, <1>2, <2>4, <2>7 DEF RootOf, Building
  <2> HIDE DEF n
  <2> QED
    BY <1>1, <2>1, <2>3, <2>4, <2>6, <2>7, <2>8, <2>9, PageKeeps
<1> QED
  BY <1>3, <1>4

LEMMA AllocPageKeeps ==
    ASSUME IInv, NEW p \in Proc, AllocPage(p)
    PROVE  IInv'
<1> DEFINE o == op[p]
           q == op[p].q
           s == Var("mem", p)
<1>1. o.pc = "alloc" /\ o.a < o.lim
  BY DEF AllocPage, At
<1>2. /\ o \in Op /\ q \in Proc /\ Cursor(o) /\ o.t[1] = q /\ o.t \in Table
      /\ TableOf(o, pagetable[q]) /\ ptr[s] = Null
      /\ \A T \in Table : T[1] = q /\ ptr[Root(T)] # Null => RootOf(o, T, pagetable[q])
  BY <1>1, InKernel
<1>3. \/ \E msg : Panic(msg)
      \/ /\ OutOfMemory /\ o.call # "userinit" /\ op' = [op EXCEPT ![p] = UndoLoop(o)]
         /\ UNCHANGED <<procVars, memVars, alias>>
      \/ /\ ~ OutOfMemory /\ Kalloc(s) /\ op' = [op EXCEPT ![p] = [o EXCEPT !.pc = "map"]]
         /\ UNCHANGED <<procVars, alias>>
  BY DEF AllocPage, Enter, Goto
<1>4. CASE \E msg : Panic(msg)
  BY <1>4, PanicKeeps
<1>5. CASE /\ OutOfMemory /\ o.call # "userinit" /\ op' = [op EXCEPT ![p] = UndoLoop(o)]
           /\ UNCHANGED <<procVars, memVars, alias>>
  <2> DEFINE n == UndoLoop(o)
  <2>1. InLoop(o)
    BY <1>1 DEF InLoop
  <2>2. OpMove(o, n)
    BY <1>2, <1>5, <2>1, MoveUndo
  <2>3. n.pc = "unmap" /\ n.t = o.t /\ n.call = o.call
    BY <1>2 DEF Op, UndoLoop
  <2>4. /\ TableOf(n, pagetable[q])
        /\ Nulls(n, ptr[Var("trapframe", q)], ptr[Var("usyscall", q)])
    BY <1>1, <1>2, <2>1, <2>3 DEF TableOf, Holding, InLoop, Fresh, Nulls, Gone
  <2>5. \A T \in Table : T[1] = q /\ ptr[Root(T)] # Null => RootOf(n, T, pagetable[q])
    BY <1>1, <1>2, <2>3 DEF RootOf, Building
  <2>6. alias' \in [Table -> [Fixed -> Page \cup {Null, Trampoline}]]
    BY <1>5 DEF IInv, TypeOK
  <2>7. op' = [op EXCEPT ![p] = n]
    BY <1>5
  <2> HIDE DEF n
  <2> QED
    BY <1>1, <1>2, <1>5, <2>2, <2>3, <2>4, <2>5, <2>6, <2>7, NoPageKeeps
<1>6. CASE /\ ~ OutOfMemory /\ Kalloc(s) /\ op' = [op EXCEPT ![p] = [o EXCEPT !.pc = "map"]]
           /\ UNCHANGED <<procVars, alias>>
  <2> DEFINE n == [o EXCEPT !.pc = "map"]
  <2>1. OpMove(o, n) /\ o.a \notin Fixed
    BY <1>1, <1>2, MoveToMap
  <2>2. n.pc = "map" /\ n.t = o.t /\ n.call = o.call /\ n.a = o.a
    BY <1>2 DEF Op
  <2>3. s \in Slot
    BY SlotFacts
  <2>4. /\ Own' /\ free' \in [Page -> {0, 1}] /\ ptr' \in [Slot -> Page \cup {Null}]
        /\ upid' \in [Page -> 0 .. MaxPid] /\ OnlySlot(s) /\ ptr'[s] \in Page
    BY <1>2, <1>6, <2>3, KallocOwn DEF IInv, OnlySlot
  <2>5. Untouched(p) /\ \A T \in Table : ptr'[Root(T)] = ptr[Root(T)]
    BY <1>2, <2>3, <2>4, OnlySlotFrame
  <2>6. /\ TableOf(n, pagetable[q])
        /\ Nulls(n, ptr'[Var("trapframe", q)], ptr'[Var("usyscall", q)])
    BY <1>1, <1>2, <2>1, <2>2 DEF TableOf, Holding, InLoop, Fresh, Nulls, Gone
  <2>7. \A T \in Table : T[1] = q /\ ptr'[Root(T)] # Null => RootOf(n, T, pagetable[q])
    BY <1>1, <1>2, <2>2, <2>5 DEF RootOf, Building
  <2>8. ptr'[s] # Null
    BY <2>4, ConstantsAssumption
  <2> QED
    BY <1>1, <1>6, <2>1, <2>2, <2>4, <2>5, <2>6, <2>7, <2>8, PageKeeps
<1> QED
  BY <1>3, <1>4, <1>5, <1>6

LEMMA AllocDoneKeeps ==
    ASSUME IInv, NEW p \in Proc, AllocDone(p)
    PROVE  IInv'
<1> DEFINE o == op[p]
           q == op[p].q
           n == [o EXCEPT !.pc = o.then, !.sz = o.nsz]
<1>1. o.pc = "alloc" /\ UNCHANGED <<procVars, memVars, alias>> /\ op' = [op EXCEPT ![p] = n]
  BY DEF AllocDone, At, Enter
<1>2. /\ o \in Op /\ q \in Proc /\ Cursor(o) /\ o.t[1] = q /\ o.t \in Table
      /\ TableOf(o, pagetable[q]) /\ ptr[Var("mem", p)] = Null
      /\ \A T \in Table : T[1] = q /\ ptr[Root(T)] # Null => RootOf(o, T, pagetable[q])
  BY <1>1, InKernel
<1>3. o.then \in {"load", "args", "setsz"} /\ (o.then = "setsz" <=> o.call # "exec")
  BY <1>1, <1>2 DEF Cursor, InLoop
<1>4. OpMove(o, n)
  BY <1>1, <1>2, MoveLoopDone
<1>5. n.pc = o.then /\ n.t = o.t /\ n.call = o.call
  BY <1>2 DEF Op
<1>6. /\ TableOf(n, pagetable[q])
      /\ Nulls(n, ptr[Var("trapframe", q)], ptr[Var("usyscall", q)])
  BY <1>1, <1>2, <1>3, <1>5 DEF TableOf, Holding, InLoop, Fresh, Nulls, Gone
<1>7. \A T \in Table : T[1] = q /\ ptr[Root(T)] # Null => RootOf(n, T, pagetable[q])
  BY <1>1, <1>2, <1>3, <1>5 DEF RootOf, Building
<1>8. alias' \in [Table -> [Fixed -> Page \cup {Null, Trampoline}]]
  BY <1>1 DEF IInv, TypeOK
<1> QED
  BY <1>1, <1>2, <1>3, <1>4, <1>5, <1>6, <1>7, <1>8, NoPageKeeps

LEMMA SetSzKeeps ==
    ASSUME IInv, NEW p \in Proc, SetSz(p)
    PROVE  IInv'
<1> DEFINE o == op[p]
           q == op[p].q
<1>1. /\ o.pc = "setsz" /\ op' = [op EXCEPT ![p] = Idle]
      /\ sz' = [sz EXCEPT ![q] = o.nsz]
      /\ UNCHANGED <<pid, nextpid, pagetable, memVars, alias>>
  BY DEF SetSz, At, Goto
<1>2. /\ o \in Op /\ q \in Proc /\ Cursor(o) /\ o.t[1] = q /\ o.t \in Table
      /\ Worker(p, o) /\ state[q] # "UNUSED"
      /\ TableOf(o, pagetable[q]) /\ ptr[Var("mem", p)] = Null
      /\ \A T \in Table : T[1] = q /\ ptr[Root(T)] # Null => RootOf(o, T, pagetable[q])
  BY <1>1, InKernel
<1>3. /\ state'[q] = "RUNNABLE" /\ \A r \in Proc \ {q} : state'[r] = state[r]
      /\ \A r \in Proc \ {q} : parent'[r] = parent[r]
      /\ state' \in [Proc -> {"UNUSED", "USED", "RUNNABLE", "ZOMBIE"}]
      /\ parent' \in [Proc -> Proc \cup {Null}]
  <2>1. state \in [Proc -> {"UNUSED", "USED", "RUNNABLE", "ZOMBIE"}]
        /\ parent \in [Proc -> Proc \cup {Null}]
    BY DEF IInv, TypeOK
  <2>2. CASE o.call = "sbrk"
    BY <1>2, <2>1, <2>2 DEF SetSz, Worker
  <2>3. CASE o.call # "sbrk"
    <3>1. /\ state' = [state EXCEPT ![q] = "RUNNABLE"]
          /\ parent' = IF o.call = "fork" THEN [parent EXCEPT ![q] = p] ELSE parent
      BY <2>3 DEF SetSz
    <3> QED
      BY <1>2, <2>1, <3>1
  <2> QED
    BY <2>2, <2>3
<1>4. UNCHANGED <<free, ptr, upid, pagetable>>
  BY <1>1 DEF memVars
<1>5. TypeOK'
  <2>1. op' \in [Proc -> Op] /\ sz' \in [Proc -> 0 .. MaxSz]
    BY <1>1, <1>2, IdleFacts DEF IInv, TypeOK, Op
  <2> QED
    BY <1>1, <1>3, <1>4, <2>1 DEF IInv, TypeOK
<1>6. Own'
  BY <1>4 DEF IInv, Own
<1>7. pagetable[q] = o.t /\ pagetable[q] # NoTable
      /\ pagetable[q] \in {NoTable, <<q, 0>>, <<q, 1>>}
  BY <1>1, <1>2 DEF TableOf, Holding, NoTable, Table, IInv, Tables
<1>8. /\ TableOf(Idle, pagetable[q]) /\ OpMove(o, Idle)
      /\ Nulls(Idle, ptr[Var("trapframe", q)], ptr[Var("usyscall", q)])
      /\ \A T \in Table : pagetable[q] = T => RootOf(Idle, T, pagetable[q])
  BY IdleFacts DEF TableOf, Holding, InLoop, Fresh, Nulls, Gone, RootOf, OpMove
<1>9. \A T \in Table : T[1] = q /\ ptr[Root(T)] # Null => pagetable[q] = T
  BY <1>2, <1>7 DEF RootOf
<1>10. LocalStep(p, Idle)
  BY <1>1, <1>2, <1>3, <1>4, <1>7, <1>8, <1>9, IdleFacts DEF LocalStep
<1> QED
  BY <1>1, <1>5, <1>6, <1>10, LocalKeeps

\* exec() goes from one of its own places to another.
LEMMA ExecKeeps ==
    ASSUME IInv, NEW p \in Proc, op[p].pc \in {"load", "args"},
           UNCHANGED <<procVars, memVars, alias>>,
           NEW n, op' = [op EXCEPT ![p] = n], OpMove(op[p], n),
           n.pc \in {"alloc", "bad"}, n.t = op[p].t, n.call = op[p].call
    PROVE  IInv'
<1> DEFINE o == op[p]
           q == op[p].q
<1>1. /\ o \in Op /\ q \in Proc /\ Cursor(o) /\ ptr[Var("mem", p)] = Null
      /\ TableOf(o, pagetable[q])
      /\ \A T \in Table : T[1] = q /\ ptr[Root(T)] # Null => RootOf(o, T, pagetable[q])
  BY InKernel
<1>2. n.call = "exec"
  BY <1>1 DEF Cursor
<1>3. /\ TableOf(n, pagetable[q])
      /\ Nulls(n, ptr[Var("trapframe", q)], ptr[Var("usyscall", q)])
  BY <1>2 DEF TableOf, Holding, InLoop, Fresh, Nulls, Gone
<1>4. \A T \in Table : T[1] = q /\ ptr[Root(T)] # Null => RootOf(n, T, pagetable[q])
  BY <1>1 DEF RootOf, Building
<1>5. alias' \in [Table -> [Fixed -> Page \cup {Null, Trampoline}]]
  BY DEF IInv, TypeOK
<1> QED
  BY <1>1, <1>3, <1>4, <1>5, NoPageKeeps

LEMMA LoadSegmentKeeps ==
    ASSUME IInv, NEW p \in Proc, LoadSegment(p)
    PROVE  IInv'
<1> DEFINE o == op[p]
           q == op[p].q
           s == o.sz
<1>1. o.pc = "load" /\ UNCHANGED <<procVars, memVars, alias>>
  BY DEF LoadSegment, At
<1>2. o \in Op /\ Cursor(o) /\ o.t[1] = q /\ o.sz \in 0 .. MaxSz
  BY <1>1, InKernel DEF Op
<1>3. PICK end \in s + 1 .. MaxSz :
        op' = [op EXCEPT ![p] = [o EXCEPT !.pc = "alloc", !.a = NPages(s),
                 !.base = NPages(s), !.lim = NPages(end), !.nsz = end, !.then = "load"]]
  BY DEF LoadSegment, Enter
<1> DEFINE n == [o EXCEPT !.pc = "alloc", !.a = NPages(s), !.base = NPages(s), !.sz = s,
                          !.lim = NPages(end), !.nsz = end, !.then = "load"]
<1>4. end \in 0 .. MaxSz /\ s <= end
  BY <1>2, <1>3
<1>5. OpMove(o, n)
  BY <1>1, <1>2, <1>4, MoveLoad
<1>6. op' = [op EXCEPT ![p] = n]
  <2>1. n = [o EXCEPT !.pc = "alloc", !.a = NPages(s), !.base = NPages(s),
                      !.lim = NPages(end), !.nsz = end, !.then = "load"]
    BY <1>2 DEF Op
  <2> QED
    BY <1>3, <2>1
<1>7. n.pc = "alloc" /\ n.t = o.t /\ n.call = o.call
  BY <1>2 DEF Op
<1> HIDE DEF n
<1> QED
  BY <1>1, <1>5, <1>6, <1>7, ExecKeeps

LEMMA AllocStackKeeps ==
    ASSUME IInv, NEW p \in Proc, AllocStack(p)
    PROVE  IInv'
<1> DEFINE o == op[p]
           q == op[p].q
           up == NPages(o.sz) * PGSIZE
           e == up + 2 * PGSIZE
           n == [o EXCEPT !.pc = "alloc", !.a = NPages(up), !.base = NPages(up), !.sz = up,
                          !.lim = NPages(e), !.nsz = e, !.then = "args"]
<1>1. o.pc = "load" /\ e <= MaxSz /\ UNCHANGED <<procVars, memVars, alias>>
      /\ op' = [op EXCEPT ![p] = n]
  BY DEF AllocStack, At, Enter
<1>2. o \in Op /\ Cursor(o) /\ o.t[1] = q /\ o.sz \in 0 .. MaxSz
  BY <1>1, InKernel DEF Op
<1>3. NPages(o.sz) \in Nat /\ PGSIZE \in Nat /\ MaxSz \in Nat
  BY <1>2, NPagesRange, ConstantsAssumption
<1>4. up \in Nat
  <2>1. \A x, y \in Nat : x * y \in Nat
    OBVIOUS
  <2> QED
    BY <1>3, <2>1
<1>5. up \in 0 .. MaxSz /\ e \in 0 .. MaxSz /\ up <= e
  <2> HIDE DEF up
  <2> QED
    BY <1>1, <1>3, <1>4
<1>6. OpMove(o, n)
  <2> HIDE DEF up, e
  <2> QED
    BY <1>1, <1>2, <1>5, MoveLoad
<1>7. n.pc = "alloc" /\ n.t = o.t /\ n.call = o.call
  BY <1>2 DEF Op
<1> HIDE DEF n
<1> QED
  BY <1>1, <1>6, <1>7, ExecKeeps

LEMMA ExecFailsKeeps ==
    ASSUME IInv, NEW p \in Proc, ExecFails(p)
    PROVE  IInv'
<1> DEFINE o == op[p]
           n == [o EXCEPT !.pc = "bad"]
<1>1. /\ o.pc \in {"load", "args"} /\ UNCHANGED <<procVars, memVars, alias>>
      /\ op' = [op EXCEPT ![p] = n]
  BY DEF ExecFails, Goto
<1>2. o \in Op /\ Cursor(o) /\ o.t[1] = o.q
  BY <1>1, InKernel
<1>3. OpMove(o, n) /\ n.pc = "bad" /\ n.t = o.t /\ n.call = o.call
  BY <1>1, <1>2, MoveGoto DEF Op
<1> QED
  BY <1>1, <1>3, ExecKeeps

LEMMA ExecCommitKeeps ==
    ASSUME IInv, NEW p \in Proc, ExecCommit(p)
    PROVE  IInv'
<1> DEFINE o == op[p]
           q == op[p].q
           T0 == pagetable[p]
           n == [o EXCEPT !.pc = "uvmfree", !.t = T0, !.a = 0,
                          !.lim = NPages(sz[p]), !.then = "user"]
<1>1. o.pc = "args"
  BY DEF ExecCommit, At
<1>2. /\ op \in [Proc -> Op] /\ o \in Op /\ q \in Proc /\ Cursor(o) /\ o.t[1] = q
      /\ o.t \in Table /\ Worker(p, o) /\ ptr[Var("mem", p)] = Null
      /\ \A T \in Table : T[1] = q /\ ptr[Root(T)] # Null => RootOf(o, T, pagetable[q])
  BY <1>1, InKernel
<1>3. o.call = "exec" /\ q = p /\ state[p] = "RUNNABLE"
  BY <1>1, <1>2 DEF Cursor, Worker
<1>4. CASE ~ FixedMapped(pagetable[p])
  <2>1. Panic("uvmunmap: not mapped")
    BY <1>4 DEF ExecCommit
  <2> QED
    BY <2>1, PanicKeeps
<1>5. CASE FixedMapped(pagetable[p])
  <2>1. /\ pagetable' = [pagetable EXCEPT ![p] = o.t]
        /\ sz' = [sz EXCEPT ![p] = o.sz]
        /\ alias' = [alias EXCEPT ![T0] = [v \in Fixed |-> Null]]
        /\ op' = [op EXCEPT ![p] = n]
        /\ UNCHANGED <<state, parent, pid, nextpid, free, ptr, upid>>
    BY <1>5 DEF ExecCommit, FreePagetable, Enter, memVars
  <2>2. T0 \in Table /\ T0[1] = q
    BY <1>3 DEF IInv, Tables, Table
  <2>3. OpMove(o, n)
    BY <1>1, <1>2, <1>3, <2>2, MoveFree DEF IInv, TypeOK
  <2>4. n.pc = "uvmfree" /\ n.t = T0 /\ n.then = "user"
    BY <1>2 DEF Op
  <2>5. pagetable'[q] = o.t /\ \A r \in Proc \ {q} : pagetable'[r] = pagetable[r]
    BY <1>2, <1>3, <2>1 DEF IInv, TypeOK
  <2>6. o.t \in {<<q, 0>>, <<q, 1>>} /\ o.t # NoTable
    BY <1>2 DEF Table, NoTable
  <2>7. /\ TableOf(n, o.t)
        /\ Nulls(n, ptr[Var("trapframe", q)], ptr[Var("usyscall", q)])
    BY <2>4 DEF TableOf, Holding, InLoop, Fresh, Nulls, Gone
  <2>8. \A T \in Table : T[1] = q /\ ptr[Root(T)] # Null => RootOf(n, T, o.t)
    BY <1>2, <1>3, <2>4 DEF RootOf, Building
  <2>9. TypeOK'
    <3>1. op' \in [Proc -> Op] /\ sz' \in [Proc -> 0 .. MaxSz]
      BY <1>2, <2>1, <2>3 DEF OpMove, IInv, TypeOK, Op
    <3>2. pagetable' \in [Proc -> Table \cup {NoTable}]
      BY <1>2, <2>1 DEF IInv, TypeOK
    <3>3. alias' \in [Table -> [Fixed -> Page \cup {Null, Trampoline}]]
      BY <2>1, <2>2 DEF IInv, TypeOK
    <3> QED
      BY <2>1, <3>1, <3>2, <3>3 DEF IInv, TypeOK
  <2>10. Own'
    BY <2>1 DEF IInv, Own
  <2> HIDE DEF n
  <2>11. LocalStep(p, n)
    BY <1>2, <1>3, <2>1, <2>3, <2>4, <2>5, <2>6, <2>7, <2>8 DEF LocalStep
  <2> QED
    BY <1>1, <2>9, <2>10, <2>11, LocalKeeps
<1> QED
  BY <1>4, <1>5

LEMMA ExecBadKeeps ==
    ASSUME IInv, NEW p \in Proc, ExecBad(p)
    PROVE  IInv'
<1> DEFINE o == op[p]
           q == op[p].q
           n == [o EXCEPT !.pc = "uvmfree", !.t = o.t, !.a = 0,
                          !.lim = NPages(o.sz), !.then = "user"]
<1>1. o.pc = "bad"
  BY DEF ExecBad, At
<1>2. /\ o \in Op /\ q \in Proc /\ Cursor(o) /\ o.t[1] = q /\ o.sz \in 0 .. MaxSz
      /\ o.t \in Table /\ ptr[Var("mem", p)] = Null
      /\ \A T \in Table : T[1] = q /\ ptr[Root(T)] # Null => RootOf(o, T, pagetable[q])
  BY <1>1, InKernel DEF Op
<1>3. o.call = "exec"
  BY <1>1, <1>2 DEF Cursor
<1>4. CASE ~ FixedMapped(o.t)
  <2>1. Panic("uvmunmap: not mapped")
    BY <1>4 DEF ExecBad
  <2> QED
    BY <2>1, PanicKeeps
<1>5. CASE FixedMapped(o.t)
  <2>1. /\ alias' = [alias EXCEPT ![o.t] = [v \in Fixed |-> Null]]
        /\ op' = [op EXCEPT ![p] = n] /\ UNCHANGED <<procVars, memVars>>
    BY <1>5 DEF ExecBad, FreePagetable, Enter
  <2>2. OpMove(o, n)
    BY <1>1, <1>2, <1>3, MoveFree
  <2>3. n.pc = "uvmfree" /\ n.t = o.t /\ n.then = "user"
    BY <1>2 DEF Op
  <2>4. /\ TableOf(n, pagetable[q])
        /\ Nulls(n, ptr[Var("trapframe", q)], ptr[Var("usyscall", q)])
    BY <2>3 DEF TableOf, Holding, InLoop, Fresh, Nulls, Gone
  <2>5. \A T \in Table : T[1] = q /\ ptr[Root(T)] # Null => RootOf(n, T, pagetable[q])
    BY <1>1, <1>2, <2>3 DEF RootOf, Building
  <2>6. alias' \in [Table -> [Fixed -> Page \cup {Null, Trampoline}]]
    BY <1>2, <2>1 DEF IInv, TypeOK
  <2> HIDE DEF n
  <2> QED
    BY <1>1, <1>2, <2>1, <2>2, <2>3, <2>4, <2>5, <2>6, NoPageKeeps
<1> QED
  BY <1>4, <1>5

LEMMA UnmapPageKeeps ==
    ASSUME IInv, NEW p \in Proc, UnmapPage(p)
    PROVE  IInv'
<1> DEFINE o == op[p]
           q == op[p].q
           s == Ent("leaf", o.t, o.a)
           n == [o EXCEPT !.a = @ + 1]
<1>1. o.pc \in {"unmap", "uvmfree"} /\ o.a < o.lim
  BY DEF UnmapPage
<1>2. /\ o \in Op /\ q \in Proc /\ Cursor(o) /\ o.t[1] = q /\ o.t \in Table
      /\ TableOf(o, pagetable[q])
      /\ Nulls(o, ptr[Var("trapframe", q)], ptr[Var("usyscall", q)])
      /\ ptr[Var("mem", p)] = Null
      /\ \A T \in Table : T[1] = q /\ ptr[Root(T)] # Null => RootOf(o, T, pagetable[q])
  BY <1>1, InKernel
<1>3. OpMove(o, n) /\ o.a \in UserVpn
  BY <1>1, <1>2, MoveUnmap
<1>4. n.pc = o.pc /\ n.t = o.t /\ n.call = o.call /\ n.then = o.then
  BY <1>2 DEF Op
<1>5. CASE \E msg : Panic(msg)
  BY <1>5, PanicKeeps
<1>6. CASE ~ \E msg : Panic(msg)
  <2>1. /\ Mapped(o.t, o.a) /\ Kfree(s) /\ op' = [op EXCEPT ![p] = n]
        /\ UNCHANGED <<procVars, alias>>
    BY <1>6 DEF UnmapPage, Enter
  <2>2. s \in Slot /\ ptr[s] # Null /\ o.a \in Int
    BY <1>2, <1>3, <2>1, SlotFacts, VpnFacts DEF Mapped, Op
  <2>3. /\ Own' /\ free' \in [Page -> {0, 1}] /\ ptr' \in [Slot -> Page \cup {Null}]
        /\ upid' \in [Page -> 0 .. MaxPid] /\ OnlySlot(s)
    BY <2>1, <2>2, KfreeOwn DEF IInv, OnlySlot
  <2>4. /\ Untouched(p)
        /\ ptr'[Var("trapframe", q)] = ptr[Var("trapframe", q)]
        /\ ptr'[Var("usyscall", q)] = ptr[Var("usyscall", q)]
        /\ ptr'[Var("mem", p)] = ptr[Var("mem", p)]
        /\ \A T \in Table : ptr'[Root(T)] = ptr[Root(T)]
    BY <1>2, <2>2, <2>3, OnlySlotFrame
  <2>5. /\ TableOf(n, pagetable[q])
        /\ Nulls(n, ptr'[Var("trapframe", q)], ptr'[Var("usyscall", q)])
    BY <1>1, <1>2, <1>4, <2>4 DEF TableOf, Holding, InLoop, Fresh, Nulls, Gone
  <2>6. \A T \in Table : T[1] = q /\ ptr'[Root(T)] # Null => RootOf(n, T, pagetable[q])
    BY <1>1, <1>2, <1>4, <2>4 DEF RootOf, Building
  <2> QED
    BY <1>1, <1>2, <1>3, <1>4, <2>1, <2>3, <2>4, <2>5, <2>6, PageKeeps
<1> QED
  BY <1>5, <1>6

LEMMA UnmapDoneKeeps ==
    ASSUME IInv, NEW p \in Proc, UnmapDone(p)
    PROVE  IInv'
<1> DEFINE o == op[p]
           q == op[p].q
           l == IF o.pc = "unmap" THEN o.then ELSE "freewalk"
           n == [o EXCEPT !.pc = l]
<1>1. /\ o.pc \in {"unmap", "uvmfree"} /\ UNCHANGED <<procVars, memVars, alias>>
      /\ op' = [op EXCEPT ![p] = IF l = "user" THEN Idle ELSE n]
  BY DEF UnmapDone, At, Goto
<1>2. /\ o \in Op /\ q \in Proc /\ Cursor(o) /\ o.t[1] = q /\ o.t \in Table
      /\ TableOf(o, pagetable[q])
      /\ Nulls(o, ptr[Var("trapframe", q)], ptr[Var("usyscall", q)])
      /\ ptr[Var("mem", p)] = Null
      /\ \A T \in Table : T[1] = q /\ ptr[Root(T)] # Null => RootOf(o, T, pagetable[q])
  BY <1>1, InKernel
<1>3. alias' \in [Table -> [Fixed -> Page \cup {Null, Trampoline}]]
  BY <1>1 DEF IInv, TypeOK
<1>4. /\ l \in {"fptf", "bad", "user", "setsz", "freewalk"}
      /\ l = "bad" => o.call = "exec"
      /\ l # "bad" /\ o.pc = "unmap" => o.call # "exec" /\ pagetable[q] = o.t
      /\ l = "freewalk" <=> o.pc = "uvmfree"
  BY <1>1, <1>2 DEF Cursor, TableOf, Holding
<1>5. CASE l = "user"
  <2>1. /\ TableOf(Idle, pagetable[q]) /\ OpMove(o, Idle)
        /\ Nulls(Idle, ptr[Var("trapframe", q)], ptr[Var("usyscall", q)])
        /\ \A T \in Table : pagetable[q] = T => RootOf(Idle, T, pagetable[q])
    BY IdleFacts DEF TableOf, Holding, InLoop, Fresh, Nulls, Gone, RootOf, OpMove
  <2>2. \A T \in Table : T[1] = q /\ ptr[Root(T)] # Null => pagetable[q] = T
    BY <1>1, <1>2, <1>4, <1>5 DEF RootOf
  <2> QED
    BY <1>1, <1>2, <1>3, <1>5, <2>1, <2>2, IdleFacts, NoPageKeeps
<1>6. CASE l # "user"
  <2>1. OpMove(o, n)
    BY <1>1, <1>2, <1>6, MoveUnmapDone
  <2>2. n.pc = l /\ n.t = o.t /\ n.call = o.call /\ n.then = o.then
    BY <1>2 DEF Op
  <2> HIDE DEF l
  <2>3. /\ TableOf(n, pagetable[q])
        /\ Nulls(n, ptr[Var("trapframe", q)], ptr[Var("usyscall", q)])
    BY <1>1, <1>2, <1>4, <1>6, <2>2 DEF TableOf, Holding, InLoop, Fresh, Nulls, Gone
  <2>4. \A T \in Table : T[1] = q /\ ptr[Root(T)] # Null => RootOf(n, T, pagetable[q])
    BY <1>1, <1>2, <1>4, <1>6, <2>2 DEF RootOf, Building
  <2>5. n.pc \notin {"map", "mapfail"}
    BY <1>4, <2>2
  <2> HIDE DEF n
  <2> QED
    BY <1>1, <1>2, <1>3, <1>6, <2>1, <2>3, <2>4, <2>5, NoPageKeeps
<1> QED
  BY <1>5, <1>6

\* What freewalk() frees is a table page of its table.
LEMMA FreewalkNextFacts ==
    ASSUME NEW T \in Table, NEW s \in FreewalkNext(T)
    PROVE  /\ s \in Slot /\ ptr[s] # Null
           /\ s[1] = "root" => s = Root(T)
           /\ s[1] # "root" => \E k \in {"l1", "l0", "leaf"}, i \in Int : s = Ent(k, T, i)
<1>1. s \in Slot /\ s[1] \in {"root", "l1", "l0"} /\ <<s[2], s[3]>> = T /\ ptr[s] # Null
  BY DEF FreewalkNext, TablePages
<1>2. s[2] = T[1] /\ s[3] = T[2]
  BY <1>1
<1>3. CASE s[1] = "root"
  <2>1. s \in {"root"} \X Proc \X {0, 1} \X {0}
    BY <1>1, <1>3 DEF Slot
  <2> QED
    BY <1>1, <1>2, <1>3, <2>1 DEF Root, Ent
<1>4. CASE s[1] = "l1"
  <2>1. s \in {"l1"} \X Proc \X {0, 1} \X {L1(v) : v \in Vpn}
    BY <1>1, <1>4 DEF Slot
  <2>2. \A v \in Vpn : v \in Nat
    <3>1. \A v \in Vpn : v \in 0 .. MAXVPN
      BY VpnFacts
    <3>2. MAXVPN \in Nat
      BY VpnFacts
    <3> QED
      BY <3>1, <3>2
  <2>3. \A v \in Nat : L1(v) \in Int
    BY ConstantsAssumption DEF L1
  <2>4. s[4] \in Int
    BY <2>1, <2>2, <2>3
  <2> QED
    BY <1>1, <1>2, <1>4, <2>1, <2>4 DEF Ent
<1>5. CASE s[1] = "l0"
  <2>1. s \in {"l0"} \X Proc \X {0, 1} \X {L0(v) : v \in Vpn}
    BY <1>1, <1>5 DEF Slot
  <2>2. \A v \in Vpn : v \in Nat
    <3>1. \A v \in Vpn : v \in 0 .. MAXVPN
      BY VpnFacts
    <3>2. MAXVPN \in Nat
      BY VpnFacts
    <3> QED
      BY <3>1, <3>2
  <2>3. \A v \in Nat : L0(v) \in Int
    BY ConstantsAssumption DEF L0
  <2>4. s[4] \in Int
    BY <2>1, <2>2, <2>3
  <2> QED
    BY <1>1, <1>2, <1>5, <2>1, <2>4 DEF Ent
<1> QED
  BY <1>1, <1>3, <1>4, <1>5

LEMMA FreewalkKeeps ==
    ASSUME IInv, NEW p \in Proc, Freewalk(p)
    PROVE  IInv'
<1> DEFINE o == op[p]
           q == op[p].q
           n == [o EXCEPT !.pc = o.then]
<1>1. o.pc = "freewalk"
  BY DEF Freewalk, At
<1>2. /\ op \in [Proc -> Op] /\ o \in Op /\ q \in Proc /\ Cursor(o)
      /\ o.t[1] = q /\ o.t \in Table
      /\ TableOf(o, pagetable[q])
      /\ Nulls(o, ptr[Var("trapframe", q)], ptr[Var("usyscall", q)])
      /\ ptr[Var("mem", p)] = Null
      /\ \A T \in Table : T[1] = q /\ ptr[Root(T)] # Null => RootOf(o, T, pagetable[q])
  BY <1>1, InKernel
<1>3. PICK s \in FreewalkNext(o.t) :
        \/ Panic("freewalk: leaf")
        \/ /\ Kfree(s) /\ UNCHANGED <<procVars, alias>>
           /\ IF s[1] = "root" THEN Goto(p, o.then) ELSE UNCHANGED op
  BY DEF Freewalk
<1>4. /\ s \in Slot /\ ptr[s] # Null /\ (s[1] = "root" => s = Root(o.t))
      /\ s[1] # "root" => \E k \in {"l1", "l0", "leaf"}, i \in Int : s = Ent(k, o.t, i)
  BY <1>2, FreewalkNextFacts
<1>5. CASE Panic("freewalk: leaf")
  BY <1>5, PanicKeeps
<1>6. ASSUME Kfree(s)
      PROVE  /\ Own' /\ free' \in [Page -> {0, 1}] /\ ptr' \in [Slot -> Page \cup {Null}]
             /\ upid' \in [Page -> 0 .. MaxPid] /\ OnlySlot(s) /\ ptr'[s] = Null
             /\ Untouched(p)
             /\ ptr'[Var("trapframe", q)] = ptr[Var("trapframe", q)]
             /\ ptr'[Var("usyscall", q)] = ptr[Var("usyscall", q)]
             /\ ptr'[Var("mem", p)] = ptr[Var("mem", p)]
             /\ \A T \in Table : s # Root(T) => ptr'[Root(T)] = ptr[Root(T)]
  <2>1. /\ Own' /\ free' \in [Page -> {0, 1}] /\ ptr' \in [Slot -> Page \cup {Null}]
        /\ upid' \in [Page -> 0 .. MaxPid] /\ OnlySlot(s) /\ ptr'[s] = Null
    BY <1>4, <1>6, KfreeOwn DEF IInv, OnlySlot
  <2>2. /\ Untouched(p)
        /\ ptr'[Var("trapframe", q)] = ptr[Var("trapframe", q)]
        /\ ptr'[Var("usyscall", q)] = ptr[Var("usyscall", q)]
        /\ ptr'[Var("mem", p)] = ptr[Var("mem", p)]
    BY <1>2, <1>4, <2>1, OnlySlotFrame
  <2>3. \A T \in Table : s # Root(T) => ptr'[Root(T)] = ptr[Root(T)]
    BY <2>1, SlotFacts DEF OnlySlot
  <2> QED
    BY <2>1, <2>2, <2>3
<1>7. CASE Kfree(s) /\ UNCHANGED <<procVars, alias>> /\ s[1] # "root" /\ op' = op
  <2>1. op' = [op EXCEPT ![p] = o]
    BY <1>2, <1>7
  <2>2. OpMove(o, o)
    BY <1>1, <1>2 DEF OpMove
  <2>3. \A T \in Table : ptr'[Root(T)] = ptr[Root(T)]
    <3>1. \A T \in Table : Root(T)[1] = "root"
      BY DEF Root, Ent
    <3>2. \A T \in Table : s # Root(T)
      BY <1>7, <3>1
    <3> QED
      BY <1>6, <1>7, <3>2
  <2> QED
    BY <1>1, <1>2, <1>6, <1>7, <2>1, <2>2, <2>3, PageKeeps
<1>8. ASSUME Kfree(s), UNCHANGED <<procVars, alias>>, s = Root(o.t)
      PROVE  \A T \in Table : T[1] = q /\ ptr'[Root(T)] # Null =>
                 pagetable[q] = T /\ T # o.t
  <2>1. \A T \in Table : T # o.t => Root(T) # s
    BY <1>2, <1>8, SlotsDiffer
  <2> QED
    BY <1>1, <1>2, <1>6, <1>8, <2>1 DEF RootOf
<1>9. CASE /\ Kfree(s) /\ UNCHANGED <<procVars, alias>> /\ s = Root(o.t)
           /\ o.then = "user" /\ op' = [op EXCEPT ![p] = Idle]
  <2>1. /\ TableOf(Idle, pagetable[q]) /\ OpMove(o, Idle)
        /\ Nulls(Idle, ptr'[Var("trapframe", q)], ptr'[Var("usyscall", q)])
        /\ \A T \in Table : pagetable[q] = T => RootOf(Idle, T, pagetable[q])
    BY IdleFacts DEF TableOf, Holding, InLoop, Fresh, Nulls, Gone, RootOf, OpMove
  <2> QED
    BY <1>1, <1>2, <1>6, <1>8, <1>9, <2>1, IdleFacts, PageKeeps
<1>10. CASE /\ Kfree(s) /\ UNCHANGED <<procVars, alias>> /\ s = Root(o.t)
            /\ o.then # "user" /\ op' = [op EXCEPT ![p] = n]
  <2>1. o.then \in {"fptf", "fpend"}
    BY <1>1, <1>2, <1>10 DEF Cursor
  <2>2. OpMove(o, n)
    BY <1>1, <1>2, <1>10, MoveFreed
  <2>3. n.pc = o.then /\ n.t = o.t /\ n.call = o.call
    BY <1>2 DEF Op
  <2>4. /\ TableOf(n, pagetable[q])
        /\ Nulls(n, ptr'[Var("trapframe", q)], ptr'[Var("usyscall", q)])
    BY <1>1, <1>2, <1>6, <1>10, <2>1, <2>3
    DEF TableOf, Holding, InLoop, Fresh, Nulls, Gone
  <2>5. \A T \in Table : T[1] = q /\ ptr'[Root(T)] # Null => RootOf(n, T, pagetable[q])
    BY <1>1, <1>2, <1>8, <1>10, <2>1, <2>3 DEF RootOf, TableOf, Holding
  <2> QED
    BY <1>1, <1>2, <1>6, <1>10, <2>1, <2>2, <2>3, <2>4, <2>5, PageKeeps
<1> QED
  BY <1>3, <1>4, <1>5, <1>7, <1>9, <1>10 DEF Goto

LEMMA FreeTrapframeKeeps ==
    ASSUME IInv, NEW p \in Proc, FreeTrapframe(p)
    PROVE  IInv'
<1> DEFINE o == op[p]
           q == op[p].q
           s == Var("trapframe", q)
           n == [o EXCEPT !.pc = "fpus"]
<1>1. /\ o.pc = "fptf" /\ op' = [op EXCEPT ![p] = n] /\ UNCHANGED <<procVars, alias>>
      /\ IF ptr[s] # Null THEN Kfree(s) ELSE UNCHANGED memVars
  BY DEF FreeTrapframe, At, Goto
<1>2. /\ o \in Op /\ q \in Proc /\ Cursor(o) /\ o.t[1] = q
      /\ ptr[Var("mem", p)] = Null
      /\ \A T \in Table : T[1] = q /\ ptr[Root(T)] # Null => RootOf(o, T, pagetable[q])
  BY <1>1, InKernel
<1>3. OpMove(o, n) /\ n.pc = "fpus"
  BY <1>1, <1>2, MoveGoto DEF Op
<1>4. TableOf(n, pagetable[q])
  BY <1>3 DEF TableOf, Holding, InLoop, Fresh
<1>5. \A T \in Table : T[1] = q /\ ptr[Root(T)] # Null => RootOf(n, T, pagetable[q])
  BY <1>1, <1>2, <1>3 DEF RootOf, Building
<1>6. CASE ptr[s] = Null
  <2>1. Nulls(n, ptr[Var("trapframe", q)], ptr[Var("usyscall", q)])
    BY <1>3, <1>6 DEF Nulls, Gone
  <2>2. alias' \in [Table -> [Fixed -> Page \cup {Null, Trampoline}]]
    BY <1>1 DEF IInv, TypeOK
  <2>3. UNCHANGED memVars
    BY <1>1, <1>6
  <2> QED
    BY <1>1, <1>2, <1>3, <1>4, <1>5, <2>1, <2>2, <2>3, NoPageKeeps
<1>7. CASE ptr[s] # Null
  <2>1. s \in Slot /\ Kfree(s)
    BY <1>1, <1>2, <1>7, SlotFacts
  <2>2. /\ Own' /\ free' \in [Page -> {0, 1}] /\ ptr' \in [Slot -> Page \cup {Null}]
        /\ upid' \in [Page -> 0 .. MaxPid] /\ OnlySlot(s) /\ ptr'[s] = Null
    BY <1>7, <2>1, KfreeOwn DEF IInv, OnlySlot
  <2>3. /\ Untouched(p)
        /\ ptr'[Var("mem", p)] = ptr[Var("mem", p)]
        /\ \A T \in Table : ptr'[Root(T)] = ptr[Root(T)]
    BY <1>2, <2>1, <2>2, OnlySlotFrame
  <2>4. Nulls(n, ptr'[Var("trapframe", q)], ptr'[Var("usyscall", q)])
    BY <1>3, <2>2 DEF Nulls, Gone
  <2> QED
    BY <1>1, <1>2, <1>3, <1>4, <1>5, <2>2, <2>3, <2>4, PageKeeps
<1> QED
  BY <1>6, <1>7

LEMMA FreeUsyscallKeeps ==
    ASSUME IInv, NEW p \in Proc, FreeUsyscall(p)
    PROVE  IInv'
<1> DEFINE o == op[p]
           q == op[p].q
           s == Var("usyscall", q)
           n == [o EXCEPT !.pc = "fppt"]
<1>1. /\ o.pc = "fpus" /\ op' = [op EXCEPT ![p] = n] /\ UNCHANGED <<procVars, alias>>
      /\ IF ptr[s] # Null THEN Kfree(s) ELSE UNCHANGED memVars
  BY DEF FreeUsyscall, At, Goto
<1>2. /\ o \in Op /\ q \in Proc /\ Cursor(o) /\ o.t[1] = q
      /\ ptr[Var("mem", p)] = Null
      /\ Nulls(o, ptr[Var("trapframe", q)], ptr[Var("usyscall", q)])
      /\ \A T \in Table : T[1] = q /\ ptr[Root(T)] # Null => RootOf(o, T, pagetable[q])
  BY <1>1, InKernel
<1>3. OpMove(o, n) /\ n.pc = "fppt"
  BY <1>1, <1>2, MoveGoto DEF Op
<1>4. TableOf(n, pagetable[q]) /\ ptr[Var("trapframe", q)] = Null
  BY <1>1, <1>2, <1>3 DEF TableOf, Holding, InLoop, Fresh, Nulls
<1>5. \A T \in Table : T[1] = q /\ ptr[Root(T)] # Null => RootOf(n, T, pagetable[q])
  BY <1>1, <1>2, <1>3 DEF RootOf, Building
<1>6. CASE ptr[s] = Null
  <2>1. Nulls(n, ptr[Var("trapframe", q)], ptr[Var("usyscall", q)])
    BY <1>4, <1>6 DEF Nulls
  <2>2. alias' \in [Table -> [Fixed -> Page \cup {Null, Trampoline}]]
    BY <1>1 DEF IInv, TypeOK
  <2>3. UNCHANGED memVars
    BY <1>1, <1>6
  <2> QED
    BY <1>1, <1>2, <1>3, <1>4, <1>5, <2>1, <2>2, <2>3, NoPageKeeps
<1>7. CASE ptr[s] # Null
  <2>1. s \in Slot /\ Kfree(s)
    BY <1>1, <1>2, <1>7, SlotFacts
  <2>2. /\ Own' /\ free' \in [Page -> {0, 1}] /\ ptr' \in [Slot -> Page \cup {Null}]
        /\ upid' \in [Page -> 0 .. MaxPid] /\ OnlySlot(s) /\ ptr'[s] = Null
    BY <1>7, <2>1, KfreeOwn DEF IInv, OnlySlot
  <2>3. /\ Untouched(p)
        /\ ptr'[Var("trapframe", q)] = ptr[Var("trapframe", q)]
        /\ ptr'[Var("mem", p)] = ptr[Var("mem", p)]
        /\ \A T \in Table : ptr'[Root(T)] = ptr[Root(T)]
    BY <1>2, <2>1, <2>2, OnlySlotFrame
  <2>4. Nulls(n, ptr'[Var("trapframe", q)], ptr'[Var("usyscall", q)])
    BY <1>4, <2>2, <2>3 DEF Nulls
  <2> QED
    BY <1>1, <1>2, <1>3, <1>4, <1>5, <2>2, <2>3, <2>4, PageKeeps
<1> QED
  BY <1>6, <1>7

LEMMA FreeProcPagetableKeeps ==
    ASSUME IInv, NEW p \in Proc, FreeProcPagetable(p)
    PROVE  IInv'
<1> DEFINE o == op[p]
           q == op[p].q
           T0 == pagetable[q]
<1>1. o.pc = "fppt"
  BY DEF FreeProcPagetable, At
<1>2. /\ o \in Op /\ q \in Proc /\ Cursor(o) /\ o.t[1] = q
      /\ ptr[Var("mem", p)] = Null
      /\ ptr[Var("trapframe", q)] = Null /\ ptr[Var("usyscall", q)] = Null
      /\ \A T \in Table : T[1] = q /\ ptr[Root(T)] # Null => T0 = T
  BY <1>1, InKernel DEF Nulls, Gone, RootOf, Building
<1>3. CASE T0 = NoTable
  <2> DEFINE n == [o EXCEPT !.pc = "fpend"]
  <2>1. op' = [op EXCEPT ![p] = n] /\ UNCHANGED <<procVars, memVars, alias>>
    BY <1>3 DEF FreeProcPagetable, Goto
  <2>2. OpMove(o, n) /\ n.pc = "fpend"
    BY <1>1, <1>2, MoveGoto DEF Op
  <2>3. TableOf(n, T0) /\ Nulls(n, ptr[Var("trapframe", q)], ptr[Var("usyscall", q)])
    BY <1>2, <2>2 DEF TableOf, Holding, InLoop, Fresh, Nulls
  <2>4. \A T \in Table : T[1] = q /\ ptr[Root(T)] # Null => RootOf(n, T, T0)
    BY <1>2, <1>3 DEF NoTable, Table
  <2>5. alias' \in [Table -> [Fixed -> Page \cup {Null, Trampoline}]]
    BY <2>1 DEF IInv, TypeOK
  <2> QED
    BY <1>1, <1>2, <2>1, <2>2, <2>3, <2>4, <2>5, NoPageKeeps
<1>4. CASE T0 # NoTable /\ ~ FixedMapped(T0)
  <2>1. Panic("uvmunmap: not mapped")
    BY <1>4 DEF FreeProcPagetable
  <2> QED
    BY <2>1, PanicKeeps
<1>5. CASE T0 # NoTable /\ FixedMapped(T0)
  <2> DEFINE n == [o EXCEPT !.pc = "uvmfree", !.t = T0, !.a = 0,
                            !.lim = NPages(sz[q]), !.then = "fpend"]
  <2>1. /\ alias' = [alias EXCEPT ![T0] = [v \in Fixed |-> Null]]
        /\ op' = [op EXCEPT ![p] = n] /\ UNCHANGED <<procVars, memVars>>
    BY <1>5 DEF FreeProcPagetable, FreePagetable, Enter
  <2>2. T0 \in Table /\ T0[1] = q
    BY <1>2, <1>5 DEF IInv, Tables, Table
  <2>3. o.call # "exec" /\ sz[q] \in 0 .. MaxSz
    BY <1>1, <1>2 DEF Cursor, IInv, TypeOK
  <2>4. OpMove(o, n)
    BY <1>1, <1>2, <2>2, <2>3, MoveFree
  <2>5. n.pc = "uvmfree" /\ n.t = T0 /\ n.then = "fpend"
    BY <1>2 DEF Op
  <2>6. TableOf(n, T0) /\ Nulls(n, ptr[Var("trapframe", q)], ptr[Var("usyscall", q)])
    BY <1>2, <2>5 DEF TableOf, Holding, InLoop, Fresh, Nulls
  <2>7. \A T \in Table : T[1] = q /\ ptr[Root(T)] # Null => RootOf(n, T, T0)
    BY <1>2, <2>5 DEF RootOf
  <2>8. alias' \in [Table -> [Fixed -> Page \cup {Null, Trampoline}]]
    BY <2>1, <2>2 DEF IInv, TypeOK
  <2> HIDE DEF n
  <2> QED
    BY <1>1, <1>2, <2>1, <2>4, <2>5, <2>6, <2>7, <2>8, NoPageKeeps
<1> QED
  BY <1>3, <1>4, <1>5

LEMMA FreeProcEndKeeps ==
    ASSUME IInv, NEW p \in Proc, FreeProcEnd(p)
    PROVE  IInv'
<1> DEFINE o == op[p]
           q == op[p].q
<1>1. o.pc = "fpend"
  BY DEF FreeProcEnd, At
<1>2. /\ o \in Op /\ q \in Proc /\ ptr[Var("mem", p)] = Null
      /\ ptr[Var("trapframe", q)] = Null /\ ptr[Var("usyscall", q)] = Null
      /\ \A T \in Table : T[1] = q => ptr[Root(T)] = Null
  BY <1>1, InKernel DEF Nulls, Gone, RootOf, Building
<1>3. CASE o.call = "userinit"
  <2>1. Panic("kerneltrap")
    BY <1>3 DEF FreeProcEnd
  <2> QED
    BY <2>1, PanicKeeps
<1>4. CASE o.call # "userinit"
  <2>1. /\ state' = [state EXCEPT ![q] = "UNUSED"]
        /\ parent' = [parent EXCEPT ![q] = Null]
        /\ pid' = [pid EXCEPT ![q] = 0]
        /\ sz' = [sz EXCEPT ![q] = 0]
        /\ pagetable' = [pagetable EXCEPT ![q] = NoTable]
        /\ op' = [op EXCEPT ![p] = Idle]
        /\ UNCHANGED <<nextpid, free, ptr, upid, alias>>
    BY <1>4 DEF FreeProcEnd, Goto, memVars
  <2>2. TypeOK'
    <3>1. 0 \in 0 .. MaxPid /\ 0 \in 0 .. MaxSz
      BY ConstantsAssumption
    <3> QED
      BY <1>2, <2>1, <3>1, IdleFacts DEF IInv, TypeOK
  <2>3. Own'
    BY <2>1 DEF IInv, Own
  <2>4. /\ state'[q] = "UNUSED" /\ pagetable'[q] = NoTable
        /\ \A r \in Proc \ {q} : /\ state'[r] = state[r] /\ parent'[r] = parent[r]
                                 /\ pagetable'[r] = pagetable[r]
    BY <1>2, <2>1 DEF IInv, TypeOK
  <2>5. /\ TableOf(Idle, NoTable) /\ OpMove(o, Idle)
        /\ Nulls(Idle, ptr'[Var("trapframe", q)], ptr'[Var("usyscall", q)])
    BY IdleFacts DEF TableOf, Holding, InLoop, Fresh, Nulls, Gone, OpMove
  <2>6. LocalStep(p, Idle)
    BY <1>2, <2>1, <2>4, <2>5, IdleFacts DEF LocalStep
  <2> QED
    BY <1>1, <2>2, <2>3, <2>6, LocalKeeps
<1> QED
  BY <1>3, <1>4

-----------------------------------------------------------------------------
(* The system calls keep the invariant.                                    *)

\* Nobody in the kernel works on a process that runs user code.
LEMMA NobodyWorksOn ==
    ASSUME IInv, NEW p \in Proc, InUser(p), NEW r \in Proc, Busy(r)
    PROVE  op[r].q # p /\ r # p
<1>1. r # p /\ state[p] = "RUNNABLE"
  BY DEF InUser, Busy
<1>2. Worker(r, op[r]) /\ op[r].call \in Call
  BY InKernel DEF Busy, Op
<1> QED
  BY <1>1, <1>2 DEF Worker, Call

\* A call that enters the kernel with the local variables n.
LEMMA EnterKeeps ==
    ASSUME IInv, TypeOK', NEW p \in Proc, InUser(p), NEW n \in Op,
           op' = [op EXCEPT ![p] = n], Cursor(n), n.t[1] = n.q,
           n.pc \notin {"user", "map", "mapfail", "fpend"},
           UNCHANGED <<parent, pagetable, free, ptr>>,
           \A r \in Proc \ {n.q} : state'[r] = state[r],
           state'[n.q] = state[n.q] \/ (state[n.q] = "UNUSED" /\ state'[n.q] = "USED"),
           \A r \in Proc : Busy(r) => op[r].q # n.q,
           Worker(p, n)',
           TableOf(n, pagetable[n.q]),
           Nulls(n, ptr[Var("trapframe", n.q)], ptr[Var("usyscall", n.q)])
    PROVE  IInv'
<1>1. op \in [Proc -> Op] /\ op'[p] = n /\ (\A r \in Proc \ {p} : op'[r] = op[r])
      /\ op[p].pc = "user" /\ state[p] = "RUNNABLE" /\ n.q \in Proc
  BY DEF IInv, TypeOK, InUser, Op
<1>2. Own'
  BY DEF IInv, Own
<1>3. Workers'
  <2>1. \A r \in Proc \ {p} : Busy(r)' => Worker(r, op[r])'
    <3> SUFFICES ASSUME NEW r \in Proc \ {p}, Busy(r) PROVE Worker(r, op[r])'
      BY <1>1 DEF Busy
    <3>1. Worker(r, op[r]) /\ op[r].q # n.q /\ op[r].q \in Proc
      BY <1>1 DEF IInv, Workers, Op
    <3>2. state'[op[r].q] = state[op[r].q]
      BY <3>1
    <3>3. state'[r] = state[r]
      <4>1. state[r] # "UNUSED"
        BY <3>1 DEF Worker
      <4>2. CASE r # n.q
        BY <4>2
      <4>3. CASE r = n.q
        BY <4>1, <4>3
      <4> QED
        BY <4>2, <4>3
    <3> QED
      BY <1>1, <3>1, <3>2, <3>3 DEF Worker
  <2>2. Worker(p, op[p])'
    BY <1>1
  <2>3. \A r, x \in Proc : Busy(r)' /\ Busy(x)' /\ op'[r].q = op'[x].q => r = x
    <3>1. \A r \in Proc \ {p} : Busy(r)' => Busy(r) /\ op'[r].q = op[r].q /\ op[r].q # n.q
      BY <1>1 DEF Busy
    <3> QED
      BY <1>1, <3>1 DEF IInv, Workers
  <2> QED
    BY <2>1, <2>2, <2>3 DEF Workers
<1>4. Cursors'
  BY <1>1 DEF IInv, Cursors
<1>5. Tables'
  <2>1. \A r \in Proc : pagetable[r] \in {NoTable, <<r, 0>>, <<r, 1>>}
    BY DEF IInv, Tables
  <2>2. \A r \in Proc : state'[r] \in {"RUNNABLE", "ZOMBIE"} => pagetable[r] # NoTable
    BY DEF IInv, Tables
  <2>3. \A r \in Proc : TableOf(op'[r], pagetable[op'[r].q])
    BY <1>1 DEF IInv, Tables, TableOf
  <2> QED
    BY <2>1, <2>2, <2>3 DEF Tables, TableOf
<1>6. Vars'
  <2>1. \A r \in Proc : state'[r] = "UNUSED" =>
          /\ ptr[Var("trapframe", r)] = Null /\ ptr[Var("usyscall", r)] = Null
          /\ pagetable[r] = NoTable
    BY DEF IInv, Vars
  <2>2. \A r \in Proc :
          Nulls(op'[r], ptr[Var("trapframe", op'[r].q)], ptr[Var("usyscall", op'[r].q)])
    BY <1>1 DEF IInv, Vars, Nulls
  <2>3. \A r \in Proc : ptr[Var("mem", r)] # Null <=>
          op'[r].pc \in {"map", "mapfail"} /\ op'[r].a \notin Fixed
    BY <1>1 DEF IInv, Vars
  <2> QED
    BY <2>1, <2>2, <2>3 DEF Vars, Nulls
<1>7. Roots'
  <2> SUFFICES ASSUME NEW T \in Table, ptr[Root(T)] # Null PROVE Rooted(T)'
    BY DEF Roots
  <2>1. Rooted(T)
    BY DEF IInv, Roots
  <2>2. CASE pagetable[T[1]] = T /\ \A r \in Proc : op[r].pc = "fpend" => op[r].q # T[1]
    <3>1. \A r \in Proc : op'[r].pc = "fpend" => op'[r].q # T[1]
      BY <1>1, <2>2
    <3> QED
      BY <2>2, <3>1 DEF Rooted
  <2>3. CASE \E r \in Proc : op[r].pc \in Building /\ op[r].t = T
    <3>1. PICK r \in Proc : op[r].pc \in Building /\ op[r].t = T
      BY <2>3
    <3>2. r # p
      BY <1>1, <3>1 DEF Building
    <3> QED
      BY <1>1, <3>1, <3>2 DEF Rooted
  <2> QED
    BY <2>1, <2>2, <2>3 DEF Rooted
<1> QED
  BY <1>2, <1>3, <1>4, <1>5, <1>6, <1>7 DEF IInv

LEMMA ForkKeeps ==
    ASSUME IInv, NEW p \in Proc, Fork(p)
    PROVE  IInv'
<1>1. PICK q \in Proc :
        /\ state[q] = "UNUSED"
        /\ state' = [state EXCEPT ![q] = "USED"]
        /\ pid'   = [pid EXCEPT ![q] = nextpid]
        /\ op' = [op EXCEPT ![p] = [Idle EXCEPT !.call = "fork", !.pc = "trapframe",
                                                !.q = q, !.t = <<q, 0>>]]
  BY DEF Fork, Enter
<1>2. /\ InUser(p) /\ nextpid <= MaxPid /\ nextpid' = nextpid + 1
      /\ UNCHANGED <<parent, sz, pagetable, free, ptr, upid, alias>>
  BY DEF Fork, memVars
<1> DEFINE n == [Idle EXCEPT !.call = "fork", !.pc = "trapframe", !.q = q, !.t = <<q, 0>>]
<1>3. n.call = "fork" /\ n.pc = "trapframe" /\ n.q = q /\ n.t = <<q, 0>>
  BY DEF Idle
<1>4. n \in Op
  BY IdleFacts DEF Op, Call, Pc, Table
<1>5. Cursor(n)
  BY <1>3 DEF Cursor, InLoop
<1>6. TypeOK'
  <2>1. nextpid \in 0 .. MaxPid /\ nextpid' \in 1 .. MaxPid + 1
    BY <1>2, ConstantsAssumption DEF IInv, TypeOK
  <2> QED
    BY <1>1, <1>2, <1>4, <2>1 DEF IInv, TypeOK
<1>7. state'[q] = "USED" /\ \A r \in Proc \ {q} : state'[r] = state[r]
  BY <1>1 DEF IInv, TypeOK
<1>8. q # p /\ state[p] = "RUNNABLE"
  BY <1>1, <1>2 DEF InUser
<1>9. \A r \in Proc : Busy(r) => op[r].q # q
  BY <1>1, InKernel DEF Busy
<1>10. Worker(p, n)'
  BY <1>3, <1>7, <1>8 DEF Worker
<1>11. /\ TableOf(n, pagetable[q])
       /\ Nulls(n, ptr[Var("trapframe", q)], ptr[Var("usyscall", q)])
  BY <1>1, <1>3 DEF TableOf, Holding, InLoop, Fresh, Nulls, Gone, IInv, Vars
<1> HIDE DEF n
<1>12. op' = [op EXCEPT ![p] = n]
  BY <1>1 DEF n
<1>13. /\ \A r \in Proc \ {n.q} : state'[r] = state[r]
       /\ state[n.q] = "UNUSED" /\ state'[n.q] = "USED"
       /\ \A r \in Proc : Busy(r) => op[r].q # n.q
       /\ TableOf(n, pagetable[n.q])
       /\ Nulls(n, ptr[Var("trapframe", n.q)], ptr[Var("usyscall", n.q)])
       /\ n.t[1] = n.q /\ n.pc \notin {"user", "map", "mapfail", "fpend"}
  BY <1>1, <1>3, <1>7, <1>9, <1>11
<1>14. UNCHANGED <<parent, pagetable, free, ptr>> /\ InUser(p)
  BY <1>2
<1> QED
  BY <1>4, <1>5, <1>6, <1>10, <1>12, <1>13, <1>14, EnterKeeps

\* A call that works on its own process.
LEMMA EnterSelfKeeps ==
    ASSUME IInv, NEW p \in Proc, InUser(p), UNCHANGED <<procVars, memVars, alias>>,
           NEW n \in Op, op' = [op EXCEPT ![p] = n], Cursor(n),
           n.call \in {"exec", "sbrk"}, n.q = p, n.t[1] = p,
           n.pc \in {"root", "alloc", "unmap", "setsz"}, TableOf(n, pagetable[p])
    PROVE  IInv'
<1>1. UNCHANGED <<state, parent, pagetable, free, ptr>>
  BY DEF procVars, memVars
<1>2. TypeOK'
  BY DEF IInv, TypeOK, procVars, memVars
<1>3. \A r \in Proc : Busy(r) => op[r].q # p
  BY NobodyWorksOn
<1>4. Worker(p, n)'
  BY <1>1 DEF Worker, InUser
<1>5. Nulls(n, ptr[Var("trapframe", p)], ptr[Var("usyscall", p)])
  BY DEF Nulls, Gone
<1> QED
  BY <1>1, <1>2, <1>3, <1>4, <1>5, EnterKeeps

LEMMA ExecCallKeeps ==
    ASSUME IInv, NEW p \in Proc, Exec(p)
    PROVE  IInv'
<1> DEFINE n == [Idle EXCEPT !.call = "exec", !.pc = "root", !.q = p,
                             !.t = <<p, 1 - pagetable[p][2]>>]
<1>1. /\ InUser(p) /\ UNCHANGED <<procVars, memVars, alias>>
      /\ op' = [op EXCEPT ![p] = n]
  BY DEF Exec, Enter
<1>2. pagetable[p] \in {<<p, 0>>, <<p, 1>>}
  BY <1>1 DEF IInv, Tables, InUser
<1>3. <<p, 1 - pagetable[p][2]>> \in Table /\ <<p, 1 - pagetable[p][2]>> # pagetable[p]
  BY <1>2 DEF Table
<1>4. n.call = "exec" /\ n.pc = "root" /\ n.q = p /\ n.t[1] = p /\ n.t # pagetable[p]
  BY <1>3 DEF Idle
<1>5. n \in Op
  BY <1>3, IdleFacts DEF Op, Call, Pc
<1>6. Cursor(n) /\ TableOf(n, pagetable[p])
  BY <1>4 DEF Cursor, InLoop, TableOf, Holding, Fresh
<1> HIDE DEF n
<1> QED
  BY <1>1, <1>4, <1>5, <1>6, EnterSelfKeeps

\* sbrk() goes to a new size, or, for 0 or a size below 0, back to the old one.
LEMMA SbrkIs ==
    ASSUME IInv, NEW p \in Proc, Sbrk(p)
    PROVE  \E s \in 0 .. MaxSz : \E n :
             /\ op' = [op EXCEPT ![p] = n]
             /\ \/ s > sz[p] /\ n = SbrkOp(p, "alloc", NPages(sz[p]), NPages(s), s)
                \/ s < sz[p] /\ n = SbrkOp(p, "unmap", NPages(s), NPages(sz[p]), s)
                \/ s = sz[p] /\ n = SbrkOp(p, "setsz", 0, 0, s)
<1>1. PICK k \in -(MaxSz + 1) .. MaxSz :
        LET nsz == (sz[p] + k) % UINT64 IN
        \/ k > 0 /\ nsz <= MaxSz
           /\ Enter(p, SbrkOp(p, "alloc", NPages(sz[p]), NPages(nsz), nsz))
        \/ k < 0 /\ nsz < sz[p]
           /\ Enter(p, SbrkOp(p, "unmap", NPages(nsz), NPages(sz[p]), nsz))
        \/ k <= 0 /\ nsz >= sz[p]
           /\ Enter(p, SbrkOp(p, "setsz", 0, 0, sz[p]))
  BY DEF Sbrk
<1>2. sz[p] \in 0 .. MaxSz /\ MaxSz \in Nat /\ UINT64 \in Nat /\ 2 * MaxSz < UINT64
  BY ConstantsAssumption DEF IInv, TypeOK
<1>3. PICK nsz \in Nat : nsz = (sz[p] + k) % UINT64 /\ (k > 0 => nsz > sz[p])
  <2>1. (sz[p] + k) % UINT64 \in Nat
    BY <1>2
  <2>2. ASSUME k > 0 PROVE (sz[p] + k) % UINT64 > sz[p]
    <3>1. sz[p] + k \in 0 .. UINT64 - 1
      BY <1>2, <2>2
    <3>2. (sz[p] + k) % UINT64 = sz[p] + k
      BY <1>2, <3>1
    <3> QED
      BY <1>2, <2>2, <3>2
  <2> QED
    BY <2>1, <2>2
<1>4. CASE k > 0 /\ nsz <= MaxSz /\ Enter(p, SbrkOp(p, "alloc", NPages(sz[p]), NPages(nsz), nsz))
  <2>1. nsz \in 0 .. MaxSz /\ nsz > sz[p]
    BY <1>2, <1>3, <1>4
  <2> QED
    BY <1>4, <2>1 DEF Enter
<1>5. CASE nsz < sz[p] /\ Enter(p, SbrkOp(p, "unmap", NPages(nsz), NPages(sz[p]), nsz))
  <2>1. nsz \in 0 .. MaxSz
    BY <1>2, <1>3, <1>5
  <2> QED
    BY <1>5, <2>1 DEF Enter
<1>6. CASE Enter(p, SbrkOp(p, "setsz", 0, 0, sz[p]))
  BY <1>2, <1>6 DEF Enter
<1> QED
  BY <1>1, <1>3, <1>4, <1>5, <1>6

LEMMA SbrkKeeps ==
    ASSUME IInv, NEW p \in Proc, Sbrk(p)
    PROVE  IInv'
<1> DEFINE T0 == pagetable[p]
           n(pc, lo, hi, s) == SbrkOp(p, pc, lo, hi, s)
<1>1. PICK s \in 0 .. MaxSz :
        \/ /\ s > sz[p]
           /\ op' = [op EXCEPT ![p] = n("alloc", NPages(sz[p]), NPages(s), s)]
        \/ /\ s < sz[p]
           /\ op' = [op EXCEPT ![p] = n("unmap", NPages(s), NPages(sz[p]), s)]
        \/ /\ s = sz[p]
           /\ op' = [op EXCEPT ![p] = n("setsz", 0, 0, s)]
  BY SbrkIs
<1>2. InUser(p) /\ UNCHANGED <<procVars, memVars, alias>>
  BY DEF Sbrk
<1>3. T0 \in Table /\ T0[1] = p
  BY <1>2 DEF IInv, Tables, InUser, Table
<1>4. sz[p] \in 0 .. MaxSz
  BY DEF IInv, TypeOK
<1>5. ASSUME NEW pc \in {"alloc", "unmap"}, NEW x \in 0 .. MaxSz, NEW y \in 0 .. MaxSz,
             x <= y, op' = [op EXCEPT ![p] = n(pc, NPages(x), NPages(y), s)]
      PROVE  IInv'
  <2> DEFINE m == n(pc, NPages(x), NPages(y), s)
  <2>1. /\ m.call = "sbrk" /\ m.pc = pc /\ m.q = p /\ m.t = T0 /\ m.a = NPages(x)
        /\ m.lim = NPages(y) /\ m.then = "setsz"
    BY DEF Idle, SbrkOp
  <2>2. /\ NPages(x) \in 0 .. MAXVPN /\ NPages(y) \in 0 .. MAXVPN
        /\ NPages(x) <= NPages(y) /\ NPages(y) <= NPages(MaxSz)
    BY <1>5, NPagesRange, NPagesMono, VpnFacts
  <2>3. m \in Op
    BY <1>3, <2>2, IdleFacts DEF Op, Call, Pc, SbrkOp
  <2>4. Cursor(m)
    BY <1>5, <2>1, <2>2 DEF Cursor, InLoop
  <2>5. TableOf(m, T0)
    BY <1>5, <2>1 DEF TableOf, Holding, Fresh, InLoop
  <2>6. op' = [op EXCEPT ![p] = m]
    BY <1>5
  <2> HIDE DEF m
  <2> QED
    BY <1>2, <1>3, <1>5, <2>1, <2>3, <2>4, <2>5, <2>6, EnterSelfKeeps
<1>6. sz[p] <= s \/ s <= sz[p]
  BY <1>1, <1>4
<1>7. CASE /\ s > sz[p]
           /\ op' = [op EXCEPT ![p] = n("alloc", NPages(sz[p]), NPages(s), s)]
  <2>1. sz[p] <= s
    BY <1>4, <1>7
  <2> QED
    BY <1>4, <1>5, <1>7, <2>1
<1>8. CASE /\ s < sz[p]
           /\ op' = [op EXCEPT ![p] = n("unmap", NPages(s), NPages(sz[p]), s)]
  <2>1. s <= sz[p]
    BY <1>4, <1>8
  <2> QED
    BY <1>4, <1>5, <1>8, <2>1
<1>9. CASE s = sz[p] /\ op' = [op EXCEPT ![p] = n("setsz", 0, 0, s)]
  <2> DEFINE m == n("setsz", 0, 0, s)
  <2>1. m.call = "sbrk" /\ m.pc = "setsz" /\ m.q = p /\ m.t = T0 /\ m.then = "setsz"
    BY DEF Idle, SbrkOp
  <2>2. m \in Op
    <3>1. 0 \in 0 .. MAXVPN
      BY ConstantsAssumption DEF USYSCALL
    <3> QED
      BY <1>3, <3>1, IdleFacts DEF Op, Call, Pc, SbrkOp
  <2>3. Cursor(m) /\ TableOf(m, T0)
    BY <2>1 DEF Cursor, InLoop, TableOf, Holding, Fresh
  <2>4. op' = [op EXCEPT ![p] = m]
    BY <1>9
  <2> HIDE DEF m
  <2> QED
    BY <1>2, <1>3, <2>1, <2>2, <2>3, <2>4, EnterSelfKeeps
<1> QED
  BY <1>1, <1>7, <1>8, <1>9

LEMMA WaitKeeps ==
    ASSUME IInv, NEW p \in Proc, Wait(p)
    PROVE  IInv'
<1>1. PICK q \in Proc :
        /\ parent[q] = p /\ state[q] = "ZOMBIE"
        /\ op' = [op EXCEPT ![p] = [Idle EXCEPT !.call = "wait", !.pc = "fptf",
                                                !.q = q, !.t = pagetable[q]]]
  BY DEF Wait, Enter
<1>2. InUser(p) /\ UNCHANGED <<procVars, memVars, alias>>
  BY DEF Wait
<1>3. pagetable[q] \in Table /\ pagetable[q][1] = q
  BY <1>1 DEF IInv, Tables, Table
<1>0. PICK n : n = [Idle EXCEPT !.call = "wait", !.pc = "fptf", !.q = q,
                                 !.t = pagetable[q]]
  OBVIOUS
<1>4. n.call = "wait" /\ n.pc = "fptf" /\ n.q = q /\ n.t = pagetable[q] /\ n.t[1] = q
  BY <1>0, <1>3 DEF Idle
<1>5. n \in Op
  BY <1>0, <1>3, IdleFacts DEF Op, Call, Pc
<1>6. Cursor(n) /\ TableOf(n, pagetable[q])
      /\ Nulls(n, ptr[Var("trapframe", q)], ptr[Var("usyscall", q)])
  BY <1>4 DEF Cursor, InLoop, TableOf, Holding, Fresh, Nulls, Gone
<1>7. \A r \in Proc : Busy(r) => op[r].q # q
  <2> SUFFICES ASSUME NEW r \in Proc, Busy(r), op[r].q = q PROVE FALSE
    OBVIOUS
  <2>1. Worker(r, op[r]) /\ op[r].call \in Call
    BY InKernel DEF Busy, Op
  <2>2. r = p
    BY <1>1, <2>1 DEF Worker, Call
  <2> QED
    BY <1>2, <2>2 DEF InUser, Busy
<1>8. UNCHANGED <<state, parent, pagetable, free, ptr>>
  BY <1>2 DEF procVars, memVars
<1>9. TypeOK'
  BY <1>0, <1>1, <1>2, <1>5 DEF IInv, TypeOK, procVars, memVars
<1>10. Worker(p, n)'
  BY <1>1, <1>2, <1>4, <1>8 DEF Worker, InUser
<1>11. op' = [op EXCEPT ![p] = n]
  BY <1>0, <1>1
<1>12. /\ \A r \in Proc \ {n.q} : state'[r] = state[r]
       /\ state'[n.q] = state[n.q] \/ (state[n.q] = "UNUSED" /\ state'[n.q] = "USED")
       /\ Cursor(n)
       /\ \A r \in Proc : Busy(r) => op[r].q # n.q
       /\ TableOf(n, pagetable[n.q])
       /\ Nulls(n, ptr[Var("trapframe", n.q)], ptr[Var("usyscall", n.q)])
       /\ n.t[1] = n.q /\ n.pc \notin {"user", "map", "mapfail", "fpend"}
  BY <1>4, <1>6, <1>7, <1>8
<1>13. UNCHANGED <<parent, pagetable, free, ptr>> /\ InUser(p)
  BY <1>2, <1>8
<1> QED
  BY <1>5, <1>9, <1>10, <1>11, <1>12, <1>13, EnterKeeps

LEMMA ExitKeeps ==
    ASSUME IInv, NEW p \in Proc, Exit(p)
    PROVE  IInv'
<1>1. /\ InUser(p)
      /\ state'  = [state EXCEPT ![p] = "ZOMBIE"]
      /\ parent' = [q \in Proc |-> IF parent[q] = p THEN InitProc ELSE parent[q]]
      /\ UNCHANGED <<pid, nextpid, sz, pagetable, free, ptr, upid, alias, op>>
  BY DEF Exit, memVars
<1>2. state'[p] = "ZOMBIE" /\ \A r \in Proc \ {p} : state'[r] = state[r]
  BY <1>1 DEF IInv, TypeOK
<1>3. TypeOK'
  <2>1. parent' \in [Proc -> Proc \cup {Null}]
    BY <1>1, ConstantsAssumption DEF IInv, TypeOK
  <2>2. state' \in [Proc -> {"UNUSED", "USED", "RUNNABLE", "ZOMBIE"}]
    BY <1>1 DEF IInv, TypeOK
  <2> QED
    BY <1>1, <2>1, <2>2 DEF IInv, TypeOK
<1>4. Own' /\ Cursors'
  BY <1>1 DEF IInv, Own, Cursors
<1>5. Workers'
  <2>1. ASSUME NEW r \in Proc, Busy(r) PROVE Worker(r, op[r])'
    <3>1. Worker(r, op[r]) /\ r # p /\ op[r].q # p /\ op[r].q \in Proc
      BY <1>1, <2>1, NobodyWorksOn DEF IInv, Workers, TypeOK, Op
    <3>2. parent[op[r].q] = r => parent'[op[r].q] = r
      BY <1>1, <3>1
    <3> QED
      BY <1>1, <1>2, <3>1, <3>2 DEF Worker
  <2> QED
    BY <1>1, <2>1 DEF IInv, Workers, Busy
<1>6. Tables'
  <2>1. pagetable[p] # NoTable
    BY <1>1 DEF IInv, Tables, InUser
  <2>2. \A r \in Proc : state'[r] \in {"RUNNABLE", "ZOMBIE"} => pagetable[r] # NoTable
    BY <1>2, <2>1 DEF IInv, Tables
  <2> QED
    BY <1>1, <2>2 DEF IInv, Tables
<1>7. Vars'
  <2>1. \A r \in Proc : state'[r] = "UNUSED" => state[r] = "UNUSED"
    BY <1>2
  <2> QED
    BY <1>1, <2>1 DEF IInv, Vars
<1>8. Roots'
  BY <1>1 DEF IInv, Roots, Rooted
<1> QED
  BY <1>3, <1>4, <1>5, <1>6, <1>7, <1>8 DEF IInv

-----------------------------------------------------------------------------
(* The invariant holds initially and in every step.                        *)

LEMMA InitIInv == Init => IInv
<1> SUFFICES ASSUME Init PROVE IInv
  OBVIOUS
<1> DEFINE n == [Idle EXCEPT !.call = "userinit", !.pc = "trapframe"]
<1>1. n.call = "userinit" /\ n.pc = "trapframe" /\ n.q = InitProc /\ n.t = <<InitProc, 0>>
  BY DEF Idle
<1>2. n \in Op /\ Cursor(n)
  BY <1>1, IdleFacts DEF Op, Call, Pc, Cursor, InLoop
<1>3. \A p \in Proc : op[p] = IF p = InitProc THEN n ELSE Idle
  BY DEF Init
<1>4. TypeOK
  <2>1. op \in [Proc -> Op]
    BY <1>2, <1>3, IdleFacts DEF Init
  <2>2. /\ 0 \in 0 .. MaxPid /\ 1 \in 0 .. MaxPid /\ 2 \in 1 .. MaxPid + 1
        /\ 0 \in 0 .. MaxSz
    BY ConstantsAssumption
  <2>3. alias \in [Table -> [Fixed -> Page \cup {Null, Trampoline}]]
    BY DEF Init
  <2> QED
    BY <2>1, <2>2, <2>3, ConstantsAssumption DEF Init, TypeOK, Junk
<1>5. \A s \in Slot : ptr[s] = Null
  BY DEF Init
<1>6. Own
  BY <1>5, ConstantsAssumption DEF Init, Own
<1>7. \A p \in Proc : Busy(p) => p = InitProc /\ op[p] = n
  BY <1>3, IdleFacts DEF Busy
<1>8. Workers
  <2>1. Worker(InitProc, n)
    BY <1>1, ConstantsAssumption DEF Worker, Init
  <2> QED
    BY <1>7, <2>1 DEF Workers
<1>9. Cursors
  BY <1>2, <1>3, IdleFacts DEF Cursors
<1>10. Tables
  <2>1. \A p \in Proc : pagetable[p] = NoTable /\ state[p] \in {"USED", "UNUSED"}
    BY DEF Init
  <2>2. ~ Holding(n) /\ ~ Holding(Idle) /\ ~ Fresh(Idle) /\ ~ Fresh(n)
    BY <1>1, IdleFacts DEF Holding, InLoop, Fresh
  <2>3. \A p \in Proc : ~ Holding(op[p]) /\ ~ Fresh(op[p]) /\ op[p].pc # "root"
    BY <1>1, <1>3, <2>2, IdleFacts
  <2>4. \A p \in Proc : op[p].q \in Proc
    BY <1>4 DEF TypeOK, Op
  <2> QED
    BY <2>1, <2>3, <2>4 DEF Tables
<1>11. Vars
  <2>1. \A p \in Proc : ptr[Var("mem", p)] = Null /\ ptr[Var("trapframe", p)] = Null
                        /\ ptr[Var("usyscall", p)] = Null
    BY <1>5, SlotFacts
  <2>2. \A p \in Proc : op[p].pc \notin {"map", "mapfail"} /\ op[p].q \in Proc
    BY <1>1, <1>3, <1>4, IdleFacts DEF TypeOK, Op
  <2>3. \A p \in Proc : pagetable[p] = NoTable
    BY DEF Init
  <2> QED
    BY <2>1, <2>2, <2>3 DEF Vars
<1>12. Roots
  BY <1>5, SlotFacts DEF Roots
<1> QED
  BY <1>4, <1>6, <1>8, <1>9, <1>10, <1>11, <1>12 DEF IInv

LEMMA NextIInv == IInv /\ [Next]_vars => IInv'
<1> SUFFICES ASSUME IInv, [Next]_vars PROVE IInv'
  OBVIOUS
<1>1. CASE UNCHANGED vars
  BY <1>1, SameKeeps DEF vars
<1>2. CASE Next
  <2>1. PICK p \in Proc : SysCall(p) \/ KernelStep(p)
    BY <1>2 DEF Next
  <2>2. CASE SysCall(p)
    BY <2>2, ForkKeeps, ExecCallKeeps, SbrkKeeps, ExitKeeps, WaitKeeps DEF SysCall
  <2>3. CASE KernelStep(p)
    BY <2>3, AllocTrapframeKeeps, AllocUsyscallKeeps, UvmCreateKeeps, WalkAllocKeeps,
       MapUserPageKeeps, MapFixedKeeps, MapFailFixedKeeps, MapFailUserKeeps,
       AllocPageKeeps, AllocDoneKeeps, SetSzKeeps, LoadSegmentKeeps, AllocStackKeeps,
       ExecFailsKeeps, ExecCommitKeeps, ExecBadKeeps, UnmapPageKeeps, UnmapDoneKeeps,
       FreewalkKeeps, FreeTrapframeKeeps, FreeUsyscallKeeps, FreeProcPagetableKeeps,
       FreeProcEndKeeps
    DEF KernelStep
  <2> QED
    BY <2>1, <2>2, <2>3
<1> QED
  BY <1>1, <1>2

\* The inductive invariant holds in every reachable state.
THEOREM PageInvariant == Spec => []IInv
BY InitIInv, NextIInv, PTL DEF Spec

\* Every variable keeps its type: in particular no page is ever on the free
\* list twice, and no loop bound leaves the address space.
THEOREM PageTypeOK == Spec => []TypeOK
<1>1. IInv => TypeOK
  BY DEF IInv
<1> QED
  BY <1>1, PageInvariant, PTL

\* kalloc.c and every path that allocates or frees: each physical page is on
\* the free list or has exactly one owner, whatever the processes do, however
\* their paths interleave and wherever memory runs out.
THEOREM PagesOwnedOnce == Spec => []OneOwner
<1>1. IInv => OneOwner
  BY OwnImpliesOneOwner DEF IInv
<1> QED
  BY <1>1, PageInvariant, PTL

-----------------------------------------------------------------------------
(* The images of processes.                                                *)

\* walk() finds the table pages on the way to whatever is mapped, and no table
\* page without the one above it.
Linked(T) == \A v \in Vpn :
    /\ Mapped(T, v) => ptr[Ent("l0", T, L0(v))] # Null
    /\ ptr[Ent("l0", T, L0(v))] # Null => ptr[Ent("l1", T, L1(v))] # Null
    /\ ptr[Ent("l1", T, L1(v))] # Null => ptr[Root(T)] # Null
Trees == \A T \in Table : Linked(T)

\* Table T maps just the user pages U, and the fixed pages F to what belongs there.
Holds(T, U) == /\ ptr[Root(T)] # Null
               /\ \A v \in UserVpn : ptr[Ent("leaf", T, v)] # Null <=> v \in U
Expect(q, v) == CASE v = TRAMPOLINE -> Trampoline
                  [] v = TRAPFRAME  -> ptr[Var("trapframe", q)]
                  [] v = USYSCALL   -> ptr[Var("usyscall", q)]
Points(T, F) == \A v \in Fixed : alias[T][v] = IF v \in F THEN Expect(T[1], v) ELSE Null

\* The whole image of process q.
HasVars(q)  == ptr[Var("trapframe", q)] # Null /\ ptr[Var("usyscall", q)] # Null
Complete(q) == /\ Holds(pagetable[q], 0 .. NPages(sz[q]) - 1)
               /\ Points(pagetable[q], Fixed)
Stamped(q)  == upid[ptr[Var("usyscall", q)]] = pid[q]

\* A process that no call works on.
Unworked(q) == \A p \in Proc : Busy(p) => op[p].q # q
Resting(q)  == /\ state[q] # "USED"
               /\ state[q] \in {"RUNNABLE", "ZOMBIE"} =>
                    HasVars(q) /\ Complete(q) /\ Stamped(q)

\* What the table that a call works on maps at each point.
UserPages(o) ==
    CASE InLoop(o)                        -> 0 .. o.a - 1
      [] o.pc \in {"load", "args", "bad"} -> 0 .. NPages(o.sz) - 1
      [] o.pc = "setsz"                   -> 0 .. NPages(o.nsz) - 1
      [] o.pc = "unmap"                   -> (0 .. o.base - 1) \cup (o.a .. o.lim - 1)
      [] o.pc = "uvmfree"                 -> o.a .. o.lim - 1
      [] OTHER                            -> {}
InFixed(o) == o.pc \in {"map", "mapfail"} /\ o.a \in Fixed
FixedPages(o) == IF InFixed(o) THEN {v \in Fixed : v > o.a}
                 ELSE IF o.pc \in {"uvmfree", "freewalk"} THEN {} ELSE Fixed

\* Where the loop of a call began, how far it goes, and which table it is about.
Began(o) == CASE o.call = "sbrk" -> NPages(sz[o.q])
              [] o.call = "exec" -> NPages(o.sz)
              [] OTHER           -> 0
Bounds(p, o) ==
    /\ o.call = "exec" => pagetable[o.q] # o.t
    /\ o.call = "userinit" => o.t = BootTable
    /\ o.call # "exec" /\ (InFixed(o) \/ (o.pc = "freewalk" /\ o.then = "fptf")) =>
         pagetable[o.q] = NoTable
    /\ o.pc \in {"trapframe", "usyscall", "root"} \/ InFixed(o) => o.base = 0 /\ o.sz = 0
    /\ InLoop(o) => o.base <= o.a /\ o.base = Began(o) /\ o.lim = NPages(o.nsz)
    /\ o.pc = "unmap" => /\ o.base <= o.a /\ o.a <= o.lim
                         /\ o.base = IF o.then = "setsz" THEN NPages(o.nsz) ELSE Began(o)
    /\ o.pc = "uvmfree" => o.a <= o.lim
    /\ InLoop(o) \/ o.pc = "setsz" => /\ o.call = "fork" => o.nsz = sz[p]
                                      /\ o.call = "userinit" => o.nsz = PGSIZE
Freeing(o) == o.pc \in {"fptf", "fpus", "fppt"}
Working(p, o) ==
    /\ Bounds(p, o)
    /\ o.pc \in Building => Holds(o.t, UserPages(o)) /\ Points(o.t, FixedPages(o))
    /\ o.call = "exec" => Complete(o.q)
    /\ Freeing(o) /\ pagetable[o.q] # NoTable =>
         /\ Holds(pagetable[o.q], 0 .. NPages(sz[o.q]) - 1)
         /\ \A v \in Fixed : alias[pagetable[o.q]][v] # Null
    /\ o.pc # "trapframe" /\ ~ Freeing(o) /\ ~ Gone(o) => ptr[Var("trapframe", o.q)] # Null
    /\ o.pc \notin {"trapframe", "usyscall"} /\ ~ Freeing(o) /\ ~ Gone(o) =>
         ptr[Var("usyscall", o.q)] # Null
    /\ pagetable[o.q] # NoTable /\ ~ Freeing(o) /\ ~ Gone(o) => Stamped(o.q)

Works == \A p \in Proc : Busy(p) => Working(p, op[p])
Rests == \A q \in Proc : Unworked(q) => Resting(q)
Sizes == \A q \in Proc : state[q] \in {"UNUSED", "USED"} => sz[q] = 0
Pids  == \A q \in Proc : /\ pid[q] = 0 <=> state[q] = "UNUSED"
                         /\ pid[q] < nextpid
                         /\ \A r \in Proc \ {q} : pid[q] # 0 => pid[q] # pid[r]

\* While userinit() runs there is nobody else, and only its slots are in use.
BootPc == {"trapframe", "usyscall", "root", "map", "alloc", "setsz"}
BootWalks == \A v \in Vpn :
    /\ ptr[Ent("l1", BootTable, L1(v))] # Null => L1(v) \in {L1(w) : w \in BootVpn}
    /\ ptr[Ent("l0", BootTable, L0(v))] # Null => L0(v) \in {L0(w) : w \in BootVpn}
Boot == op[InitProc].call = "userinit" =>
    /\ \A q \in Proc \ {InitProc} : state[q] = "UNUSED"
    /\ op[InitProc].pc \in BootPc
    /\ BootWalks

ImgInv == Trees /\ Works /\ Rests /\ Sizes /\ Pids /\ Boot /\ NoPanic
-----------------------------------------------------------------------------
(* Lemmas about images.                                                    *)

\* A step done for process q: other processes keep their pointers, their
\* tables, and the pid in their usyscall page.
OnlyFor(q) ==
    /\ \A s \in Slot : ptr'[s] # ptr[s] => s[1] = "mem" \/ s[2] = q
    /\ \A T \in Table : T[1] # q => alias'[T] = alias[T]
    /\ \A x \in Proc \ {q} : /\ ptr[Var("usyscall", x)] # Null =>
                                  upid'[ptr[Var("usyscall", x)]] = upid[ptr[Var("usyscall", x)]]
                             /\ pid'[x] = pid[x] /\ sz'[x] = sz[x]
                             /\ pagetable'[x] = pagetable[x]

\* A step that changes no slot of table T.
TableSame(T) ==
    /\ alias'[T] = alias[T] /\ ptr'[Root(T)] = ptr[Root(T)]
    /\ \A v \in Vpn : /\ ptr'[Ent("l1", T, L1(v))] = ptr[Ent("l1", T, L1(v))]
                      /\ ptr'[Ent("l0", T, L0(v))] = ptr[Ent("l0", T, L0(v))]
    /\ \A v \in UserVpn : ptr'[Ent("leaf", T, v)] = ptr[Ent("leaf", T, v)]

\* A table none of whose slots is among those that change.
LEMMA SlotsOfTable ==
    ASSUME NEW T \in Table, alias'[T] = alias[T],
           \A s \in Slot : ptr'[s] # ptr[s] =>
             s[1] \in {"mem", "trapframe", "usyscall"} \/ s[2] # T[1] \/ s[3] # T[2]
    PROVE  TableSame(T)
<1>1. Root(T)[1] = "root" /\ Root(T)[2] = T[1] /\ Root(T)[3] = T[2]
  BY DEF Root, Ent
<1>2. \A k, i : Ent(k, T, i)[1] = k /\ Ent(k, T, i)[2] = T[1] /\ Ent(k, T, i)[3] = T[2]
  BY DEF Ent
<1>3. ptr'[Root(T)] = ptr[Root(T)]
  BY <1>1, SlotFacts
<1>4. \A v \in Vpn : /\ ptr'[Ent("l1", T, L1(v))] = ptr[Ent("l1", T, L1(v))]
                     /\ ptr'[Ent("l0", T, L0(v))] = ptr[Ent("l0", T, L0(v))]
  BY <1>2, SlotFacts
<1>5. \A v \in UserVpn : ptr'[Ent("leaf", T, v)] = ptr[Ent("leaf", T, v)]
  BY <1>2, SlotFacts
<1> QED
  BY <1>3, <1>4, <1>5 DEF TableSame

LEMMA OthersKeepTables ==
    ASSUME NEW q, OnlyFor(q), NEW T \in Table, T[1] # q
    PROVE  TableSame(T)
<1>1. alias'[T] = alias[T]
  BY DEF OnlyFor
<1>2. \A s \in Slot : ptr'[s] # ptr[s] => s[1] \in {"mem", "trapframe", "usyscall"} \/ s[2] # T[1] \/ s[3] # T[2]
  BY DEF OnlyFor
<1> QED
  BY <1>1, <1>2, SlotsOfTable

LEMMA OthersKeepVars ==
    ASSUME NEW q, OnlyFor(q), NEW x \in Proc, x # q
    PROVE  /\ ptr'[Var("trapframe", x)] = ptr[Var("trapframe", x)]
           /\ ptr'[Var("usyscall", x)] = ptr[Var("usyscall", x)]
<1>1. \A k \in {"trapframe", "usyscall"} : Var(k, x)[1] = k /\ Var(k, x)[2] = x
  BY DEF Var
<1> QED
  BY <1>1, SlotFacts DEF OnlyFor

\* What the definitions say of a table that does not change.
LEMMA SameLinked ==
    ASSUME NEW T \in Table, TableSame(T), Linked(T)
    PROVE  Linked(T)'
<1>1. \A v \in Vpn : Mapped(T, v)' <=> Mapped(T, v)
  BY VpnFacts DEF Mapped, TableSame
<1> QED
  BY <1>1 DEF Linked, TableSame

LEMMA SameHolds ==
    ASSUME NEW T \in Table, TableSame(T), NEW U, Holds(T, U)
    PROVE  Holds(T, U)'
BY DEF Holds, TableSame

LEMMA SamePoints ==
    ASSUME NEW T \in Table, TableSame(T), NEW F, Points(T, F),
           ptr'[Var("trapframe", T[1])] = ptr[Var("trapframe", T[1])],
           ptr'[Var("usyscall", T[1])] = ptr[Var("usyscall", T[1])]
    PROVE  Points(T, F)'
<1>1. \A v \in Fixed : Expect(T[1], v)' = Expect(T[1], v)
  BY DEF Expect, Fixed
<1> QED
  BY <1>1 DEF Points, TableSame

\* A table of process q.
LEMMA OwnTable ==
    ASSUME IInv, NEW q \in Proc, pagetable[q] # NoTable
    PROVE  pagetable[q] \in Table /\ pagetable[q][1] = q
<1>1. pagetable[q] \in {<<q, 0>>, <<q, 1>>}
  BY DEF IInv, Tables
<1> QED
  BY <1>1 DEF Table

\* The image of a process stays as long as its table and its pointers do.
LEMMA KeepComplete ==
    ASSUME IInv, NEW x \in Proc, pagetable[x] # NoTable, Complete(x), TableSame(pagetable[x]),
           pagetable'[x] = pagetable[x], sz'[x] = sz[x],
           ptr'[Var("trapframe", x)] = ptr[Var("trapframe", x)],
           ptr'[Var("usyscall", x)] = ptr[Var("usyscall", x)]
    PROVE  Complete(x)'
<1>1. pagetable[x] \in Table /\ pagetable[x][1] = x
  BY OwnTable
<1>2. PICK t, u : t \in Table /\ t = pagetable[x] /\ u = 0 .. NPages(sz[x]) - 1
  BY <1>1
<1>3. Holds(t, u) /\ Points(t, Fixed)
  BY <1>2 DEF Complete
<1>4. Holds(t, u)' /\ Points(t, Fixed)'
  BY <1>1, <1>2, <1>3, SameHolds, SamePoints
<1>5. Holds(pagetable[x], 0 .. NPages(sz[x]) - 1)'
  BY <1>2, <1>4 DEF Holds
<1>6. Points(pagetable[x], Fixed)'
  BY <1>2, <1>4 DEF Points
<1> QED
  BY <1>5, <1>6 DEF Complete

LEMMA OthersKeepComplete ==
    ASSUME IInv, NEW q, OnlyFor(q), NEW x \in Proc, x # q, pagetable[x] # NoTable, Complete(x)
    PROVE  Complete(x)'
<1>1. pagetable[x] \in Table /\ pagetable[x][1] = x
  BY OwnTable
<1>2. TableSame(pagetable[x])
  BY <1>1, OthersKeepTables
<1>3. pagetable'[x] = pagetable[x] /\ sz'[x] = sz[x]
  BY DEF OnlyFor
<1> QED
  BY <1>2, <1>3, KeepComplete, OthersKeepVars

LEMMA OthersKeepWorking ==
    ASSUME IInv, NEW q \in Proc, OnlyFor(q),
           NEW r \in Proc, Busy(r), r # q, op[r].q # q, op'[r] = op[r], Working(r, op[r])
    PROVE  Working(r, op[r])'
<1> DEFINE o == op[r]
           x == op[r].q
<1>1. x \in Proc /\ o.t \in Table /\ o.t[1] = x /\ Worker(r, o) /\ o \in Op
      /\ (o.pc \in {"trapframe", "usyscall"} => pagetable[x] = NoTable)
  BY InKernel DEF Busy, TableOf
<1>2. TableSame(o.t)
  BY <1>1, OthersKeepTables
<1>3. pagetable'[x] = pagetable[x] /\ sz'[x] = sz[x] /\ sz'[r] = sz[r] /\ pid'[x] = pid[x]
      /\ (ptr[Var("usyscall", x)] # Null => upid'[ptr[Var("usyscall", x)]] = upid[ptr[Var("usyscall", x)]])
  BY <1>1 DEF OnlyFor
<1>4. /\ ptr'[Var("trapframe", x)] = ptr[Var("trapframe", x)]
      /\ ptr'[Var("usyscall", x)] = ptr[Var("usyscall", x)]
  BY <1>1, OthersKeepVars
<1>5. Bounds(r, op[r])'
  <2>1. Bounds(r, o)
    BY DEF Working
  <2>2. Began(op[r])' = Began(o)
    BY <1>3 DEF Began
  <2> QED
    BY <1>3, <2>1, <2>2 DEF Bounds
<1>6. (op[r].pc \in Building => Holds(op[r].t, UserPages(op[r])) /\ Points(op[r].t, FixedPages(op[r])))'
  <2> SUFFICES ASSUME o.pc \in Building
               PROVE (Holds(op[r].t, UserPages(op[r])) /\ Points(op[r].t, FixedPages(op[r])))'
    BY DEF Building
  <2>1. PICK t, U, F : t \in Table /\ t = o.t /\ U = UserPages(o) /\ F = FixedPages(o)
    BY <1>1
  <2>2. Holds(t, U) /\ Points(t, F)
    BY <2>1 DEF Working
  <2>3. Holds(t, U)' /\ Points(t, F)'
    BY <1>1, <1>2, <1>4, <2>1, <2>2, SameHolds, SamePoints
  <2>4. UserPages(op[r])' = U /\ FixedPages(op[r])' = F
    BY <2>1 DEF UserPages, FixedPages, InLoop, InFixed
  <2> QED
    BY <2>1, <2>3, <2>4 DEF Holds, Points
<1>7. (op[r].call = "exec" => Complete(op[r].q))'
  <2> SUFFICES ASSUME o.call = "exec" PROVE Complete(op[r].q)'
    OBVIOUS
  <2>1. pagetable[x] # NoTable
    BY <1>1 DEF IInv, Tables, Worker
  <2>2. PICK y \in Proc : y = x
    BY <1>1
  <2>3. Complete(y)'
    BY <2>1, <2>2, OthersKeepComplete DEF Working
  <2> QED
    BY <2>2, <2>3 DEF Complete
<1>8. (Freeing(op[r]) /\ pagetable[op[r].q] # NoTable =>
         /\ Holds(pagetable[op[r].q], 0 .. NPages(sz[op[r].q]) - 1)
         /\ \A v \in Fixed : alias[pagetable[op[r].q]][v] # Null)'
  <2> SUFFICES ASSUME Freeing(o), pagetable[x] # NoTable
               PROVE  (/\ Holds(pagetable[op[r].q], 0 .. NPages(sz[op[r].q]) - 1)
                       /\ \A v \in Fixed : alias[pagetable[op[r].q]][v] # Null)'
    BY <1>3 DEF Freeing
  <2>1. pagetable[x] \in Table /\ pagetable[x][1] = x
    BY <1>1, OwnTable
  <2>2. TableSame(pagetable[x])
    BY <2>1, OthersKeepTables
  <2>3. PICK t, U : t \in Table /\ t = pagetable[x] /\ U = 0 .. NPages(sz[x]) - 1
    BY <2>1
  <2>4. Holds(t, U) /\ \A v \in Fixed : alias[t][v] # Null
    BY <2>3 DEF Working
  <2>5. Holds(t, U)'
    BY <2>2, <2>3, <2>4, SameHolds
  <2> QED
    BY <1>3, <2>2, <2>3, <2>4, <2>5 DEF Holds, TableSame
<1>9. (/\ op[r].pc # "trapframe" /\ ~ Freeing(op[r]) /\ ~ Gone(op[r]) =>
            ptr[Var("trapframe", op[r].q)] # Null
       /\ op[r].pc \notin {"trapframe", "usyscall"} /\ ~ Freeing(op[r]) /\ ~ Gone(op[r]) =>
            ptr[Var("usyscall", op[r].q)] # Null)'
  BY <1>4 DEF Working, Freeing, Gone
<1>10. (pagetable[op[r].q] # NoTable /\ ~ Freeing(op[r]) /\ ~ Gone(op[r]) => Stamped(op[r].q))'
  BY <1>1, <1>3, <1>4 DEF Working, Freeing, Gone, Stamped
<1> QED
  BY <1>5, <1>6, <1>7, <1>8, <1>9, <1>10 DEF Working

LEMMA OthersKeepResting ==
    ASSUME IInv, NEW q \in Proc, OnlyFor(q), NEW x \in Proc, x # q, state'[x] = state[x], Resting(x)
    PROVE  Resting(x)'
<1> SUFFICES ASSUME state[x] \in {"RUNNABLE", "ZOMBIE"}
             PROVE  HasVars(x)' /\ Complete(x)' /\ Stamped(x)'
  BY DEF Resting
<1>1. HasVars(x) /\ Complete(x) /\ Stamped(x) /\ pagetable[x] # NoTable
  BY DEF Resting, IInv, Tables
<1>2. HasVars(x)' /\ Stamped(x)'
  BY <1>1, OthersKeepVars DEF HasVars, Stamped, OnlyFor
<1> QED
  BY <1>1, <1>2, OthersKeepComplete

\* A step of p, done for process q: what is left to show is about q alone.
LEMMA StepForOne ==
    ASSUME IInv, TypeOK', Trees, Works, Rests, NEW p \in Proc, NEW q \in Proc,
           \A r \in Proc \ {p} : Busy(r) => r # q /\ op[r].q # q,
           Busy(p) => op[p].q = q,
           OnlyFor(q), \A x \in Proc \ {q} : state'[x] = state[x],
           \A r \in Proc \ {p} : op'[r] = op[r],
           \A T \in Table : T[1] = q => Linked(T)',
           Busy(p)' => op'[p].q = q /\ Working(p, op[p])',
           ~ Busy(p)' => Resting(q)'
    PROVE  (Trees /\ Works /\ Rests)'
<1>1. Trees'
  <2> SUFFICES ASSUME NEW T \in Table, T[1] # q PROVE Linked(T)'
    BY DEF Trees
  <2> QED
    BY OthersKeepTables, SameLinked DEF Trees
<1>2. Works'
  <2> SUFFICES ASSUME NEW r \in Proc, Busy(r)', r # p PROVE Working(r, op[r])'
    BY DEF Works
  <2>1. op'[r] = op[r] /\ Busy(r)
    BY DEF Busy
  <2> QED
    BY <2>1, OthersKeepWorking DEF Works
<1>3. Rests'
  <2> SUFFICES ASSUME NEW x \in Proc, Unworked(x)' PROVE Resting(x)'
    BY DEF Rests
  <2>1. CASE x = q
    BY <2>1 DEF Unworked
  <2>2. CASE x # q
    <3>1. ASSUME NEW r \in Proc, Busy(r) PROVE op[r].q # x
      <4>1. CASE r = p
        BY <2>2, <3>1, <4>1
      <4>2. CASE r # p
        BY <3>1, <4>2 DEF Unworked, Busy
      <4> QED
        BY <4>1, <4>2
    <3> QED
      BY <2>2, <3>1, OthersKeepResting DEF Rests, Unworked
  <2> QED
    BY <2>1, <2>2
<1> QED
  BY <1>1, <1>2, <1>3

\* kalloc() and kfree() fill only the page they take or give: the pids in the
\* pages of other slots stay.
Stamps(s) == \A r \in Slot : r # s /\ ptr[r] # Null => upid'[ptr[r]] = upid[ptr[r]]

LEMMA KallocStamps ==
    ASSUME TypeOK, Own, NEW s \in Slot, ~ OutOfMemory, Kalloc(s)
    PROVE  Stamps(s)
<1>1. PICK pg \in Pick(FreePages) : upid' = [upid EXCEPT ![pg] = Junk]
  BY DEF Kalloc
<1>2. pg \in FreePages /\ FreePages \subseteq Page
  BY PickAssumption DEF OutOfMemory, FreePages
<1>3. free[pg] = 1
  BY <1>2 DEF FreePages, TypeOK
<1>4. \A r \in Slot : ptr[r] # pg
  BY <1>2, <1>3 DEF Own
<1> QED
  BY <1>1, <1>4 DEF Stamps, TypeOK

LEMMA KfreeStamps ==
    ASSUME TypeOK, Own, NEW s \in Slot, ptr[s] # Null, Kfree(s)
    PROVE  Stamps(s)
<1>1. upid' = [upid EXCEPT ![ptr[s]] = Junk]
  BY DEF Kfree
<1>2. \A r \in Slot : r # s /\ ptr[r] # Null => ptr[r] # ptr[s]
  BY DEF Own
<1> QED
  BY <1>1, <1>2 DEF Stamps, TypeOK

\* A step that changes one slot, of process q or the `mem' of a loop.
LEMMA OneSlotOnlyFor ==
    ASSUME NEW s \in Slot, OnlySlot(s), Stamps(s), NEW q, s[1] = "mem" \/ s[2] = q,
           UNCHANGED <<pid, sz, pagetable>>, \A T \in Table : T[1] # q => alias'[T] = alias[T]
    PROVE  OnlyFor(q)
<1>1. \A r \in Slot : ptr'[r] # ptr[r] => r[1] = "mem" \/ r[2] = q
  BY DEF OnlySlot
<1>2. ASSUME NEW x \in Proc, x # q, ptr[Var("usyscall", x)] # Null
      PROVE  upid'[ptr[Var("usyscall", x)]] = upid[ptr[Var("usyscall", x)]]
  <2>1. Var("usyscall", x) # s
    BY <1>2 DEF Var
  <2> QED
    BY <1>2, <2>1, SlotFacts DEF Stamps
<1> QED
  BY <1>1, <1>2 DEF OnlyFor

\* A step that changes no slot.
LEMMA NoSlotOnlyFor ==
    ASSUME NEW q, UNCHANGED <<ptr, upid>>, \A T \in Table : T[1] # q => alias'[T] = alias[T],
           \A x \in Proc \ {q} : pid'[x] = pid[x] /\ sz'[x] = sz[x] /\ pagetable'[x] = pagetable[x]
    PROVE  OnlyFor(q)
BY DEF OnlyFor

\* A slot of a table and the other slots of process q.
LEMMA TableSlotFrame ==
    ASSUME NEW s \in Slot, OnlySlot(s), NEW t \in Table,
           s[1] \in {"root", "l1", "l0", "leaf"}, s[2] = t[1], s[3] = t[2],
           \A T \in Table : T # t => alias'[T] = alias[T]
    PROVE  /\ \A T \in Table : T # t => TableSame(T)
           /\ \A x \in Proc : /\ ptr'[Var("trapframe", x)] = ptr[Var("trapframe", x)]
                              /\ ptr'[Var("usyscall", x)] = ptr[Var("usyscall", x)]
                              /\ ptr'[Var("mem", x)] = ptr[Var("mem", x)]
<1>1. ASSUME NEW T \in Table, T # t PROVE TableSame(T)
  <2>1. T[1] # t[1] \/ T[2] # t[2]
    <3>1. T = <<T[1], T[2]>> /\ t = <<t[1], t[2]>>
      BY DEF Table
    <3> QED
      BY <1>1, <3>1
  <2>2. \A r \in Slot : ptr'[r] # ptr[r] =>
             r[1] \in {"mem", "trapframe", "usyscall"} \/ r[2] # T[1] \/ r[3] # T[2]
    BY <2>1 DEF OnlySlot
  <2> QED
    BY <1>1, <2>2, SlotsOfTable
<1>2. ASSUME NEW x \in Proc
      PROVE  /\ ptr'[Var("trapframe", x)] = ptr[Var("trapframe", x)]
             /\ ptr'[Var("usyscall", x)] = ptr[Var("usyscall", x)]
             /\ ptr'[Var("mem", x)] = ptr[Var("mem", x)]
  <2>1. \A k : Var(k, x)[1] = k
    BY DEF Var
  <2>2. \A k \in {"trapframe", "usyscall", "mem"} : Var(k, x) # s
    BY <2>1
  <2> QED
    BY <2>2, SlotFacts DEF OnlySlot
<1> QED
  BY <1>1, <1>2

\* A slot that belongs to no table.
LEMMA VarSlotFrame ==
    ASSUME NEW s \in Slot, OnlySlot(s), s[1] \in {"mem", "trapframe", "usyscall"}, UNCHANGED alias
    PROVE  \A T \in Table : TableSame(T)
BY SlotsOfTable DEF OnlySlot

LEMMA OthersIdle ==
    ASSUME IInv, NEW p \in Proc, Busy(p), NEW r \in Proc \ {p}, Busy(r)
    PROVE  r # op[p].q /\ op[r].q # op[p].q
<1>1. Worker(p, op[p]) /\ Worker(r, op[r]) /\ op[r].q # op[p].q
  BY DEF IInv, Workers
<1>2. op[p].call \in Call /\ op[r].call \in Call
  BY DEF IInv, TypeOK, Op
<1> QED
  BY <1>1, <1>2 DEF Worker, Call

\* A kernel step that changes the memory of process q only.
LEMMA KernelImage ==
    ASSUME IInv, TypeOK', ImgInv, NEW p \in Proc, Busy(p), NEW q \in Proc, q = op[p].q,
           UNCHANGED <<state, pid, nextpid, sz, panicked>>, OnlyFor(q),
           \A r \in Proc \ {p} : op'[r] = op[r],
           \A T \in Table : T[1] = q => Linked(T)',
           op'[p].pc # "user" => op'[p].q = q /\ op'[p].call = op[p].call /\ Working(p, op[p])',
           op'[p].pc = "user" => op'[p].call = "none" /\ Resting(q)',
           op[p].call = "userinit" => op'[p].pc \in BootPc /\ BootWalks'
    PROVE  ImgInv'
<1>1. \A r \in Proc \ {p} : Busy(r) => r # q /\ op[r].q # q
  BY OthersIdle
<1>2. (Trees /\ Works /\ Rests)'
  BY <1>1, StepForOne DEF ImgInv, Busy
<1>3. (Sizes /\ Pids /\ NoPanic)'
  BY DEF ImgInv, Sizes, Pids, NoPanic
<1>4. Worker(p, op[p]) /\ (op[p].call # "userinit" => state[p] = "RUNNABLE")
  BY DEF IInv, Workers, Worker
<1>5. Boot'
  <2> SUFFICES ASSUME op'[InitProc].call = "userinit"
               PROVE  /\ \A x \in Proc \ {InitProc} : state'[x] = "UNUSED"
                      /\ op'[InitProc].pc \in BootPc
                      /\ BootWalks'
    BY DEF Boot
  <2>1. op[InitProc].call = "userinit"
    BY ConstantsAssumption
  <2>2. \A x \in Proc \ {InitProc} : state[x] = "UNUSED"
    BY <2>1 DEF ImgInv, Boot
  <2>3. p = InitProc
    BY <1>4, <2>2 DEF Worker
  <2> QED
    BY <2>1, <2>2, <2>3
<1> QED
  BY <1>2, <1>3, <1>5 DEF ImgInv

\* walk() finds the level-1 entry of v and the level-0 page below it by the
\* same bits of v.
LEMMA LevelsAgree == \A v \in Vpn : L1(v) = L0(v) \div RADIX /\ L1(v) \in Nat /\ L0(v) \in Nat
<1> SUFFICES ASSUME NEW v \in Vpn PROVE L1(v) = L0(v) \div RADIX /\ L1(v) \in Nat /\ L0(v) \in Nat
  OBVIOUS
<1>1. v \in Nat /\ RADIX \in Nat \ {0}
  <2>1. v \in 0 .. MAXVPN /\ MAXVPN \in Nat
    BY VpnFacts
  <2> QED
    BY <2>1, ConstantsAssumption
<1>2. PICK R \in Nat \ {0} : R = RADIX
  BY <1>1
<1>3. PICK S \in Nat \ {0} : S = R * R
  OBVIOUS
<1>4. PICK a \in Nat : a = v \div R /\ R * a <= v /\ v < R * a + R
  BY <1>1
<1>5. PICK b \in Nat : b = a \div R /\ R * b <= a /\ a <= R * b + R - 1
  OBVIOUS
<1>6. PICK c \in Nat : c = v \div S /\ S * c <= v /\ v < S * c + S
  BY <1>1
<1>7. \A x, y \in Int : x <= y => R * x <= R * y /\ S * x <= S * y
  OBVIOUS
<1>8. R * (R * b) = S * b /\ R * (R * b + R - 1) = S * b + S - R
  BY <1>3
<1>9. S * b <= v /\ v < S * b + S
  BY <1>1, <1>4, <1>5, <1>7, <1>8
<1>10. S * (b + 1) = S * b + S /\ S * (c + 1) = S * c + S
  OBVIOUS
<1>11. b = c
  <2>1. CASE b + 1 <= c
    BY <1>1, <1>6, <1>7, <1>9, <1>10, <2>1
  <2>2. CASE c + 1 <= b
    BY <1>1, <1>6, <1>7, <1>9, <1>10, <2>2
  <2> QED
    BY <2>1, <2>2
<1>12. L0(v) = a /\ L1(v) = c
  BY <1>2, <1>3, <1>4, <1>6 DEF L0, L1
<1> QED
  BY <1>2, <1>5, <1>11, <1>12

\* mappages() and uvmunmap() change leaves only, and walk() comes first.
LEMMA MapLinked ==
    ASSUME NEW T \in Table, Linked(T), ptr'[Root(T)] = ptr[Root(T)],
           \A v \in Vpn : /\ ptr'[Ent("l1", T, L1(v))] = ptr[Ent("l1", T, L1(v))]
                          /\ ptr'[Ent("l0", T, L0(v))] = ptr[Ent("l0", T, L0(v))]
                          /\ Mapped(T, v)' => Mapped(T, v) \/ Walks(T, v)
    PROVE  Linked(T)'
BY DEF Linked, Walks

\* walk() installs the missing levels from the top.
LEMMA WalkLinked ==
    ASSUME NEW T \in Table, Linked(T), ptr[Root(T)] # Null, NEW v \in Vpn, NEW s \in Slot,
           s = IF ptr[Ent("l1", T, L1(v))] = Null THEN Ent("l1", T, L1(v))
                                                 ELSE Ent("l0", T, L0(v)),
           OnlySlot(s), ptr'[s] # Null, alias'[T] = alias[T]
    PROVE  Linked(T)'
<1>1. \A k, j, i, h : Ent(k, T, i) = Ent(j, T, h) <=> k = j /\ i = h
  BY DEF Ent
<1>2. \A r \in Slot : ptr[r] # Null => ptr'[r] # Null
  BY DEF OnlySlot
<1>3. \A w \in Vpn : Mapped(T, w)' <=> Mapped(T, w)
  BY <1>1, SlotFacts, VpnFacts DEF Mapped, OnlySlot
<1>4. Root(T) \in Slot /\ ptr'[Root(T)] # Null
  BY <1>2, SlotFacts
<1>5. ASSUME NEW w \in Vpn, ptr'[Ent("l0", T, L0(w))] # Null
      PROVE  ptr'[Ent("l1", T, L1(w))] # Null
  <2>1. CASE s = Ent("l0", T, L0(w))
    <3>1. s = Ent("l0", T, L0(v)) /\ ptr[Ent("l1", T, L1(v))] # Null
      BY <1>1, <2>1
    <3>2. L0(w) = L0(v)
      BY <1>1, <2>1, <3>1
    <3>3. L1(w) = L1(v)
      BY <3>2, LevelsAgree
    <3> QED
      BY <1>2, <3>1, <3>3, SlotFacts
  <2>2. CASE s # Ent("l0", T, L0(w))
    BY <1>2, <1>5, <2>2, SlotFacts DEF Linked, OnlySlot
  <2> QED
    BY <2>1, <2>2
<1>6. \A w \in Vpn : Mapped(T, w)' => ptr'[Ent("l0", T, L0(w))] # Null
  BY <1>2, <1>3, SlotFacts DEF Linked
<1> QED
  BY <1>4, <1>5, <1>6 DEF Linked

\* uvmcreate() makes an empty table.
LEMMA RootLinked ==
    ASSUME NEW T \in Table, Linked(T), ptr[Root(T)] = Null,
           OnlySlot(Root(T)), ptr'[Root(T)] # Null, alias'[T] = alias[T]
    PROVE  /\ Linked(T)' /\ Holds(T, {})'
           /\ \A v \in Fixed : alias[T][v] = Null
<1>1. \A v \in Vpn : /\ ptr[Ent("l1", T, L1(v))] = Null
                     /\ ptr[Ent("l0", T, L0(v))] = Null /\ ~ Mapped(T, v)
  BY DEF Linked
<1>2. \A k \in {"l1", "l0", "leaf"} : \A i : Ent(k, T, i) # Root(T)
  BY DEF Ent, Root
<1>3. \A v \in Vpn : /\ ptr'[Ent("l1", T, L1(v))] = Null /\ ptr'[Ent("l0", T, L0(v))] = Null
  BY <1>1, <1>2, SlotFacts DEF OnlySlot
<1>4. \A v \in UserVpn : ptr'[Ent("leaf", T, v)] = ptr[Ent("leaf", T, v)]
  BY <1>2, SlotFacts DEF OnlySlot
<1>5. \A v \in Vpn : Mapped(T, v)' <=> Mapped(T, v)
  BY <1>4, VpnFacts DEF Mapped
<1>6. UserVpn \subseteq Vpn /\ Fixed \subseteq Vpn
  BY DEF Vpn
<1>7. \A v \in UserVpn : ptr[Ent("leaf", T, v)] = Null
  BY <1>1, <1>6, VpnFacts DEF Mapped
<1>8. \A v \in Fixed : alias[T][v] = Null
  BY <1>1, <1>6 DEF Mapped
<1> QED
  BY <1>1, <1>3, <1>4, <1>5, <1>7, <1>8 DEF Linked, Holds

\* freewalk() frees a table page after all pages below it.
LEMMA FreewalkLinked ==
    ASSUME NEW T \in Table, Linked(T), NEW s \in FreewalkNext(T),
           \A v \in Vpn : ~ Mapped(T, v), OnlySlot(s), ptr'[s] = Null, alias'[T] = alias[T]
    PROVE  Linked(T)'
<1>1. \A k, i : /\ Ent(k, T, i)[1] = k /\ Ent(k, T, i)[2] = T[1] /\ Ent(k, T, i)[3] = T[2]
                /\ Ent(k, T, i)[4] = i
  BY DEF Ent
<1>2. T = <<T[1], T[2]>>
  BY DEF Table
<1>3. \A k \in {"root", "l1", "l0"} : \A i : Ent(k, T, i) \in Slot /\ ptr[Ent(k, T, i)] # Null =>
         Ent(k, T, i) \in TablePages(T)
  BY <1>1, <1>2 DEF TablePages
<1>4. s \in Slot /\ \A r \in TablePages(T) \ {s} : ~ Above(s, r)
  BY DEF FreewalkNext, TablePages
<1>5. \A v \in Vpn : ~ Mapped(T, v)'
  BY <1>4, VpnFacts, SlotFacts DEF Mapped, OnlySlot
<1>6. ASSUME NEW v \in Vpn, ptr'[Ent("l0", T, L0(v))] # Null
      PROVE  ptr'[Ent("l1", T, L1(v))] # Null
  <2>1. Ent("l0", T, L0(v)) \in Slot /\ Ent("l1", T, L1(v)) \in Slot
    BY SlotFacts
  <2>2. Ent("l0", T, L0(v)) # s /\ ptr[Ent("l0", T, L0(v))] # Null
    BY <1>6, <2>1 DEF OnlySlot
  <2>3. ~ Above(s, Ent("l0", T, L0(v)))
    BY <1>3, <1>4, <2>1, <2>2
  <2>4. Ent("l1", T, L1(v)) # s
    BY <1>1, <2>3, LevelsAgree DEF Above
  <2>5. ptr[Ent("l1", T, L1(v))] # Null
    BY <2>2 DEF Linked
  <2> QED
    BY <2>1, <2>4, <2>5 DEF OnlySlot
<1>7. ASSUME NEW v \in Vpn, ptr'[Ent("l1", T, L1(v))] # Null
      PROVE  ptr'[Root(T)] # Null
  <2>1. Ent("l1", T, L1(v)) \in Slot /\ Root(T) \in Slot
    BY SlotFacts
  <2>2. Ent("l1", T, L1(v)) # s /\ ptr[Ent("l1", T, L1(v))] # Null
    BY <1>7, <2>1 DEF OnlySlot
  <2>3. ~ Above(s, Ent("l1", T, L1(v)))
    BY <1>3, <1>4, <2>1, <2>2
  <2>4. Root(T) # s
    BY <1>1, <2>3 DEF Above, Root
  <2>5. ptr[Root(T)] # Null
    BY <2>2 DEF Linked
  <2> QED
    BY <2>1, <2>4, <2>5 DEF OnlySlot
<1> QED
  BY <1>5, <1>6, <1>7 DEF Linked

\* PGROUNDUP: page v is below NPages(s) when its first byte is below s.
LEMMA NPagesFacts ==
    /\ \A s \in Nat, v \in Nat : v < NPages(s) <=> v * PGSIZE < s
    /\ \A k \in Nat : NPages(k * PGSIZE) = k
    /\ NPages(0) = 0 /\ NPages(PGSIZE) = 1
<1>1. PICK P \in Nat \ {0} : P = PGSIZE
  BY ConstantsAssumption
<1>2. \A x, y \in Int : x <= y => P * x <= P * y
  OBVIOUS
<1>3. ASSUME NEW s \in Nat, NEW v \in Nat PROVE v < NPages(s) <=> v * PGSIZE < s
  <2>1. PICK n \in Nat : n = NPages(s) /\ P * n <= s + P - 1 /\ s + P - 1 < P * n + P
    BY <1>1 DEF NPages
  <2>2. P * (v + 1) = P * v + P /\ v * P = P * v
    OBVIOUS
  <2>3. CASE n <= v
    <3>1. P * n <= P * v
      BY <1>2, <2>3
    <3> QED
      BY <1>1, <2>1, <2>2, <2>3, <3>1
  <2>4. CASE v + 1 <= n
    <3>1. P * (v + 1) <= P * n
      BY <1>2, <2>4
    <3> QED
      BY <1>1, <2>1, <2>2, <2>4, <3>1
  <2> QED
    BY <2>1, <2>3, <2>4
<1>4. ASSUME NEW k \in Nat PROVE NPages(k * PGSIZE) = k
  <2>1. PICK n \in Nat : n = NPages(k * P) /\ P * n <= P * k + P - 1 /\ P * k + P - 1 < P * n + P
    <3>1. P * k = k * P /\ k * P \in Nat
      OBVIOUS
    <3> QED
      BY <1>1, <3>1 DEF NPages
  <2>2. P * (n + 1) = P * n + P /\ P * (k + 1) = P * k + P
    OBVIOUS
  <2>3. CASE n <= k - 1
    <3>1. P * (n + 1) <= P * k
      BY <1>2, <2>3
    <3> QED
      BY <2>1, <2>2, <3>1
  <2>4. CASE k + 1 <= n
    <3>1. P * (k + 1) <= P * n
      BY <1>2, <2>4
    <3> QED
      BY <2>1, <2>2, <3>1
  <2>5. k * P = k * PGSIZE
    BY <1>1
  <2>6. CASE n = k
    BY ONLY <2>1, <2>5, <2>6
  <2>7. n <= k - 1 \/ n = k \/ k + 1 <= n
    OBVIOUS
  <2> QED
    BY ONLY <2>3, <2>4, <2>6, <2>7
<1>5. 0 * PGSIZE = 0 /\ 1 * PGSIZE = PGSIZE
  BY ConstantsAssumption
<1>6. NPages(0 * PGSIZE) = 0 /\ NPages(1 * PGSIZE) = 1
  BY <1>4
<1> QED
  BY <1>3, <1>4, <1>5, <1>6

LEMMA BootSlotsFinite == IsFiniteSet(BootSlots)
<1>1. \A a, b, c : IsFiniteSet({a, b, c})
  <2> TAKE a, b, c
  <2>1. IsFiniteSet({a} \cup {b})
    BY FS_Singleton, FS_AddElement
  <2>2. IsFiniteSet(({a} \cup {b}) \cup {c})
    BY <2>1, FS_AddElement
  <2>3. {a, b, c} = ({a} \cup {b}) \cup {c}
    OBVIOUS
  <2> QED
    BY <2>2, <2>3
<1>2. BootVpn = {TRAMPOLINE, TRAPFRAME, USYSCALL} \cup {0}
  BY DEF BootVpn, Fixed
<1> DEFINE A == {Var("trapframe", InitProc), Var("usyscall", InitProc), Var("mem", InitProc)}
           B(k, f(_)) == {Ent(k, BootTable, f(TRAMPOLINE)), Ent(k, BootTable, f(TRAPFRAME)),
                          Ent(k, BootTable, f(USYSCALL))}
           C == {Root(BootTable), Ent("leaf", BootTable, 0), Ent("l1", BootTable, L1(0))}
           D == {Ent("l0", BootTable, L0(0))}
<1>3. BootSlots = ((A \cup B("l1", L1)) \cup (B("l0", L0) \cup C)) \cup D
  <2>1. {Var(k, InitProc) : k \in {"trapframe", "usyscall", "mem"}} = A
    OBVIOUS
  <2>2. {Ent("l1", BootTable, L1(v)) : v \in BootVpn} = B("l1", L1) \cup {Ent("l1", BootTable, L1(0))}
    BY <1>2
  <2>3. {Ent("l0", BootTable, L0(v)) : v \in BootVpn} = B("l0", L0) \cup {Ent("l0", BootTable, L0(0))}
    BY <1>2
  <2> HIDE DEF A, B
  <2> QED
    BY <2>1, <2>2, <2>3 DEF BootSlots
<1>4. IsFiniteSet(A \cup B("l1", L1)) /\ IsFiniteSet(B("l0", L0) \cup C)
  BY <1>1, FS_Union
<1>5. IsFiniteSet((A \cup B("l1", L1)) \cup (B("l0", L0) \cup C))
  BY <1>4, FS_Union
<1> HIDE DEF A, B, C
<1> QED
  BY <1>3, <1>5, FS_AddElement

\* While userinit() runs, only its slots hold pages.
LEMMA BootHolds ==
    ASSUME IInv, ImgInv, op[InitProc].call = "userinit", NEW s \in Slot, ptr[s] # Null
    PROVE  s \in BootSlots
<1> DEFINE o == op[InitProc]
<1>1. InitProc \in Proc /\ Busy(InitProc) /\ (\A x \in Proc \ {InitProc} : state[x] = "UNUSED")
      /\ o.pc \in BootPc /\ BootWalks
  BY ConstantsAssumption DEF ImgInv, Boot, Busy, BootPc
<1>2. Worker(InitProc, o) /\ o.q = InitProc /\ o \in Op /\ Working(InitProc, o) /\ o.t = BootTable
  BY <1>1 DEF IInv, Workers, Worker, ImgInv, Works, Working, Bounds, TypeOK
<1>3. \A x \in Proc \ {InitProc} : op[x].pc = "user" /\ pagetable[x] = NoTable
  <2> TAKE x \in Proc \ {InitProc}
  <2>1. ~ Busy(x)
    BY <1>1 DEF IInv, Workers, Worker
  <2> QED
    BY <1>1, <2>1 DEF Busy, IInv, Vars
<1>4. pagetable[InitProc] \in {NoTable, BootTable}
  <2>1. TableOf(o, pagetable[InitProc]) /\ Cursor(o)
    BY <1>1, <1>2, InKernel DEF Busy
  <2> QED
    BY <1>1, <1>2, <2>1 DEF TableOf, Holding, InLoop, Fresh, BootPc, Working, Bounds, InFixed
<1>5. \A T \in Table : ptr[Root(T)] # Null => T = BootTable /\ o.pc \in Building
  <2> SUFFICES ASSUME NEW T \in Table, ptr[Root(T)] # Null PROVE T = BootTable /\ o.pc \in Building
    OBVIOUS
  <2>1. Rooted(T) /\ T[1] \in Proc /\ T # NoTable
    BY DEF IInv, Roots, Table, NoTable
  <2>2. T = BootTable
    BY <1>2, <1>3, <1>4, <2>1 DEF Rooted, Building
  <2>3. InitProc = T[1]
    BY <2>2 DEF BootTable
  <2>4. RootOf(o, T, pagetable[InitProc])
    BY <1>1, <1>2, <2>3, InKernel DEF Busy
  <2>5. TableOf(o, pagetable[InitProc])
    BY <1>1, <1>2, InKernel DEF Busy
  <2>6. o.pc \in {"trapframe", "usyscall", "root"} => pagetable[InitProc] = NoTable
    BY <1>2, <2>5 DEF TableOf, Fresh
  <2> QED
    BY <1>1, <2>1, <2>2, <2>4, <2>6 DEF RootOf, BootPc, Building
<1>6. CASE s[1] \in {"trapframe", "usyscall", "mem"}
  <2>1. s \in {"trapframe", "usyscall", "mem"} \X Proc \X {0} \X {0}
    BY <1>6 DEF Slot
  <2>2. PICK k \in {"trapframe", "usyscall", "mem"}, x \in Proc : s = Var(k, x)
    BY <2>1 DEF Var
  <2>3. x = InitProc
    BY <1>1, <1>3, <2>2 DEF IInv, Vars
  <2> QED
    BY <2>2, <2>3 DEF BootSlots
<1>7. CASE s[1] \in {"root", "l1", "l0", "leaf"}
  <2> DEFINE T == <<s[2], s[3]>>
  <2>1. T \in Table /\ T[1] = s[2] /\ T[2] = s[3]
    BY <1>7 DEF Slot, Table
  <2>2. Linked(T)
    BY <2>1 DEF ImgInv, Trees
  <2>3. CASE s[1] = "root"
    <3>1. s = Root(T)
      BY <2>1, <2>3 DEF Slot, Root, Ent
    <3>2. T = BootTable
      BY <1>5, <2>1, <3>1
    <3> QED
      BY <3>1, <3>2 DEF BootSlots
  <2>4. CASE s[1] = "l1"
    <3>1. PICK v \in Vpn : s = Ent("l1", T, L1(v))
      BY <2>1, <2>4 DEF Slot, Ent
    <3>2. T = BootTable
      BY <1>5, <2>1, <2>2, <3>1 DEF Linked
    <3>3. L1(v) \in {L1(w) : w \in BootVpn}
      BY <1>1, <3>1, <3>2 DEF BootWalks
    <3> QED
      BY <3>1, <3>2, <3>3 DEF BootSlots
  <2>5. CASE s[1] = "l0"
    <3>1. PICK v \in Vpn : s = Ent("l0", T, L0(v))
      BY <2>1, <2>5 DEF Slot, Ent
    <3>2. T = BootTable
      BY <1>5, <2>1, <2>2, <3>1 DEF Linked
    <3>3. L0(v) \in {L0(w) : w \in BootVpn}
      BY <1>1, <3>1, <3>2 DEF BootWalks
    <3> QED
      BY <3>1, <3>2, <3>3 DEF BootSlots
  <2>6. CASE s[1] = "leaf"
    <3>1. PICK v \in UserVpn : s = Ent("leaf", T, v)
      BY <2>1, <2>6 DEF Slot, Ent
    <3>2. v \in Vpn /\ Mapped(T, v)
      BY <3>1, VpnFacts DEF Mapped, Vpn
    <3>3. T = BootTable /\ o.pc \in Building
      BY <1>5, <2>1, <2>2, <3>2 DEF Linked
    <3>4. v \in UserPages(o)
      BY <1>2, <3>1, <3>3 DEF Working, Holds
    <3>5. v \in 0 .. 0
      <4>1. Cursor(o) /\ o.a \in Int /\ o.lim \in Int
        BY <1>1, <1>2, InKernel, VpnFacts DEF Busy, Op
      <4>2. CASE InLoop(o)
        <5>1. o.lim = 1 /\ o.a <= o.lim
          BY <1>2, <4>1, <4>2, NPagesFacts DEF Working, Bounds, Cursor
        <5>2. v \in 0 .. o.a - 1
          BY <3>4, <4>2 DEF UserPages, InLoop
        <5> QED
          BY <4>1, <5>1, <5>2
      <4>3. CASE o.pc = "setsz"
        <5>1. NPages(o.nsz) = 1
          BY <1>2, <4>3, NPagesFacts DEF Working, Bounds
        <5> QED
          BY <3>4, <4>3, <5>1 DEF UserPages, InLoop
      <4>4. CASE ~ InLoop(o) /\ o.pc # "setsz"
        BY <1>1, <3>4, <4>4 DEF UserPages, BootPc
      <4> QED
        BY <4>2, <4>3, <4>4
    <3> QED
      BY <3>1, <3>3, <3>5 DEF BootSlots
  <2> QED
    BY <1>7, <2>3, <2>4, <2>5, <2>6
<1>8. s[1] \in {"trapframe", "usyscall", "mem"} \cup {"root", "l1", "l0", "leaf"}
  BY DEF Slot
<1> QED
  BY <1>6, <1>7, <1>8

\* userinit() has memory enough for each of its slots.
LEMMA BootMemory ==
    ASSUME IInv, ImgInv, op[InitProc].call = "userinit", NEW s \in BootSlots, ptr[s] = Null
    PROVE  ~ OutOfMemory
<1> SUFFICES ASSUME OutOfMemory PROVE FALSE
  OBVIOUS
<1> DEFINE B == BootSlots \ {s}
<1>1. \A pg \in Page : \E r \in Slot : ptr[r] = pg
  BY DEF OutOfMemory, FreePages, IInv, TypeOK, Own
<1>2. \A pg \in Page : \E r \in B : ptr[r] = pg
  BY <1>1, BootHolds, ConstantsAssumption
<1> DEFINE f == [pg \in Page |-> CHOOSE r \in B : ptr[r] = pg]
<1>3. \A pg \in Page : f[pg] \in B /\ ptr[f[pg]] = pg
  BY <1>2
<1>4. f \in Injection(Page, B)
  BY <1>3 DEF Injection, IsInjective
<1>5. IsFiniteSet(B) /\ Cardinality(B) = Cardinality(BootSlots) - 1 /\ Cardinality(BootSlots) \in Nat
  BY BootSlotsFinite, FS_RemoveElement, FS_CardinalityType
<1>6. Cardinality(Page) <= Cardinality(B) /\ Cardinality(Page) \in Nat
  BY <1>4, <1>5, FS_Injection, FS_CardinalityType, MemoryAssumption
<1> QED
  BY <1>5, <1>6, MemoryAssumption

\* What the two invariants say about call o of p, which works on table t of q.
Doing(p, o, q, t) ==
    /\ Busy(p) /\ op \in [Proc -> Op] /\ o = op[p] /\ q = o.q /\ t = o.t /\ t[1] = q
    /\ Cursor(o) /\ Worker(p, o) /\ Working(p, o) /\ TableOf(o, pagetable[q])
    /\ Nulls(o, ptr[Var("trapframe", q)], ptr[Var("usyscall", q)])
    /\ ptr[Var("mem", p)] # Null <=> o.pc \in {"map", "mapfail"} /\ o.a \notin Fixed
    /\ \A T \in Table : Linked(T)
    /\ \A T \in Table : T[1] = q /\ ptr[Root(T)] # Null => RootOf(o, T, pagetable[q])
    /\ o.call \in {"exec", "sbrk"} => q = p
    /\ o.call \in {"exec", "sbrk"} => state[q] = "RUNNABLE" /\ pagetable[q] # NoTable
    /\ o.call = "userinit" => /\ p = InitProc /\ q = InitProc /\ t = BootTable
                              /\ o.pc \in BootPc /\ BootWalks

LEMMA AtWork ==
    ASSUME IInv, ImgInv, NEW p \in Proc, op[p].pc # "user"
    PROVE  \E o \in Op, q \in Proc, t \in Table : Doing(p, o, q, t)
<1>1. PICK o \in Op, q \in Proc, t \in Table : o = op[p] /\ q = o.q /\ t = o.t
  BY InKernel
<1>2. Busy(p) /\ Worker(p, o) /\ Working(p, o)
  BY <1>1, InKernel DEF Busy, ImgInv, Works
<1>3. \A T \in Table : Linked(T)
  BY DEF ImgInv, Trees
<1>4. o.call = "userinit" => p = InitProc /\ q = InitProc /\ t = BootTable
  BY <1>1, <1>2 DEF Worker, Working, Bounds
<1>5. o.call = "userinit" => o.pc \in BootPc /\ BootWalks
  BY <1>1, <1>4 DEF ImgInv, Boot
<1>6. o.call \in {"exec", "sbrk"} => q = p /\ state[q] = "RUNNABLE"
  BY <1>1, <1>2 DEF Worker
<1>7. o.call \in {"exec", "sbrk"} => pagetable[q] # NoTable
  BY <1>6 DEF IInv, Tables
<1> QED
  BY <1>1, <1>2, <1>3, <1>4, <1>5, <1>6, <1>7, InKernel DEF Doing

\* A step that leaves the memory alone.
LEMMA StillLinked ==
    ASSUME IInv, ImgInv, UNCHANGED <<ptr, alias>>
    PROVE  /\ \A T \in Table : Linked(T)'
           /\ BootWalks => BootWalks'
<1>1. \A T \in Table : TableSame(T)
  BY DEF TableSame
<1> QED
  BY <1>1, SameLinked DEF ImgInv, Trees, BootWalks

\* A step that changes no table.
LEMMA StillTables ==
    ASSUME ImgInv, \A T \in Table : TableSame(T)
    PROVE  /\ \A T \in Table : Linked(T)'
           /\ BootWalks => BootWalks'
<1>1. BootTable \in Table
  BY ConstantsAssumption DEF BootTable, Table
<1> QED
  BY <1>1, SameLinked DEF ImgInv, Trees, BootWalks, TableSame

\* A call that fails or ends where nothing is left to undo.
LEMMA StillResting ==
    ASSUME IInv, NEW q \in Proc, UNCHANGED <<state, pid, sz, pagetable, ptr, alias, upid>>,
           state[q] \in {"RUNNABLE", "ZOMBIE"}, HasVars(q), Complete(q), Stamped(q)
    PROVE  Resting(q)'
<1>1. pagetable[q] # NoTable /\ TableSame(pagetable[q])
  BY DEF IInv, Tables, TableSame
<1>2. Complete(q)'
  BY <1>1, KeepComplete
<1> QED
  BY <1>2 DEF Resting, HasVars, Stamped

\* The pid stays in the usyscall page when another slot changes.
LEMMA KeepStamped ==
    ASSUME NEW q \in Proc, NEW s, OnlySlot(s), Stamps(s), s # Var("usyscall", q),
           ptr[Var("usyscall", q)] # Null, pid'[q] = pid[q], Stamped(q)
    PROVE  Stamped(q)'
<1>1. Var("usyscall", q) \in Slot
  BY SlotFacts
<1>2. ptr'[Var("usyscall", q)] = ptr[Var("usyscall", q)]
  BY <1>1 DEF OnlySlot
<1>3. upid'[ptr[Var("usyscall", q)]] = upid[ptr[Var("usyscall", q)]]
  BY <1>1 DEF Stamps
<1> QED
  BY <1>2, <1>3 DEF Stamped

LEMMA AllocTrapframeImage ==
    ASSUME IInv, TypeOK', ImgInv, NEW p \in Proc, AllocTrapframe(p)
    PROVE  ImgInv'
<1>1. op[p].pc = "trapframe" /\ UNCHANGED <<procVars, alias, panicked>>
  BY DEF AllocTrapframe, At
<1>2. PICK o \in Op, q \in Proc, t \in Table : Doing(p, o, q, t)
  BY <1>1, AtWork
<1> DEFINE s == Var("trapframe", q)
<1>3. o.pc = "trapframe" /\ q = o.q /\ o = op[p] /\ pagetable[q] = NoTable /\ ptr[s] = Null
  BY <1>1, <1>2 DEF Doing, TableOf, Nulls
<1>4. s \in Slot /\ s[1] = "trapframe" /\ s[2] = q
  BY SlotFacts DEF Var
<1>5. CASE OutOfMemory
  <2>1. UNCHANGED memVars /\ op' = [op EXCEPT ![p] = [o EXCEPT !.pc = "fptf"]]
    BY <1>3, <1>5 DEF AllocTrapframe, Goto
  <2>2. op'[p] = [o EXCEPT !.pc = "fptf"] /\ \A r \in Proc \ {p} : op'[r] = op[r]
    BY <1>2, <2>1 DEF Doing
  <2>3. op'[p].pc = "fptf" /\ op'[p].q = q /\ op'[p].call = o.call /\ op'[p].t = o.t
    BY <1>3, <2>2 DEF Op
  <2>4. o.call # "userinit"
    <3>1. q = InitProc => s \in BootSlots
      BY DEF BootSlots
    <3> QED
      BY <1>2, <1>3, <1>5, <3>1, BootMemory DEF Doing
  <2>5. Working(p, op[p])'
    BY <1>1, <1>2, <1>3, <2>3, <2>4
    DEF Doing, Working, Bounds, InFixed, InLoop, Building, Freeing, Gone, Cursor, procVars
  <2>6. OnlyFor(q)
    BY <1>1, <2>1, NoSlotOnlyFor DEF procVars, memVars
  <2>7. \A T \in Table : Linked(T)'
    BY <1>1, <2>1, StillLinked DEF memVars
  <2> QED
    BY <1>1, <1>2, <1>3, <2>2, <2>3, <2>4, <2>5, <2>6, <2>7, KernelImage DEF Doing, procVars
<1>6. CASE ~ OutOfMemory
  <2>1. Kalloc(s) /\ op' = [op EXCEPT ![p] = [o EXCEPT !.pc = "usyscall"]]
    BY <1>3, <1>6 DEF AllocTrapframe, Goto
  <2>2. op'[p] = [o EXCEPT !.pc = "usyscall"] /\ \A r \in Proc \ {p} : op'[r] = op[r]
    BY <1>2, <2>1 DEF Doing
  <2>3. /\ op'[p].pc = "usyscall" /\ op'[p].q = q /\ op'[p].call = o.call /\ op'[p].t = o.t
        /\ op'[p].base = o.base /\ op'[p].sz = o.sz
    BY <1>3, <2>2 DEF Op
  <2>4. OnlySlot(s) /\ Stamps(s) /\ ptr'[s] # Null
    BY <1>3, <1>4, <1>6, <2>1, KallocOwn, KallocStamps, ConstantsAssumption DEF IInv, OnlySlot
  <2>5. Working(p, op[p])'
    BY <1>1, <1>2, <1>3, <2>3, <2>4
    DEF Doing, Working, Bounds, InFixed, InLoop, Building, Freeing, Gone, Cursor, procVars
  <2>6. OnlyFor(q)
    BY <1>1, <1>4, <2>4, OneSlotOnlyFor DEF procVars
  <2>7. (\A T \in Table : Linked(T)') /\ (BootWalks => BootWalks')
    BY <1>1, <1>4, <2>4, VarSlotFrame, StillTables
  <2> QED
    BY <1>1, <1>2, <1>3, <2>2, <2>3, <2>5, <2>6, <2>7, KernelImage DEF Doing, procVars, BootPc
<1> QED
  BY <1>5, <1>6

LEMMA AllocUsyscallImage ==
    ASSUME IInv, TypeOK', ImgInv, NEW p \in Proc, AllocUsyscall(p)
    PROVE  ImgInv'
<1>1. op[p].pc = "usyscall" /\ UNCHANGED <<procVars, alias, panicked>>
  BY DEF AllocUsyscall, At
<1>2. PICK o \in Op, q \in Proc, t \in Table : Doing(p, o, q, t)
  BY <1>1, AtWork
<1> DEFINE s == Var("usyscall", q)
<1>3. o.pc = "usyscall" /\ q = o.q /\ o = op[p] /\ pagetable[q] = NoTable /\ ptr[s] = Null
  BY <1>1, <1>2 DEF Doing, TableOf, Nulls
<1>4. s \in Slot /\ s[1] = "usyscall" /\ s[2] = q /\ Var("trapframe", q) \in Slot \ {s}
  BY SlotFacts, SlotsDiffer DEF Var
<1>5. CASE OutOfMemory
  <2>1. UNCHANGED memVars /\ op' = [op EXCEPT ![p] = [o EXCEPT !.pc = "fptf"]]
    BY <1>3, <1>5 DEF AllocUsyscall, Goto
  <2>2. op'[p] = [o EXCEPT !.pc = "fptf"] /\ \A r \in Proc \ {p} : op'[r] = op[r]
    BY <1>2, <2>1 DEF Doing
  <2>3. op'[p].pc = "fptf" /\ op'[p].q = q /\ op'[p].call = o.call /\ op'[p].t = o.t
    BY <1>3, <2>2 DEF Op
  <2>4. o.call # "userinit"
    <3>1. q = InitProc => s \in BootSlots
      BY DEF BootSlots
    <3> QED
      BY <1>2, <1>3, <1>5, <3>1, BootMemory DEF Doing
  <2>5. Working(p, op[p])'
    BY <1>1, <1>2, <1>3, <2>3, <2>4
    DEF Doing, Working, Bounds, InFixed, InLoop, Building, Freeing, Gone, Cursor, procVars
  <2>6. OnlyFor(q)
    BY <1>1, <2>1, NoSlotOnlyFor DEF procVars, memVars
  <2>7. \A T \in Table : Linked(T)'
    BY <1>1, <2>1, StillLinked DEF memVars
  <2> QED
    BY <1>1, <1>2, <1>3, <2>2, <2>3, <2>4, <2>5, <2>6, <2>7, KernelImage DEF Doing, procVars
<1>6. CASE ~ OutOfMemory
  <2>1. Kalloc(s) /\ op' = [op EXCEPT ![p] = [o EXCEPT !.pc = "root"]]
    BY <1>3, <1>6 DEF AllocUsyscall, Goto
  <2>2. op'[p] = [o EXCEPT !.pc = "root"] /\ \A r \in Proc \ {p} : op'[r] = op[r]
    BY <1>2, <2>1 DEF Doing
  <2>3. /\ op'[p].pc = "root" /\ op'[p].q = q /\ op'[p].call = o.call /\ op'[p].t = o.t
        /\ op'[p].base = o.base /\ op'[p].sz = o.sz
    BY <1>3, <2>2 DEF Op
  <2>4. OnlySlot(s) /\ Stamps(s) /\ ptr'[s] # Null
    BY <1>3, <1>4, <1>6, <2>1, KallocOwn, KallocStamps, ConstantsAssumption DEF IInv, OnlySlot
  <2>5. Working(p, op[p])'
    <3>1. ptr'[Var("trapframe", q)] # Null
      BY <1>2, <1>3, <1>4, <2>4 DEF Doing, Working, Freeing, Gone, OnlySlot
    <3> QED
      BY <1>1, <1>2, <1>3, <2>3, <2>4, <3>1
      DEF Doing, Working, Bounds, InFixed, InLoop, Building, Freeing, Gone, Cursor, procVars
  <2>6. OnlyFor(q)
    BY <1>1, <1>4, <2>4, OneSlotOnlyFor DEF procVars
  <2>7. (\A T \in Table : Linked(T)') /\ (BootWalks => BootWalks')
    BY <1>1, <1>4, <2>4, VarSlotFrame, StillTables
  <2> QED
    BY <1>1, <1>2, <1>3, <2>2, <2>3, <2>5, <2>6, <2>7, KernelImage DEF Doing, procVars, BootPc
<1> QED
  BY <1>5, <1>6

LEMMA UvmCreateImage ==
    ASSUME IInv, TypeOK', ImgInv, NEW p \in Proc, UvmCreate(p)
    PROVE  ImgInv'
<1>1. op[p].pc = "root" /\ UNCHANGED <<procVars, alias, panicked>>
  BY DEF UvmCreate, At
<1>2. PICK o \in Op, q \in Proc, t \in Table : Doing(p, o, q, t)
  BY <1>1, AtWork
<1> DEFINE s == Root(t)
<1>3. /\ o.pc = "root" /\ q = o.q /\ o = op[p] /\ t = o.t /\ t[1] = q /\ pagetable[q] # t
      /\ o.call # "exec" => pagetable[q] = NoTable
      /\ Linked(t) /\ o.call \in {"userinit", "fork", "exec"}
      /\ o.call = "exec" => state[q] = "RUNNABLE" /\ pagetable[q] # NoTable
  BY <1>1, <1>2 DEF Doing, TableOf, Fresh, Cursor
<1>4. s \in Slot /\ s[1] = "root" /\ s[2] = t[1] /\ s[3] = t[2]
  BY SlotFacts DEF Root, Ent
<1>5. ptr[s] = Null
  BY <1>2, <1>3 DEF Doing, RootOf, Building
<1>6. /\ ptr[Var("trapframe", q)] # Null /\ ptr[Var("usyscall", q)] # Null
      /\ o.base = 0 /\ o.sz = 0 /\ (pagetable[q] # NoTable => Stamped(q))
      /\ (o.call = "exec" => Complete(q))
  BY <1>2, <1>3 DEF Doing, Working, Freeing, Gone, Bounds
<1>7. CASE OutOfMemory /\ o.call = "exec"
  <2>1. UNCHANGED memVars /\ op' = [op EXCEPT ![p] = Idle]
    BY <1>3, <1>7 DEF UvmCreate, Goto, NoTableThen
  <2>2. op'[p].pc = "user" /\ op'[p].call = "none" /\ \A r \in Proc \ {p} : op'[r] = op[r]
    BY <1>2, <2>1 DEF Doing, Idle
  <2>3. UNCHANGED <<state, pid, sz, pagetable, ptr, alias, upid>>
    BY <1>1, <2>1 DEF procVars, memVars
  <2>4. Resting(q)'
    BY <1>3, <1>6, <1>7, <2>3, StillResting DEF HasVars
  <2>5. OnlyFor(q)
    BY <2>3, NoSlotOnlyFor
  <2>6. \A T \in Table : Linked(T)'
    BY <2>3, StillLinked
  <2> QED
    BY <1>1, <1>2, <1>3, <1>7, <2>2, <2>4, <2>5, <2>6, KernelImage DEF Doing, procVars
<1>8. CASE OutOfMemory /\ o.call # "exec"
  <2>1. UNCHANGED memVars /\ op' = [op EXCEPT ![p] = [o EXCEPT !.pc = "fptf"]]
    BY <1>3, <1>8 DEF UvmCreate, Goto, NoTableThen
  <2>2. op'[p] = [o EXCEPT !.pc = "fptf"] /\ \A r \in Proc \ {p} : op'[r] = op[r]
    BY <1>2, <2>1 DEF Doing
  <2>3. op'[p].pc = "fptf" /\ op'[p].q = q /\ op'[p].call = o.call /\ op'[p].t = o.t
    BY <1>3, <2>2 DEF Op
  <2>4. o.call # "userinit"
    <3>1. t = BootTable => s \in BootSlots
      BY DEF BootSlots
    <3> QED
      BY <1>2, <1>3, <1>5, <1>8, <3>1, BootMemory DEF Doing
  <2>5. Working(p, op[p])'
    BY <1>1, <1>2, <1>3, <1>8, <2>3, <2>4
    DEF Doing, Working, Bounds, InFixed, InLoop, Building, Freeing, Gone, Cursor, procVars
  <2>6. OnlyFor(q)
    BY <1>1, <2>1, NoSlotOnlyFor DEF procVars, memVars
  <2>7. \A T \in Table : Linked(T)'
    BY <1>1, <2>1, StillLinked DEF memVars
  <2> QED
    BY <1>1, <1>2, <1>3, <2>2, <2>3, <2>4, <2>5, <2>6, <2>7, KernelImage DEF Doing, procVars
<1>9. CASE ~ OutOfMemory
  <2>1. Kalloc(s) /\ op' = [op EXCEPT ![p] = [o EXCEPT !.pc = "map", !.a = TRAMPOLINE]]
    BY <1>3, <1>9 DEF UvmCreate, Enter
  <2>2. op'[p] = [o EXCEPT !.pc = "map", !.a = TRAMPOLINE] /\ \A r \in Proc \ {p} : op'[r] = op[r]
    BY <1>2, <2>1 DEF Doing
  <2>3. /\ op'[p].pc = "map" /\ op'[p].q = q /\ op'[p].call = o.call /\ op'[p].t = t
        /\ op'[p].base = o.base /\ op'[p].sz = o.sz /\ op'[p].a = TRAMPOLINE
    BY <1>3, <2>2 DEF Op
  <2>4. OnlySlot(s) /\ Stamps(s) /\ ptr'[s] # Null
    BY <1>4, <1>5, <1>9, <2>1, KallocOwn, KallocStamps, ConstantsAssumption DEF IInv, OnlySlot
  <2>5. /\ \A T \in Table : T # t => TableSame(T)
        /\ ptr'[Var("trapframe", q)] = ptr[Var("trapframe", q)]
        /\ ptr'[Var("usyscall", q)] = ptr[Var("usyscall", q)]
    BY <1>1, <1>4, <2>4, TableSlotFrame
  <2>6. /\ Linked(t)' /\ Holds(t, {})' /\ \A v \in Fixed : alias[t][v] = Null
    BY <1>1, <1>3, <1>5, <2>4, RootLinked
  <2>7. Working(p, op[p])'
    <3>1. TRAMPOLINE \in Fixed /\ \A v \in Fixed : ~ v > TRAMPOLINE
      BY VpnFacts DEF Fixed
    <3>2. UserPages(op[p])' = {} /\ FixedPages(op[p])' = {}
      BY <2>3, <3>1 DEF UserPages, FixedPages, InFixed, InLoop
    <3>3. Holds(op[p].t, UserPages(op[p]))' /\ Points(op[p].t, FixedPages(op[p]))'
      BY <1>1, <2>3, <2>6, <3>2 DEF Holds, Points
    <3>4. o.call = "exec" => Complete(q)'
      <4> SUFFICES ASSUME o.call = "exec" PROVE Complete(q)'
        OBVIOUS
      <4>1. TableSame(pagetable[q])
        BY <1>3, <2>5, OwnTable
      <4> QED
        BY <1>1, <1>3, <1>6, <2>5, <4>1, KeepComplete DEF procVars
    <3>5. pagetable[q] # NoTable => Stamped(q)'
      BY <1>1, <1>6, <2>4, SlotsDiffer, KeepStamped DEF procVars
    <3>6. Bounds(p, op[p])'
      BY <1>1, <1>2, <1>3, <1>6, <2>3, <3>1 DEF Doing, Working, Bounds, InFixed, InLoop, procVars
    <3> QED
      BY <1>1, <1>6, <2>3, <2>5, <3>3, <3>4, <3>5, <3>6 DEF Working, Freeing, Gone, procVars
  <2>8. OnlyFor(q)
    BY <1>1, <1>3, <1>4, <2>4, OneSlotOnlyFor DEF procVars
  <2>9. \A T \in Table : Linked(T)'
    BY <1>2, <2>5, <2>6, SameLinked DEF Doing
  <2>10. BootWalks => BootWalks'
    <3>1. \A k \in {"l1", "l0"} : \A i : Ent(k, BootTable, i) # s
      BY DEF Root, Ent
    <3>2. BootTable \in Table
      BY ConstantsAssumption DEF BootTable, Table
    <3> QED
      BY <2>4, <3>1, <3>2, SlotFacts DEF BootWalks, OnlySlot
  <2> QED
    BY <1>1, <1>2, <1>3, <2>2, <2>3, <2>7, <2>8, <2>9, <2>10, KernelImage
    DEF Doing, procVars, BootPc
<1> QED
  BY <1>7, <1>8, <1>9

\* A step that changes one slot of the table a call works on.
LEMMA TableStep ==
    ASSUME IInv, NEW p \in Proc, NEW o \in Op, NEW q \in Proc, NEW t \in Table, Doing(p, o, q, t),
           NEW s \in Slot, s[1] \in {"root", "l1", "l0", "leaf"}, s[2] = t[1], s[3] = t[2],
           OnlySlot(s), Stamps(s), UNCHANGED <<procVars, alias>>
    PROVE  /\ OnlyFor(q)
           /\ \A T \in Table : T # t => TableSame(T) /\ Linked(T)'
           /\ ptr'[Var("trapframe", q)] = ptr[Var("trapframe", q)]
           /\ ptr'[Var("usyscall", q)] = ptr[Var("usyscall", q)]
           /\ o.call = "exec" => Complete(q)'
           /\ ptr[Var("usyscall", q)] # Null /\ Stamped(q) => Stamped(q)'
           /\ \A F : Points(t, F) => Points(t, F)'
           /\ ptr'[s] = Null \/ s[1] \in {"root", "leaf"} => (BootWalks => BootWalks')
<1>1. q = t[1] /\ q = o.q /\ t = o.t
  BY DEF Doing
<1>2. OnlyFor(q)
  BY <1>1, OneSlotOnlyFor DEF procVars
<1>3. /\ \A T \in Table : T # t => TableSame(T)
      /\ ptr'[Var("trapframe", q)] = ptr[Var("trapframe", q)]
      /\ ptr'[Var("usyscall", q)] = ptr[Var("usyscall", q)]
  BY TableSlotFrame
<1>4. \A T \in Table : T # t => Linked(T)'
  BY <1>3, SameLinked DEF Doing
<1>5. ASSUME o.call = "exec" PROVE Complete(q)'
  <2>1. pagetable[q] # t /\ pagetable[q] # NoTable /\ Complete(q)
    BY <1>1, <1>5 DEF Doing, Working, Bounds
  <2>2. TableSame(pagetable[q])
    BY <1>3, <2>1, OwnTable
  <2> QED
    BY <1>3, <2>1, <2>2, KeepComplete DEF procVars
<1>6. ptr[Var("usyscall", q)] # Null /\ Stamped(q) => Stamped(q)'
  <2>1. s # Var("usyscall", q)
    BY DEF Var
  <2> QED
    BY <2>1, KeepStamped DEF procVars
<1>7. ASSUME NEW F, Points(t, F) PROVE Points(t, F)'
  <2>1. \A v \in Fixed : Expect(q, v)' = Expect(q, v)
    BY <1>3 DEF Expect, Fixed
  <2> QED
    BY <1>1, <1>7, <2>1 DEF Points
<1>8. ptr'[s] = Null \/ s[1] \in {"root", "leaf"} => (BootWalks => BootWalks')
  <2>1. \A k \in {"l1", "l0"} : \A i : Ent(k, BootTable, i)[1] = k
    BY DEF Ent
  <2>2. BootTable \in Table
    BY ConstantsAssumption DEF BootTable, Table
  <2>3. \A v \in Vpn, k \in {"l1", "l0"} : \A i :
          s = Ent(k, BootTable, i) => s[1] \notin {"root", "leaf"}
    BY <2>1
  <2> QED
    BY <2>2, <2>3, SlotFacts DEF BootWalks, OnlySlot
<1> QED
  BY <1>2, <1>3, <1>4, <1>5, <1>6, <1>7, <1>8

\* What is there while mappages() runs.
LEMMA Mapping ==
    ASSUME IInv, NEW p \in Proc, NEW o \in Op, NEW q \in Proc, NEW t \in Table, Doing(p, o, q, t),
           o.pc \in {"map", "mapfail", "alloc"}
    PROVE  /\ ptr[Root(t)] # Null
           /\ ptr[Var("trapframe", q)] # Null /\ ptr[Var("usyscall", q)] # Null
           /\ pagetable[q] # NoTable => Stamped(q)
           /\ o.call = "exec" => Complete(q)
           /\ Holds(t, UserPages(o)) /\ Points(t, FixedPages(o))
           /\ o.pc # "alloc" => o.a \in Vpn
           /\ o.a \in Fixed \/ InLoop(o)
           /\ o.call = "userinit" => o.pc # "mapfail" /\ (InLoop(o) => o.lim = 1)
<1>1. q = o.q /\ t = o.t /\ o = op[p] /\ Cursor(o) /\ Working(p, o)
      /\ (o.call = "userinit" => o.pc \in BootPc)
  BY DEF Doing
<1>2. /\ ptr[Var("trapframe", q)] # Null /\ ptr[Var("usyscall", q)] # Null
      /\ (pagetable[q] # NoTable => Stamped(q)) /\ (o.call = "exec" => Complete(q))
      /\ Holds(t, UserPages(o)) /\ Points(t, FixedPages(o))
  BY <1>1 DEF Working, Freeing, Gone, Building
<1>3. (o.pc # "alloc" => o.a \in Vpn) /\ (o.a \in Fixed \/ InLoop(o))
  BY <1>1 DEF Cursor, InLoop
<1>4. o.call = "userinit" => o.pc # "mapfail" /\ (InLoop(o) => o.lim = 1)
  BY <1>1, NPagesFacts DEF Working, Bounds, BootPc
<1> QED
  BY <1>2, <1>3, <1>4 DEF Holds

LEMMA WalkAllocImage ==
    ASSUME IInv, TypeOK', ImgInv, NEW p \in Proc, WalkAlloc(p)
    PROVE  ImgInv'
<1>1. op[p].pc = "map" /\ UNCHANGED <<procVars, alias, panicked>>
  BY DEF WalkAlloc, At
<1>2. PICK o \in Op, q \in Proc, t \in Table : Doing(p, o, q, t)
  BY <1>1, AtWork
<1> DEFINE l1 == Ent("l1", t, L1(o.a))
           l0 == Ent("l0", t, L0(o.a))
<1>3. /\ o.pc = "map" /\ q = o.q /\ o = op[p] /\ t = o.t /\ t[1] = q /\ Linked(t)
      /\ op \in [Proc -> Op] /\ Busy(p)
  BY <1>1, <1>2 DEF Doing
<1>4. PICK s : s = IF ptr[l1] = Null THEN l1 ELSE l0
  OBVIOUS
<1>5. /\ ptr[Root(t)] # Null /\ ptr[Var("trapframe", q)] # Null /\ ptr[Var("usyscall", q)] # Null
      /\ (pagetable[q] # NoTable => Stamped(q)) /\ (o.call = "exec" => Complete(q))
      /\ Holds(t, UserPages(o)) /\ Points(t, FixedPages(o)) /\ o.a \in Vpn
      /\ (o.call = "userinit" => o.a \in BootVpn)
  <2>1. o.call = "userinit" => o.a \in BootVpn
    <3>1. (o.a \in Fixed \/ InLoop(o)) /\ (o.call = "userinit" => (InLoop(o) => o.lim = 1))
      BY <1>2, <1>3, Mapping
    <3>2. InLoop(o) => o.a < o.lim
      BY <1>2, <1>3 DEF Doing, Cursor
    <3>3. o.a \in Nat
      BY VpnFacts DEF Op
    <3> QED
      BY <3>1, <3>2, <3>3 DEF BootVpn
  <2> QED
    BY <1>2, <1>3, <2>1, Mapping
<1>6. s \in Slot /\ s[1] \in {"l1", "l0"} /\ s[2] = t[1] /\ s[3] = t[2] /\ ptr[s] = Null
  <2>1. ptr[s] = Null
    BY <1>3, <1>4 DEF WalkAlloc
  <2> QED
    BY <1>4, <1>5, <2>1, SlotFacts DEF Ent
<1>7. o.call = "userinit" => s \in BootSlots /\ s[4] \in (IF s[1] = "l1" THEN {L1(v) : v \in BootVpn}
                                                                       ELSE {L0(v) : v \in BootVpn})
  BY <1>2, <1>4, <1>5 DEF BootSlots, Doing, Ent
<1>8. CASE OutOfMemory
  <2>1. UNCHANGED memVars /\ op' = [op EXCEPT ![p] = [o EXCEPT !.pc = "mapfail"]]
    BY <1>3, <1>8 DEF WalkAlloc, Goto
  <2>2. op'[p] = [o EXCEPT !.pc = "mapfail"] /\ \A r \in Proc \ {p} : op'[r] = op[r]
    BY <1>3, <2>1
  <2>3. /\ op'[p].pc = "mapfail" /\ op'[p].q = q /\ op'[p].call = o.call /\ op'[p].t = t
        /\ op'[p].base = o.base /\ op'[p].sz = o.sz /\ op'[p].a = o.a /\ op'[p].lim = o.lim
        /\ op'[p].nsz = o.nsz /\ op'[p].then = o.then
    BY <1>3, <2>2 DEF Op
  <2>4. o.call # "userinit"
    BY <1>2, <1>6, <1>7, <1>8, BootMemory DEF Doing
  <2>5. Working(p, op[p])'
    <3>1. PICK U, F : U = UserPages(o) /\ F = FixedPages(o)
      OBVIOUS
    <3>2. UserPages(op[p])' = U /\ FixedPages(op[p])' = F
      BY <1>3, <2>3, <3>1 DEF UserPages, FixedPages, InFixed, InLoop
    <3>3. Holds(op[p].t, UserPages(op[p]))' /\ Points(op[p].t, FixedPages(op[p]))'
      <4>1. Holds(t, U)' /\ Points(t, F)'
        BY <1>1, <1>5, <2>1, <3>1, SameHolds, SamePoints DEF TableSame, memVars
      <4> QED
        BY <2>3, <3>2, <4>1 DEF Holds, Points
    <3>4. (o.call = "exec" => Complete(q)') /\ (pagetable[q] # NoTable => Stamped(q)')
      BY <1>1, <1>5, <2>1 DEF Complete, Stamped, Holds, Points, Expect, memVars, procVars
    <3>5. Bounds(p, op[p])'
      BY <1>1, <1>2, <1>3, <2>3 DEF Doing, Working, Bounds, Began, InFixed, InLoop, procVars
    <3> QED
      BY <1>1, <1>5, <2>1, <2>3, <3>3, <3>4, <3>5 DEF Working, Freeing, Gone, procVars, memVars
  <2>6. OnlyFor(q)
    BY <1>1, <2>1, NoSlotOnlyFor DEF procVars, memVars
  <2>7. \A T \in Table : Linked(T)'
    BY <1>1, <2>1, StillLinked DEF memVars
  <2> QED
    BY <1>1, <1>3, <2>2, <2>3, <2>4, <2>5, <2>6, <2>7, KernelImage DEF procVars
<1>9. CASE ~ OutOfMemory
  <2>1. Kalloc(s) /\ op' = op
    BY <1>3, <1>4, <1>9 DEF WalkAlloc
  <2>2. op'[p] = o /\ \A r \in Proc \ {p} : op'[r] = op[r]
    BY <1>3, <2>1
  <2>3. OnlySlot(s) /\ Stamps(s) /\ ptr'[s] # Null
    BY <1>6, <1>9, <2>1, KallocOwn, KallocStamps, ConstantsAssumption DEF IInv, OnlySlot
  <2>4. /\ OnlyFor(q) /\ \A T \in Table : T # t => Linked(T)'
        /\ ptr'[Var("trapframe", q)] = ptr[Var("trapframe", q)]
        /\ ptr'[Var("usyscall", q)] = ptr[Var("usyscall", q)]
        /\ (o.call = "exec" => Complete(q)') /\ (pagetable[q] # NoTable => Stamped(q)')
        /\ \A F : Points(t, F) => Points(t, F)'
    BY <1>1, <1>2, <1>5, <1>6, <2>3, TableStep
  <2>5. Linked(t)'
    BY <1>1, <1>3, <1>4, <1>5, <1>6, <2>3, WalkLinked
  <2>6. Working(p, op[p])'
    <3>1. PICK U, F : U = UserPages(o) /\ F = FixedPages(o)
      OBVIOUS
    <3>2. UserPages(op[p])' = U /\ FixedPages(op[p])' = F
      BY <2>2, <3>1 DEF UserPages, FixedPages, InFixed, InLoop
    <3>3. \A k, i : k \in {"root", "leaf"} => Ent(k, t, i) # s
      BY <1>6 DEF Ent
    <3>4. Holds(t, U)'
      <4>1. ptr'[Root(t)] = ptr[Root(t)]
        BY <2>3, <3>3, SlotFacts DEF OnlySlot, Root
      <4>2. \A v \in UserVpn : ptr'[Ent("leaf", t, v)] = ptr[Ent("leaf", t, v)]
        BY <2>3, <3>3, SlotFacts DEF OnlySlot
      <4> QED
        BY <1>5, <3>1, <4>1, <4>2 DEF Holds
    <3>5. Points(t, F)'
      BY <1>5, <2>4, <3>1
    <3>6. Holds(op[p].t, UserPages(op[p]))' /\ Points(op[p].t, FixedPages(op[p]))'
      BY <1>3, <2>2, <3>2, <3>4, <3>5 DEF Holds, Points
    <3>7. Bounds(p, op[p])'
      BY <1>1, <1>2, <1>3, <2>2 DEF Doing, Working, Bounds, Began, InFixed, InLoop, procVars
    <3> QED
      BY <1>1, <1>3, <1>5, <2>2, <2>4, <3>6, <3>7 DEF Working, Freeing, Gone, procVars
  <2>7. o.call = "userinit" => BootWalks'
    <3> SUFFICES ASSUME o.call = "userinit", NEW v \in Vpn
                 PROVE  /\ ptr'[Ent("l1", BootTable, L1(v))] # Null => L1(v) \in {L1(w) : w \in BootVpn}
                        /\ ptr'[Ent("l0", BootTable, L0(v))] # Null => L0(v) \in {L0(w) : w \in BootVpn}
      BY DEF BootWalks
    <3>1. t = BootTable /\ BootWalks
      BY <1>2 DEF Doing
    <3>2. \A k, i : Ent(k, t, i)[1] = k /\ Ent(k, t, i)[4] = i
      BY DEF Ent
    <3>3. ptr'[Ent("l1", t, L1(v))] # Null => L1(v) \in {L1(w) : w \in BootVpn}
      <4>1. CASE Ent("l1", t, L1(v)) = s
        BY <1>7, <3>2, <4>1
      <4>2. CASE Ent("l1", t, L1(v)) # s
        BY <2>3, <3>1, <4>2, SlotFacts DEF OnlySlot, BootWalks
      <4> QED
        BY <4>1, <4>2
    <3>4. ptr'[Ent("l0", t, L0(v))] # Null => L0(v) \in {L0(w) : w \in BootVpn}
      <4>1. CASE Ent("l0", t, L0(v)) = s
        BY <1>7, <3>2, <4>1
      <4>2. CASE Ent("l0", t, L0(v)) # s
        BY <2>3, <3>1, <4>2, SlotFacts DEF OnlySlot, BootWalks
      <4> QED
        BY <4>1, <4>2
    <3> QED
      BY <3>1, <3>3, <3>4
  <2> QED
    BY <1>1, <1>3, <2>2, <2>4, <2>5, <2>6, <2>7, KernelImage DEF procVars, BootPc
<1> QED
  BY <1>8, <1>9

LEMMA MapUserPageImage ==
    ASSUME IInv, TypeOK', ImgInv, NEW p \in Proc, MapUserPage(p)
    PROVE  ImgInv'
<1>1. op[p].pc = "map" /\ op[p].a \notin Fixed /\ Walks(op[p].t, op[p].a)
  BY DEF MapUserPage, At
<1>2. PICK o \in Op, q \in Proc, t \in Table : Doing(p, o, q, t)
  BY <1>1, AtWork
<1>3. /\ o.pc = "map" /\ q = o.q /\ o = op[p] /\ t = o.t /\ t[1] = q /\ Linked(t) /\ InLoop(o)
      /\ op \in [Proc -> Op] /\ Busy(p) /\ Walks(t, o.a) /\ o.a \notin Fixed
      /\ ptr[Var("mem", p)] # Null /\ Cursor(o)
  BY <1>1, <1>2 DEF Doing, InLoop
<1>4. /\ ptr[Root(t)] # Null /\ ptr[Var("trapframe", q)] # Null /\ ptr[Var("usyscall", q)] # Null
      /\ (pagetable[q] # NoTable => Stamped(q)) /\ (o.call = "exec" => Complete(q))
      /\ Holds(t, 0 .. o.a - 1) /\ Points(t, Fixed)
  BY <1>2, <1>3, Mapping DEF UserPages, FixedPages, InFixed, InLoop
<1>5. o.a \in UserVpn /\ o.a \in Nat /\ o.lim \in Nat /\ o.a < o.lim
  BY <1>3, VpnFacts DEF Cursor, InLoop, Op
<1> DEFINE s == Ent("leaf", t, o.a)
           m == Var("mem", p)
<1>6. s \in Slot /\ m \in Slot /\ s # m /\ m[1] = "mem"
      /\ s[1] = "leaf" /\ s[2] = t[1] /\ s[3] = t[2] /\ s[4] = o.a
  BY <1>5, SlotFacts DEF Ent, Var
<1>7. ptr[s] = Null
  BY <1>4, <1>5 DEF Holds
<1>8. /\ ptr' = [ptr EXCEPT ![s] = ptr[m], ![m] = Null]
      /\ op' = [op EXCEPT ![p] = [o EXCEPT !.pc = "alloc", !.a = @ + 1]]
      /\ UNCHANGED <<procVars, upid, alias, panicked>>
  BY <1>3, <1>7 DEF MapUserPage, Mapped, Enter
<1>9. ptr'[s] # Null /\ \A r \in Slot : r # s /\ r # m => ptr'[r] = ptr[r]
  BY <1>3, <1>6, <1>8 DEF IInv, TypeOK
<1>10. op'[p] = [o EXCEPT !.pc = "alloc", !.a = @ + 1] /\ \A r \in Proc \ {p} : op'[r] = op[r]
  BY <1>3, <1>8
<1>11. /\ op'[p].pc = "alloc" /\ op'[p].q = q /\ op'[p].call = o.call /\ op'[p].t = t
       /\ op'[p].base = o.base /\ op'[p].sz = o.sz /\ op'[p].a = o.a + 1 /\ op'[p].lim = o.lim
       /\ op'[p].nsz = o.nsz /\ op'[p].then = o.then
  BY <1>3, <1>10 DEF Op
<1>12. OnlyFor(q)
  BY <1>3, <1>6, <1>8, <1>9, OthersKeepVars DEF OnlyFor, procVars
<1>13. /\ ptr'[Var("trapframe", q)] = ptr[Var("trapframe", q)]
       /\ ptr'[Var("usyscall", q)] = ptr[Var("usyscall", q)]
  <2>1. \A k : Var(k, q)[1] = k
    BY DEF Var
  <2>2. \A k \in {"trapframe", "usyscall"} : Var(k, q) # s /\ Var(k, q) # m
    BY <1>6, <2>1
  <2> QED
    BY <1>9, <2>2, SlotFacts
<1>14. \A T \in Table : T # t => TableSame(T)
  <2> SUFFICES ASSUME NEW T \in Table, T # t PROVE TableSame(T)
    OBVIOUS
  <2>1. T[1] # t[1] \/ T[2] # t[2]
    BY DEF Table
  <2> QED
    BY <1>6, <1>8, <1>9, <2>1, SlotsOfTable
<1>15. \A k, i : k # "leaf" \/ i # o.a => Ent(k, t, i) # s
  BY <1>6 DEF Ent
<1>16. \A k \in {"root", "l1", "l0", "leaf"} : \A i : Ent(k, t, i) # m
  BY DEF Ent, Var
<1>17. ptr'[Root(t)] = ptr[Root(t)]
  BY <1>9, <1>15, <1>16, SlotFacts DEF Root
<1>18. \A v \in Vpn : /\ ptr'[Ent("l1", t, L1(v))] = ptr[Ent("l1", t, L1(v))]
                      /\ ptr'[Ent("l0", t, L0(v))] = ptr[Ent("l0", t, L0(v))]
  BY <1>9, <1>15, <1>16, SlotFacts
<1>19. \A v \in UserVpn : v # o.a => ptr'[Ent("leaf", t, v)] = ptr[Ent("leaf", t, v)]
  BY <1>9, <1>15, <1>16, SlotFacts
<1>20. Linked(t)'
  <2>1. \A v \in Vpn : Mapped(t, v)' => Mapped(t, v) \/ Walks(t, v)
    BY <1>3, <1>8, <1>19, VpnFacts DEF Mapped
  <2> QED
    BY <1>3, <1>17, <1>18, <2>1, MapLinked
<1>21. \A T \in Table : Linked(T)'
  BY <1>2, <1>14, <1>20, SameLinked DEF Doing
<1>22. Working(p, op[p])'
  <2>1. UserPages(op[p])' = 0 .. o.a /\ FixedPages(op[p])' = Fixed
    BY <1>5, <1>11 DEF UserPages, FixedPages, InFixed, InLoop
  <2>2. Holds(t, 0 .. o.a)'
    <3>1. \A v \in UserVpn : ptr'[Ent("leaf", t, v)] # Null <=> v \in 0 .. o.a
      <4> TAKE v \in UserVpn
      <4>1. v \in Nat
        BY VpnFacts
      <4>2. CASE v = o.a
        BY <1>5, <1>9, <4>2
      <4>3. CASE v # o.a
        BY <1>4, <1>5, <1>19, <4>1, <4>3 DEF Holds
      <4> QED
        BY <4>2, <4>3
    <3> QED
      BY <1>4, <1>17, <3>1 DEF Holds
  <2>3. Points(t, Fixed)'
    BY <1>3, <1>4, <1>8, <1>13 DEF Points, Expect
  <2>4. Holds(op[p].t, UserPages(op[p]))' /\ Points(op[p].t, FixedPages(op[p]))'
    BY <1>11, <2>1, <2>2, <2>3 DEF Holds, Points
  <2>5. o.call = "exec" => Complete(q)'
    <3> SUFFICES ASSUME o.call = "exec" PROVE Complete(q)'
      OBVIOUS
    <3>1. pagetable[q] # t /\ pagetable[q] # NoTable
      BY <1>2, <1>3 DEF Doing, Working, Bounds
    <3>2. TableSame(pagetable[q])
      BY <1>14, <3>1, OwnTable
    <3> QED
      BY <1>4, <1>8, <1>13, <3>1, <3>2, KeepComplete DEF procVars
  <2>6. pagetable[q] # NoTable => Stamped(q)'
    BY <1>4, <1>8, <1>13 DEF Stamped, procVars
  <2>7. Bounds(p, op[p])'
    BY <1>2, <1>3, <1>5, <1>8, <1>11 DEF Doing, Working, Bounds, Began, InFixed, InLoop, Op, procVars
  <2> QED
    BY <1>4, <1>8, <1>11, <1>13, <2>4, <2>5, <2>6, <2>7 DEF Working, Freeing, Gone, procVars
<1>23. BootWalks => BootWalks' \/ t # BootTable
  BY <1>18 DEF BootWalks
<1> QED
  BY <1>2, <1>3, <1>8, <1>10, <1>11, <1>12, <1>21, <1>22, <1>23, KernelImage
  DEF Doing, procVars, BootPc

\* A step that changes only the fixed entries of the table a call works on.
LEMMA AliasStep ==
    ASSUME IInv, NEW p \in Proc, NEW o \in Op, NEW q \in Proc, NEW t \in Table, Doing(p, o, q, t),
           ptr' = ptr, \A T \in Table : T # t => alias'[T] = alias[T],
           pagetable'[q] = pagetable[q], sz'[q] = sz[q]
    PROVE  /\ \A T \in Table : T # t => TableSame(T) /\ Linked(T)'
           /\ (\A v \in Fixed : alias'[t][v] # Null => alias[t][v] # Null \/ Walks(t, v)) => Linked(t)'
           /\ \A U : Holds(t, U) => Holds(t, U)'
           /\ \A v \in Fixed : Expect(q, v)' = Expect(q, v)
           /\ o.call = "exec" => Complete(q)'
           /\ BootWalks => BootWalks'
<1>1. q = t[1] /\ q = o.q /\ t = o.t
  BY DEF Doing
<1>2. \A T \in Table : T # t => TableSame(T)
  BY DEF TableSame
<1>3. \A T \in Table : T # t => Linked(T)'
  BY <1>2, SameLinked DEF Doing
<1>4. ASSUME \A v \in Fixed : alias'[t][v] # Null => alias[t][v] # Null \/ Walks(t, v)
      PROVE  Linked(t)'
  <2>1. \A v \in Vpn : Mapped(t, v)' => Mapped(t, v) \/ Walks(t, v)
    BY <1>4 DEF Mapped
  <2> QED
    BY <2>1, MapLinked DEF Doing
<1>5. ASSUME o.call = "exec" PROVE Complete(q)'
  <2>1. pagetable[q] # t /\ pagetable[q] # NoTable /\ Complete(q)
    BY <1>1, <1>5 DEF Doing, Working, Bounds
  <2>2. TableSame(pagetable[q])
    BY <1>2, <2>1, OwnTable
  <2> QED
    BY <2>1, <2>2, KeepComplete
<1>6. \A v \in Fixed : Expect(q, v)' = Expect(q, v)
  BY DEF Expect, Fixed
<1>7. \A U : Holds(t, U) => Holds(t, U)'
  BY DEF Holds
<1>8. BootWalks => BootWalks'
  BY DEF BootWalks
<1> QED
  BY <1>2, <1>3, <1>4, <1>5, <1>6, <1>7, <1>8

LEMMA MapFixedImage ==
    ASSUME IInv, TypeOK', ImgInv, NEW p \in Proc, MapFixed(p)
    PROVE  ImgInv'
<1>1. op[p].pc = "map" /\ op[p].a \in Fixed /\ Walks(op[p].t, op[p].a)
  BY DEF MapFixed, At
<1>2. PICK o \in Op, q \in Proc, t \in Table : Doing(p, o, q, t)
  BY <1>1, AtWork
<1>3. /\ o.pc = "map" /\ q = o.q /\ o = op[p] /\ t = o.t /\ t[1] = q /\ Linked(t) /\ InFixed(o)
      /\ op \in [Proc -> Op] /\ Busy(p) /\ Walks(t, o.a) /\ o.a \in Fixed
      /\ Cursor(o) /\ Working(p, o) /\ o.base = 0 /\ o.sz = 0
      /\ (o.call = "exec" => state[q] = "RUNNABLE" /\ pagetable[q] # NoTable /\ pagetable[q] # t)
      /\ (o.call # "exec" => pagetable[q] = NoTable)
      /\ (o.call = "userinit" => t = BootTable /\ BootWalks)
      /\ o.call \in {"userinit", "fork", "exec"}
  BY <1>1, <1>2 DEF Doing, InFixed, Working, Bounds, Cursor
<1>4. /\ ptr[Root(t)] # Null /\ ptr[Var("trapframe", q)] # Null /\ ptr[Var("usyscall", q)] # Null
      /\ (pagetable[q] # NoTable => Stamped(q)) /\ (o.call = "exec" => Complete(q))
      /\ Holds(t, {}) /\ Points(t, {v \in Fixed : v > o.a})
  BY <1>2, <1>3, Mapping DEF UserPages, FixedPages, InFixed, InLoop
<1>5. /\ USYSCALL \in Nat /\ TRAPFRAME = USYSCALL + 1 /\ TRAMPOLINE = USYSCALL + 2
      /\ Fixed = {TRAMPOLINE, TRAPFRAME, USYSCALL} /\ o.a \in Int
  BY <1>3, VpnFacts DEF Fixed
<1>6. alias[t][o.a] = Null /\ alias[t] \in [Fixed -> Page \cup {Null, Trampoline}]
  <2>1. o.a \notin {v \in Fixed : v > o.a}
    BY <1>5
  <2>2. alias[t][o.a] = Null
    BY <1>3, <1>4, <2>1 DEF Points
  <2> QED
    BY <2>2 DEF IInv, TypeOK
<1>7. /\ alias' = [alias EXCEPT ![t][o.a] = Expect(q, o.a)]
      /\ UNCHANGED <<state, parent, pid, nextpid, sz, free, ptr, panicked>>
  BY <1>3, <1>6 DEF MapFixed, Mapped, Expect
<1>8. /\ \A T \in Table : T # t => alias'[T] = alias[T]
      /\ \A v \in Fixed : alias'[t][v] = IF v = o.a THEN Expect(q, v) ELSE alias[t][v]
  BY <1>6, <1>7 DEF IInv, TypeOK
<1>9. Points(t, {v \in Fixed : v > o.a - 1})'
  <2>1. \A v \in Fixed : Expect(q, v)' = Expect(q, v)
    BY <1>7 DEF Expect, Fixed
  <2>2. \A v \in Fixed : v > o.a - 1 <=> v > o.a \/ v = o.a
    BY <1>5
  <2> QED
    BY <1>3, <1>4, <1>8, <2>1, <2>2 DEF Points
<1>10. Linked(t)'
  <2>1. \A v \in Vpn : Mapped(t, v)' => Mapped(t, v) \/ Walks(t, v)
    BY <1>3, <1>7, <1>8 DEF Mapped
  <2> QED
    BY <1>3, <1>7, <2>1, MapLinked
<1>11. \A T \in Table : T # t => TableSame(T)
  BY <1>7, <1>8 DEF TableSame
<1>12. (\A T \in Table : Linked(T)') /\ (BootWalks => BootWalks')
  BY <1>2, <1>7, <1>10, <1>11, SameLinked DEF Doing, BootWalks
<1>13. Holds(t, {})'
  BY <1>4, <1>7 DEF Holds
<1>14. ASSUME UNCHANGED <<upid, pagetable>>
       PROVE  /\ OnlyFor(q) /\ (pagetable[q] # NoTable => Stamped(q)')
              /\ o.call = "exec" => Complete(q)'
  <2>1. OnlyFor(q)
    BY <1>3, <1>7, <1>8, <1>14, NoSlotOnlyFor
  <2>2. pagetable[q] # NoTable => Stamped(q)'
    BY <1>4, <1>7, <1>14 DEF Stamped
  <2>3. o.call = "exec" => Complete(q)'
    BY <1>2, <1>7, <1>8, <1>14, AliasStep
  <2> QED
    BY <2>1, <2>2, <2>3
<1>15. CASE o.a # USYSCALL
  <2>1. UNCHANGED <<upid, pagetable>> /\ op' = [op EXCEPT ![p] = [o EXCEPT !.a = @ - 1]]
    BY <1>3, <1>6, <1>15 DEF MapFixed, Mapped, Enter
  <2>2. op'[p] = [o EXCEPT !.a = @ - 1] /\ \A r \in Proc \ {p} : op'[r] = op[r]
    BY <1>3, <2>1
  <2>3. /\ op'[p].pc = "map" /\ op'[p].q = q /\ op'[p].call = o.call /\ op'[p].t = t
        /\ op'[p].base = o.base /\ op'[p].sz = o.sz /\ op'[p].a = o.a - 1
    BY <1>3, <2>2 DEF Op
  <2>4. o.a - 1 \in Fixed
    BY <1>3, <1>5, <1>15
  <2>5. Working(p, op[p])'
    <3>1. UserPages(op[p])' = {} /\ FixedPages(op[p])' = {v \in Fixed : v > o.a - 1}
      BY <2>3, <2>4 DEF UserPages, FixedPages, InFixed, InLoop
    <3>2. Holds(op[p].t, UserPages(op[p]))' /\ Points(op[p].t, FixedPages(op[p]))'
      BY <1>9, <1>13, <2>3, <3>1 DEF Holds, Points
    <3>3. Bounds(p, op[p])'
      BY <1>3, <2>1, <2>3, <2>4 DEF Bounds, InFixed, InLoop
    <3> QED
      BY <1>4, <1>7, <1>14, <2>1, <2>3, <3>2, <3>3 DEF Working, Freeing, Gone
  <2> QED
    BY <1>3, <1>7, <1>12, <1>14, <2>1, <2>2, <2>3, <2>5, KernelImage DEF BootPc
<1>16. CASE o.a = USYSCALL /\ o.call = "exec"
  <2>1. UNCHANGED <<upid, pagetable>> /\ op' = [op EXCEPT ![p] = [o EXCEPT !.pc = "load"]]
    BY <1>3, <1>6, <1>16 DEF MapFixed, Mapped, Enter
  <2>2. op'[p] = [o EXCEPT !.pc = "load"] /\ \A r \in Proc \ {p} : op'[r] = op[r]
    BY <1>3, <2>1
  <2>3. /\ op'[p].pc = "load" /\ op'[p].q = q /\ op'[p].call = "exec" /\ op'[p].t = t
        /\ op'[p].sz = 0
    BY <1>3, <1>16, <2>2 DEF Op
  <2>4. Working(p, op[p])'
    <3>1. UserPages(op[p])' = {} /\ FixedPages(op[p])' = {v \in Fixed : v > o.a - 1}
      <4>1. 0 .. NPages(0) - 1 = {}
        BY NPagesFacts
      <4>2. Fixed = {v \in Fixed : v > o.a - 1}
        BY <1>5, <1>16
      <4> QED
        BY <2>3, <4>1, <4>2 DEF UserPages, FixedPages, InFixed, InLoop
    <3>2. Holds(op[p].t, UserPages(op[p]))' /\ Points(op[p].t, FixedPages(op[p]))'
      BY <1>9, <1>13, <2>3, <3>1 DEF Holds, Points
    <3>3. Bounds(p, op[p])'
      BY <1>3, <1>16, <2>1, <2>3 DEF Bounds, InFixed, InLoop
    <3> QED
      BY <1>4, <1>7, <1>14, <1>16, <2>1, <2>3, <3>2, <3>3 DEF Working, Freeing, Gone
  <2> QED
    BY <1>3, <1>7, <1>12, <1>14, <1>16, <2>1, <2>2, <2>3, <2>4, KernelImage
<1>17. CASE o.a = USYSCALL /\ o.call # "exec"
  <2>1. PICK n : n = IF o.call = "userinit" THEN PGSIZE ELSE sz[p]
    OBVIOUS
  <2>2. /\ pagetable' = [pagetable EXCEPT ![q] = t]
        /\ upid' = [upid EXCEPT ![ptr[Var("usyscall", q)]] = pid[q]]
        /\ op' = [op EXCEPT ![p] = [o EXCEPT !.pc = "alloc", !.a = 0, !.nsz = n,
                                             !.lim = NPages(n), !.then = "setsz"]]
    BY <1>3, <1>6, <1>17, <2>1 DEF MapFixed, Mapped, Enter
  <2>3. n \in Nat /\ NPages(n) \in Nat
    <3>1. n \in 0 .. MaxSz
      BY <2>1, ConstantsAssumption DEF IInv, TypeOK
    <3> QED
      BY <3>1, NPagesRange, VpnFacts, ConstantsAssumption
  <2>4. op'[p] = [o EXCEPT !.pc = "alloc", !.a = 0, !.nsz = n, !.lim = NPages(n), !.then = "setsz"]
        /\ \A r \in Proc \ {p} : op'[r] = op[r]
    BY <1>3, <2>2
  <2>5. /\ op'[p].pc = "alloc" /\ op'[p].q = q /\ op'[p].call = o.call /\ op'[p].t = t
        /\ op'[p].base = o.base /\ op'[p].sz = o.sz /\ op'[p].a = 0 /\ op'[p].lim = NPages(n)
        /\ op'[p].nsz = n
    BY <1>3, <2>4 DEF Op
  <2>6. Var("usyscall", q) \in Slot /\ ptr[Var("usyscall", q)] \in Page
    BY <1>4, SlotFacts DEF IInv, TypeOK
  <2>7. OnlyFor(q)
    <3>1. \A x \in Proc \ {q} : ptr[Var("usyscall", x)] # ptr[Var("usyscall", q)]
      BY <1>4, <2>6, SlotFacts, SlotsDiffer DEF IInv, Own
    <3>2. \A x \in Proc \ {q} : upid'[ptr[Var("usyscall", x)]] = upid[ptr[Var("usyscall", x)]]
                                \/ ptr[Var("usyscall", x)] = Null
      BY <2>2, <3>1, SlotFacts DEF IInv, TypeOK
    <3>3. \A x \in Proc \ {q} : pagetable'[x] = pagetable[x]
      BY <2>2 DEF IInv, TypeOK
    <3> QED
      BY <1>3, <1>7, <1>8, <3>2, <3>3 DEF OnlyFor
  <2>8. Stamped(q)' /\ pagetable'[q] = t
    BY <1>7, <2>2, <2>6 DEF Stamped, IInv, TypeOK
  <2>9. Working(p, op[p])'
    <3>1. UserPages(op[p])' = {} /\ FixedPages(op[p])' = {v \in Fixed : v > o.a - 1}
      <4>1. 0 .. 0 - 1 = {}
        OBVIOUS
      <4>2. Fixed = {v \in Fixed : v > o.a - 1}
        BY <1>5, <1>17
      <4> QED
        BY <2>5, <4>1, <4>2 DEF UserPages, FixedPages, InFixed, InLoop
    <3>2. Holds(op[p].t, UserPages(op[p]))' /\ Points(op[p].t, FixedPages(op[p]))'
      BY <1>9, <1>13, <2>5, <3>1 DEF Holds, Points
    <3>3. Bounds(p, op[p])'
      BY <1>3, <1>7, <1>17, <2>1, <2>3, <2>5 DEF Bounds, Began, InFixed, InLoop
    <3> QED
      BY <1>4, <1>7, <1>17, <2>5, <2>8, <3>2, <3>3 DEF Working, Freeing, Gone
  <2> QED
    BY <1>3, <1>7, <1>12, <2>4, <2>5, <2>7, <2>9, KernelImage DEF BootPc
<1> QED
  BY <1>15, <1>16, <1>17

LEMMA MapFailFixedImage ==
    ASSUME IInv, TypeOK', ImgInv, NEW p \in Proc, MapFailFixed(p)
    PROVE  ImgInv'
<1>1. op[p].pc = "mapfail" /\ op[p].a \in Fixed
  BY DEF MapFailFixed, At
<1>2. PICK o \in Op, q \in Proc, t \in Table : Doing(p, o, q, t)
  BY <1>1, AtWork
<1>3. /\ o.pc = "mapfail" /\ q = o.q /\ o = op[p] /\ t = o.t /\ t[1] = q /\ Linked(t) /\ InFixed(o)
      /\ op \in [Proc -> Op] /\ Busy(p) /\ o.a \in Fixed /\ Cursor(o) /\ Working(p, o)
      /\ o.call \in {"fork", "exec"}
      /\ (o.call = "exec" => pagetable[q] # t)
      /\ (o.call # "exec" => pagetable[q] = NoTable)
  BY <1>1, <1>2 DEF Doing, InFixed, Working, Bounds, Cursor, BootPc
<1>4. /\ ptr[Root(t)] # Null /\ ptr[Var("trapframe", q)] # Null /\ ptr[Var("usyscall", q)] # Null
      /\ (pagetable[q] # NoTable => Stamped(q)) /\ (o.call = "exec" => Complete(q))
      /\ Holds(t, {}) /\ Points(t, {v \in Fixed : v > o.a})
  BY <1>2, <1>3, Mapping DEF UserPages, FixedPages, InFixed, InLoop
<1>5. /\ USYSCALL \in Nat /\ TRAPFRAME = USYSCALL + 1 /\ TRAMPOLINE = USYSCALL + 2
      /\ Fixed = {TRAMPOLINE, TRAPFRAME, USYSCALL} /\ o.a \in Int
  BY <1>3, VpnFacts DEF Fixed
<1>6. \A v \in Fixed : Expect(q, v) # Null
  BY <1>4, <1>5, ConstantsAssumption DEF Expect
<1>7. \A v \in o.a + 1 .. TRAMPOLINE : Mapped(t, v)
  <2> TAKE v \in o.a + 1 .. TRAMPOLINE
  <2>1. v \in Fixed /\ v > o.a
    BY <1>3, <1>5
  <2> QED
    BY <1>3, <1>4, <1>6, <2>1 DEF Points, Mapped
<1>8. /\ alias' = [alias EXCEPT ![t] = [v \in Fixed |-> IF v > o.a THEN Null ELSE @[v]]]
      /\ op' = [op EXCEPT ![p] = [o EXCEPT !.pc = "freewalk", !.then = NoTableThen(o)]]
      /\ UNCHANGED <<procVars, memVars, panicked>>
  BY <1>3, <1>7 DEF MapFailFixed, Enter
<1>9. /\ \A T \in Table : T # t => alias'[T] = alias[T]
      /\ \A v \in Fixed : alias'[t][v] = Null
  <2>1. \A v \in Fixed : ~ v > o.a => alias[t][v] = Null
    BY <1>4 DEF Points
  <2> QED
    BY <1>8, <2>1 DEF IInv, TypeOK
<1>10. op'[p] = [o EXCEPT !.pc = "freewalk", !.then = NoTableThen(o)]
       /\ \A r \in Proc \ {p} : op'[r] = op[r]
  BY <1>3, <1>8
<1>11. /\ op'[p].pc = "freewalk" /\ op'[p].q = q /\ op'[p].call = o.call /\ op'[p].t = t
       /\ op'[p].then = NoTableThen(o)
  BY <1>3, <1>10 DEF Op
<1>12. /\ \A T \in Table : Linked(T)'
       /\ Holds(t, {})' /\ (o.call = "exec" => Complete(q)')
  BY <1>2, <1>4, <1>8, <1>9, AliasStep DEF procVars, memVars
<1>13. Working(p, op[p])'
  <2>1. UserPages(op[p])' = {} /\ FixedPages(op[p])' = {}
    BY <1>11 DEF UserPages, FixedPages, InFixed, InLoop
  <2>2. Holds(op[p].t, UserPages(op[p]))' /\ Points(op[p].t, FixedPages(op[p]))'
    BY <1>9, <1>11, <1>12, <2>1 DEF Holds, Points
  <2>3. Bounds(p, op[p])'
    BY <1>3, <1>8, <1>11 DEF Bounds, InFixed, InLoop, procVars
  <2>4. pagetable[q] # NoTable => Stamped(q)'
    BY <1>4, <1>8 DEF Stamped, procVars, memVars
  <2> QED
    BY <1>4, <1>8, <1>11, <1>12, <2>2, <2>3, <2>4 DEF Working, Freeing, Gone, procVars, memVars
<1>14. OnlyFor(q)
  BY <1>3, <1>8, <1>9, NoSlotOnlyFor DEF procVars, memVars
<1> QED
  BY <1>3, <1>8, <1>10, <1>11, <1>12, <1>13, <1>14, KernelImage DEF procVars

\* Where the undo of a loop starts.
LEMMA UndoStarts ==
    ASSUME IInv, NEW p \in Proc, NEW o \in Op, NEW q \in Proc, NEW t \in Table, Doing(p, o, q, t),
           o.pc \in {"mapfail", "alloc"}, InLoop(o), o.call # "userinit",
           op'[p] = UndoLoop(o), UNCHANGED <<sz, pagetable>>
    PROVE  /\ op'[p].pc = "unmap" /\ op'[p].q = q /\ op'[p].call = o.call /\ op'[p].t = t
           /\ UserPages(op[p])' = UserPages(o) /\ FixedPages(op[p])' = Fixed /\ FixedPages(o) = Fixed
           /\ Bounds(p, op[p])'
<1>1. /\ op'[p].pc = "unmap" /\ op'[p].q = q /\ op'[p].call = o.call /\ op'[p].t = t
      /\ op'[p].a = o.base /\ op'[p].base = o.base /\ op'[p].lim = o.a /\ op'[p].sz = o.sz
      /\ q = o.q /\ t = o.t
  BY DEF Doing, UndoLoop, Op
<1>2. o.call \in {"fork", "exec", "sbrk"} /\ o.a \in Int /\ o.base \in Int /\ o.a >= 0 /\ o.base >= 0
  BY VpnFacts DEF Doing, Cursor, Op
<1>3. op'[p].then # "setsz"
  BY <1>2 DEF UndoLoop, Op
<1>4. o.base <= o.a /\ o.base = Began(o) /\ (o.call = "exec" => pagetable[q] # t)
  BY <1>1 DEF Doing, Working, Bounds
<1>5. UserPages(o) = 0 .. o.a - 1 /\ FixedPages(o) = Fixed
  BY DEF UserPages, FixedPages, InFixed, InLoop
<1>6. UserPages(op[p])' = (0 .. o.base - 1) \cup (o.base .. o.a - 1) /\ FixedPages(op[p])' = Fixed
  BY <1>1 DEF UserPages, FixedPages, InFixed, InLoop
<1>7. (0 .. o.base - 1) \cup (o.base .. o.a - 1) = 0 .. o.a - 1
  BY <1>2, <1>4
<1>8. Began(op[p])' = Began(o)
  BY <1>1 DEF Began
<1>9. Bounds(p, op[p])'
  BY <1>1, <1>2, <1>3, <1>4, <1>8 DEF Bounds, InFixed, InLoop
<1> QED
  BY <1>1, <1>5, <1>6, <1>7, <1>9

LEMMA MapFailUserImage ==
    ASSUME IInv, TypeOK', ImgInv, NEW p \in Proc, MapFailUser(p)
    PROVE  ImgInv'
<1>1. op[p].pc = "mapfail" /\ op[p].a \notin Fixed
  BY DEF MapFailUser, At
<1>2. PICK o \in Op, q \in Proc, t \in Table : Doing(p, o, q, t)
  BY <1>1, AtWork
<1>3. /\ o.pc = "mapfail" /\ q = o.q /\ o = op[p] /\ t = o.t /\ t[1] = q /\ Linked(t) /\ InLoop(o)
      /\ op \in [Proc -> Op] /\ Busy(p) /\ o.call # "userinit"
      /\ ptr[Var("mem", p)] # Null
  BY <1>1, <1>2 DEF Doing, InLoop, BootPc
<1>4. /\ ptr[Root(t)] # Null /\ ptr[Var("trapframe", q)] # Null /\ ptr[Var("usyscall", q)] # Null
      /\ (pagetable[q] # NoTable => Stamped(q)) /\ (o.call = "exec" => Complete(q))
      /\ Holds(t, UserPages(o)) /\ Points(t, FixedPages(o))
  BY <1>2, <1>3, Mapping
<1> DEFINE s == Var("mem", p)
<1>5. Kfree(s) /\ op' = [op EXCEPT ![p] = UndoLoop(o)] /\ UNCHANGED <<procVars, alias, panicked>>
  BY <1>3 DEF MapFailUser, Enter
<1>6. op'[p] = UndoLoop(o) /\ \A r \in Proc \ {p} : op'[r] = op[r]
  BY <1>3, <1>5
<1>7. s \in Slot /\ s[1] = "mem" /\ Var("usyscall", q) # s /\ Var("trapframe", q) # s
  BY SlotFacts, SlotsDiffer DEF Var
<1>8. OnlySlot(s) /\ Stamps(s)
  BY <1>3, <1>5, <1>7, KfreeOwn, KfreeStamps DEF IInv, OnlySlot
<1>9. OnlyFor(q) /\ \A T \in Table : TableSame(T)
  BY <1>5, <1>7, <1>8, OneSlotOnlyFor, VarSlotFrame DEF procVars
<1>10. /\ ptr'[Var("trapframe", q)] = ptr[Var("trapframe", q)]
       /\ ptr'[Var("usyscall", q)] = ptr[Var("usyscall", q)]
  BY <1>7, <1>8, SlotFacts DEF OnlySlot
<1>11. \A T \in Table : Linked(T)'
  BY <1>9, StillTables
<1>12. /\ op'[p].pc = "unmap" /\ op'[p].q = q /\ op'[p].call = o.call /\ op'[p].t = t
       /\ UserPages(op[p])' = UserPages(o) /\ FixedPages(op[p])' = Fixed /\ FixedPages(o) = Fixed
       /\ Bounds(p, op[p])'
  BY <1>2, <1>3, <1>5, <1>6, UndoStarts DEF procVars
<1>13. Working(p, op[p])'
  <2>1. PICK U : U = UserPages(o)
    OBVIOUS
  <2>2. Holds(t, U)' /\ Points(t, Fixed)'
    BY <1>3, <1>4, <1>9, <1>10, <1>12, <2>1, SameHolds, SamePoints
  <2>3. Holds(op[p].t, UserPages(op[p]))' /\ Points(op[p].t, FixedPages(op[p]))'
    BY <1>12, <2>1, <2>2 DEF Holds, Points
  <2>4. pagetable[q] # NoTable => Stamped(q)'
    BY <1>4, <1>5, <1>7, <1>8, KeepStamped DEF procVars
  <2>5. o.call = "exec" => Complete(q)'
    <3> SUFFICES ASSUME o.call = "exec" PROVE Complete(q)'
      OBVIOUS
    <3>1. pagetable[q] # NoTable
      BY <1>2 DEF Doing
    <3>2. TableSame(pagetable[q])
      BY <1>9, <3>1, OwnTable
    <3> QED
      BY <1>4, <1>5, <1>10, <3>1, <3>2, KeepComplete DEF procVars
  <2> QED
    BY <1>4, <1>5, <1>10, <1>12, <2>3, <2>4, <2>5 DEF Working, Freeing, Gone, procVars
<1> QED
  BY <1>3, <1>5, <1>6, <1>9, <1>11, <1>12, <1>13, KernelImage DEF procVars

\* A step that only moves the call: what is left to show is about its new
\* local variables n.
LEMMA WorkingStill ==
    ASSUME UNCHANGED <<procVars, memVars, alias>>, NEW p \in Proc, NEW n, op'[p] = n, Working(p, n)
    PROVE  Working(p, op[p])'
<1>1. UNCHANGED <<state, parent, pid, nextpid, sz, pagetable, free, ptr, upid, alias>>
  BY DEF procVars, memVars
<1>2. PICK U, F, B : U = UserPages(n) /\ F = FixedPages(n) /\ B = Began(n)
  OBVIOUS
<1>3. UserPages(op[p])' = U /\ FixedPages(op[p])' = F
  BY <1>2 DEF UserPages, FixedPages, InFixed, InLoop
<1>4. Began(op[p])' = B
  BY <1>1, <1>2 DEF Began
<1>5. Bounds(p, op[p])'
  <2>1. Bounds(p, n)
    BY DEF Working
  <2> QED
    BY <1>1, <1>2, <1>4, <2>1 DEF Bounds, InFixed, InLoop
<1>6. (op[p].pc \in Building => Holds(op[p].t, UserPages(op[p])) /\ Points(op[p].t, FixedPages(op[p])))'
  <2>1. n.pc \in Building => Holds(n.t, U) /\ Points(n.t, F)
    BY <1>2 DEF Working
  <2> QED
    BY <1>1, <1>3, <2>1 DEF Building, Holds, Points, Expect
<1>7. (op[p].call = "exec" => Complete(op[p].q))'
  <2>1. n.call = "exec" => Complete(n.q)
    BY DEF Working
  <2> QED
    BY <1>1, <2>1 DEF Complete, Holds, Points, Expect
<1>8. (Freeing(op[p]) /\ pagetable[op[p].q] # NoTable =>
         /\ Holds(pagetable[op[p].q], 0 .. NPages(sz[op[p].q]) - 1)
         /\ \A v \in Fixed : alias[pagetable[op[p].q]][v] # Null)'
  BY <1>1 DEF Working, Freeing, Holds
<1>9. (/\ op[p].pc # "trapframe" /\ ~ Freeing(op[p]) /\ ~ Gone(op[p]) =>
            ptr[Var("trapframe", op[p].q)] # Null
       /\ op[p].pc \notin {"trapframe", "usyscall"} /\ ~ Freeing(op[p]) /\ ~ Gone(op[p]) =>
            ptr[Var("usyscall", op[p].q)] # Null
       /\ pagetable[op[p].q] # NoTable /\ ~ Freeing(op[p]) /\ ~ Gone(op[p]) => Stamped(op[p].q))'
  BY <1>1 DEF Working, Freeing, Gone, Stamped
<1> QED
  BY <1>5, <1>6, <1>7, <1>8, <1>9 DEF Working

LEMMA MoveImage ==
    ASSUME IInv, TypeOK', ImgInv, UNCHANGED <<procVars, memVars, alias, panicked>>,
           NEW p \in Proc, NEW o \in Op, NEW q \in Proc, NEW t \in Table, Doing(p, o, q, t),
           NEW n, op' = [op EXCEPT ![p] = n], n.pc # "user", n.call = o.call, n.q = q,
           o.call = "userinit" => n.pc \in BootPc, Working(p, n)
    PROVE  ImgInv'
<1>1. op'[p] = n /\ \A r \in Proc \ {p} : op'[r] = op[r]
  BY DEF Doing
<1>2. Working(p, op[p])'
  BY <1>1, WorkingStill
<1>3. (\A T \in Table : Linked(T)') /\ (BootWalks => BootWalks')
  BY StillLinked DEF memVars
<1>4. OnlyFor(q)
  BY NoSlotOnlyFor DEF procVars, memVars
<1> QED
  BY <1>1, <1>2, <1>3, <1>4, KernelImage DEF Doing, procVars

LEMMA LeaveImage ==
    ASSUME IInv, TypeOK', ImgInv, UNCHANGED <<procVars, memVars, alias, panicked>>,
           NEW p \in Proc, NEW o \in Op, NEW q \in Proc, NEW t \in Table, Doing(p, o, q, t),
           op' = [op EXCEPT ![p] = Idle], o.call # "userinit",
           state[q] = "RUNNABLE", HasVars(q), Complete(q), Stamped(q)
    PROVE  ImgInv'
<1>1. op'[p].pc = "user" /\ op'[p].call = "none" /\ \A r \in Proc \ {p} : op'[r] = op[r]
  BY DEF Doing, Idle
<1>2. Resting(q)'
  BY StillResting DEF procVars, memVars
<1>3. \A T \in Table : Linked(T)'
  BY StillLinked DEF memVars
<1>4. OnlyFor(q)
  BY NoSlotOnlyFor DEF procVars, memVars
<1> QED
  BY <1>1, <1>2, <1>3, <1>4, KernelImage DEF Doing, procVars

LEMMA AllocDoneImage ==
    ASSUME IInv, TypeOK', ImgInv, NEW p \in Proc, AllocDone(p)
    PROVE  ImgInv'
<1>1. op[p].pc = "alloc" /\ UNCHANGED <<procVars, memVars, alias, panicked>>
  BY DEF AllocDone, At
<1>2. PICK o \in Op, q \in Proc, t \in Table : Doing(p, o, q, t)
  BY <1>1, AtWork
<1>3. /\ o.pc = "alloc" /\ o = op[p] /\ q = o.q /\ t = o.t /\ o.a = o.lim /\ InLoop(o)
      /\ Working(p, o) /\ Bounds(p, o) /\ Cursor(o) /\ o.lim = NPages(o.nsz)
  BY <1>1, <1>2 DEF Doing, AllocDone, InLoop, Working, Bounds
<1>4. PICK n \in Op : n = [o EXCEPT !.pc = o.then, !.sz = o.nsz]
  BY DEF Op
<1>5. /\ n.pc = o.then /\ n.call = o.call /\ n.q = q /\ n.t = t /\ n.sz = o.nsz /\ n.nsz = o.nsz
      /\ n.pc \in {"load", "args", "setsz"} /\ (n.pc = "setsz" <=> o.call # "exec")
      /\ op' = [op EXCEPT ![p] = n]
  BY <1>3, <1>4 DEF Op, Cursor, AllocDone, Enter
<1>6. UserPages(n) = UserPages(o) /\ FixedPages(n) = FixedPages(o)
  <2>1. UserPages(o) = 0 .. o.a - 1 /\ FixedPages(o) = Fixed
    BY <1>3 DEF UserPages, FixedPages, InFixed, InLoop
  <2>2. UserPages(n) = 0 .. NPages(o.nsz) - 1 /\ FixedPages(n) = Fixed
    BY <1>5 DEF UserPages, FixedPages, InFixed, InLoop
  <2> QED
    BY <1>3, <2>1, <2>2
<1>7. Bounds(p, n)
  BY <1>3, <1>5 DEF Bounds, InFixed, InLoop
<1>8. Working(p, n)
  BY <1>3, <1>5, <1>6, <1>7 DEF Working, Freeing, Gone, Building
<1> QED
  BY <1>1, <1>2, <1>3, <1>5, <1>8, MoveImage DEF BootPc, Doing

LEMMA LoadSegmentImage ==
    ASSUME IInv, TypeOK', ImgInv, NEW p \in Proc, LoadSegment(p)
    PROVE  ImgInv'
<1>1. op[p].pc = "load" /\ UNCHANGED <<procVars, memVars, alias, panicked>>
  BY DEF LoadSegment, At
<1>2. PICK o \in Op, q \in Proc, t \in Table : Doing(p, o, q, t)
  BY <1>1, AtWork
<1>3. /\ o.pc = "load" /\ o = op[p] /\ q = o.q /\ t = o.t /\ o.call = "exec"
      /\ Working(p, o) /\ Bounds(p, o) /\ o.sz \in 0 .. MaxSz /\ NPages(o.sz) \in Int
  BY <1>1, <1>2, NPagesRange DEF Doing, Working, Cursor, Op
<1>a. PICK end \in o.sz + 1 .. MaxSz : \E n :
        /\ n = [o EXCEPT !.pc = "alloc", !.a = NPages(o.sz), !.base = NPages(o.sz),
                         !.lim = NPages(end), !.nsz = end, !.then = "load"]
        /\ op' = [op EXCEPT ![p] = n]
  BY <1>3 DEF LoadSegment, Enter
<1>4. PICK n :
        /\ n = [o EXCEPT !.pc = "alloc", !.a = NPages(o.sz), !.base = NPages(o.sz),
                         !.lim = NPages(end), !.nsz = end, !.then = "load"]
        /\ op' = [op EXCEPT ![p] = n]
  BY <1>a
<1>5. /\ n.pc = "alloc" /\ n.call = o.call /\ n.q = q /\ n.t = t /\ n.sz = o.sz /\ n.nsz = end
      /\ n.a = NPages(o.sz) /\ n.base = NPages(o.sz) /\ n.lim = NPages(end)
  BY <1>3, <1>4 DEF Op
<1>6. UserPages(n) = UserPages(o) /\ FixedPages(n) = FixedPages(o)
  BY <1>3, <1>5 DEF UserPages, FixedPages, InFixed, InLoop
<1>7. Bounds(p, n)
  BY <1>3, <1>5 DEF Bounds, InFixed, InLoop, Began
<1>8. Working(p, n)
  BY <1>3, <1>5, <1>6, <1>7 DEF Working, Freeing, Gone, Building
<1>9. /\ op' = [op EXCEPT ![p] = n] /\ n.pc # "user" /\ n.call = o.call /\ n.q = q
      /\ o.call = "userinit" => n.pc \in BootPc
  BY <1>3, <1>4, <1>5
<1> QED
  BY <1>1, <1>2, <1>8, <1>9, MoveImage

LEMMA AllocStackImage ==
    ASSUME IInv, TypeOK', ImgInv, NEW p \in Proc, AllocStack(p)
    PROVE  ImgInv'
<1>1. op[p].pc = "load" /\ UNCHANGED <<procVars, memVars, alias, panicked>>
  BY DEF AllocStack, At
<1>2. PICK o \in Op, q \in Proc, t \in Table : Doing(p, o, q, t)
  BY <1>1, AtWork
<1>3. /\ o.pc = "load" /\ o = op[p] /\ q = o.q /\ t = o.t /\ o.call = "exec"
      /\ Working(p, o) /\ Bounds(p, o) /\ o.sz \in 0 .. MaxSz /\ NPages(o.sz) \in Nat
  BY <1>1, <1>2, NPagesRange DEF Doing, Working, Cursor, Op
<1>4. PICK up : up = NPages(o.sz) * PGSIZE
  OBVIOUS
<1>5. NPages(up) = NPages(o.sz)
  BY <1>3, <1>4, NPagesFacts
<1>6. PICK n :
        /\ n = [o EXCEPT !.pc = "alloc", !.a = NPages(up), !.base = NPages(up), !.sz = up,
                         !.lim = NPages(up + 2 * PGSIZE), !.nsz = up + 2 * PGSIZE, !.then = "args"]
        /\ op' = [op EXCEPT ![p] = n]
  BY <1>3, <1>4 DEF AllocStack, Enter
<1>7. /\ n.pc = "alloc" /\ n.call = o.call /\ n.q = q /\ n.t = t /\ n.sz = up
      /\ n.nsz = up + 2 * PGSIZE /\ n.lim = NPages(n.nsz)
      /\ n.a = NPages(up) /\ n.base = NPages(up)
  BY <1>3, <1>6 DEF Op
<1>8. UserPages(n) = UserPages(o) /\ FixedPages(n) = FixedPages(o)
  BY <1>3, <1>5, <1>7 DEF UserPages, FixedPages, InFixed, InLoop
<1>9. Bounds(p, n)
  BY <1>3, <1>5, <1>7 DEF Bounds, InFixed, InLoop, Began
<1>10. Working(p, n)
  BY <1>3, <1>7, <1>8, <1>9 DEF Working, Freeing, Gone, Building
<1>11. /\ op' = [op EXCEPT ![p] = n] /\ n.pc # "user" /\ n.call = o.call /\ n.q = q
       /\ o.call = "userinit" => n.pc \in BootPc
  BY <1>3, <1>6, <1>7
<1> QED
  BY <1>1, <1>2, <1>10, <1>11, MoveImage

LEMMA ExecFailsImage ==
    ASSUME IInv, TypeOK', ImgInv, NEW p \in Proc, ExecFails(p)
    PROVE  ImgInv'
<1>1. op[p].pc \in {"load", "args"} /\ UNCHANGED <<procVars, memVars, alias, panicked>>
  BY DEF ExecFails
<1>2. PICK o \in Op, q \in Proc, t \in Table : Doing(p, o, q, t)
  BY <1>1, AtWork
<1>3. /\ o.pc \in {"load", "args"} /\ o = op[p] /\ q = o.q /\ t = o.t /\ o.call = "exec"
      /\ Working(p, o) /\ Bounds(p, o)
  BY <1>1, <1>2 DEF Doing, Working, Cursor
<1>4. PICK n : n = [o EXCEPT !.pc = "bad"] /\ op' = [op EXCEPT ![p] = n]
  BY <1>3 DEF ExecFails, Goto
<1>5. n.pc = "bad" /\ n.call = o.call /\ n.q = q /\ n.t = t /\ n.sz = o.sz
  BY <1>3, <1>4 DEF Op
<1>6. UserPages(n) = UserPages(o) /\ FixedPages(n) = FixedPages(o)
  BY <1>3, <1>5 DEF UserPages, FixedPages, InFixed, InLoop
<1>7. Bounds(p, n)
  BY <1>3, <1>5 DEF Bounds, InFixed, InLoop
<1>8. Working(p, n)
  BY <1>3, <1>5, <1>6, <1>7 DEF Working, Freeing, Gone, Building
<1> QED
  BY <1>1, <1>2, <1>3, <1>4, <1>5, <1>8, MoveImage

LEMMA UnmapDoneImage ==
    ASSUME IInv, TypeOK', ImgInv, NEW p \in Proc, UnmapDone(p)
    PROVE  ImgInv'
<1>1. op[p].pc \in {"unmap", "uvmfree"} /\ UNCHANGED <<procVars, memVars, alias, panicked>>
  BY DEF UnmapDone
<1>2. PICK o \in Op, q \in Proc, t \in Table : Doing(p, o, q, t)
  BY <1>1, AtWork
<1>3. /\ o.pc \in {"unmap", "uvmfree"} /\ o = op[p] /\ q = o.q /\ t = o.t /\ q = t[1]
      /\ o.a = o.lim /\ Working(p, o) /\ Bounds(p, o) /\ Cursor(o) /\ o.call # "userinit"
      /\ o.a \in Nat /\ o.base \in Nat /\ o.base - 1 \in Int
  <2>1. o.a \in 0 .. MAXVPN /\ o.lim \in 0 .. MAXVPN /\ o.base \in 0 .. MAXVPN /\ MAXVPN \in Nat
    BY VpnFacts DEF Op
  <2> QED
    BY <1>1, <1>2, <2>1 DEF Doing, UnmapDone, Working, Bounds, BootPc
<1>4. CASE o.pc = "uvmfree"
  <2>1. PICK n \in Op : n = [o EXCEPT !.pc = "freewalk"]
    BY DEF Op, Pc
  <2>2. /\ n.pc = "freewalk" /\ n.call = o.call /\ n.q = q /\ n.t = t /\ n.then = o.then
        /\ op' = [op EXCEPT ![p] = n] /\ n.then # "fptf"
    BY <1>3, <1>4, <2>1 DEF Op, UnmapDone, Goto, Cursor, At
  <2>3. UserPages(n) = UserPages(o) /\ FixedPages(n) = FixedPages(o)
    <3>1. UserPages(o) = o.a .. o.lim - 1 /\ UserPages(n) = {}
      BY <1>4, <2>2 DEF UserPages, InLoop
    <3>2. o.a .. o.lim - 1 = {}
      BY <1>3
    <3> QED
      BY <1>4, <2>2, <3>1, <3>2 DEF FixedPages, InFixed
  <2>4. Working(p, n)
    BY <1>3, <1>4, <2>2, <2>3 DEF Working, Bounds, InFixed, InLoop, Freeing, Gone, Building
  <2> QED
    BY <1>1, <1>2, <1>3, <2>2, <2>4, MoveImage
<1>5. ASSUME o.pc = "unmap"
      PROVE  /\ Holds(t, 0 .. o.base - 1) /\ Points(t, Fixed)
             /\ HasVars(q) /\ (pagetable[q] # NoTable => Stamped(q))
             /\ \A v \in Fixed : alias[t][v] # Null
  <2>1. UserPages(o) = (0 .. o.base - 1) \cup (o.a .. o.lim - 1) /\ FixedPages(o) = Fixed
    BY <1>5 DEF UserPages, FixedPages, InFixed, InLoop
  <2>2. (0 .. o.base - 1) \cup (o.a .. o.lim - 1) = 0 .. o.base - 1
    BY <1>3
  <2>3. Holds(t, 0 .. o.base - 1) /\ Points(t, Fixed)
    BY <1>3, <1>5, <2>1, <2>2 DEF Working, Building
  <2>4. HasVars(q) /\ (pagetable[q] # NoTable => Stamped(q))
    BY <1>3, <1>5 DEF Working, Freeing, Gone, HasVars
  <2>5. USYSCALL \in Nat /\ TRAPFRAME = USYSCALL + 1 /\ TRAMPOLINE = USYSCALL + 2
    BY VpnFacts
  <2>6. \A v \in Fixed : Expect(q, v) # Null
    BY <2>4, <2>5, ConstantsAssumption DEF Expect, Fixed, HasVars
  <2> QED
    BY <1>3, <2>3, <2>4, <2>6 DEF Points
<1>6. CASE o.pc = "unmap" /\ o.call = "fork"
  <2>1. PICK n \in Op : n = [o EXCEPT !.pc = "fptf"]
    BY DEF Op, Pc
  <2>2. o.then = "fptf" /\ state[q] = "USED" /\ pagetable[q] = t
    BY <1>2, <1>3, <1>6 DEF Cursor, Doing, Worker, TableOf, Holding
  <2>3. /\ n.pc = "fptf" /\ n.call = o.call /\ n.q = q /\ n.t = t
        /\ op' = [op EXCEPT ![p] = n]
    BY <1>3, <1>6, <2>1, <2>2 DEF Op, UnmapDone, Goto, At
  <2>4. 0 .. o.base - 1 = 0 .. NPages(sz[q]) - 1
    BY <1>3, <1>6, <2>2, NPagesFacts DEF Bounds, Began, ImgInv, Sizes
  <2>5. Working(p, n)
    BY <1>5, <1>6, <2>2, <2>3, <2>4 DEF Working, Bounds, InFixed, InLoop, Freeing, Gone, Building
  <2> QED
    BY <1>1, <1>2, <1>3, <2>3, <2>5, MoveImage
<1>7. CASE o.pc = "unmap" /\ o.call = "exec"
  <2>1. PICK n \in Op : n = [o EXCEPT !.pc = "bad"]
    BY DEF Op, Pc
  <2>2. o.then = "bad" /\ o.base = NPages(o.sz)
    BY <1>3, <1>7 DEF Cursor, Bounds, Began
  <2>3. /\ n.pc = "bad" /\ n.call = o.call /\ n.q = q /\ n.t = t /\ n.sz = o.sz
        /\ op' = [op EXCEPT ![p] = n]
    BY <1>3, <1>7, <2>1, <2>2 DEF Op, UnmapDone, Goto, At
  <2>4. UserPages(n) = 0 .. o.base - 1 /\ FixedPages(n) = Fixed
    BY <2>2, <2>3 DEF UserPages, FixedPages, InFixed, InLoop
  <2>5. Bounds(p, n)
    BY <1>3, <1>7, <2>3 DEF Bounds, InFixed, InLoop
  <2>6. Working(p, n)
    BY <1>3, <1>5, <1>7, <2>3, <2>4, <2>5 DEF Working, Freeing, Gone, HasVars
  <2> QED
    BY <1>1, <1>2, <1>3, <2>3, <2>6, MoveImage
<1>8. CASE o.pc = "unmap" /\ o.call = "sbrk" /\ o.then = "setsz"
  <2>1. PICK n \in Op : n = [o EXCEPT !.pc = "setsz"]
    BY DEF Op, Pc
  <2>2. /\ n.pc = "setsz" /\ n.call = o.call /\ n.q = q /\ n.t = t /\ n.nsz = o.nsz
        /\ op' = [op EXCEPT ![p] = n]
    BY <1>3, <1>8, <2>1 DEF Op, UnmapDone, Goto, At
  <2>3. UserPages(n) = 0 .. o.base - 1 /\ FixedPages(n) = Fixed
    BY <1>3, <1>8, <2>2 DEF UserPages, FixedPages, InFixed, InLoop, Bounds
  <2>4. Bounds(p, n)
    BY <1>3, <1>8, <2>2 DEF Bounds, InFixed, InLoop
  <2>5. Working(p, n)
    BY <1>3, <1>5, <1>8, <2>2, <2>3, <2>4 DEF Working, Freeing, Gone, HasVars
  <2> QED
    BY <1>1, <1>2, <1>3, <2>2, <2>5, MoveImage
<1>9. CASE o.pc = "unmap" /\ o.call = "sbrk" /\ o.then = "user"
  <2>1. op' = [op EXCEPT ![p] = Idle]
    BY <1>3, <1>9 DEF UnmapDone, Goto, At
  <2>2. q = p /\ state[q] = "RUNNABLE" /\ pagetable[q] = t /\ t # NoTable
    BY <1>2, <1>3, <1>9 DEF Doing, TableOf, Holding
  <2>3. o.base = NPages(sz[q])
    BY <1>3, <1>9 DEF Bounds, Began
  <2>4. Complete(q)
    BY <1>5, <1>9, <2>2, <2>3 DEF Complete
  <2> QED
    BY <1>1, <1>2, <1>3, <1>5, <1>9, <2>1, <2>2, <2>4, LeaveImage
<1> QED
  BY <1>3, <1>4, <1>6, <1>7, <1>8, <1>9 DEF Cursor

LEMMA UnmapPageImage ==
    ASSUME IInv, TypeOK', ImgInv, NEW p \in Proc, UnmapPage(p)
    PROVE  ImgInv'
<1>1. op[p].pc \in {"unmap", "uvmfree"} /\ op[p].a < op[p].lim
  BY DEF UnmapPage
<1>2. PICK o \in Op, q \in Proc, t \in Table : Doing(p, o, q, t)
  BY <1>1, AtWork
<1>3. /\ o.pc \in {"unmap", "uvmfree"} /\ o = op[p] /\ q = o.q /\ t = o.t /\ q = t[1]
      /\ o.a < o.lim /\ Working(p, o) /\ Bounds(p, o) /\ Cursor(o) /\ o.call # "userinit"
      /\ o.lim <= NPages(MaxSz) /\ Linked(t)
  BY <1>1, <1>2 DEF Doing, Working, BootPc, Cursor
<1>4. o.a \in Nat /\ o.base \in Nat /\ o.lim \in Nat /\ NPages(MaxSz) \in Nat
  <2>1. o.a \in 0 .. MAXVPN /\ o.lim \in 0 .. MAXVPN /\ o.base \in 0 .. MAXVPN /\ MAXVPN \in Nat
    BY VpnFacts DEF Op
  <2> QED
    BY <2>1, VpnFacts
<1>5. o.a \in UserVpn /\ o.a \in Vpn /\ o.a \notin Fixed /\ o.a \in o.a .. o.lim - 1
  BY <1>3, <1>4, VpnFacts DEF UserVpn, Vpn
<1>6. Holds(t, UserPages(o)) /\ Points(t, FixedPages(o)) /\ o.a \in UserPages(o)
  BY <1>3, <1>5 DEF Working, Building, UserPages, InLoop
<1> DEFINE s == Ent("leaf", t, o.a)
<1>7. s \in Slot /\ ptr[s] # Null /\ s[1] = "leaf" /\ s[2] = t[1] /\ s[3] = t[2]
  BY <1>5, <1>6, SlotFacts DEF Holds, Ent
<1>8. Mapped(t, o.a) /\ Walks(t, o.a)
  BY <1>3, <1>5, <1>7 DEF Mapped, Walks, Linked
<1>9. /\ Kfree(s) /\ UNCHANGED <<procVars, alias, panicked>>
      /\ op' = [op EXCEPT ![p] = [o EXCEPT !.a = @ + 1]]
  BY <1>3, <1>8 DEF UnmapPage, Enter
<1>10. op'[p] = [o EXCEPT !.a = @ + 1] /\ \A r \in Proc \ {p} : op'[r] = op[r]
  BY <1>2, <1>9 DEF Doing
<1>11. /\ op'[p].pc = o.pc /\ op'[p].q = q /\ op'[p].call = o.call /\ op'[p].t = t
       /\ op'[p].a = o.a + 1 /\ op'[p].lim = o.lim /\ op'[p].base = o.base
       /\ op'[p].nsz = o.nsz /\ op'[p].sz = o.sz /\ op'[p].then = o.then
  BY <1>3, <1>10 DEF Op
<1>12. OnlySlot(s) /\ Stamps(s) /\ ptr'[s] = Null
  BY <1>7, <1>9, KfreeOwn, KfreeStamps DEF IInv, OnlySlot
<1>13. /\ OnlyFor(q)
       /\ \A T \in Table : T # t => TableSame(T) /\ Linked(T)'
       /\ ptr'[Var("trapframe", q)] = ptr[Var("trapframe", q)]
       /\ ptr'[Var("usyscall", q)] = ptr[Var("usyscall", q)]
       /\ o.call = "exec" => Complete(q)'
       /\ ptr[Var("usyscall", q)] # Null /\ Stamped(q) => Stamped(q)'
       /\ \A F : Points(t, F) => Points(t, F)'
  BY <1>2, <1>7, <1>9, <1>12, TableStep
<1>14. /\ ptr'[Root(t)] = ptr[Root(t)]
       /\ \A v \in Vpn : /\ ptr'[Ent("l1", t, L1(v))] = ptr[Ent("l1", t, L1(v))]
                         /\ ptr'[Ent("l0", t, L0(v))] = ptr[Ent("l0", t, L0(v))]
       /\ \A v \in UserVpn : v # o.a => ptr'[Ent("leaf", t, v)] = ptr[Ent("leaf", t, v)]
  <2>1. \A k, i : Ent(k, t, i) = s => k = "leaf" /\ i = o.a
    BY DEF Ent
  <2>2. Root(t) # s
    BY <2>1 DEF Root
  <2> QED
    BY <1>12, <2>1, <2>2, SlotFacts DEF OnlySlot
<1>15. Linked(t)'
  <2>1. \A v \in Vpn : Mapped(t, v)' => Mapped(t, v)
    BY <1>9, <1>12, <1>14, VpnFacts DEF Mapped
  <2> QED
    BY <1>3, <1>14, <2>1, MapLinked
<1>16. Holds(op[p].t, UserPages(op[p]))' /\ Points(op[p].t, FixedPages(op[p]))'
  <2>1. FixedPages(op[p])' = FixedPages(o)
    BY <1>3, <1>11 DEF FixedPages, InFixed
  <2>2. \A v \in UserVpn : v \in UserPages(op[p])' <=> v \in UserPages(o) /\ v # o.a
    <3>1. CASE o.pc = "unmap"
      <4>1. UserPages(op[p])' = (0 .. o.base - 1) \cup (o.a + 1 .. o.lim - 1)
            /\ UserPages(o) = (0 .. o.base - 1) \cup (o.a .. o.lim - 1)
        BY <1>11, <3>1 DEF UserPages, InLoop
      <4>2. o.base <= o.a
        BY <1>3, <3>1 DEF Bounds
      <4> QED
        BY <1>4, <4>1, <4>2 DEF UserVpn
    <3>2. CASE o.pc = "uvmfree"
      <4>1. UserPages(op[p])' = o.a + 1 .. o.lim - 1 /\ UserPages(o) = o.a .. o.lim - 1
        BY <1>11, <3>2 DEF UserPages, InLoop
      <4> QED
        BY <1>4, <4>1 DEF UserVpn
    <3> QED
      BY <1>3, <3>1, <3>2
  <2>3. ptr'[Root(t)] # Null
    BY <1>6, <1>14 DEF Holds
  <2>4. \A v \in UserVpn : ptr'[Ent("leaf", t, v)] # Null <=> v \in UserPages(op[p])'
    BY <1>6, <1>12, <1>14, <2>2 DEF Holds
  <2> QED
    BY <1>6, <1>11, <1>13, <2>1, <2>3, <2>4 DEF Holds, Points
<1>17. Bounds(p, op[p])'
  <2>1. Began(op[p])' = Began(o)
    BY <1>3, <1>9, <1>11 DEF Began, procVars
  <2> QED
    BY <1>3, <1>4, <1>9, <1>11, <2>1 DEF Bounds, InFixed, InLoop, procVars
<1>18. Working(p, op[p])'
  BY <1>3, <1>9, <1>11, <1>13, <1>16, <1>17 DEF Working, Freeing, Gone, procVars
<1>19. \A T \in Table : Linked(T)'
  BY <1>13, <1>15
<1> QED
  BY <1>2, <1>3, <1>9, <1>10, <1>11, <1>13, <1>18, <1>19, KernelImage DEF Doing, procVars

LEMMA FreewalkImage ==
    ASSUME IInv, TypeOK', ImgInv, NEW p \in Proc, Freewalk(p)
    PROVE  ImgInv'
<1>1. op[p].pc = "freewalk"
  BY DEF Freewalk, At
<1>2. PICK o \in Op, q \in Proc, t \in Table : Doing(p, o, q, t)
  BY <1>1, AtWork
<1>3. /\ o.pc = "freewalk" /\ o = op[p] /\ q = o.q /\ t = o.t /\ q = t[1]
      /\ Working(p, o) /\ Bounds(p, o) /\ Cursor(o) /\ o.call # "userinit" /\ Linked(t)
  BY <1>1, <1>2 DEF Doing, Working, BootPc
<1>4. Holds(t, {}) /\ Points(t, {})
  BY <1>3 DEF Working, Building, UserPages, FixedPages, InLoop, InFixed
<1>5. \A v \in Vpn : ~ Mapped(t, v)
  BY <1>4, VpnFacts DEF Holds, Points, Mapped
<1>6. PICK s \in FreewalkNext(t) :
        /\ Kfree(s) /\ UNCHANGED <<procVars, alias, panicked>>
        /\ IF s[1] = "root" THEN Goto(p, o.then) ELSE UNCHANGED op
  BY <1>3, <1>5 DEF Freewalk
<1>7. /\ s \in Slot /\ ptr[s] # Null /\ (s[1] = "root" => s = Root(t))
      /\ s[1] \in {"root", "l1", "l0"} /\ s[2] = t[1] /\ s[3] = t[2]
  <2>1. s \in Slot /\ ptr[s] # Null /\ (s[1] = "root" => s = Root(t))
    BY FreewalkNextFacts
  <2>2. s[1] \in {"root", "l1", "l0"} /\ <<s[2], s[3]>> = t
    BY DEF FreewalkNext, TablePages
  <2> QED
    BY <2>1, <2>2
<1>8. OnlySlot(s) /\ Stamps(s) /\ ptr'[s] = Null
  BY <1>6, <1>7, KfreeOwn, KfreeStamps DEF IInv, OnlySlot
<1>9. /\ OnlyFor(q)
      /\ \A T \in Table : T # t => TableSame(T) /\ Linked(T)'
      /\ ptr'[Var("trapframe", q)] = ptr[Var("trapframe", q)]
      /\ ptr'[Var("usyscall", q)] = ptr[Var("usyscall", q)]
      /\ o.call = "exec" => Complete(q)'
      /\ ptr[Var("usyscall", q)] # Null /\ Stamped(q) => Stamped(q)'
      /\ Points(t, {})'
  BY <1>2, <1>4, <1>6, <1>7, <1>8, TableStep
<1>10. Linked(t)'
  BY <1>3, <1>5, <1>6, <1>8, FreewalkLinked
<1>11. \A T \in Table : Linked(T)'
  BY <1>9, <1>10
<1>12. CASE s[1] # "root"
  <2>1. op' = op /\ op'[p].pc = o.pc /\ op'[p].q = q /\ op'[p].call = o.call /\ op'[p].t = t
        /\ op'[p] = o
    BY <1>3, <1>6, <1>12
  <2>2. /\ ptr'[Root(t)] = ptr[Root(t)]
        /\ \A v \in UserVpn : ptr'[Ent("leaf", t, v)] = ptr[Ent("leaf", t, v)]
    <3>1. Root(t) # s /\ \A v : Ent("leaf", t, v) # s
      BY <1>7, <1>12 DEF Root, Ent
    <3> QED
      BY <1>8, <3>1, SlotFacts DEF OnlySlot
  <2>3. Holds(t, {})'
    BY <1>4, <2>2 DEF Holds
  <2>4. UserPages(op[p])' = {} /\ FixedPages(op[p])' = {}
    BY <1>3, <2>1 DEF UserPages, FixedPages, InFixed, InLoop
  <2>5. Holds(op[p].t, UserPages(op[p]))' /\ Points(op[p].t, FixedPages(op[p]))'
    BY <1>9, <2>1, <2>3, <2>4 DEF Holds, Points
  <2>6. Bounds(p, op[p])'
    BY <1>3, <1>6, <2>1 DEF Bounds, InFixed, InLoop, procVars
  <2>7. Working(p, op[p])'
    BY <1>3, <1>6, <1>9, <2>1, <2>5, <2>6 DEF Working, Freeing, Gone, procVars
  <2> QED
    BY <1>2, <1>3, <1>6, <1>9, <1>11, <2>1, <2>7, KernelImage DEF Doing, procVars
<1>13. CASE s[1] = "root" /\ o.then = "user"
  <2>1. op' = [op EXCEPT ![p] = Idle] /\ o.call = "exec"
    BY <1>3, <1>6, <1>13 DEF Goto, Cursor
  <2>2. op'[p].pc = "user" /\ op'[p].call = "none" /\ \A r \in Proc \ {p} : op'[r] = op[r]
    BY <1>2, <2>1 DEF Doing, Idle
  <2>3. Resting(q)'
    <3>1. HasVars(q) /\ Stamped(q) /\ state[q] = "RUNNABLE"
      BY <1>2, <1>3, <1>13, <2>1 DEF Working, Freeing, Gone, HasVars, Doing
    <3>2. Stamped(q)' /\ HasVars(q)' /\ Complete(q)'
      BY <1>9, <2>1, <3>1 DEF HasVars
    <3> QED
      BY <1>6, <3>1, <3>2 DEF Resting, procVars
  <2> QED
    BY <1>2, <1>3, <1>6, <1>9, <1>11, <2>2, <2>3, KernelImage DEF Doing, procVars
<1>14. CASE s[1] = "root" /\ o.then # "user"
  <2>1. o.then \in {"fptf", "fpend"} /\ o.call # "exec"
    BY <1>3, <1>14 DEF Cursor
  <2>2. op' = [op EXCEPT ![p] = [o EXCEPT !.pc = o.then]]
    BY <1>3, <1>6, <1>14 DEF Goto
  <2>3. op'[p] = [o EXCEPT !.pc = o.then] /\ \A r \in Proc \ {p} : op'[r] = op[r]
    BY <1>2, <2>2 DEF Doing
  <2>4. op'[p].pc = o.then /\ op'[p].q = q /\ op'[p].call = o.call /\ op'[p].t = t
    BY <1>3, <2>3 DEF Op
  <2>5. o.then = "fptf" => pagetable'[q] = NoTable
    BY <1>3, <1>6, <2>1 DEF Bounds, procVars
  <2>6. Bounds(p, op[p])'
    BY <1>3, <1>6, <2>1, <2>4 DEF Bounds, InFixed, InLoop, procVars
  <2>7. Working(p, op[p])'
    BY <2>1, <2>4, <2>5, <2>6 DEF Working, Freeing, Gone, Building
  <2> QED
    BY <1>2, <1>3, <1>6, <1>9, <1>11, <2>1, <2>3, <2>4, <2>7, KernelImage DEF Doing, procVars
<1> QED
  BY <1>12, <1>13, <1>14

\* kfree() of p->trapframe or p->usyscall by freeproc().
LEMMA FreeVarImage ==
    ASSUME IInv, TypeOK', ImgInv, NEW p \in Proc, NEW o \in Op, NEW q \in Proc, NEW t \in Table,
           Doing(p, o, q, t), o.call # "userinit", o.call # "exec", Freeing(o),
           NEW k \in {"trapframe", "usyscall"},
           IF ptr[Var(k, q)] # Null THEN Kfree(Var(k, q)) ELSE UNCHANGED memVars,
           UNCHANGED <<procVars, alias, panicked>>,
           NEW n, op' = [op EXCEPT ![p] = n], n.pc \in {"fpus", "fppt"}, n.q = q, n.call = o.call
    PROVE  ImgInv'
<1> DEFINE s == Var(k, q)
<1>1. op'[p] = n /\ (\A r \in Proc \ {p} : op'[r] = op[r]) /\ q = o.q /\ q = t[1]
      /\ Working(p, o)
  BY DEF Doing
<1>2. s \in Slot /\ s[1] \in {"trapframe", "usyscall"} /\ s[2] = q
  BY SlotFacts DEF Var
<1>3. OnlyFor(q) /\ \A T \in Table : TableSame(T)
  <2>1. CASE ptr[s] # Null
    <3>1. OnlySlot(s) /\ Stamps(s)
      BY <1>2, <2>1, KfreeOwn, KfreeStamps DEF IInv, OnlySlot
    <3> QED
      BY <1>2, <3>1, OneSlotOnlyFor, VarSlotFrame DEF procVars
  <2>2. CASE ptr[s] = Null
    <3>1. UNCHANGED <<ptr, upid, alias>>
      BY <2>2 DEF memVars
    <3> QED
      BY <3>1, NoSlotOnlyFor DEF procVars, TableSame
  <2> QED
    BY <2>1, <2>2
<1>4. \A T \in Table : Linked(T)'
  BY <1>3, StillTables
<1>5. pagetable[q] # NoTable => /\ Holds(pagetable[q], 0 .. NPages(sz[q]) - 1)'
                                /\ \A v \in Fixed : alias'[pagetable[q]][v] # Null
  <2> SUFFICES ASSUME pagetable[q] # NoTable
               PROVE  /\ Holds(pagetable[q], 0 .. NPages(sz[q]) - 1)'
                      /\ \A v \in Fixed : alias'[pagetable[q]][v] # Null
    OBVIOUS
  <2>1. PICK T, U : T \in Table /\ T = pagetable[q] /\ U = 0 .. NPages(sz[q]) - 1
    BY OwnTable
  <2>2. Holds(T, U) /\ \A v \in Fixed : alias[T][v] # Null
    BY <1>1, <2>1 DEF Working
  <2>3. Holds(T, U)' /\ alias'[T] = alias[T]
    BY <1>3, <2>1, <2>2, SameHolds
  <2>4. pagetable'[q] = T /\ 0 .. NPages(sz'[q]) - 1 = U
    BY <2>1 DEF procVars
  <2> QED
    BY <2>1, <2>2, <2>3, <2>4 DEF Holds
<1>6. Working(p, op[p])'
  <2>1. pagetable'[q] = pagetable[q] /\ sz'[q] = sz[q]
    BY DEF procVars
  <2>2. Bounds(p, op[p])'
    BY <1>1 DEF Bounds, InFixed, InLoop
  <2> QED
    BY <1>1, <1>5, <2>1, <2>2 DEF Working, Freeing, Gone, Building
<1> QED
  BY <1>1, <1>3, <1>4, <1>6, KernelImage DEF Doing, procVars

LEMMA FreeTrapframeImage ==
    ASSUME IInv, TypeOK', ImgInv, NEW p \in Proc, FreeTrapframe(p)
    PROVE  ImgInv'
<1>1. op[p].pc = "fptf"
  BY DEF FreeTrapframe, At
<1>2. PICK o \in Op, q \in Proc, t \in Table : Doing(p, o, q, t)
  BY <1>1, AtWork
<1>3. o.pc = "fptf" /\ o = op[p] /\ q = o.q /\ o.call # "userinit" /\ o.call # "exec" /\ Freeing(o)
  BY <1>1, <1>2 DEF Doing, BootPc, Cursor, Freeing
<1>4. PICK n \in Op : n = [o EXCEPT !.pc = "fpus"]
  BY DEF Op, Pc
<1>5. /\ n.pc = "fpus" /\ n.q = q /\ n.call = o.call /\ op' = [op EXCEPT ![p] = n]
      /\ IF ptr[Var("trapframe", q)] # Null THEN Kfree(Var("trapframe", q)) ELSE UNCHANGED memVars
      /\ UNCHANGED <<procVars, alias, panicked>>
  BY <1>3, <1>4 DEF FreeTrapframe, Goto, Op
<1> QED
  BY <1>2, <1>3, <1>5, FreeVarImage

LEMMA FreeUsyscallImage ==
    ASSUME IInv, TypeOK', ImgInv, NEW p \in Proc, FreeUsyscall(p)
    PROVE  ImgInv'
<1>1. op[p].pc = "fpus"
  BY DEF FreeUsyscall, At
<1>2. PICK o \in Op, q \in Proc, t \in Table : Doing(p, o, q, t)
  BY <1>1, AtWork
<1>3. o.pc = "fpus" /\ o = op[p] /\ q = o.q /\ o.call # "userinit" /\ o.call # "exec" /\ Freeing(o)
  BY <1>1, <1>2 DEF Doing, BootPc, Cursor, Freeing
<1>4. PICK n \in Op : n = [o EXCEPT !.pc = "fppt"]
  BY DEF Op, Pc
<1>5. /\ n.pc = "fppt" /\ n.q = q /\ n.call = o.call /\ op' = [op EXCEPT ![p] = n]
      /\ IF ptr[Var("usyscall", q)] # Null THEN Kfree(Var("usyscall", q)) ELSE UNCHANGED memVars
      /\ UNCHANGED <<procVars, alias, panicked>>
  BY <1>3, <1>4 DEF FreeUsyscall, Goto, Op
<1> QED
  BY <1>2, <1>3, <1>5, FreeVarImage

\* uvmcopy() finds every page of the parent, which nobody else works on.
LEMMA ParentComplete ==
    ASSUME IInv, ImgInv, NEW p \in Proc, Busy(p), op[p].call = "fork"
    PROVE  Complete(p) /\ state[p] = "RUNNABLE" /\ pagetable[p] \in Table
<1>1. Worker(p, op[p])
  BY DEF IInv, Workers
<1>2. state[p] = "RUNNABLE" /\ op[p].q # p
  BY <1>1 DEF Worker
<1>3. ASSUME NEW r \in Proc, Busy(r), op[r].q = p PROVE FALSE
  <2>1. Worker(r, op[r]) /\ op[r].call \in Call
    BY <1>3, InKernel DEF Busy, Op
  <2> QED
    BY <1>2, <1>3, <2>1 DEF Worker, Call
<1>4. Resting(p)
  BY <1>3 DEF ImgInv, Rests, Unworked
<1>5. pagetable[p] # NoTable
  BY <1>2 DEF IInv, Tables
<1> QED
  BY <1>2, <1>4, <1>5, OwnTable DEF Resting

LEMMA AllocPageImage ==
    ASSUME IInv, TypeOK', ImgInv, NEW p \in Proc, AllocPage(p)
    PROVE  ImgInv'
<1>1. op[p].pc = "alloc" /\ op[p].a < op[p].lim
  BY DEF AllocPage, At
<1>2. PICK o \in Op, q \in Proc, t \in Table : Doing(p, o, q, t)
  BY <1>1, AtWork
<1>3. /\ o.pc = "alloc" /\ q = o.q /\ o = op[p] /\ t = o.t /\ t[1] = q /\ Linked(t) /\ InLoop(o)
      /\ op \in [Proc -> Op] /\ Busy(p) /\ o.a < o.lim /\ Working(p, o) /\ Bounds(p, o)
      /\ Cursor(o) /\ o.lim = NPages(o.nsz)
      /\ ptr[Var("mem", p)] = Null
  BY <1>1, <1>2 DEF Doing, InLoop, Working, Bounds
<1>4. /\ ptr[Root(t)] # Null /\ ptr[Var("trapframe", q)] # Null /\ ptr[Var("usyscall", q)] # Null
      /\ (pagetable[q] # NoTable => Stamped(q)) /\ (o.call = "exec" => Complete(q))
      /\ Holds(t, UserPages(o)) /\ Points(t, FixedPages(o))
  BY <1>2, <1>3, Mapping
<1>5. o.a \notin Fixed /\ o.a \in UserVpn /\ o.a \in Vpn
  <2>1. o.a \notin Fixed
    BY <1>3, MoveToMap
  <2>2. o.a \in 0 .. MAXVPN /\ o.lim \in 0 .. MAXVPN /\ MAXVPN \in Nat
    BY VpnFacts DEF Op
  <2>3. o.lim <= NPages(MaxSz) /\ NPages(MaxSz) \in Nat
    BY <1>3, VpnFacts DEF Cursor
  <2> QED
    BY <1>3, <2>1, <2>2, <2>3 DEF UserVpn, Vpn
<1>6. ASSUME o.call = "fork" PROVE Walks(pagetable[p], o.a) /\ Mapped(pagetable[p], o.a)
  <2>1. Complete(p) /\ pagetable[p] \in Table
    BY <1>3, <1>6, ParentComplete
  <2>2. o.lim = NPages(sz[p])
    BY <1>3, <1>6 DEF Bounds
  <2>3. o.a \in 0 .. NPages(sz[p]) - 1
    <3>1. o.a \in 0 .. MAXVPN /\ o.lim \in 0 .. MAXVPN /\ MAXVPN \in Nat
      BY VpnFacts DEF Op
    <3> QED
      BY <1>3, <2>2, <3>1
  <2>4. Mapped(pagetable[p], o.a)
    BY <1>5, <2>1, <2>3 DEF Complete, Holds, Mapped
  <2> QED
    BY <1>5, <2>1, <2>4 DEF ImgInv, Trees, Linked, Walks
<1> DEFINE s == Var("mem", p)
<1>7. s \in Slot /\ s[1] = "mem" /\ Var("usyscall", q) # s /\ Var("trapframe", q) # s
  BY SlotFacts, SlotsDiffer DEF Var
<1>8. o.call = "userinit" => ~ OutOfMemory
  <2>1. o.call = "userinit" => p = InitProc /\ op[InitProc].call = "userinit"
    BY <1>2, <1>3 DEF Doing
  <2>2. p = InitProc => s \in BootSlots
    BY DEF BootSlots
  <2> QED
    BY <1>3, <2>1, <2>2, BootMemory
<1>9. /\ IF OutOfMemory THEN Enter(p, UndoLoop(o)) /\ UNCHANGED memVars
                        ELSE Kalloc(s) /\ Goto(p, "map")
      /\ UNCHANGED <<procVars, alias, panicked>>
  BY <1>3, <1>6, <1>8 DEF AllocPage
<1>10. PICK U : U = UserPages(o)
  OBVIOUS
<1>11. FixedPages(o) = Fixed
  BY <1>3 DEF FixedPages, InFixed
<1>12. CASE OutOfMemory
  <2>1. op' = [op EXCEPT ![p] = UndoLoop(o)] /\ UNCHANGED memVars
    BY <1>9, <1>12 DEF Enter
  <2>2. op'[p] = UndoLoop(o) /\ \A r \in Proc \ {p} : op'[r] = op[r]
    BY <1>3, <2>1
  <2>3. /\ op'[p].pc = "unmap" /\ op'[p].q = q /\ op'[p].call = o.call /\ op'[p].t = t
        /\ UserPages(op[p])' = UserPages(o) /\ FixedPages(op[p])' = Fixed
        /\ Bounds(p, op[p])'
    BY <1>2, <1>3, <1>8, <1>9, <1>12, <2>2, UndoStarts DEF procVars
  <2>4. \A T \in Table : Linked(T)'
    BY <1>9, <2>1, StillLinked DEF memVars
  <2>5. OnlyFor(q)
    BY <1>9, <2>1, NoSlotOnlyFor DEF procVars, memVars
  <2>6. Holds(t, U)' /\ Points(t, Fixed)' /\ (o.call = "exec" => Complete(q)')
        /\ (pagetable[q] # NoTable => Stamped(q)')
    BY <1>4, <1>9, <1>10, <1>11, <2>1
    DEF Holds, Points, Expect, Complete, Stamped, procVars, memVars
  <2>7. Holds(op[p].t, UserPages(op[p]))' /\ Points(op[p].t, FixedPages(op[p]))'
    BY <1>10, <2>3, <2>6 DEF Holds, Points
  <2>8. Working(p, op[p])'
    BY <1>4, <1>9, <2>1, <2>3, <2>6, <2>7 DEF Working, Freeing, Gone, procVars, memVars
  <2> QED
    BY <1>2, <1>3, <1>8, <1>9, <1>12, <2>2, <2>3, <2>4, <2>5, <2>8, KernelImage DEF procVars
<1>13. CASE ~ OutOfMemory
  <2>1. Kalloc(s) /\ op' = [op EXCEPT ![p] = [o EXCEPT !.pc = "map"]]
    BY <1>3, <1>9, <1>13 DEF Goto
  <2>2. op'[p] = [o EXCEPT !.pc = "map"] /\ \A r \in Proc \ {p} : op'[r] = op[r]
    BY <1>3, <2>1
  <2>3. /\ op'[p].pc = "map" /\ op'[p].q = q /\ op'[p].call = o.call /\ op'[p].t = t
        /\ op'[p].a = o.a /\ op'[p].base = o.base /\ op'[p].lim = o.lim /\ op'[p].nsz = o.nsz
        /\ op'[p].sz = o.sz
    BY <1>3, <2>2 DEF Op
  <2>4. OnlySlot(s) /\ Stamps(s)
    BY <1>3, <1>7, <1>13, <2>1, KallocOwn, KallocStamps DEF IInv, OnlySlot
  <2>5. OnlyFor(q) /\ \A T \in Table : TableSame(T)
    BY <1>7, <1>9, <2>4, OneSlotOnlyFor, VarSlotFrame DEF procVars
  <2>6. /\ ptr'[Var("trapframe", q)] = ptr[Var("trapframe", q)]
        /\ ptr'[Var("usyscall", q)] = ptr[Var("usyscall", q)]
    BY <1>7, <2>4, SlotFacts DEF OnlySlot
  <2>7. (\A T \in Table : Linked(T)') /\ (BootWalks => BootWalks')
    BY <2>5, StillTables
  <2>8. Working(p, op[p])'
    <3>1. UserPages(op[p])' = UserPages(o) /\ FixedPages(op[p])' = Fixed
      BY <1>3, <1>5, <2>3 DEF UserPages, FixedPages, InFixed, InLoop
    <3>2. Holds(t, U)' /\ Points(t, Fixed)'
      BY <1>3, <1>4, <1>10, <1>11, <2>5, <2>6, SameHolds, SamePoints
    <3>3. Holds(op[p].t, UserPages(op[p]))' /\ Points(op[p].t, FixedPages(op[p]))'
      BY <1>10, <2>3, <3>1, <3>2 DEF Holds, Points
    <3>4. pagetable[q] # NoTable => Stamped(q)'
      BY <1>4, <1>7, <1>9, <2>4, KeepStamped DEF procVars
    <3>5. o.call = "exec" => Complete(q)'
      <4> SUFFICES ASSUME o.call = "exec" PROVE Complete(q)'
        OBVIOUS
      <4>1. pagetable[q] # NoTable
        BY <1>2 DEF Doing
      <4>2. TableSame(pagetable[q])
        BY <2>5, <4>1, OwnTable
      <4> QED
        BY <1>4, <1>9, <2>6, <4>1, <4>2, KeepComplete DEF procVars
    <3>6. Began(op[p])' = Began(o)
      BY <1>3, <1>9, <2>3 DEF Began, procVars
    <3>7. Bounds(p, op[p])'
      BY <1>3, <1>5, <1>9, <2>3, <3>6 DEF Bounds, InFixed, InLoop, procVars
    <3> QED
      BY <1>4, <1>9, <2>3, <2>6, <3>3, <3>4, <3>5, <3>7 DEF Working, Freeing, Gone, procVars
  <2> QED
    BY <1>2, <1>3, <1>9, <2>2, <2>3, <2>5, <2>7, <2>8, KernelImage DEF Doing, procVars, BootPc
<1> QED
  BY <1>12, <1>13

LEMMA FixedThere ==
    ASSUME NEW q, HasVars(q), NEW T, T[1] = q, Points(T, Fixed)
    PROVE  \A v \in Fixed : alias[T][v] # Null
<1>1. USYSCALL \in Nat /\ TRAPFRAME = USYSCALL + 1 /\ TRAMPOLINE = USYSCALL + 2
  BY VpnFacts
<1>2. \A v \in Fixed : Expect(q, v) # Null
  BY <1>1, ConstantsAssumption DEF Expect, Fixed, HasVars
<1> QED
  BY <1>2 DEF Points

\* proc_freepagetable() finds the fixed pages of table T and unmaps them.
LEMMA ClearFixed ==
    ASSUME IInv, ImgInv, NEW T \in Table, \A v \in Fixed : alias[T][v] # Null
    PROVE  /\ FixedMapped(T)
           /\ alias' = [alias EXCEPT ![T] = [v \in Fixed |-> Null]] /\ ptr' = ptr =>
                /\ \A S \in Table : Linked(S)'
                /\ \A S \in Table : S # T => TableSame(S)
                /\ \A v \in Fixed : alias'[T][v] = Null
                /\ Points(T, {})'
<1>1. \A v \in Fixed : Mapped(T, v) /\ v \in Vpn
  BY DEF Mapped, Vpn
<1>2. FixedMapped(T)
  BY <1>1 DEF ImgInv, Trees, Linked, FixedMapped, Walks
<1>3. ASSUME alias' = [alias EXCEPT ![T] = [v \in Fixed |-> Null]], ptr' = ptr
      PROVE  /\ \A S \in Table : Linked(S)'
             /\ \A S \in Table : S # T => TableSame(S)
             /\ \A v \in Fixed : alias'[T][v] = Null
             /\ Points(T, {})'
  <2>1. \A v \in Fixed : alias'[T][v] = Null
    BY <1>3 DEF IInv, TypeOK
  <2>2. \A S \in Table : S # T => TableSame(S)
    BY <1>3 DEF TableSame
  <2>3. Linked(T)'
    <3>1. \A v \in Vpn : Mapped(T, v)' => Mapped(T, v)
      BY <1>3, <2>1 DEF Mapped
    <3> QED
      BY <1>3, <3>1, MapLinked DEF ImgInv, Trees
  <2>4. \A S \in Table : S # T => Linked(S)'
    BY <2>2, SameLinked DEF ImgInv, Trees
  <2> QED
    BY <2>1, <2>2, <2>3, <2>4 DEF Points
<1> QED
  BY <1>2, <1>3

LEMMA FreeProcPagetableImage ==
    ASSUME IInv, TypeOK', ImgInv, NEW p \in Proc, FreeProcPagetable(p)
    PROVE  ImgInv'
<1>1. op[p].pc = "fppt"
  BY DEF FreeProcPagetable, At
<1>2. PICK o \in Op, q \in Proc, t \in Table : Doing(p, o, q, t)
  BY <1>1, AtWork
<1>3. /\ o.pc = "fppt" /\ q = o.q /\ o = op[p] /\ Working(p, o) /\ Freeing(o)
      /\ o.call # "userinit" /\ o.call # "exec"
  BY <1>1, <1>2 DEF Doing, BootPc, Cursor, Freeing
<1>4. CASE pagetable[q] = NoTable
  <2>1. PICK n \in Op : n = [o EXCEPT !.pc = "fpend"]
    BY DEF Op, Pc
  <2>2. /\ n.pc = "fpend" /\ n.q = q /\ n.call = o.call /\ op' = [op EXCEPT ![p] = n]
        /\ UNCHANGED <<procVars, memVars, alias, panicked>>
    BY <1>3, <1>4, <2>1 DEF FreeProcPagetable, Goto, Op
  <2>3. Working(p, n)
    BY <1>3, <2>2 DEF Working, Bounds, InFixed, InLoop, Freeing, Gone, Building
  <2> QED
    BY <1>2, <1>3, <2>2, <2>3, MoveImage
<1>5. CASE pagetable[q] # NoTable
  <2>1. PICK T \in Table : T = pagetable[q] /\ T[1] = q
    BY <1>5, OwnTable
  <2>2. Holds(T, 0 .. NPages(sz[q]) - 1) /\ \A v \in Fixed : alias[T][v] # Null
    BY <1>3, <1>5, <2>1 DEF Working
  <2>3. PICK n \in Op : n = [o EXCEPT !.pc = "uvmfree", !.t = T, !.a = 0, !.lim = NPages(sz[q]),
                                      !.then = "fpend"]
    <3>1. sz[q] \in 0 .. MaxSz
      BY DEF IInv, TypeOK
    <3>2. 0 \in 0 .. MAXVPN /\ NPages(sz[q]) \in 0 .. MAXVPN
      BY <3>1, NPagesRange, VpnFacts
    <3> QED
      BY <3>2 DEF Op, Pc
  <2>4. /\ alias' = [alias EXCEPT ![T] = [v \in Fixed |-> Null]]
        /\ op' = [op EXCEPT ![p] = n] /\ UNCHANGED <<procVars, memVars, panicked>>
    BY <1>3, <1>5, <2>1, <2>2, <2>3, ClearFixed DEF FreeProcPagetable, FreePagetable, Enter
  <2>5. /\ n.pc = "uvmfree" /\ n.q = q /\ n.call = o.call /\ n.t = T /\ n.a = 0
        /\ n.lim = NPages(sz[q]) /\ n.then = "fpend"
    BY <1>3, <2>3 DEF Op
  <2>6. op'[p] = n /\ \A r \in Proc \ {p} : op'[r] = op[r]
    BY <1>2, <2>4 DEF Doing
  <2>7. /\ \A S \in Table : Linked(S)'
        /\ \A S \in Table : S # T => TableSame(S)
        /\ Points(T, {})'
    BY <2>2, <2>4, ClearFixed DEF memVars
  <2>8. OnlyFor(q)
    BY <2>1, <2>4, NoSlotOnlyFor DEF procVars, memVars
  <2>9. Working(p, op[p])'
    <3>1. UserPages(op[p])' = 0 .. NPages(sz[q]) - 1 /\ FixedPages(op[p])' = {}
      BY <2>5, <2>6 DEF UserPages, FixedPages, InFixed, InLoop
    <3>2. Holds(op[p].t, UserPages(op[p]))' /\ Points(op[p].t, FixedPages(op[p]))'
      BY <2>2, <2>4, <2>5, <2>6, <2>7, <3>1 DEF Holds, Points, memVars
    <3>3. 0 <= NPages(sz[q])
      BY NPagesRange DEF IInv, TypeOK
    <3>4. Bounds(p, op[p])'
      BY <1>3, <2>5, <2>6, <3>3 DEF Bounds, InFixed, InLoop
    <3> QED
      BY <1>3, <2>5, <2>6, <3>2, <3>4 DEF Working, Freeing, Gone
  <2> QED
    BY <1>2, <1>3, <2>4, <2>5, <2>6, <2>7, <2>8, <2>9, KernelImage DEF Doing, procVars
<1> QED
  BY <1>4, <1>5

\* Nobody else is in the kernel, or runs, while userinit() does.
LEMMA BootAlone ==
    ASSUME IInv, ImgInv, NEW p \in Proc, state[p] = "RUNNABLE", op'[p].call # "userinit",
           \A r \in Proc \ {p} : op'[r] = op[r]
    PROVE  op'[InitProc].call # "userinit" /\ Boot'
<1>1. CASE op[InitProc].call = "userinit"
  <2>1. p = InitProc
    BY <1>1 DEF ImgInv, Boot
  <2> QED
    BY <2>1 DEF Boot
<1>2. CASE op[InitProc].call # "userinit"
  BY <1>2, ConstantsAssumption DEF Boot
<1> QED
  BY <1>1, <1>2

LEMMA ExecBadImage ==
    ASSUME IInv, TypeOK', ImgInv, NEW p \in Proc, ExecBad(p)
    PROVE  ImgInv'
<1>1. op[p].pc = "bad"
  BY DEF ExecBad, At
<1>2. PICK o \in Op, q \in Proc, t \in Table : Doing(p, o, q, t)
  BY <1>1, AtWork
<1>3. /\ o.pc = "bad" /\ q = o.q /\ o = op[p] /\ t = o.t /\ t[1] = q /\ Working(p, o)
      /\ Bounds(p, o) /\ o.call = "exec" /\ q = p /\ pagetable[q] # NoTable /\ pagetable[q] # t
  BY <1>1, <1>2 DEF Doing, Cursor, Working, Bounds
<1>4. /\ Holds(t, 0 .. NPages(o.sz) - 1) /\ Points(t, Fixed) /\ HasVars(q) /\ Complete(q)
      /\ Stamped(q)
  BY <1>3 DEF Working, Building, UserPages, FixedPages, InFixed, InLoop, Freeing, Gone, HasVars
<1>5. \A v \in Fixed : alias[t][v] # Null
  BY <1>3, <1>4, FixedThere
<1>6. PICK n \in Op : n = [o EXCEPT !.pc = "uvmfree", !.t = t, !.a = 0, !.lim = NPages(o.sz),
                                    !.then = "user"]
  <2>1. o.sz \in 0 .. MaxSz
    BY DEF Op
  <2>2. 0 \in 0 .. MAXVPN /\ NPages(o.sz) \in 0 .. MAXVPN
    BY <2>1, NPagesRange, VpnFacts
  <2> QED
    BY <2>2 DEF Op, Pc
<1>7. /\ alias' = [alias EXCEPT ![t] = [v \in Fixed |-> Null]]
      /\ op' = [op EXCEPT ![p] = n] /\ UNCHANGED <<procVars, memVars, panicked>>
  BY <1>3, <1>5, <1>6, ClearFixed DEF ExecBad, FreePagetable, Enter
<1>8. /\ n.pc = "uvmfree" /\ n.q = q /\ n.call = "exec" /\ n.t = t /\ n.a = 0
      /\ n.lim = NPages(o.sz) /\ n.then = "user"
  BY <1>3, <1>6 DEF Op
<1>9. op'[p] = n /\ \A r \in Proc \ {p} : op'[r] = op[r]
  BY <1>2, <1>7 DEF Doing
<1>10. /\ \A S \in Table : Linked(S)'
       /\ \A S \in Table : S # t => TableSame(S)
       /\ Points(t, {})'
  BY <1>5, <1>7, ClearFixed DEF memVars
<1>11. OnlyFor(q)
  BY <1>3, <1>7, NoSlotOnlyFor DEF procVars, memVars
<1>12. Complete(q)'
  <2>1. TableSame(pagetable[q])
    BY <1>3, <1>10, OwnTable
  <2> QED
    BY <1>3, <1>4, <1>7, <2>1, KeepComplete DEF procVars, memVars
<1>13. Working(p, op[p])'
  <2>1. UserPages(op[p])' = 0 .. NPages(o.sz) - 1 /\ FixedPages(op[p])' = {}
    BY <1>8, <1>9 DEF UserPages, FixedPages, InFixed, InLoop
  <2>2. Holds(op[p].t, UserPages(op[p]))' /\ Points(op[p].t, FixedPages(op[p]))'
    BY <1>4, <1>7, <1>8, <1>9, <1>10, <2>1 DEF Holds, Points, memVars
  <2>3. 0 <= NPages(o.sz)
    BY NPagesRange DEF Op
  <2>4. Bounds(p, op[p])'
    BY <1>3, <1>7, <1>8, <1>9, <2>3 DEF Bounds, InFixed, InLoop, procVars
  <2>5. Stamped(q)' /\ HasVars(q)'
    BY <1>4, <1>7 DEF Stamped, HasVars, procVars, memVars
  <2> QED
    BY <1>8, <1>9, <1>12, <2>2, <2>4, <2>5 DEF Working, Freeing, Gone, HasVars
<1> QED
  BY <1>2, <1>3, <1>7, <1>8, <1>9, <1>10, <1>11, <1>13, KernelImage DEF Doing, procVars

LEMMA ExecCommitImage ==
    ASSUME IInv, TypeOK', ImgInv, NEW p \in Proc, ExecCommit(p)
    PROVE  ImgInv'
<1>1. op[p].pc = "args"
  BY DEF ExecCommit, At
<1>2. PICK o \in Op, q \in Proc, t \in Table : Doing(p, o, q, t)
  BY <1>1, AtWork
<1>3. /\ o.pc = "args" /\ q = o.q /\ o = op[p] /\ t = o.t /\ t[1] = q /\ Working(p, o)
      /\ Bounds(p, o) /\ o.call = "exec" /\ q = p /\ pagetable[q] # NoTable /\ pagetable[q] # t
      /\ state[p] = "RUNNABLE" /\ Busy(p)
  BY <1>1, <1>2 DEF Doing, Cursor, Working, Bounds
<1>4. /\ Holds(t, 0 .. NPages(o.sz) - 1) /\ Points(t, Fixed) /\ HasVars(q) /\ Complete(q)
      /\ Stamped(q)
  BY <1>3 DEF Working, Building, UserPages, FixedPages, InFixed, InLoop, Freeing, Gone, HasVars
<1>5. PICK T \in Table : T = pagetable[q] /\ T[1] = q
  BY <1>3, OwnTable
<1>6. Holds(T, 0 .. NPages(sz[q]) - 1) /\ \A v \in Fixed : alias[T][v] # Null
  BY <1>4, <1>5, FixedThere DEF Complete
<1>7. PICK n \in Op : n = [o EXCEPT !.pc = "uvmfree", !.t = T, !.a = 0, !.lim = NPages(sz[q]),
                                    !.then = "user"]
  <2>1. sz[q] \in 0 .. MaxSz
    BY DEF IInv, TypeOK
  <2>2. 0 \in 0 .. MAXVPN /\ NPages(sz[q]) \in 0 .. MAXVPN
    BY <2>1, NPagesRange, VpnFacts
  <2> QED
    BY <2>2 DEF Op, Pc
<1>8. /\ alias' = [alias EXCEPT ![T] = [v \in Fixed |-> Null]]
      /\ op' = [op EXCEPT ![p] = n]
      /\ pagetable' = [pagetable EXCEPT ![q] = t]
      /\ sz' = [sz EXCEPT ![q] = o.sz]
      /\ UNCHANGED <<state, pid, nextpid, ptr, upid, panicked>>
  BY <1>3, <1>5, <1>6, <1>7, ClearFixed DEF ExecCommit, FreePagetable, Enter, memVars
<1>9. /\ n.pc = "uvmfree" /\ n.q = q /\ n.call = "exec" /\ n.t = T /\ n.a = 0
      /\ n.lim = NPages(sz[q]) /\ n.then = "user"
  BY <1>3, <1>7 DEF Op
<1>10. op'[p] = n /\ \A r \in Proc \ {p} : op'[r] = op[r]
  BY <1>2, <1>8 DEF Doing
<1>11. /\ \A S \in Table : Linked(S)'
       /\ \A S \in Table : S # T => TableSame(S)
       /\ Points(T, {})'
  BY <1>6, <1>8, ClearFixed
<1>12. /\ pagetable'[q] = t /\ sz'[q] = o.sz
       /\ \A x \in Proc \ {q} : pagetable'[x] = pagetable[x] /\ sz'[x] = sz[x]
  BY <1>8 DEF IInv, TypeOK
<1>13. OnlyFor(q)
  BY <1>5, <1>8, <1>12, NoSlotOnlyFor
<1>14. Complete(q)'
  <2>1. Holds(t, 0 .. NPages(o.sz) - 1)' /\ Points(t, Fixed)'
    BY <1>3, <1>4, <1>5, <1>8, <1>11, SamePoints DEF Holds
  <2> QED
    BY <1>12, <2>1 DEF Complete, Holds, Points
<1>15. Working(p, op[p])'
  <2>1. UserPages(op[p])' = 0 .. NPages(sz[q]) - 1 /\ FixedPages(op[p])' = {}
    BY <1>9, <1>10 DEF UserPages, FixedPages, InFixed, InLoop
  <2>2. Holds(op[p].t, UserPages(op[p]))' /\ Points(op[p].t, FixedPages(op[p]))'
    BY <1>6, <1>8, <1>9, <1>10, <1>11, <2>1 DEF Holds, Points
  <2>3. 0 <= NPages(sz[q])
    BY NPagesRange DEF IInv, TypeOK
  <2>4. Bounds(p, op[p])'
    BY <1>3, <1>5, <1>9, <1>10, <1>12, <2>3 DEF Bounds, InFixed, InLoop
  <2>5. Stamped(q)' /\ HasVars(q)'
    BY <1>4, <1>8 DEF Stamped, HasVars
  <2> QED
    BY <1>9, <1>10, <1>14, <2>2, <2>4, <2>5 DEF Working, Freeing, Gone, HasVars
<1>16. (Trees /\ Works /\ Rests)'
  <2>1. \A r \in Proc \ {p} : Busy(r) => r # q /\ op[r].q # q
    BY <1>3, OthersIdle
  <2>2. Busy(p)' /\ op'[p].q = q
    BY <1>9, <1>10 DEF Busy
  <2> QED
    BY <1>3, <1>8, <1>10, <1>11, <1>13, <1>15, <2>1, <2>2, StepForOne DEF ImgInv
<1>17. (Sizes /\ Pids /\ NoPanic)'
  BY <1>3, <1>8, <1>12 DEF ImgInv, Sizes, Pids, NoPanic
<1>18. Boot'
  BY <1>3, <1>9, <1>10, BootAlone
<1> QED
  BY <1>16, <1>17, <1>18 DEF ImgInv

LEMMA SetSzImage ==
    ASSUME IInv, TypeOK', ImgInv, NEW p \in Proc, SetSz(p)
    PROVE  ImgInv'
<1>1. op[p].pc = "setsz"
  BY DEF SetSz, At
<1>2. PICK o \in Op, q \in Proc, t \in Table : Doing(p, o, q, t)
  BY <1>1, AtWork
<1>3. /\ o.pc = "setsz" /\ q = o.q /\ o = op[p] /\ t = o.t /\ t[1] = q /\ Working(p, o)
      /\ Worker(p, o) /\ Busy(p) /\ pagetable[q] = t /\ t # NoTable
      /\ o.call \in {"userinit", "fork", "sbrk"}
      /\ (o.call = "userinit" => p = InitProc)
  BY <1>1, <1>2 DEF Doing, Cursor, TableOf, Holding, NoTable, Table
<1>4. /\ Holds(t, 0 .. NPages(o.nsz) - 1) /\ Points(t, Fixed) /\ HasVars(q) /\ Stamped(q)
  BY <1>3 DEF Working, Building, UserPages, FixedPages, InFixed, InLoop, Freeing, Gone, HasVars
<1>5. /\ op' = [op EXCEPT ![p] = Idle] /\ sz' = [sz EXCEPT ![q] = o.nsz]
      /\ UNCHANGED <<pid, nextpid, pagetable, ptr, upid, alias, panicked>>
  BY <1>3 DEF SetSz, Goto, memVars
<1>6. op'[p] = Idle /\ \A r \in Proc \ {p} : op'[r] = op[r]
  BY <1>2, <1>5 DEF Doing
<1>7. /\ state'[q] = "RUNNABLE" /\ \A x \in Proc \ {q} : state'[x] = state[x]
      /\ state[q] # "UNUSED"
  <2>1. CASE o.call = "sbrk"
    BY <1>3, <2>1 DEF SetSz, Worker
  <2>2. CASE o.call # "sbrk"
    <3>1. state' = [state EXCEPT ![q] = "RUNNABLE"]
      BY <1>3, <2>2 DEF SetSz
    <3> QED
      BY <1>3, <2>2, <3>1 DEF Worker, IInv, TypeOK
  <2> QED
    BY <2>1, <2>2
<1>8. sz'[q] = o.nsz /\ \A x \in Proc \ {q} : sz'[x] = sz[x]
  BY <1>5 DEF IInv, TypeOK
<1>9. \A T \in Table : Linked(T)'
  BY <1>5, StillLinked
<1>10. OnlyFor(q)
  BY <1>5, <1>8, NoSlotOnlyFor
<1>11. Resting(q)'
  <2>1. Complete(q)'
    BY <1>3, <1>4, <1>5, <1>8 DEF Complete, Holds, Points, Expect
  <2>2. HasVars(q)' /\ Stamped(q)'
    BY <1>4, <1>5 DEF HasVars, Stamped
  <2> QED
    BY <1>7, <2>1, <2>2 DEF Resting
<1>12. ~ Busy(p)'
  BY <1>6 DEF Busy, Idle
<1>13. (Trees /\ Works /\ Rests)'
  <2>1. \A r \in Proc \ {p} : Busy(r) => r # q /\ op[r].q # q
    BY <1>3, OthersIdle
  <2> QED
    BY <1>3, <1>6, <1>7, <1>9, <1>10, <1>11, <1>12, <2>1, StepForOne DEF ImgInv
<1>14. (Sizes /\ Pids /\ NoPanic)'
  <2>1. Sizes'
    BY <1>7, <1>8 DEF ImgInv, Sizes
  <2>2. Pids'
    BY <1>5, <1>7 DEF ImgInv, Pids
  <2> QED
    BY <1>5, <2>1, <2>2 DEF ImgInv, NoPanic
<1>15. Boot'
  <2>1. op'[p].call # "userinit"
    BY <1>6 DEF Idle
  <2>2. CASE o.call = "userinit"
    BY <1>3, <2>1, <2>2 DEF Boot
  <2>3. CASE o.call # "userinit"
    BY <1>3, <1>6, <2>1, <2>3, BootAlone DEF Worker
  <2> QED
    BY <2>2, <2>3
<1> QED
  BY <1>13, <1>14, <1>15 DEF ImgInv

LEMMA FreeProcEndImage ==
    ASSUME IInv, TypeOK', ImgInv, NEW p \in Proc, FreeProcEnd(p)
    PROVE  ImgInv'
<1>1. op[p].pc = "fpend"
  BY DEF FreeProcEnd, At
<1>2. PICK o \in Op, q \in Proc, t \in Table : Doing(p, o, q, t)
  BY <1>1, AtWork
<1>3. o.pc = "fpend" /\ q = o.q /\ o = op[p] /\ Worker(p, o) /\ Busy(p) /\ o.call # "userinit"
  BY <1>1, <1>2 DEF Doing, BootPc
<1>4. /\ state' = [state EXCEPT ![q] = "UNUSED"] /\ pid' = [pid EXCEPT ![q] = 0]
      /\ sz' = [sz EXCEPT ![q] = 0] /\ pagetable' = [pagetable EXCEPT ![q] = NoTable]
      /\ op' = [op EXCEPT ![p] = Idle] /\ UNCHANGED <<nextpid, ptr, upid, alias, panicked>>
  BY <1>3 DEF FreeProcEnd, Goto, memVars
<1>5. op'[p] = Idle /\ \A r \in Proc \ {p} : op'[r] = op[r]
  BY <1>2, <1>4 DEF Doing
<1>6. /\ state'[q] = "UNUSED" /\ pid'[q] = 0 /\ sz'[q] = 0
      /\ \A x \in Proc \ {q} : /\ state'[x] = state[x] /\ pid'[x] = pid[x] /\ sz'[x] = sz[x]
                               /\ pagetable'[x] = pagetable[x]
  BY <1>4 DEF IInv, TypeOK
<1>7. \A T \in Table : Linked(T)'
  BY <1>4, StillLinked
<1>8. OnlyFor(q)
  BY <1>4, <1>6, NoSlotOnlyFor
<1>9. Resting(q)' /\ ~ Busy(p)'
  BY <1>5, <1>6 DEF Resting, Busy, Idle
<1>10. (Trees /\ Works /\ Rests)'
  <2>1. \A r \in Proc \ {p} : Busy(r) => r # q /\ op[r].q # q
    BY <1>3, OthersIdle
  <2> QED
    BY <1>3, <1>5, <1>6, <1>7, <1>8, <1>9, <2>1, StepForOne DEF ImgInv
<1>11. (Sizes /\ Pids /\ NoPanic)'
  <2>1. Sizes'
    BY <1>6 DEF ImgInv, Sizes
  <2>2. Pids'
    <3>1. 0 < nextpid
      BY ConstantsAssumption DEF IInv, TypeOK
    <3> QED
      BY <1>4, <1>6, <3>1 DEF ImgInv, Pids
  <2> QED
    BY <1>4, <2>1, <2>2 DEF ImgInv, NoPanic
<1>12. Boot'
  <2>1. op'[p].call # "userinit"
    BY <1>5 DEF Idle
  <2> QED
    BY <1>3, <1>5, <2>1, BootAlone DEF Worker
<1> QED
  BY <1>10, <1>11, <1>12 DEF ImgInv

\* A process that runs user code has its whole image.
LEMMA InUserImage ==
    ASSUME IInv, ImgInv, NEW p \in Proc, InUser(p)
    PROVE  /\ HasVars(p) /\ Complete(p) /\ Stamped(p)
           /\ pagetable[p] \in Table /\ pagetable[p][1] = p
<1>1. Unworked(p)
  BY NobodyWorksOn DEF Unworked
<1>2. Resting(p) /\ state[p] = "RUNNABLE"
  BY <1>1 DEF ImgInv, Rests, InUser
<1>3. pagetable[p] # NoTable
  BY <1>2 DEF IInv, Tables
<1> QED
  BY <1>2, <1>3, OwnTable DEF Resting

\* A call enters the kernel with the local variables n.
LEMMA EnterImage ==
    ASSUME IInv, TypeOK', ImgInv, UNCHANGED <<procVars, memVars, alias, panicked>>,
           NEW p \in Proc, InUser(p), NEW q \in Proc, NEW n, op' = [op EXCEPT ![p] = n],
           n.pc # "user", n.q = q, n.call # "userinit", Working(p, n),
           \A r \in Proc \ {p} : Busy(r) => r # q /\ op[r].q # q
    PROVE  ImgInv'
<1>1. op'[p] = n /\ (\A r \in Proc \ {p} : op'[r] = op[r]) /\ ~ Busy(p) /\ state[p] = "RUNNABLE"
  BY DEF IInv, TypeOK, InUser, Busy
<1>2. Working(p, op[p])' /\ Busy(p)' /\ op'[p].q = q
  BY <1>1, WorkingStill DEF Busy
<1>3. \A T \in Table : Linked(T)'
  BY StillLinked DEF memVars
<1>4. OnlyFor(q)
  BY NoSlotOnlyFor DEF procVars, memVars
<1>5. (Trees /\ Works /\ Rests)'
  BY <1>1, <1>2, <1>3, <1>4, StepForOne DEF ImgInv, procVars
<1>6. (Sizes /\ Pids /\ NoPanic)'
  BY DEF ImgInv, Sizes, Pids, NoPanic, procVars
<1>7. Boot'
  BY <1>1, BootAlone
<1> QED
  BY <1>5, <1>6, <1>7 DEF ImgInv

LEMMA ExecCallImage ==
    ASSUME IInv, TypeOK', ImgInv, NEW p \in Proc, Exec(p)
    PROVE  ImgInv'
<1>1. PICK n : /\ n = [Idle EXCEPT !.call = "exec", !.pc = "root", !.q = p,
                                   !.t = <<p, 1 - pagetable[p][2]>>]
               /\ op' = [op EXCEPT ![p] = n]
  BY DEF Exec, Enter
<1>2. InUser(p) /\ UNCHANGED <<procVars, memVars, alias, panicked>>
  BY DEF Exec
<1>3. HasVars(p) /\ Complete(p) /\ Stamped(p) /\ pagetable[p] \in Table /\ pagetable[p][1] = p
  BY <1>2, InUserImage
<1>4. <<p, 1 - pagetable[p][2]>> # pagetable[p]
  <2>1. pagetable[p][2] \in {0, 1}
    BY <1>3 DEF Table
  <2>2. 1 - pagetable[p][2] # pagetable[p][2]
    BY <2>1
  <2> QED
    BY <2>2
<1>5. /\ n.call = "exec" /\ n.pc = "root" /\ n.q = p /\ n.t # pagetable[p] /\ n.base = 0 /\ n.sz = 0
  BY <1>1, <1>4 DEF Idle
<1>6. Working(p, n)
  BY <1>3, <1>5 DEF Working, Bounds, InFixed, InLoop, Freeing, Gone, Building, HasVars
<1>7. \A r \in Proc \ {p} : Busy(r) => r # p /\ op[r].q # p
  BY <1>2, NobodyWorksOn
<1>8. op' = [op EXCEPT ![p] = n] /\ n.pc # "user" /\ n.q = p /\ n.call # "userinit"
  BY <1>1, <1>5
<1> QED
  BY <1>2, <1>6, <1>7, <1>8, EnterImage

LEMMA SbrkImage ==
    ASSUME IInv, TypeOK', ImgInv, NEW p \in Proc, Sbrk(p)
    PROVE  ImgInv'
<1> DEFINE N(pc, lo, hi, s) == SbrkOp(p, pc, lo, hi, s)
<1>a. PICK s \in 0 .. MaxSz : \E n :
        /\ op' = [op EXCEPT ![p] = n]
        /\ \/ s > sz[p] /\ n = N("alloc", NPages(sz[p]), NPages(s), s)
           \/ s < sz[p] /\ n = N("unmap", NPages(s), NPages(sz[p]), s)
           \/ s = sz[p] /\ n = N("setsz", 0, 0, s)
  BY SbrkIs
<1>1. PICK n :
        /\ op' = [op EXCEPT ![p] = n]
        /\ \/ s > sz[p] /\ n = N("alloc", NPages(sz[p]), NPages(s), s)
           \/ s < sz[p] /\ n = N("unmap", NPages(s), NPages(sz[p]), s)
           \/ s = sz[p] /\ n = N("setsz", 0, 0, s)
  BY <1>a
<1>2. InUser(p) /\ UNCHANGED <<procVars, memVars, alias, panicked>>
  BY DEF Sbrk
<1>3. HasVars(p) /\ Complete(p) /\ Stamped(p) /\ pagetable[p] \in Table /\ pagetable[p][1] = p
  BY <1>2, InUserImage
<1>4. sz[p] \in 0 .. MaxSz /\ MaxSz \in Nat
  BY ConstantsAssumption DEF IInv, TypeOK
<1>5. PICK x, y \in Nat : x = NPages(sz[p]) /\ y = NPages(s) /\ (s < sz[p] => y <= x)
  <2>1. s \in 0 .. MaxSz
    BY <1>1
  <2>2. NPages(sz[p]) \in Nat /\ NPages(s) \in Nat
    BY <1>4, <2>1, NPagesRange, VpnFacts
  <2>3. s < sz[p] => NPages(s) <= NPages(sz[p])
    BY <1>4, <2>1, NPagesMono
  <2> QED
    BY <2>2, <2>3
<1>6. /\ n.call = "sbrk" /\ n.q = p /\ n.t = pagetable[p] /\ n.nsz = s /\ n.then = "setsz"
      /\ \/ n.pc = "alloc" /\ n.a = x /\ n.base = x /\ n.lim = y
         \/ n.pc = "unmap" /\ n.a = y /\ n.base = y /\ n.lim = x /\ y <= x
         \/ n.pc = "setsz" /\ s = sz[p] /\ x = y
  BY <1>1, <1>5 DEF Idle, SbrkOp
<1>7. UserPages(n) = 0 .. x - 1 /\ FixedPages(n) = Fixed
  <2>1. CASE n.pc = "alloc"
    BY <1>6, <2>1 DEF UserPages, FixedPages, InFixed, InLoop
  <2>2. CASE n.pc = "unmap" /\ n.a = y /\ n.base = y /\ n.lim = x /\ y <= x
    <3>1. UserPages(n) = (0 .. y - 1) \cup (y .. x - 1) /\ FixedPages(n) = Fixed
      BY <2>2 DEF UserPages, FixedPages, InFixed, InLoop
    <3>2. (0 .. y - 1) \cup (y .. x - 1) = 0 .. x - 1
      BY <2>2
    <3> QED
      BY <3>1, <3>2
  <2>3. CASE n.pc = "setsz" /\ s = sz[p]
    BY <1>5, <1>6, <2>3 DEF UserPages, FixedPages, InFixed, InLoop
  <2> QED
    BY <1>6, <2>1, <2>2, <2>3
<1>8. Bounds(p, n)
  BY <1>5, <1>6 DEF Bounds, InFixed, InLoop, Began
<1>9. Holds(n.t, UserPages(n)) /\ Points(n.t, FixedPages(n))
  BY <1>3, <1>5, <1>6, <1>7 DEF Complete
<1>10. Working(p, n)
  BY <1>3, <1>6, <1>8, <1>9 DEF Working, Freeing, Gone, HasVars
<1> QED
  BY <1>1, <1>2, <1>6, <1>10, NobodyWorksOn, EnterImage

LEMMA WaitImage ==
    ASSUME IInv, TypeOK', ImgInv, NEW p \in Proc, Wait(p)
    PROVE  ImgInv'
<1>a. PICK q \in Proc : \E n :
        /\ parent[q] = p /\ state[q] = "ZOMBIE"
        /\ n = [Idle EXCEPT !.call = "wait", !.pc = "fptf", !.q = q, !.t = pagetable[q]]
        /\ op' = [op EXCEPT ![p] = n]
  BY DEF Wait, Enter
<1>1. PICK n :
        /\ parent[q] = p /\ state[q] = "ZOMBIE"
        /\ n = [Idle EXCEPT !.call = "wait", !.pc = "fptf", !.q = q, !.t = pagetable[q]]
        /\ op' = [op EXCEPT ![p] = n]
  BY <1>a
<1>2. InUser(p) /\ UNCHANGED <<procVars, memVars, alias, panicked>>
  BY DEF Wait
<1>3. ASSUME NEW r \in Proc, Busy(r) PROVE op[r].q # q /\ r # q
  <2>1. Worker(r, op[r]) /\ op[r].call \in Call /\ r # p
    BY <1>2, <1>3, InKernel DEF Busy, Op, InUser
  <2> QED
    BY <1>1, <2>1 DEF Worker, Call
<1>4. HasVars(q) /\ Complete(q) /\ pagetable[q] # NoTable
  <2>1. Resting(q)
    BY <1>3 DEF ImgInv, Rests, Unworked
  <2> QED
    BY <1>1, <2>1 DEF Resting, IInv, Tables
<1>5. \A v \in Fixed : alias[pagetable[q]][v] # Null
  BY <1>4, OwnTable, FixedThere DEF Complete
<1>6. n.call = "wait" /\ n.pc = "fptf" /\ n.q = q
  BY <1>1 DEF Idle
<1>7. Working(p, n)
  BY <1>4, <1>5, <1>6 DEF Working, Bounds, InFixed, InLoop, Freeing, Gone, Building, Complete
<1>8. op' = [op EXCEPT ![p] = n] /\ n.pc # "user" /\ n.q = q /\ n.call # "userinit"
  BY <1>1, <1>6
<1> QED
  BY <1>2, <1>3, <1>7, <1>8, EnterImage

LEMMA ForkImage ==
    ASSUME IInv, TypeOK', ImgInv, NEW p \in Proc, Fork(p)
    PROVE  ImgInv'
<1>a. PICK q \in Proc : \E n :
        /\ state[q] = "UNUSED"
        /\ state' = [state EXCEPT ![q] = "USED"]
        /\ pid'   = [pid EXCEPT ![q] = nextpid]
        /\ n = [Idle EXCEPT !.call = "fork", !.pc = "trapframe", !.q = q, !.t = <<q, 0>>]
        /\ op' = [op EXCEPT ![p] = n]
  BY DEF Fork, Enter
<1>1. PICK n :
        /\ state[q] = "UNUSED"
        /\ state' = [state EXCEPT ![q] = "USED"]
        /\ pid'   = [pid EXCEPT ![q] = nextpid]
        /\ n = [Idle EXCEPT !.call = "fork", !.pc = "trapframe", !.q = q, !.t = <<q, 0>>]
        /\ op' = [op EXCEPT ![p] = n]
  BY <1>a
<1>2. /\ InUser(p) /\ nextpid' = nextpid + 1 /\ nextpid \in Nat /\ nextpid # 0
      /\ UNCHANGED <<sz, pagetable, ptr, upid, alias, panicked>>
  BY ConstantsAssumption DEF Fork, memVars, IInv, TypeOK
<1>3. op'[p] = n /\ (\A r \in Proc \ {p} : op'[r] = op[r]) /\ ~ Busy(p) /\ state[p] = "RUNNABLE"
  BY <1>1, <1>2 DEF IInv, TypeOK, InUser, Busy
<1>4. /\ state'[q] = "USED" /\ pid'[q] = nextpid
      /\ \A x \in Proc \ {q} : state'[x] = state[x] /\ pid'[x] = pid[x]
  BY <1>1 DEF IInv, TypeOK
<1>5. ASSUME NEW r \in Proc, Busy(r) PROVE op[r].q # q /\ r # q
  BY <1>1, <1>5, InKernel DEF Busy, Worker
<1>6. /\ n.call = "fork" /\ n.pc = "trapframe" /\ n.q = q /\ n.base = 0 /\ n.sz = 0
  BY <1>1 DEF Idle
<1>7. pagetable[q] = NoTable
  BY <1>1 DEF IInv, Vars
<1>8. Working(p, op[p])' /\ Busy(p)' /\ op'[p].q = q
  BY <1>2, <1>3, <1>6, <1>7
  DEF Working, Bounds, InFixed, InLoop, Freeing, Gone, Building, Busy
<1>9. \A T \in Table : Linked(T)'
  BY <1>2, StillLinked
<1>10. OnlyFor(q)
  BY <1>2, <1>4, NoSlotOnlyFor
<1>11. (Trees /\ Works /\ Rests)'
  BY <1>3, <1>4, <1>5, <1>8, <1>9, <1>10, StepForOne DEF ImgInv
<1>12. (Sizes /\ Pids /\ NoPanic)'
  <2>1. Sizes'
    BY <1>1, <1>2, <1>4 DEF ImgInv, Sizes
  <2>2. Pids'
    <3>1. \A x \in Proc : pid[x] \in Nat /\ pid[x] < nextpid
      BY DEF ImgInv, Pids, IInv, TypeOK
    <3> QED
      BY <1>1, <1>2, <1>4, <3>1 DEF ImgInv, Pids
  <2> QED
    BY <1>2, <2>1, <2>2 DEF ImgInv, NoPanic
<1>13. Boot'
  BY <1>3, <1>6, BootAlone
<1> QED
  BY <1>11, <1>12, <1>13 DEF ImgInv

LEMMA ExitImage ==
    ASSUME IInv, TypeOK', ImgInv, NEW p \in Proc, Exit(p)
    PROVE  ImgInv'
<1>1. /\ InUser(p) /\ state' = [state EXCEPT ![p] = "ZOMBIE"]
      /\ UNCHANGED <<pid, nextpid, sz, pagetable, memVars, alias, op, panicked>>
  BY DEF Exit
<1>2. /\ state'[p] = "ZOMBIE" /\ state[p] = "RUNNABLE" /\ ~ Busy(p) /\ ~ Busy(p)'
      /\ \A x \in Proc \ {p} : state'[x] = state[x]
  BY <1>1 DEF IInv, TypeOK, InUser, Busy
<1>3. HasVars(p) /\ Complete(p) /\ Stamped(p)
  BY <1>1, InUserImage
<1>4. Resting(p)'
  BY <1>1, <1>2, <1>3 DEF Resting, HasVars, Complete, Stamped, Holds, Points, Expect, memVars
<1>5. \A T \in Table : Linked(T)'
  BY <1>1, StillLinked DEF memVars
<1>6. OnlyFor(p)
  BY <1>1, NoSlotOnlyFor DEF memVars
<1>7. (Trees /\ Works /\ Rests)'
  <2>1. \A r \in Proc \ {p} : Busy(r) => r # p /\ op[r].q # p
    BY <1>1, NobodyWorksOn
  <2> QED
    BY <1>1, <1>2, <1>4, <1>5, <1>6, <2>1, StepForOne DEF ImgInv
<1>8. (Sizes /\ Pids /\ NoPanic)'
  BY <1>1, <1>2 DEF ImgInv, Sizes, Pids, NoPanic
<1>9. Boot'
  <2>1. ASSUME op[InitProc].call = "userinit" PROVE FALSE
    <3>1. p = InitProc /\ op[InitProc].pc \in BootPc
      BY <1>2, <2>1 DEF ImgInv, Boot
    <3> QED
      BY <1>1, <3>1 DEF InUser, BootPc
  <2> QED
    BY <1>1, <2>1 DEF Boot
<1> QED
  BY <1>7, <1>8, <1>9 DEF ImgInv

LEMMA InitImgInv == Init => ImgInv
<1> SUFFICES ASSUME Init PROVE ImgInv
  OBVIOUS
<1> DEFINE n == [Idle EXCEPT !.call = "userinit", !.pc = "trapframe"]
<1>1. /\ n.call = "userinit" /\ n.pc = "trapframe" /\ n.q = InitProc /\ n.t = BootTable
      /\ n.base = 0 /\ n.sz = 0
  BY DEF Idle, BootTable
<1>2. \A p \in Proc : op[p] = IF p = InitProc THEN n ELSE Idle
  BY DEF Init
<1>3. /\ \A s \in Slot : ptr[s] = Null
      /\ \A T \in Table, v \in Fixed : alias[T][v] = Null
      /\ \A p \in Proc : pagetable[p] = NoTable /\ sz[p] = 0
      /\ \A p \in Proc : state[p] = (IF p = InitProc THEN "USED" ELSE "UNUSED")
      /\ \A p \in Proc : pid[p] = (IF p = InitProc THEN 1 ELSE 0)
      /\ nextpid = 2 /\ InitProc \in Proc /\ BootTable \in Table
  BY ConstantsAssumption DEF Init, BootTable, Table
<1>4. Trees
  <2>1. \A T \in Table, v \in Vpn : ~ Mapped(T, v)
    BY <1>3, SlotFacts, VpnFacts DEF Mapped
  <2> QED
    BY <1>3, <2>1, SlotFacts DEF Trees, Linked
<1>5. Works
  <2>1. Working(InitProc, n)
    BY <1>1, <1>3 DEF Working, Bounds, InFixed, InLoop, Freeing, Gone, Building
  <2> QED
    BY <1>2, <2>1, IdleFacts DEF Works, Busy
<1>6. Rests
  <2>1. op[InitProc].pc = "trapframe" /\ op[InitProc].q = InitProc
    BY <1>1, <1>2, <1>3
  <2>2. ~ Unworked(InitProc)
    BY <1>3, <2>1 DEF Unworked, Busy
  <2> QED
    BY <1>3, <2>2 DEF Rests, Resting
<1>7. Sizes /\ Pids
  BY <1>3 DEF Sizes, Pids
<1>8. Boot
  <2>1. BootWalks
    BY <1>3, SlotFacts DEF BootWalks
  <2> QED
    BY <1>1, <1>2, <1>3, <2>1 DEF Boot, BootPc
<1>9. NoPanic
  BY DEF Init, NoPanic
<1> QED
  BY <1>4, <1>5, <1>6, <1>7, <1>8, <1>9 DEF ImgInv

LEMMA NextImgInv == IInv /\ ImgInv /\ [Next]_vars => ImgInv'
<1> SUFFICES ASSUME IInv, ImgInv, [Next]_vars PROVE ImgInv'
  OBVIOUS
<1>1. TypeOK'
  BY NextIInv DEF IInv
<1>2. CASE UNCHANGED vars
  <2>1. UNCHANGED <<procVars, memVars, alias, op, panicked>>
    BY <1>2 DEF vars
  <2>2. Trees' /\ (BootWalks => BootWalks')
    BY <2>1, StillLinked DEF Trees, memVars
  <2>3. Works'
    <3> SUFFICES ASSUME NEW p \in Proc, Busy(p)' PROVE Working(p, op[p])'
      BY DEF Works
    <3>1. PICK n : n = op[p]
      OBVIOUS
    <3>2. Working(p, n) /\ op'[p] = n
      BY <2>1, <3>1 DEF ImgInv, Works, Busy
    <3> QED
      BY <2>1, <3>2, WorkingStill
  <2>4. Rests'
    BY <2>1 DEF ImgInv, Rests, Resting, Unworked, Busy, HasVars, Complete, Stamped, Holds, Points,
                Expect, procVars, memVars
  <2>5. (Sizes /\ Pids /\ Boot /\ NoPanic)'
    BY <2>1, <2>2 DEF ImgInv, Sizes, Pids, Boot, NoPanic, procVars
  <2> QED
    BY <2>2, <2>3, <2>4, <2>5 DEF ImgInv
<1>3. CASE Next
  <2>1. PICK p \in Proc : SysCall(p) \/ KernelStep(p)
    BY <1>3 DEF Next
  <2>2. CASE SysCall(p)
    BY <1>1, <2>2, ForkImage, ExecCallImage, SbrkImage, ExitImage, WaitImage DEF SysCall
  <2>3. CASE KernelStep(p)
    BY <1>1, <2>3, AllocTrapframeImage, AllocUsyscallImage, UvmCreateImage, WalkAllocImage,
       MapUserPageImage, MapFixedImage, MapFailFixedImage, MapFailUserImage,
       AllocPageImage, AllocDoneImage, SetSzImage, LoadSegmentImage, AllocStackImage,
       ExecFailsImage, ExecCommitImage, ExecBadImage, UnmapPageImage, UnmapDoneImage,
       FreewalkImage, FreeTrapframeImage, FreeUsyscallImage, FreeProcPagetableImage,
       FreeProcEndImage
    DEF KernelStep
  <2> QED
    BY <2>1, <2>2, <2>3
<1> QED
  BY <1>2, <1>3

\* Both invariants hold in every reachable state.
THEOREM PageImages == Spec => [](IInv /\ ImgInv)
<1>1. Init => IInv /\ ImgInv
  BY InitIInv, InitImgInv
<1>2. IInv /\ ImgInv /\ [Next]_vars => IInv' /\ ImgInv'
  BY NextIInv, NextImgInv
<1> QED
  BY <1>1, <1>2, PTL DEF Spec

-----------------------------------------------------------------------------
(* What the invariant says to the rest of the kernel and to user programs. *)

\* vm.c and proc.c: no call reaches a panic, wherever memory runs out: no page
\* is mapped twice, none that uvmunmap() or uvmcopy() walks to is missing, and
\* freewalk() finds no leaf.
THEOREM PageNoPanic == Spec => []NoPanic
<1>1. ImgInv => NoPanic
  BY DEF ImgInv
<1> QED
  BY <1>1, PageImages, PTL

\* A root page belongs to a table in use.
LEMMA RootInUse ==
    ASSUME IInv, NEW T \in Table, ptr[Root(T)] # Null
    PROVE  TableInUse(T)
<1>1. Rooted(T) /\ T[1] \in Proc
  BY DEF IInv, Roots, Table
<1> QED
  BY <1>1 DEF Rooted, TableInUse, At, Building

LEMMA SlotsLive == IInv /\ ImgInv => NoLeak
<1> SUFFICES ASSUME IInv, ImgInv, NEW s \in Slot, ptr[s] # Null PROVE Live(s)
  BY DEF NoLeak
<1>1. CASE s \in {"trapframe", "usyscall"} \X Proc \X {0} \X {0}
  <2>1. s = Var(s[1], s[2]) /\ s[2] \in Proc /\ s[1] \in {"trapframe", "usyscall"}
    BY <1>1 DEF Var
  <2>2. state[s[2]] # "UNUSED"
    BY <2>1 DEF IInv, Vars
  <2> QED
    BY <2>1, <2>2 DEF Live
<1>2. CASE s \in {"mem"} \X Proc \X {0} \X {0}
  <2>1. s = Var("mem", s[2]) /\ s[2] \in Proc /\ s[1] = "mem"
    BY <1>2 DEF Var
  <2>2. op[s[2]].pc \in {"map", "mapfail"}
    BY <2>1 DEF IInv, Vars
  <2> QED
    BY <2>1, <2>2 DEF Live, At
<1>3. ASSUME s[1] \in {"root", "l1", "l0", "leaf"}
      PROVE  \E T \in Table : T = <<s[2], s[3]>> /\ ptr[Root(T)] # Null
  <2>1. s[2] \in Proc /\ s[3] \in {0, 1} /\ s = <<s[1], s[2], s[3], s[4]>>
    BY <1>3 DEF Slot
  <2>2. PICK T \in Table : T = <<s[2], s[3]>>
    BY <2>1 DEF Table
  <2>3. T[1] = s[2] /\ T[2] = s[3] /\ Linked(T)
    BY <2>2 DEF ImgInv, Trees
  <2>4. CASE s[1] = "root"
    <3>1. s[4] = 0
      BY <2>4 DEF Slot
    <3>2. s = Root(T)
      BY <2>1, <2>3, <2>4, <3>1 DEF Root, Ent
    <3> QED
      BY <2>2, <3>2
  <2>5. CASE s[1] = "l1"
    <3>1. PICK v \in Vpn : s[4] = L1(v)
      BY <2>5 DEF Slot
    <3>2. s = Ent("l1", T, L1(v))
      BY <2>1, <2>3, <2>5, <3>1 DEF Ent
    <3> QED
      BY <2>2, <2>3, <3>2 DEF Linked
  <2>6. CASE s[1] = "l0"
    <3>1. PICK v \in Vpn : s[4] = L0(v)
      BY <2>6 DEF Slot
    <3>2. s = Ent("l0", T, L0(v))
      BY <2>1, <2>3, <2>6, <3>1 DEF Ent
    <3> QED
      BY <2>2, <2>3, <3>2 DEF Linked
  <2>7. CASE s[1] = "leaf"
    <3>1. s[4] \in UserVpn
      BY <2>7 DEF Slot
    <3>2. s = Ent("leaf", T, s[4])
      BY <2>1, <2>3, <2>7 DEF Ent
    <3>3. s[4] \in Vpn /\ Mapped(T, s[4])
      BY <3>1, <3>2, VpnFacts DEF Vpn, Mapped
    <3> QED
      BY <2>2, <2>3, <3>3 DEF Linked
  <2> QED
    BY <1>3, <2>4, <2>5, <2>6, <2>7
<1>4. CASE s[1] \in {"root", "l1", "l0", "leaf"}
  <2>1. PICK T \in Table : T = <<s[2], s[3]>> /\ ptr[Root(T)] # Null
    BY <1>3, <1>4
  <2>2. TableInUse(<<s[2], s[3]>>)
    BY <2>1, RootInUse
  <2> QED
    BY <1>4, <2>2 DEF Live
<1> QED
  BY <1>1, <1>2, <1>4 DEF Slot

\* Every page that is held is held for something alive: no path of fork, exec,
\* sbrk, wait or exit loses a page, whichever kalloc() fails.
THEOREM PageNoLeak == Spec => []NoLeak
BY SlotsLive, PageImages, PTL

LEMMA ImageFacts ==
    ASSUME IInv, ImgInv, NEW p \in Proc, Complete(p), pagetable[p] \in Table
    PROVE  LET t == pagetable[p] IN
           /\ \A v \in UserVpn : (Walks(t, v) /\ Mapped(t, v)) <=> v \in 0 .. NPages(sz[p]) - 1
           /\ \A v \in Fixed : Walks(t, v) \/ ~ Mapped(t, v)
<1> DEFINE t == pagetable[p]
<1>1. Linked(t)
  BY DEF ImgInv, Trees
<1>2. \A v \in Vpn : Mapped(t, v) => Walks(t, v)
  BY <1>1 DEF Linked, Walks
<1>3. \A v \in UserVpn : Mapped(t, v) <=> v \in 0 .. NPages(sz[p]) - 1
  BY VpnFacts DEF Complete, Holds, Mapped
<1> QED
  BY <1>2, <1>3 DEF Vpn

LEMMA ImagesAreUsable == IInv /\ ImgInv => UserImage
<1> SUFFICES ASSUME IInv, ImgInv, NEW p \in Proc, InUser(p)
             PROVE  LET t == pagetable[p] IN
                    /\ \A v \in UserVpn : Walks(t, v) /\ Mapped(t, v) <=> v * PGSIZE < sz[p]
                    /\ \A v \in Fixed : Walks(t, v)
                    /\ alias[t][TRAMPOLINE] = Trampoline
                    /\ alias[t][TRAPFRAME] = ptr[Var("trapframe", p)]
                    /\ alias[t][USYSCALL] = ptr[Var("usyscall", p)]
  BY DEF UserImage
<1> DEFINE t == pagetable[p]
<1>1. HasVars(p) /\ Complete(p) /\ t \in Table /\ t[1] = p
  BY InUserImage
<1>2. sz[p] \in Nat /\ NPages(sz[p]) \in Nat
  <2>1. sz[p] \in 0 .. MaxSz /\ MaxSz \in Nat
    BY ConstantsAssumption DEF IInv, TypeOK
  <2> QED
    BY <2>1, NPagesRange, VpnFacts
<1>3. \A v \in UserVpn : v \in Nat
  BY VpnFacts DEF UserVpn
<1>4. \A v \in UserVpn : Walks(t, v) /\ Mapped(t, v) <=> v * PGSIZE < sz[p]
  <2> SUFFICES ASSUME NEW v \in UserVpn PROVE Walks(t, v) /\ Mapped(t, v) <=> v * PGSIZE < sz[p]
    OBVIOUS
  <2>1. Walks(t, v) /\ Mapped(t, v) <=> v \in 0 .. NPages(sz[p]) - 1
    BY <1>1, ImageFacts
  <2>2. v < NPages(sz[p]) <=> v * PGSIZE < sz[p]
    BY <1>2, <1>3, NPagesFacts
  <2>3. v \in 0 .. NPages(sz[p]) - 1 <=> v < NPages(sz[p])
    BY <1>2, <1>3
  <2> QED
    BY <2>1, <2>2, <2>3
<1>5. \A v \in Fixed : alias[t][v] # Null
  BY <1>1, FixedThere DEF Complete
<1>6. \A v \in Fixed : Walks(t, v)
  BY <1>1, <1>5, ImageFacts DEF Mapped
<1>7. \A v \in Fixed : alias[t][v] = Expect(p, v)
  BY <1>1 DEF Complete, Points
<1>8. USYSCALL \in Nat /\ TRAPFRAME = USYSCALL + 1 /\ TRAMPOLINE = USYSCALL + 2
  BY VpnFacts
<1>9. /\ alias[t][TRAMPOLINE] = Trampoline
      /\ alias[t][TRAPFRAME] = ptr[Var("trapframe", p)]
      /\ alias[t][USYSCALL] = ptr[Var("usyscall", p)]
  BY <1>7, <1>8 DEF Expect, Fixed
<1> QED
  BY <1>4, <1>6, <1>9

\* A process that runs user code reaches exactly the bytes below p->sz, to the
\* page, and its own trampoline, trapframe and usyscall pages, whatever calls
\* it and others have made and however they failed.
THEOREM PageUserImage == Spec => []UserImage
BY ImagesAreUsable, PageImages, PTL

LEMMA PidsAreStamped == IInv /\ ImgInv => UgetpidIsGetpid
<1> SUFFICES ASSUME IInv, ImgInv, NEW p \in Proc, InUser(p)
             PROVE  /\ alias[pagetable[p]][USYSCALL] \in Page
                    /\ upid[alias[pagetable[p]][USYSCALL]] = pid[p]
                    /\ \A q \in Proc \ {p} : pid[q] # pid[p]
  BY DEF UgetpidIsGetpid
<1>1. HasVars(p) /\ Stamped(p)
  BY InUserImage
<1>2. alias[pagetable[p]][USYSCALL] = ptr[Var("usyscall", p)]
  BY ImagesAreUsable DEF UserImage
<1>3. ptr[Var("usyscall", p)] \in Page
  BY <1>1, SlotFacts DEF HasVars, IInv, TypeOK
<1>4. pid[p] # 0
  BY DEF ImgInv, Pids, InUser
<1> QED
  BY <1>1, <1>2, <1>3, <1>4 DEF Stamped, ImgInv, Pids

\* The lab's ugetpid(): the page mapped at USYSCALL holds the pid that getpid()
\* returns, and no other process has it.
THEOREM PageUgetpidIsGetpid == Spec => []UgetpidIsGetpid
BY PidsAreStamped, PageImages, PTL

-----------------------------------------------------------------------------
(* The calls implement ProcessImages.                                      *)

\* The image of a process is what its state and p->sz say.
StatusOf(s) == CASE s = "RUNNABLE" -> "live" [] s = "ZOMBIE" -> "zombie" [] OTHER -> "none"
ImageOf(s, n) == Images!Whole(IF s = "RUNNABLE" THEN n ELSE 0)
Described == /\ Status = [p \in Proc |-> StatusOf(state[p])]
             /\ Image = [p \in Proc |-> ImageOf(state[p], sz[p])]

LEMMA PagesBelow ==
    ASSUME NEW n \in 0 .. MaxSz
    PROVE  {b \div PGSIZE : b \in 0 .. n - 1} = 0 .. NPages(n) - 1
<1>1. PICK P \in Nat \ {0} : P = PGSIZE
  BY ConstantsAssumption
<1>2. n \in Nat /\ NPages(n) \in Nat
  BY NPagesRange, VpnFacts, ConstantsAssumption
<1>3. ASSUME NEW b \in 0 .. n - 1 PROVE b \div P \in 0 .. NPages(n) - 1
  <2>1. PICK v \in Nat : v = b \div P /\ P * v <= b
    BY <1>2
  <2>2. v * P <= b /\ b < n
    BY <1>2, <2>1
  <2>3. v * PGSIZE < n
    BY <1>1, <1>2, <2>2
  <2>4. v < NPages(n)
    BY <1>2, <2>3, NPagesFacts
  <2> QED
    BY <1>2, <2>1, <2>4
<1>4. ASSUME NEW v \in 0 .. NPages(n) - 1 PROVE \E b \in 0 .. n - 1 : v = b \div P
  <2>1. v \in Nat /\ v < NPages(n)
    BY <1>2
  <2>2. v * PGSIZE < n
    BY <1>2, <2>1, NPagesFacts
  <2>3. PICK b \in Nat : b = v * P
    BY <2>1
  <2>4. b \in 0 .. n - 1
    BY <1>1, <1>2, <2>2, <2>3
  <2>5. b \div P = v
    BY <2>1, <2>3
  <2> QED
    BY <2>4, <2>5
<1> QED
  BY <1>1, <1>3, <1>4

LEMMA ImagesDescribed == IInv /\ ImgInv => Described
<1> SUFFICES ASSUME IInv, ImgInv PROVE Described
  OBVIOUS
<1>1. Status = [p \in Proc |-> StatusOf(state[p])]
  BY DEF Status, StatusOf
<1>2. ASSUME NEW p \in Proc, state[p] = "RUNNABLE", op[p].call # "sbrk"
      PROVE  Pages(p) = {b \div PGSIZE : b \in 0 .. sz[p] - 1}
  <2>1. Complete(p)
    <3>1. CASE op[p].call = "exec" /\ Busy(p)
      <4>1. Worker(p, op[p]) /\ Working(p, op[p])
        BY <3>1 DEF IInv, Workers, ImgInv, Works
      <4> QED
        BY <3>1, <4>1 DEF Worker, Working
    <3>2. CASE ~ (op[p].call = "exec" /\ Busy(p))
      <4>1. ASSUME NEW r \in Proc, Busy(r), op[r].q = p PROVE FALSE
        <5>1. Worker(r, op[r]) /\ op[r].call \in Call
          BY <4>1, InKernel DEF Busy, Op
        <5> QED
          BY <1>2, <3>2, <4>1, <5>1 DEF Worker, Call
      <4>2. Resting(p)
        BY <4>1 DEF ImgInv, Rests, Unworked
      <4> QED
        BY <1>2, <4>2 DEF Resting
    <3> QED
      BY <3>1, <3>2
  <2>2. pagetable[p] \in Table
    BY <1>2, OwnTable DEF IInv, Tables
  <2>3. \A v \in UserVpn : (Walks(pagetable[p], v) /\ Mapped(pagetable[p], v))
                           <=> v \in 0 .. NPages(sz[p]) - 1
    BY <2>1, <2>2, ImageFacts
  <2>4. sz[p] \in 0 .. MaxSz
    BY DEF IInv, TypeOK
  <2>5. 0 .. NPages(sz[p]) - 1 \subseteq UserVpn
    BY <2>4, NPagesRange, VpnFacts DEF UserVpn
  <2>6. Pages(p) = 0 .. NPages(sz[p]) - 1
    BY <2>3, <2>5 DEF Pages
  <2> QED
    BY <2>4, <2>6, PagesBelow
<1>3. ASSUME NEW p \in Proc, state[p] # "RUNNABLE"
      PROVE  ImageOf(state[p], sz[p]) = [size |-> 0, pages |-> {}]
  <2>1. 0 .. 0 - 1 = {}
    OBVIOUS
  <2>2. {b \div PGSIZE : b \in 0 .. 0 - 1} = {}
    BY <2>1
  <2> QED
    BY <1>3, <2>2 DEF ImageOf, Images!Whole
<1>4. ASSUME NEW p \in Proc, state[p] = "RUNNABLE"
      PROVE  ImageOf(state[p], sz[p]) =
               [size |-> sz[p], pages |-> {b \div PGSIZE : b \in 0 .. sz[p] - 1}]
  BY <1>4 DEF ImageOf, Images!Whole
<1>5. ASSUME NEW p \in Proc
      PROVE  [size  |-> IF state[p] = "RUNNABLE" THEN sz[p] ELSE 0,
              pages |-> IF state[p] # "RUNNABLE" THEN {}
                        ELSE IF op[p].call = "sbrk"
                        THEN {b \div PGSIZE : b \in 0 .. sz[p] - 1}
                        ELSE Pages(p)] = ImageOf(state[p], sz[p])
  <2>1. CASE state[p] # "RUNNABLE"
    BY <1>3, <2>1
  <2>2. CASE state[p] = "RUNNABLE" /\ op[p].call = "sbrk"
    BY <1>4, <2>2
  <2>3. CASE state[p] = "RUNNABLE" /\ op[p].call # "sbrk"
    BY <1>2, <1>4, <2>3
  <2> QED
    BY <2>1, <2>2, <2>3
<1>6. Image = [p \in Proc |-> ImageOf(state[p], sz[p])]
  BY <1>5 DEF Image
<1> QED
  BY <1>1, <1>6 DEF Described

\* A step that changes state and p->sz of process q only.
LEMMA DescribedStep ==
    ASSUME Described, Described', NEW q \in Proc,
           \A x \in Proc \ {q} : state'[x] = state[x] /\ sz'[x] = sz[x]
    PROVE  /\ Status' = [Status EXCEPT ![q] = StatusOf(state'[q])]
           /\ Image' = [Image EXCEPT ![q] = ImageOf(state'[q], sz'[q])]
           /\ \A p \in Proc : /\ Status[p] = StatusOf(state[p])
                              /\ Image[p] = ImageOf(state[p], sz[p])
<1>1. /\ Status = [p \in Proc |-> StatusOf(state[p])]
      /\ Image = [p \in Proc |-> ImageOf(state[p], sz[p])]
  BY DEF Described
<1>2. /\ Status' = [p \in Proc |-> StatusOf(state'[p])]
      /\ Image' = [p \in Proc |-> ImageOf(state'[p], sz'[p])]
  BY DEF Described, StatusOf, ImageOf, Images!Whole
<1> QED
  BY <1>1, <1>2

LEMMA SameStep ==
    ASSUME Described, Described',
           \A x \in Proc : /\ StatusOf(state'[x]) = StatusOf(state[x])
                           /\ ImageOf(state'[x], sz'[x]) = ImageOf(state[x], sz[x])
    PROVE  UNCHANGED <<Status, Image>>
<1>1. /\ Status = [p \in Proc |-> StatusOf(state[p])]
      /\ Image = [p \in Proc |-> ImageOf(state[p], sz[p])]
  BY DEF Described
<1>2. /\ Status' = [p \in Proc |-> StatusOf(state'[p])]
      /\ Image' = [p \in Proc |-> ImageOf(state'[p], sz'[p])]
  BY DEF Described, StatusOf, ImageOf, Images!Whole
<1> QED
  BY <1>1, <1>2

LEMMA SetSzMaps ==
    ASSUME IInv, ImgInv, Described, Described', NEW p \in Proc, SetSz(p)
    PROVE  Images!Next
<1>1. PICK o, q : o = op[p] /\ q = op[p].q /\ q = o.q
  OBVIOUS
<1>2. At(p, "setsz") /\ o.pc = "setsz"
  BY <1>1 DEF SetSz, At
<1>3. o \in Op /\ q \in Proc /\ Worker(p, o)
  BY <1>1, <1>2, InKernel
<1>4. Working(p, o)
  BY <1>1, <1>2 DEF ImgInv, Works, Busy
<1>5. /\ sz' = [sz EXCEPT ![q] = o.nsz]
      /\ IF o.call = "sbrk" THEN state' = state ELSE state' = [state EXCEPT ![q] = "RUNNABLE"]
  BY <1>1 DEF SetSz
<1>6. /\ sz'[q] = o.nsz
      /\ state'[q] = (IF o.call = "sbrk" THEN state[q] ELSE "RUNNABLE")
      /\ \A x \in Proc \ {q} : state'[x] = state[x] /\ sz'[x] = sz[x]
  BY <1>3, <1>5 DEF IInv, TypeOK
<1>7. /\ Status' = [Status EXCEPT ![q] = StatusOf(state'[q])]
      /\ Image' = [Image EXCEPT ![q] = ImageOf(state'[q], sz'[q])]
      /\ \A x \in Proc : Status[x] = StatusOf(state[x]) /\ Image[x] = ImageOf(state[x], sz[x])
  BY <1>3, <1>6, DescribedStep
<1>8. Status = [x \in Proc |-> StatusOf(state[x])]
  BY DEF Described
<1>9. o.call \in {"sbrk", "fork", "userinit"} /\ o.nsz \in 0 .. MaxSz
  BY <1>1, <1>2, <1>3, InKernel DEF Op, Call, Cursor, Worker
<1>10. CASE o.call = "sbrk"
  <2>1. q = p /\ state[q] = "RUNNABLE"
    BY <1>1, <1>3, <1>10 DEF Worker
  <2>2. Status[p] = "live" /\ Status' = Status
    BY <1>6, <1>7, <1>8, <1>10, <2>1 DEF StatusOf
  <2>3. Image' = [Image EXCEPT ![p] = Images!Whole(o.nsz)]
    BY <1>6, <1>7, <1>10, <2>1 DEF ImageOf
  <2>4. Images!NewImage(p)
    BY <1>9, <2>2, <2>3 DEF Images!NewImage
  <2> QED
    BY <2>4 DEF Images!Next
<1>11. CASE o.call = "fork"
  <2>1. q # p /\ state[p] = "RUNNABLE" /\ state[q] = "USED" /\ o.nsz = sz[p]
    BY <1>1, <1>2, <1>3, <1>4, <1>11 DEF Worker, Working, Bounds
  <2>2. Status[p] = "live" /\ Status[q] = "none" /\ Status' = [Status EXCEPT ![q] = "live"]
    BY <1>3, <1>6, <1>7, <1>11, <2>1 DEF StatusOf
  <2>3. Image' = [Image EXCEPT ![q] = Image[p]]
    BY <1>6, <1>7, <1>11, <2>1 DEF ImageOf
  <2>4. Images!Fork(p, q)
    BY <2>2, <2>3 DEF Images!Fork
  <2> QED
    BY <1>3, <2>4 DEF Images!Next
<1>12. CASE o.call = "userinit"
  <2>1. p = InitProc /\ q = p /\ state[p] = "USED" /\ o.nsz = PGSIZE
    BY <1>1, <1>2, <1>3, <1>4, <1>12 DEF Worker, Working, Bounds
  <2>2. \A x \in Proc : state[x] \in {"UNUSED", "USED"}
    BY <1>1, <1>12, <2>1 DEF ImgInv, Boot
  <2>3. \A x \in Proc : Status[x] = "none"
    BY <1>7, <2>2 DEF StatusOf
  <2>4. /\ Status' = [Status EXCEPT ![InitProc] = "live"]
        /\ Image' = [Image EXCEPT ![InitProc] = Images!Whole(PGSIZE)]
    BY <1>6, <1>7, <1>12, <2>1 DEF StatusOf, ImageOf
  <2>5. Images!Boot
    BY <2>3, <2>4 DEF Images!Boot
  <2> QED
    BY <2>5 DEF Images!Next
<1> QED
  BY <1>9, <1>10, <1>11, <1>12

LEMMA ExecCommitMaps ==
    ASSUME IInv, ImgInv, Described, Described', NEW p \in Proc, ExecCommit(p)
    PROVE  [Images!Next]_<<Status, Image>>
<1>1. PICK o : o = op[p]
  OBVIOUS
<1>2. At(p, "args") /\ o.pc = "args"
  BY <1>1 DEF ExecCommit, At
<1>3. o \in Op /\ Worker(p, o) /\ o.call = "exec"
  BY <1>1, <1>2, InKernel DEF Cursor, Op
<1>4. CASE ~ FixedMapped(pagetable[p])
  <2>1. state' = state /\ sz' = sz
    BY <1>4 DEF ExecCommit, Panic, procVars
  <2> QED
    BY <2>1, SameStep
<1>5. CASE FixedMapped(pagetable[p])
  <2>1. state' = state /\ sz' = [sz EXCEPT ![p] = o.sz]
    BY <1>1, <1>5 DEF ExecCommit
  <2>2. sz'[p] = o.sz /\ \A x \in Proc \ {p} : state'[x] = state[x] /\ sz'[x] = sz[x]
    BY <2>1 DEF IInv, TypeOK
  <2>3. /\ Status' = [Status EXCEPT ![p] = StatusOf(state'[p])]
        /\ Image' = [Image EXCEPT ![p] = ImageOf(state'[p], sz'[p])]
        /\ \A x \in Proc : Status[x] = StatusOf(state[x])
    BY <2>2, DescribedStep
  <2>4. state[p] = "RUNNABLE" /\ o.sz \in 0 .. MaxSz
    BY <1>3 DEF Worker, Op
  <2>5. Status = [x \in Proc |-> StatusOf(state[x])]
    BY DEF Described
  <2>6. Status[p] = "live" /\ Status' = Status
    BY <2>1, <2>3, <2>4, <2>5 DEF StatusOf
  <2>7. Image' = [Image EXCEPT ![p] = Images!Whole(o.sz)]
    BY <2>1, <2>2, <2>3, <2>4 DEF ImageOf
  <2>8. Images!NewImage(p)
    BY <2>4, <2>6, <2>7 DEF Images!NewImage
  <2> QED
    BY <2>8 DEF Images!Next
<1> QED
  BY <1>4, <1>5

LEMMA FreeProcEndMaps ==
    ASSUME IInv, ImgInv, Described, Described', NEW p \in Proc, FreeProcEnd(p)
    PROVE  [Images!Next]_<<Status, Image>>
<1>1. PICK o, q : o = op[p] /\ q = op[p].q /\ q = o.q
  OBVIOUS
<1>2. At(p, "fpend") /\ o.pc = "fpend"
  BY <1>1 DEF FreeProcEnd, At
<1>3. o \in Op /\ q \in Proc /\ Worker(p, o) /\ o.call \in {"userinit", "fork", "wait"}
  BY <1>1, <1>2, InKernel DEF Cursor, Op, Call, Worker
<1>4. CASE o.call = "userinit"
  <2>1. state' = state /\ sz' = sz
    BY <1>1, <1>4 DEF FreeProcEnd, Panic, procVars
  <2> QED
    BY <2>1, SameStep
<1>5. CASE o.call # "userinit"
  <2>1. state' = [state EXCEPT ![q] = "UNUSED"] /\ sz' = [sz EXCEPT ![q] = 0]
    BY <1>1, <1>5 DEF FreeProcEnd
  <2>2. /\ state'[q] = "UNUSED" /\ sz'[q] = 0
        /\ \A x \in Proc \ {q} : state'[x] = state[x] /\ sz'[x] = sz[x]
    BY <1>3, <2>1 DEF IInv, TypeOK
  <2>3. state[q] = IF o.call = "fork" THEN "USED" ELSE "ZOMBIE"
    BY <1>1, <1>3, <1>5 DEF Worker
  <2>4. ImageOf(state'[q], sz'[q]) = ImageOf(state[q], sz[q])
    BY <2>2, <2>3 DEF ImageOf
  <2>5. CASE o.call = "fork"
    <3>1. StatusOf(state'[q]) = StatusOf(state[q])
      BY <2>2, <2>3, <2>5 DEF StatusOf
    <3> QED
      BY <2>2, <2>4, <3>1, SameStep
  <2>6. CASE o.call = "wait"
    <3>1. /\ Status' = [Status EXCEPT ![q] = StatusOf(state'[q])]
          /\ Image' = [Image EXCEPT ![q] = ImageOf(state'[q], sz'[q])]
          /\ \A x \in Proc : Status[x] = StatusOf(state[x]) /\ Image[x] = ImageOf(state[x], sz[x])
      BY <1>3, <2>2, DescribedStep
    <3>2. Status[q] = "zombie" /\ Status' = [Status EXCEPT ![q] = "none"]
      BY <1>3, <2>2, <2>3, <2>6, <3>1 DEF StatusOf
    <3>3. Image = [x \in Proc |-> ImageOf(state[x], sz[x])]
      BY DEF Described
    <3>4. Image' = Image
      BY <2>4, <3>1, <3>3
    <3>5. Images!Reap(q)
      BY <3>2, <3>4 DEF Images!Reap
    <3> QED
      BY <1>3, <3>5 DEF Images!Next
  <2> QED
    BY <1>3, <1>5, <2>5, <2>6
<1> QED
  BY <1>4, <1>5

LEMMA ForkMaps ==
    ASSUME IInv, ImgInv, Described, Described', NEW p \in Proc, Fork(p)
    PROVE  UNCHANGED <<Status, Image>>
<1>1. PICK q \in Proc : state[q] = "UNUSED" /\ state' = [state EXCEPT ![q] = "USED"] /\ sz' = sz
  BY DEF Fork
<1>2. state'[q] = "USED" /\ \A x \in Proc \ {q} : state'[x] = state[x]
  BY <1>1 DEF IInv, TypeOK
<1>3. ASSUME NEW x \in Proc
      PROVE  /\ StatusOf(state'[x]) = StatusOf(state[x])
             /\ ImageOf(state'[x], sz'[x]) = ImageOf(state[x], sz[x])
  <2>1. CASE x = q
    BY <1>1, <1>2, <2>1 DEF StatusOf, ImageOf
  <2>2. CASE x # q
    BY <1>1, <1>2, <2>2
  <2> QED
    BY <2>1, <2>2
<1> QED
  BY <1>3, SameStep

LEMMA ExitMaps ==
    ASSUME IInv, ImgInv, Described, Described', NEW p \in Proc, Exit(p)
    PROVE  Images!Next
<1>1. /\ p # InitProc /\ state[p] = "RUNNABLE"
      /\ state' = [state EXCEPT ![p] = "ZOMBIE"] /\ sz' = sz
  BY DEF Exit, InUser
<1>2. state'[p] = "ZOMBIE" /\ \A x \in Proc \ {p} : state'[x] = state[x] /\ sz'[x] = sz[x]
  BY <1>1 DEF IInv, TypeOK
<1>3. /\ Status' = [Status EXCEPT ![p] = StatusOf(state'[p])]
      /\ Image' = [Image EXCEPT ![p] = ImageOf(state'[p], sz'[p])]
      /\ \A x \in Proc : Status[x] = StatusOf(state[x])
  BY <1>2, DescribedStep
<1>4. Status[p] = "live" /\ Status' = [Status EXCEPT ![p] = "zombie"]
  BY <1>1, <1>2, <1>3 DEF StatusOf
<1>5. Image' = [Image EXCEPT ![p] = Images!Whole(0)]
  BY <1>2, <1>3 DEF ImageOf
<1>6. Images!Exit(p)
  BY <1>1, <1>4, <1>5 DEF Images!Exit
<1> QED
  BY <1>6 DEF Images!Next

\* Every other step leaves all states and all sizes alone.
LEMMA OtherMaps ==
    ASSUME NEW p \in Proc,
           SysCall(p) \/ KernelStep(p), ~ Fork(p), ~ Exit(p),
           ~ SetSz(p), ~ ExecCommit(p), ~ FreeProcEnd(p)
    PROVE  state' = state /\ sz' = sz
<1>1. CASE Exec(p) \/ Sbrk(p) \/ Wait(p)
  BY <1>1 DEF Exec, Sbrk, Wait, procVars
<1>2. CASE AllocTrapframe(p) \/ AllocUsyscall(p) \/ UvmCreate(p) \/ WalkAlloc(p)
  BY <1>2 DEF AllocTrapframe, AllocUsyscall, UvmCreate, WalkAlloc, procVars
<1>3. CASE MapUserPage(p) \/ MapFixed(p)
  BY <1>3 DEF MapUserPage, MapFixed, Panic, procVars
<1>4. CASE MapFailFixed(p) \/ MapFailUser(p) \/ AllocPage(p) \/ AllocDone(p)
  BY <1>4 DEF MapFailFixed, MapFailUser, AllocPage, AllocDone, Panic, procVars
<1>5. CASE LoadSegment(p) \/ AllocStack(p) \/ ExecFails(p) \/ ExecBad(p)
  BY <1>5 DEF LoadSegment, AllocStack, ExecFails, ExecBad, Panic, procVars
<1>6. CASE UnmapPage(p) \/ UnmapDone(p) \/ Freewalk(p)
  BY <1>6 DEF UnmapPage, UnmapDone, Freewalk, Panic, procVars
<1>7. CASE FreeTrapframe(p) \/ FreeUsyscall(p) \/ FreeProcPagetable(p)
  BY <1>7 DEF FreeTrapframe, FreeUsyscall, FreeProcPagetable, Panic, procVars
<1> QED
  BY <1>1, <1>2, <1>3, <1>4, <1>5, <1>6, <1>7 DEF SysCall, KernelStep

LEMMA ImagesInitMaps == Init => Images!Init
<1> SUFFICES ASSUME Init PROVE Images!Init
  OBVIOUS
<1>1. /\ Status = [p \in Proc |-> StatusOf(state[p])]
      /\ Image = [p \in Proc |-> ImageOf(state[p], sz[p])]
  BY InitIInv, InitImgInv, ImagesDescribed DEF Described
<1>2. \A p \in Proc : state[p] \in {"UNUSED", "USED"}
  BY DEF Init
<1>3. \A p \in Proc : StatusOf(state[p]) = "none" /\ ImageOf(state[p], sz[p]) = Images!Whole(0)
  BY <1>2 DEF StatusOf, ImageOf
<1> QED
  BY <1>1, <1>3 DEF Images!Init

LEMMA ImagesNextMaps ==
    IInv /\ ImgInv /\ Described /\ Described' /\ [Next]_vars => [Images!Next]_<<Status, Image>>
<1> SUFFICES ASSUME IInv, ImgInv, Described, Described', [Next]_vars
             PROVE  [Images!Next]_<<Status, Image>>
  OBVIOUS
<1>1. CASE state' = state /\ sz' = sz
  BY <1>1, SameStep
<1>2. CASE UNCHANGED vars
  BY <1>1, <1>2 DEF vars, procVars
<1>3. CASE Next
  <2>1. PICK p \in Proc : SysCall(p) \/ KernelStep(p)
    BY <1>3 DEF Next
  <2>2. CASE Fork(p)
    BY <2>2, ForkMaps
  <2>3. CASE Exit(p)
    BY <2>3, ExitMaps
  <2>4. CASE SetSz(p)
    BY <2>4, SetSzMaps
  <2>5. CASE ExecCommit(p)
    BY <2>5, ExecCommitMaps
  <2>6. CASE FreeProcEnd(p)
    BY <2>6, FreeProcEndMaps
  <2>7. CASE ~ (Fork(p) \/ Exit(p) \/ SetSz(p) \/ ExecCommit(p) \/ FreeProcEnd(p))
    BY <1>1, <2>1, <2>7, OtherMaps
  <2> QED
    BY <2>2, <2>3, <2>4, <2>5, <2>6, <2>7
<1> QED
  BY <1>2, <1>3

\* fork, exec, sbrk, exit and wait take effect at one point each, on the images
\* of the caller and the child only, or fail and change nothing that a user
\* program can see, whichever kalloc() fails and whatever runs at the same time.
THEOREM PageAllOrNothing == Spec => AllOrNothing
<1>1. Spec => Images!Init /\ [][Images!Next]_<<Status, Image>>
  BY ImagesInitMaps, ImagesNextMaps, ImagesDescribed, PageImages, PTL DEF Spec
<1> QED
  BY <1>1, PTL DEF AllOrNothing, Images!Spec
=============================================================================
