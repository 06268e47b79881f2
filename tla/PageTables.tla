----------------------------- MODULE PageTables -----------------------------
(***************************************************************************)
(* Physical pages and the page tables built from them: kalloc.c, the user  *)
(* half of vm.c, and the paths of proc.c, exec.c and sysproc.c that        *)
(* allocate and free pages (allocproc, proc_pagetable, fork, growproc,     *)
(* exec, exit, wait, freeproc).                                            *)
(*                                                                         *)
(* Processes run these paths at the same time on several harts.  The only  *)
(* thing they share is the free list, under kmem.lock, so a step of the    *)
(* model is one kalloc() or kfree() with the private work around it.  Any  *)
(* kalloc() may find the list empty, and every path must then undo exactly *)
(* what it did.                                                            *)
(*                                                                         *)
(* A page is held through a "slot": a pointer variable of the kernel, such *)
(* as p->trapframe, a local `mem', or an entry of a page-table page.       *)
(* ptr[s] is the page that slot s points to.  A page-table tree of three   *)
(* levels is the slots of one table: its root, its level-1 and level-0     *)
(* table pages, and its leaves (the user pages).                           *)
(***************************************************************************)
EXTENDS Integers, FiniteSets

CONSTANTS
    Proc,        \* the slots of the process table proc[NPROC]
    InitProc,    \* the slot userinit() gets: initproc
    Page,        \* the physical pages between end and PHYSTOP
    Null,        \* a null pointer
    Trampoline,  \* the page of kernel text mapped at TRAMPOLINE
    PGSIZE,      \* bytes in a page
    RADIX,       \* entries in a page-table page (512)
    MAXVPN,      \* pages below MAXVA
    UINT64,      \* a uint64 is modulo UINT64 (2^64)
    MaxSz,       \* bound: the largest process size considered, in bytes
    MaxPid,      \* bound: the largest pid handed out
    Pick(_)      \* the pages kalloc() may take from a non-empty free list

\* Mutant: the partial last page is not counted.
MutNPages(sz) == sz \div PGSIZE

NPages(sz) == (sz + PGSIZE - 1) \div PGSIZE       \* PGROUNDUP(sz)/PGSIZE

TRAMPOLINE == MAXVPN - 1
TRAPFRAME  == MAXVPN - 2
USYSCALL   == MAXVPN - 3
Fixed      == {TRAMPOLINE, TRAPFRAME, USYSCALL}
UserVpn    == 0 .. NPages(MaxSz) - 1
Vpn        == UserVpn \cup Fixed

ASSUME ConstantsAssumption ==
    /\ InitProc \in Proc
    /\ Null \notin Proc \cup Page \cup {Trampoline}
    /\ Trampoline \notin Page
    /\ PGSIZE \in Nat \ {0} /\ RADIX \in Nat \ {0}
    /\ MaxSz \in Nat /\ PGSIZE <= MaxSz /\ UINT64 \in Nat /\ 2 * MaxSz < UINT64
    /\ MaxPid \in Nat \ {0}
    /\ MAXVPN \in Nat /\ NPages(MaxSz) <= USYSCALL

ASSUME PickAssumption ==
    \A S \in SUBSET Page : S # {} => Pick(S) # {} /\ Pick(S) \subseteq S

\* The table pages that walk() goes through for page v.
L1(v) == v \div (RADIX * RADIX)
L0(v) == v \div RADIX

\* A process is attached to at most two tables: its own, and the one that
\* exec() builds.
Table == Proc \X {0, 1}

Slot == ({"trapframe", "usyscall", "mem"} \X Proc \X {0} \X {0})
        \cup ({"root"} \X Proc \X {0, 1} \X {0})
        \cup ({"l1"} \X Proc \X {0, 1} \X {L1(v) : v \in Vpn})
        \cup ({"l0"} \X Proc \X {0, 1} \X {L0(v) : v \in Vpn})
        \cup ({"leaf"} \X Proc \X {0, 1} \X UserVpn)

Var(kind, p)    == <<kind, p, 0, 0>>
Ent(kind, t, n) == <<kind, t[1], t[2], n>>
Root(t)         == Ent("root", t, 0)

\* The pages that userinit() needs: it does not expect kalloc() to fail.
BootTable == <<InitProc, 0>>
BootVpn   == Fixed \cup {0}
BootSlots == {Var(k, InitProc) : k \in {"trapframe", "usyscall", "mem"}}
             \cup {Root(BootTable), Ent("leaf", BootTable, 0)}
             \cup {Ent("l1", BootTable, L1(v)) : v \in BootVpn}
             \cup {Ent("l0", BootTable, L0(v)) : v \in BootVpn}

ASSUME MemoryAssumption ==
    IsFiniteSet(Page) /\ Cardinality(BootSlots) <= Cardinality(Page)

VARIABLES
    state,       \* p->state; RUNNABLE stands for RUNNING and SLEEPING too
    parent,      \* p->parent
    pid,         \* p->pid
    nextpid,     \* nextpid
    sz,          \* p->sz, in bytes
    pagetable,   \* p->pagetable
    free,        \* how many times each page is on kmem.freelist
    ptr,         \* the page each slot points to
    alias,       \* the three fixed leaf PTEs, which own nothing
    upid,        \* the pid stored in the page, if it is a struct usyscall
    op,          \* what the process is doing inside the kernel
    panicked     \* the message of panic(), if it was called

procVars == <<state, parent, pid, nextpid, sz, pagetable>>
memVars  == <<free, ptr, upid>>
vars     == <<procVars, memVars, alias, op, panicked>>

Junk       == 0                 \* what kalloc() and kfree() fill a page with
NoTable    == <<InitProc, 2>>   \* a null pagetable_t

FreePages == {pg \in Page : free[pg] > 0}

\* Mutant: the page stays on the free list.
MutKalloc(s) ==
    \E pg \in Pick(FreePages) : /\ ptr'  = [ptr EXCEPT ![s] = pg]
                               /\ upid' = [upid EXCEPT ![pg] = Junk]
                               /\ UNCHANGED free

\* kalloc() into slot s.  The order of the free list is abstracted by Pick.
Kalloc(s) ==
    \E pg \in Pick(FreePages) :
        /\ free' = [free EXCEPT ![pg] = @ - 1]
        /\ ptr'  = [ptr EXCEPT ![s] = pg]
        /\ upid' = [upid EXCEPT ![pg] = Junk]

OutOfMemory == FreePages = {}

\* kfree() of the page slot s points to, and the slot cleared.
Kfree(s) ==
    /\ free' = [free EXCEPT ![ptr[s]] = @ + 1]
    /\ ptr'  = [ptr EXCEPT ![s] = Null]
    /\ upid' = [upid EXCEPT ![ptr[s]] = Junk]

Panic(msg) == panicked' = msg /\ UNCHANGED <<procVars, memVars, alias, op>>

\* walk(t, v, 0): both table pages on the way to v exist.
Walks(t, v) == /\ ptr[Root(t)] # Null
               /\ ptr[Ent("l1", t, L1(v))] # Null
               /\ ptr[Ent("l0", t, L0(v))] # Null

Mapped(t, v) == IF v \in Fixed THEN alias[t][v] # Null
                               ELSE ptr[Ent("leaf", t, v)] # Null

-----------------------------------------------------------------------------
(* The kernel activity of a process: the system call, where it is in it,   *)
(* and its local variables.                                                *)
Idle == [call |-> "none", pc |-> "user", q |-> InitProc,
         t |-> <<InitProc, 0>>, a |-> 0, lim |-> 0, base |-> 0,
         sz |-> 0, nsz |-> 0, then |-> "user"]

Call == {"none", "userinit", "fork", "exec", "sbrk", "wait"}
Pc == {"user", "trapframe", "usyscall", "root", "map", "mapfail", "alloc",
       "load", "args", "bad", "setsz", "unmap", "uvmfree", "freewalk",
       "fptf", "fpus", "fppt", "fpend"}
Op == [call : Call, pc : Pc, q : Proc, t : Table, a : 0 .. MAXVPN,
       lim : 0 .. MAXVPN, base : 0 .. MAXVPN, sz : 0 .. MaxSz,
       nsz : 0 .. MaxSz, then : Pc]

Enter(p, o)   == op' = [op EXCEPT ![p] = o]
Goto(p, l)    == op' = [op EXCEPT ![p] = IF l = "user" THEN Idle
                                                       ELSE [@ EXCEPT !.pc = l]]
InUser(p)     == state[p] = "RUNNABLE" /\ op[p].pc = "user"
At(p, l)      == op[p].pc = l

\* Where a failed proc_pagetable() leads: exec() just returns -1, allocproc()
\* calls freeproc().
NoTableThen(o) == IF o.call = "exec" THEN "user" ELSE "fptf"

-----------------------------------------------------------------------------
(* System calls enter the kernel.                                          *)

\* fork(): allocproc() finds an UNUSED slot and takes the next pid.
Fork(p) ==
    /\ InUser(p) /\ nextpid <= MaxPid
    /\ \E q \in Proc :
        /\ state[q] = "UNUSED"
        /\ state' = [state EXCEPT ![q] = "USED"]
        /\ pid'   = [pid EXCEPT ![q] = nextpid]
        /\ Enter(p, [Idle EXCEPT !.call = "fork", !.pc = "trapframe",
                                 !.q = q, !.t = <<q, 0>>])
    /\ nextpid' = nextpid + 1
    /\ UNCHANGED <<parent, sz, pagetable, memVars, alias, panicked>>

\* exec(): the file is an ELF file; a new table is built beside the old one.
Exec(p) ==
    /\ InUser(p)
    /\ Enter(p, [Idle EXCEPT !.call = "exec", !.pc = "root", !.q = p,
                             !.t = <<p, 1 - pagetable[p][2]>>])
    /\ UNCHANGED <<procVars, memVars, alias, panicked>>

SbrkOp(p, l, from, to, nsz) ==
    [Idle EXCEPT !.call = "sbrk", !.pc = l, !.q = p, !.t = pagetable[p], !.a = from,
                 !.base = from, !.lim = to, !.nsz = nsz, !.then = "setsz"]

\* sbrk(n) -> growproc(n) to the size nsz, in uint64.  A shrink below 0 wraps
\* around: uvmdealloc() sees newsz >= oldsz and changes nothing.
Sbrk(p) ==
    /\ InUser(p)
    /\ \E n \in -(MaxSz + 1) .. MaxSz :
        LET nsz == (sz[p] + n) % UINT64 IN
        \/ n > 0 /\ nsz <= MaxSz
           /\ Enter(p, SbrkOp(p, "alloc", NPages(sz[p]), NPages(nsz), nsz))
        \/ n < 0 /\ nsz < sz[p]
           /\ Enter(p, SbrkOp(p, "unmap", NPages(nsz), NPages(sz[p]), nsz))
        \/ n <= 0 /\ nsz >= sz[p]
           /\ Enter(p, SbrkOp(p, "setsz", 0, 0, sz[p]))
    /\ UNCHANGED <<procVars, memVars, alias, panicked>>

\* exit(): the pages stay with the zombie; children go to initproc.
Exit(p) ==
    /\ InUser(p) /\ p # InitProc
    /\ state'  = [state EXCEPT ![p] = "ZOMBIE"]
    /\ parent' = [q \in Proc |-> IF parent[q] = p THEN InitProc ELSE parent[q]]
    /\ UNCHANGED <<pid, nextpid, sz, pagetable, memVars, alias, op, panicked>>

\* Mutant: wait() does not check that the child is a zombie.
MutWait(p) ==
    /\ InUser(p)
    /\ \E q \in Proc :
        /\ parent[q] = p
        /\ Enter(p, [Idle EXCEPT !.call = "wait", !.pc = "fptf", !.q = q,
                                 !.t = pagetable[q]])
    /\ UNCHANGED <<procVars, memVars, alias, panicked>>

\* wait() found a zombie child and calls freeproc() on it.
Wait(p) ==
    /\ InUser(p)
    /\ \E q \in Proc :
        /\ parent[q] = p /\ state[q] = "ZOMBIE"
        /\ Enter(p, [Idle EXCEPT !.call = "wait", !.pc = "fptf", !.q = q,
                                 !.t = pagetable[q]])
    /\ UNCHANGED <<procVars, memVars, alias, panicked>>

-----------------------------------------------------------------------------
(* allocproc() and proc_pagetable().                                       *)

AllocTrapframe(p) ==
    /\ At(p, "trapframe")
    /\ IF OutOfMemory
       THEN Goto(p, "fptf") /\ UNCHANGED memVars
       ELSE Kalloc(Var("trapframe", op[p].q)) /\ Goto(p, "usyscall")
    /\ UNCHANGED <<procVars, alias, panicked>>

AllocUsyscall(p) ==
    /\ At(p, "usyscall")
    /\ IF OutOfMemory
       THEN Goto(p, "fptf") /\ UNCHANGED memVars
       ELSE Kalloc(Var("usyscall", op[p].q)) /\ Goto(p, "root")
    /\ UNCHANGED <<procVars, alias, panicked>>

\* uvmcreate(); then the first mappages() of proc_pagetable().
UvmCreate(p) ==
    /\ At(p, "root")
    /\ IF OutOfMemory
       THEN Goto(p, NoTableThen(op[p])) /\ UNCHANGED memVars
       ELSE /\ Kalloc(Root(op[p].t))
            /\ Enter(p, [op[p] EXCEPT !.pc = "map", !.a = TRAMPOLINE])
    /\ UNCHANGED <<procVars, alias, panicked>>

-----------------------------------------------------------------------------
(* mappages() of page op[p].a, and the walk() inside it.                   *)

\* walk() finds a level missing and allocates it.  On failure the levels it
\* already installed stay.
WalkAlloc(p) ==
    LET o  == op[p]
        l1 == Ent("l1", o.t, L1(o.a))
        s  == IF ptr[l1] = Null THEN l1 ELSE Ent("l0", o.t, L0(o.a))
    IN  /\ At(p, "map") /\ ptr[s] = Null
        /\ IF OutOfMemory
           THEN Goto(p, "mapfail") /\ UNCHANGED memVars
           ELSE Kalloc(s) /\ UNCHANGED op
        /\ UNCHANGED <<procVars, alias, panicked>>

\* The PTE of a user page takes over the page that `mem' held.
MapUserPage(p) ==
    LET o == op[p] IN
    /\ At(p, "map") /\ o.a \notin Fixed /\ Walks(o.t, o.a)
    /\ IF Mapped(o.t, o.a)
       THEN Panic("mappages: remap")
       ELSE /\ ptr' = [ptr EXCEPT ![Ent("leaf", o.t, o.a)] = ptr[Var("mem", p)],
                                  ![Var("mem", p)] = Null]
            /\ Enter(p, [o EXCEPT !.pc = "alloc", !.a = @ + 1])
            /\ UNCHANGED <<procVars, free, upid, alias, panicked>>

\* proc_pagetable() maps the trampoline, the trapframe and the usyscall page.
\* After the last one allocproc() installs the table and writes the pid into
\* the usyscall page, and the caller goes on: uvmfirst(), uvmcopy() or the
\* load loop of exec().
MapFixed(p) ==
    LET o == op[p] IN
    /\ At(p, "map") /\ o.a \in Fixed /\ Walks(o.t, o.a)
    /\ IF Mapped(o.t, o.a)
       THEN Panic("mappages: remap")
       ELSE
        /\ alias' = [alias EXCEPT ![o.t][o.a] =
                        CASE o.a = TRAMPOLINE -> Trampoline
                          [] o.a = TRAPFRAME  -> ptr[Var("trapframe", o.q)]
                          [] o.a = USYSCALL   -> ptr[Var("usyscall", o.q)]]
        /\ IF o.a # USYSCALL
           THEN /\ Enter(p, [o EXCEPT !.a = @ - 1])
                /\ UNCHANGED <<upid, pagetable>>
           ELSE IF o.call = "exec"
           THEN /\ Enter(p, [o EXCEPT !.pc = "load"])
                /\ UNCHANGED <<upid, pagetable>>
           ELSE /\ pagetable' = [pagetable EXCEPT ![o.q] = o.t]
                /\ upid' = [upid EXCEPT ![ptr[Var("usyscall", o.q)]] = pid[o.q]]
                /\ LET n == IF o.call = "userinit" THEN PGSIZE ELSE sz[p]
                   IN  Enter(p, [o EXCEPT !.pc = "alloc", !.a = 0, !.nsz = n,
                                          !.lim = NPages(n), !.then = "setsz"])
        /\ UNCHANGED <<state, parent, pid, nextpid, sz, free, ptr, panicked>>

\* mappages() returned -1.  proc_pagetable() unmaps what it mapped and frees
\* the empty table; uvmalloc() and uvmcopy() free `mem' and undo their loop.
\* uvmfirst() ignores the result, and init faults on its first instruction.
MapFailFixed(p) ==
    LET o == op[p] IN
    /\ At(p, "mapfail") /\ o.a \in Fixed
    /\ IF \E v \in o.a + 1 .. TRAMPOLINE : ~ Mapped(o.t, v)
       THEN Panic("uvmunmap: not mapped")
       ELSE /\ alias' = [alias EXCEPT ![o.t] =
                    [v \in Fixed |-> IF v > o.a THEN Null ELSE @[v]]]
            /\ Enter(p, [o EXCEPT !.pc = "freewalk", !.then = NoTableThen(o)])
            /\ UNCHANGED <<procVars, memVars, panicked>>

\* The loop of uvmalloc() or uvmcopy() failed at page o.a: unmap what the loop
\* mapped.  fork() then frees the child, exec() the new table.
UndoLoop(o) ==
    [o EXCEPT !.pc = "unmap", !.a = o.base, !.lim = o.a,
              !.then = CASE o.call = "fork" -> "fptf"
                         [] o.call = "exec" -> "bad"
                         [] o.call = "sbrk" -> "user"]

MapFailUser(p) ==
    LET o == op[p] IN
    /\ At(p, "mapfail") /\ o.a \notin Fixed
    /\ IF o.call = "userinit"
       THEN Panic("init exiting")
       ELSE /\ Kfree(Var("mem", p)) /\ Enter(p, UndoLoop(o))
            /\ UNCHANGED <<procVars, alias, panicked>>

-----------------------------------------------------------------------------
(* The loops of uvmfirst(), uvmalloc() and uvmcopy().                      *)

\* One more page: kalloc() into `mem'.  uvmcopy() first looks up the page of
\* the parent.
AllocPage(p) ==
    LET o == op[p] IN
    /\ At(p, "alloc") /\ o.a < o.lim
    /\ IF o.call = "fork" /\ ~ Walks(pagetable[p], o.a)
       THEN Panic("uvmcopy: pte should exist")
       ELSE IF o.call = "fork" /\ ~ Mapped(pagetable[p], o.a)
       THEN Panic("uvmcopy: page not present")
       ELSE IF OutOfMemory /\ o.call = "userinit"
       THEN Panic("kerneltrap")
       ELSE /\ IF OutOfMemory
               THEN Enter(p, UndoLoop(o)) /\ UNCHANGED memVars
               ELSE Kalloc(Var("mem", p)) /\ Goto(p, "map")
            /\ UNCHANGED <<procVars, alias, panicked>>

\* Mutant: exec() forgets `sz = sz1'.
MutAllocDone(p) ==
    /\ At(p, "alloc") /\ op[p].a = op[p].lim
    /\ Goto(p, op[p].then)
    /\ UNCHANGED <<procVars, memVars, alias, panicked>>

AllocDone(p) ==
    /\ At(p, "alloc") /\ op[p].a = op[p].lim
    /\ Enter(p, [op[p] EXCEPT !.pc = op[p].then, !.sz = op[p].nsz])
    /\ UNCHANGED <<procVars, memVars, alias, panicked>>

\* The call succeeded: growproc() stores the new size, fork() and userinit()
\* make the new process runnable.
SetSz(p) ==
    LET o == op[p] IN
    /\ At(p, "setsz")
    /\ sz' = [sz EXCEPT ![o.q] = o.nsz]
    /\ IF o.call = "sbrk"
       THEN UNCHANGED <<state, parent>>
       ELSE /\ state'  = [state EXCEPT ![o.q] = "RUNNABLE"]
            /\ parent' = IF o.call = "fork" THEN [parent EXCEPT ![o.q] = p]
                                            ELSE parent
    /\ Goto(p, "user")
    /\ UNCHANGED <<pid, nextpid, pagetable, memVars, alias, panicked>>

-----------------------------------------------------------------------------
(* exec().                                                                 *)

\* A loadable segment that ends at `end': uvmalloc(pagetable, sz, end).  A
\* segment that ends below sz changes nothing.
LoadSegment(p) ==
    LET o == op[p] IN
    /\ At(p, "load")
    /\ \E end \in o.sz + 1 .. MaxSz :
         Enter(p, [o EXCEPT !.pc = "alloc", !.a = NPages(o.sz),
                            !.base = NPages(o.sz), !.lim = NPages(end),
                            !.nsz = end, !.then = "load"])
    /\ UNCHANGED <<procVars, memVars, alias, panicked>>

\* The guard page and the stack page.
AllocStack(p) ==
    LET o  == op[p]
        up == NPages(o.sz) * PGSIZE
    IN  /\ At(p, "load") /\ up + 2 * PGSIZE <= MaxSz
        /\ Enter(p, [o EXCEPT !.pc = "alloc", !.a = NPages(up),
                              !.base = NPages(up), !.sz = up,
                              !.lim = NPages(up + 2 * PGSIZE),
                              !.nsz = up + 2 * PGSIZE, !.then = "args"])
        /\ UNCHANGED <<procVars, memVars, alias, panicked>>

\* Any check of exec() may fail: a bad program header, a short read, the
\* arguments do not fit the stack page.
ExecFails(p) ==
    /\ op[p].pc \in {"load", "args"}
    /\ Goto(p, "bad")
    /\ UNCHANGED <<procVars, memVars, alias, panicked>>

\* proc_freepagetable(t, size): unmap the fixed pages, then uvmfree().
FreePagetable(p, t, size, then) ==
    /\ alias' = [alias EXCEPT ![t] = [v \in Fixed |-> Null]]
    /\ Enter(p, [op[p] EXCEPT !.pc = "uvmfree", !.t = t, !.a = 0,
                              !.lim = NPages(size), !.then = then])

FixedMapped(t) == \A v \in Fixed : Walks(t, v) /\ Mapped(t, v)

\* Mutant: p->sz keeps the size of the old image.
MutExecCommit(p) ==
    /\ At(p, "args")
    /\ pagetable' = [pagetable EXCEPT ![p] = op[p].t]
    /\ FreePagetable(p, pagetable[p], sz[p], "user")
    /\ UNCHANGED <<state, parent, pid, nextpid, sz, memVars, panicked>>

\* Commit to the new image and free the old one.
ExecCommit(p) ==
    LET o == op[p] IN
    /\ At(p, "args")
    /\ IF ~ FixedMapped(pagetable[p])
       THEN Panic("uvmunmap: not mapped")
       ELSE /\ pagetable' = [pagetable EXCEPT ![p] = o.t]
            /\ sz' = [sz EXCEPT ![p] = o.sz]
            /\ FreePagetable(p, pagetable[p], sz[p], "user")
            /\ UNCHANGED <<state, parent, pid, nextpid, memVars, panicked>>

\* Mutant: exec() returns -1 without freeing the new table.
MutExecBad(p) == /\ At(p, "bad") /\ Goto(p, "user")
                 /\ UNCHANGED <<procVars, memVars, alias, panicked>>

ExecBad(p) ==
    LET o == op[p] IN
    /\ At(p, "bad")
    /\ IF ~ FixedMapped(o.t)
       THEN Panic("uvmunmap: not mapped")
       ELSE /\ FreePagetable(p, o.t, o.sz, "user")
            /\ UNCHANGED <<procVars, memVars, panicked>>

-----------------------------------------------------------------------------
(* uvmunmap(.., do_free), freewalk() and freeproc().                       *)

UnmapPage(p) ==
    LET o == op[p] IN
    /\ op[p].pc \in {"unmap", "uvmfree"} /\ o.a < o.lim
    /\ IF ~ Walks(o.t, o.a)
       THEN Panic("uvmunmap: walk")
       ELSE IF ~ Mapped(o.t, o.a)
       THEN Panic("uvmunmap: not mapped")
       ELSE /\ Kfree(Ent("leaf", o.t, o.a))
            /\ Enter(p, [o EXCEPT !.a = @ + 1])
            /\ UNCHANGED <<procVars, alias, panicked>>

UnmapDone(p) ==
    LET o == op[p] IN
    /\ op[p].pc \in {"unmap", "uvmfree"} /\ o.a >= o.lim
    /\ Goto(p, IF At(p, "unmap") THEN o.then ELSE "freewalk")
    /\ UNCHANGED <<procVars, memVars, alias, panicked>>

\* The table pages of t that freewalk() can free next: it frees a table page
\* after the table pages below it, and goes through entries in order.
TablePages(t) ==
    {s \in Slot : s[1] \in {"root", "l1", "l0"} /\ <<s[2], s[3]>> = t
                  /\ ptr[s] # Null}

Above(r, s) == \/ r[1] = "root" /\ s[1] # "root"
               \/ r[1] = "l1" /\ s[1] = "l0" /\ s[4] \div RADIX = r[4]

Top(s) == IF s[1] = "l0" THEN s[4] \div RADIX ELSE s[4]

FreewalkNext(t) ==
    {s \in TablePages(t) :
        \A r \in TablePages(t) \ {s} :
            ~ Above(s, r) /\ (~ Above(r, s) =>
                (Top(s) < Top(r) \/ (Top(s) = Top(r) /\ s[4] < r[4])))}

Freewalk(p) ==
    LET o == op[p] IN
    /\ At(p, "freewalk")
    /\ \E s \in FreewalkNext(o.t) :
        IF s[1] = "l0" /\ \E v \in Vpn : L0(v) = s[4] /\ Mapped(o.t, v)
        THEN Panic("freewalk: leaf")
        ELSE /\ Kfree(s)
             /\ IF s[1] = "root" THEN Goto(p, o.then) ELSE UNCHANGED op
             /\ UNCHANGED <<procVars, alias, panicked>>

FreeTrapframe(p) ==
    LET s == Var("trapframe", op[p].q) IN
    /\ At(p, "fptf")
    /\ IF ptr[s] # Null THEN Kfree(s) ELSE UNCHANGED memVars
    /\ Goto(p, "fpus")
    /\ UNCHANGED <<procVars, alias, panicked>>

FreeUsyscall(p) ==
    LET s == Var("usyscall", op[p].q) IN
    /\ At(p, "fpus")
    /\ IF ptr[s] # Null THEN Kfree(s) ELSE UNCHANGED memVars
    /\ Goto(p, "fppt")
    /\ UNCHANGED <<procVars, alias, panicked>>

FreeProcPagetable(p) ==
    LET q == op[p].q IN
    /\ At(p, "fppt")
    /\ IF pagetable[q] = NoTable
       THEN Goto(p, "fpend") /\ UNCHANGED <<procVars, memVars, alias, panicked>>
       ELSE IF ~ FixedMapped(pagetable[q])
       THEN Panic("uvmunmap: not mapped")
       ELSE /\ FreePagetable(p, pagetable[q], sz[q], "fpend")
            /\ UNCHANGED <<procVars, memVars, panicked>>

\* The rest of freeproc().  userinit() does not expect allocproc() to fail and
\* faults on the null pointer.
FreeProcEnd(p) ==
    LET q == op[p].q IN
    /\ At(p, "fpend")
    /\ IF op[p].call = "userinit"
       THEN Panic("kerneltrap")
       ELSE /\ state' = [state EXCEPT ![q] = "UNUSED"]
            /\ parent' = [parent EXCEPT ![q] = Null]
            /\ pid' = [pid EXCEPT ![q] = 0]
            /\ sz' = [sz EXCEPT ![q] = 0]
            /\ pagetable' = [pagetable EXCEPT ![q] = NoTable]
            /\ Goto(p, "user")
            /\ UNCHANGED <<nextpid, memVars, alias, panicked>>

-----------------------------------------------------------------------------
\* kinit() has put every page on the free list; userinit() is about to build
\* the first process.
Init ==
    /\ state = [p \in Proc |-> IF p = InitProc THEN "USED" ELSE "UNUSED"]
    /\ parent = [p \in Proc |-> Null]
    /\ pid = [p \in Proc |-> IF p = InitProc THEN 1 ELSE 0]
    /\ nextpid = 2
    /\ sz = [p \in Proc |-> 0]
    /\ pagetable = [p \in Proc |-> NoTable]
    /\ free = [pg \in Page |-> 1]
    /\ ptr = [s \in Slot |-> Null]
    /\ alias = [t \in Table |-> [v \in Fixed |-> Null]]
    /\ upid = [pg \in Page |-> Junk]
    /\ op = [p \in Proc |->
                IF p = InitProc
                THEN [Idle EXCEPT !.call = "userinit", !.pc = "trapframe"]
                ELSE Idle]
    /\ panicked = "no"

SysCall(p) == Fork(p) \/ Exec(p) \/ Sbrk(p) \/ Exit(p) \/ Wait(p)

KernelStep(p) ==
    \/ AllocTrapframe(p) \/ AllocUsyscall(p) \/ UvmCreate(p)
    \/ WalkAlloc(p) \/ MapUserPage(p) \/ MapFixed(p)
    \/ MapFailFixed(p) \/ MapFailUser(p)
    \/ AllocPage(p) \/ AllocDone(p) \/ SetSz(p)
    \/ LoadSegment(p) \/ AllocStack(p) \/ ExecFails(p)
    \/ ExecCommit(p) \/ ExecBad(p)
    \/ UnmapPage(p) \/ UnmapDone(p) \/ Freewalk(p)
    \/ FreeTrapframe(p) \/ FreeUsyscall(p) \/ FreeProcPagetable(p)
    \/ FreeProcEnd(p)

Next == panicked = "no" /\ \E p \in Proc : SysCall(p) \/ KernelStep(p)

Spec == Init /\ [][Next]_vars
-----------------------------------------------------------------------------
(* Properties.                                                             *)

TypeOK ==
    /\ state \in [Proc -> {"UNUSED", "USED", "RUNNABLE", "ZOMBIE"}]
    /\ parent \in [Proc -> Proc \cup {Null}]
    /\ pid \in [Proc -> 0 .. MaxPid]
    /\ nextpid \in 1 .. MaxPid + 1
    /\ sz \in [Proc -> 0 .. MaxSz]
    /\ pagetable \in [Proc -> Table \cup {NoTable}]
    /\ free \in [Page -> {0, 1}]
    /\ ptr \in [Slot -> Page \cup {Null}]
    /\ alias \in [Table -> [Fixed -> Page \cup {Null, Trampoline}]]
    /\ upid \in [Page -> 0 .. MaxPid]
    /\ op \in [Proc -> Op]

\* kalloc.c: a page is on the free list once, or exactly one pointer of the
\* kernel owns it; it is never both, never neither, never owned twice.
OneOwner ==
    LET holds == {<<s, ptr[s]>> : s \in {r \in Slot : ptr[r] # Null}}
    IN  \A pg \in Page : free[pg] + Cardinality({h \in holds : h[2] = pg}) = 1

\* A slot that holds a page belongs to something alive: a process slot in use,
\* or a table that a process or a running system call refers to.  Together
\* with OneOwner: no path loses a page, whichever kalloc() fails.
TableInUse(t) == \/ \E p \in Proc : pagetable[p] = t
                 \/ \E p \in Proc : ~ At(p, "user") /\ op[p].t = t
Live(s) == CASE s[1] \in {"trapframe", "usyscall"} -> state[s[2]] # "UNUSED"
             [] s[1] = "mem" -> At(s[2], "map") \/ At(s[2], "mapfail")
             [] OTHER -> TableInUse(<<s[2], s[3]>>)
NoLeak == \A s \in Slot : ptr[s] # Null => Live(s)

\* None of the panics of vm.c (remap, walk, not mapped, freewalk: leaf, pte
\* should exist, page not present) can be reached, at any point where memory
\* runs out, and userinit() has memory enough.
NoPanic == panicked = "no"

\* A process that runs user code can access exactly the bytes below p->sz, to
\* the page, and its trampoline, trapframe and usyscall pages.
UserImage ==
    \A p \in Proc : InUser(p) =>
        LET t == pagetable[p] IN
        /\ \A v \in UserVpn : Walks(t, v) /\ Mapped(t, v) <=> v * PGSIZE < sz[p]
        /\ \A v \in Fixed : Walks(t, v)
        /\ alias[t][TRAMPOLINE] = Trampoline
        /\ alias[t][TRAPFRAME] = ptr[Var("trapframe", p)]
        /\ alias[t][USYSCALL] = ptr[Var("usyscall", p)]

\* The lab's ugetpid(): the page a process sees at USYSCALL holds the pid that
\* getpid() returns, and no two processes have the same one.
UgetpidIsGetpid ==
    \A p \in Proc : InUser(p) =>
        /\ alias[pagetable[p]][USYSCALL] \in Page
        /\ upid[alias[pagetable[p]][USYSCALL]] = pid[p]
        /\ \A q \in Proc \ {p} : pid[q] # pid[p]

\* The calls implement ProcessImages: each takes effect at one point, or fails
\* and leaves the image as it was.  While growproc() runs, the image is the
\* one p->sz still describes.
Pages(p) == {v \in UserVpn : Walks(pagetable[p], v) /\ Mapped(pagetable[p], v)}
Status == [p \in Proc |-> CASE state[p] = "RUNNABLE" -> "live"
                            [] state[p] = "ZOMBIE"   -> "zombie"
                            [] OTHER                 -> "none"]
Image == [p \in Proc |->
            [size  |-> IF state[p] = "RUNNABLE" THEN sz[p] ELSE 0,
             pages |-> IF state[p] # "RUNNABLE" THEN {}
                       ELSE IF op[p].call = "sbrk"
                       THEN {b \div PGSIZE : b \in 0 .. sz[p] - 1}
                       ELSE Pages(p)]]
Images == INSTANCE ProcessImages WITH status <- Status, image <- Image
AllOrNothing == Images!Spec
=============================================================================
