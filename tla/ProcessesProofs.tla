--------------------------- MODULE ProcessesProofs ---------------------------
(***************************************************************************)
(* Proofs about Processes, for any number of slots and harts, any pids and *)
(* ticks of any width.                                                     *)
(*                                                                         *)
(* The inductive invariant says on whose stack each hart is (Harts), where *)
(* a process is in each state (Places), who is inside wait_lock and        *)
(* tickslock (WaitMutex, NapMutex), and what exit(), wait() and sleep()    *)
(* know there of children and sleepers (Scans, Exits, Woken, Naps).        *)
(***************************************************************************)
EXTENDS Processes, FiniteSetTheorems, TLAPS

\* Who holds wait_lock, who tickslock, and who is in fork() with a child of its own.
WaitHolder == {"scan", "waitsleep", "reparent", "wakeup", "zombie"}
NapHolder  == {"napping", "napsleep"}
Forking    == {"copy", "adopt", "ready"}

\* p sleeps in wait().
Waits(p)   == state[p] = "SLEEPING" /\ chan[p] = p
Childless(p) == \A q \in Proc : parent[q] # p

\* A hart and the process on whose stack it is.
Harts ==
    /\ \A g, h \in Hart : cpu[g] = cpu[h] /\ cpu[g] # None => g = h
    /\ \A p \in Proc : state[p] = "RUNNING" => \E h \in Hart : cpu[h] = p
    /\ \A h \in Hart : cpu[h] # None =>
         /\ state[cpu[h]] \notin {"UNUSED", "USED"}
         /\ Free(cpu[h]) => state[cpu[h]] = "RUNNING"

\* clockintr() interrupts a process in the middle of what it does.
Clocked ==
    /\ clock.pc # "off" /\ cpu[ClockHart] # None =>
         state[cpu[ClockHart]] = "RUNNING" /\ Free(cpu[ClockHart])
    /\ clock.pc = "lock" => clock.i = 1

\* Where a process can be in each state of p->state: it holds a spinlock from step to step
\* only while it runs.
Places == \A p \in Proc :
    /\ state[p] \in {"UNUSED", "USED"} => op[p].pc \in {"user", "dead"}
    /\ state[p] = "ZOMBIE" => op[p].pc = "dead"
    /\ state[p] \in Alive => op[p].pc # "dead"
    /\ Holding(p) => state[p] = "RUNNING"
    /\ state[p] = "SLEEPING" => \/ op[p].pc = "wait" /\ chan[p] = p
                                \/ op[p].pc = "renap" /\ chan[p] = TicksChan
    /\ op[p].pc \in {"reparent", "wakeup", "zombie"} => p # InitProc

\* The child of a fork() that has not ended is USED and belongs to that fork() alone.
Kids == \A p \in Proc : op[p].pc \in Forking =>
    /\ op[p].kid \in Proc /\ state[op[p].kid] = "USED"
    /\ op[p].pc = "ready" => parent[op[p].kid] = p
    /\ \A q \in Proc : op[q].pc \in Forking /\ op[q].kid = op[p].kid => q = p

\* wait_lock excludes.
WaitMutex ==
    /\ \A p, q \in Proc : op[p].pc \in WaitHolder /\ op[q].pc \in WaitHolder => p = q
    /\ \A p \in Proc : op[p].pc \in WaitHolder => waitLocked

\* tickslock excludes, clockintr() included.
NapMutex ==
    /\ \A p, q \in Proc : op[p].pc \in NapHolder /\ op[q].pc \in NapHolder => p = q
    /\ \A p \in Proc : op[p].pc \in NapHolder => ticksLocked /\ clock.pc # "wakeup"
    /\ clock.pc = "wakeup" => ticksLocked /\ clock.i \in 1 .. NPROC + 1

\* What wait() has seen under wait_lock remains true while it holds it.
ScanOk(p) ==
    /\ op[p].pc = "scan" => /\ op[p].i \in 1 .. NPROC + 1
                            /\ \A q \in Proc : q < op[p].i /\ parent[q] = p => state[q] # "ZOMBIE"
    /\ op[p].pc = "waitsleep" => \A q \in Proc : parent[q] = p => state[q] # "ZOMBIE"
Scans == \A p \in Proc : ScanOk(p)

\* What exit() has done: the children before i are passed on, and whom wakeup() has
\* passed no longer waits.
ExitOk(p) ==
    /\ op[p].pc = "reparent" \/ (op[p].pc = "wakeup" /\ op[p].then = "reparent") =>
         op[p].i \in 1 .. NPROC + 1 /\ \A q \in Proc : q < op[p].i => parent[q] # p
    /\ op[p].pc = "wakeup" =>
         /\ op[p].j \in 1 .. NPROC + 1 /\ op[p].w \in Proc \ {p} /\ op[p].then # "user"
         /\ op[p].then = "reparent" => op[p].w = InitProc
         /\ op[p].then = "zombie" => /\ op[p].w = parent[p] /\ Childless(p)
                                     /\ op[p].w < op[p].j => ~ Waits(op[p].w)
    /\ op[p].pc = "zombie" => Childless(p) /\ ~ Waits(parent[p])
Exits == \A p \in Proc : ExitOk(p)

\* A parent that waits over a zombie child is about to be woken by reparent().
Woken == \A p, q \in Proc : parent[q] = p /\ state[q] = "ZOMBIE" /\ Waits(p) =>
    \E r \in Proc : /\ op[r].pc = "wakeup" /\ op[r].then = "reparent"
                    /\ op[r].w = p /\ op[r].j <= p

\* Whoever has started has a living parent, all the time.
Family ==
    /\ state[InitProc] \in Alive /\ parent[InitProc] = None
    /\ \A p \in Proc \ {InitProc} : state[p] \in Alive \cup {"ZOMBIE"} =>
          parent[p] \in Proc \ {p} /\ state[parent[p]] \in Alive

\* A pause that is over is not slept on, or the turn of its process in wakeup(&ticks) is to come.
Naps == \A p \in Proc :
    /\ op[p].pc = "napsleep" => (ticks - op[p].i) % TICKS < op[p].w
    /\ state[p] = "SLEEPING" /\ chan[p] = TicksChan =>
         (ticks - op[p].i) % TICKS < op[p].w \/ (clock.pc = "wakeup" /\ clock.i <= p)

\* The inductive invariant.
IInv == /\ TypeOK /\ Harts /\ Clocked /\ Places /\ Kids /\ WaitMutex /\ NapMutex
        /\ Scans /\ Exits /\ Woken /\ Family /\ Naps

\* Who is marked was a victim of kill(), and a free slot is not marked.
KillInv ==
    /\ \A p \in Proc : op[p].pc = "kill" => op[p].w \in victims \cap KillPids
    /\ \A p \in Proc : state[p] = "UNUSED" => ~ killed[p]
    /\ KilledByPid

\* The values of op[p], which TypeOK spells out.
OpType == [pc : {"user", "ret", "alloc", "copy", "adopt", "ready", "exit",
                 "reparent", "wakeup", "zombie", "dead", "wait", "scan",
                 "waitsleep", "kill", "nap", "napping", "napsleep", "renap"},
           i : Nat, j : 0 .. NPROC + 1, kid : 0 .. NPROC,
           kids : BOOLEAN, w : Nat, then : {"user", "reparent", "zombie"},
           spin : BOOLEAN]

\* Only p moves.
Rest(p) == \A q \in Proc : q # p => op'[q] = op[q]

\* The places at which the invariant says more than where p is.
Special == WaitHolder \cup NapHolder \cup {"dead"}

-----------------------------------------------------------------------------
(* Lemmas about the places of processes.                                   *)

\* Slots of the table, and the two numbers that are not slots.
LEMMA Slots == /\ NPROC \in Nat /\ NPROC >= 1 /\ None \notin Proc /\ InitProc \in Proc
               /\ TicksChan \notin Proc /\ TicksChan \in Nat
               /\ \A p \in Proc : p \in Nat /\ p >= 1 /\ p <= NPROC
BY ProcessConstants DEF Proc, None, InitProc, TicksChan

\* The type of op.
LEMMA OpTyped ==
    ASSUME TypeOK
    PROVE  op \in [Proc -> OpType]
BY DEF TypeOK, OpType

\* User is such a value.
LEMMA UserTyped == User \in OpType
BY ProcessConstants DEF User, OpType

\* A process that runs.
LEMMA Running ==
    ASSUME IInv, NEW p \in Proc, Runs(p)
    PROVE  /\ state[p] = "RUNNING" /\ Free(p) /\ op[p].pc # "dead"
           /\ \E h \in Hart : cpu[h] = p
           /\ cpu[ClockHart] = p => clock.pc = "off"
BY Slots, ProcessConstants DEF Runs, IInv, Places, Alive, Harts

\* A process that runs goes to another place, and nothing else but locks and
\* marks changes.
LEMMA QuietKeeps ==
    ASSUME IInv, NEW p \in Proc, state[p] = "RUNNING",
           UNCHANGED <<state, chan, pid, nextpid, parent, plocked, cpu, time>>,
           killed' \in [Proc -> BOOLEAN], waitLocked' \in BOOLEAN, ticksLocked' \in BOOLEAN,
           op' \in [Proc -> OpType], Rest(p), op'[p].pc # "dead",
           op'[p].pc \in {"reparent", "wakeup", "zombie"} => p # InitProc,
           op'[p].pc \in Forking =>
               /\ op[p].pc \in Forking /\ op'[p].kid = op[p].kid
               /\ op'[p].pc = "ready" => op[p].pc = "ready",
           op'[p].pc = "napsleep" => (ticks - op'[p].i) % TICKS < op'[p].w
    PROVE  TypeOK' /\ Harts' /\ Clocked' /\ Places' /\ Kids' /\ Family' /\ Naps'
<1>1. TypeOK'
  BY DEF IInv, TypeOK, OpType, time
<1>2. Harts' /\ Clocked'
  BY DEF IInv, Harts, Clocked, Free, time
<1>3. Places'
  BY DEF IInv, Places, Rest, Holding, Alive
<1>4. Kids'
  BY DEF IInv, Kids, Rest
<1>5. Family'
  BY DEF IInv, Family
<1>6. Naps'
  BY DEF IInv, Naps, Rest, time
<1> QED
  BY <1>1, <1>2, <1>3, <1>4, <1>5, <1>6

\* It neither holds a lock nor takes one.
LEMMA LocalKeeps ==
    ASSUME IInv, NEW p \in Proc, state[p] = "RUNNING",
           UNCHANGED <<state, chan, pid, nextpid, parent, locks, cpu, time>>,
           killed' \in [Proc -> BOOLEAN],
           op' \in [Proc -> OpType], Rest(p), op[p].pc \notin Special, op'[p].pc \notin Special,
           op'[p].pc \in Forking =>
               /\ op[p].pc \in Forking /\ op'[p].kid = op[p].kid
               /\ op'[p].pc = "ready" => op[p].pc = "ready"
    PROVE  IInv'
<1>1. TypeOK' /\ Harts' /\ Clocked' /\ Places' /\ Kids' /\ Family' /\ Naps'
  BY QuietKeeps DEF locks, Special, WaitHolder, NapHolder, IInv, TypeOK
<1>2. WaitMutex' /\ NapMutex'
  BY DEF IInv, WaitMutex, NapMutex, locks, time, Rest, Special
<1>3. Scans' /\ Exits'
  <2>1. Scans'
    BY DEF IInv, Scans, ScanOk, Rest, Special, WaitHolder
  <2>2. Exits'
    BY DEF IInv, Exits, ExitOk, Rest, Special, WaitHolder, Childless, Waits
  <2> QED
    BY <2>1, <2>2
<1>4. Woken'
  BY DEF IInv, Woken, Waits, Rest, Special, WaitHolder
<1> QED
  BY <1>1, <1>2, <1>3, <1>4 DEF IInv

\* What p's step makes of its own place.
LEMMA OpIs ==
    ASSUME TypeOK, NEW p \in Proc, NEW o \in OpType, op' = [op EXCEPT ![p] = o]
    PROVE  op' \in [Proc -> OpType] /\ op'[p] = o /\ Rest(p)
BY OpTyped DEF Rest

\* A process at l, with nothing in its variables.
LEMMA UserIs ==
    ASSUME NEW l \in {"user", "ret", "alloc", "adopt", "ready", "exit", "reparent", "wakeup", "zombie",
                      "dead", "wait", "scan", "waitsleep", "kill", "nap", "napping", "napsleep", "renap"}
    PROVE  [User EXCEPT !.pc = l] \in OpType /\ [User EXCEPT !.pc = l].pc = l
BY UserTyped DEF User, OpType

\* Goto() moves p to l.
LEMMA GotoIs ==
    ASSUME TypeOK, NEW p \in Proc,
           NEW l \in {"user", "ret", "exit", "dead", "wait", "waitsleep"}, Goto(p, l)
    PROVE  op' \in [Proc -> OpType] /\ op'[p].pc = l /\ Rest(p)
<1>1. [User EXCEPT !.pc = l] \in OpType /\ [User EXCEPT !.pc = l].pc = l
  BY UserIs
<1>2. op' = [op EXCEPT ![p] = [User EXCEPT !.pc = l]]
  BY DEF Goto
<1> QED
  BY <1>1, <1>2, OpIs

\* Loop() moves p to the first turn of a loop.
LEMMA LoopIs ==
    ASSUME TypeOK, NEW p \in Proc, NEW l \in {"alloc", "reparent", "scan"}, Loop(p, l)
    PROVE  op' \in [Proc -> OpType] /\ op'[p].pc = l /\ op'[p].i = 1 /\ Rest(p)
<1>1. [op[p] EXCEPT !.pc = l, !.i = 1, !.spin = FALSE] \in OpType
  BY OpTyped DEF OpType
<1>2. op' = [op EXCEPT ![p] = [op[p] EXCEPT !.pc = l, !.i = 1, !.spin = FALSE]]
  BY DEF Loop
<1>3. op[p] \in OpType
  BY OpTyped
<1>4. op' \in [Proc -> OpType] /\ Rest(p) /\ op'[p] = [op[p] EXCEPT !.pc = l, !.i = 1, !.spin = FALSE]
  BY <1>1, <1>2, OpIs
<1> QED
  BY <1>3, <1>4 DEF OpType

\* NextI() moves p to the next turn.
LEMMA NextIIs ==
    ASSUME TypeOK, NEW p \in Proc, NextI(p)
    PROVE  /\ op' \in [Proc -> OpType] /\ Rest(p)
           /\ op'[p] = [op[p] EXCEPT !.i = op[p].i + 1, !.spin = FALSE]
<1>1. op[p] \in OpType
  BY OpTyped
<1>2. [op[p] EXCEPT !.i = op[p].i + 1, !.spin = FALSE] \in OpType
  <2>1. op[p].i + 1 \in Nat
    BY <1>1 DEF OpType
  <2> QED
    BY <1>1, <2>1 DEF OpType
<1>3. op' = [op EXCEPT ![p] = [op[p] EXCEPT !.i = op[p].i + 1, !.spin = FALSE]]
  BY DEF NextI
<1> QED
  BY <1>1, <1>2, <1>3, OpIs

-----------------------------------------------------------------------------
(* Steps that take no lock and touch no child.                             *)

\* usertrap(): a system call other than kill() begins.
LEMMA SysCallKeeps == ASSUME IInv, NEW p \in Proc, Runs(p), SysCall(p) PROVE IInv'
<1>1. /\ state[p] = "RUNNING" /\ op[p].pc = "user" /\ TypeOK
      /\ UNCHANGED <<table, locks, cpu, time>>
  BY Running DEF SysCall, InUser, At, IInv
<1>2. op' \in [Proc -> OpType] /\ Rest(p) /\ op'[p].pc \in {"alloc", "exit", "wait", "nap"}
  <2>1. CASE Loop(p, "alloc")
    BY <1>1, <2>1, LoopIs
  <2>2. CASE Goto(p, "exit") \/ Goto(p, "wait")
    BY <1>1, <2>2, GotoIs
  <2>3. ASSUME NEW n \in 1 .. MaxNap, op' = [op EXCEPT ![p] = [User EXCEPT !.pc = "nap", !.w = n]]
        PROVE  op' \in [Proc -> OpType] /\ Rest(p) /\ op'[p].pc = "nap"
    <3>1. n \in Nat
      BY ProcessConstants
    <3>2. [User EXCEPT !.pc = "nap", !.w = n] \in OpType /\ [User EXCEPT !.pc = "nap", !.w = n].pc = "nap"
      BY <3>1, UserTyped DEF User, OpType
    <3> QED
      BY <1>1, <2>3, <3>2, OpIs
  <2> QED
    BY <2>1, <2>2, <2>3 DEF SysCall
<1> QED
  BY <1>1, <1>2, LocalKeeps DEF Special, WaitHolder, NapHolder, Forking, table, locks, time, IInv, TypeOK

\* kill() begins.
LEMMA KillKeeps == ASSUME IInv, NEW p \in Proc, Runs(p), Kill(p) PROVE IInv'
<1>1. /\ state[p] = "RUNNING" /\ op[p].pc = "user" /\ TypeOK
      /\ UNCHANGED <<table, locks, cpu, time>>
  BY Running DEF Kill, InUser, At, IInv
<1>2. PICK k \in KillPids : op' = [op EXCEPT ![p] = [User EXCEPT !.pc = "kill", !.i = 1, !.w = k]]
  BY DEF Kill
<1>3. /\ [User EXCEPT !.pc = "kill", !.i = 1, !.w = k] \in OpType
      /\ [User EXCEPT !.pc = "kill", !.i = 1, !.w = k].pc = "kill"
  BY UserTyped, ProcessConstants DEF User, OpType
<1>4. op' \in [Proc -> OpType] /\ Rest(p) /\ op'[p].pc = "kill"
  BY <1>1, <1>2, <1>3, OpIs
<1> QED
  BY <1>1, <1>4, LocalKeeps DEF Special, WaitHolder, NapHolder, Forking, table, locks, time, IInv, TypeOK

\* setkilled() on a fault.
LEMMA FaultKeeps == ASSUME IInv, NEW p \in Proc, Runs(p), Fault(p) PROVE IInv'
<1>1. /\ state[p] = "RUNNING" /\ op[p].pc = "user" /\ TypeOK /\ Goto(p, "ret")
      /\ UNCHANGED <<state, chan, pid, parent, nextpid, locks, cpu, time>>
      /\ killed' = [killed EXCEPT ![p] = TRUE]
  BY Running DEF Fault, At, IInv, Return
<1>2. killed' \in [Proc -> BOOLEAN]
  BY <1>1 DEF TypeOK
<1> QED
  BY <1>1, <1>2, GotoIs, LocalKeeps DEF Special, WaitHolder, NapHolder, Forking

\* The tests of killed(p) in usertrap().
LEMMA CheckKilledKeeps == ASSUME IInv, NEW p \in Proc, Runs(p), CheckKilled(p) PROVE IInv'
<1>1. /\ state[p] = "RUNNING" /\ op[p].pc \in {"user", "ret"} /\ TypeOK
      /\ UNCHANGED <<table, locks, cpu, time>> /\ killed \in [Proc -> BOOLEAN]
  BY Running DEF CheckKilled, IInv, TypeOK
<1>2. op' \in [Proc -> OpType] /\ Rest(p) /\ op'[p].pc \in {"exit", "user"}
  BY <1>1, GotoIs DEF CheckKilled
<1> QED
  BY <1>1, <1>2, LocalKeeps DEF Special, WaitHolder, NapHolder, Forking, table

\* allocproc() and kill() at the end of the table.
LEMMA NobodyKeeps == ASSUME IInv, NEW p \in Proc, Runs(p), NoProc(p) \/ KillNone(p) PROVE IInv'
<1>1. /\ state[p] = "RUNNING" /\ op[p].pc \in {"alloc", "kill"} /\ TypeOK /\ Goto(p, "ret")
      /\ UNCHANGED <<table, locks, cpu, time>> /\ killed \in [Proc -> BOOLEAN]
  BY Running DEF NoProc, KillNone, IInv, TypeOK, At, Return
<1> QED
  BY <1>1, GotoIs, LocalKeeps DEF Special, WaitHolder, NapHolder, Forking, table

\* acquire() spins.
LEMMA SpinKeeps == ASSUME IInv, NEW p \in Proc, Runs(p), Spin(p) PROVE IInv'
<1>1. /\ state[p] = "RUNNING" /\ TypeOK
      /\ op[p].pc \in {"exit", "adopt", "wait", "nap", "renap", "alloc", "kill"}
      /\ UNCHANGED <<table, locks, cpu, time>> /\ killed \in [Proc -> BOOLEAN]
      /\ op' = [op EXCEPT ![p] = [op[p] EXCEPT !.spin = TRUE]]
  BY Running DEF Spin, IInv, TypeOK
<1>2. op[p] \in OpType
  BY <1>1, OpTyped
<1>3. [op[p] EXCEPT !.spin = TRUE] \in OpType
  BY <1>2 DEF OpType
<1>4. op' \in [Proc -> OpType] /\ Rest(p) /\ op'[p] = [op[p] EXCEPT !.spin = TRUE]
  BY <1>1, <1>3, OpIs
<1>5. op'[p].pc = op[p].pc /\ op'[p].kid = op[p].kid
  BY <1>2, <1>4 DEF OpType
<1> QED
  BY <1>1, <1>4, <1>5, LocalKeeps DEF Special, WaitHolder, NapHolder, Forking, table

-----------------------------------------------------------------------------
(* fork()                                                                  *)

\* The types of the fields of the table.
LEMMA StateTyped ==
    ASSUME TypeOK
    PROVE  /\ state \in [Proc -> {"UNUSED", "USED", "ZOMBIE"} \cup Alive]
           /\ chan \in [Proc -> 0 .. NPROC + 1] /\ killed \in [Proc -> BOOLEAN]
           /\ pid \in [Proc -> Nat] /\ nextpid \in Nat /\ parent \in [Proc -> 0 .. NPROC]
           /\ plocked \subseteq Proc /\ waitLocked \in BOOLEAN /\ ticksLocked \in BOOLEAN
           /\ cpu \in [Hart -> 0 .. NPROC]
BY DEF TypeOK

\* Who is about to become a zombie has a parent.
LEMMA ZombieParent ==
    ASSUME IInv, NEW p \in Proc, op[p].pc = "zombie"
    PROVE  parent[p] \in Proc \ {p}
BY DEF IInv, Places, Holding, Family, Alive

\* allocproc() takes a free slot or goes on.
LEMMA AllocProcKeeps == ASSUME IInv, NEW p \in Proc, Runs(p), AllocProc(p) PROVE IInv'
<1> DEFINE i == op[p].i
<1>1. /\ state[p] = "RUNNING" /\ op[p].pc = "alloc" /\ i \in Proc /\ TypeOK
      /\ UNCHANGED <<chan, killed, parent, waitLocked, ticksLocked, cpu, time>>
  BY Running DEF AllocProc, At, IInv
<1>2. CASE state[i] # "UNUSED"
  <2>1. NextI(p) /\ UNCHANGED <<state, pid, nextpid, plocked>>
    BY <1>2 DEF AllocProc
  <2>2. op[p] \in OpType
    BY <1>1, OpTyped
  <2>3. op' \in [Proc -> OpType] /\ Rest(p) /\ op'[p].pc = "alloc"
    BY <1>1, <2>1, <2>2, NextIIs DEF OpType
  <2>4. UNCHANGED locks /\ killed' \in [Proc -> BOOLEAN]
    BY <1>1, <2>1 DEF locks, TypeOK
  <2> QED
    BY <1>1, <2>1, <2>3, <2>4, LocalKeeps DEF Special, WaitHolder, NapHolder, Forking
<1>3. CASE state[i] = "UNUSED"
  <2>1. /\ state' = [state EXCEPT ![i] = "USED"] /\ pid' = [pid EXCEPT ![i] = nextpid]
        /\ nextpid' = nextpid + 1 /\ plocked' = plocked \cup {i}
        /\ op' = [op EXCEPT ![p] = [User EXCEPT !.pc = "copy", !.kid = i]]
    BY <1>3 DEF AllocProc
  <2>2. [User EXCEPT !.pc = "copy", !.kid = i] \in OpType
    <3>1. i \in 0 .. NPROC
      BY <1>1, Slots
    <3> HIDE DEF i
    <3> QED
      BY <3>1, UserTyped DEF User, OpType
  <2>3. op' \in [Proc -> OpType] /\ Rest(p) /\ op'[p] = [User EXCEPT !.pc = "copy", !.kid = i]
    BY <1>1, <2>1, <2>2, OpIs
  <2>4. op'[p].pc = "copy" /\ op'[p].kid = i
    BY <2>3 DEF User
  <2> HIDE DEF i
  <2>5. /\ state'[i] = "USED" /\ pid'[i] = nextpid
        /\ \A q \in Proc : q # i => state'[q] = state[q] /\ pid'[q] = pid[q]
    BY <1>1, <2>1, StateTyped
  <2>6. i # p /\ op[i].pc \in {"user", "dead"} /\ \A h \in Hart : cpu[h] # i
    BY <1>1, <1>3, Slots DEF IInv, Places, Harts
  <2>7. TypeOK'
    <3>1. nextpid \in Nat /\ nextpid > 0
      BY Slots DEF TypeOK, IInv
    <3>2. state' \in [Proc -> {"UNUSED", "USED", "ZOMBIE"} \cup Alive] /\ pid' \in [Proc -> Nat]
      BY <1>1, <2>1, <3>1, StateTyped
    <3>3. \A q \in Proc : pid'[q] < nextpid' /\ (pid'[q] = 0 <=> state'[q] = "UNUSED")
      BY <1>1, <2>1, <2>5, <3>1, <3>2 DEF TypeOK
    <3> QED
      BY <1>1, <2>1, <2>3, <3>1, <3>2, <3>3 DEF TypeOK, OpType, time
  <2>8. Harts' /\ Clocked'
    <3>1. \A h \in Hart : cpu[h] # None => cpu[h] \in Proc
      BY <1>1, StateTyped DEF Proc, None
    <3>2. Harts'
      BY <1>1, <2>1, <2>5, <2>6, <3>1 DEF IInv, Harts, Free
    <3>3. Clocked'
      BY <1>1, <2>1, <2>5, <2>6, <3>1, ProcessConstants DEF IInv, Clocked, Free, time
    <3> QED
      BY <3>2, <3>3
  <2>9. Places'
    <3> SUFFICES ASSUME NEW q \in Proc
                 PROVE  /\ state'[q] \in {"UNUSED", "USED"} => op'[q].pc \in {"user", "dead"}
                        /\ state'[q] = "ZOMBIE" => op'[q].pc = "dead"
                        /\ state'[q] \in Alive => op'[q].pc # "dead"
                        /\ Holding(q)' => state'[q] = "RUNNING"
                        /\ state'[q] = "SLEEPING" => \/ op'[q].pc = "wait" /\ chan'[q] = q
                                                     \/ op'[q].pc = "renap" /\ chan'[q] = TicksChan
                        /\ op'[q].pc \in {"reparent", "wakeup", "zombie"} => q # InitProc
      BY DEF Places
    <3>1. CASE q = p
      BY <1>1, <2>4, <2>5, <2>6, <3>1 DEF Holding, Alive
    <3>2. CASE q = i
      <4>1. op'[q] = op[q] /\ op[q].pc \in {"user", "dead"} /\ state'[q] = "USED"
        BY <2>3, <2>5, <2>6, <3>2 DEF Rest
      <4> QED
        BY <4>1 DEF Holding, Alive
    <3>3. CASE q # p /\ q # i
      <4>1. op'[q] = op[q] /\ state'[q] = state[q] /\ chan'[q] = chan[q]
        BY <1>1, <2>3, <2>5, <3>3 DEF Rest
      <4> QED
        BY <4>1 DEF IInv, Places, Holding
    <3> QED
      BY <3>1, <3>2, <3>3
  <2>10. Kids'
    <3>1. \A q \in Proc : op[q].pc \in Forking => op[q].kid \in Proc /\ op[q].kid # i
      BY <1>3 DEF IInv, Kids
    <3>2. op'[p].pc \in Forking /\ op'[p].pc # "ready"
      BY <2>4 DEF Forking
    <3> SUFFICES ASSUME NEW q \in Proc, op'[q].pc \in Forking
                 PROVE  /\ op'[q].kid \in Proc /\ state'[op'[q].kid] = "USED"
                        /\ op'[q].pc = "ready" => parent'[op'[q].kid] = q
                        /\ \A r \in Proc : op'[r].pc \in Forking /\ op'[r].kid = op'[q].kid => r = q
      BY DEF Kids
    <3>3. CASE q = p
      BY <1>1, <2>3, <2>4, <2>5, <3>1, <3>2, <3>3 DEF Rest
    <3>4. CASE q # p
      <4>1. op'[q] = op[q]
        BY <2>3, <3>4 DEF Rest
      <4>2. op[q].kid \in Proc /\ op[q].kid # i /\ state[op[q].kid] = "USED"
        BY <3>1, <4>1 DEF IInv, Kids
      <4>3. \A r \in Proc : op'[r].pc \in Forking /\ op'[r].kid = op[q].kid => r = q
        BY <2>3, <2>4, <4>1, <4>2 DEF IInv, Kids, Rest
      <4>4. op[q].pc = "ready" => parent'[op[q].kid] = q
        BY <1>1, <4>1 DEF IInv, Kids
      <4> QED
        BY <2>5, <4>1, <4>2, <4>3, <4>4
    <3> QED
      BY <3>3, <3>4
  <2>11. WaitMutex' /\ NapMutex'
    BY <1>1, <2>3, <2>4 DEF IInv, WaitMutex, NapMutex, Rest, WaitHolder, NapHolder, time
  <2>12. Scans'
    <3> SUFFICES ASSUME NEW q \in Proc PROVE ScanOk(q)'
      BY DEF Scans
    <3>1. ScanOk(q) /\ UNCHANGED parent
      BY <1>1 DEF IInv, Scans
    <3>2. \A r \in Proc : state'[r] = "ZOMBIE" => state[r] = "ZOMBIE"
      BY <2>5
    <3>3. CASE q = p
      BY <2>4, <3>3 DEF ScanOk
    <3>4. CASE q # p
      <4>1. op'[q] = op[q]
        BY <2>3, <3>4 DEF Rest
      <4> QED
        BY <3>1, <3>2, <4>1 DEF ScanOk
    <3> QED
      BY <3>3, <3>4
  <2>13. Exits'
    <3>1. \A q \in Proc : (Waits(q)' => Waits(q)) /\ (Childless(q) => Childless(q)')
      BY <1>1, <2>5 DEF Waits, Childless
    <3>2. \A q \in Proc : op'[q].pc \in WaitHolder => op'[q] = op[q]
      BY <2>3, <2>4 DEF Rest, WaitHolder
    <3> QED
      BY <1>1, <3>1, <3>2, ZombieParent DEF IInv, Exits, ExitOk, WaitHolder
  <2>14. Woken'
    BY <1>1, <2>3, <2>4, <2>5 DEF IInv, Woken, Rest, Waits
  <2>15. Family'
    BY <1>1, <1>3, <2>5, Slots DEF IInv, Family, Alive
  <2>16. Naps'
    BY <1>1, <2>3, <2>4, <2>5 DEF IInv, Naps, Rest, time
  <2> QED
    BY <2>7, <2>8, <2>9, <2>10, <2>11, <2>12, <2>13, <2>14, <2>15, <2>16 DEF IInv
<1> QED
  BY <1>2, <1>3

\* fork() frees the slot again.
LEMMA ForkFailsKeeps == ASSUME IInv, NEW p \in Proc, Runs(p), ForkFails(p) PROVE IInv'
<1> DEFINE i == op[p].kid
<1>1. /\ state[p] = "RUNNING" /\ op[p].pc = "copy" /\ TypeOK /\ FreeProc(i) /\ Goto(p, "ret")
      /\ plocked' = plocked \ {i}
      /\ UNCHANGED <<waitLocked, ticksLocked, cpu, time>>
  BY Running DEF ForkFails, At, IInv, Return
<1>2. i \in Proc /\ state[i] = "USED"
  BY <1>1 DEF IInv, Kids, Forking
<1>3. op' \in [Proc -> OpType] /\ Rest(p) /\ op'[p].pc = "ret"
  BY <1>1, GotoIs
<1> HIDE DEF i
<1>4. /\ state'[i] = "UNUSED" /\ pid'[i] = 0 /\ parent'[i] = None
      /\ \A q \in Proc : q # i => state'[q] = state[q] /\ pid'[q] = pid[q] /\ parent'[q] = parent[q]
                                  /\ chan'[q] = chan[q]
      /\ nextpid' = nextpid
  BY <1>1, <1>2, StateTyped DEF FreeProc
<1>5. i # p /\ i # InitProc /\ op[i].pc \in {"user", "dead"} /\ \A h \in Hart : cpu[h] # i
  BY <1>1, <1>2, Slots DEF IInv, Places, Harts, Family, Alive
<1>6. TypeOK'
  <2>1. nextpid \in Nat /\ nextpid > 0
    BY Slots DEF TypeOK, IInv
  <2>2. /\ state' \in [Proc -> {"UNUSED", "USED", "ZOMBIE"} \cup Alive] /\ pid' \in [Proc -> Nat]
        /\ killed' \in [Proc -> BOOLEAN] /\ chan' \in [Proc -> 0 .. NPROC + 1]
        /\ parent' \in [Proc -> 0 .. NPROC]
    <3>1. UNCHANGED nextpid /\ None \in 0 .. NPROC /\ None \in 0 .. NPROC + 1
      BY <1>1, Slots DEF FreeProc, None
    <3>2. state' \in [Proc -> {"UNUSED", "USED", "ZOMBIE"} \cup Alive]
      BY <1>1, StateTyped DEF FreeProc
    <3>3. pid' \in [Proc -> Nat] /\ killed' \in [Proc -> BOOLEAN]
      BY <1>1, StateTyped DEF FreeProc
    <3>4. chan' \in [Proc -> 0 .. NPROC + 1]
      BY <1>1, <3>1, StateTyped DEF FreeProc
    <3>5. parent' \in [Proc -> 0 .. NPROC]
      BY <1>1, <3>1, StateTyped DEF FreeProc
    <3> QED
      BY <3>2, <3>3, <3>4, <3>5
  <2>3. \A q \in Proc : pid'[q] < nextpid' /\ (pid'[q] = 0 <=> state'[q] = "UNUSED")
    BY <1>1, <1>4, <2>1, <2>2 DEF TypeOK
  <2> QED
    BY <1>1, <1>3, <2>1, <1>4, <2>2, <2>3 DEF TypeOK, OpType, time
<1>7. Harts' /\ Clocked'
  <2>1. \A h \in Hart : cpu[h] # None => cpu[h] \in Proc
    BY <1>1, StateTyped DEF Proc, None
  <2>2. Harts'
    BY <1>1, <1>2, <1>4, <1>5, <2>1 DEF IInv, Harts, Free
  <2>3. Clocked'
    BY <1>1, <1>4, <1>5, <2>1, ProcessConstants DEF IInv, Clocked, Free, time
  <2> QED
    BY <2>2, <2>3
<1>8. Places'
  BY <1>1, <1>2, <1>3, <1>4, <1>5 DEF IInv, Places, Rest, Holding, Alive
<1>9. Kids'
  <2>1. \A q \in Proc : q # p /\ op[q].pc \in Forking => op[q].kid # i
    BY <1>1 DEF IInv, Kids, Forking, i
  <2> QED
    BY <1>1, <1>3, <1>4, <2>1 DEF IInv, Kids, Rest, Forking
<1>10. WaitMutex' /\ NapMutex'
  BY <1>1, <1>3 DEF IInv, WaitMutex, NapMutex, Rest, WaitHolder, NapHolder, time
<1>11. Scans'
  BY <1>1, <1>2, <1>3, <1>4, Slots DEF IInv, Scans, ScanOk, Rest
<1>12. Exits'
  <2>1. \A q \in Proc : Childless(q) => Childless(q)'
    BY <1>1, <1>2, <1>4, Slots DEF Childless
  <2>2. \A q \in Proc : Waits(q)' => Waits(q)
    BY <1>4 DEF Waits
  <2>3. \A q \in Proc : op'[q].pc \in WaitHolder => q # p /\ q # i /\ op'[q] = op[q] /\ parent'[q] = parent[q]
    BY <1>3, <1>4, <1>5 DEF Rest, WaitHolder
  <2>4. \A q, r \in Proc : parent[r] # q => parent'[r] # q
    BY <1>2, <1>4, Slots
  <2> QED
    BY <2>1, <2>2, <2>3, <2>4, ZombieParent DEF IInv, Exits, ExitOk, WaitHolder
<1>13. Woken'
  <2>1. \A q, r \in Proc : parent'[r] = q => r # i
    BY <1>4, Slots
  <2> QED
    BY <1>1, <1>3, <1>4, <2>1 DEF IInv, Woken, Rest, Waits
<1>14. Family'
  BY <1>1, <1>2, <1>4, <1>5, Slots DEF IInv, Family, Alive
<1>15. Naps'
  BY <1>1, <1>3, <1>4 DEF IInv, Naps, Rest, time
<1> QED
  BY <1>6, <1>7, <1>8, <1>9, <1>10, <1>11, <1>12, <1>13, <1>14, <1>15 DEF IInv

\* fork() releases the child's lock.
LEMMA ForkCopiedKeeps == ASSUME IInv, NEW p \in Proc, Runs(p), ForkCopied(p) PROVE IInv'
<1> DEFINE i == op[p].kid
<1>1. /\ state[p] = "RUNNING" /\ op[p].pc = "copy" /\ TypeOK
      /\ plocked' = plocked \ {i} /\ op' = [op EXCEPT ![p] = [op[p] EXCEPT !.pc = "adopt"]]
      /\ UNCHANGED <<table, waitLocked, ticksLocked, cpu, time>>
  BY Running DEF ForkCopied, At, IInv
<1>2. i \in Proc /\ state[i] = "USED"
  BY <1>1 DEF IInv, Kids, Forking
<1>3. op[p] \in OpType
  BY <1>1, OpTyped
<1>4. [op[p] EXCEPT !.pc = "adopt"] \in OpType
  BY <1>3 DEF OpType
<1>5. op' \in [Proc -> OpType] /\ Rest(p) /\ op'[p] = [op[p] EXCEPT !.pc = "adopt"]
  BY <1>1, <1>4, OpIs
<1>6. op'[p].pc = "adopt" /\ op'[p].kid = i
  BY <1>3, <1>5 DEF OpType
<1> HIDE DEF i
<1>7. TypeOK'
  BY <1>1, <1>5 DEF TypeOK, OpType, time, table
<1>8. Harts' /\ Clocked'
  <2>1. \A h \in Hart : cpu[h] # i
    BY <1>2, Slots DEF IInv, Harts
  <2> QED
    BY <1>1, <2>1 DEF IInv, Harts, Clocked, Free, time, table
<1>9. Places'
  BY <1>1, <1>5, <1>6 DEF IInv, Places, Rest, Holding, Alive, table
<1>10. Kids'
  BY <1>1, <1>5, <1>6 DEF IInv, Kids, Rest, Forking, table, i
<1>11. WaitMutex' /\ NapMutex'
  BY <1>1, <1>5, <1>6 DEF IInv, WaitMutex, NapMutex, Rest, WaitHolder, NapHolder, time
<1>12. Scans'
  BY <1>1, <1>5, <1>6 DEF IInv, Scans, ScanOk, Rest, table
<1>13. Exits'
  BY <1>1, <1>5, <1>6 DEF IInv, Exits, ExitOk, Rest, Childless, Waits, table
<1>14. Woken'
  BY <1>1, <1>5, <1>6 DEF IInv, Woken, Rest, Waits, table
<1>15. Family' /\ Naps'
  BY <1>1, <1>5, <1>6 DEF IInv, Family, Naps, Rest, time, table
<1> QED
  BY <1>7, <1>8, <1>9, <1>10, <1>11, <1>12, <1>13, <1>14, <1>15 DEF IInv

\* fork() makes p the parent, while nobody is inside wait_lock.
LEMMA ForkAdoptKeeps == ASSUME IInv, NEW p \in Proc, Runs(p), ForkAdopt(p) PROVE IInv'
<1> DEFINE i == op[p].kid
<1>1. /\ state[p] = "RUNNING" /\ op[p].pc = "adopt" /\ TypeOK /\ ~ waitLocked
      /\ parent' = [parent EXCEPT ![i] = p]
      /\ op' = [op EXCEPT ![p] = [op[p] EXCEPT !.pc = "ready", !.spin = FALSE]]
      /\ UNCHANGED <<state, chan, killed, pid, nextpid, locks, cpu, time>>
  BY Running DEF ForkAdopt, At, IInv
<1>2. i \in Proc /\ state[i] = "USED"
  BY <1>1 DEF IInv, Kids, Forking
<1>3. op[p] \in OpType
  BY <1>1, OpTyped
<1>4. [op[p] EXCEPT !.pc = "ready", !.spin = FALSE] \in OpType
  BY <1>3 DEF OpType
<1>5. op' \in [Proc -> OpType] /\ Rest(p) /\ op'[p] = [op[p] EXCEPT !.pc = "ready", !.spin = FALSE]
  BY <1>1, <1>4, OpIs
<1>6. op'[p].pc = "ready" /\ op'[p].kid = i
  BY <1>3, <1>5 DEF OpType
<1> HIDE DEF i
<1>7. parent'[i] = p /\ \A q \in Proc : q # i => parent'[q] = parent[q]
  BY <1>1, <1>2, StateTyped
<1>8. TypeOK'
  <2>1. parent' \in [Proc -> 0 .. NPROC]
    <3>1. p \in 0 .. NPROC
      BY Slots
    <3> QED
      BY <1>1, <3>1, StateTyped
  <2> QED
    BY <1>1, <1>5, <2>1 DEF TypeOK, OpType, time, locks
<1>9. Harts' /\ Clocked'
  BY <1>1 DEF IInv, Harts, Clocked, Free, time, locks
<1>10. Places'
  BY <1>1, <1>5, <1>6 DEF IInv, Places, Rest, Holding, Alive
<1>11. Kids'
  <2>1. \A q \in Proc : q # p /\ op[q].pc \in Forking => op[q].kid # i
    BY <1>1 DEF IInv, Kids, Forking, i
  <2>2. op[p].pc \in Forking /\ op[p].kid = i
    BY <1>1 DEF Forking, i
  <2> SUFFICES ASSUME NEW q \in Proc, op'[q].pc \in Forking
               PROVE  /\ op'[q].kid \in Proc /\ state'[op'[q].kid] = "USED"
                      /\ op'[q].pc = "ready" => parent'[op'[q].kid] = q
                      /\ \A r \in Proc : op'[r].pc \in Forking /\ op'[r].kid = op'[q].kid => r = q
    BY DEF Kids
  <2>3. CASE q = p
    BY <1>1, <1>2, <1>5, <1>6, <1>7, <2>1, <2>3 DEF Rest
  <2>4. CASE q # p
    <3>1. op'[q] = op[q] /\ op[q].kid # i
      BY <1>5, <2>1, <2>4 DEF Rest
    <3> QED
      BY <1>1, <1>5, <1>6, <1>7, <2>1, <2>2, <3>1 DEF IInv, Kids, Rest
  <2> QED
    BY <2>3, <2>4
<1>12. WaitMutex' /\ NapMutex'
  BY <1>1, <1>5, <1>6 DEF IInv, WaitMutex, NapMutex, Rest, WaitHolder, NapHolder, time, locks
<1>13. Scans' /\ Exits'
  <2>1. \A q \in Proc : op'[q].pc \notin WaitHolder
    BY <1>1, <1>5, <1>6 DEF IInv, WaitMutex, Rest, WaitHolder
  <2> QED
    BY <2>1 DEF Scans, ScanOk, Exits, ExitOk, WaitHolder
<1>14. Woken'
  <2>1. \A q, r \in Proc : parent'[r] = q /\ state[r] = "ZOMBIE" => parent[r] = q
    BY <1>2, <1>7
  <2>2. \A q \in Proc : op[q].pc = "wakeup" => q # p
    BY <1>1
  <2> QED
    BY <1>1, <1>5, <2>1, <2>2 DEF IInv, Woken, Rest, Waits
<1>15. Family' /\ Naps'
  BY <1>1, <1>2, <1>5, <1>6, <1>7 DEF IInv, Family, Naps, Rest, time, Alive
<1> QED
  BY <1>8, <1>9, <1>10, <1>11, <1>12, <1>13, <1>14, <1>15 DEF IInv

-----------------------------------------------------------------------------
(* Steps that acquire or release wait_lock or tickslock.                   *)

\* p acquires wait_lock, or holds it and keeps or releases it, outside the end
\* of wakeup(); nothing in the table changes.
LEMMA WaitLockKeeps ==
    ASSUME IInv, NEW p \in Proc, state[p] = "RUNNING",
           UNCHANGED <<table, plocked, ticksLocked, cpu, time>>,
           ~ waitLocked \/ op[p].pc \in WaitHolder, op[p].pc # "wakeup",
           op[p].pc \notin NapHolder, op'[p].pc \notin NapHolder,
           waitLocked' \in BOOLEAN, op'[p].pc \in WaitHolder => waitLocked',
           op' \in [Proc -> OpType], Rest(p), op'[p].pc # "dead", op'[p].pc \notin Forking,
           op'[p].pc \in {"reparent", "wakeup", "zombie"} => p # InitProc,
           ScanOk(p)', ExitOk(p)'
    PROVE  IInv'
<1>1. UNCHANGED <<state, chan, killed, pid, nextpid, parent>> /\ killed \in [Proc -> BOOLEAN]
      /\ ticksLocked \in BOOLEAN
  BY DEF table, IInv, TypeOK
<1>2. TypeOK' /\ Harts' /\ Clocked' /\ Places' /\ Kids' /\ Family' /\ Naps'
  BY <1>1, QuietKeeps DEF NapHolder
<1>3. \A q \in Proc : op[q].pc \in WaitHolder => q = p
  BY DEF IInv, WaitMutex
<1>4. \A q \in Proc : op'[q].pc \in WaitHolder => q = p
  BY <1>3 DEF Rest
<1>5. WaitMutex' /\ NapMutex'
  <2>1. WaitMutex'
    BY <1>4 DEF WaitMutex
  <2>2. NapMutex'
    BY DEF IInv, NapMutex, Rest, time
  <2> QED
    BY <2>1, <2>2
<1>6. Scans' /\ Exits'
  <2>1. \A q \in Proc : q # p => op'[q].pc \notin WaitHolder
    BY <1>4
  <2>2. Scans'
    BY <2>1 DEF Scans, ScanOk, WaitHolder
  <2>3. Exits'
    BY <2>1 DEF Exits, ExitOk, WaitHolder
  <2> QED
    BY <2>2, <2>3
<1>7. Woken'
  <2>1. \A q \in Proc : op[q].pc # "wakeup"
    BY <1>3 DEF WaitHolder
  <2> QED
    BY <1>1, <2>1 DEF IInv, Woken, Waits
<1> QED
  BY <1>2, <1>5, <1>6, <1>7 DEF IInv

\* The same of tickslock.
LEMMA TicksLockKeeps ==
    ASSUME IInv, NEW p \in Proc, state[p] = "RUNNING",
           UNCHANGED <<table, plocked, waitLocked, cpu, time>>,
           ~ ticksLocked \/ op[p].pc \in NapHolder,
           ticksLocked' \in BOOLEAN, op'[p].pc \in NapHolder => ticksLocked',
           op' \in [Proc -> OpType], Rest(p),
           op[p].pc \notin WaitHolder, op'[p].pc \in NapHolder \cup {"ret"},
           op'[p].pc = "napsleep" => (ticks - op'[p].i) % TICKS < op'[p].w
    PROVE  IInv'
<1>1. UNCHANGED <<state, chan, killed, pid, nextpid, parent>> /\ killed \in [Proc -> BOOLEAN]
      /\ waitLocked \in BOOLEAN
  BY DEF table, IInv, TypeOK
<1>2. op'[p].pc \notin WaitHolder /\ op'[p].pc \notin Forking /\ op'[p].pc # "dead"
  BY DEF WaitHolder, NapHolder, Forking
<1>3. TypeOK' /\ Harts' /\ Clocked' /\ Places' /\ Kids' /\ Family' /\ Naps'
  BY <1>1, <1>2, QuietKeeps DEF WaitHolder
<1>4. \A q \in Proc : op[q].pc \in NapHolder => q = p
  BY DEF IInv, NapMutex
<1>5. clock.pc # "wakeup"
  BY DEF IInv, NapMutex
<1>6. WaitMutex' /\ NapMutex'
  <2>1. WaitMutex'
    BY <1>2 DEF IInv, WaitMutex, Rest
  <2>2. \A q \in Proc : op'[q].pc \in NapHolder => q = p
    BY <1>4 DEF Rest
  <2>3. NapMutex'
    BY <1>5, <2>2 DEF NapMutex, time
  <2> QED
    BY <2>1, <2>3
<1>7. Scans' /\ Exits'
  <2>1. \A q \in Proc : op'[q].pc \in WaitHolder => op'[q] = op[q]
    BY <1>2 DEF Rest
  <2>2. Scans'
    BY <1>1, <2>1 DEF IInv, Scans, ScanOk, WaitHolder
  <2>3. Exits'
    BY <1>1, <2>1 DEF IInv, Exits, ExitOk, WaitHolder, Childless, Waits
  <2> QED
    BY <2>2, <2>3
<1>8. Woken'
  <2>1. \A q \in Proc : op[q].pc = "wakeup" => q # p
    BY DEF WaitHolder
  <2> QED
    BY <1>1, <2>1 DEF IInv, Woken, Waits, Rest
<1> QED
  BY <1>3, <1>6, <1>7, <1>8 DEF IInv

\* exit() acquires wait_lock.
LEMMA ExitLockKeeps == ASSUME IInv, NEW p \in Proc, Runs(p), ExitLock(p) PROVE IInv'
<1>1. /\ state[p] = "RUNNING" /\ op[p].pc = "exit" /\ p # InitProc /\ TypeOK /\ ~ waitLocked
      /\ waitLocked' = TRUE /\ Loop(p, "reparent")
      /\ UNCHANGED <<table, plocked, ticksLocked, cpu, time>>
  BY Running DEF ExitLock, At, IInv
<1>2. op' \in [Proc -> OpType] /\ op'[p].pc = "reparent" /\ op'[p].i = 1 /\ Rest(p)
  BY <1>1, LoopIs
<1>3. ScanOk(p)' /\ ExitOk(p)'
  <2>1. 1 \in 1 .. NPROC + 1 /\ \A q \in Proc : ~ q < 1
    BY Slots
  <2> QED
    BY <1>2, <2>1 DEF ScanOk, ExitOk
<1> QED
  BY <1>1, <1>2, <1>3, WaitLockKeeps DEF WaitHolder, NapHolder, Forking

\* wait() acquires wait_lock.
LEMMA WaitLockStepKeeps == ASSUME IInv, NEW p \in Proc, Runs(p), WaitLock(p) PROVE IInv'
<1>1. /\ state[p] = "RUNNING" /\ op[p].pc = "wait" /\ TypeOK /\ ~ waitLocked
      /\ waitLocked' = TRUE /\ Loop(p, "scan")
      /\ UNCHANGED <<table, plocked, ticksLocked, cpu, time>>
  BY Running DEF WaitLock, At, IInv
<1>2. op' \in [Proc -> OpType] /\ op'[p].pc = "scan" /\ op'[p].i = 1 /\ Rest(p)
  BY <1>1, LoopIs
<1>3. ScanOk(p)' /\ ExitOk(p)'
  <2>1. 1 \in 1 .. NPROC + 1 /\ \A q \in Proc : ~ q < 1
    BY Slots
  <2> QED
    BY <1>2, <2>1 DEF ScanOk, ExitOk
<1> QED
  BY <1>1, <1>2, <1>3, WaitLockKeeps DEF WaitHolder, NapHolder, Forking

\* The variables of wait() after one turn.
LEMMA ScannedTyped ==
    ASSUME NEW r \in OpType, NEW n \in Nat, NEW b \in BOOLEAN
    PROVE  /\ [r EXCEPT !.i = n, !.kids = b] \in OpType
           /\ [r EXCEPT !.i = n, !.kids = b].pc = r.pc
           /\ [r EXCEPT !.i = n, !.kids = b].i = n
BY DEF OpType

\* A turn of the loop of wait() over a child that is no zombie, or no child.
LEMMA WaitScanKeeps == ASSUME IInv, NEW p \in Proc, Runs(p), WaitScan(p) PROVE IInv'
<1> DEFINE i == op[p].i
           k == op[p].kids \/ parent[i] = p
           o == [op[p] EXCEPT !.i = i + 1, !.kids = k]
<1>1. /\ state[p] = "RUNNING" /\ op[p].pc = "scan" /\ i \in Proc /\ TypeOK
      /\ parent[i] = p => state[i] # "ZOMBIE"
      /\ UNCHANGED <<table, locks, cpu, time>>
  BY Running DEF WaitScan, At, IInv
<1>9. op' = [op EXCEPT ![p] = o]
  BY Zenon DEF WaitScan
<1>2. op[p] \in OpType
  BY <1>1, OpTyped
<1>3. o \in OpType /\ o.pc = op[p].pc /\ o.i = i + 1
  <2>1. k \in BOOLEAN /\ i + 1 \in Nat
    BY <1>2 DEF OpType
  <2> HIDE DEF k
  <2> QED
    BY ZenonT(30), <1>2, <2>1, ScannedTyped
<1>4. op' \in [Proc -> OpType] /\ Rest(p) /\ op'[p] = o
  BY <1>1, <1>3, <1>9, OpIs
<1>5. op'[p].pc = "scan" /\ op'[p].i = i + 1
  BY <1>1, <1>3, <1>4
<1> HIDE DEF o
<1>6. ScanOk(p)' /\ ExitOk(p)'
  <2>1. i + 1 \in 1 .. NPROC + 1 /\ \A q \in Proc : q < i + 1 => q < i \/ q = i
    BY <1>1, Slots
  <2>2. \A q \in Proc : q < i /\ parent[q] = p => state[q] # "ZOMBIE"
    BY <1>1 DEF IInv, Scans, ScanOk
  <2>3. UNCHANGED <<parent, state>>
    BY <1>1 DEF table
  <2> HIDE DEF i
  <2> QED
    BY <1>1, <1>5, <2>1, <2>2, <2>3 DEF ScanOk, ExitOk
<1>7. waitLocked /\ waitLocked' \in BOOLEAN /\ waitLocked' = waitLocked
  BY <1>1 DEF IInv, WaitMutex, WaitHolder, locks, TypeOK
<1> QED
  BY <1>1, <1>4, <1>5, <1>6, <1>7, WaitLockKeeps DEF WaitHolder, NapHolder, Forking, locks

\* wait() has gone round the table.
LEMMA WaitDoneKeeps == ASSUME IInv, NEW p \in Proc, Runs(p), WaitDone(p) PROVE IInv'
<1>1. /\ state[p] = "RUNNING" /\ op[p].pc = "scan" /\ op[p].i > NPROC /\ TypeOK
      /\ UNCHANGED <<table, plocked, ticksLocked, cpu, time>>
  BY Running DEF WaitDone, At, IInv
<1>2. waitLocked
  BY <1>1 DEF IInv, WaitMutex, WaitHolder
<1>3. /\ op' \in [Proc -> OpType] /\ Rest(p) /\ waitLocked' \in BOOLEAN
      /\ op'[p].pc = "ret" \/ (op'[p].pc = "waitsleep" /\ waitLocked')
  <2>1. CASE Goto(p, "ret") /\ waitLocked' = FALSE
    BY <1>1, <2>1, GotoIs
  <2>2. CASE Goto(p, "waitsleep") /\ UNCHANGED waitLocked
    BY <1>1, <1>2, <2>2, GotoIs
  <2> QED
    BY <2>1, <2>2 DEF WaitDone, Return
<1>4. ScanOk(p)' /\ ExitOk(p)'
  <2>1. \A q \in Proc : q < op[p].i
    BY <1>1, Slots, OpTyped DEF OpType
  <2>2. \A q \in Proc : parent'[q] = p => state'[q] # "ZOMBIE"
    BY <1>1, <2>1 DEF IInv, Scans, ScanOk, table
  <2> QED
    BY <1>3, <2>2 DEF ScanOk, ExitOk
<1> QED
  BY <1>1, <1>3, <1>4, WaitLockKeeps DEF WaitHolder, NapHolder, Forking

\* exit() begins wakeup(p->parent): p has no children any more.
LEMMA WakeupParentKeeps == ASSUME IInv, NEW p \in Proc, Runs(p), WakeupParent(p) PROVE IInv'
<1> DEFINE o == [op[p] EXCEPT !.pc = "wakeup", !.j = 1, !.w = parent[p], !.then = "zombie"]
<1>1. /\ state[p] = "RUNNING" /\ op[p].pc = "reparent" /\ op[p].i > NPROC /\ TypeOK
      /\ p # InitProc /\ op' = [op EXCEPT ![p] = o]
      /\ UNCHANGED <<table, locks, cpu, time>>
  BY Running DEF WakeupParent, Wakeup, At, IInv, Places
<1>2. waitLocked /\ waitLocked' = waitLocked
  BY <1>1 DEF IInv, WaitMutex, WaitHolder, locks
<1>3. parent[p] \in Proc \ {p}
  BY <1>1 DEF IInv, Family, Alive
<1>4. op[p] \in OpType
  BY <1>1, OpTyped
<1>5. o \in OpType
  <2>1. parent[p] \in Nat /\ 1 \in 0 .. NPROC + 1
    BY <1>3, Slots
  <2> QED
    BY <1>4, <2>1 DEF OpType
<1>6. op' \in [Proc -> OpType] /\ Rest(p) /\ op'[p] = o
  BY <1>1, <1>5, OpIs
<1>7. op'[p].pc = "wakeup" /\ op'[p].j = 1 /\ op'[p].w = parent[p] /\ op'[p].then = "zombie"
  BY <1>4, <1>6 DEF OpType
<1> HIDE DEF o
<1>8. ScanOk(p)' /\ ExitOk(p)'
  <2>1. \A q \in Proc : q < op[p].i
    BY <1>1, Slots, OpTyped DEF OpType
  <2>2. Childless(p)
    BY <1>1, <2>1 DEF IInv, Exits, ExitOk, Childless
  <2>3. Childless(p)' /\ parent' = parent
    BY <1>1, <2>2 DEF Childless, table
  <2>4. 1 \in 1 .. NPROC + 1 /\ ~ parent[p] < 1
    BY <1>3, Slots
  <2> QED
    BY <1>3, <1>7, <2>3, <2>4 DEF ScanOk, ExitOk
<1> QED
  BY <1>1, <1>2, <1>6, <1>7, <1>8, WaitLockKeeps DEF WaitHolder, NapHolder, Forking, locks

\* sys_sleep() acquires tickslock.
LEMMA NapStartKeeps == ASSUME IInv, NEW p \in Proc, Runs(p), NapStart(p) PROVE IInv'
<1> DEFINE o == [op[p] EXCEPT !.pc = "napping", !.i = ticks, !.spin = FALSE]
<1>1. /\ state[p] = "RUNNING" /\ op[p].pc = "nap" /\ TypeOK /\ ~ ticksLocked /\ ticksLocked' = TRUE
      /\ op' = [op EXCEPT ![p] = o]
      /\ UNCHANGED <<table, plocked, waitLocked, cpu, time>>
  BY Running DEF NapStart, At, IInv
<1>2. op[p] \in OpType /\ ticks \in Nat
  BY <1>1, OpTyped, ProcessConstants DEF TypeOK
<1>3. o \in OpType /\ o.pc = "napping"
  BY <1>2 DEF OpType
<1>4. op' \in [Proc -> OpType] /\ Rest(p) /\ op'[p].pc = "napping"
  BY <1>1, <1>3, OpIs
<1> QED
  BY <1>1, <1>4, TicksLockKeeps DEF WaitHolder, NapHolder

\* sleep(&ticks) acquires tickslock again.
LEMMA NapWokenKeeps == ASSUME IInv, NEW p \in Proc, Runs(p), NapWoken(p) PROVE IInv'
<1> DEFINE o == [op[p] EXCEPT !.pc = "napping", !.spin = FALSE]
<1>1. /\ state[p] = "RUNNING" /\ op[p].pc = "renap" /\ TypeOK /\ ~ ticksLocked /\ ticksLocked' = TRUE
      /\ op' = [op EXCEPT ![p] = o]
      /\ UNCHANGED <<table, plocked, waitLocked, cpu, time>>
  BY Running DEF NapWoken, At, IInv
<1>2. op[p] \in OpType
  BY <1>1, OpTyped
<1>3. o \in OpType /\ o.pc = "napping"
  BY <1>2 DEF OpType
<1>4. op' \in [Proc -> OpType] /\ Rest(p) /\ op'[p].pc = "napping"
  BY <1>1, <1>3, OpIs
<1> QED
  BY <1>1, <1>4, TicksLockKeeps DEF WaitHolder, NapHolder

\* The condition of the loop of sys_sleep().
LEMMA NapTestKeeps == ASSUME IInv, NEW p \in Proc, Runs(p), NapTest(p) PROVE IInv'
<1>1. /\ state[p] = "RUNNING" /\ op[p].pc = "napping" /\ TypeOK
      /\ UNCHANGED <<table, plocked, waitLocked, cpu, time>>
  BY Running DEF NapTest, At, IInv
<1>2. op[p] \in OpType /\ ticksLocked
  BY <1>1, OpTyped DEF IInv, NapMutex, NapHolder
<1>3. CASE Goto(p, "ret") /\ ticksLocked' = FALSE
  <2>1. op' \in [Proc -> OpType] /\ Rest(p) /\ op'[p].pc = "ret"
    BY <1>1, <1>3, GotoIs
  <2> QED
    BY <1>1, <1>3, <2>1, TicksLockKeeps DEF WaitHolder, NapHolder
<1>4. CASE ~ NapOver(p) /\ op' = [op EXCEPT ![p] = [op[p] EXCEPT !.pc = "napsleep"]] /\ UNCHANGED ticksLocked
  <2>1. [op[p] EXCEPT !.pc = "napsleep"] \in OpType
    BY <1>2 DEF OpType
  <2>2. op' \in [Proc -> OpType] /\ Rest(p) /\ op'[p] = [op[p] EXCEPT !.pc = "napsleep"]
    BY <1>1, <1>4, <2>1, OpIs
  <2>3. op'[p].pc = "napsleep" /\ op'[p].i = op[p].i /\ op'[p].w = op[p].w
    BY <1>2, <2>2 DEF OpType
  <2>4. ticks \in Int /\ op[p].i \in Int /\ op[p].w \in Int /\ TICKS \in Int /\ TICKS > 0
    BY <1>1, <1>2, ProcessConstants DEF TypeOK, OpType
  <2>5. (ticks - op[p].i) % TICKS \in Int
    BY <2>4
  <2>6. (ticks - op[p].i) % TICKS < op[p].w
    BY <1>4, <2>4, <2>5 DEF NapOver
  <2> QED
    BY <1>1, <1>2, <1>4, <2>2, <2>3, <2>6, TicksLockKeeps DEF WaitHolder, NapHolder
<1> QED
  BY <1>3, <1>4 DEF NapTest, Return

-----------------------------------------------------------------------------
(* kill() and wakeup()                                                     *)

\* The values of p->state.
Started == {"UNUSED", "USED", "ZOMBIE"} \cup Alive
\* At most sleepers have been made runnable.
Stirs == /\ state' \in [Proc -> Started]
         /\ \A q \in Proc : state'[q] = state[q] \/ (state[q] = "SLEEPING" /\ state'[q] = "RUNNABLE")

\* wakeup() for one process.
LEMMA WakeStirs ==
    ASSUME TypeOK, NEW j \in Proc, NEW c, WakeIf(j, c)
    PROVE  Stirs /\ (chan[j] = c => state'[j] # "SLEEPING")
<1>1. state \in [Proc -> Started]
  BY StateTyped DEF Started
<1>2. CASE state[j] = "SLEEPING" /\ chan[j] = c
  <2>1. state' = [state EXCEPT ![j] = "RUNNABLE"]
    BY <1>2 DEF WakeIf
  <2> QED
    BY <1>1, <1>2, <2>1 DEF Stirs, Started, Alive
<1>3. CASE ~ (state[j] = "SLEEPING" /\ chan[j] = c)
  BY <1>1, <1>3 DEF Stirs, WakeIf
<1> QED
  BY <1>2, <1>3

\* So does a step that leaves p->state alone.
LEMMA StillStirs ==
    ASSUME TypeOK, UNCHANGED state
    PROVE  Stirs
BY StateTyped DEF Stirs, Started

\* What a step of p keeps that wakes somebody and is not about fork().
LEMMA StirKeeps ==
    ASSUME IInv, NEW p \in Proc, state[p] = "RUNNING", Stirs,
           UNCHANGED <<chan, pid, nextpid, parent, plocked, cpu, time>>,
           killed' \in [Proc -> BOOLEAN], waitLocked' \in BOOLEAN, ticksLocked' \in BOOLEAN,
           op' \in [Proc -> OpType], Rest(p), op'[p].pc # "dead",
           op'[p].pc \in {"reparent", "wakeup", "zombie"} => p # InitProc,
           op'[p].pc \notin Forking, op'[p].pc # "napsleep"
    PROVE  TypeOK' /\ Harts' /\ Clocked' /\ Places' /\ Kids' /\ Family' /\ Naps'
<1>1. state' \in [Proc -> Started]
  BY DEF Stirs
<1>2. \A q \in Proc : state'[q] = state[q] \/ (state[q] = "SLEEPING" /\ state'[q] = "RUNNABLE")
  BY DEF Stirs
<1>3. \A h \in Hart : cpu[h] # None => cpu[h] \in Proc
  BY StateTyped DEF IInv, Proc, None
<1>4. TypeOK'
  BY <1>1, <1>2 DEF IInv, TypeOK, OpType, time, Started
<1>5. Harts'
  BY <1>2, <1>3 DEF IInv, Harts, Free
<1>6. Clocked'
  BY <1>2, <1>3, ProcessConstants DEF IInv, Clocked, Free, time
<1>7. Places'
  BY <1>2 DEF IInv, Places, Rest, Holding, Alive
<1>8. Kids'
  BY <1>2 DEF IInv, Kids, Rest
<1>9. Family'
  BY <1>2, Slots DEF IInv, Family, Alive
<1>10. Naps'
  BY <1>2 DEF IInv, Naps, Rest, time
<1> QED
  BY <1>4, <1>5, <1>6, <1>7, <1>8, <1>9, <1>10

\* kill() marks its victim and wakes it, or goes on.
LEMMA KillStepKeeps == ASSUME IInv, NEW p \in Proc, Runs(p), KillStep(p) PROVE IInv'
<1> DEFINE i == op[p].i
<1>1. /\ state[p] = "RUNNING" /\ op[p].pc = "kill" /\ i \in Proc /\ TypeOK
      /\ UNCHANGED <<chan, pid, parent, nextpid, locks, cpu, time>>
  BY Running DEF KillStep, At, IInv
<1>2. op[p] \in OpType
  BY <1>1, OpTyped
<1>3. /\ Stirs /\ killed' \in [Proc -> BOOLEAN]
      /\ op' \in [Proc -> OpType] /\ Rest(p) /\ op'[p].pc \in {"ret", "kill"}
  <2>1. CASE pid[i] = op[p].w
    <3>1. /\ killed' = [killed EXCEPT ![i] = TRUE] /\ Goto(p, "ret")
          /\ state' = IF state[i] = "SLEEPING" THEN [state EXCEPT ![i] = "RUNNABLE"] ELSE state
      BY <2>1 DEF KillStep, Return
    <3>2. WakeIf(i, chan[i])
      BY <3>1 DEF WakeIf
    <3>3. Stirs
      BY <1>1, <3>2, WakeStirs
    <3>4. killed' \in [Proc -> BOOLEAN]
      BY <1>1, <3>1, StateTyped
    <3> QED
      BY <1>1, <3>1, <3>3, <3>4, GotoIs
  <2>2. CASE pid[i] # op[p].w
    <3>1. NextI(p) /\ UNCHANGED <<killed, state>>
      BY <2>2 DEF KillStep
    <3>2. op' \in [Proc -> OpType] /\ Rest(p) /\ op'[p].pc = "kill"
      BY <1>1, <1>2, <3>1, NextIIs DEF OpType
    <3> QED
      BY <1>1, <3>1, <3>2, StateTyped, StillStirs
  <2> QED
    BY <2>1, <2>2
<1> HIDE DEF i
<1>4. \A q \in Proc : state'[q] = state[q] \/ (state[q] = "SLEEPING" /\ state'[q] = "RUNNABLE")
  BY <1>3 DEF Stirs
<1>5. UNCHANGED <<plocked, waitLocked, ticksLocked>> /\ waitLocked \in BOOLEAN /\ ticksLocked \in BOOLEAN
  BY <1>1 DEF locks, TypeOK
<1>6. TypeOK' /\ Harts' /\ Clocked' /\ Places' /\ Kids' /\ Family' /\ Naps'
  BY <1>1, <1>3, <1>5, StirKeeps DEF Forking
<1>7. WaitMutex' /\ NapMutex'
  BY <1>1, <1>3, <1>5 DEF IInv, WaitMutex, NapMutex, time, Rest, WaitHolder, NapHolder
<1>8. \A q \in Proc : op'[q].pc \in WaitHolder => op'[q] = op[q]
  BY <1>3 DEF Rest, WaitHolder
<1>9. \A q \in Proc : Waits(q)' => Waits(q)
  BY <1>1, <1>4 DEF Waits
<1>10. Scans'
  BY <1>1, <1>4, <1>8 DEF IInv, Scans, ScanOk, WaitHolder
<1>11. Exits'
  <2>1. \A q \in Proc : Childless(q)' <=> Childless(q)
    BY <1>1 DEF Childless
  <2> QED
    BY <1>1, <1>8, <1>9, <2>1, ZombieParent DEF IInv, Exits, ExitOk, WaitHolder
<1>12. Woken'
  BY <1>1, <1>3, <1>4, <1>9 DEF IInv, Woken, Rest
<1> QED
  BY <1>6, <1>7, <1>10, <1>11, <1>12 DEF IInv

\* A turn of wakeup() in exit() or reparent(), or its end: a sleeping parent is woken when
\* its turn comes.
LEMMA WakeupStepKeeps == ASSUME IInv, NEW p \in Proc, Runs(p), WakeupStep(p) PROVE IInv'
<1> DEFINE j == op[p].j
<1>1. /\ state[p] = "RUNNING" /\ op[p].pc = "wakeup" /\ TypeOK /\ p # InitProc
      /\ UNCHANGED <<chan, killed, pid, parent, nextpid, locks, cpu, time>>
  BY Running DEF WakeupStep, At, IInv, Places
<1>2. op[p] \in OpType
  BY <1>1, OpTyped
<1>3. /\ j \in 1 .. NPROC + 1 /\ op[p].w \in Proc \ {p} /\ op[p].then \in {"reparent", "zombie"}
      /\ op[p].then = "reparent" => op[p].w = InitProc
      /\ op[p].then = "zombie" => /\ op[p].w = parent[p] /\ Childless(p)
                                  /\ op[p].w < j => ~ Waits(op[p].w)
      /\ op[p].then = "reparent" =>
             op[p].i \in 1 .. NPROC + 1 /\ \A q \in Proc : q < op[p].i => parent[q] # p
  BY <1>1, <1>2 DEF IInv, Exits, ExitOk, OpType
<1>4. \A q \in Proc : op[q].pc \in WaitHolder => q = p
  BY <1>1 DEF IInv, WaitMutex, WaitHolder
<1>5. waitLocked /\ UNCHANGED <<plocked, waitLocked, ticksLocked>> /\ waitLocked \in BOOLEAN
      /\ ticksLocked \in BOOLEAN /\ killed \in [Proc -> BOOLEAN]
  BY <1>1 DEF IInv, WaitMutex, WaitHolder, locks, TypeOK
\* What both outcomes have in common.
<1>6. ASSUME Stirs, op' \in [Proc -> OpType], Rest(p), op'[p].pc \in {"wakeup", "reparent", "zombie"},
             ExitOk(p)', Woken'
      PROVE  IInv'
  <2>1. \A q \in Proc : state'[q] = state[q] \/ (state[q] = "SLEEPING" /\ state'[q] = "RUNNABLE")
    BY <1>6 DEF Stirs
  <2>2. TypeOK' /\ Harts' /\ Clocked' /\ Places' /\ Kids' /\ Family' /\ Naps'
    BY <1>1, <1>5, <1>6, StirKeeps DEF Forking
  <2>3. \A q \in Proc : op'[q].pc \in WaitHolder => q = p
    BY <1>4, <1>6 DEF Rest
  <2>4. WaitMutex'
    BY <1>5, <2>3 DEF WaitMutex
  <2>5. NapMutex'
    BY <1>1, <1>5, <1>6 DEF IInv, NapMutex, time, Rest, NapHolder
  <2>6. Scans' /\ Exits'
    <3>1. \A q \in Proc : q # p => op'[q].pc \notin WaitHolder
      BY <2>3
    <3>2. op'[p].pc \notin {"scan", "waitsleep"}
      BY <1>6
    <3>3. Scans'
      BY <3>1, <3>2 DEF Scans, ScanOk, WaitHolder
    <3>4. Exits'
      BY <1>6, <3>1 DEF Exits, ExitOk, WaitHolder
    <3> QED
      BY <3>3, <3>4
  <2> QED
    BY <1>6, <2>2, <2>4, <2>5, <2>6 DEF IInv
<1>7. CASE j > NPROC
  <2> DEFINE o == [op[p] EXCEPT !.pc = op[p].then, !.j = 0, !.w = 0, !.then = "user"]
  <2>1. op' = [op EXCEPT ![p] = o] /\ UNCHANGED state
    BY <1>7 DEF WakeupStep
  <2>2. o \in OpType /\ o.pc = op[p].then /\ o.i = op[p].i
    <3>1. 0 \in 0 .. NPROC + 1
      BY Slots
    <3> QED
      BY <1>2, <1>3, <3>1 DEF OpType
  <2> HIDE DEF o
  <2>3. op' \in [Proc -> OpType] /\ Rest(p) /\ op'[p].pc = op[p].then /\ op'[p].i = op[p].i
    BY <1>1, <2>1, <2>2, OpIs
  <2>4. op[p].w < j
    BY <1>3, <1>7, Slots
  <2>5. ExitOk(p)'
    <3>1. Childless(p)' <=> Childless(p)
      BY <1>1 DEF Childless
    <3>2. \A q \in Proc : Waits(q)' <=> Waits(q)
      BY <1>1, <2>1 DEF Waits
    <3> QED
      BY <1>1, <1>3, <2>3, <2>4, <3>1, <3>2 DEF ExitOk
  <2>6. \A q \in Proc : ~ j <= q
    BY <1>3, <1>7, Slots
  <2>7. Woken'
    <3>1. \A a, b \in Proc : ~ (parent[b] = a /\ state[b] = "ZOMBIE" /\ Waits(a))
      BY <1>4, <2>6 DEF IInv, Woken, WaitHolder
    <3> QED
      BY <1>1, <2>1, <3>1 DEF Woken, Waits
  <2> QED
    BY <1>1, <1>3, <1>6, <2>1, <2>3, <2>5, <2>7, StillStirs
<1>8. CASE ~ j > NPROC
  <2>1. /\ op' = [op EXCEPT ![p] = [op[p] EXCEPT !.j = j + 1]]
        /\ IF j = p THEN UNCHANGED state ELSE WakeIf(j, op[p].w)
    BY <1>8 DEF WakeupStep
  <2>2. j \in Proc /\ j + 1 \in 1 .. NPROC + 1 /\ j + 1 \in 0 .. NPROC + 1
    BY <1>3, <1>8, Slots DEF Proc
  <2>3. [op[p] EXCEPT !.j = j + 1] \in OpType
    BY <1>2, <2>2 DEF OpType
  <2>4. op' \in [Proc -> OpType] /\ Rest(p) /\ op'[p] = [op[p] EXCEPT !.j = j + 1]
    BY <1>1, <2>1, <2>3, OpIs
  <2>5. /\ op'[p].pc = "wakeup" /\ op'[p].j = j + 1 /\ op'[p].w = op[p].w /\ op'[p].then = op[p].then
        /\ op'[p].i = op[p].i
    BY <1>1, <1>2, <2>4 DEF OpType
  <2>6. Stirs /\ (j # p /\ chan[j] = op[p].w => state'[j] # "SLEEPING")
    BY <1>1, <2>1, <2>2, StillStirs, WakeStirs
  <2> HIDE DEF j
  <2>7. \A q \in Proc : Waits(q)' => Waits(q)
    BY <1>1, <2>6 DEF Waits, Stirs
  <2>8. \A q \in Proc : q = op[p].w /\ q < j + 1 /\ Waits(q)' => q < j
    <3> SUFFICES ASSUME NEW q \in Proc, q = op[p].w, q < j + 1, Waits(q)', ~ q < j
                 PROVE  FALSE
      OBVIOUS
    <3>1. q = j
      BY <2>2, Slots
    <3> QED
      BY <1>1, <1>3, <2>6, <3>1 DEF Waits
  <2>9. ExitOk(p)'
    <3>1. Childless(p)' <=> Childless(p)
      BY <1>1 DEF Childless
    <3>2. op[p].then = "zombie" => \A q \in Proc : q = op[p].w /\ q < j + 1 => ~ Waits(q)'
      BY <1>3, <2>7, <2>8
    <3> QED
      BY <1>1, <1>3, <2>2, <2>5, <3>1, <3>2 DEF ExitOk
  <2>10. Woken'
    <3> SUFFICES ASSUME NEW a \in Proc, NEW b \in Proc, parent'[b] = a, state'[b] = "ZOMBIE", Waits(a)'
                 PROVE  /\ op'[p].pc = "wakeup" /\ op'[p].then = "reparent"
                        /\ op'[p].w = a /\ op'[p].j <= a
      BY DEF Woken
    <3>1. parent[b] = a /\ state[b] = "ZOMBIE" /\ Waits(a)
      BY <1>1, <2>6, <2>7 DEF Stirs
    <3>2. op[p].then = "reparent" /\ op[p].w = a /\ j <= a
      BY <1>4, <3>1 DEF IInv, Woken, WaitHolder, j
    <3>3. j + 1 <= a
      BY <2>2, <2>8, <3>2, Slots
    <3> QED
      BY <2>5, <3>2, <3>3
  <2> QED
    BY <1>6, <2>4, <2>5, <2>6, <2>9, <2>10
<1> QED
  BY <1>7, <1>8

-----------------------------------------------------------------------------
(* reparent(), and the ends of fork() and wait()                           *)

\* reparent() passes a child to initproc, whose wakeup is to come, or goes on.
LEMMA ReparentKeeps == ASSUME IInv, NEW p \in Proc, Runs(p), Reparent(p) PROVE IInv'
<1> DEFINE i == op[p].i
<1>1. /\ state[p] = "RUNNING" /\ op[p].pc = "reparent" /\ i \in Proc /\ TypeOK /\ p # InitProc
      /\ UNCHANGED <<state, chan, killed, pid, nextpid, locks, cpu, time>>
  BY Running DEF Reparent, At, IInv, Places
<1>2. op[p] \in OpType
  BY <1>1, OpTyped
<1>3. UNCHANGED <<plocked, waitLocked, ticksLocked>> /\ waitLocked /\ waitLocked \in BOOLEAN
  BY <1>1 DEF locks, IInv, WaitMutex, WaitHolder, TypeOK
<1>4. \A q \in Proc : q < i => parent[q] # p
  BY <1>1 DEF IInv, Exits, ExitOk
<1>5. i + 1 \in 1 .. NPROC + 1 /\ \A q \in Proc : q < i + 1 => q < i \/ q = i
  BY <1>1, Slots
<1>6. CASE parent[i] # p
  <2>1. NextI(p) /\ UNCHANGED parent
    BY <1>6 DEF Reparent
  <2>2. op' \in [Proc -> OpType] /\ Rest(p) /\ op'[p].pc = "reparent" /\ op'[p].i = i + 1
    BY <1>1, <1>2, <2>1, NextIIs DEF OpType
  <2> HIDE DEF i
  <2>3. ScanOk(p)' /\ ExitOk(p)'
    BY <1>4, <1>5, <1>6, <2>1, <2>2 DEF ScanOk, ExitOk
  <2> QED
    BY <1>1, <1>3, <2>1, <2>2, <2>3, WaitLockKeeps DEF WaitHolder, NapHolder, Forking, table
<1>7. CASE parent[i] = p
  <2> DEFINE o == [op[p] EXCEPT !.pc = "wakeup", !.i = i + 1, !.j = 1, !.w = InitProc,
                                !.then = "reparent"]
  <2>1. parent' = [parent EXCEPT ![i] = InitProc] /\ op' = [op EXCEPT ![p] = o]
    BY <1>7 DEF Reparent
  <2>2. /\ o \in OpType /\ o.pc = "wakeup" /\ o.i = i + 1 /\ o.j = 1 /\ o.w = InitProc
        /\ o.then = "reparent"
    <3>1. 1 \in 0 .. NPROC + 1 /\ InitProc \in Nat /\ i + 1 \in Nat
      BY <1>1, Slots
    <3> HIDE DEF i
    <3> QED
      BY <1>2, <3>1 DEF OpType
  <2> HIDE DEF o
  <2>3. /\ op' \in [Proc -> OpType] /\ Rest(p) /\ op'[p].pc = "wakeup" /\ op'[p].i = i + 1
        /\ op'[p].j = 1 /\ op'[p].w = InitProc /\ op'[p].then = "reparent"
    BY <1>1, <2>1, <2>2, OpIs
  <2> HIDE DEF i
  <2>4. parent'[i] = InitProc /\ \A q \in Proc : q # i => parent'[q] = parent[q]
    BY <1>1, <2>1, StateTyped
  <2>5. i # InitProc
    BY <1>1, <1>7, Slots DEF IInv, Family
  <2>6. \A q \in Proc : op[q].pc \in WaitHolder => q = p
    BY <1>1 DEF IInv, WaitMutex, WaitHolder
  <2>7. \A q \in Proc : op'[q].pc \in WaitHolder => q = p
    BY <2>3, <2>6 DEF Rest
  <2>8. TypeOK'
    <3>1. parent' \in [Proc -> 0 .. NPROC]
      <4>1. InitProc \in 0 .. NPROC
        BY Slots
      <4> QED
        BY <1>1, <2>1, <4>1, StateTyped
    <3> QED
      BY <1>1, <1>3, <2>3, <3>1 DEF TypeOK, OpType, time
  <2>9. Harts' /\ Clocked'
    BY <1>1, <1>3 DEF IInv, Harts, Clocked, Free, time
  <2>10. Places'
    BY <1>1, <2>3 DEF IInv, Places, Rest, Holding, Alive
  <2>11. Kids'
    <3> SUFFICES ASSUME NEW q \in Proc, op'[q].pc \in Forking
                 PROVE  /\ op'[q].kid \in Proc /\ state'[op'[q].kid] = "USED"
                        /\ op'[q].pc = "ready" => parent'[op'[q].kid] = q
                        /\ \A r \in Proc : op'[r].pc \in Forking /\ op'[r].kid = op'[q].kid => r = q
      BY DEF Kids
    <3>1. \A r \in Proc : op'[r].pc \in Forking => op'[r] = op[r] /\ r # p
      BY <2>3 DEF Rest, Forking
    <3>2. op[q].pc = "ready" => op[q].kid # i
      BY <1>7, <3>1 DEF IInv, Kids, Forking
    <3> QED
      BY <1>1, <2>4, <3>1, <3>2 DEF IInv, Kids
  <2>12. WaitMutex' /\ NapMutex'
    <3>1. WaitMutex'
      BY <1>3, <2>7 DEF WaitMutex
    <3>2. NapMutex'
      BY <1>1, <1>3, <2>3 DEF IInv, NapMutex, Rest, NapHolder, time
    <3> QED
      BY <3>1, <3>2
  <2>13. Scans'
    BY <2>3, <2>7 DEF Scans, ScanOk, WaitHolder
  <2>14. Exits'
    <3>1. \A q \in Proc : q # p => op'[q].pc \notin WaitHolder
      BY <2>7
    <3>2. \A q \in Proc : q < i + 1 => parent'[q] # p
      BY <1>1, <1>4, <1>5, <2>4
    <3>3. 1 \in 1 .. NPROC + 1
      BY Slots
    <3>4. ExitOk(p)'
      BY <1>1, <1>5, <2>3, <3>2, <3>3, Slots DEF ExitOk
    <3> QED
      BY <3>1, <3>4 DEF Exits, ExitOk, WaitHolder
  <2>15. Woken'
    <3> SUFFICES ASSUME NEW a \in Proc, NEW b \in Proc, parent'[b] = a, state'[b] = "ZOMBIE", Waits(a)'
                 PROVE  a = InitProc
      BY <2>3, Slots DEF Woken, InitProc
    <3>1. CASE b = i
      BY <2>4, <3>1
    <3>2. CASE b # i
      <4>1. parent[b] = a /\ state[b] = "ZOMBIE" /\ Waits(a)
        BY <1>1, <2>4, <3>2 DEF Waits
      <4>2. \A q \in Proc : op[q].pc # "wakeup"
        BY <1>1, <2>6 DEF WaitHolder
      <4> QED
        BY <4>1, <4>2 DEF IInv, Woken
    <3> QED
      BY <3>1, <3>2
  <2>16. Family'
    BY <1>1, <2>4, <2>5, Slots DEF IInv, Family
  <2>17. Naps'
    BY <1>1, <2>3 DEF IInv, Naps, Rest, time
  <2> QED
    BY <2>8, <2>9, <2>10, <2>11, <2>12, <2>13, <2>14, <2>15, <2>16, <2>17 DEF IInv
<1> QED
  BY <1>6, <1>7

\* fork() makes the child runnable: it has a living parent.
LEMMA ForkReadyKeeps == ASSUME IInv, NEW p \in Proc, Runs(p), ForkReady(p) PROVE IInv'
<1> DEFINE i == op[p].kid
<1>1. /\ state[p] = "RUNNING" /\ op[p].pc = "ready" /\ TypeOK
      /\ state' = [state EXCEPT ![i] = "RUNNABLE"]
      /\ op' = [op EXCEPT ![p] = [User EXCEPT !.pc = "ret"], ![i] = User]
      /\ UNCHANGED <<chan, killed, pid, parent, nextpid, locks, cpu, time>>
  BY Running DEF ForkReady, At, IInv
<1>2. i \in Proc /\ state[i] = "USED" /\ parent[i] = p
  BY <1>1 DEF IInv, Kids, Forking
<1>3. i # p /\ i # InitProc /\ op[i].pc \in {"user", "dead"} /\ \A h \in Hart : cpu[h] # i
  BY <1>1, <1>2, Slots DEF IInv, Places, Harts, Family, Alive
<1>4. \A q \in Proc : q # p /\ op[q].pc \in Forking => op[q].kid # i
  BY <1>1 DEF IInv, Kids, Forking
<1> HIDE DEF i
<1>5. User \in OpType /\ [User EXCEPT !.pc = "ret"] \in OpType /\ [User EXCEPT !.pc = "ret"].pc = "ret"
      /\ User.pc = "user"
  BY UserTyped, UserIs DEF User
<1>6. /\ op' \in [Proc -> OpType] /\ op'[p].pc = "ret" /\ op'[i].pc = "user"
      /\ \A q \in Proc : q # p /\ q # i => op'[q] = op[q]
  <2>1. op \in [Proc -> OpType]
    BY <1>1, OpTyped
  <2> HIDE DEF User
  <2> QED
    BY <1>1, <1>2, <1>3, <1>5, <2>1
<1>7. state'[i] = "RUNNABLE" /\ \A q \in Proc : q # i => state'[q] = state[q]
  BY <1>1, <1>2, StateTyped
<1>8. UNCHANGED <<plocked, waitLocked, ticksLocked>>
  BY <1>1 DEF locks
<1>9. TypeOK'
  <2>1. state' \in [Proc -> {"UNUSED", "USED", "ZOMBIE"} \cup Alive]
    BY <1>1, StateTyped DEF Alive
  <2>2. \A q \in Proc : pid'[q] < nextpid' /\ (pid'[q] = 0 <=> state'[q] = "UNUSED")
    BY <1>1, <1>2, <1>7 DEF TypeOK
  <2> QED
    BY <1>1, <1>6, <1>8, <2>1, <2>2 DEF TypeOK, OpType, time
<1>10. Harts' /\ Clocked'
  <2>1. \A h \in Hart : cpu[h] # None => cpu[h] \in Proc
    BY <1>1, StateTyped DEF Proc, None
  <2>2. Harts'
    BY <1>1, <1>2, <1>3, <1>7, <1>8, <2>1 DEF IInv, Harts, Free
  <2>3. Clocked'
    BY <1>1, <1>2, <1>3, <1>7, <1>8, <2>1, ProcessConstants DEF IInv, Clocked, Free, time
  <2> QED
    BY <2>2, <2>3
<1>11. Places'
  <2> SUFFICES ASSUME NEW q \in Proc
               PROVE  /\ state'[q] \in {"UNUSED", "USED"} => op'[q].pc \in {"user", "dead"}
                      /\ state'[q] = "ZOMBIE" => op'[q].pc = "dead"
                      /\ state'[q] \in Alive => op'[q].pc # "dead"
                      /\ Holding(q)' => state'[q] = "RUNNING"
                      /\ state'[q] = "SLEEPING" => \/ op'[q].pc = "wait" /\ chan'[q] = q
                                                   \/ op'[q].pc = "renap" /\ chan'[q] = TicksChan
                      /\ op'[q].pc \in {"reparent", "wakeup", "zombie"} => q # InitProc
    BY DEF Places
  <2>1. CASE q = p
    BY <1>1, <1>3, <1>6, <1>7, <2>1 DEF Holding, Alive
  <2>2. CASE q = i
    BY <1>6, <1>7, <2>2 DEF Holding, Alive
  <2>3. CASE q # p /\ q # i
    <3>1. op'[q] = op[q] /\ state'[q] = state[q] /\ chan'[q] = chan[q]
      BY <1>1, <1>6, <1>7, <2>3
    <3> QED
      BY <3>1 DEF IInv, Places, Holding
  <2> QED
    BY <2>1, <2>2, <2>3
<1>12. Kids'
  <2> SUFFICES ASSUME NEW q \in Proc, op'[q].pc \in Forking
               PROVE  /\ op'[q].kid \in Proc /\ state'[op'[q].kid] = "USED"
                      /\ op'[q].pc = "ready" => parent'[op'[q].kid] = q
                      /\ \A r \in Proc : op'[r].pc \in Forking /\ op'[r].kid = op'[q].kid => r = q
    BY DEF Kids
  <2>1. \A r \in Proc : op'[r].pc \in Forking => op'[r] = op[r] /\ op[r].kid # i
    BY <1>4, <1>6 DEF Forking
  <2>2. op'[q] = op[q] /\ op[q].pc \in Forking /\ op[q].kid # i
    BY <2>1
  <2>3. op[q].kid \in Proc /\ state[op[q].kid] = "USED"
    BY <2>2 DEF IInv, Kids
  <2>4. op[q].pc = "ready" => parent[op[q].kid] = q
    BY <2>2 DEF IInv, Kids
  <2>5. \A r \in Proc : op[r].pc \in Forking /\ op[r].kid = op[q].kid => r = q
    BY <2>2 DEF IInv, Kids
  <2> QED
    BY <1>1, <1>7, <2>1, <2>2, <2>3, <2>4, <2>5
<1>13. WaitMutex' /\ NapMutex'
  <2>1. \A q \in Proc : op'[q].pc \in WaitHolder \cup NapHolder => op'[q] = op[q]
    BY <1>6 DEF WaitHolder, NapHolder
  <2> QED
    BY <1>1, <1>8, <2>1 DEF IInv, WaitMutex, NapMutex, time
<1>14. \A q \in Proc : op'[q].pc \in WaitHolder => op'[q] = op[q]
  BY <1>6 DEF WaitHolder
<1>15. \A q \in Proc : /\ Waits(q)' => Waits(q)
                       /\ state'[q] = "ZOMBIE" => state[q] = "ZOMBIE"
                       /\ Childless(q)' <=> Childless(q)
  BY <1>1, <1>7 DEF Waits, Childless
<1>16. Scans'
  BY <1>1, <1>14, <1>15 DEF IInv, Scans, ScanOk, WaitHolder
<1>17. Exits'
  <2> SUFFICES ASSUME NEW q \in Proc, op'[q].pc \in WaitHolder
               PROVE  ExitOk(q)'
    BY DEF Exits, ExitOk, WaitHolder
  <2>1. ExitOk(q) /\ op'[q] = op[q] /\ parent' = parent
    BY <1>1, <1>14 DEF IInv, Exits
  <2>2. op[q].pc = "wakeup" => op[q].w \in Proc
    BY <2>1 DEF ExitOk
  <2>3. op[q].pc = "zombie" => parent[q] \in Proc
    BY ZombieParent
  <2> QED
    BY <1>15, <2>1, <2>2, <2>3 DEF ExitOk
<1>18. Woken'
  <2>1. \A q \in Proc : op[q].pc = "wakeup" => op'[q] = op[q]
    BY <1>1, <1>3, <1>6
  <2> SUFFICES ASSUME NEW a \in Proc, NEW b \in Proc, parent'[b] = a, state'[b] = "ZOMBIE", Waits(a)'
               PROVE  \E r \in Proc : /\ op'[r].pc = "wakeup" /\ op'[r].then = "reparent"
                                      /\ op'[r].w = a /\ op'[r].j <= a
    BY DEF Woken
  <2>2. parent[b] = a /\ state[b] = "ZOMBIE" /\ Waits(a)
    BY <1>1, <1>15
  <2>3. PICK r \in Proc : op[r].pc = "wakeup" /\ op[r].then = "reparent" /\ op[r].w = a /\ op[r].j <= a
    BY <2>2 DEF IInv, Woken
  <2> QED
    BY <2>1, <2>3
<1>19. Family'
  BY <1>1, <1>2, <1>3, <1>7, Slots DEF IInv, Family, Alive
<1>20. Naps'
  <2>1. \A q \in Proc : state'[q] = "SLEEPING" => state[q] = "SLEEPING" /\ op'[q] = op[q]
    BY <1>1, <1>3, <1>6, <1>7
  <2>2. \A q \in Proc : op'[q].pc = "napsleep" => op'[q] = op[q]
    BY <1>6
  <2> QED
    BY <1>1, <2>1, <2>2 DEF IInv, Naps, time
<1> QED
  BY <1>9, <1>10, <1>11, <1>12, <1>13, <1>16, <1>17, <1>18, <1>19, <1>20 DEF IInv

\* wait() frees a zombie: no hart is on its stack, since its lock is free.
LEMMA WaitReapKeeps == ASSUME IInv, NEW p \in Proc, Runs(p), WaitReap(p) PROVE IInv'
<1> DEFINE i == op[p].i
<1>1. /\ state[p] = "RUNNING" /\ op[p].pc = "scan" /\ i \in Proc /\ TypeOK
      /\ parent[i] = p /\ Free(i) /\ state[i] = "ZOMBIE" /\ (FreeProc(i) \/ UNCHANGED table)
      /\ waitLocked' = FALSE /\ Goto(p, "ret")
      /\ UNCHANGED <<plocked, ticksLocked, cpu, time>>
  BY Running DEF WaitReap, At, IInv, Return
<1>2. op' \in [Proc -> OpType] /\ Rest(p) /\ op'[p].pc = "ret"
  BY <1>1, GotoIs
<1> HIDE DEF i
<1>3. CASE UNCHANGED table
  <2>1. ScanOk(p)' /\ ExitOk(p)'
    BY <1>2 DEF ScanOk, ExitOk
  <2> QED
    BY <1>1, <1>2, <1>3, <2>1, WaitLockKeeps DEF WaitHolder, NapHolder, Forking
<1>4. CASE FreeProc(i)
  <2>1. /\ state'[i] = "UNUSED" /\ pid'[i] = 0 /\ parent'[i] = None
        /\ \A q \in Proc : q # i => state'[q] = state[q] /\ pid'[q] = pid[q] /\ parent'[q] = parent[q]
                                    /\ chan'[q] = chan[q]
        /\ nextpid' = nextpid
    BY <1>1, <1>4, StateTyped DEF FreeProc
  <2>2. i # p /\ i # InitProc /\ op[i].pc = "dead" /\ \A h \in Hart : cpu[h] # i
    <3>1. i # p /\ i # InitProc /\ op[i].pc = "dead"
      BY <1>1 DEF IInv, Places, Family, Alive
    <3>2. \A h \in Hart : cpu[h] # i
      BY <1>1, Slots DEF IInv, Harts
    <3> QED
      BY <3>1, <3>2
  <2>3. \A q \in Proc : op[q].pc \in WaitHolder => q = p
    BY <1>1 DEF IInv, WaitMutex, WaitHolder
  <2>4. \A q \in Proc : op'[q].pc \notin WaitHolder
    BY <1>2, <2>3 DEF Rest, WaitHolder
  <2>5. TypeOK'
    <3>1. nextpid \in Nat /\ nextpid > 0
      BY Slots DEF TypeOK, IInv
    <3>2. None \in 0 .. NPROC /\ None \in 0 .. NPROC + 1
      BY Slots DEF None
    <3>3. state' \in [Proc -> {"UNUSED", "USED", "ZOMBIE"} \cup Alive]
      BY <1>1, <1>4, StateTyped DEF FreeProc
    <3>4. pid' \in [Proc -> Nat] /\ killed' \in [Proc -> BOOLEAN]
      BY <1>1, <1>4, StateTyped DEF FreeProc
    <3>5. chan' \in [Proc -> 0 .. NPROC + 1]
      BY <1>1, <1>4, <3>2, StateTyped DEF FreeProc
    <3>6. parent' \in [Proc -> 0 .. NPROC]
      BY <1>1, <1>4, <3>2, StateTyped DEF FreeProc
    <3>7. \A q \in Proc : pid'[q] < nextpid' /\ (pid'[q] = 0 <=> state'[q] = "UNUSED")
      BY <1>1, <2>1, <3>1, <3>3, <3>4 DEF TypeOK
    <3> QED
      BY <1>1, <1>2, <2>1, <3>1, <3>3, <3>4, <3>5, <3>6, <3>7 DEF TypeOK, OpType, time
  <2>6. Harts' /\ Clocked'
    <3>1. \A h \in Hart : cpu[h] # None => cpu[h] \in Proc
      BY <1>1, StateTyped DEF Proc, None
    <3>2. Harts'
      BY <1>1, <2>1, <2>2, <3>1 DEF IInv, Harts, Free
    <3>3. Clocked'
      BY <1>1, <2>1, <2>2, <3>1, ProcessConstants DEF IInv, Clocked, Free, time
    <3> QED
      BY <3>2, <3>3
  <2>7. Places'
    BY <1>1, <1>2, <2>1, <2>2 DEF IInv, Places, Rest, Holding, Alive
  <2>8. Kids'
    <3>1. \A q \in Proc : op[q].pc \in Forking => op[q].kid # i
      BY <1>1 DEF IInv, Kids
    <3>2. \A q \in Proc : op'[q].pc \in Forking => op'[q] = op[q]
      BY <1>2 DEF Rest, Forking
    <3> QED
      BY <2>1, <3>1, <3>2 DEF IInv, Kids
  <2>9. WaitMutex' /\ NapMutex'
    <3>1. WaitMutex'
      BY <2>4 DEF WaitMutex
    <3>2. NapMutex'
      BY <1>1, <1>2 DEF IInv, NapMutex, Rest, NapHolder, time
    <3> QED
      BY <3>1, <3>2
  <2>10. Scans' /\ Exits'
    BY <2>4 DEF Scans, ScanOk, Exits, ExitOk, WaitHolder
  <2>11. Woken'
    <3>1. \A a, b \in Proc : ~ (parent[b] = a /\ state[b] = "ZOMBIE" /\ Waits(a))
      BY <1>1, <2>3 DEF IInv, Woken, WaitHolder
    <3> QED
      BY <2>1, <3>1 DEF Woken, Waits
  <2>12. Family'
    BY <1>1, <2>1, <2>2, Slots DEF IInv, Family, Alive
  <2>13. Naps'
    BY <1>1, <1>2, <2>1 DEF IInv, Naps, Rest, time
  <2> QED
    BY <2>5, <2>6, <2>7, <2>8, <2>9, <2>10, <2>11, <2>12, <2>13 DEF IInv
<1> QED
  BY <1>1, <1>3, <1>4

-----------------------------------------------------------------------------
(* sleep(), yield() and the end of exit()                                  *)

\* What sleep(), yield() and exit() do to the table.
LEMMA GoneOff ==
    ASSUME TypeOK, NEW p \in Proc, NEW st \in {"RUNNABLE", "SLEEPING", "ZOMBIE"},
           NEW c \in 0 .. NPROC + 1, GoOff(p, st, c)
    PROVE  /\ state' \in [Proc -> {"UNUSED", "USED", "ZOMBIE"} \cup Alive]
           /\ chan' \in [Proc -> 0 .. NPROC + 1] /\ plocked' = plocked \cup {p}
           /\ state'[p] = st /\ chan'[p] = c
           /\ \A q \in Proc : q # p => state'[q] = state[q] /\ chan'[q] = chan[q]
           /\ UNCHANGED <<killed, pid, parent, nextpid>>
<1>1. /\ state' = [state EXCEPT ![p] = st] /\ chan' = [chan EXCEPT ![p] = c]
      /\ plocked' = plocked \cup {p} /\ UNCHANGED <<killed, pid, parent, nextpid>>
  BY DEF GoOff
<1>2. state' \in [Proc -> {"UNUSED", "USED", "ZOMBIE"} \cup Alive]
  BY <1>1, StateTyped DEF Alive
<1>3. chan' \in [Proc -> 0 .. NPROC + 1]
  BY <1>1, StateTyped
<1> QED
  BY <1>1, <1>2, <1>3, StateTyped

\* A process gives up its hart.
LEMMA OffKeeps ==
    ASSUME IInv, NEW p \in Proc, NEW st \in {"RUNNABLE", "SLEEPING", "ZOMBIE"},
           NEW c \in 0 .. NPROC + 1, GoOff(p, st, c), state[p] = "RUNNING",
           cpu[ClockHart] = p => clock.pc = "off", UNCHANGED <<cpu, time>>,
           waitLocked' \in BOOLEAN, ticksLocked' \in BOOLEAN,
           op' \in [Proc -> OpType], Rest(p), op'[p].pc \in Forking => op'[p] = op[p],
           ~ Holding(p)', op'[p].pc = "dead" <=> st = "ZOMBIE",
           st = "SLEEPING" => \/ op'[p].pc = "wait" /\ c = p
                              \/ op'[p].pc = "renap" /\ c = TicksChan
    PROVE  TypeOK' /\ Harts' /\ Clocked' /\ Places' /\ Kids'
<1>1. TypeOK /\ \A h \in Hart : cpu[h] # None => cpu[h] \in Proc
  BY StateTyped DEF IInv, Proc, None
<1>2. /\ state' \in [Proc -> {"UNUSED", "USED", "ZOMBIE"} \cup Alive]
      /\ chan' \in [Proc -> 0 .. NPROC + 1] /\ plocked' = plocked \cup {p}
      /\ state'[p] = st /\ chan'[p] = c
      /\ \A q \in Proc : q # p => state'[q] = state[q] /\ chan'[q] = chan[q]
      /\ UNCHANGED <<killed, pid, parent, nextpid>>
  BY <1>1, GoneOff
<1>3. TypeOK'
  <2>1. \A q \in Proc : pid'[q] < nextpid' /\ (pid'[q] = 0 <=> state'[q] = "UNUSED")
    BY <1>1, <1>2 DEF TypeOK
  <2> QED
    BY <1>1, <1>2, <2>1 DEF TypeOK, OpType, time
<1>4. Harts'
  BY <1>1, <1>2 DEF IInv, Harts, Free
<1>5. Clocked'
  BY <1>1, <1>2, ProcessConstants DEF IInv, Clocked, Free, time
<1>6. Places'
  <2> SUFFICES ASSUME NEW q \in Proc
               PROVE  /\ state'[q] \in {"UNUSED", "USED"} => op'[q].pc \in {"user", "dead"}
                      /\ state'[q] = "ZOMBIE" => op'[q].pc = "dead"
                      /\ state'[q] \in Alive => op'[q].pc # "dead"
                      /\ Holding(q)' => state'[q] = "RUNNING"
                      /\ state'[q] = "SLEEPING" => \/ op'[q].pc = "wait" /\ chan'[q] = q
                                                   \/ op'[q].pc = "renap" /\ chan'[q] = TicksChan
                      /\ op'[q].pc \in {"reparent", "wakeup", "zombie"} => q # InitProc
    BY DEF Places
  <2>1. CASE q = p
    <3>1. op'[p].pc \notin {"reparent", "wakeup", "zombie"}
      BY DEF Holding
    <3> QED
      BY <1>2, <2>1, <3>1 DEF Alive
  <2>2. CASE q # p
    <3>1. op'[q] = op[q] /\ state'[q] = state[q] /\ chan'[q] = chan[q]
      BY <1>2, <2>2 DEF Rest
    <3> QED
      BY <3>1 DEF IInv, Places, Holding
  <2> QED
    BY <2>1, <2>2
<1>7. Kids'
  <2> SUFFICES ASSUME NEW q \in Proc, op'[q].pc \in Forking
               PROVE  /\ op'[q].kid \in Proc /\ state'[op'[q].kid] = "USED"
                      /\ op'[q].pc = "ready" => parent'[op'[q].kid] = q
                      /\ \A r \in Proc : op'[r].pc \in Forking /\ op'[r].kid = op'[q].kid => r = q
    BY DEF Kids
  <2>1. \A r \in Proc : op'[r].pc \in Forking => op'[r] = op[r]
    BY DEF Rest
  <2>2. op[q].kid \in Proc /\ state[op[q].kid] = "USED" /\ (op[q].pc = "ready" => parent[op[q].kid] = q)
    BY <2>1 DEF IInv, Kids
  <2>3. \A r \in Proc : op[r].pc \in Forking /\ op[r].kid = op[q].kid => r = q
    BY <2>1 DEF IInv, Kids
  <2> QED
    BY <1>2, <2>1, <2>2, <2>3
<1> QED
  BY <1>3, <1>4, <1>5, <1>6, <1>7

\* exit() becomes a zombie: its parent does not sleep, and it leaves no children.
LEMMA ExitZombieKeeps == ASSUME IInv, NEW p \in Proc, Runs(p), ExitZombie(p) PROVE IInv'
<1>1. /\ state[p] = "RUNNING" /\ op[p].pc = "zombie" /\ GoOff(p, "ZOMBIE", None) /\ TypeOK
      /\ waitLocked' = FALSE /\ Goto(p, "dead") /\ UNCHANGED <<ticksLocked, cpu, time>>
      /\ cpu[ClockHart] = p => clock.pc = "off"
  BY Running DEF ExitZombie, At, IInv
<1>2. op' \in [Proc -> OpType] /\ Rest(p) /\ op'[p].pc = "dead"
  BY <1>1, GotoIs
<1>3. None \in 0 .. NPROC + 1 /\ ticksLocked' \in BOOLEAN
  BY <1>1, Slots DEF None, TypeOK
<1>4. TypeOK' /\ Harts' /\ Clocked' /\ Places' /\ Kids'
  BY <1>1, <1>2, <1>3, OffKeeps DEF Holding, Forking
<1>5. /\ state'[p] = "ZOMBIE" /\ chan'[p] = None /\ parent' = parent
      /\ \A q \in Proc : q # p => state'[q] = state[q] /\ chan'[q] = chan[q]
  BY <1>1, <1>3, GoneOff
<1>6. p # InitProc /\ parent[p] \in Proc \ {p} /\ Childless(p) /\ ~ Waits(parent[p])
  BY <1>1, ZombieParent DEF IInv, Places, Exits, ExitOk
<1>7. \A q \in Proc : op[q].pc \in WaitHolder => q = p
  BY <1>1 DEF IInv, WaitMutex, WaitHolder
<1>8. \A q \in Proc : op'[q].pc \notin WaitHolder
  BY <1>2, <1>7 DEF Rest, WaitHolder
<1>9. WaitMutex' /\ NapMutex'
  <2>1. WaitMutex'
    BY <1>8 DEF WaitMutex
  <2>2. NapMutex'
    BY <1>1, <1>2 DEF IInv, NapMutex, Rest, NapHolder, time
  <2> QED
    BY <2>1, <2>2
<1>10. Scans' /\ Exits'
  BY <1>8 DEF Scans, ScanOk, Exits, ExitOk, WaitHolder
<1>11. Woken'
  <2> SUFFICES ASSUME NEW a \in Proc, NEW b \in Proc, parent'[b] = a, state'[b] = "ZOMBIE", Waits(a)'
               PROVE  FALSE
    BY DEF Woken
  <2>1. a # p /\ Waits(a)
    BY <1>5 DEF Waits
  <2>2. CASE b = p
    BY <1>5, <1>6, <2>1, <2>2
  <2>3. CASE b # p
    <3>1. parent[b] = a /\ state[b] = "ZOMBIE"
      BY <1>5, <2>3
    <3>2. \A q \in Proc : op[q].pc # "wakeup"
      BY <1>1, <1>7 DEF WaitHolder
    <3> QED
      BY <2>1, <3>1, <3>2 DEF IInv, Woken
  <2> QED
    BY <2>2, <2>3
<1>12. Family'
  <2>1. state'[InitProc] \in Alive /\ parent'[InitProc] = None
    BY <1>5, <1>6, Slots DEF IInv, Family
  <2>2. ASSUME NEW q \in Proc \ {InitProc}, state'[q] \in Alive \cup {"ZOMBIE"}
        PROVE  parent'[q] \in Proc \ {q} /\ state'[parent'[q]] \in Alive
    <3>1. state[q] \in Alive \cup {"ZOMBIE"}
      BY <1>1, <1>5, <2>2 DEF Alive
    <3>2. parent[q] \in Proc \ {q} /\ state[parent[q]] \in Alive
      BY <3>1 DEF IInv, Family
    <3>3. parent[q] # p
      BY <1>6 DEF Childless
    <3> QED
      BY <1>5, <3>2, <3>3
  <2> QED
    BY <2>1, <2>2 DEF Family
<1>13. Naps'
  BY <1>1, <1>2, <1>5 DEF IInv, Naps, Rest, time
<1> QED
  BY <1>4, <1>9, <1>10, <1>11, <1>12, <1>13 DEF IInv

\* wait() goes to sleep before it releases wait_lock: it has seen no zombie child.
LEMMA WaitSleepKeeps == ASSUME IInv, NEW p \in Proc, Runs(p), WaitSleep(p) PROVE IInv'
<1>1. /\ state[p] = "RUNNING" /\ op[p].pc = "waitsleep" /\ GoOff(p, "SLEEPING", p) /\ TypeOK
      /\ waitLocked' = FALSE /\ Goto(p, "wait") /\ UNCHANGED <<ticksLocked, cpu, time>>
      /\ cpu[ClockHart] = p => clock.pc = "off"
  BY Running DEF WaitSleep, At, IInv
<1>2. op' \in [Proc -> OpType] /\ Rest(p) /\ op'[p].pc = "wait"
  BY <1>1, GotoIs
<1>3. p \in 0 .. NPROC + 1 /\ p # TicksChan /\ ticksLocked' \in BOOLEAN
  BY <1>1, Slots DEF TypeOK
<1>4. TypeOK' /\ Harts' /\ Clocked' /\ Places' /\ Kids'
  BY <1>1, <1>2, <1>3, OffKeeps DEF Holding, Forking
<1>5. /\ state'[p] = "SLEEPING" /\ chan'[p] = p /\ parent' = parent
      /\ \A q \in Proc : q # p => state'[q] = state[q] /\ chan'[q] = chan[q]
  BY <1>1, <1>3, GoneOff
<1>6. \A q \in Proc : parent[q] = p => state[q] # "ZOMBIE"
  BY <1>1 DEF IInv, Scans, ScanOk
<1>7. \A q \in Proc : op[q].pc \in WaitHolder => q = p
  BY <1>1 DEF IInv, WaitMutex, WaitHolder
<1>8. \A q \in Proc : op'[q].pc \notin WaitHolder
  BY <1>2, <1>7 DEF Rest, WaitHolder
<1>9. WaitMutex' /\ NapMutex'
  <2>1. WaitMutex'
    BY <1>8 DEF WaitMutex
  <2>2. NapMutex'
    BY <1>1, <1>2 DEF IInv, NapMutex, Rest, NapHolder, time
  <2> QED
    BY <2>1, <2>2
<1>10. Scans' /\ Exits'
  BY <1>8 DEF Scans, ScanOk, Exits, ExitOk, WaitHolder
<1>11. Woken'
  <2> SUFFICES ASSUME NEW a \in Proc, NEW b \in Proc, parent'[b] = a, state'[b] = "ZOMBIE", Waits(a)'
               PROVE  FALSE
    BY DEF Woken
  <2>1. parent[b] = a /\ state[b] = "ZOMBIE"
    BY <1>1, <1>5
  <2>2. CASE a = p
    BY <1>6, <2>1, <2>2
  <2>3. CASE a # p
    <3>1. Waits(a)
      BY <1>5, <2>3 DEF Waits
    <3>2. \A q \in Proc : op[q].pc # "wakeup"
      BY <1>1, <1>7 DEF WaitHolder
    <3> QED
      BY <2>1, <3>1, <3>2 DEF IInv, Woken
  <2> QED
    BY <2>2, <2>3
<1>12. Family'
  BY <1>1, <1>5, Slots DEF IInv, Family, Alive
<1>13. Naps'
  BY <1>1, <1>2, <1>3, <1>5 DEF IInv, Naps, Rest, time
<1> QED
  BY <1>4, <1>9, <1>10, <1>11, <1>12, <1>13 DEF IInv

\* Giving up a hart outside wait_lock, alive, not waiting for a child.
LEMMA OffDutyKeeps ==
    ASSUME IInv, NEW p \in Proc, NEW st \in {"RUNNABLE", "SLEEPING"}, NEW c \in 0 .. NPROC + 1,
           GoOff(p, st, c), state[p] = "RUNNING", UNCHANGED <<waitLocked, cpu, time>>,
           op[p].pc \notin WaitHolder, op' \in [Proc -> OpType], Rest(p), op'[p].pc \notin WaitHolder,
           ~ (st = "SLEEPING" /\ c = p)
    PROVE  WaitMutex' /\ Scans' /\ Exits' /\ Woken' /\ Family'
<1>1. /\ state'[p] = st /\ chan'[p] = c /\ parent' = parent
      /\ \A q \in Proc : q # p => state'[q] = state[q] /\ chan'[q] = chan[q]
  BY GoneOff DEF IInv
<1>2. \A q \in Proc : op'[q].pc \in WaitHolder => op'[q] = op[q]
  BY DEF Rest
<1>3. \A q \in Proc : /\ Waits(q)' => Waits(q)
                      /\ state'[q] = "ZOMBIE" => state[q] = "ZOMBIE"
                      /\ Childless(q)' <=> Childless(q)
  BY <1>1 DEF Waits, Childless
<1>4. WaitMutex'
  BY <1>2 DEF IInv, WaitMutex
<1>5. Scans'
  BY <1>1, <1>2, <1>3 DEF IInv, Scans, ScanOk, WaitHolder
<1>6. Exits'
  <2> SUFFICES ASSUME NEW q \in Proc, op'[q].pc \in WaitHolder
               PROVE  ExitOk(q)'
    BY DEF Exits, ExitOk, WaitHolder
  <2>1. ExitOk(q) /\ op'[q] = op[q]
    BY <1>2 DEF IInv, Exits
  <2>2. op[q].pc = "wakeup" => op[q].w \in Proc
    BY <2>1 DEF ExitOk
  <2>3. op[q].pc = "zombie" => parent[q] \in Proc
    BY ZombieParent
  <2> QED
    BY <1>1, <1>3, <2>1, <2>2, <2>3 DEF ExitOk
<1>7. Woken'
  <2> SUFFICES ASSUME NEW a \in Proc, NEW b \in Proc, parent'[b] = a, state'[b] = "ZOMBIE", Waits(a)'
               PROVE  \E r \in Proc : /\ op'[r].pc = "wakeup" /\ op'[r].then = "reparent"
                                      /\ op'[r].w = a /\ op'[r].j <= a
    BY DEF Woken
  <2>1. parent[b] = a /\ state[b] = "ZOMBIE" /\ Waits(a)
    BY <1>1, <1>3
  <2>2. PICK r \in Proc : op[r].pc = "wakeup" /\ op[r].then = "reparent" /\ op[r].w = a /\ op[r].j <= a
    BY <2>1 DEF IInv, Woken
  <2>3. r # p
    BY <2>2 DEF WaitHolder
  <2> QED
    BY <2>2, <2>3 DEF Rest
<1>8. Family'
  BY <1>1, Slots DEF IInv, Family, Alive
<1> QED
  BY <1>4, <1>5, <1>6, <1>7, <1>8

\* sys_sleep() goes to sleep before it releases tickslock: its pause is not over.
LEMMA NapSleepKeeps == ASSUME IInv, NEW p \in Proc, Runs(p), NapSleep(p) PROVE IInv'
<1>1. /\ state[p] = "RUNNING" /\ op[p].pc = "napsleep" /\ GoOff(p, "SLEEPING", TicksChan) /\ TypeOK
      /\ ticksLocked' = FALSE /\ op' = [op EXCEPT ![p] = [op[p] EXCEPT !.pc = "renap"]]
      /\ UNCHANGED <<waitLocked, cpu, time>>
      /\ cpu[ClockHart] = p => clock.pc = "off"
  BY Running DEF NapSleep, At, IInv
<1>2. op[p] \in OpType
  BY <1>1, OpTyped
<1>3. [op[p] EXCEPT !.pc = "renap"] \in OpType
  BY <1>2 DEF OpType
<1>4. op' \in [Proc -> OpType] /\ Rest(p) /\ op'[p] = [op[p] EXCEPT !.pc = "renap"]
  BY <1>1, <1>3, OpIs
<1>5. op'[p].pc = "renap" /\ op'[p].i = op[p].i /\ op'[p].w = op[p].w
  BY <1>2, <1>4 DEF OpType
<1>6. TicksChan \in 0 .. NPROC + 1 /\ TicksChan # p /\ waitLocked' \in BOOLEAN
  BY <1>1, Slots DEF TypeOK, TicksChan
<1>7. TypeOK' /\ Harts' /\ Clocked' /\ Places' /\ Kids'
  BY <1>1, <1>4, <1>5, <1>6, OffKeeps DEF Holding, Forking
<1>8. WaitMutex' /\ Scans' /\ Exits' /\ Woken' /\ Family'
  BY <1>1, <1>4, <1>5, <1>6, OffDutyKeeps DEF WaitHolder
<1>9. NapMutex'
  <2>1. \A q \in Proc : op[q].pc \in NapHolder => q = p
    BY <1>1 DEF IInv, NapMutex, NapHolder
  <2>2. \A q \in Proc : op'[q].pc \notin NapHolder
    BY <1>4, <1>5, <2>1 DEF Rest, NapHolder
  <2>3. clock.pc # "wakeup"
    BY <1>1 DEF IInv, NapMutex, NapHolder
  <2> QED
    BY <1>1, <2>2, <2>3 DEF NapMutex, time
<1>10. Naps'
  <2>1. \A q \in Proc : q # p => state'[q] = state[q] /\ chan'[q] = chan[q] /\ op'[q] = op[q]
    BY <1>1, <1>4, <1>6, GoneOff DEF Rest
  <2>2. (ticks - op'[p].i) % TICKS < op'[p].w
    BY <1>1, <1>5 DEF IInv, Naps
  <2> QED
    BY <1>1, <1>5, <2>1, <2>2 DEF IInv, Naps, time
<1> QED
  BY <1>7, <1>8, <1>9, <1>10 DEF IInv

\* yield()
LEMMA YieldKeeps == ASSUME IInv, NEW h \in Hart, Yield(h) PROVE IInv'
<1> DEFINE p == cpu[h]
<1>1. /\ p # None /\ Runs(p) /\ ~ Holding(p) /\ GoOff(p, "RUNNABLE", chan[p]) /\ TypeOK
      /\ UNCHANGED <<waitLocked, ticksLocked, cpu, op, time>>
  BY DEF Yield, IntrOn, IInv
<1>2. p \in Proc
  BY <1>1, StateTyped DEF Proc, None
<1> HIDE DEF p
<1>3. state[p] = "RUNNING" /\ op[p].pc # "dead" /\ (cpu[ClockHart] = p => clock.pc = "off")
  BY <1>1, <1>2, Running
<1>4. chan[p] \in 0 .. NPROC + 1 /\ op' \in [Proc -> OpType] /\ Rest(p)
      /\ waitLocked' \in BOOLEAN /\ ticksLocked' \in BOOLEAN
  BY <1>1, <1>2, StateTyped, OpTyped DEF Rest
<1>5. TypeOK' /\ Harts' /\ Clocked' /\ Places' /\ Kids'
  BY <1>1, <1>2, <1>3, <1>4, OffKeeps DEF Holding
<1>6. op[p].pc \notin WaitHolder
  BY <1>1 DEF Holding, WaitHolder
<1>7. WaitMutex' /\ Scans' /\ Exits' /\ Woken' /\ Family'
  BY <1>1, <1>2, <1>3, <1>4, <1>6, OffDutyKeeps
<1>8. NapMutex'
  BY <1>1 DEF IInv, NapMutex, time
<1>9. Naps'
  <2>1. /\ \A q \in Proc : q # p => state'[q] = state[q] /\ chan'[q] = chan[q]
        /\ state'[p] = "RUNNABLE"
    BY <1>1, <1>2, <1>4, GoneOff
  <2> QED
    BY <1>1, <2>1 DEF IInv, Naps, time
<1> QED
  BY <1>5, <1>7, <1>8, <1>9 DEF IInv

-----------------------------------------------------------------------------
(* The clock and the scheduler.                                            *)

\* A step of a hart or of the clock, not of a process, that puts nobody to sleep.
LEMMA CalmKeeps ==
    ASSUME IInv, UNCHANGED <<op, parent, waitLocked>>,
           \A q \in Proc : \/ state'[q] = state[q]
                           \/ state[q] \in Alive /\ state'[q] \in {"RUNNABLE", "RUNNING"},
           \A q \in Proc : Waits(q)' => Waits(q)
    PROVE  WaitMutex' /\ Scans' /\ Exits' /\ Woken' /\ Kids' /\ Family'
<1>1. \A q \in Proc : /\ state'[q] = "ZOMBIE" <=> state[q] = "ZOMBIE"
                      /\ state'[q] = "USED" <=> state[q] = "USED"
                      /\ state'[q] \in Alive <=> state[q] \in Alive
  BY DEF Alive
<1>2. WaitMutex'
  BY DEF IInv, WaitMutex
<1>3. Scans'
  BY <1>1 DEF IInv, Scans, ScanOk
<1>4. Exits'
  <2> SUFFICES ASSUME NEW q \in Proc
               PROVE  ExitOk(q)'
    BY DEF Exits
  <2>1. ExitOk(q)
    BY DEF IInv, Exits
  <2>2. op[q].pc = "wakeup" => op[q].w \in Proc
    BY <2>1 DEF ExitOk
  <2>3. op[q].pc = "zombie" => parent[q] \in Proc
    BY ZombieParent
  <2>4. Childless(q)' <=> Childless(q)
    BY DEF Childless
  <2> QED
    BY <2>1, <2>2, <2>3, <2>4 DEF ExitOk
<1>5. Woken'
  <2> SUFFICES ASSUME NEW a \in Proc, NEW b \in Proc, parent'[b] = a, state'[b] = "ZOMBIE", Waits(a)'
               PROVE  \E r \in Proc : /\ op'[r].pc = "wakeup" /\ op'[r].then = "reparent"
                                      /\ op'[r].w = a /\ op'[r].j <= a
    BY DEF Woken
  <2>1. parent[b] = a /\ state[b] = "ZOMBIE" /\ Waits(a)
    BY <1>1
  <2> QED
    BY <2>1 DEF IInv, Woken
<1>6. Kids'
  BY <1>1 DEF IInv, Kids
<1>7. Family'
  BY <1>1, Slots DEF IInv, Family
<1> QED
  BY <1>2, <1>3, <1>4, <1>5, <1>6, <1>7

\* clockintr() interrupts ClockHart.
LEMMA ClockStartKeeps == ASSUME IInv, ClockStart PROVE IInv'
<1>1. /\ clock.pc = "off" /\ IntrOn(ClockHart) /\ clock' = [pc |-> "lock", i |-> 1] /\ TypeOK
      /\ UNCHANGED <<table, locks, cpu, op, ticks>>
  BY DEF ClockStart, IInv
<1>2. UNCHANGED <<state, chan, killed, pid, parent, nextpid, plocked, waitLocked, ticksLocked>>
  BY <1>1 DEF table, locks
<1>3. WaitMutex' /\ Scans' /\ Exits' /\ Woken' /\ Kids' /\ Family'
  BY <1>1, <1>2, CalmKeeps DEF Waits
<1>4. TypeOK'
  <2>1. 1 \in 0 .. NPROC + 1
    BY Slots
  <2> QED
    BY <1>1, <1>2, <2>1 DEF TypeOK
<1>5. Harts' /\ Places'
  BY <1>1, <1>2 DEF IInv, Harts, Places, Free, Holding
<1>6. Clocked'
  BY <1>1, <1>2 DEF Clocked, IntrOn, Runs, Free
<1>7. NapMutex' /\ Naps'
  BY <1>1, <1>2 DEF IInv, NapMutex, Naps
<1> QED
  BY <1>3, <1>4, <1>5, <1>6, <1>7 DEF IInv

\* clockintr() advances ticks; all sleepers on it are still to be woken.
LEMMA ClockTickKeeps == ASSUME IInv, ClockTick PROVE IInv'
<1>1. /\ clock.pc = "lock" /\ ~ ticksLocked /\ ticksLocked' = TRUE /\ ticks' = (ticks + 1) % TICKS
      /\ clock' = [clock EXCEPT !.pc = "wakeup"] /\ TypeOK /\ clock.i = 1
      /\ UNCHANGED <<table, plocked, waitLocked, cpu, op>>
  BY DEF ClockTick, IInv, Clocked
<1>2. UNCHANGED <<state, chan, killed, pid, parent, nextpid>>
  BY <1>1 DEF table
<1>3. WaitMutex' /\ Scans' /\ Exits' /\ Woken' /\ Kids' /\ Family'
  BY <1>1, <1>2, CalmKeeps DEF Waits
<1>4. clock \in [pc : {"off", "lock", "wakeup"}, i : 0 .. NPROC + 1]
  BY <1>1 DEF TypeOK
<1>5. clock' \in [pc : {"off", "lock", "wakeup"}, i : 0 .. NPROC + 1] /\ clock'.pc = "wakeup" /\ clock'.i = 1
  BY <1>1, <1>4
<1>6. TypeOK'
  <2>1. ticks' \in 0 .. TICKS - 1
    <3>1. TICKS \in Nat /\ TICKS > 0 /\ ticks + 1 \in Int
      BY <1>1, ProcessConstants DEF TypeOK
    <3> QED
      BY <1>1, <3>1
  <2> QED
    BY <1>1, <1>2, <1>5, <2>1 DEF TypeOK
<1>7. Harts' /\ Places'
  BY <1>1, <1>2 DEF IInv, Harts, Places, Free, Holding
<1>8. Clocked'
  BY <1>1, <1>2, <1>5 DEF IInv, Clocked, Free
<1>9. \A q \in Proc : op[q].pc \notin NapHolder
  BY <1>1 DEF IInv, NapMutex
<1>10. NapMutex'
  <2>1. 1 \in 1 .. NPROC + 1
    BY Slots
  <2> QED
    BY <1>1, <1>5, <1>9, <2>1 DEF NapMutex
<1>11. Naps'
  BY <1>1, <1>2, <1>5, <1>9, Slots DEF Naps, NapHolder
<1> QED
  BY <1>3, <1>6, <1>7, <1>8, <1>10, <1>11 DEF IInv

\* A turn of wakeup(&ticks), which skips the process that it interrupted, or its end.
LEMMA ClockWakeupKeeps == ASSUME IInv, ClockWakeup PROVE IInv'
<1> DEFINE i == clock.i
<1>1. /\ clock.pc = "wakeup" /\ TypeOK /\ i \in 1 .. NPROC + 1
      /\ UNCHANGED <<chan, killed, pid, parent, nextpid, plocked, waitLocked, cpu, op, ticks>>
  BY DEF ClockWakeup, IInv, NapMutex
<1>2. \A q \in Proc : op[q].pc \notin NapHolder
  BY <1>1 DEF IInv, NapMutex
<1>3. clock \in [pc : {"off", "lock", "wakeup"}, i : 0 .. NPROC + 1] /\ ticksLocked
  BY <1>1 DEF TypeOK, IInv, NapMutex
\* What both outcomes have in common.
<1>4. ASSUME Stirs, clock' \in [pc : {"off", "lock", "wakeup"}, i : 0 .. NPROC + 1],
             ticksLocked' \in BOOLEAN, clock'.pc # "lock",
             NapMutex', Naps'
      PROVE  IInv'
  <2>1. \A q \in Proc : state'[q] = state[q] \/ (state[q] = "SLEEPING" /\ state'[q] = "RUNNABLE")
    BY <1>4 DEF Stirs
  <2>2. \A q \in Proc : Waits(q)' => Waits(q)
    BY <1>1, <2>1 DEF Waits
  <2>3. WaitMutex' /\ Scans' /\ Exits' /\ Woken' /\ Kids' /\ Family'
    BY <1>1, <2>1, <2>2, CalmKeeps DEF Alive
  <2>4. TypeOK'
    BY <1>1, <1>4, <2>1 DEF TypeOK, Stirs, Started
  <2>5. \A h \in Hart : cpu[h] # None => cpu[h] \in Proc
    BY <1>1, StateTyped DEF Proc, None
  <2>6. Harts'
    BY <1>1, <2>1, <2>5 DEF IInv, Harts, Free
  <2>7. Clocked'
    BY <1>1, <1>4, <2>1, <2>5, ProcessConstants DEF IInv, Clocked, Free
  <2>8. Places'
    BY <1>1, <2>1 DEF IInv, Places, Holding, Alive
  <2> QED
    BY <1>4, <2>3, <2>4, <2>6, <2>7, <2>8 DEF IInv
<1>5. CASE i > NPROC
  <2>1. clock' = [pc |-> "off", i |-> 0] /\ ticksLocked' = FALSE /\ UNCHANGED state
    BY <1>5 DEF ClockWakeup
  <2>2. clock' \in [pc : {"off", "lock", "wakeup"}, i : 0 .. NPROC + 1]
    <3>1. 0 \in 0 .. NPROC + 1
      BY Slots
    <3> QED
      BY <2>1, <3>1
  <2>3. NapMutex'
    BY <1>1, <1>2, <2>1 DEF NapMutex
  <2>4. Naps'
    <3>1. \A q \in Proc : ~ i <= q
      BY <1>1, <1>5, Slots
    <3> QED
      BY <1>1, <1>2, <2>1, <3>1 DEF IInv, Naps, NapHolder
  <2> QED
    BY <1>1, <1>4, <2>1, <2>2, <2>3, <2>4, StillStirs
<1>6. CASE ~ i > NPROC
  <2>1. /\ clock' = [clock EXCEPT !.i = clock.i + 1] /\ UNCHANGED ticksLocked
        /\ IF i = cpu[ClockHart] THEN UNCHANGED state ELSE WakeIf(i, TicksChan)
    BY <1>6 DEF ClockWakeup
  <2>2. i \in Proc /\ i + 1 \in 1 .. NPROC + 1 /\ i + 1 \in 0 .. NPROC + 1
    BY <1>1, <1>6, Slots DEF Proc
  <2>3. /\ clock' \in [pc : {"off", "lock", "wakeup"}, i : 0 .. NPROC + 1]
        /\ clock'.pc = "wakeup" /\ clock'.i = i + 1
    BY <1>1, <1>3, <2>1, <2>2
  <2>4. Stirs /\ (chan[i] = TicksChan => state'[i] # "SLEEPING")
    <3>1. CASE i = cpu[ClockHart]
      <4>1. state[i] = "RUNNING" /\ UNCHANGED state
        BY <1>1, <2>1, <2>2, <3>1, Slots DEF IInv, Clocked
      <4> QED
        BY <1>1, <4>1, StillStirs
    <3>2. CASE i # cpu[ClockHart]
      BY <1>1, <2>1, <2>2, <3>2, WakeStirs
    <3> QED
      BY <3>1, <3>2
  <2> HIDE DEF i
  <2>5. NapMutex'
    BY <1>1, <1>2, <1>3, <2>1, <2>2, <2>3 DEF NapMutex
  <2>6. Naps'
    <3>1. \A q \in Proc : q # i /\ i <= q => i + 1 <= q
      BY <2>2, Slots
    <3>2. \A q \in Proc : op[q].pc # "napsleep"
      BY <1>2 DEF NapHolder
    <3> SUFFICES ASSUME NEW q \in Proc, state'[q] = "SLEEPING", chan'[q] = TicksChan
                 PROVE  (ticks - op[q].i) % TICKS < op[q].w \/ i + 1 <= q
      BY <1>1, <2>3, <3>2 DEF Naps
    <3>3. q # i /\ state[q] = "SLEEPING" /\ chan[q] = TicksChan
      BY <1>1, <2>4 DEF Stirs
    <3>4. (ticks - op[q].i) % TICKS < op[q].w \/ i <= q
      BY <3>3 DEF IInv, Naps, i
    <3> QED
      BY <3>1, <3>3, <3>4
  <2> QED
    BY <1>3, <1>4, <2>1, <2>3, <2>4, <2>5, <2>6
<1> QED
  BY <1>5, <1>6

\* scheduler() takes a process whose lock is free, so nobody else is on its stack.
LEMMA SwitchToKeeps == ASSUME IInv, NEW h \in Hart, NEW p \in Proc, SwitchTo(h, p) PROVE IInv'
<1>1. /\ Idle(h) /\ Free(p) /\ state[p] = "RUNNABLE" /\ TypeOK
      /\ state' = [state EXCEPT ![p] = "RUNNING"] /\ plocked' = plocked \cup {p}
      /\ cpu' = [cpu EXCEPT ![h] = p]
      /\ UNCHANGED <<chan, killed, pid, parent, nextpid, waitLocked, ticksLocked, op, time>>
  BY DEF SwitchTo, IInv
<1>2. state'[p] = "RUNNING" /\ \A q \in Proc : q # p => state'[q] = state[q]
  BY <1>1, StateTyped
<1>3. cpu'[h] = p /\ \A g \in Hart : g # h => cpu'[g] = cpu[g]
  BY <1>1, StateTyped
<1>4. \A g \in Hart : cpu[g] # p
  BY <1>1, Slots DEF IInv, Harts
<1>5. \A g \in Hart : cpu[g] # None => cpu[g] \in Proc
  BY <1>1, StateTyped DEF Proc, None
<1>6. \A q \in Proc : Waits(q)' => Waits(q)
  BY <1>1, <1>2 DEF Waits
<1>7. WaitMutex' /\ Scans' /\ Exits' /\ Woken' /\ Kids' /\ Family'
  BY <1>1, <1>2, <1>6, CalmKeeps DEF Alive
<1>8. TypeOK'
  <2>1. state' \in [Proc -> {"UNUSED", "USED", "ZOMBIE"} \cup Alive]
    BY <1>1, StateTyped DEF Alive
  <2>2. cpu' \in [Hart -> 0 .. NPROC]
    <3>1. p \in 0 .. NPROC
      BY Slots
    <3> QED
      BY <1>1, <3>1, StateTyped
  <2>3. \A q \in Proc : pid'[q] < nextpid' /\ (pid'[q] = 0 <=> state'[q] = "UNUSED")
    BY <1>1, <1>2 DEF TypeOK
  <2> QED
    BY <1>1, <2>1, <2>2, <2>3 DEF TypeOK, time
<1>9. Harts'
  <2>1. \A f, g \in Hart : cpu'[f] = cpu'[g] /\ cpu'[f] # None => f = g
    BY <1>3, <1>4 DEF IInv, Harts
  <2>2. \A q \in Proc : state'[q] = "RUNNING" => \E g \in Hart : cpu'[g] = q
    <3> SUFFICES ASSUME NEW q \in Proc, state'[q] = "RUNNING", q # p
                 PROVE  \E g \in Hart : cpu'[g] = q
      BY <1>3
    <3>1. PICK g \in Hart : cpu[g] = q
      BY <1>2 DEF IInv, Harts
    <3>2. g # h
      BY <1>1, <3>1, Slots DEF Idle
    <3> QED
      BY <1>3, <3>1, <3>2
  <2>3. ASSUME NEW g \in Hart, cpu'[g] # None
        PROVE  /\ state'[cpu'[g]] \notin {"UNUSED", "USED"}
               /\ cpu'[g] \notin plocked' => state'[cpu'[g]] = "RUNNING"
    <3>1. CASE g = h
      BY <1>2, <1>3, <3>1
    <3>2. CASE g # h
      BY <1>1, <1>2, <1>3, <1>4, <1>5, <2>3, <3>2 DEF IInv, Harts, Free
    <3> QED
      BY <3>1, <3>2
  <2> QED
    BY <2>1, <2>2, <2>3 DEF Harts, Free
<1>10. Clocked'
  <2>1. CASE h = ClockHart
    BY <1>1, <2>1 DEF IInv, Clocked, Idle, time
  <2>2. CASE h # ClockHart
    BY <1>1, <1>2, <1>3, <1>4, <1>5, <2>2, ProcessConstants DEF IInv, Clocked, Free, time
  <2> QED
    BY <2>1, <2>2
<1>11. Places'
  BY <1>1, <1>2 DEF IInv, Places, Holding, Alive
<1>12. NapMutex' /\ Naps'
  BY <1>1, <1>2 DEF IInv, NapMutex, Naps, time
<1> QED
  BY <1>7, <1>8, <1>9, <1>10, <1>11, <1>12 DEF IInv

\* A process that the scheduler has chosen runs.
LEMMA ResumeKeeps == ASSUME IInv, NEW p \in Proc, Resume(p) PROVE IInv'
<1>1. /\ state[p] = "RUNNING" /\ p \in plocked /\ TypeOK
      /\ chan' = [chan EXCEPT ![p] = None] /\ plocked' = plocked \ {p}
      /\ UNCHANGED <<state, killed, pid, parent, nextpid, waitLocked, ticksLocked, cpu, op, time>>
  BY DEF Resume, IInv
<1>2. \A q \in Proc : q # p => chan'[q] = chan[q]
  BY <1>1, StateTyped
<1>3. \A q \in Proc : Waits(q)' => Waits(q)
  BY <1>1, <1>2 DEF Waits
<1>4. WaitMutex' /\ Scans' /\ Exits' /\ Woken' /\ Kids' /\ Family'
  BY <1>1, <1>3, CalmKeeps
<1>5. TypeOK'
  <2>1. chan' \in [Proc -> 0 .. NPROC + 1]
    <3>1. None \in 0 .. NPROC + 1
      BY Slots DEF None
    <3> QED
      BY <1>1, <3>1, StateTyped
  <2> QED
    BY <1>1, <2>1 DEF TypeOK, time
<1>6. Harts' /\ Clocked'
  BY <1>1, ProcessConstants DEF IInv, Harts, Clocked, Free, time
<1>7. Places'
  BY <1>1, <1>2 DEF IInv, Places, Holding
<1>8. NapMutex' /\ Naps'
  BY <1>1, <1>2 DEF IInv, NapMutex, Naps, time
<1> QED
  BY <1>4, <1>5, <1>6, <1>7, <1>8 DEF IInv

\* The scheduler is off the stack of a process that gave up its hart.
LEMMA SwitchBackKeeps == ASSUME IInv, NEW h \in Hart, SwitchBack(h) PROVE IInv'
<1> DEFINE p == cpu[h]
<1>1. /\ p # None /\ state[p] # "RUNNING" /\ TypeOK
      /\ cpu' = [cpu EXCEPT ![h] = None] /\ plocked' = plocked \ {p}
      /\ UNCHANGED <<table, waitLocked, ticksLocked, op, time>>
  BY DEF SwitchBack, IInv
<1>2. p \in Proc /\ \A g \in Hart : g # h => cpu[g] # p
  BY <1>1, StateTyped DEF Proc, None, IInv, Harts
<1> HIDE DEF p
<1>3. UNCHANGED <<state, chan, killed, pid, parent, nextpid>>
  BY <1>1 DEF table
<1>4. cpu'[h] = None /\ \A g \in Hart : g # h => cpu'[g] = cpu[g]
  BY <1>1, StateTyped
<1>5. WaitMutex' /\ Scans' /\ Exits' /\ Woken' /\ Kids' /\ Family'
  BY <1>1, <1>3, CalmKeeps DEF Waits
<1>6. TypeOK'
  <2>1. cpu' \in [Hart -> 0 .. NPROC]
    <3>1. None \in 0 .. NPROC
      BY Slots DEF None
    <3> QED
      BY <1>1, <3>1, StateTyped
  <2> QED
    BY <1>1, <1>3, <2>1 DEF TypeOK, time
<1>7. Harts'
  <2>1. \A f, g \in Hart : cpu'[f] = cpu'[g] /\ cpu'[f] # None => f = g
    BY <1>4 DEF IInv, Harts
  <2>2. \A q \in Proc : state'[q] = "RUNNING" => \E g \in Hart : cpu'[g] = q
    BY <1>1, <1>3, <1>4 DEF IInv, Harts, p
  <2>3. \A g \in Hart : cpu'[g] # None => /\ state'[cpu'[g]] \notin {"UNUSED", "USED"}
                                          /\ cpu'[g] \notin plocked' => state'[cpu'[g]] = "RUNNING"
    BY <1>1, <1>2, <1>3, <1>4 DEF IInv, Harts, Free
  <2> QED
    BY <2>1, <2>2, <2>3 DEF Harts, Free
<1>8. Clocked'
  BY <1>1, <1>2, <1>3, <1>4, ProcessConstants DEF IInv, Clocked, Free, time
<1>9. Places'
  BY <1>1, <1>3 DEF IInv, Places, Holding
<1>10. NapMutex' /\ Naps'
  BY <1>1, <1>3 DEF IInv, NapMutex, Naps, time
<1> QED
  BY <1>5, <1>6, <1>7, <1>8, <1>9, <1>10 DEF IInv

-----------------------------------------------------------------------------
(* The theorems.                                                           *)

\* userinit() has made the first process.
LEMMA InitKeeps == ASSUME Init PROVE IInv
<1>1. /\ state \in [Proc -> {"UNUSED", "USED", "ZOMBIE"} \cup Alive]
      /\ \A p \in Proc : state[p] = IF p = InitProc THEN "RUNNABLE" ELSE "UNUSED"
  BY DEF Init, Alive
<1>2. /\ pid \in [Proc -> Nat] /\ nextpid = 2
      /\ \A p \in Proc : pid[p] = IF p = InitProc THEN 1 ELSE 0
  BY DEF Init
<1>3. op \in [Proc -> OpType] /\ \A p \in Proc : op[p].pc = "user"
  <2>1. User \in OpType /\ User.pc = "user"
    BY UserTyped DEF User
  <2>2. op = [p \in Proc |-> User]
    BY DEF Init
  <2> HIDE DEF User
  <2> QED
    BY <2>1, <2>2
<1>4. /\ cpu \in [Hart -> 0 .. NPROC] /\ \A h \in Hart : cpu[h] = None
      /\ clock \in [pc : {"off", "lock", "wakeup"}, i : 0 .. NPROC + 1] /\ clock.pc = "off"
  <2>1. None \in 0 .. NPROC /\ 0 \in 0 .. NPROC + 1
    BY Slots DEF None
  <2>2. cpu = [h \in Hart |-> None] /\ clock = [pc |-> "off", i |-> 0]
    BY DEF Init
  <2> QED
    BY <2>1, <2>2
<1>5. /\ chan \in [Proc -> 0 .. NPROC + 1] /\ parent \in [Proc -> 0 .. NPROC]
      /\ \A p \in Proc : parent[p] = None
  <2>1. None \in 0 .. NPROC + 1 /\ None \in 0 .. NPROC
    BY Slots DEF None
  <2> QED
    BY <2>1 DEF Init
<1>6. TypeOK
  <2>1. \A p \in Proc : pid[p] < nextpid /\ (pid[p] = 0 <=> state[p] = "UNUSED")
    BY <1>1, <1>2
  <2>2. killed \in [Proc -> BOOLEAN] /\ plocked \subseteq Proc /\ waitLocked \in BOOLEAN
        /\ ticksLocked \in BOOLEAN
    BY DEF Init
  <2>3. ticks \in 0 .. TICKS - 1
    BY ProcessConstants DEF Init
  <2> QED
    BY <1>1, <1>2, <1>3, <1>4, <1>5, <2>1, <2>2, <2>3 DEF TypeOK, OpType
<1>7. Harts /\ Clocked
  BY <1>1, <1>4, ProcessConstants DEF Harts, Clocked
<1>8. Places /\ Kids
  BY <1>1, <1>3 DEF Places, Kids, Holding, Forking, Alive
<1>9. WaitMutex /\ NapMutex
  BY <1>3, <1>4 DEF WaitMutex, NapMutex, WaitHolder, NapHolder
<1>10. Scans /\ Exits
  BY <1>3 DEF Scans, ScanOk, Exits, ExitOk
<1>11. Woken /\ Naps
  BY <1>1, <1>3 DEF Woken, Naps
<1>12. Family
  BY <1>1, <1>5, Slots DEF Family, Alive
<1> QED
  BY <1>6, <1>7, <1>8, <1>9, <1>10, <1>11, <1>12 DEF IInv

\* Every step keeps the invariant.
LEMMA NextKeeps == ASSUME IInv, [Next]_vars PROVE IInv'
<1>1. CASE UNCHANGED vars
  BY <1>1 DEF vars, table, locks, time, IInv, TypeOK, Harts, Clocked, Places, Kids, WaitMutex,
     NapMutex, Scans, ScanOk, Exits, ExitOk, Woken, Family, Naps, Free, Holding, Waits, Childless
<1>2. ASSUME NEW p \in Proc, Runs(p), SysCall(p) \/ Kill(p) \/ Fault(p)
      PROVE  IInv'
  BY <1>2, SysCallKeeps, KillKeeps, FaultKeeps
<1>3. ASSUME NEW p \in Proc, Runs(p), KernelStep(p)
      PROVE  IInv'
  BY <1>3, CheckKilledKeeps, AllocProcKeeps, NobodyKeeps, ForkFailsKeeps, ForkCopiedKeeps,
     ForkAdoptKeeps, ForkReadyKeeps, ExitLockKeeps, ReparentKeeps, WakeupParentKeeps,
     WakeupStepKeeps, ExitZombieKeeps, WaitLockStepKeeps, WaitScanKeeps, WaitReapKeeps,
     WaitDoneKeeps, WaitSleepKeeps, KillStepKeeps, NapStartKeeps, NapTestKeeps, NapSleepKeeps,
     NapWokenKeeps, SpinKeeps DEF KernelStep
<1>4. ASSUME NEW p \in Proc, Resume(p)
      PROVE  IInv'
  BY <1>4, ResumeKeeps
<1>5. ASSUME NEW h \in Hart, Yield(h) \/ SwitchBack(h) \/ \E p \in Proc : SwitchTo(h, p)
      PROVE  IInv'
  BY <1>5, YieldKeeps, SwitchBackKeeps, SwitchToKeeps
<1>6. ASSUME ClockStart \/ ClockTick \/ ClockWakeup
      PROVE  IInv'
  BY <1>6, ClockStartKeeps, ClockTickKeeps, ClockWakeupKeeps
<1> QED
  BY <1>1, <1>2, <1>3, <1>4, <1>5, <1>6 DEF Next, Step

\* It holds all the time.
LEMMA ProcInvariant == Spec => []IInv
<1>1. Init => IInv
  BY InitKeeps
<1>2. IInv /\ [Next]_vars => IInv'
  BY NextKeeps
<1> QED
  BY <1>1, <1>2, PTL DEF Spec

\* The process table, the locks and the harts hold what proc.c can put there; a slot has a
\* pid exactly while it is in use, and its pid is older than nextpid.
THEOREM ProcTypeOK == Spec => []TypeOK
<1>1. IInv => TypeOK
  BY DEF IInv
<1> QED
  BY <1>1, ProcInvariant, PTL

\* A process runs on one hart at most, scheduler() finds it there, and nobody frees or
\* reuses a slot while a hart is on its kernel stack.
THEOREM ProcOneHart == Spec => []OneHart
<1>1. ASSUME IInv PROVE OneHart
  <2> SUFFICES ASSUME NEW p \in Proc
               PROVE  LET on == {h \in Hart : cpu[h] = p} IN
                      /\ Cardinality(on) <= 1
                      /\ state[p] = "RUNNING" => on # {}
                      /\ on # {} /\ Free(p) => state[p] = "RUNNING"
                      /\ state[p] \in {"UNUSED", "USED"} => on = {}
    BY DEF OneHart
  <2> DEFINE on == {h \in Hart : cpu[h] = p}
  <2>1. p # None
    BY Slots
  <2>2. Cardinality(on) <= 1
    <3>1. CASE on = {}
      BY <3>1, FS_EmptySet
    <3>2. ASSUME NEW h \in on PROVE Cardinality(on) <= 1
      <4>1. on = {h}
        BY <1>1, <2>1, <3>2 DEF IInv, Harts
      <4>2. Cardinality({h}) = 1
        BY FS_Singleton
      <4> HIDE DEF on
      <4> QED
        BY <4>1, <4>2
    <3> HIDE DEF on
    <3> QED
      BY <3>1, <3>2
  <2>3. /\ state[p] = "RUNNING" => on # {}
        /\ on # {} /\ Free(p) => state[p] = "RUNNING"
        /\ state[p] \in {"UNUSED", "USED"} => on = {}
    BY <1>1, <2>1 DEF IInv, Harts
  <2> QED
    BY <2>2, <2>3
<1>2. IInv => OneHart
  BY <1>1
<1> QED
  BY <1>2, ProcInvariant, PTL

\* proc.c, "helps ensure that wakeups of wait()ing parents are not lost": outside
\* wait_lock no parent sleeps over a zombie child, outside tickslock no process over a pause
\* that has ended.
THEOREM ProcNoLostWakeup == Spec => []NoLostWakeup
<1>1. ASSUME IInv PROVE NoLostWakeup
  <2>1. ASSUME ~ waitLocked, NEW p \in Proc, NEW q \in Proc, parent[q] = p, state[q] = "ZOMBIE"
        PROVE  ~ (state[p] = "SLEEPING" /\ chan[p] = p)
    <3>1. \A r \in Proc : op[r].pc # "wakeup"
      BY <1>1, <2>1 DEF IInv, WaitMutex, WaitHolder
    <3> QED
      BY <1>1, <2>1, <3>1 DEF IInv, Woken, Waits
  <2>2. ASSUME ~ ticksLocked, NEW p \in Proc, state[p] = "SLEEPING", chan[p] = TicksChan
        PROVE  (ticks - op[p].i) % TICKS < op[p].w
    BY <1>1, <2>2 DEF IInv, NapMutex, Naps
  <2> QED
    BY <2>1, <2>2 DEF NoLostWakeup
<1>2. IInv => NoLostWakeup
  BY <1>1
<1> QED
  BY <1>2, ProcInvariant, PTL

\* exit() leaves no orphan and fork() gives no child to a parent that is gone.
THEOREM ProcFamilyTree == Spec => []FamilyTree
<1>1. IInv => FamilyTree
  BY DEF IInv, Family, FamilyTree
<1> QED
  BY <1>1, ProcInvariant, PTL

-----------------------------------------------------------------------------
(* kill() and pids.                                                        *)

\* No process enters kill().
NoNewKill == \A q \in Proc : op'[q].pc = "kill" => op[q].pc = "kill" /\ op'[q].w = op[q].w

\* A step of p to a place outside kill().
LEMMA PlaceNoKill ==
    ASSUME TypeOK, NEW p \in Proc, NEW o, op' = [op EXCEPT ![p] = o], o.pc # "kill"
    PROVE  NoNewKill
BY OpTyped DEF NoNewKill

\* The same, from what the lemmas above say of op.
LEMMA MoveNoKill ==
    ASSUME TypeOK, NEW p \in Proc, Rest(p), op'[p].pc # "kill"
    PROVE  NoNewKill
BY DEF NoNewKill, Rest

\* A step that marks nobody and frees nobody.
LEMMA KillQuiet ==
    ASSUME TypeOK, TypeOK', KillInv, UNCHANGED <<killed, pid, victims>>, NoNewKill
    PROVE  KillInv'
<1>1. \A q \in Proc : state'[q] = "UNUSED" <=> state[q] = "UNUSED"
  BY DEF TypeOK
<1> QED
  BY <1>1 DEF KillInv, KilledByPid, NoNewKill

\* freeproc() clears the mark with the pid.
LEMMA FreeProcKill ==
    ASSUME TypeOK, KillInv, NEW i \in Proc, FreeProc(i), UNCHANGED victims, NoNewKill
    PROVE  KillInv'
<1>1. /\ state'[i] = "UNUSED" /\ killed'[i] = FALSE
      /\ \A q \in Proc : q # i => state'[q] = state[q] /\ pid'[q] = pid[q] /\ killed'[q] = killed[q]
  BY StateTyped DEF FreeProc
<1> QED
  BY <1>1 DEF KillInv, KilledByPid, NoNewKill

\* allocproc() does not clear it: a free slot has none.
LEMMA AllocProcKill ==
    ASSUME TypeOK, KillInv, NEW p \in Proc, AllocProc(p)
    PROVE  KillInv'
<1> DEFINE i == op[p].i
<1>1. i \in Proc /\ op[p].pc = "alloc" /\ UNCHANGED <<killed, victims>>
  BY DEF AllocProc, At
<1>2. CASE state[i] = "UNUSED"
  <2>1. /\ state' = [state EXCEPT ![i] = "USED"] /\ pid' = [pid EXCEPT ![i] = nextpid]
        /\ op' = [op EXCEPT ![p] = [User EXCEPT !.pc = "copy", !.kid = i]]
    BY <1>2 DEF AllocProc
  <2>2. [User EXCEPT !.pc = "copy", !.kid = i].pc # "kill"
    BY DEF User
  <2>3. NoNewKill
    BY <2>1, <2>2, PlaceNoKill
  <2> HIDE DEF i
  <2>4. /\ state'[i] = "USED" /\ ~ killed[i]
        /\ \A q \in Proc : q # i => state'[q] = state[q] /\ pid'[q] = pid[q]
    BY <1>1, <1>2, <2>1, StateTyped DEF KillInv
  <2> QED
    BY <1>1, <2>3, <2>4 DEF KillInv, KilledByPid, NoNewKill
<1>3. CASE state[i] # "UNUSED"
  <2>1. NextI(p) /\ UNCHANGED <<state, pid>>
    BY <1>3 DEF AllocProc
  <2>2. op[p] \in OpType
    BY OpTyped
  <2>3. Rest(p) /\ op'[p].pc = "alloc"
    BY <1>1, <2>1, <2>2, NextIIs DEF OpType
  <2>4. NoNewKill
    BY <2>3, MoveNoKill
  <2> QED
    BY <1>1, <2>1, <2>4 DEF KillInv, KilledByPid, NoNewKill
<1> QED
  BY <1>2, <1>3

\* kill() finds the pid it was called with, and that is no free slot's.
LEMMA KillStepKill ==
    ASSUME 0 \notin KillPids, TypeOK, KillInv, NEW p \in Proc, KillStep(p)
    PROVE  KillInv'
<1> DEFINE i == op[p].i
<1>1. i \in Proc /\ op[p].pc = "kill" /\ UNCHANGED <<pid, victims>>
  BY DEF KillStep, At
<1>2. CASE pid[i] = op[p].w
  <2>1. /\ killed' = [killed EXCEPT ![i] = TRUE] /\ Goto(p, "ret")
        /\ state' = IF state[i] = "SLEEPING" THEN [state EXCEPT ![i] = "RUNNABLE"] ELSE state
    BY <1>2 DEF KillStep, Return
  <2>2. NoNewKill
    BY <2>1, GotoIs, MoveNoKill
  <2>3. op[p].w \in victims /\ op[p].w # 0
    BY <1>1 DEF KillInv
  <2>4. state[i] # "UNUSED" /\ pid[i] \in victims
    BY <1>1, <1>2, <2>3 DEF TypeOK
  <2>5. \A q \in Proc : state'[q] = "UNUSED" <=> state[q] = "UNUSED"
    BY <1>1, <2>1, StateTyped
  <2>6. \A q \in Proc : q # i => killed'[q] = killed[q]
    BY <1>1, <2>1, StateTyped
  <2> HIDE DEF i
  <2> QED
    BY <1>1, <2>2, <2>4, <2>5, <2>6 DEF KillInv, KilledByPid, NoNewKill
<1>3. CASE pid[i] # op[p].w
  <2>1. NextI(p) /\ UNCHANGED <<killed, state>>
    BY <1>3 DEF KillStep
  <2>2. op[p] \in OpType
    BY OpTyped
  <2>3. Rest(p) /\ op'[p].pc = "kill" /\ op'[p].w = op[p].w
    BY <1>1, <2>1, <2>2, NextIIs DEF OpType
  <2> QED
    BY <1>1, <2>1, <2>3 DEF KillInv, KilledByPid, Rest
<1> QED
  BY <1>2, <1>3

\* What begins in usertrap().
LEMMA UserKill ==
    ASSUME TypeOK, TypeOK', KillInv, NEW p \in Proc, Runs(p), SysCall(p) \/ Kill(p) \/ Fault(p)
    PROVE  KillInv'
<1>1. CASE SysCall(p)
  <2>1. NoNewKill
    <3>1. CASE Loop(p, "alloc")
      BY <3>1, LoopIs, MoveNoKill
    <3>2. CASE Goto(p, "exit") \/ Goto(p, "wait")
      BY <3>2, GotoIs, MoveNoKill
    <3>3. ASSUME NEW n \in 1 .. MaxNap, op' = [op EXCEPT ![p] = [User EXCEPT !.pc = "nap", !.w = n]]
          PROVE  NoNewKill
      <4>1. [User EXCEPT !.pc = "nap", !.w = n].pc # "kill"
        BY DEF User
      <4> QED
        BY <3>3, <4>1, PlaceNoKill
    <3> QED
      BY <1>1, <3>1, <3>2, <3>3 DEF SysCall
  <2> QED
    BY <1>1, <2>1, KillQuiet DEF SysCall, table
<1>2. CASE Kill(p)
  <2>1. PICK k \in KillPids : /\ op' = [op EXCEPT ![p] = [User EXCEPT !.pc = "kill", !.i = 1, !.w = k]]
                              /\ victims' = victims \cup {k}
    BY <1>2 DEF Kill
  <2>2. [User EXCEPT !.pc = "kill", !.i = 1, !.w = k].w = k
    BY DEF User
  <2>3. op'[p].w = k /\ Rest(p)
    BY <2>1, <2>2, OpTyped DEF Rest
  <2>4. UNCHANGED <<state, killed, pid>>
    BY <1>2 DEF Kill, table
  <2> QED
    BY <2>1, <2>3, <2>4 DEF KillInv, KilledByPid, Rest
<1>3. CASE Fault(p)
  <2>1. /\ killed' = [killed EXCEPT ![p] = TRUE] /\ victims' = victims \cup {pid[p]}
        /\ Goto(p, "ret") /\ UNCHANGED <<state, pid>>
    BY <1>3 DEF Fault, Return
  <2>2. NoNewKill
    BY <2>1, GotoIs, MoveNoKill
  <2>3. \A q \in Proc : q # p => killed'[q] = killed[q]
    BY <2>1, StateTyped
  <2>4. state[p] # "UNUSED"
    BY DEF Runs
  <2> QED
    BY <2>1, <2>2, <2>3, <2>4 DEF KillInv, KilledByPid, NoNewKill
<1> QED
  BY <1>1, <1>2, <1>3

\* What a process does inside the kernel.
LEMMA KernelKill ==
    ASSUME 0 \notin KillPids, TypeOK, TypeOK', KillInv, NEW p \in Proc, KernelStep(p)
    PROVE  KillInv'
<1>1. op[p] \in OpType
  BY OpTyped
\* Goto().
<1>2. ASSUME NEW l \in {"user", "ret", "exit", "dead", "wait", "waitsleep"}, Goto(p, l)
      PROVE  NoNewKill
  BY <1>2, GotoIs, MoveNoKill
\* Another place, with changes to its variables.
<1>3. ASSUME NEW o, op' = [op EXCEPT ![p] = o], o.pc # "kill"
      PROVE  NoNewKill
  BY <1>3, PlaceNoKill
<1>4. CASE CheckKilled(p) \/ NoProc(p) \/ KillNone(p) \/ WaitDone(p) \/ ExitZombie(p) \/ WaitSleep(p)
  <2>1. UNCHANGED <<killed, pid, victims>>
    BY <1>4 DEF CheckKilled, NoProc, KillNone, WaitDone, ExitZombie, WaitSleep, GoOff, table
  <2>2. \E l \in {"user", "ret", "exit", "dead", "wait", "waitsleep"} : Goto(p, l)
    BY <1>4 DEF CheckKilled, NoProc, KillNone, WaitDone, ExitZombie, WaitSleep, Return
  <2> QED
    BY <1>2, <2>1, <2>2, KillQuiet
<1>5. CASE ExitLock(p) \/ WaitLock(p)
  <2>1. UNCHANGED <<killed, pid, victims>>
    BY <1>5 DEF ExitLock, WaitLock, table
  <2>2. Rest(p) /\ op'[p].pc # "kill"
    BY <1>5, LoopIs DEF ExitLock, WaitLock
  <2> QED
    BY <2>1, <2>2, KillQuiet, MoveNoKill
<1>6. CASE ForkFails(p) \/ WaitReap(p)
  <2>1. NoNewKill /\ UNCHANGED victims
    BY <1>2, <1>6 DEF ForkFails, WaitReap, Return
  <2>2. CASE UNCHANGED table
    BY <2>1, <2>2, KillQuiet DEF table
  <2>3. ASSUME NEW i, FreeProc(i)
        PROVE  KillInv'
    <3>1. CASE i \in Proc
      BY <2>1, <2>3, <3>1, FreeProcKill
    <3>2. CASE i \notin Proc
      <4>1. UNCHANGED <<killed, pid>>
        BY <2>3, <3>2, StateTyped DEF FreeProc
      <4> QED
        BY <2>1, <4>1, KillQuiet
    <3> QED
      BY <3>1, <3>2
  <2> QED
    BY <1>6, <2>2, <2>3 DEF ForkFails, WaitReap
<1>7. CASE ForkCopied(p) \/ NapSleep(p) \/ Spin(p)
  <2>1. UNCHANGED <<killed, pid, victims>>
    BY <1>7 DEF ForkCopied, NapSleep, Spin, GoOff, table
  <2>2. CASE ForkCopied(p)
    <3>1. op' = [op EXCEPT ![p] = [op[p] EXCEPT !.pc = "adopt"]] /\ [op[p] EXCEPT !.pc = "adopt"].pc # "kill"
      BY <1>1, <2>2 DEF ForkCopied, OpType
    <3> QED
      BY <1>3, <2>1, <3>1, KillQuiet
  <2>3. CASE NapSleep(p)
    <3>1. op' = [op EXCEPT ![p] = [op[p] EXCEPT !.pc = "renap"]] /\ [op[p] EXCEPT !.pc = "renap"].pc # "kill"
      BY <1>1, <2>3 DEF NapSleep, OpType
    <3> QED
      BY <1>3, <2>1, <3>1, KillQuiet
  <2>4. CASE Spin(p)
    <3>1. op' = [op EXCEPT ![p] = [op[p] EXCEPT !.spin = TRUE]]
      BY <2>4 DEF Spin
    <3>2. Rest(p) /\ op'[p].pc = op[p].pc /\ op'[p].w = op[p].w
      BY <1>1, <3>1, OpTyped DEF OpType, Rest
    <3>3. UNCHANGED <<state, killed, pid>>
      BY <2>4 DEF Spin, table
    <3> QED
      BY <1>1, <2>1, <3>2, <3>3 DEF KillInv, KilledByPid, Rest
  <2> QED
    BY <1>7, <2>2, <2>3, <2>4
<1>8. CASE ForkAdopt(p)
  <2>1. /\ op' = [op EXCEPT ![p] = [op[p] EXCEPT !.pc = "ready", !.spin = FALSE]]
        /\ [op[p] EXCEPT !.pc = "ready", !.spin = FALSE].pc # "kill"
    BY <1>1, <1>8 DEF ForkAdopt, OpType
  <2> QED
    BY <1>3, <1>8, <2>1, KillQuiet DEF ForkAdopt
<1>9. CASE ForkReady(p)
  <2>1. \A q \in Proc : op'[q].pc = "kill" => op'[q] = op[q]
    <3> DEFINE i == op[p].kid
               a == [User EXCEPT !.pc = "ret"]
    <3>1. op' = [op EXCEPT ![p] = a, ![i] = User]
      BY <1>9 DEF ForkReady
    <3>2. a.pc # "kill" /\ User.pc # "kill"
      BY DEF User
    <3> HIDE DEF i, a, User
    <3> QED
      BY <3>1, <3>2, OpTyped
  <2> QED
    BY <1>9, <2>1, KillQuiet DEF ForkReady, NoNewKill
<1>10. CASE Reparent(p)
  <2>1. NoNewKill
    <3>1. CASE parent[op[p].i] = p
      <4> DEFINE o == [op[p] EXCEPT !.pc = "wakeup", !.i = op[p].i + 1, !.j = 1, !.w = InitProc,
                                    !.then = "reparent"]
      <4>1. op' = [op EXCEPT ![p] = o]
        BY <1>10, <3>1 DEF Reparent
      <4>2. o.pc # "kill"
        BY <1>1 DEF OpType
      <4> HIDE DEF o
      <4> QED
        BY <1>3, <4>1, <4>2
    <3>2. CASE parent[op[p].i] # p
      <4>1. NextI(p) /\ op[p].pc = "reparent"
        BY <1>10, <3>2 DEF Reparent, At
      <4>2. Rest(p) /\ op'[p].pc = "reparent"
        BY <1>1, <4>1, NextIIs DEF OpType
      <4> QED
        BY <4>2, MoveNoKill
    <3> QED
      BY <3>1, <3>2
  <2> QED
    BY <1>10, <2>1, KillQuiet DEF Reparent
<1>11. CASE WakeupParent(p)
  <2> DEFINE o == [op[p] EXCEPT !.pc = "wakeup", !.j = 1, !.w = parent[p], !.then = "zombie"]
  <2>1. op' = [op EXCEPT ![p] = o] /\ UNCHANGED <<killed, pid, victims>>
    BY <1>11 DEF WakeupParent, Wakeup, table
  <2>2. o.pc # "kill"
    BY <1>1 DEF OpType
  <2> HIDE DEF o
  <2> QED
    BY <1>3, <2>1, <2>2, KillQuiet
<1>12. CASE WakeupStep(p)
  <2>1. NoNewKill
    <3>1. CASE op[p].j > NPROC
      <4> DEFINE o == [op[p] EXCEPT !.pc = op[p].then, !.j = 0, !.w = 0, !.then = "user"]
      <4>1. op' = [op EXCEPT ![p] = o]
        BY <1>12, <3>1 DEF WakeupStep
      <4>2. o.pc # "kill"
        BY <1>1 DEF OpType
      <4> HIDE DEF o
      <4> QED
        BY <1>3, <4>1, <4>2
    <3>2. CASE ~ op[p].j > NPROC
      <4>1. op' = [op EXCEPT ![p] = [op[p] EXCEPT !.j = op[p].j + 1]] /\ op[p].pc = "wakeup"
        BY <1>12, <3>2 DEF WakeupStep, At
      <4>2. [op[p] EXCEPT !.j = op[p].j + 1].pc # "kill"
        BY <1>1, <4>1 DEF OpType
      <4> QED
        BY <1>3, <4>1, <4>2
    <3> QED
      BY <3>1, <3>2
  <2> QED
    BY <1>12, <2>1, KillQuiet DEF WakeupStep
<1>13. CASE WaitScan(p)
  <2>1. /\ op' = [op EXCEPT ![p] = [op[p] EXCEPT !.i = op[p].i + 1,
                                                 !.kids = op[p].kids \/ parent[op[p].i] = p]]
        /\ op[p].pc = "scan" /\ UNCHANGED <<killed, pid, victims>>
    BY <1>13 DEF WaitScan, At, table
  <2> DEFINE k == op[p].kids \/ parent[op[p].i] = p
  <2>2. k \in BOOLEAN /\ op[p].i + 1 \in Nat
    BY <1>1 DEF OpType
  <2>3. [op[p] EXCEPT !.i = op[p].i + 1, !.kids = k].pc = "scan"
    <3> HIDE DEF k
    <3> QED
      BY ZenonT(30), <1>1, <2>1, <2>2, ScannedTyped
  <2> HIDE DEF k
  <2>4. NoNewKill
    BY <1>3, <2>1, <2>3 DEF k
  <2> QED
    BY <2>1, <2>4, KillQuiet
<1>14. CASE NapStart(p)
  <2> DEFINE o == [op[p] EXCEPT !.pc = "napping", !.i = ticks, !.spin = FALSE]
  <2>1. op' = [op EXCEPT ![p] = o] /\ UNCHANGED <<killed, pid, victims>>
    BY <1>14 DEF NapStart, table
  <2>2. o.pc # "kill"
    BY <1>1 DEF OpType
  <2> HIDE DEF o
  <2> QED
    BY <1>3, <2>1, <2>2, KillQuiet
<1>15. CASE NapWoken(p)
  <2> DEFINE o == [op[p] EXCEPT !.pc = "napping", !.spin = FALSE]
  <2>1. op' = [op EXCEPT ![p] = o] /\ UNCHANGED <<killed, pid, victims>>
    BY <1>15 DEF NapWoken, table
  <2>2. o.pc # "kill"
    BY <1>1 DEF OpType
  <2> HIDE DEF o
  <2> QED
    BY <1>3, <2>1, <2>2, KillQuiet
<1>16. CASE NapTest(p)
  <2>1. UNCHANGED <<killed, pid, victims>>
    BY <1>16 DEF NapTest, table
  <2>2. CASE Goto(p, "ret")
    BY <1>2, <2>1, <2>2, KillQuiet
  <2>3. CASE op' = [op EXCEPT ![p] = [op[p] EXCEPT !.pc = "napsleep"]]
    <3>1. [op[p] EXCEPT !.pc = "napsleep"].pc # "kill"
      BY <1>1 DEF OpType
    <3> QED
      BY <1>3, <2>1, <2>3, <3>1, KillQuiet
  <2> QED
    BY <1>16, <2>2, <2>3 DEF NapTest, Return
<1> QED
  BY <1>4, <1>5, <1>6, <1>7, <1>8, <1>9, <1>10, <1>11, <1>12, <1>13, <1>14, <1>15, <1>16,
     AllocProcKill, KillStepKill DEF KernelStep

\* Every step keeps KillInv.
LEMMA KillNext ==
    ASSUME 0 \notin KillPids, TypeOK, TypeOK', KillInv, [Next]_vars
    PROVE  KillInv'
<1>1. ASSUME UNCHANGED <<op, killed, pid, victims>>
      PROVE  KillInv'
  BY <1>1, KillQuiet DEF NoNewKill
<1>2. CASE UNCHANGED vars
  BY <1>1, <1>2 DEF vars, table
<1>3. ASSUME NEW p \in Proc, Runs(p), SysCall(p) \/ Kill(p) \/ Fault(p)
      PROVE  KillInv'
  BY <1>3, UserKill
<1>4. ASSUME NEW p \in Proc, KernelStep(p)
      PROVE  KillInv'
  BY <1>4, KernelKill
<1>5. ASSUME NEW p \in Proc, Resume(p)
      PROVE  KillInv'
  BY <1>1, <1>5 DEF Resume
<1>6. ASSUME NEW h \in Hart, Yield(h) \/ SwitchBack(h) \/ \E p \in Proc : SwitchTo(h, p)
      PROVE  KillInv'
  BY <1>1, <1>6 DEF Yield, GoOff, SwitchBack, SwitchTo, table
<1>7. ASSUME ClockStart \/ ClockTick \/ ClockWakeup
      PROVE  KillInv'
  BY <1>1, <1>7 DEF ClockStart, ClockTick, ClockWakeup, table
<1> QED
  BY <1>2, <1>3, <1>4, <1>5, <1>6, <1>7 DEF Next, Step

\* proc.c, "Kill the process with the given pid": whoever is marked has, for as long as it
\* has the slot, a pid that kill() was called with (or it had a fault), as long as nobody
\* calls kill(0), which marks free slots.
THEOREM ProcKilledByPid == 0 \notin KillPids => (Spec => []KilledByPid)
<1> SUFFICES ASSUME 0 \notin KillPids PROVE Spec => []KilledByPid
  OBVIOUS
<1>1. Init => KillInv
  <2> SUFFICES ASSUME Init PROVE KillInv
    OBVIOUS
  <2>1. \A p \in Proc : ~ killed[p]
    BY DEF Init
  <2>2. \A p \in Proc : op[p].pc = "user"
    BY DEF Init, User
  <2> QED
    BY <2>1, <2>2 DEF KillInv, KilledByPid
<1>2. TypeOK /\ TypeOK' /\ KillInv /\ [Next]_vars => KillInv'
  BY KillNext
<1>3. KillInv => KilledByPid
  BY DEF KillInv
<1> QED
  BY <1>1, <1>2, <1>3, ProcTypeOK, PTL DEF Spec
=============================================================================
