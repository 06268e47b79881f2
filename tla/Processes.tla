------------------------------ MODULE Processes ------------------------------
(***************************************************************************)
(* The process table of proc.c on several harts: fork, exit, wait, kill,   *)
(* the pause of sys_sleep(), sleep() and wakeup(), and the scheduler.      *)
(*                                                                         *)
(* A step takes at most one spinlock: what the code does between acquiring *)
(* a lock and acquiring the next is one step, so all the interleavings the *)
(* locks allow remain.  A p->lock that stays held across steps is in       *)
(* plocked: from the change of p->state in sleep(), yield() and exit()     *)
(* until the scheduler is off p's stack, from the scheduler's choice of p  *)
(* until p runs, and from allocproc() to the end of the copy in fork().    *)
(***************************************************************************)
EXTENDS Integers, FiniteSets

CONSTANTS
    NPROC,      \* slots of the process table
    Hart,       \* harts that run scheduler()
    ClockHart,  \* hart 0, whose timer interrupt runs clockintr()
    Calls,      \* the system calls that processes make
    KillPids,   \* the arguments of kill()
    MaxPid,     \* bound: no fork() once nextpid is larger
    TICKS,      \* ticks is an unsigned integer modulo TICKS (2^32)
    MaxNap      \* bound: the largest argument of sleep()

ASSUME ProcessConstants ==
    /\ NPROC \in Nat \ {0} /\ ClockHart \in Hart /\ IsFiniteSet(Hart)
    /\ Calls \subseteq {"fork", "exit", "wait", "kill", "sleep", "fault"}
    /\ KillPids \subseteq Nat /\ MaxPid \in Nat \ {0}
    /\ TICKS \in Nat \ {0} /\ MaxNap \in 0 .. TICKS - 1

Proc      == 1 .. NPROC
InitProc  == 1               \* initproc, which userinit() puts into proc[0]
None      == 0               \* no process, no channel
TicksChan == NPROC + 1       \* &ticks; a process that waits sleeps on itself

VARIABLES
    state,       \* p->state
    chan,        \* p->chan
    killed,      \* p->killed
    pid,         \* p->pid
    parent,      \* p->parent
    nextpid,     \* nextpid
    plocked,     \* the processes whose p->lock is held from step to step
    waitLocked,  \* wait_lock is held
    ticksLocked, \* tickslock is held
    cpu,         \* the process on whose kernel stack a hart is; None: scheduler()
    op,          \* where a process is, and its local variables
    ticks,       \* ticks
    clock,       \* where clockintr() is, on ClockHart
    victims      \* history: the pids that kill() was called with

table == <<state, chan, killed, pid, parent, nextpid>>
locks == <<plocked, waitLocked, ticksLocked>>
time  == <<ticks, clock>>
vars  == <<table, locks, cpu, op, time, victims>>

Free(i) == i \notin plocked       \* acquire(&proc[i].lock) does not spin
At(p, l) == op[p].pc = l

User        == [pc |-> "user", i |-> 0, j |-> 0, kid |-> 0, kids |-> FALSE, w |-> 0,
                then |-> "user", spin |-> FALSE]
Goto(p, l)  == op' = [op EXCEPT ![p] = [User EXCEPT !.pc = l]]
Loop(p, l)  == op' = [op EXCEPT ![p] = [@ EXCEPT !.pc = l, !.i = 1, !.spin = FALSE]]
NextI(p)    == op' = [op EXCEPT ![p] = [@ EXCEPT !.i = op[p].i + 1, !.spin = FALSE]]
Return(p)   == Goto(p, "ret")
\* wakeup(c), and on to l.
Wakeup(p, c, l) == op' = [op EXCEPT ![p] =
                            [@ EXCEPT !.pc = "wakeup", !.j = 1, !.w = c, !.then = l]]

\* Mutant: freeproc() leaves p->killed.
MutFreeProc(q) ==
    /\ state' = [state EXCEPT ![q] = "UNUSED"] /\ pid' = [pid EXCEPT ![q] = 0]
    /\ parent' = [parent EXCEPT ![q] = None] /\ chan' = [chan EXCEPT ![q] = None]
    /\ UNCHANGED <<killed, nextpid>>

\* freeproc(q)
FreeProc(q) ==
    /\ state' = [state EXCEPT ![q] = "UNUSED"] /\ pid' = [pid EXCEPT ![q] = 0]
    /\ parent' = [parent EXCEPT ![q] = None] /\ chan' = [chan EXCEPT ![q] = None]
    /\ killed' = [killed EXCEPT ![q] = FALSE]
    /\ UNCHANGED nextpid

\* The first half of sleep(c, lk), yield() and exit(): p->lock is taken, the
\* state set, and sched() is about to switch to the scheduler.
GoOff(p, st, c) ==
    /\ Free(p) /\ plocked' = plocked \cup {p}
    /\ state' = [state EXCEPT ![p] = st] /\ chan' = [chan EXCEPT ![p] = c]
    /\ UNCHANGED <<killed, pid, parent, nextpid>>
-----------------------------------------------------------------------------
(* usertrap(): into the kernel and back.                                   *)

\* System calls.  usertrap() has just found that p is not killed.
InUser(p) == At(p, "user") /\ Free(p) /\ ~ killed[p]

SysCall(p) ==
    /\ InUser(p)
    /\ \/ "fork" \in Calls /\ nextpid <= MaxPid /\ Loop(p, "alloc")
       \/ "exit" \in Calls /\ p # InitProc /\ Goto(p, "exit")
       \/ "wait" \in Calls /\ Goto(p, "wait")
       \/ "sleep" \in Calls /\ \E n \in 1 .. MaxNap :
                op' = [op EXCEPT ![p] = [User EXCEPT !.pc = "nap", !.w = n]]
    /\ UNCHANGED <<table, locks, cpu, time, victims>>

Kill(p) ==
    /\ InUser(p) /\ "kill" \in Calls
    /\ \E k \in KillPids :
          /\ op' = [op EXCEPT ![p] = [User EXCEPT !.pc = "kill", !.i = 1, !.w = k]]
          /\ victims' = victims \cup {k}
    /\ UNCHANGED <<table, locks, cpu, time>>

\* A fault of the user program: setkilled(p).
Fault(p) ==
    /\ At(p, "user") /\ Free(p) /\ "fault" \in Calls /\ p # InitProc
    /\ killed' = [killed EXCEPT ![p] = TRUE]
    /\ victims' = victims \cup {pid[p]}
    /\ Return(p)
    /\ UNCHANGED <<state, chan, pid, parent, nextpid, locks, cpu, time>>

\* usertrap() tests killed(p) at entry and before it returns.
CheckKilled(p) ==
    /\ op[p].pc \in {"user", "ret"} /\ Free(p) /\ (killed[p] \/ At(p, "ret"))
    /\ Goto(p, IF killed[p] THEN "exit" ELSE "user")
    /\ UNCHANGED <<table, locks, cpu, time, victims>>

-----------------------------------------------------------------------------
(* fork()                                                                  *)

\* One turn of the loop of allocproc().
AllocProc(p) ==
    LET i == op[p].i IN
    /\ At(p, "alloc") /\ i \in Proc /\ Free(i)
    /\ IF state[i] = "UNUSED"
       THEN /\ state' = [state EXCEPT ![i] = "USED"]
            /\ pid' = [pid EXCEPT ![i] = nextpid] /\ nextpid' = nextpid + 1
            /\ plocked' = plocked \cup {i}
            /\ op' = [op EXCEPT ![p] = [User EXCEPT !.pc = "copy", !.kid = i]]
       ELSE NextI(p) /\ UNCHANGED <<state, pid, nextpid, plocked>>
    /\ UNCHANGED <<chan, killed, parent, waitLocked, ticksLocked, cpu, time, victims>>

NoProc(p) ==
    /\ At(p, "alloc") /\ op[p].i > NPROC
    /\ Return(p)
    /\ UNCHANGED <<table, locks, cpu, time, victims>>

\* No memory for the child: freeproc(np); release(&np->lock).
ForkFails(p) ==
    /\ At(p, "copy")
    /\ FreeProc(op[p].kid) /\ plocked' = plocked \ {op[p].kid}
    /\ Return(p)
    /\ UNCHANGED <<waitLocked, ticksLocked, cpu, time, victims>>

\* The child is complete: release(&np->lock).
ForkCopied(p) ==
    /\ At(p, "copy")
    /\ plocked' = plocked \ {op[p].kid}
    /\ op' = [op EXCEPT ![p].pc = "adopt"]
    /\ UNCHANGED <<table, waitLocked, ticksLocked, cpu, time, victims>>

ForkAdopt(p) ==
    /\ At(p, "adopt") /\ ~ waitLocked
    /\ parent' = [parent EXCEPT ![op[p].kid] = p]
    /\ op' = [op EXCEPT ![p] = [@ EXCEPT !.pc = "ready", !.spin = FALSE]]
    /\ UNCHANGED <<state, chan, killed, pid, nextpid, locks, cpu, time, victims>>

\* The child will start in forkret(), and that in user space.
ForkReady(p) ==
    /\ At(p, "ready") /\ Free(op[p].kid)
    /\ state' = [state EXCEPT ![op[p].kid] = "RUNNABLE"]
    /\ op' = [op EXCEPT ![p] = [User EXCEPT !.pc = "ret"], ![op[p].kid] = User]
    /\ UNCHANGED <<chan, killed, pid, parent, nextpid, locks, cpu, time, victims>>

-----------------------------------------------------------------------------
(* exit(), reparent(), wakeup()                                            *)

\* The files are closed.  acquire(&wait_lock).  initproc panics ("init exiting")
\* and goes no further.
ExitLock(p) ==
    /\ At(p, "exit") /\ p # InitProc /\ ~ waitLocked
    /\ waitLocked' = TRUE
    /\ Loop(p, "reparent")
    /\ UNCHANGED <<table, plocked, ticksLocked, cpu, time, victims>>

\* Mutant: zombies are not passed on.
MutReparent(p) ==
    LET i == op[p].i IN
    /\ At(p, "reparent") /\ i \in Proc
    /\ IF parent[i] = p /\ state[i] # "ZOMBIE"
       THEN /\ parent' = [parent EXCEPT ![i] = InitProc]
            /\ op' = [op EXCEPT ![p] = [@ EXCEPT !.pc = "wakeup", !.i = i + 1, !.j = 1,
                                                 !.w = InitProc, !.then = "reparent"]]
       ELSE NextI(p) /\ UNCHANGED parent
    /\ UNCHANGED <<state, chan, killed, pid, nextpid, locks, cpu, time, victims>>

\* One turn of the loop of reparent().
Reparent(p) ==
    LET i == op[p].i IN
    /\ At(p, "reparent") /\ i \in Proc
    /\ IF parent[i] = p
       THEN /\ parent' = [parent EXCEPT ![i] = InitProc]
            /\ op' = [op EXCEPT ![p] = [@ EXCEPT !.pc = "wakeup", !.i = i + 1, !.j = 1,
                                                 !.w = InitProc, !.then = "reparent"]]
       ELSE NextI(p) /\ UNCHANGED parent
    /\ UNCHANGED <<state, chan, killed, pid, nextpid, locks, cpu, time, victims>>

WakeupParent(p) ==
    /\ At(p, "reparent") /\ op[p].i > NPROC
    /\ Wakeup(p, parent[p], "zombie")
    /\ UNCHANGED <<table, locks, cpu, time, victims>>

\* What wakeup(c) does to process j, whose lock it takes.
WakeIf(j, c) == state' = IF state[j] = "SLEEPING" /\ chan[j] = c
                         THEN [state EXCEPT ![j] = "RUNNABLE"] ELSE state

\* One turn of the loop of wakeup(), or its end.
WakeupStep(p) ==
    LET o == op[p] IN
    /\ At(p, "wakeup")
    /\ IF o.j > NPROC
       THEN op' = [op EXCEPT ![p] = [@ EXCEPT !.pc = o.then, !.j = 0, !.w = 0,
                                              !.then = "user"]]
            /\ UNCHANGED state
       ELSE /\ IF o.j = p THEN UNCHANGED state
                          ELSE Free(o.j) /\ WakeIf(o.j, o.w)
            /\ op' = [op EXCEPT ![p].j = @ + 1]
    /\ UNCHANGED <<chan, killed, pid, parent, nextpid, locks, cpu, time, victims>>

ExitZombie(p) ==
    /\ At(p, "zombie") /\ GoOff(p, "ZOMBIE", None)
    /\ waitLocked' = FALSE /\ Goto(p, "dead")
    /\ UNCHANGED <<ticksLocked, cpu, time, victims>>

-----------------------------------------------------------------------------
(* wait()                                                                  *)

WaitLock(p) ==
    /\ At(p, "wait") /\ ~ waitLocked
    /\ waitLocked' = TRUE
    /\ Loop(p, "scan")
    /\ UNCHANGED <<table, plocked, ticksLocked, cpu, time, victims>>

\* One turn of the loop over the table.
WaitScan(p) ==
    LET i == op[p].i IN
    /\ At(p, "scan") /\ i \in Proc
    /\ parent[i] = p => Free(i) /\ state[i] # "ZOMBIE"
    /\ op' = [op EXCEPT ![p] = [@ EXCEPT !.i = i + 1,
                                         !.kids = op[p].kids \/ parent[i] = p]]
    /\ UNCHANGED <<table, locks, cpu, time, victims>>

\* Mutant: wait() looks again if the status cannot be copied out.
MutWaitReap(p) ==
    LET i == op[p].i IN
    /\ At(p, "scan") /\ i \in Proc
    /\ parent[i] = p /\ Free(i) /\ state[i] = "ZOMBIE"
    /\ \/ FreeProc(i) /\ Return(p)
       \/ UNCHANGED table /\ Goto(p, "wait")
    /\ waitLocked' = FALSE
    /\ UNCHANGED <<plocked, ticksLocked, cpu, time, victims>>

\* A zombie child: freeproc(), unless its status cannot be copied out.
WaitReap(p) ==
    LET i == op[p].i IN
    /\ At(p, "scan") /\ i \in Proc
    /\ parent[i] = p /\ Free(i) /\ state[i] = "ZOMBIE"
    /\ FreeProc(i) \/ UNCHANGED table
    /\ waitLocked' = FALSE /\ Return(p)
    /\ UNCHANGED <<plocked, ticksLocked, cpu, time, victims>>

\* Mutant: sleep() releases wait_lock before it has p->lock.
MutWaitDone(p) ==
    /\ At(p, "scan") /\ op[p].i > NPROC /\ (op[p].kids => Free(p))
    /\ IF ~ op[p].kids \/ killed[p] THEN Return(p) ELSE Goto(p, "waitsleep")
    /\ waitLocked' = FALSE
    /\ UNCHANGED <<table, plocked, ticksLocked, cpu, time, victims>>

\* Mutant: wait() looks again without giving up wait_lock.
MutWaitBusy(p) ==
    /\ At(p, "scan") /\ op[p].i > NPROC /\ (op[p].kids => Free(p))
    /\ IF ~ op[p].kids \/ killed[p]
       THEN Return(p) /\ waitLocked' = FALSE
       ELSE Loop(p, "scan") /\ UNCHANGED waitLocked
    /\ UNCHANGED <<table, plocked, ticksLocked, cpu, time, victims>>

\* No zombie: return -1 if there is nothing to wait for, else sleep.  A kill()
\* after the test of killed(p) is not noticed before the next wakeup.
WaitDone(p) ==
    /\ At(p, "scan") /\ op[p].i > NPROC /\ (op[p].kids => Free(p))
    /\ IF ~ op[p].kids \/ killed[p]
       THEN Return(p) /\ waitLocked' = FALSE
       ELSE Goto(p, "waitsleep") /\ UNCHANGED waitLocked
    /\ UNCHANGED <<table, plocked, ticksLocked, cpu, time, victims>>

\* sleep(p, &wait_lock); when it returns, wait() scans again.
WaitSleep(p) ==
    /\ At(p, "waitsleep") /\ GoOff(p, "SLEEPING", p)
    /\ waitLocked' = FALSE /\ Goto(p, "wait")
    /\ UNCHANGED <<ticksLocked, cpu, time, victims>>

-----------------------------------------------------------------------------
(* kill()                                                                  *)

\* Mutant: kill() makes any process run that does not.
MutKillStep(p) ==
    LET i == op[p].i IN
    /\ At(p, "kill") /\ i \in Proc /\ Free(i)
    /\ IF pid[i] = op[p].w
       THEN /\ killed' = [killed EXCEPT ![i] = TRUE]
            /\ state' = IF state[i] # "RUNNING" THEN [state EXCEPT ![i] = "RUNNABLE"]
                                                ELSE state
            /\ Return(p)
       ELSE NextI(p) /\ UNCHANGED <<killed, state>>
    /\ UNCHANGED <<chan, pid, parent, nextpid, locks, cpu, time, victims>>

\* Mutant: kill() leaves its victim asleep.
MutKillAsleep(p) ==
    LET i == op[p].i IN
    /\ At(p, "kill") /\ i \in Proc /\ Free(i)
    /\ IF pid[i] = op[p].w
       THEN killed' = [killed EXCEPT ![i] = TRUE] /\ Return(p)
       ELSE NextI(p) /\ UNCHANGED killed
    /\ UNCHANGED <<state, chan, pid, parent, nextpid, locks, cpu, time, victims>>

\* One turn of the loop of kill().
KillStep(p) ==
    LET i == op[p].i IN
    /\ At(p, "kill") /\ i \in Proc /\ Free(i)
    /\ IF pid[i] = op[p].w
       THEN /\ killed' = [killed EXCEPT ![i] = TRUE]
            /\ state' = IF state[i] = "SLEEPING" THEN [state EXCEPT ![i] = "RUNNABLE"]
                                                 ELSE state
            /\ Return(p)
       ELSE NextI(p) /\ UNCHANGED <<killed, state>>
    /\ UNCHANGED <<chan, pid, parent, nextpid, locks, cpu, time, victims>>

KillNone(p) ==
    /\ At(p, "kill") /\ op[p].i > NPROC
    /\ Return(p)
    /\ UNCHANGED <<table, locks, cpu, time, victims>>

-----------------------------------------------------------------------------
(* sys_sleep()                                                             *)

\* acquire(&tickslock); ticks0 = ticks, kept in op[p].i.
NapStart(p) ==
    /\ At(p, "nap") /\ ~ ticksLocked
    /\ ticksLocked' = TRUE
    /\ op' = [op EXCEPT ![p] = [@ EXCEPT !.pc = "napping", !.i = ticks, !.spin = FALSE]]
    /\ UNCHANGED <<table, plocked, waitLocked, cpu, time, victims>>

NapOver(p) == (ticks - op[p].i) % TICKS >= op[p].w

\* Mutant: tickslock is released before sleep() has p->lock.
MutNapTest(p) ==
    /\ At(p, "napping") /\ (NapOver(p) \/ Free(p))
    /\ ticksLocked' = FALSE
    /\ IF NapOver(p) \/ killed[p] THEN Return(p) ELSE op' = [op EXCEPT ![p].pc = "napsleep"]
    /\ UNCHANGED <<table, plocked, waitLocked, cpu, time, victims>>

\* The test of the while loop, and killed().
NapTest(p) ==
    /\ At(p, "napping") /\ (NapOver(p) \/ Free(p))
    /\ IF NapOver(p) \/ killed[p]
       THEN Return(p) /\ ticksLocked' = FALSE
       ELSE op' = [op EXCEPT ![p].pc = "napsleep"] /\ UNCHANGED ticksLocked
    /\ UNCHANGED <<table, plocked, waitLocked, cpu, time, victims>>

\* sleep(&ticks, &tickslock)
NapSleep(p) ==
    /\ At(p, "napsleep") /\ GoOff(p, "SLEEPING", TicksChan)
    /\ ticksLocked' = FALSE
    /\ op' = [op EXCEPT ![p].pc = "renap"]
    /\ UNCHANGED <<waitLocked, cpu, time, victims>>

NapWoken(p) ==
    /\ At(p, "renap") /\ ~ ticksLocked
    /\ ticksLocked' = TRUE
    /\ op' = [op EXCEPT ![p] = [@ EXCEPT !.pc = "napping", !.spin = FALSE]]
    /\ UNCHANGED <<table, plocked, waitLocked, cpu, time, victims>>

-----------------------------------------------------------------------------
(* Interrupts, and the scheduler.                                          *)

\* acquire() finds the lock taken: p spins, with interrupts off.
Spin(p) ==
    /\ ~ op[p].spin /\ (At(p, "exit") => p # InitProc)
    /\ \/ waitLocked /\ op[p].pc \in {"exit", "adopt", "wait"}
       \/ ticksLocked /\ op[p].pc \in {"nap", "renap"}
       \/ op[p].i \in plocked /\ op[p].pc \in {"alloc", "kill"}
    /\ op' = [op EXCEPT ![p].spin = TRUE]
    /\ UNCHANGED <<table, locks, cpu, time, victims>>

\* p holds wait_lock, tickslock or the lock of its new child.
Holding(p) == op[p].pc \in {"scan", "waitsleep", "reparent", "wakeup", "zombie",
                            "napping", "napsleep", "copy"}

\* p executes: it is on a hart, has released its own lock, and clockintr() has
\* not interrupted it.
Runs(p) == /\ state[p] = "RUNNING" /\ Free(p)
           /\ \E h \in Hart : cpu[h] = p /\ (h = ClockHart => clock.pc = "off")

\* Interrupts are off while a spinlock is held (push_off()).
IntrOn(h) == cpu[h] # None => Runs(cpu[h]) /\ ~ Holding(cpu[h])
                               /\ ~ op[cpu[h]].spin

\* The timer interrupts p: yield().
Yield(h) ==
    /\ cpu[h] # None /\ IntrOn(h)
    /\ GoOff(cpu[h], "RUNNABLE", chan[cpu[h]])
    /\ UNCHANGED <<waitLocked, ticksLocked, cpu, op, time, victims>>

\* The timer interrupts ClockHart, whatever runs there: clockintr().  It matters
\* only to sys_sleep().
ClockStart ==
    /\ clock.pc = "off" /\ "sleep" \in Calls /\ IntrOn(ClockHart)
    /\ clock' = [pc |-> "lock", i |-> 1]
    /\ UNCHANGED <<table, locks, cpu, op, ticks, victims>>

ClockTick ==
    /\ clock.pc = "lock" /\ ~ ticksLocked
    /\ ticksLocked' = TRUE /\ ticks' = (ticks + 1) % TICKS
    /\ clock' = [clock EXCEPT !.pc = "wakeup"]
    /\ UNCHANGED <<table, plocked, waitLocked, cpu, op, victims>>

\* wakeup(&ticks), which skips myproc(), and release(&tickslock).
ClockWakeup ==
    /\ clock.pc = "wakeup"
    /\ IF clock.i > NPROC
       THEN /\ clock' = [pc |-> "off", i |-> 0] /\ ticksLocked' = FALSE
            /\ UNCHANGED state
       ELSE /\ IF clock.i = cpu[ClockHart] THEN UNCHANGED state
               ELSE Free(clock.i) /\ WakeIf(clock.i, TicksChan)
            /\ clock' = [clock EXCEPT !.i = @ + 1] /\ UNCHANGED ticksLocked
    /\ UNCHANGED <<chan, killed, pid, parent, nextpid, plocked, waitLocked, cpu, op,
                   ticks, victims>>

Idle(h) == cpu[h] = None /\ (h = ClockHart => clock.pc = "off")

\* scheduler() finds p RUNNABLE and switches to it.
SwitchTo(h, p) ==
    /\ Idle(h) /\ Free(p) /\ state[p] = "RUNNABLE"
    /\ state' = [state EXCEPT ![p] = "RUNNING"] /\ plocked' = plocked \cup {p}
    /\ cpu' = [cpu EXCEPT ![h] = p]
    /\ UNCHANGED <<chan, killed, pid, parent, nextpid, waitLocked, ticksLocked, op, time,
                   victims>>

\* sched() returns, or forkret() starts: p->chan = 0; release(&p->lock).
Resume(p) ==
    /\ state[p] = "RUNNING" /\ p \in plocked
    /\ chan' = [chan EXCEPT ![p] = None] /\ plocked' = plocked \ {p}
    /\ UNCHANGED <<state, killed, pid, parent, nextpid, waitLocked, ticksLocked, cpu, op,
                   time, victims>>

\* swtch() is back in scheduler(): c->proc = 0; release(&p->lock).
SwitchBack(h) ==
    /\ cpu[h] # None /\ state[cpu[h]] # "RUNNING"
    /\ cpu' = [cpu EXCEPT ![h] = None] /\ plocked' = plocked \ {cpu[h]}
    /\ UNCHANGED <<table, waitLocked, ticksLocked, op, time, victims>>

-----------------------------------------------------------------------------
\* userinit() has made the first process RUNNABLE.
Init ==
    /\ state = [p \in Proc |-> IF p = InitProc THEN "RUNNABLE" ELSE "UNUSED"]
    /\ pid = [p \in Proc |-> IF p = InitProc THEN 1 ELSE 0] /\ nextpid = 2
    /\ chan = [p \in Proc |-> None] /\ killed = [p \in Proc |-> FALSE]
    /\ parent = [p \in Proc |-> None]
    /\ plocked = {} /\ waitLocked = FALSE /\ ticksLocked = FALSE
    /\ cpu = [h \in Hart |-> None] /\ op = [p \in Proc |-> User]
    /\ ticks = 0 /\ clock = [pc |-> "off", i |-> 0] /\ victims = {}

\* What a process does inside the kernel, once it is there.
KernelStep(p) ==
    \/ CheckKilled(p)
    \/ AllocProc(p) \/ NoProc(p) \/ ForkFails(p) \/ ForkCopied(p) \/ ForkAdopt(p)
    \/ ForkReady(p)
    \/ ExitLock(p) \/ Reparent(p) \/ WakeupParent(p) \/ WakeupStep(p) \/ ExitZombie(p)
    \/ WaitLock(p) \/ WaitScan(p) \/ WaitReap(p) \/ WaitDone(p) \/ WaitSleep(p)
    \/ KillStep(p) \/ KillNone(p)
    \/ NapStart(p) \/ NapTest(p) \/ NapSleep(p) \/ NapWoken(p) \/ Spin(p)

Step(p) == Runs(p) /\ KernelStep(p)

Next ==
    \/ \E p \in Proc : (Runs(p) /\ (SysCall(p) \/ Kill(p) \/ Fault(p))) \/ Step(p) \/ Resume(p)
    \/ \E h \in Hart : Yield(h) \/ SwitchBack(h) \/ \E p \in Proc : SwitchTo(h, p)
    \/ ClockStart \/ ClockTick \/ ClockWakeup

Spec == Init /\ [][Next]_vars

\* A timer interrupt stays pending until it is taken, scheduler() goes round the table, and a hart
\* that spins on a lock gets it when others release it again and again.
Fairness ==
    /\ \A p \in Proc : /\ SF_vars(Step(p)) /\ WF_vars(Resume(p))
                       /\ SF_vars(\E h \in Hart : SwitchTo(h, p))
    /\ \A h \in Hart : SF_vars(Yield(h)) /\ WF_vars(SwitchBack(h))
    /\ SF_vars(ClockTick) /\ SF_vars(ClockWakeup)

FairSpec == Spec /\ Fairness
-----------------------------------------------------------------------------
(* Properties.                                                             *)

Alive == {"RUNNABLE", "RUNNING", "SLEEPING"}

TypeOK ==
    /\ state \in [Proc -> {"UNUSED", "USED", "ZOMBIE"} \cup Alive]
    /\ chan \in [Proc -> 0 .. NPROC + 1] /\ killed \in [Proc -> BOOLEAN]
    /\ pid \in [Proc -> Nat] /\ nextpid \in Nat
    /\ \A p \in Proc : pid[p] < nextpid /\ (pid[p] = 0 <=> state[p] = "UNUSED")
    /\ parent \in [Proc -> 0 .. NPROC]
    /\ plocked \subseteq Proc /\ waitLocked \in BOOLEAN /\ ticksLocked \in BOOLEAN
    /\ cpu \in [Hart -> 0 .. NPROC] /\ ticks \in 0 .. TICKS - 1
    /\ clock \in [pc : {"off", "lock", "wakeup"}, i : 0 .. NPROC + 1]
    /\ op \in [Proc -> [pc : {"user", "ret", "alloc", "copy", "adopt", "ready", "exit",
                              "reparent", "wakeup", "zombie", "dead", "wait", "scan",
                              "waitsleep", "kill", "nap", "napping", "napsleep", "renap"},
                        i : Nat, j : 0 .. NPROC + 1, kid : 0 .. NPROC,
                        kids : BOOLEAN, w : Nat, then : {"user", "reparent", "zombie"},
                        spin : BOOLEAN]]

\* A process runs on one hart at most, whatever wakes it and however soon after
\* it went to sleep; and nobody frees or reuses it while a hart is still on its
\* kernel stack.
OneHart == \A p \in Proc :
    LET on == {h \in Hart : cpu[h] = p} IN
    /\ Cardinality(on) <= 1
    /\ state[p] = "RUNNING" => on # {}
    /\ on # {} /\ Free(p) => state[p] = "RUNNING"
    /\ state[p] \in {"UNUSED", "USED"} => on = {}

\* proc.c, "helps ensure that wakeups of wait()ing parents are not lost": once
\* wait_lock is released, no parent sleeps over a child that has exited or was
\* passed on to it as a zombie; likewise a pause that is over, and tickslock.
NoLostWakeup ==
    /\ ~ waitLocked =>
          \A p, q \in Proc : parent[q] = p /\ state[q] = "ZOMBIE"
                                => ~ (state[p] = "SLEEPING" /\ chan[p] = p)
    /\ ~ ticksLocked =>
          \A p \in Proc : state[p] = "SLEEPING" /\ chan[p] = TicksChan
                                => (ticks - op[p].i) % TICKS < op[p].w

\* Whenever wait_lock is free, each process that started has a living parent,
\* which can wait() for it: exit() leaves no orphan, and fork() never gives a
\* child to a parent that is gone.
FamilyTree == ~ waitLocked =>
    \A p \in Proc \ {InitProc} : state[p] \in Alive \cup {"ZOMBIE"} =>
        parent[p] \in Proc \ {p} /\ state[parent[p]] \in Alive

\* proc.c, "Kill the process with the given pid": the process that dies of a
\* kill() is the one that has the pid, not one that has its slot later.
KilledByPid == \A p \in Proc : state[p] # "UNUSED" /\ killed[p] => pid[p] \in victims

\* No deadlock on the locks, and none is held for ever: wait_lock before
\* p->lock is an order that everybody keeps to.
LocksReleased == (waitLocked ~> ~ waitLocked) /\ (ticksLocked ~> ~ ticksLocked)

\* wait() returns if a child has exited, whoever exits, sleeps or is killed
\* meanwhile.
InWait(p) == op[p].pc \in {"wait", "scan", "waitsleep"}
WaitReturns == \A p \in Proc :
    (InWait(p) /\ \E q \in Proc : parent[q] = p /\ state[q] = "ZOMBIE") ~> ~ InWait(p)

\* proc.c, "Wake process from sleep()", and "The victim won't exit until it tries to
\* return to user space": a process that kill() finds asleep wakes, and a killed
\* process that is awake gets to exit(), out of wait() and sleep() too.  Excepted
\* is one that is about to sleep, having tested killed(p) before: it exits once
\* something else wakes it.
Sought(p)    == \E q \in Proc : At(q, "kill") /\ op[q].w = pid[p] /\ op[q].i <= p
AboutToSleep(p) == op[p].pc \in {"waitsleep", "napsleep"}
KilledExits == \A p \in Proc :
    /\ (state[p] = "SLEEPING" /\ Sought(p)) ~> state[p] # "SLEEPING"
    /\ (killed[p] /\ state[p] \in {"RUNNABLE", "RUNNING"} /\ ~ AboutToSleep(p))
          ~> op[p].pc \in {"exit", "reparent", "wakeup", "zombie", "dead"}
=============================================================================
