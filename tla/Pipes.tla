-------------------------------- MODULE Pipes --------------------------------
(***************************************************************************)
(* One pipe of pipe.c, the two struct files of file.c through which the    *)
(* processes hold its ends, and the processes that make it, read, write,   *)
(* close, fork and die.                                                    *)
(*                                                                         *)
(* pi->lock is held over a whole pass through piperead() or pipewrite(),   *)
(* one byte per step; kill() needs only p->lock and comes at any point.    *)
(* wakeup() is one step here: Processes shows why that is sound.           *)
(***************************************************************************)
EXTENDS Integers, Sequences, FiniteSets

CONSTANTS
    Proc,      \* processes
    Creator,   \* the one that calls pipe()
    None,      \* nobody holds pi->lock
    Byte,      \* contents of a byte
    PIPESIZE,  \* size of the ring pi->data
    UINT,      \* unsigned integers are modulo UINT (2^32)
    MaxN       \* bound: bytes in one read() or write()

ASSUME PipeConstants ==
    /\ Creator \in Proc /\ None \notin Proc /\ IsFiniteSet(Proc)
    /\ PIPESIZE \in Nat \ {0} /\ MaxN \in Nat
    /\ UINT \in Nat /\ UINT > PIPESIZE /\ UINT % PIPESIZE = 0

End == {"read", "write"}   \* the file with f->readable, the one with f->writable

VARIABLES
    data, nread, nwrite,   \* pi->data, pi->nread, pi->nwrite
    open,                  \* the ends e with pi->readopen, pi->writeopen
    lock,                  \* who holds pi->lock
    freed,                 \* there is no page for the pipe yet, or no more
    ref,                   \* f->ref of the two files
    has,                   \* the ends that a process has in p->ofile
    life,                  \* a process is not there yet, alive, on the error path of
                           \* pipe(), in exit() or gone
    killed,                \* p->killed
    op,                    \* where a process is, and its local variables
    asleep,                \* the channel a process sleeps on, if it does
    left                   \* history: a killed writer has left bytes in the ring
                           \* without a wakeup(), and there was none since

ring  == <<data, nread, nwrite, open, freed>>
pipe  == <<ring, left>>
files == <<ref, has>>
procs == <<life, killed>>
vars  == <<pipe, lock, files, procs, op, asleep>>

User == [pc |-> "user", i |-> 0, n |-> 0]
At(p, l)   == op[p].pc = l /\ asleep[p] = "no"
Goto(p, l) == op' = [op EXCEPT ![p].pc = l]
Return(p)  == op' = [op EXCEPT ![p] = User]

Empty == nread = nwrite

\* Mutant: the counters are compared as if they could not overflow.
MutFull == nwrite = nread + PIPESIZE

Full == nwrite = (nread + PIPESIZE) % UINT

\* wakeup(): the channels are &pi->nread and &pi->nwrite.
Woken(c) == [p \in Proc |-> IF asleep[p] = c THEN "no" ELSE asleep[p]]

\* Releases pi->lock and returns to user space.
Leave(p) == lock' = None /\ Return(p)
\* sleep(); asleep' says on which channel.  The process will take pi->lock again at l.
Sleep(p, l) == lock' = None /\ Goto(p, l)

-----------------------------------------------------------------------------
\* usertrap() lets only those make system calls that are not killed.
InUser(p) == At(p, "user") /\ life[p] = "alive" /\ ~ killed[p]

\* read() and write() of n bytes, through an end the process has open.
Call(p) ==
    /\ InUser(p)
    /\ \E e \in has[p], n \in 1 .. MaxN :
          op' = [op EXCEPT ![p] = [pc |-> e, i |-> 0, n |-> n]]
    /\ UNCHANGED <<pipe, lock, files, procs, asleep>>

\* acquire(&pi->lock), at the start and after a sleep().
Acquire(p) ==
    /\ At(p, "read") \/ At(p, "write")
    /\ lock = None
    /\ lock' = p
    /\ Goto(p, IF At(p, "read") THEN "reading" ELSE "writing")
    /\ UNCHANGED <<pipe, files, procs, asleep>>

-----------------------------------------------------------------------------
(* pipewrite()                                                             *)

\* The test at the head of the loop, under p->lock as kill() is.
WriteTest(p) ==
    /\ At(p, "writing") /\ op[p].i < op[p].n
    /\ IF "read" \notin open \/ killed[p] THEN Leave(p)
                                         ELSE Goto(p, "put") /\ UNCHANGED lock
    /\ left' = (left \/ (killed[p] /\ op[p].i > 0 /\ ~ Empty))
    /\ UNCHANGED <<ring, files, procs, asleep>>

\* A process that is killed since the test sleeps until the next wakeup.
WriteSleep(p) ==
    /\ At(p, "put") /\ Full
    /\ asleep' = [Woken("nread") EXCEPT ![p] = "nwrite"] /\ left' = FALSE
    /\ Sleep(p, "write")
    /\ UNCHANGED <<ring, files, procs>>

WriteByte(p) ==
    /\ At(p, "put") /\ ~ Full
    /\ \E b \in Byte : data' = [data EXCEPT ![nwrite % PIPESIZE] = b]
    /\ nwrite' = (nwrite + 1) % UINT
    /\ op' = [op EXCEPT ![p].i = @ + 1, ![p].pc = "writing"]
    /\ UNCHANGED <<nread, open, freed, left, lock, files, procs, asleep>>

\* All is written, or copyin() failed.
WriteDone(p) ==
    /\ (At(p, "writing") /\ op[p].i = op[p].n) \/ (At(p, "put") /\ ~ Full)
    /\ asleep' = Woken("nread") /\ left' = FALSE
    /\ Leave(p)
    /\ UNCHANGED <<ring, files, procs>>

-----------------------------------------------------------------------------
(* piperead()                                                              *)

Starved(p) == Empty /\ "write" \in open /\ op[p].i = 0

ReadTest(p) ==
    /\ At(p, "reading") /\ Starved(p)
    /\ IF killed[p] THEN Leave(p) ELSE Goto(p, "empty") /\ UNCHANGED lock
    /\ UNCHANGED <<pipe, files, procs, asleep>>

ReadSleep(p) ==
    /\ At(p, "empty")
    /\ asleep' = [asleep EXCEPT ![p] = "nread"]
    /\ Sleep(p, "read")
    /\ UNCHANGED <<pipe, files, procs>>

ReadByte(p) ==
    /\ At(p, "reading") /\ op[p].i < op[p].n /\ ~ Empty
    /\ nread' = (nread + 1) % UINT
    /\ op' = [op EXCEPT ![p].i = @ + 1]
    /\ left' = (left /\ nread' # nwrite)
    /\ UNCHANGED <<data, nwrite, open, freed, lock, files, procs, asleep>>

\* Mutant: the writers are woken when the pipe is empty, and not by every reader.
MutReadDone(p) ==
    /\ At(p, "reading")
    /\ op[p].i > 0 \/ (Empty /\ ~ Starved(p))
    /\ asleep' = IF Empty THEN Woken("nwrite") ELSE asleep
    /\ Leave(p)
    /\ UNCHANGED <<pipe, files, procs>>

\* n bytes, or as many as there were, or copyout() failed on the last one.
ReadDone(p) ==
    /\ At(p, "reading")
    /\ op[p].i > 0 \/ (Empty /\ ~ Starved(p))
    /\ asleep' = Woken("nwrite")
    /\ Leave(p)
    /\ UNCHANGED <<pipe, files, procs>>

-----------------------------------------------------------------------------
(* pipe(), close(), fork(), exit(), kill()                                 *)

\* sys_pipe(): pipealloc() finds no files or no page, and leaves nothing; or
\* there are no descriptors for the files, or copyout() fails, and both are
\* closed again; or all is well.  Nobody else knows the files before the end.
Pipe(p) ==
    /\ At(p, "pipe") /\ Return(p)
    /\ \/ UNCHANGED <<nread, nwrite, open, freed, files, life>>
       \/ /\ nread' = 0 /\ nwrite' = 0 /\ open' = End /\ freed' = FALSE
          /\ ref' = [e \in End |-> 1] /\ has' = [has EXCEPT ![p] = End]
          /\ life' \in {life, [life EXCEPT ![p] = "undoing"]}
    /\ UNCHANGED <<data, left, lock, killed, asleep>>

\* Both files are closed.
Undone(p) ==
    /\ At(p, "user") /\ life[p] = "undoing" /\ has[p] = {}
    /\ life' = [life EXCEPT ![p] = "alive"]
    /\ UNCHANGED <<pipe, lock, files, killed, op, asleep>>

\* fileclose() under ftable.lock.  The last reference goes on to pipeclose().
FileClose(p) ==
    /\ At(p, "user") /\ (InUser(p) \/ life[p] \in {"undoing", "exiting"})
    /\ \E e \in has[p] :
        /\ has' = [has EXCEPT ![p] = @ \ {e}]
        /\ ref' = [ref EXCEPT ![e] = @ - 1]
        /\ IF ref[e] = 1 THEN Goto(p, IF e = "read" THEN "closeread" ELSE "closewrite")
                         ELSE UNCHANGED op
    /\ UNCHANGED <<pipe, lock, procs, asleep>>

\* Mutant: the readers do not hear that the last writer is gone.
MutPipeClose(p, e) ==
    /\ At(p, IF e = "read" THEN "closeread" ELSE "closewrite") /\ lock = None
    /\ open' = open \ {e} /\ freed' = (open \subseteq {e})
    /\ asleep' = IF e = "read" THEN Woken("nwrite") ELSE asleep
    /\ Goto(p, "user")
    /\ UNCHANGED <<data, nread, nwrite, left, lock, files, procs>>

\* pipeclose()
PipeClose(p, e) ==
    /\ At(p, IF e = "read" THEN "closeread" ELSE "closewrite") /\ lock = None
    /\ open' = open \ {e} /\ freed' = (open \subseteq {e})
    /\ asleep' = Woken(IF e = "read" THEN "nwrite" ELSE "nread")
    /\ left' = (left /\ e = "read")
    /\ Goto(p, "user")
    /\ UNCHANGED <<data, nread, nwrite, lock, files, procs>>

\* Mutant: fork() copies the pointers without filedup().
MutFork(p, q) ==
    /\ InUser(p) /\ life[q] = "none"
    /\ life' = [life EXCEPT ![q] = "alive"] /\ has' = [has EXCEPT ![q] = has[p]]
    /\ UNCHANGED <<pipe, lock, ref, killed, op, asleep>>

\* fork() -> filedup() of every open file.
Fork(p, q) ==
    /\ InUser(p) /\ life[q] = "none"
    /\ life' = [life EXCEPT ![q] = "alive"] /\ has' = [has EXCEPT ![q] = has[p]]
    /\ ref' = [e \in End |-> IF e \in has[p] THEN ref[e] + 1 ELSE ref[e]]
    /\ UNCHANGED <<pipe, lock, killed, op, asleep>>

Exit(p) ==
    /\ At(p, "user") /\ life[p] = "alive"
    /\ life' = [life EXCEPT ![p] = "exiting"]
    /\ UNCHANGED <<pipe, lock, files, killed, op, asleep>>

\* The rest of exit(), when every file is closed.
Gone(p) ==
    /\ At(p, "user") /\ life[p] = "exiting" /\ has[p] = {}
    /\ life' = [life EXCEPT ![p] = "gone"]
    /\ UNCHANGED <<pipe, lock, files, killed, op, asleep>>

Kill(p) ==
    /\ life[p] \in {"alive", "undoing"} /\ ~ killed[p]
    /\ killed' = [killed EXCEPT ![p] = TRUE] /\ asleep' = [asleep EXCEPT ![p] = "no"]
    /\ UNCHANGED <<pipe, lock, files, life, op>>

-----------------------------------------------------------------------------
\* A process calls pipe().
Init ==
    /\ data \in [0 .. PIPESIZE - 1 -> Byte] /\ nread = 0 /\ nwrite = 0
    /\ open = {} /\ lock = None /\ freed = TRUE
    /\ ref = [e \in End |-> 0] /\ has = [p \in Proc |-> {}]
    /\ life = [p \in Proc |-> IF p = Creator THEN "alive" ELSE "none"]
    /\ killed = [p \in Proc |-> FALSE]
    /\ op = [p \in Proc |-> IF p = Creator THEN [User EXCEPT !.pc = "pipe"] ELSE User]
    /\ asleep = [p \in Proc |-> "no"] /\ left = FALSE

\* What a process does in the kernel, once it is there.
Step(p) ==
    \/ Acquire(p)
    \/ WriteTest(p) \/ WriteSleep(p) \/ WriteByte(p) \/ WriteDone(p)
    \/ ReadTest(p) \/ ReadSleep(p) \/ ReadByte(p) \/ ReadDone(p)
    \/ \E e \in End : PipeClose(p, e)

Next == \E p \in Proc :
    \/ Step(p) \/ Pipe(p) \/ Undone(p) \/ Call(p) \/ FileClose(p) \/ Exit(p) \/ Gone(p) \/ Kill(p)
    \/ \E q \in Proc : Fork(p, q)

Spec == Init /\ [][Next]_vars

\* A system call goes on when it can.  pi->lock is released again and again,
\* and a process that waits for it gets it some time.
FairSpec == Spec /\ \A p \in Proc : SF_vars(Step(p))
-----------------------------------------------------------------------------
(* Properties.                                                             *)

InPipe == (nwrite - nread) % UINT

Place == {"pipe", "user", "read", "reading", "empty", "write", "writing", "put",
          "closeread", "closewrite"}
TypeOK ==
    /\ data \in [0 .. PIPESIZE - 1 -> Byte]
    /\ nread \in 0 .. UINT - 1 /\ nwrite \in 0 .. UINT - 1 /\ InPipe <= PIPESIZE
    /\ open \subseteq End /\ lock \in Proc \cup {None} /\ freed \in BOOLEAN
    /\ ref \in [End -> 0 .. Cardinality(Proc)] /\ has \in [Proc -> SUBSET End]
    /\ life \in [Proc -> {"none", "alive", "undoing", "exiting", "gone"}]
    /\ killed \in [Proc -> BOOLEAN]
    /\ op \in [Proc -> [pc : Place, i : 0 .. MaxN, n : 0 .. MaxN]]
    /\ asleep \in [Proc -> {"no", "nread", "nwrite"}] /\ left \in BOOLEAN

\* Readers and writers that share the pipe in any number see one queue of
\* bytes, also when the counters overflow, and nothing is written into a pipe
\* that nobody can read.
Fifo == INSTANCE PipeFifo WITH
    Capacity <- PIPESIZE,
    queue    <- [k \in 1 .. InPipe |-> data[(nread + k - 1) % PIPESIZE]],
    readable <- "read" \in open \/ op[Creator].pc = "pipe"
OneQueue == Fifo!Spec

\* The pipe is freed by whoever closes its last end, be it pipe() itself, and
\* at no other time: nobody is inside it then, and nobody can come.
FreedAtLastClose ==
    freed <=> \A p \in Proc : has[p] = {} /\ op[p].pc \in {"pipe", "user"}

\* Nobody sleeps through the event he sleeps for, with one exception: a killed
\* writer leaves pipewrite() at line 86 without a wakeup() for the bytes it put
\* in before, and a reader may sleep over them until the next wakeup().
NoLostWakeup == lock = None => \A p \in Proc :
    /\ asleep[p] = "nread"  => /\ "write" \in open
                               /\ Empty \/ left
    /\ asleep[p] = "nwrite" => Full /\ "read" \in open

\* A reader comes back when the last writer is gone, a writer when the last
\* reader is.
Unblocked == \A p \in Proc :
    (\/ op[p].pc \in {"read", "reading", "empty"} /\ "write" \notin open
     \/ op[p].pc \in {"write", "writing", "put"} /\ "read" \notin open)
        ~> op[p].pc = "user"
=============================================================================
