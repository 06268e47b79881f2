------------------------------ MODULE Console ------------------------------
(***************************************************************************)
(* The input half of console.c: the ring that consoleintr() fills and      *)
(* edits and consoleread() empties.                                        *)
(*                                                                         *)
(* consoleintr() is one step: it holds cons.lock from its first statement  *)
(* to its last.  consoleread() holds the lock from one sleep() to the next *)
(* and takes one step for each byte, because kill(), which needs only      *)
(* p->lock, may come in between.  Echo and ^P print, and change nothing    *)
(* here; nor does a character for which there is no room.                  *)
(***************************************************************************)
EXTENDS Naturals, Sequences

CONSTANTS
    Reader,          \* processes that read from the console
    None,            \* nobody holds cons.lock
    Char,            \* characters without a meaning of their own
    INPUT_BUF_SIZE,
    UINT,            \* unsigned integers are modulo UINT (2^32)
    MaxRead          \* bound: bytes that a read() asks for

ConsoleConstants ==
    /\ None \notin Reader \cup Nat /\ {"nl", "cr", "^D"} \cap Char = {}
    /\ INPUT_BUF_SIZE \in Nat \ {0} /\ MaxRead \in Nat
    /\ UINT \in Nat /\ UINT > INPUT_BUF_SIZE /\ UINT % INPUT_BUF_SIZE = 0

VARIABLES
    buf, r, w, e,   \* cons
    lock,           \* who holds cons.lock
    op,             \* where a process is in consoleread(), n - i bytes before its end
    asleep,         \* processes that sleep on &cons.r
    killed          \* p->killed

cons == <<buf, r, w, e>>
vars == <<cons, lock, op, asleep, killed>>

Minus(a, b) == (a + UINT - b) % UINT
Slot(i)     == i % INPUT_BUF_SIZE

-----------------------------------------------------------------------------
(* consoleintr()                                                           *)

\* Mutant: a reader is woken for whole lines only.
MutTypeWake(c) ==
    LET k == IF c = "cr" THEN "nl" ELSE c IN
    /\ lock = None /\ Minus(e, r) < INPUT_BUF_SIZE
    /\ buf' = [buf EXCEPT ![Slot(e)] = k] /\ e' = (e + 1) % UINT
    /\ w' = IF k \in {"nl", "^D"} \/ Minus(e', r) = INPUT_BUF_SIZE THEN e' ELSE w
    /\ asleep' = IF k \in {"nl", "^D"} THEN {} ELSE asleep
    /\ UNCHANGED <<r, lock, op, killed>>

\* Echoed, stored, and made readable at the end of a line, or of the ring.
Type(c) ==
    LET k == IF c = "cr" THEN "nl" ELSE c IN
    /\ lock = None /\ Minus(e, r) < INPUT_BUF_SIZE
    /\ buf' = [buf EXCEPT ![Slot(e)] = k] /\ e' = (e + 1) % UINT
    /\ IF k \in {"nl", "^D"} \/ Minus(e', r) = INPUT_BUF_SIZE
       THEN w' = e' /\ asleep' = {}
       ELSE UNCHANGED <<w, asleep>>
    /\ UNCHANGED <<r, lock, op, killed>>

\* ^H and delete
Backspace ==
    /\ lock = None /\ e # w
    /\ e' = Minus(e, 1)
    /\ UNCHANGED <<buf, r, w, lock, op, asleep, killed>>

\* ^U: back to the w index, or to a newline.
KillLine ==
    /\ lock = None
    /\ \E k \in 0 .. Minus(e, w) :
          /\ \A j \in 1 .. k : buf[Slot(Minus(e, j))] # "nl"
          /\ k = Minus(e, w) \/ buf[Slot(Minus(e, k + 1))] = "nl"
          /\ e' = Minus(e, k)
    /\ UNCHANGED <<buf, r, w, lock, op, asleep, killed>>

-----------------------------------------------------------------------------
(* consoleread()                                                           *)

User       == [pc |-> "user", i |-> 0, n |-> 0]
At(p, l)   == op[p].pc = l /\ p \notin asleep
Goto(p, l) == op' = [op EXCEPT ![p].pc = l]
Leave(p)   == lock' = None /\ op' = [op EXCEPT ![p] = User]

Call(p) ==
    /\ At(p, "user") /\ ~ killed[p]
    /\ \E n \in 1 .. MaxRead : op' = [op EXCEPT ![p] = [pc |-> "read", i |-> 0, n |-> n]]
    /\ UNCHANGED <<cons, lock, asleep, killed>>

\* acquire(&cons.lock), at the start and after a sleep().
Acquire(p) ==
    /\ At(p, "read") /\ lock = None
    /\ lock' = p /\ Goto(p, "reading")
    /\ UNCHANGED <<cons, asleep, killed>>

ReadTest(p) ==
    /\ At(p, "reading") /\ r = w
    /\ IF killed[p] THEN Leave(p) ELSE Goto(p, "empty") /\ UNCHANGED lock
    /\ UNCHANGED <<cons, asleep, killed>>

ReadSleep(p) ==
    /\ At(p, "empty")
    /\ asleep' = asleep \cup {p} /\ lock' = None /\ Goto(p, "read")
    /\ UNCHANGED <<cons, killed>>

Next1 == buf[Slot(r)]

\* Mutant: ^D is gone although the read() has bytes to return.
MutReadEof(p) ==
    /\ At(p, "reading") /\ r # w /\ Next1 = "^D"
    /\ r' = (r + 1) % UINT
    /\ Leave(p) /\ UNCHANGED <<buf, w, e, asleep, killed>>

\* ^D, saved for the next read() if this one has bytes to return.
ReadEof(p) ==
    /\ At(p, "reading") /\ r # w /\ Next1 = "^D"
    /\ r' = IF op[p].i > 0 THEN r ELSE (r + 1) % UINT
    /\ Leave(p) /\ UNCHANGED <<buf, w, e, asleep, killed>>

\* A byte, which may be the last: of the line, of those wanted, or because
\* copyout() fails.
ReadByte(p) ==
    /\ At(p, "reading") /\ r # w /\ Next1 # "^D"
    /\ r' = (r + 1) % UINT
    /\ \/ Leave(p)
       \/ /\ Next1 # "nl" /\ op[p].i + 1 < op[p].n
          /\ op' = [op EXCEPT ![p].i = @ + 1] /\ UNCHANGED lock
    /\ UNCHANGED <<buf, w, e, asleep, killed>>

Kill(p) ==
    /\ ~ killed[p]
    /\ killed' = [killed EXCEPT ![p] = TRUE] /\ asleep' = asleep \ {p}
    /\ UNCHANGED <<cons, lock, op>>

-----------------------------------------------------------------------------
\* The ring is in .bss.
Init ==
    /\ buf = [i \in 0 .. INPUT_BUF_SIZE - 1 |-> "nul"] /\ r = 0 /\ w = 0 /\ e = 0
    /\ lock = None /\ op = [p \in Reader |-> User] /\ asleep = {}
    /\ killed = [p \in Reader |-> FALSE]

Next ==
    \/ \E c \in Char \cup {"nl", "cr", "^D"} : Type(c)
    \/ Backspace \/ KillLine
    \/ \E p \in Reader : \/ Call(p) \/ Acquire(p) \/ ReadTest(p) \/ ReadSleep(p)
                         \/ ReadEof(p) \/ ReadByte(p) \/ Kill(p)

Spec == Init /\ [][Next]_vars
-----------------------------------------------------------------------------
(* Properties.                                                             *)

TypeOK ==
    /\ {r, w, e} \subseteq 0 .. UINT - 1
    /\ Minus(w, r) <= Minus(e, r) /\ Minus(e, r) <= INPUT_BUF_SIZE
    /\ buf \in [0 .. INPUT_BUF_SIZE - 1 -> Char \cup {"nul", "nl", "^D"}]
    /\ lock \in Reader \cup {None} /\ asleep \subseteq Reader
    /\ killed \in [Reader -> BOOLEAN]
    /\ op \in [Reader -> [pc : {"user", "read", "reading", "empty"},
                          i : 0 .. MaxRead, n : 0 .. MaxRead]]

Bytes(a, b) == [k \in 1 .. Minus(b, a) |-> buf[Slot(a + k - 1)]]

\* Two indices that the interrupt moves and one that the readers move, all of
\* which overflow, make a queue of edited lines.
Lines == INSTANCE LineInput WITH
    Capacity <- INPUT_BUF_SIZE,
    ready    <- Bytes(r, w),
    line     <- Bytes(w, e),
    got      <- [p \in Reader |-> IF op[p].pc = "user" THEN None ELSE op[p].i]
EditedLines == Lines!Spec

\* A reader sleeps only while there is nothing to read, also when others take
\* a part of a line, or give ^D back.
ReadersAwake == lock = None /\ asleep # {} => r = w
=============================================================================
