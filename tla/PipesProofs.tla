----------------------------- MODULE PipesProofs -----------------------------
(***************************************************************************)
(* Proofs about Pipes, for any number of processes, any ring whose size    *)
(* divides the range of its counters, and any sequence of calls.           *)
(*                                                                         *)
(* The inductive invariant has two halves: which ends are open and who     *)
(* holds them (Files), and what those that sleep on the pipe wait for      *)
(* (Readers, Writers), which depends on how far the holder of pi->lock is. *)
(***************************************************************************)
EXTENDS Pipes, FiniteSetTheorems, TLAPS

ClosePc(e)    == IF e = "read" THEN "closeread" ELSE "closewrite"
Inside(e)     == IF e = "read" THEN {"read", "reading", "empty"} ELSE {"write", "writing", "put"}
Holding       == {"reading", "empty", "writing", "put"}
Holders(h, e) == {p \in Proc : e \in h[p]}

\* Before pipe() returns there is nothing, and nobody else is there.
Fresh == op[Creator].pc = "pipe" =>
    /\ open = {} /\ nread = 0 /\ nwrite = 0
    /\ \A p \in Proc : has[p] = {} /\ (p # Creator => life[p] = "none")

NotYet == \A p \in Proc :
    /\ op[p].pc = "pipe" => p = Creator
    /\ life[p] = "none" => has[p] = {} /\ op[p].pc = "user"

\* f->ref is the number of descriptors that refer to the file.
Counted == \A e \in End : ref[e] = Cardinality(Holders(has, e))

\* An end is open as long as a process has it, or is on its way to close it.
Referred ==
    /\ freed <=> open = {}
    /\ \A e \in open : \E p \in Proc : e \in has[p] \/ op[p].pc = ClosePc(e)
    /\ \A p \in Proc : has[p] \subseteq open

\* Whoever goes from fileclose() to pipeclose() had the last reference.
Closing == \A p \in Proc, e \in End : op[p].pc = ClosePc(e) =>
    /\ e \in open
    /\ \A q \in Proc : e \notin has[q] /\ (op[q].pc = ClosePc(e) => q = p)

\* read() and write() go through an end that the process has.
Calling == \A p \in Proc, e \in End : op[p].pc \in Inside(e) => e \in has[p]

Files == Fresh /\ NotYet /\ Counted /\ Referred /\ Closing /\ Calling

Locked == \A p \in Proc : lock = p <=> op[p].pc \in Holding

\* What a process has seen under pi->lock is still so.
Looping == \A p \in Proc :
    /\ op[p].pc = "empty" => Empty /\ op[p].i = 0 /\ "write" \in open
    /\ op[p].pc = "put" => op[p].i < op[p].n /\ "read" \in open

\* A reader sleeps over an empty pipe, or one whose writer is not through yet,
\* or bytes that a killed writer has left.
Readers == \A p \in Proc : asleep[p] = "nread" =>
    /\ op[p].pc = "read" /\ "write" \in open
    /\ Empty \/ left \/ \E q \in Proc : op[q].pc \in {"writing", "put"} /\ op[q].i > 0

\* A writer sleeps over a full pipe, or one whose reader is not through yet.
Writers == \A p \in Proc : asleep[p] = "nwrite" =>
    /\ op[p].pc = "write" /\ "read" \in open
    /\ Full \/ \E q \in Proc : op[q].pc = "reading" /\ op[q].i > 0

IInv == TypeOK /\ Files /\ Locked /\ Looping /\ Readers /\ Writers
-----------------------------------------------------------------------------
(* The operators.                                                          *)

Ops       == [pc : Place, i : 0 .. MaxN, n : 0 .. MaxN]
Others(p) == \A q \in Proc : q # p => op'[q] = op[q]

LEMMA GotoIs ==
    ASSUME NEW p \in Proc, NEW l \in Place, op \in [Proc -> Ops], Goto(p, l)
    PROVE  /\ op' \in [Proc -> Ops] /\ Others(p)
           /\ op'[p].pc = l /\ op'[p].i = op[p].i /\ op'[p].n = op[p].n
BY DEF Goto, Others, Ops

LEMMA ReturnIs ==
    ASSUME NEW p \in Proc, op \in [Proc -> Ops], Return(p)
    PROVE  op' \in [Proc -> Ops] /\ Others(p) /\ op'[p].pc = "user" /\ op'[p].i = 0
BY PipeConstants DEF Return, Others, Ops, User, Place

LEMMA WokenIs ==
    ASSUME NEW c \in {"nread", "nwrite"}, asleep \in [Proc -> {"no", "nread", "nwrite"}]
    PROVE  /\ Woken(c) \in [Proc -> {"no", "nread", "nwrite"}]
           /\ \A q \in Proc : /\ Woken(c)[q] # c
                              /\ Woken(c)[q] # "no" => Woken(c)[q] = asleep[q]
BY DEF Woken

LEMMA RingKept ==
    ASSUME UNCHANGED <<nread, nwrite>>
    PROVE  InPipe' = InPipe /\ Empty' = Empty /\ Full' = Full
BY DEF InPipe, Empty, Full

\* A step within a system call leaves the files alone.
LEMMA FilesKept ==
    ASSUME NEW p \in Proc, TypeOK, Files, UNCHANGED <<open, freed, ref, has, life>>, Others(p),
           op[p].pc \notin {"pipe", "closeread", "closewrite"},
           op'[p].pc \notin {"pipe", "closeread", "closewrite"},
           life[p] # "none", \E e \in End : e \in has[p],
           \A e \in End : op'[p].pc \in Inside(e) => e \in has[p]
    PROVE  Files'
<1>1. op[Creator].pc # "pipe" /\ op'[Creator].pc # "pipe"
  BY PipeConstants DEF Others, Files, Fresh
<1>2. Fresh' /\ NotYet'
  BY <1>1 DEF Fresh, NotYet, Others, Files
<1>3. Counted'
  BY DEF Files, Counted
<1>4. Referred'
  BY DEF Files, Referred, Others, ClosePc
<1>5. Closing'
  BY DEF Files, Closing, Others, ClosePc
<1>6. Calling'
  BY DEF Files, Calling, Others
<1> QED
  BY <1>2, <1>3, <1>4, <1>5, <1>6 DEF Files

-----------------------------------------------------------------------------
(* The steps within piperead() and pipewrite().                             *)

LEMMA AcquireKeeps == ASSUME NEW p \in Proc, IInv, Acquire(p) PROVE IInv'
<1> DEFINE l == IF At(p, "read") THEN "reading" ELSE "writing"
<1>1. TypeOK /\ Files
  BY DEF IInv
<1>2. /\ op' \in [Proc -> Ops] /\ Others(p)
      /\ op'[p].pc = l /\ op'[p].i = op[p].i /\ op'[p].n = op[p].n
  BY <1>1, GotoIs DEF Acquire, TypeOK, Ops, Place
<1>3. TypeOK'
  BY <1>1, <1>2, RingKept DEF Acquire, TypeOK, Ops, pipe, ring, files, procs
<1>4. Files'
  BY <1>1, <1>2, FilesKept DEF Acquire, At, Files, NotYet, Calling, Inside, End, pipe, ring, files, procs
<1>5. Locked'
  BY <1>2, PipeConstants DEF IInv, Acquire, Locked, Others, Holding
<1>6. Looping'
  BY <1>2, RingKept DEF IInv, Acquire, Looping, Others, pipe, ring
<1>7. Readers'
  BY <1>2, RingKept, PipeConstants DEF IInv, Acquire, Readers, Others, pipe, ring, procs, At
<1>8. Writers'
  BY <1>2, RingKept, PipeConstants DEF IInv, Acquire, Writers, Others, pipe, ring, procs, At
<1> QED
  BY <1>3, <1>4, <1>5, <1>6, <1>7, <1>8 DEF IInv

LEMMA WriteTestKeeps == ASSUME NEW p \in Proc, IInv, WriteTest(p) PROVE IInv'
<1>1. TypeOK /\ Files
  BY DEF IInv
<1>2. /\ op' \in [Proc -> Ops] /\ Others(p) /\ op[p].pc = "writing" /\ asleep[p] = "no"
      /\ \/ op'[p].pc = "user" /\ lock' = None
         \/ /\ op'[p].pc = "put" /\ lock' = lock /\ op'[p].i < op'[p].n
            /\ "read" \in open
  BY <1>1, GotoIs, ReturnIs DEF WriteTest, TypeOK, Ops, Place, Leave, At
<1>3. TypeOK'
  BY <1>1, <1>2, RingKept DEF WriteTest, TypeOK, Ops, pipe, ring, files, procs
<1>4. Files'
  BY <1>1, <1>2, FilesKept DEF WriteTest, Files, NotYet, Calling, Inside, End, pipe, ring, files, procs
<1>5. Locked'
  BY <1>2, PipeConstants DEF IInv, WriteTest, Locked, Others, Holding
<1>6. Looping'
  BY <1>2, RingKept DEF IInv, WriteTest, Looping, Others, pipe, ring
<1>7. Readers'
  <2> SUFFICES ASSUME NEW q \in Proc, asleep[q] = "nread"
               PROVE  /\ op'[q].pc = "read" /\ "write" \in open
                      /\ \/ Empty \/ left'
                         \/ \E o \in Proc : op'[o].pc \in {"writing", "put"} /\ op'[o].i > 0
    BY RingKept DEF WriteTest, Readers, ring
  <2>1. /\ op'[q] = op[q] /\ op[q].pc = "read" /\ "write" \in open
        /\ Empty \/ left \/ \E o \in Proc : op[o].pc \in {"writing", "put"} /\ op[o].i > 0
    BY <1>2 DEF IInv, Readers, Others
  <2>2. ASSUME NEW o \in Proc, op[o].pc \in {"writing", "put"}, op[o].i > 0, ~ Empty
        PROVE  left' \/ (op'[p].pc = "put" /\ op'[p].i > 0)
    <3>1. o = p
      BY <1>2, <2>2 DEF IInv, Locked, Holding
    <3>2. "read" \in open
      BY <1>1, <2>1 DEF Files, Calling, Referred, Inside, End
    <3>3. CASE killed[p]
      BY <2>2, <3>1, <3>3 DEF WriteTest
    <3>4. CASE ~ killed[p]
      BY <1>1, <2>2, <3>1, <3>2, <3>4, GotoIs DEF WriteTest, TypeOK, Ops, Place
    <3> QED
      BY <3>3, <3>4
  <2>3. left => left'
    BY DEF WriteTest
  <2> QED
    BY <2>1, <2>2, <2>3
<1>8. Writers'
  BY <1>2, RingKept, PipeConstants DEF IInv, WriteTest, Writers, Others, pipe, ring, procs
<1> QED
  BY <1>3, <1>4, <1>5, <1>6, <1>7, <1>8 DEF IInv

LEMMA WriteSleepKeeps == ASSUME NEW p \in Proc, IInv, WriteSleep(p) PROVE IInv'
<1>1. TypeOK /\ Files
  BY DEF IInv
<1>2. /\ op' \in [Proc -> Ops] /\ Others(p) /\ op[p].pc = "put" /\ op'[p].pc = "write"
      /\ lock' = None /\ asleep' = [Woken("nread") EXCEPT ![p] = "nwrite"]
  BY <1>1, GotoIs DEF WriteSleep, TypeOK, Ops, Place, Sleep, At
<1>a. /\ asleep' \in [Proc -> {"no", "nread", "nwrite"}]
      /\ \A q \in Proc : asleep'[q] # "nread" /\ (q # p /\ asleep'[q] # "no" => asleep'[q] = asleep[q])
  BY <1>1, <1>2, WokenIs DEF TypeOK
<1>3. TypeOK'
  BY <1>1, <1>2, <1>a, RingKept DEF WriteSleep, TypeOK, Ops, pipe, ring, files, procs
<1>4. Files'
  BY <1>1, <1>2, FilesKept DEF WriteSleep, Files, NotYet, Calling, Inside, End, pipe, ring, files, procs
<1>5. Locked'
  BY <1>2, PipeConstants DEF IInv, WriteSleep, Locked, Others, Holding
<1>6. Looping'
  BY <1>2, RingKept DEF IInv, WriteSleep, Looping, Others, pipe, ring
<1>7. Readers'
  BY <1>a DEF Readers
<1>8. Writers'
  BY <1>2, <1>a, RingKept DEF IInv, WriteSleep, Writers, Others, pipe, ring, procs, Looping
<1> QED
  BY <1>3, <1>4, <1>5, <1>6, <1>7, <1>8 DEF IInv

LEMMA WriteDoneKeeps == ASSUME NEW p \in Proc, IInv, WriteDone(p) PROVE IInv'
<1>1. TypeOK /\ Files
  BY DEF IInv
<1>2. /\ op' \in [Proc -> Ops] /\ Others(p) /\ op[p].pc \in {"writing", "put"} /\ op'[p].pc = "user"
      /\ lock' = None /\ asleep[p] = "no"
  BY <1>1, ReturnIs DEF WriteDone, TypeOK, Ops, Leave, At
<1>a. /\ asleep' \in [Proc -> {"no", "nread", "nwrite"}]
      /\ \A q \in Proc : asleep'[q] # "nread" /\ (asleep'[q] # "no" => asleep'[q] = asleep[q])
  BY <1>1, WokenIs DEF TypeOK, WriteDone
<1>3. TypeOK'
  BY <1>1, <1>2, <1>a, RingKept DEF WriteDone, TypeOK, Ops, pipe, ring, files, procs
<1>4. Files'
  BY <1>1, <1>2, FilesKept DEF WriteDone, Files, NotYet, Calling, Inside, End, pipe, ring, files, procs
<1>5. Locked'
  BY <1>2, PipeConstants DEF IInv, WriteDone, Locked, Others, Holding
<1>6. Looping'
  BY <1>2, RingKept DEF IInv, WriteDone, Looping, Others, pipe, ring
<1>7. Readers'
  BY <1>a DEF Readers
<1>8. Writers'
  BY <1>2, <1>a, RingKept DEF IInv, WriteDone, Writers, Others, pipe, ring, procs
<1> QED
  BY <1>3, <1>4, <1>5, <1>6, <1>7, <1>8 DEF IInv

LEMMA ReadTestKeeps == ASSUME NEW p \in Proc, IInv, ReadTest(p) PROVE IInv'
<1>1. TypeOK /\ Files
  BY DEF IInv
<1>2. /\ op' \in [Proc -> Ops] /\ Others(p) /\ op[p].pc = "reading" /\ op[p].i = 0 /\ asleep[p] = "no"
      /\ Empty /\ "write" \in open
      /\ \/ op'[p].pc = "user" /\ lock' = None
         \/ op'[p].pc = "empty" /\ lock' = lock /\ op'[p].i = 0
  BY <1>1, GotoIs, ReturnIs DEF ReadTest, TypeOK, Ops, Place, Leave, At, Starved
<1>3. TypeOK'
  BY <1>1, <1>2, RingKept DEF ReadTest, TypeOK, Ops, pipe, ring, files, procs
<1>4. Files'
  BY <1>1, <1>2, FilesKept DEF ReadTest, Files, NotYet, Calling, Inside, End, pipe, ring, files, procs
<1>5. Locked'
  BY <1>2, PipeConstants DEF IInv, ReadTest, Locked, Others, Holding
<1>6. Looping'
  BY <1>2, RingKept DEF IInv, ReadTest, Looping, Others, pipe, ring
<1>7. Readers'
  BY <1>2, RingKept DEF IInv, ReadTest, Readers, Others, pipe, ring, procs
<1>8. Writers'
  BY <1>2, RingKept DEF IInv, ReadTest, Writers, Others, pipe, ring, procs
<1> QED
  BY <1>3, <1>4, <1>5, <1>6, <1>7, <1>8 DEF IInv

LEMMA ReadSleepKeeps == ASSUME NEW p \in Proc, IInv, ReadSleep(p) PROVE IInv'
<1>1. TypeOK /\ Files
  BY DEF IInv
<1>2. /\ op' \in [Proc -> Ops] /\ Others(p) /\ op[p].pc = "empty" /\ op'[p].pc = "read"
      /\ lock' = None /\ Empty /\ "write" \in open
  BY <1>1, GotoIs DEF ReadSleep, TypeOK, Ops, Place, Sleep, At, IInv, Looping
<1>3. TypeOK'
  BY <1>1, <1>2, RingKept DEF ReadSleep, TypeOK, Ops, pipe, ring, files, procs
<1>4. Files'
  BY <1>1, <1>2, FilesKept DEF ReadSleep, Files, NotYet, Calling, Inside, End, pipe, ring, files, procs
<1>5. Locked'
  BY <1>2, PipeConstants DEF IInv, ReadSleep, Locked, Others, Holding
<1>6. Looping'
  BY <1>2, RingKept DEF IInv, ReadSleep, Looping, Others, pipe, ring
<1>7. Readers'
  BY <1>1, <1>2, RingKept DEF IInv, ReadSleep, Readers, Others, pipe, ring, procs, TypeOK
<1>8. Writers'
  <2>1. \A q \in Proc : asleep'[q] = "nwrite" => asleep[q] = "nwrite" /\ q # p
    BY <1>1 DEF ReadSleep, TypeOK
  <2> QED
    BY <2>1, <1>2, RingKept DEF IInv, ReadSleep, Writers, Others, pipe, ring
<1> QED
  BY <1>3, <1>4, <1>5, <1>6, <1>7, <1>8 DEF IInv

LEMMA ReadDoneKeeps == ASSUME NEW p \in Proc, IInv, ReadDone(p) PROVE IInv'
<1>1. TypeOK /\ Files
  BY DEF IInv
<1>2. /\ op' \in [Proc -> Ops] /\ Others(p) /\ op[p].pc = "reading" /\ op'[p].pc = "user"
      /\ lock' = None /\ asleep[p] = "no"
  BY <1>1, ReturnIs DEF ReadDone, TypeOK, Ops, Leave, At
<1>a. /\ asleep' \in [Proc -> {"no", "nread", "nwrite"}]
      /\ \A q \in Proc : asleep'[q] # "nwrite" /\ (asleep'[q] # "no" => asleep'[q] = asleep[q])
  BY <1>1, WokenIs DEF TypeOK, ReadDone
<1>3. TypeOK'
  BY <1>1, <1>2, <1>a, RingKept DEF ReadDone, TypeOK, Ops, pipe, ring, files, procs
<1>4. Files'
  BY <1>1, <1>2, FilesKept DEF ReadDone, Files, NotYet, Calling, Inside, End, pipe, ring, files, procs
<1>5. Locked'
  BY <1>2, PipeConstants DEF IInv, ReadDone, Locked, Others, Holding
<1>6. Looping'
  BY <1>2, RingKept DEF IInv, ReadDone, Looping, Others, pipe, ring
<1>7. Readers'
  BY <1>2, <1>a, RingKept DEF IInv, ReadDone, Readers, Others, pipe, ring, procs
<1>8. Writers'
  BY <1>a DEF Writers
<1> QED
  BY <1>3, <1>4, <1>5, <1>6, <1>7, <1>8 DEF IInv

LEMMA CallKeeps == ASSUME NEW p \in Proc, IInv, Call(p) PROVE IInv'
<1>1. TypeOK /\ Files
  BY DEF IInv
<1>2. PICK e \in has[p], n \in 1 .. MaxN : op' = [op EXCEPT ![p] = [pc |-> e, i |-> 0, n |-> n]]
  BY DEF Call
<1>a. e \in End /\ life[p] = "alive" /\ op[p].pc = "user" /\ asleep[p] = "no"
  BY <1>1, <1>2 DEF Call, TypeOK, InUser, At
<1>b. [pc |-> e, i |-> 0, n |-> n] \in Ops
  BY <1>2, <1>a, PipeConstants DEF Ops, Place, End
<1>3. op' \in [Proc -> Ops] /\ Others(p) /\ op'[p].pc = e
  BY <1>1, <1>2, <1>b DEF TypeOK, Others, Ops
<1>4. TypeOK'
  BY <1>1, <1>3, RingKept DEF Call, TypeOK, Ops, pipe, ring, files, procs
<1>5. Files'
  BY <1>1, <1>a, <1>3, FilesKept DEF Call, Inside, End, pipe, ring, files, procs
<1>6. Locked'
  BY <1>a, <1>3, PipeConstants DEF IInv, Call, Locked, Others, Holding, End
<1>7. Looping'
  BY <1>a, <1>3, RingKept DEF IInv, Call, Looping, Others, pipe, ring, End
<1>8. Readers'
  BY <1>a, <1>3, RingKept DEF IInv, Call, Readers, Others, pipe, ring, procs
<1>9. Writers'
  BY <1>a, <1>3, RingKept DEF IInv, Call, Writers, Others, pipe, ring, procs
<1> QED
  BY <1>4, <1>5, <1>6, <1>7, <1>8, <1>9 DEF IInv

\* The counters are modulo UINT: their difference grows and shrinks by one.
LEMMA NextCount ==
    ASSUME NEW n \in 0 .. UINT - 1
    PROVE  (n + 1) % UINT = IF n = UINT - 1 THEN 0 ELSE n + 1
BY PipeConstants

LEMMA Difference ==
    ASSUME NEW m \in 0 .. UINT - 1, NEW n \in 0 .. UINT - 1
    PROVE  (n - m) % UINT = IF m <= n THEN n - m ELSE n - m + UINT
BY PipeConstants

LEMMA AfterPut ==
    ASSUME TypeOK, ~ Full, nwrite' = (nwrite + 1) % UINT, nread' = nread
    PROVE  nwrite' \in 0 .. UINT - 1 /\ InPipe < PIPESIZE /\ InPipe' = InPipe + 1
<1>1. /\ UINT \in Nat /\ PIPESIZE \in Nat /\ UINT > PIPESIZE /\ PIPESIZE > 0
      /\ nread \in 0 .. UINT - 1 /\ nwrite \in 0 .. UINT - 1
  BY PipeConstants DEF TypeOK
<1>2. nwrite' \in 0 .. UINT - 1
  BY <1>1, NextCount
<1>3. (nread + PIPESIZE) % UINT
        = IF nread + PIPESIZE < UINT THEN nread + PIPESIZE ELSE nread + PIPESIZE - UINT
  BY <1>1
<1>4. InPipe = IF nread <= nwrite THEN nwrite - nread ELSE nwrite - nread + UINT
  BY <1>1, Difference DEF InPipe
<1>5. InPipe' = IF nread <= nwrite' THEN nwrite' - nread ELSE nwrite' - nread + UINT
  BY <1>1, <1>2, Difference DEF InPipe
<1>6. nwrite' = IF nwrite = UINT - 1 THEN 0 ELSE nwrite + 1
  BY <1>1, NextCount
<1>7. InPipe <= PIPESIZE
  BY DEF TypeOK
<1>8. InPipe # PIPESIZE
  BY <1>1, <1>3, <1>4 DEF Full
<1> QED
  BY <1>1, <1>2, <1>4, <1>5, <1>6, <1>7, <1>8

LEMMA AfterGet ==
    ASSUME TypeOK, ~ Empty, nread' = (nread + 1) % UINT, nwrite' = nwrite
    PROVE  nread' \in 0 .. UINT - 1 /\ InPipe > 0 /\ InPipe' = InPipe - 1
<1>1. /\ UINT \in Nat /\ UINT > 0
      /\ nread \in 0 .. UINT - 1 /\ nwrite \in 0 .. UINT - 1
  BY PipeConstants DEF TypeOK
<1>2. nread' \in 0 .. UINT - 1
  BY <1>1, NextCount
<1>3. InPipe = IF nread <= nwrite THEN nwrite - nread ELSE nwrite - nread + UINT
  BY <1>1, Difference DEF InPipe
<1>4. InPipe' = IF nread' <= nwrite THEN nwrite - nread' ELSE nwrite - nread' + UINT
  BY <1>1, <1>2, Difference DEF InPipe
<1>5. nread' = IF nread = UINT - 1 THEN 0 ELSE nread + 1
  BY <1>1, NextCount
<1>6. nread # nwrite
  BY DEF Empty
<1> QED
  BY <1>1, <1>2, <1>3, <1>4, <1>5, <1>6

LEMMA WriteByteKeeps == ASSUME NEW p \in Proc, IInv, WriteByte(p) PROVE IInv'
<1>1. TypeOK /\ Files
  BY DEF IInv
<1>2. op[p].pc = "put" /\ op[p].i < op[p].n /\ op[p] \in Ops
  BY DEF IInv, Looping, WriteByte, At, TypeOK, Ops
<1>3. /\ op' \in [Proc -> Ops] /\ Others(p) /\ op'[p].pc = "writing" /\ op'[p].i > 0
  <2>1. /\ op' = [op EXCEPT ![p] = op'[p]]
        /\ op'[p] = [pc |-> "writing", i |-> op[p].i + 1, n |-> op[p].n]
    BY <1>1, <1>2 DEF WriteByte, TypeOK, Ops
  <2>2. op'[p] \in Ops /\ op'[p].pc = "writing" /\ op'[p].i > 0
    BY <1>2, <2>1, PipeConstants DEF Ops, Place
  <2> QED
    BY <1>1, <2>1, <2>2 DEF TypeOK, Ops, Others
<1>4. nwrite' \in 0 .. UINT - 1 /\ InPipe' = InPipe + 1 /\ InPipe < PIPESIZE
  BY <1>1, AfterPut DEF WriteByte
<1>5. TypeOK'
  <2>1. data' \in [0 .. PIPESIZE - 1 -> Byte]
    BY <1>1 DEF WriteByte, TypeOK
  <2>2. InPipe' <= PIPESIZE
    BY <1>1, <1>4, PipeConstants DEF TypeOK, InPipe
  <2> QED
    BY <1>1, <1>3, <1>4, <2>1, <2>2 DEF WriteByte, TypeOK, Ops, files, procs
<1>6. Files'
  BY <1>1, <1>2, <1>3, FilesKept DEF WriteByte, Files, NotYet, Calling, Inside, End, files, procs
<1>7. Locked'
  BY <1>2, <1>3 DEF IInv, WriteByte, Locked, Others, Holding
<1>8. Looping'
  BY <1>2, <1>3 DEF IInv, WriteByte, Locked, Looping, Others, Holding
<1>9. Readers'
  BY <1>2, <1>3 DEF IInv, WriteByte, Readers, Others, procs
<1>10. Writers'
  <2> SUFFICES ASSUME NEW q \in Proc, asleep[q] = "nwrite" PROVE FALSE
    BY DEF WriteByte, Writers
  <2>1. PICK o \in Proc : op[o].pc = "reading"
    BY DEF IInv, WriteByte, Writers
  <2> QED
    BY <1>2, <2>1 DEF IInv, Locked, Holding
<1> QED
  BY <1>5, <1>6, <1>7, <1>8, <1>9, <1>10 DEF IInv

LEMMA ReadByteKeeps == ASSUME NEW p \in Proc, IInv, ReadByte(p) PROVE IInv'
<1>1. TypeOK /\ Files
  BY DEF IInv
<1>2. op[p].pc = "reading" /\ op[p].i < op[p].n /\ op[p] \in Ops /\ lock = p
  BY DEF IInv, Locked, Holding, ReadByte, At, TypeOK, Ops
<1>3. /\ op' \in [Proc -> Ops] /\ Others(p) /\ op'[p].pc = "reading" /\ op'[p].i > 0
  <2>1. /\ op' = [op EXCEPT ![p] = op'[p]]
        /\ op'[p] = [op[p] EXCEPT !.i = op[p].i + 1]
    BY <1>1 DEF ReadByte, TypeOK
  <2>2. op'[p] \in Ops /\ op'[p].pc = "reading" /\ op'[p].i > 0
    BY <1>2, <2>1, PipeConstants DEF Ops, Place
  <2> QED
    BY <1>1, <2>1, <2>2 DEF TypeOK, Ops, Others
<1>4. nread' \in 0 .. UINT - 1 /\ InPipe' = InPipe - 1 /\ InPipe > 0
  BY <1>1, AfterGet DEF ReadByte
<1>5. TypeOK'
  <2>1. InPipe' <= PIPESIZE
    BY <1>1, <1>4, PipeConstants DEF TypeOK, InPipe
  <2> QED
    BY <1>1, <1>3, <1>4, <2>1 DEF ReadByte, TypeOK, Ops, files, procs
<1>6. Files'
  BY <1>1, <1>2, <1>3, FilesKept DEF ReadByte, Files, NotYet, Calling, Inside, End, files, procs
<1>7. Locked'
  BY <1>2, <1>3 DEF IInv, ReadByte, Locked, Others, Holding
<1>8. Looping'
  BY <1>2, <1>3 DEF IInv, ReadByte, Locked, Looping, Others, Holding
<1>9. Readers'
  <2> SUFFICES ASSUME NEW q \in Proc, asleep[q] = "nread"
               PROVE  op'[q].pc = "read" /\ "write" \in open /\ (Empty' \/ left')
    BY DEF ReadByte, Readers
  <2>1. op'[q] = op[q] /\ op[q].pc = "read" /\ "write" \in open /\ left
    BY <1>2, <1>3 DEF IInv, ReadByte, Readers, Locked, Holding, Others
  <2> QED
    BY <2>1 DEF ReadByte, Empty
<1>10. Writers'
  BY <1>2, <1>3 DEF IInv, ReadByte, Writers, Others
<1> QED
  BY <1>5, <1>6, <1>7, <1>8, <1>9, <1>10 DEF IInv

-----------------------------------------------------------------------------
(* The references.                                                         *)

LEMMA HoldersFinite ==
    ASSUME NEW h, NEW e
    PROVE  /\ IsFiniteSet(Holders(h, e)) /\ Cardinality(Holders(h, e)) \in Nat
           /\ Cardinality(Holders(h, e)) <= Cardinality(Proc) /\ Cardinality(Proc) \in Nat
BY PipeConstants, FS_Subset, FS_CardinalityType DEF Holders

\* So the type of ref follows from what it counts.
LEMMA RefType ==
    ASSUME NEW r, NEW h, r = [e \in End |-> r[e]],
           \A e \in End : r[e] = Cardinality(Holders(h, e))
    PROVE  r \in [End -> 0 .. Cardinality(Proc)]
<1>1. \A e \in End : r[e] \in 0 .. Cardinality(Proc)
  BY HoldersFinite
<1> QED
  BY <1>1

\* Steps that touch neither the files nor where a process is.
LEMMA FilesMoved ==
    ASSUME Files, UNCHANGED <<nread, nwrite, open, freed, ref, has>>, op' = op,
           \A q \in Proc : life'[q] = "none" <=> life[q] = "none"
    PROVE  Files'
BY DEF Files, Fresh, NotYet, Counted, Referred, Closing, Calling

LEMMA Unmoved ==
    ASSUME IInv, UNCHANGED <<pipe, lock, files, killed, op, asleep>>,
           life' \in [Proc -> {"none", "alive", "undoing", "exiting", "gone"}],
           \A q \in Proc : life'[q] = "none" <=> life[q] = "none"
    PROVE  IInv'
<1>1. Files'
  BY FilesMoved DEF IInv, pipe, ring, files
<1>2. TypeOK'
  BY RingKept DEF IInv, TypeOK, pipe, ring, files
<1>3. Locked' /\ Looping' /\ Readers' /\ Writers'
  BY RingKept DEF IInv, Locked, Looping, Readers, Writers, pipe, ring, files
<1> QED
  BY <1>1, <1>2, <1>3 DEF IInv

LEMMA LifeKeeps ==
    ASSUME NEW p \in Proc, IInv, Undone(p) \/ Exit(p) \/ Gone(p)
    PROVE  IInv'
<1>1. PICK l \in {"alive", "exiting", "gone"} : life' = [life EXCEPT ![p] = l]
  BY DEF Undone, Exit, Gone
<1>2. life[p] # "none" /\ UNCHANGED <<pipe, lock, files, killed, op, asleep>>
  BY DEF Undone, Exit, Gone
<1>3. life \in [Proc -> {"none", "alive", "undoing", "exiting", "gone"}]
  BY DEF IInv, TypeOK
<1> QED
  BY <1>1, <1>2, <1>3, Unmoved

LEMMA KillKeeps == ASSUME NEW p \in Proc, IInv, Kill(p) PROVE IInv'
<1>1. \A q \in Proc : asleep'[q] # "no" => asleep'[q] = asleep[q]
  BY DEF IInv, TypeOK, Kill
<1>2. \A q \in Proc : killed[q] => killed'[q]
  BY DEF IInv, TypeOK, Kill
<1>3. TypeOK'
  BY RingKept DEF IInv, TypeOK, Kill, pipe, ring, files
<1>4. Files'
  BY FilesMoved DEF IInv, Kill, pipe, ring, files
<1>5. Locked' /\ Looping'
  BY RingKept DEF IInv, Locked, Looping, Kill, pipe, ring
<1>6. Readers' /\ Writers'
  BY <1>1, <1>2, RingKept DEF IInv, Readers, Writers, Kill, pipe, ring
<1> QED
  BY <1>3, <1>4, <1>5, <1>6 DEF IInv

LEMMA PipeCloseKeeps ==
    ASSUME NEW p \in Proc, NEW e \in End, IInv, PipeClose(p, e)
    PROVE  IInv'
<1> DEFINE c == IF e = "read" THEN "nwrite" ELSE "nread"
<1>1. TypeOK /\ Files
  BY DEF IInv
<1>2. /\ op' \in [Proc -> Ops] /\ Others(p) /\ op[p].pc = ClosePc(e) /\ op'[p].pc = "user"
      /\ lock = None /\ UNCHANGED <<lock, data, nread, nwrite, ref, has, life, killed>>
  BY <1>1, GotoIs DEF PipeClose, TypeOK, Ops, Place, At, ClosePc, files, procs
<1>3. /\ asleep' \in [Proc -> {"no", "nread", "nwrite"}]
      /\ \A q \in Proc : asleep'[q] # c /\ (asleep'[q] # "no" => asleep'[q] = asleep[q])
  BY <1>1, WokenIs DEF TypeOK, PipeClose
<1>4. e \in open /\ \A q \in Proc : e \notin has[q] /\ (op[q].pc = ClosePc(e) => q = p)
  BY <1>1, <1>2 DEF Files, Closing
<1>5. /\ open' = open \ {e} /\ (freed' <=> open' = {}) /\ freed' \in BOOLEAN
      /\ left' \in BOOLEAN /\ (left /\ e = "read" => left')
  BY DEF PipeClose
<1>6. TypeOK'
  BY <1>1, <1>2, <1>3, <1>5, RingKept DEF TypeOK, Ops
<1>7. Files'
  <2>1. Fresh' /\ NotYet'
    <3>1. op[Creator].pc # "pipe" /\ life[p] # "none"
      BY <1>1, <1>2, <1>4, PipeConstants DEF Files, Fresh, NotYet, ClosePc
    <3> QED
      BY <1>1, <1>2, <3>1, PipeConstants DEF Files, Fresh, NotYet, Others
  <2>2. Counted'
    BY <1>1, <1>2 DEF Files, Counted
  <2>3. Referred'
    <3>1. ASSUME NEW f \in open' PROVE \E q \in Proc : f \in has'[q] \/ op'[q].pc = ClosePc(f)
      <4>1. f \in open /\ f \in End /\ f # e
        BY <1>1, <1>5, <3>1 DEF TypeOK
      <4>2. PICK q \in Proc : f \in has[q] \/ op[q].pc = ClosePc(f)
        BY <1>1, <4>1 DEF Files, Referred
      <4>3. ClosePc(f) # ClosePc(e)
        BY <4>1 DEF ClosePc, End
      <4> QED
        BY <1>2, <4>2, <4>3 DEF Others
    <3>2. \A q \in Proc : has'[q] \subseteq open'
      BY <1>1, <1>2, <1>4, <1>5 DEF Files, Referred
    <3> QED
      BY <1>5, <3>1, <3>2 DEF Referred
  <2>4. Closing'
    BY <1>1, <1>2, <1>4, <1>5 DEF Files, Closing, Others, ClosePc, End
  <2>5. Calling'
    BY <1>1, <1>2 DEF Files, Calling, Others, Inside
  <2> QED
    BY <2>1, <2>2, <2>3, <2>4, <2>5 DEF Files
<1>8. Locked'
  BY <1>2, PipeConstants DEF IInv, Locked, Others, Holding
<1>9. Looping'
  BY <1>2, PipeConstants DEF IInv, Locked, Looping, Others, Holding
<1>10. Readers'
  BY <1>2, <1>3, <1>5, RingKept DEF IInv, Readers, Others, ClosePc, End
<1>11. Writers'
  BY <1>2, <1>3, <1>5, RingKept DEF IInv, Writers, Others, ClosePc, End
<1> QED
  BY <1>6, <1>7, <1>8, <1>9, <1>10, <1>11 DEF IInv

LEMMA PipeKeeps == ASSUME NEW p \in Proc, IInv, Pipe(p) PROVE IInv'
<1>1. TypeOK /\ Files
  BY DEF IInv
<1>2. /\ op' \in [Proc -> Ops] /\ Others(p) /\ op[p].pc = "pipe" /\ op'[p].pc = "user"
      /\ asleep[p] = "no" /\ UNCHANGED <<data, left, lock, killed, asleep>>
  BY <1>1, ReturnIs DEF Pipe, TypeOK, Ops, At
<1>3. /\ p = Creator /\ open = {} /\ nread = 0 /\ nwrite = 0
      /\ \A q \in Proc : has[q] = {} /\ (q # p => life[q] = "none" /\ op[q].pc = "user")
  BY <1>1, <1>2, PipeConstants DEF Files, Fresh, NotYet
<1>4. UNCHANGED <<nread, nwrite>>
  BY <1>3 DEF Pipe
<1>5. \A q \in Proc : op'[q].pc = "user"
  BY <1>2, <1>3 DEF Others
<1>6. CASE UNCHANGED <<nread, nwrite, open, freed, files, life>>
  <2>1. TypeOK'
    BY <1>1, <1>2, <1>6, RingKept DEF TypeOK, Ops, files
  <2>2. Files'
    BY <1>1, <1>3, <1>5, <1>6, PipeConstants
       DEF Files, Fresh, NotYet, Counted, Referred, Closing, Calling, Inside, ClosePc, files
  <2>3. Locked' /\ Looping'
    BY <1>1, <1>2, <1>3, <1>5 DEF IInv, Locked, Looping, Holding
  <2>4. Readers' /\ Writers'
    BY <1>2, <1>3 DEF IInv, Readers, Writers
  <2> QED
    BY <2>1, <2>2, <2>3, <2>4 DEF IInv
<1>7. CASE /\ open' = End /\ freed' = FALSE
           /\ ref' = [e \in End |-> 1] /\ has' = [has EXCEPT ![p] = End]
           /\ life' \in {life, [life EXCEPT ![p] = "undoing"]}
  <2>1. \A e \in End : Holders(has', e) = {p}
    BY <1>1, <1>3, <1>7 DEF Holders, TypeOK
  <2>2. Counted'
    BY <1>7, <2>1, FS_Singleton DEF Counted
  <2>3. TypeOK'
    <3>1. ref' \in [End -> 0 .. Cardinality(Proc)]
      BY <1>7, <2>2, RefType DEF Counted
    <3> QED
      BY <1>1, <1>2, <1>4, <1>7, <3>1, RingKept DEF TypeOK, Ops
  <2>4. has' = [q \in Proc |-> IF q = p THEN End ELSE {}]
    BY <1>1, <1>3, <1>7 DEF TypeOK
  <2>5. NotYet'
    BY <1>1, <1>2, <1>3, <1>5, <1>7, <2>4 DEF Files, NotYet, TypeOK
  <2>6. Referred'
    BY <1>7, <2>4 DEF Referred, End
  <2>7. Fresh' /\ Closing' /\ Calling'
    BY <1>5, PipeConstants DEF Fresh, Closing, Calling, ClosePc, Inside
  <2>8. Files'
    BY <2>2, <2>5, <2>6, <2>7 DEF Files
  <2>9. Locked' /\ Looping'
    BY <1>1, <1>2, <1>3, <1>5 DEF IInv, Locked, Looping, Holding
  <2>10. Readers' /\ Writers'
    BY <1>2, <1>3 DEF IInv, Readers, Writers
  <2> QED
    BY <2>3, <2>8, <2>9, <2>10 DEF IInv
<1> QED
  BY <1>6, <1>7 DEF Pipe

LEMMA FileCloseKeeps == ASSUME NEW p \in Proc, IInv, FileClose(p) PROVE IInv'
<1>1. TypeOK /\ Files
  BY DEF IInv
<1>2. PICK e \in has[p] :
        /\ has' = [has EXCEPT ![p] = @ \ {e}]
        /\ ref' = [ref EXCEPT ![e] = @ - 1]
        /\ IF ref[e] = 1 THEN Goto(p, IF e = "read" THEN "closeread" ELSE "closewrite")
                         ELSE UNCHANGED op
  BY DEF FileClose
<1>3. /\ op[p].pc = "user" /\ e \in End /\ life[p] # "none" /\ asleep[p] = "no"
      /\ UNCHANGED <<data, nread, nwrite, open, freed, left, lock, life, killed, asleep>>
  BY <1>1 DEF FileClose, At, InUser, TypeOK, pipe, ring, procs
<1>4. /\ op' \in [Proc -> Ops] /\ Others(p)
      /\ op'[p].pc = IF ref[e] = 1 THEN ClosePc(e) ELSE "user"
  <2>1. CASE ref[e] = 1
    BY <1>1, <1>2, <1>3, <2>1, GotoIs DEF TypeOK, Ops, Place, ClosePc
  <2>2. CASE ref[e] # 1
    BY <1>1, <1>2, <1>3, <2>2 DEF TypeOK, Ops, Others
  <2> QED
    BY <2>1, <2>2
<1>5. /\ has' \in [Proc -> SUBSET End] /\ has'[p] = has[p] \ {e}
      /\ \A q \in Proc : q # p => has'[q] = has[q]
  BY <1>1, <1>2 DEF TypeOK
<1>6. /\ p \in Holders(has, e) /\ Holders(has', e) = Holders(has, e) \ {p}
      /\ \A f \in End : f # e => Holders(has', f) = Holders(has, f)
  BY <1>2, <1>5 DEF Holders
<1>7. Counted'
  <2>1. Cardinality(Holders(has', e)) = Cardinality(Holders(has, e)) - 1
    BY <1>6, HoldersFinite, FS_RemoveElement
  <2> QED
    BY <1>1, <1>2, <1>3, <1>6, <2>1 DEF Files, Counted, TypeOK
<1>8. TypeOK'
  <2>1. ref' \in [End -> 0 .. Cardinality(Proc)]
    <3>1. ref' = [f \in End |-> ref'[f]]
      BY <1>1, <1>2 DEF TypeOK
    <3> QED
      BY <3>1, <1>7, RefType DEF Counted
  <2> QED
    BY <1>1, <1>3, <1>4, <1>5, <2>1, RingKept DEF TypeOK, Ops
<1>9. /\ ref[e] = 1 => \A q \in Proc : e \notin has'[q]
      /\ ref[e] # 1 => \E q \in Proc : e \in has'[q]
  <2>a. ref[e] \in Nat /\ Cardinality(Holders(has', e)) = ref[e] - 1
    <3>1. ref'[e] = ref[e] - 1 /\ ref[e] \in Nat
      BY <1>1, <1>2, <1>3, HoldersFinite DEF TypeOK, Files, Counted
    <3> QED
      BY <1>3, <1>7, <3>1 DEF Counted
  <2>1. ref[e] = 1 => Holders(has', e) = {}
    BY <2>a, HoldersFinite, FS_EmptySet
  <2>2. ref[e] # 1 => Holders(has', e) # {}
    BY <2>a, FS_EmptySet
  <2> QED
    BY <2>1, <2>2 DEF Holders
<1>10. e \in open /\ \A q \in Proc : op[q].pc # ClosePc(e)
  BY <1>1, <1>2, <1>3 DEF Files, Referred, Closing
<1>11. Fresh' /\ NotYet'
  BY <1>1, <1>2, <1>3, <1>4, <1>5, PipeConstants DEF Files, Fresh, NotYet, Others, ClosePc
<1>12. Referred'
  <2>1. ASSUME NEW f \in open
        PROVE  \E q \in Proc : f \in has'[q] \/ op'[q].pc = ClosePc(f)
    <3>1. CASE f = e
      BY <1>4, <1>9, <3>1
    <3>2. CASE f # e
      BY <1>1, <1>3, <1>4, <1>5, <3>2 DEF Files, Referred, Others, ClosePc
    <3> QED
      BY <3>1, <3>2
  <2> QED
    BY <1>1, <1>3, <1>5, <2>1 DEF Files, Referred
<1>13. Closing'
  BY <1>1, <1>3, <1>4, <1>5, <1>9, <1>10 DEF Files, Closing, Others, ClosePc, End
<1>14. Calling'
  BY <1>1, <1>3, <1>4, <1>5 DEF Files, Calling, Others, ClosePc, Inside, End
<1>15. Files'
  BY <1>7, <1>11, <1>12, <1>13, <1>14 DEF Files
<1>16. Locked' /\ Looping'
  BY <1>3, <1>4, RingKept DEF IInv, Locked, Looping, Others, Holding, ClosePc
<1>17. Readers' /\ Writers'
  BY <1>3, <1>4, RingKept DEF IInv, Readers, Writers, Others, ClosePc
<1> QED
  BY <1>8, <1>15, <1>16, <1>17 DEF IInv

LEMMA ForkKeeps == ASSUME NEW p \in Proc, NEW q \in Proc, IInv, Fork(p, q) PROVE IInv'
<1>1. TypeOK /\ Files
  BY DEF IInv
<1>2. /\ op[p].pc = "user" /\ life[p] = "alive" /\ life[q] = "none" /\ p # q
      /\ has[q] = {} /\ op[q].pc = "user"
      /\ UNCHANGED <<data, nread, nwrite, open, freed, left, lock, killed, op, asleep>>
  BY <1>1 DEF Fork, At, InUser, Files, NotYet, pipe, ring
<1>3. /\ has' \in [Proc -> SUBSET End] /\ has'[q] = has[p]
      /\ \A r \in Proc : r # q => has'[r] = has[r]
      /\ life' = [life EXCEPT ![q] = "alive"]
      /\ ref' = [e \in End |-> IF e \in has[p] THEN ref[e] + 1 ELSE ref[e]]
  BY <1>1 DEF Fork, TypeOK
<1>4. Counted'
  <2> SUFFICES ASSUME NEW e \in End PROVE ref'[e] = Cardinality(Holders(has', e))
    BY DEF Counted
  <2>1. CASE e \in has[p]
    <3>1. q \notin Holders(has, e) /\ Holders(has', e) = Holders(has, e) \cup {q}
      BY <1>2, <1>3, <2>1 DEF Holders
    <3>2. Cardinality(Holders(has', e)) = Cardinality(Holders(has, e)) + 1
      BY <3>1, HoldersFinite, FS_AddElement
    <3> QED
      BY <1>1, <1>3, <2>1, <3>2 DEF Files, Counted
  <2>2. CASE e \notin has[p]
    <3>1. Holders(has', e) = Holders(has, e)
      BY <1>2, <1>3, <2>2 DEF Holders
    <3> QED
      BY <1>1, <1>3, <2>2, <3>1 DEF Files, Counted
  <2> QED
    BY <2>1, <2>2
<1>5. TypeOK'
  <2>1. ref' \in [End -> 0 .. Cardinality(Proc)]
    <3>1. ref' = [e \in End |-> ref'[e]]
      BY <1>3
    <3> QED
      BY <3>1, <1>4, RefType DEF Counted
  <2> QED
    BY <1>1, <1>2, <1>3, <2>1, RingKept DEF TypeOK
<1>6. op[Creator].pc # "pipe"
  BY <1>1, <1>2, PipeConstants DEF Files, Fresh
<1>7. Fresh' /\ NotYet'
  BY <1>1, <1>2, <1>3, <1>6 DEF Files, Fresh, NotYet, TypeOK
<1>8. Referred'
  BY <1>1, <1>2, <1>3 DEF Files, Referred
<1>9. Closing' /\ Calling'
  BY <1>1, <1>2, <1>3 DEF Files, Closing, Calling, Inside
<1>10. Files'
  BY <1>4, <1>7, <1>8, <1>9 DEF Files
<1>11. Locked' /\ Looping' /\ Readers' /\ Writers'
  BY <1>2, RingKept DEF IInv, Locked, Looping, Readers, Writers
<1> QED
  BY <1>5, <1>10, <1>11 DEF IInv

-----------------------------------------------------------------------------
LEMMA InitHolds == Init => IInv
<1> SUFFICES ASSUME Init PROVE IInv
  OBVIOUS
<1>1. /\ ref = [e \in End |-> 0] /\ \A p \in Proc : has[p] = {}
      /\ op = [p \in Proc |-> IF p = Creator THEN [pc |-> "pipe", i |-> 0, n |-> 0]
                                             ELSE [pc |-> "user", i |-> 0, n |-> 0]]
  BY DEF Init, User
<1>2. Counted
  <2>1. \A e : Holders(has, e) = {}
    BY <1>1 DEF Holders
  <2> QED
    BY <1>1, <2>1, FS_EmptySet DEF Counted
<1>3. op \in [Proc -> Ops] /\ \A p \in Proc : op[p].pc = IF p = Creator THEN "pipe" ELSE "user"
  BY <1>1, PipeConstants DEF Ops, Place
<1>4. InPipe <= PIPESIZE
  BY PipeConstants, Difference DEF Init, InPipe
<1>5. TypeOK
  <2>1. ref \in [End -> 0 .. Cardinality(Proc)]
    BY <1>1, <1>2, RefType DEF Counted
  <2>2. left \in BOOLEAN
    BY DEF Init
  <2> QED
    BY <1>1, <1>3, <1>4, <2>1, <2>2, PipeConstants DEF Init, TypeOK, Ops
<1>6. Files
  BY <1>1, <1>2, <1>3, PipeConstants
     DEF Init, Files, Fresh, NotYet, Referred, Closing, Calling, ClosePc, Inside, End
<1>7. Locked /\ Looping /\ Readers /\ Writers
  BY <1>3, PipeConstants DEF Init, Locked, Looping, Readers, Writers, Holding
<1> QED
  BY <1>5, <1>6, <1>7 DEF IInv

LEMMA StepKeeps == IInv /\ [Next]_vars => IInv'
<1> SUFFICES ASSUME IInv, [Next]_vars PROVE IInv'
  OBVIOUS
<1>1. CASE UNCHANGED vars
  <2>1. UNCHANGED <<pipe, lock, files, killed, op, asleep, life>>
    BY <1>1 DEF vars, procs
  <2> QED
    BY <2>1, Unmoved DEF IInv, TypeOK
<1>2. CASE Next
  <2> PICK p \in Proc :
        \/ Step(p) \/ Pipe(p) \/ Undone(p) \/ Call(p) \/ FileClose(p) \/ Exit(p) \/ Gone(p)
        \/ Kill(p) \/ \E q \in Proc : Fork(p, q)
    BY <1>2 DEF Next
  <2>1. CASE Step(p)
    BY <2>1, AcquireKeeps, WriteTestKeeps, WriteSleepKeeps, WriteByteKeeps, WriteDoneKeeps,
       ReadTestKeeps, ReadSleepKeeps, ReadByteKeeps, ReadDoneKeeps, PipeCloseKeeps DEF Step
  <2>2. CASE Pipe(p) \/ Undone(p) \/ Exit(p) \/ Gone(p) \/ Kill(p)
    BY <2>2, PipeKeeps, LifeKeeps, KillKeeps
  <2>3. CASE Call(p) \/ FileClose(p) \/ \E q \in Proc : Fork(p, q)
    BY <2>3, CallKeeps, FileCloseKeeps, ForkKeeps
  <2> QED
    BY <2>1, <2>2, <2>3
<1> QED
  BY <1>1, <1>2

\* The inductive invariant holds in every reachable state.
THEOREM PipeInvariant == Spec => []IInv
<1> QED
  BY InitHolds, StepKeeps, PTL DEF Spec

\* Every variable keeps its type: the counters, which overflow, never differ by
\* more than PIPESIZE, and f->ref is the number of processes at most.
THEOREM PipeTypeOK == Spec => []TypeOK
<1>1. IInv => TypeOK
  BY DEF IInv
<1> QED
  BY <1>1, PipeInvariant, PTL

\* fileclose(), pipeclose() and the error path of pipe(): however processes fork,
\* close and die, the page of the pipe is freed when its last descriptor is closed,
\* once, and nobody is inside it then.
THEOREM PipeFreedAtLastClose == Spec => []FreedAtLastClose
<1>1. IInv => FreedAtLastClose
  <2> SUFFICES ASSUME IInv PROVE FreedAtLastClose
    OBVIOUS
  <2>1. TypeOK /\ Files
    BY DEF IInv
  <2>2. ASSUME freed, NEW p \in Proc PROVE has[p] = {} /\ op[p].pc \in {"pipe", "user"}
    <3>1. open = {} /\ has[p] = {}
      BY <2>1, <2>2 DEF Files, Referred
    <3>2. op[p].pc \notin {"closeread", "closewrite"}
      BY <2>1, <3>1 DEF Files, Closing, ClosePc, End
    <3>3. op[p].pc \notin {"read", "reading", "empty", "write", "writing", "put"}
      BY <2>1, <3>1 DEF Files, Calling, Inside, End
    <3> QED
      BY <2>1, <3>1, <3>2, <3>3 DEF TypeOK, Place
  <2>3. ASSUME \A p \in Proc : has[p] = {} /\ op[p].pc \in {"pipe", "user"} PROVE freed
    BY <2>1, <2>3 DEF Files, Referred, ClosePc
  <2> QED
    BY <2>2, <2>3 DEF FreedAtLastClose
<1> QED
  BY <1>1, PipeInvariant, PTL

\* piperead() and pipewrite() sleep and wake each other through two channels: with
\* any number of readers and writers nobody sleeps when what he waits for is there,
\* but for the exception that NoLostWakeup names.
THEOREM PipeNoLostWakeup == Spec => []NoLostWakeup
<1>1. IInv => NoLostWakeup
  BY PipeConstants DEF IInv, NoLostWakeup, Readers, Writers, Locked, Holding
<1> QED
  BY <1>1, PipeInvariant, PTL

-----------------------------------------------------------------------------
(* The ring is a queue.                                                    *)

LEMMA Division ==
    ASSUME NEW a \in Int, NEW b \in Nat \ {0}
    PROVE  a = b * (a \div b) + (a % b) /\ a % b \in 0 .. b - 1 /\ a \div b \in Int
OBVIOUS

LEMMA Remainder ==
    ASSUME NEW b \in Nat \ {0}, NEW q \in Int, NEW r \in 0 .. b - 1, NEW a \in Int, a = b * q + r
    PROVE  a % b = r
OBVIOUS

LEMMA SlotWraps ==
    ASSUME NEW c \in Int
    PROVE  (c + UINT) % PIPESIZE = c % PIPESIZE
<1> DEFINE q == c \div PIPESIZE
           k == UINT \div PIPESIZE
           r == c % PIPESIZE
<1>1. PIPESIZE \in Nat \ {0} /\ UINT \in Nat /\ UINT % PIPESIZE = 0
  BY PipeConstants
<1>2. c = PIPESIZE * q + r /\ UINT = PIPESIZE * k /\ q \in Int /\ k \in Int /\ r \in 0 .. PIPESIZE - 1
  BY <1>1, Division
<1> HIDE DEF q, k, r
<1>3. c + UINT = PIPESIZE * (q + k) + r
  BY <1>1, <1>2
<1>4. q + k \in Int /\ c + UINT \in Int
  BY <1>1, <1>2
<1>5. (c + UINT) % PIPESIZE = r
  BY <1>1, <1>2, <1>3, <1>4, Remainder
<1> QED
  BY <1>5 DEF r

LEMMA SlotsDiffer ==
    ASSUME NEW c \in Int, NEW d \in Int, c < d, d < c + PIPESIZE
    PROVE  c % PIPESIZE # d % PIPESIZE
<1> DEFINE q == c \div PIPESIZE
           k == d \div PIPESIZE
<1>1. PIPESIZE \in Nat \ {0}
  BY PipeConstants
<1>2. c = PIPESIZE * q + (c % PIPESIZE) /\ d = PIPESIZE * k + (d % PIPESIZE) /\ q \in Int /\ k \in Int
  BY <1>1, Division
<1> SUFFICES ASSUME c % PIPESIZE = d % PIPESIZE PROVE FALSE
  OBVIOUS
<1> HIDE DEF q, k
<1>3. d - c = PIPESIZE * k - PIPESIZE * q
  BY <1>1, <1>2, Division
<1>4. d - c = PIPESIZE * (k - q)
  BY <1>1, <1>2, <1>3
<1>5. k - q \in Int /\ k - q > 0 /\ k - q < 1
  BY <1>1, <1>2, <1>4
<1> QED
  BY <1>5

Queue    == [k \in 1 .. InPipe |-> data[(nread + k - 1) % PIPESIZE]]
Readable == "read" \in open \/ op[Creator].pc = "pipe"

LEMMA QueueIs ==
    ASSUME TypeOK
    PROVE  InPipe \in 0 .. PIPESIZE /\ Queue \in Seq(Byte) /\ Len(Queue) = InPipe
<1>1. PIPESIZE \in Nat \ {0} /\ UINT \in Nat \ {0} /\ nread \in Int /\ nwrite \in Int
      /\ data \in [0 .. PIPESIZE - 1 -> Byte]
  BY PipeConstants DEF TypeOK
<1>2. InPipe \in 0 .. PIPESIZE
  BY <1>1, Division DEF TypeOK, InPipe
<1>3. ASSUME NEW k \in 1 .. InPipe PROVE data[(nread + k - 1) % PIPESIZE] \in Byte
  <2>1. nread + k - 1 \in Int
    BY <1>1, <1>2
  <2>2. (nread + k - 1) % PIPESIZE \in 0 .. PIPESIZE - 1
    BY <1>1, <2>1, Division
  <2> QED
    BY <1>1, <2>2
<1> HIDE DEF InPipe
<1>4. Queue \in [1 .. InPipe -> Byte]
  BY <1>3 DEF Queue
<1> QED
  BY <1>2, <1>4

LEMMA QueueKept == ASSUME UNCHANGED <<data, nread, nwrite>> PROVE Queue' = Queue
BY DEF Queue, InPipe

LEMMA QueuePut ==
    ASSUME TypeOK, TypeOK', ~ Full, nread' = nread, nwrite' = (nwrite + 1) % UINT, NEW b \in Byte,
           data' = [data EXCEPT ![nwrite % PIPESIZE] = b]
    PROVE  Queue' = Append(Queue, b)
<1> DEFINE N == InPipe
           slot(k) == (nread + k - 1) % PIPESIZE
<1>1. /\ PIPESIZE \in Nat \ {0} /\ UINT \in Nat \ {0}
      /\ nread \in 0 .. UINT - 1 /\ nwrite \in 0 .. UINT - 1
      /\ data \in [0 .. PIPESIZE - 1 -> Byte]
  BY PipeConstants DEF TypeOK
<1>2. N \in Nat /\ N < PIPESIZE /\ InPipe' = N + 1
  BY AfterPut, QueueIs
<1>3. nwrite = nread + N \/ nwrite + UINT = nread + N
  <2>1. N = IF nread <= nwrite THEN nwrite - nread ELSE nwrite - nread + UINT
    BY <1>1, Difference DEF InPipe
  <2> HIDE DEF N
  <2> QED
    BY <1>1, <1>2, <2>1
<1>4. nwrite % PIPESIZE = (nread + N) % PIPESIZE
  <2>1. (nwrite + UINT) % PIPESIZE = nwrite % PIPESIZE
    <3>1. nwrite \in Int
      BY <1>1
    <3> QED
      BY <3>1, SlotWraps
  <2> QED
    BY <1>3, <2>1
<1>5. ASSUME NEW k \in 1 .. N PROVE data'[slot(k)] = data[slot(k)]
  <2>1. nread + k - 1 \in Int /\ nread + N \in Int /\ nread + k - 1 < nread + N
        /\ nread + N < nread + k - 1 + PIPESIZE
    BY <1>1, <1>2, <1>5
  <2>2. slot(k) # nwrite % PIPESIZE
    BY <1>4, <2>1, SlotsDiffer
  <2>3. slot(k) \in 0 .. PIPESIZE - 1
    BY <1>1, <2>1, Division
  <2> QED
    BY <1>1, <2>2, <2>3
<1>6. data'[slot(N + 1)] = b
  <2>1. nread + (N + 1) - 1 = nread + N /\ nread + N \in Int
    BY <1>1, <1>2
  <2>2. (nread + N) % PIPESIZE \in 0 .. PIPESIZE - 1
    BY <1>1, <2>1, Division
  <2> QED
    BY <1>1, <1>4, <2>1, <2>2
<1>7. Queue' = [k \in 1 .. N + 1 |-> data'[slot(k)]]
  BY <1>2 DEF Queue
<1>8. Queue = [k \in 1 .. N |-> data[slot(k)]] /\ Len(Queue) = N /\ Queue \in Seq(Byte)
  BY QueueIs DEF Queue
<1> HIDE DEF N, slot
<1>9. Queue' = [k \in 1 .. N + 1 |-> IF k <= N THEN Queue[k] ELSE b]
  <2>1. ASSUME NEW k \in 1 .. N + 1
        PROVE  data'[slot(k)] = IF k <= N THEN Queue[k] ELSE b
    <3>1. k \in 1 .. N \/ k = N + 1
      BY <1>2, <2>1
    <3> QED
      BY <1>2, <1>5, <1>6, <1>8, <3>1
  <2> QED
    BY <1>7, <2>1
<1> QED
  BY <1>2, <1>8, <1>9

LEMMA QueueGet ==
    ASSUME TypeOK, TypeOK', ~ Empty, nread' = (nread + 1) % UINT, nwrite' = nwrite, data' = data
    PROVE  Queue # <<>> /\ Queue' = Tail(Queue)
<1> DEFINE N == InPipe
           slot(k) == (nread + k - 1) % PIPESIZE
<1>1. /\ PIPESIZE \in Nat \ {0} /\ UINT \in Nat \ {0}
      /\ nread \in 0 .. UINT - 1 /\ nwrite \in 0 .. UINT - 1
  BY PipeConstants DEF TypeOK
<1>2. N \in Nat /\ N > 0 /\ InPipe' = N - 1
  BY AfterGet, QueueIs
<1>3. nread' = nread + 1 \/ (nread' = 0 /\ nread + 1 = UINT)
  BY <1>1, NextCount
<1>4. ASSUME NEW k \in 1 .. N - 1 PROVE (nread' + k - 1) % PIPESIZE = slot(k + 1)
  <2>1. k \in Int
    BY <1>2
  <2>2. CASE nread' = nread + 1
    <3>1. nread' + k - 1 = nread + (k + 1) - 1
      BY <1>1, <2>1, <2>2
    <3> QED
      BY <3>1
  <2>3. CASE nread' = 0 /\ nread + 1 = UINT
    <3>1. nread + (k + 1) - 1 = (nread' + k - 1) + UINT /\ nread' + k - 1 \in Int
      BY <1>1, <2>1, <2>3
    <3> QED
      BY <3>1, SlotWraps
  <2> QED
    BY <1>3, <2>2, <2>3
<1>5. Queue' = [k \in 1 .. N - 1 |-> data[(nread' + k - 1) % PIPESIZE]]
  BY <1>2 DEF Queue
<1>6. Queue = [k \in 1 .. N |-> data[slot(k)]] /\ Len(Queue) = N /\ Queue \in Seq(Byte)
  BY QueueIs DEF Queue
<1> HIDE DEF N, slot
<1>7. Queue' = [k \in 1 .. N - 1 |-> Queue[k + 1]]
  <2>1. ASSUME NEW k \in 1 .. N - 1 PROVE data[(nread' + k - 1) % PIPESIZE] = Queue[k + 1]
    BY <1>2, <1>4, <1>6
  <2> QED
    BY <1>5, <2>1
<1> QED
  BY <1>2, <1>6, <1>7

LEMMA ReadableKept ==
    ASSUME NEW p \in Proc, open' = open, Others(p), op[p].pc # "pipe", op'[p].pc # "pipe"
    PROVE  Readable' = Readable
BY PipeConstants DEF Readable, Others

LEMMA InitMaps == Init => Fifo!Init
<1> SUFFICES ASSUME Init PROVE Fifo!Init
  OBVIOUS
<1>1. InPipe = 0
  BY PipeConstants, Difference DEF Init, InPipe
<1>2. Queue = <<>>
  BY <1>1 DEF Queue
<1>3. Readable = TRUE
  BY PipeConstants DEF Init, Readable, User
<1> QED
  BY <1>2, <1>3 DEF Fifo!Init, Queue, Readable

\* Every step puts a byte into the queue, takes one from it, closes it for writers
\* or does nothing to it.
LEMMA StepMaps ==
    ASSUME IInv, IInv', Next
    PROVE  \/ \E b \in Byte : /\ Readable /\ InPipe < PIPESIZE
                             /\ Queue' = Append(Queue, b) /\ Readable' = Readable
           \/ Queue # <<>> /\ Queue' = Tail(Queue) /\ Readable' = Readable
           \/ Readable' = FALSE /\ Queue' = Queue
           \/ Readable' = Readable /\ Queue' = Queue
<1> PICK p \in Proc :
      \/ Step(p) \/ Pipe(p) \/ Undone(p) \/ Call(p) \/ FileClose(p) \/ Exit(p) \/ Gone(p)
      \/ Kill(p) \/ \E q \in Proc : Fork(p, q)
  BY DEF Next
<1>1. TypeOK /\ TypeOK' /\ Files /\ op \in [Proc -> Ops]
  BY DEF IInv, TypeOK, Ops
<1>2. CASE WriteByte(p)
  <2>1. op[p].pc = "put" /\ "read" \in open
    BY <1>2 DEF IInv, WriteByte, At, Looping
  <2>2. PICK b \in Byte : data' = [data EXCEPT ![nwrite % PIPESIZE] = b]
    BY <1>2 DEF WriteByte
  <2>3. InPipe < PIPESIZE /\ Queue' = Append(Queue, b)
    BY <1>1, <1>2, <2>2, AfterPut, QueuePut DEF WriteByte
  <2>4. Readable /\ Readable'
    BY <1>2, <2>1 DEF WriteByte, Readable
  <2> QED
    BY <2>3, <2>4
<1>3. CASE ReadByte(p)
  <2>1. op[p].pc = "reading" /\ op'[p].pc = "reading" /\ Others(p)
    BY <1>1, <1>3 DEF ReadByte, At, Others, Ops
  <2>2. Readable' = Readable
    BY <1>3, <2>1, ReadableKept DEF ReadByte
  <2>3. Queue # <<>> /\ Queue' = Tail(Queue)
    BY <1>1, <1>3, QueueGet DEF ReadByte
  <2> QED
    BY <2>2, <2>3
<1>4. CASE \/ Acquire(p) \/ WriteTest(p) \/ WriteSleep(p) \/ WriteDone(p)
           \/ ReadTest(p) \/ ReadSleep(p) \/ ReadDone(p)
  <2>1. \E l \in {"reading", "writing", "put", "write", "empty", "read"} :
          Goto(p, l) \/ Return(p)
    BY <1>4 DEF Acquire, WriteTest, WriteSleep, WriteDone, ReadTest, ReadSleep, ReadDone,
       Sleep, Leave
  <2>2. op[p].pc # "pipe" /\ UNCHANGED ring
    BY <1>4 DEF Acquire, WriteTest, WriteSleep, WriteDone, ReadTest, ReadSleep, ReadDone, At, pipe
  <2>3. Others(p) /\ op'[p].pc # "pipe"
    BY <1>1, <2>1, GotoIs, ReturnIs DEF Place
  <2> QED
    BY <2>2, <2>3, QueueKept, ReadableKept DEF pipe, ring
<1>5. CASE \E e \in End : PipeClose(p, e)
  <2> PICK e \in End : PipeClose(p, e)
    BY <1>5
  <2>1. op[p].pc # "pipe" /\ Goto(p, "user") /\ open' = open \ {e}
        /\ UNCHANGED <<data, nread, nwrite>>
    BY DEF PipeClose, At
  <2>2. Others(p) /\ op'[p].pc = "user"
    BY <1>1, <2>1, GotoIs DEF Place
  <2>3. op[Creator].pc # "pipe" /\ op'[Creator].pc # "pipe"
    <3>1. open # {}
      BY <1>1 DEF PipeClose, At, Files, Closing, ClosePc
    <3> QED
      BY <1>1, <2>2, <3>1, PipeConstants DEF Files, Fresh, Others
  <2> QED
    BY <2>1, <2>3, QueueKept DEF Readable, End
<1>6. CASE Pipe(p)
  <2>1. /\ op[p].pc = "pipe" /\ op'[p].pc = "user" /\ p = Creator
        /\ open = {} /\ nread = 0 /\ nwrite = 0 /\ data' = data
    BY <1>1, <1>6, ReturnIs, PipeConstants DEF Pipe, At, Files, Fresh, NotYet
  <2>2. Queue' = Queue
    BY <1>6, <2>1, QueueKept DEF Pipe
  <2>3. Readable /\ (Readable' <=> "read" \in open') /\ Readable' \in BOOLEAN
    BY <2>1 DEF Readable
  <2> QED
    BY <2>2, <2>3
<1>7. CASE Call(p) \/ FileClose(p)
  <2>1. op[p].pc = "user" /\ UNCHANGED pipe
    BY <1>7 DEF Call, FileClose, InUser, At
  <2>2. Others(p) /\ op'[p].pc # "pipe"
    <3>1. CASE Call(p)
      <4>1. PICK e \in has[p], n \in 1 .. MaxN : op' = [op EXCEPT ![p] = [pc |-> e, i |-> 0, n |-> n]]
        BY <3>1 DEF Call
      <4>2. e \in End
        BY <1>1 DEF TypeOK
      <4> QED
        BY <1>1, <4>1, <4>2 DEF Others, End
    <3>2. CASE FileClose(p)
      <4>1. Goto(p, "closeread") \/ Goto(p, "closewrite") \/ op' = op
        BY <3>2 DEF FileClose
      <4> QED
        BY <1>1, <2>1, <4>1, GotoIs DEF Place, Others
    <3> QED
      BY <1>7, <3>1, <3>2
  <2> QED
    BY <2>1, <2>2, QueueKept, ReadableKept DEF pipe, ring
<1>8. CASE Undone(p) \/ Exit(p) \/ Gone(p) \/ Kill(p) \/ \E q \in Proc : Fork(p, q)
  <2>1. UNCHANGED <<data, nread, nwrite, open, op>>
    BY <1>8 DEF Undone, Exit, Gone, Kill, Fork, pipe, ring
  <2> QED
    BY <2>1, QueueKept DEF Readable
<1> QED
  BY <1>2, <1>3, <1>4, <1>5, <1>6, <1>7, <1>8 DEF Step

\* All readers and writers together see one bounded queue, also when nread and
\* nwrite overflow: what is read is what was written, in its order, and nothing is
\* put into a pipe that nobody can read.
THEOREM PipeIsFifo == Spec => OneQueue
<1>1. IInv /\ IInv' /\ [Next]_vars => [Fifo!Next]_(Fifo!vars)
  <2> SUFFICES ASSUME IInv, IInv', [Next]_vars PROVE [Fifo!Next]_(Fifo!vars)
    OBVIOUS
  <2>1. CASE UNCHANGED vars
    <3>1. Queue' = Queue /\ Readable' = Readable
      BY <2>1, QueueKept DEF vars, pipe, ring, Readable
    <3> QED
      BY <3>1 DEF Fifo!vars, Queue, Readable
  <2>2. CASE Next
    <3>1. Len(Queue) = InPipe
      BY QueueIs DEF IInv
    <3>2. CASE \E b \in Byte : /\ Readable /\ InPipe < PIPESIZE
                              /\ Queue' = Append(Queue, b) /\ Readable' = Readable
      BY <3>1, <3>2 DEF Fifo!Next, Fifo!Put, Queue, Readable
    <3>3. CASE Queue # <<>> /\ Queue' = Tail(Queue) /\ Readable' = Readable
      BY <3>3 DEF Fifo!Next, Fifo!Get, Queue, Readable
    <3>4. CASE Readable' = FALSE /\ Queue' = Queue
      BY <3>4 DEF Fifo!Next, Fifo!CloseRead, Queue, Readable
    <3>5. CASE Readable' = Readable /\ Queue' = Queue
      BY <3>5 DEF Fifo!vars, Queue, Readable
    <3> QED
      BY <2>2, <3>2, <3>3, <3>4, <3>5, StepMaps
  <2> QED
    BY <2>1, <2>2
<1> QED
  BY <1>1, InitMaps, PipeInvariant, PTL DEF Spec, OneQueue, Fifo!Spec
=============================================================================
