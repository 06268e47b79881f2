----------------------------- MODULE UserMemory -----------------------------
(***************************************************************************)
(* How the kernel reads and writes the memory of a process, and sees what  *)
(* the process has used: copyout(), copyin() and copyinstr() of vm.c, and  *)
(* sys_pgaccess() of sysproc.c, with the accessed bits that the hart sets. *)
(*                                                                         *)
(* The unit of memory is four bytes.  A step is one turn of a loop, for    *)
(* one page.  No other process and no other hart sees the page table.      *)
(***************************************************************************)
EXTENDS Naturals

CONSTANTS
    NPAGE,      \* pages below MAXVA
    PGSIZE,
    Kind,       \* "none", "code", "data" or "guard": what exec() has made of a page
    Nul,        \* addresses with a zero byte
    MAX_PAGES,
    MaskSize,   \* unsigned int, as pgtbltest.c passes it
    BitmapSize, \* uint64
    Counts,        \* bound: pages that pgaccess() is asked about
    Lengths         \* bound: lengths of what is copied

UserMemoryConstants ==
    /\ {NPAGE, PGSIZE, MAX_PAGES, MaskSize, BitmapSize} \subseteq Nat \ {0}
    /\ Counts \cup Lengths \cup Nul \subseteq Nat
    /\ Kind \in [0 .. NPAGE - 1 -> {"none", "code", "data", "guard"}]

Page  == 0 .. NPAGE - 1
MAXVA == NPAGE * PGSIZE
Va    == 0 .. MAXVA   \* bound: the addresses that a process passes

VARIABLES
    accessed,  \* pages with PTE_A
    tlb,       \* pages whose entry the hart has cached, with PTE_A set
    touched,   \* pages used since a pgaccess() has reported them
    lost,      \* those of them that a failed pgaccess() has seen
    call,      \* the call in progress, and its local variables
    panicked

vars == <<accessed, tlb, touched, lost, call, panicked>>

PageOf(va) == va \div PGSIZE
At(l)      == call.pc = l
User       == [pc |-> "user"]

\* PTE_V and PTE_U, as walkaddr() wants them; copyout() wants PTE_W as well.
Mapped(va)   == va < MAXVA /\ Kind[PageOf(va)] # "none"
Readable(va) == Mapped(va) /\ Kind[PageOf(va)] \in {"code", "data"}
Writable(va) == Mapped(va) /\ Kind[PageOf(va)] = "data"
Usable(va)   == IF call.op \in {"copyin", "copyinstr"} THEN Readable(va) ELSE Writable(va)

\* A load or store: the hart sets PTE_A when it walks the page table, and does
\* not walk it for a page whose entry it has.
Touch(v) ==
    /\ At("user") /\ Kind[v] \in {"code", "data"}
    /\ accessed' = IF v \in tlb THEN accessed ELSE accessed \cup {v}
    /\ tlb' = tlb \cup {v} /\ touched' = touched \cup {v} /\ lost' = lost \ {v}
    /\ UNCHANGED <<call, panicked>>

\* A system call that copies len units at va.
Call(op) ==
    /\ At("user")
    /\ \E va \in Va, len \in Lengths :
          call' = [pc |-> "copy", op |-> op, start |-> va, size |-> len,
                   va |-> va, len |-> len, done |-> {}]
    /\ UNCHANGED <<accessed, tlb, touched, lost, panicked>>

Pgaccess ==
    /\ At("user")
    /\ \E base \in Va, num \in Counts, mask \in Va :
          call' = [pc |-> "scan", op |-> "pgaccess", base |-> base, mask |-> mask,
                   num |-> IF num > MAX_PAGES THEN MAX_PAGES ELSE num,
                   i |-> 0, bitmap |-> {}]
    /\ UNCHANGED <<accessed, tlb, touched, lost, panicked>>

\* Mutant: the accessed bits are not cleared.
MutScan ==
    LET va == call.base + call.i * PGSIZE IN
    /\ At("scan") /\ call.i < call.num /\ va < MAXVA
    /\ call' = [call EXCEPT !.i = @ + 1,
                            !.bitmap = IF Mapped(va) /\ PageOf(va) \in accessed
                                       THEN @ \cup {call.i} ELSE @]
    /\ UNCHANGED <<accessed, tlb, touched, lost, panicked>>

\* walk() panics beyond MAXVA.
Scan ==
    LET va == call.base + call.i * PGSIZE IN
    /\ At("scan") /\ call.i < call.num
    /\ IF va >= MAXVA
       THEN panicked' = "walk" /\ UNCHANGED <<accessed, call>>
       ELSE /\ accessed' = accessed \ {PageOf(va)}
            /\ call' = [call EXCEPT !.i = @ + 1,
                                    !.bitmap = IF Mapped(va) /\ PageOf(va) \in accessed
                                               THEN @ \cup {call.i} ELSE @]
            /\ UNCHANGED panicked
    /\ UNCHANGED <<tlb, touched, lost>>

\* copyout() of the bitmap.
ScanDone ==
    /\ At("scan") /\ call.i = call.num
    /\ call' = [pc |-> "copy", op |-> "pgaccess", base |-> call.base, num |-> call.num,
                bitmap |-> call.bitmap, start |-> call.mask, size |-> BitmapSize,
                va |-> call.mask, len |-> BitmapSize, done |-> {}]
    /\ UNCHANGED <<accessed, tlb, touched, lost, panicked>>

Returning(ok, done) == [call EXCEPT !.pc = IF ok THEN "ok" ELSE "failed", !.done = done]

\* n in the code: as much of the page as is wanted.
Part == LET rest == PGSIZE - (call.va % PGSIZE) IN IF rest > call.len THEN call.len ELSE rest

\* copyin() and copyout(): one page, or failure at its first byte.
CopyPage ==
    /\ At("copy") /\ call.op # "copyinstr" /\ call.len > 0
    /\ call' = IF Usable(call.va)
               THEN [call EXCEPT !.done = @ \cup (call.va .. call.va + Part - 1),
                                 !.va = @ + Part, !.len = @ - Part]
               ELSE Returning(FALSE, call.done)
    /\ UNCHANGED <<accessed, tlb, touched, lost, panicked>>

\* copyinstr(): up to the first zero of the page; max counts what comes before it.
CopyStringPage ==
    LET part == call.va .. call.va + Part - 1
        nul  == {a \in part \cap Nul : \A b \in part \cap Nul : a <= b}
    IN
    /\ At("copy") /\ call.op = "copyinstr" /\ call.len > 0
    /\ call' = IF ~ Usable(call.va) THEN Returning(FALSE, call.done)
               ELSE IF nul = {}
               THEN [call EXCEPT !.done = @ \cup part, !.va = @ + Part, !.len = @ - Part]
               ELSE Returning(TRUE, call.done \cup {a \in part : \E b \in nul : a <= b})
    /\ UNCHANGED <<accessed, tlb, touched, lost, panicked>>

\* All is copied; copyinstr() has not found a zero.
CopyDone ==
    /\ At("copy") /\ call.len = 0
    /\ call' = Returning(call.op # "copyinstr", call.done)
    /\ UNCHANGED <<accessed, tlb, touched, lost, panicked>>

Reported == {v \in Page : \E i \in 0 .. call.num - 1 : v = PageOf(call.base) + i}

\* userret flushes the TLB.
Return ==
    /\ At("ok") \/ At("failed")
    /\ tlb' = {}
    /\ touched' = IF At("ok") /\ call.op = "pgaccess" THEN touched \ Reported ELSE touched
    /\ lost' = IF At("failed") /\ call.op = "pgaccess" THEN lost \cup (touched \cap Reported)
               ELSE lost \cap touched'
    /\ call' = User /\ UNCHANGED <<accessed, panicked>>

Init ==
    /\ accessed = {} /\ tlb = {} /\ touched = {} /\ lost = {}
    /\ call = User /\ panicked = "no"

Next ==
    /\ panicked = "no"
    /\ \/ \E v \in Page : Touch(v)
       \/ \E op \in {"copyin", "copyout", "copyinstr"} : Call(op)
       \/ Pgaccess \/ Scan \/ ScanDone \/ CopyPage \/ CopyStringPage \/ CopyDone \/ Return

Spec == Init /\ [][Next]_vars
-----------------------------------------------------------------------------
(* Properties.                                                             *)

TypeOK ==
    /\ accessed \subseteq Page /\ tlb \subseteq Page /\ touched \subseteq Page
    /\ lost \subseteq touched /\ panicked \in {"no", "walk"}
    /\ call.pc \in {"user", "scan", "copy", "ok", "failed"}

\* pgaccess() reports the pages used since it reported them last, all of them
\* and no others, but for those whose report could not be copied out.
PgaccessExact == At("ok") /\ call.op = "pgaccess" =>
    call.bitmap = {i \in 0 .. call.num - 1 : PageOf(call.base) + i \in touched \ lost}

Wanted == call.start .. call.start + call.size - 1
Copied(Can(_)) == {a \in Wanted : \A b \in call.start .. a : Can(b)}
NoNulBefore(b) == Readable(b) /\ \A a \in call.start .. b - 1 : a \notin Nul

\* A copy transfers the bytes that a copy byte by byte would, up to the first
\* that is not the process's to read, or to write, or up to the first zero;
\* and succeeds if there is none such, or such a zero.
CopyExact == At("ok") \/ At("failed") =>
    CASE call.op = "copyin" ->
            call.done = Copied(Readable) /\ (At("ok") <=> call.done = Wanted)
      [] call.op \in {"copyout", "pgaccess"} ->
            call.done = Copied(Writable) /\ (At("ok") <=> call.done = Wanted)
      [] call.op = "copyinstr" ->
            call.done = Copied(NoNulBefore) /\ (At("ok") <=> call.done \cap Nul # {})

\* pgtbltest.c passes the address of an unsigned int.
OnlyMask == At("ok") /\ call.op = "pgaccess" =>
    call.done \subseteq call.start .. call.start + MaskSize - 1
=============================================================================
