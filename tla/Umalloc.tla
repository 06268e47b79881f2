------------------------------ MODULE Umalloc ------------------------------
(***************************************************************************)
(* malloc() and free() of user/umalloc.c.  Memory is counted in units of   *)
(* one Header, from the end of the program, where sbrk() starts; base is   *)
(* below it, at 0.  A step is one turn of a loop.  The program may call    *)
(* sbrk() itself, so that the memory of malloc() is not in one piece.      *)
(***************************************************************************)
EXTENDS Integers, FiniteSets

CONSTANTS
    LIMIT,    \* bound: sbrk() fails beyond; small enough for morecore()'s int
    MORECORE, \* units that morecore() asks for at least (4096)
    MaxUnits  \* bound: units in a malloc(), with its header

UmallocConstants == {LIMIT, MORECORE, MaxUnits} \subseteq Nat \ {0}

Base == 0
Null == -1
Addr == 0 .. LIMIT

VARIABLES
    hdr,      \* the headers in use: s.ptr and s.size
    freep,
    brk,      \* where sbrk() has got to
    taken,    \* the headers of what malloc() has returned, and free() not taken
    core,     \* the units that morecore() has got
    op        \* where the program is, and the variables of malloc() and free()

vars == <<hdr, freep, brk, taken, core, op>>

User == [pc |-> "user", n |-> 0, p |-> Null, prevp |-> Null, bp |-> Null]
At(l) == op.pc = l

Init ==
    /\ hdr = [a \in {Base} |-> [ptr |-> Null, size |-> 0]] /\ freep = Null
    /\ brk = 1 /\ taken = {} /\ core = {} /\ op = User

\* The header at a, new or changed.
Set(h, a, s, t) == [x \in DOMAIN h \cup {a} |-> IF x = a THEN [ptr |-> t, size |-> s] ELSE h[x]]
Without(h, a)   == [x \in DOMAIN h \ {a} |-> h[x]]

\* malloc() up to its loop, for n units.
Malloc ==
    /\ At("user")
    /\ \E n \in 1 .. MaxUnits :
          IF freep = Null
          THEN /\ hdr' = Set(hdr, Base, 0, Base) /\ freep' = Base
               /\ op' = [User EXCEPT !.pc = "scan", !.n = n, !.prevp = Base, !.p = Base]
          ELSE /\ op' = [User EXCEPT !.pc = "scan", !.n = n, !.prevp = freep, !.p = hdr[freep].ptr]
               /\ UNCHANGED <<hdr, freep>>
    /\ UNCHANGED <<brk, taken, core>>

\* A block that is large enough: all of it, or its end.
Take ==
    LET p == op.p  n == op.n  s == hdr[op.p].size IN
    /\ At("scan") /\ s >= n
    /\ IF s = n
       THEN /\ hdr' = [hdr EXCEPT ![op.prevp].ptr = hdr[p].ptr, ![p].ptr = Null]
            /\ taken' = taken \cup {p}
       ELSE /\ hdr' = Set([hdr EXCEPT ![p].size = s - n], p + s - n, n, Null)
            /\ taken' = taken \cup {p + s - n}
    /\ freep' = op.prevp /\ op' = User
    /\ UNCHANGED <<brk, core>>

NextBlock ==
    /\ At("scan") /\ hdr[op.p].size < op.n /\ op.p # freep
    /\ op' = [op EXCEPT !.prevp = op.p, !.p = hdr[op.p].ptr]
    /\ UNCHANGED <<hdr, freep, brk, taken, core>>

\* All blocks are too small: sbrk() fails, or free() is given what it returned.
Morecore ==
    LET nu == IF op.n < MORECORE THEN MORECORE ELSE op.n IN
    /\ At("scan") /\ hdr[op.p].size < op.n /\ op.p = freep
    /\ IF brk + nu > LIMIT
       THEN op' = User /\ UNCHANGED <<hdr, brk, core>>
       ELSE /\ hdr' = Set(hdr, brk, nu, Null)
            /\ brk' = brk + nu /\ core' = core \cup (brk .. brk + nu - 1)
            /\ op' = [op EXCEPT !.pc = "free", !.bp = brk, !.p = freep]
    /\ UNCHANGED <<freep, taken>>

Free ==
    /\ At("user")
    /\ \E b \in taken : /\ taken' = taken \ {b}
                        /\ op' = [User EXCEPT !.pc = "free", !.bp = b, !.p = freep]
    /\ UNCHANGED <<hdr, freep, brk, core>>

\* bp belongs after p, or p is the highest block and bp outside of them all.
Place == LET p == op.p  q == hdr[op.p].ptr  b == op.bp IN
         \/ b > p /\ b < q
         \/ p >= q /\ (b > p \/ b < q)

FindPlace ==
    /\ At("free") /\ ~ Place
    /\ op' = [op EXCEPT !.p = hdr[op.p].ptr]
    /\ UNCHANGED <<hdr, freep, brk, taken, core>>

Joins(h, a, b) == a + h[a].size = b

\* bp takes in the block after it.
JoinUpper(h, b, q) ==
    IF Joins(h, b, q) THEN Set(Without(h, q), b, h[b].size + h[q].size, h[q].ptr)
                      ELSE [h EXCEPT ![b].ptr = q]

\* Mutant: a block is not joined to the one before it.
MutJoinLower(h, p, b) == [h EXCEPT ![p].ptr = b]

\* p takes in bp.
JoinLower(h, p, b) ==
    IF Joins(h, p, b) THEN Set(Without(h, b), p, h[p].size + h[b].size, h[b].ptr)
                      ELSE [h EXCEPT ![p].ptr = b]

\* morecore() returns freep, and the loop of malloc() goes on from there.
Insert ==
    /\ At("free") /\ Place
    /\ hdr' = JoinLower(JoinUpper(hdr, op.bp, hdr[op.p].ptr), op.p, op.bp)
    /\ freep' = op.p
    /\ op' = IF op.n = 0 THEN User
             ELSE [op EXCEPT !.pc = "scan", !.bp = Null, !.prevp = op.p, !.p = hdr'[op.p].ptr]
    /\ UNCHANGED <<brk, taken, core>>

\* The program's own sbrk().
Sbrk == At("user") /\ brk < LIMIT /\ brk' = brk + 1 /\ UNCHANGED <<hdr, freep, taken, core, op>>

Next == Malloc \/ Take \/ NextBlock \/ Morecore \/ Free \/ FindPlace \/ Insert \/ Sbrk

Spec == Init /\ [][Next]_vars
-----------------------------------------------------------------------------
(* Properties.                                                             *)

Block(a) == a .. a + hdr[a].size - 1

\* The blocks on the list that freep is in.
OnList == DOMAIN hdr \ (taken \cup {op.bp})

TypeOK ==
    /\ freep \in Addr \cup {Null} /\ brk \in 1 .. LIMIT
    /\ taken \subseteq DOMAIN hdr /\ core \subseteq 1 .. brk - 1
    /\ DOMAIN hdr \subseteq Addr
    /\ \A a \in DOMAIN hdr : hdr[a].size \in 0 .. LIMIT /\ hdr[a].ptr \in Addr \cup {Null}

\* The first block of the list after a, or the lowest, if a is the highest.
After(a) == LET up == {b \in OnList : b > a} IN
            IF up = {} THEN Base ELSE CHOOSE b \in up : \A c \in up : b <= c

\* Between calls, whatever they were: each unit that morecore() got is in one
\* block, which is the program's or free; the free ones are on a ring in the
\* order of their addresses, no two of them side by side, and free() and
\* malloc() start from one of them.
Exact == At("user") =>
    /\ core = UNION {Block(a) : a \in DOMAIN hdr}
    /\ \A a, b \in DOMAIN hdr : a # b => Block(a) \cap Block(b) = {}
    /\ freep # Null => /\ freep \in OnList
                       /\ \A a \in OnList : hdr[a].ptr = After(a)
                       /\ \A a, b \in OnList : a = b \/ ~ Joins(hdr, a, b)
=============================================================================
