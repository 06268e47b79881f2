---------------------------- MODULE MCPageTables ----------------------------
(* A small machine for PageTables: pages are numbers and kalloc() takes the *)
(* lowest one on the list.  No operation looks at which page it is given,   *)
(* so any other choice only renames pages.                                  *)
EXTENDS PageTables, TLC
CONSTANTS p1, p2, p3, NumPages
MCPage == 1 .. NumPages
MCPick(S) == {CHOOSE pg \in S : \A r \in S : pg <= r}

\* All slots of the process table are alike, but for initproc.
Symmetry == Permutations(Proc \ {InitProc})

(* States that differ only in the names of their pages are one state.  While *)
(* each page is on the list once or held by one slot, a page in use is named *)
(* by its slot and all free pages are alike; otherwise the state is kept.    *)
UpToRenaming ==
    LET held       == {s \in Slot : ptr[s] # Null}
        pages      == {ptr[s] : s \in held}
        SlotOf(pg) == IF pg \in Page THEN {s \in held : ptr[s] = pg} ELSE pg
    IN  IF /\ Cardinality(held) = Cardinality(pages)
           /\ \A pg \in Page : free[pg] = IF pg \in pages THEN 0 ELSE 1
        THEN <<procVars, op, panicked, held,
               [t \in Table |-> [v \in Fixed |-> SlotOf(alias[t][v])]],
               {<<SlotOf(pg), upid[pg]>> : pg \in {r \in Page : upid[r] # Junk}}>>
        ELSE vars
=============================================================================
