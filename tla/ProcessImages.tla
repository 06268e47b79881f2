--------------------------- MODULE ProcessImages ---------------------------
(***************************************************************************)
(* What the memory system calls promise to user programs: fork, exec,      *)
(* sbrk, exit and wait each take effect at once or not at all, however     *)
(* much or little memory there is, and touch no image but the caller's and *)
(* the child's.  PageTables implements this.                               *)
(***************************************************************************)
EXTENDS Integers

CONSTANTS Proc,        \* the slots of the process table
          InitProc,    \* the first process
          PGSIZE,      \* bytes in a page
          MaxSz        \* the largest size of an image

VARIABLES status,      \* "none", "live" or "zombie"
          image        \* the size in bytes and the accessible pages

\* Every byte below n can be accessed, and no page wholly above it.
Whole(n) == [size |-> n, pages |-> {b \div PGSIZE : b \in 0 .. n - 1}]

Init == /\ status = [p \in Proc |-> "none"]
        /\ image  = [p \in Proc |-> Whole(0)]

Boot == /\ \A p \in Proc : status[p] = "none"
        /\ status' = [status EXCEPT ![InitProc] = "live"]
        /\ image'  = [image EXCEPT ![InitProc] = Whole(PGSIZE)]

Fork(p, q) == /\ status[p] = "live" /\ status[q] = "none"
              /\ status' = [status EXCEPT ![q] = "live"]
              /\ image'  = [image EXCEPT ![q] = image[p]]

\* exec() and sbrk()
NewImage(p) == /\ status[p] = "live"
               /\ \E n \in 0 .. MaxSz : image' = [image EXCEPT ![p] = Whole(n)]
               /\ UNCHANGED status

Exit(p) == /\ p # InitProc /\ status[p] = "live"
           /\ status' = [status EXCEPT ![p] = "zombie"]
           /\ image'  = [image EXCEPT ![p] = Whole(0)]

Reap(p) == /\ status[p] = "zombie"
           /\ status' = [status EXCEPT ![p] = "none"]
           /\ UNCHANGED image

Next == \/ Boot
        \/ \E p \in Proc : \/ NewImage(p) \/ Exit(p) \/ Reap(p)
                           \/ \E q \in Proc : Fork(p, q)

Spec == Init /\ [][Next]_<<status, image>>
=============================================================================
