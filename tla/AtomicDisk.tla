----------------------------- MODULE AtomicDisk -----------------------------
(***************************************************************************)
(* What the log promises to the file system: a disk that moves from one    *)
(* consistent content to the next in a single step, and only while no file *)
(* system call is in progress.  A crash takes the content back to the last *)
(* such step, so a call is on the disk with all of its writes or none.     *)
(***************************************************************************)
EXTENDS Naturals

CONSTANTS Block, Val

VARIABLES
    stable,   \* what the disk holds after a crash and recovery
    current,  \* what a read returns
    active    \* how many file system calls are in progress

vars == <<stable, current, active>>

Init == /\ stable \in [Block -> Val]
        /\ current = stable
        /\ active = 0

Begin == active' = active + 1 /\ UNCHANGED <<stable, current>>

Write(b, v) == /\ active > 0
               /\ current' = [current EXCEPT ![b] = v]
               /\ UNCHANGED <<stable, active>>

End == active > 0 /\ active' = active - 1 /\ UNCHANGED <<stable, current>>

Commit == active = 0 /\ stable' = current /\ UNCHANGED <<current, active>>

Crash == current' = stable /\ active' = 0 /\ UNCHANGED stable

Next == \/ Begin \/ End \/ Commit \/ Crash
        \/ \E b \in Block, v \in Val : Write(b, v)

Spec == Init /\ [][Next]_vars
=============================================================================
