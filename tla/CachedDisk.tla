----------------------------- MODULE CachedDisk -----------------------------
(***************************************************************************)
(* What the buffer cache promises to the file system: one copy of every    *)
(* block, used by one process at a time, that keeps what was last put into *)
(* it, wherever that is stored.                                            *)
(***************************************************************************)
CONSTANTS Proc, Block, Val

VARIABLES
    value,   \* the contents of each block
    users    \* the processes that hold it

vars == <<value, users>>

Init == value \in [Block -> Val] /\ users = [k \in Block |-> {}]

Get(p, k) == /\ users[k] = {} /\ users' = [users EXCEPT ![k] = {p}]
             /\ UNCHANGED value

Set(p, k, v) == /\ p \in users[k] /\ value' = [value EXCEPT ![k] = v]
                /\ UNCHANGED users

Put(p, k) == /\ p \in users[k] /\ users' = [users EXCEPT ![k] = {}]
             /\ UNCHANGED value

Next == \E p \in Proc, k \in Block :
            Get(p, k) \/ Put(p, k) \/ \E v \in Val : Set(p, k, v)

Spec == Init /\ [][Next]_vars
=============================================================================
