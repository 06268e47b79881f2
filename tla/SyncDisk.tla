------------------------------ MODULE SyncDisk ------------------------------
(***************************************************************************)
(* What the disk driver promises to the buffer cache: a request copies one *)
(* block between its buffer and the disk in a single step, some time       *)
(* between the call and the return, and touches nothing else.              *)
(***************************************************************************)
CONSTANTS Proc, Buf, Block, Val, None

VARIABLES
    store,   \* the blocks on the disk
    data,    \* the contents of the buffers
    req      \* the request a process has made

vars == <<store, data, req>>

Idle == [pc |-> "idle", b |-> None, block |-> None, write |-> FALSE]

Free(b) == \A p \in Proc : req[p].pc # "idle" => req[p].b # b

Init == /\ store \in [Block -> Val] /\ data \in [Buf -> Val]
        /\ req = [p \in Proc |-> Idle]

Call(p) == /\ req[p].pc = "idle"
           /\ \E b \in Buf, k \in Block, w \in BOOLEAN :
                 /\ Free(b)
                 /\ req' = [req EXCEPT ![p] = [pc |-> "asked", b |-> b, block |-> k,
                                               write |-> w]]
           /\ UNCHANGED <<store, data>>

Copy(p) == LET r == req[p] IN
           /\ r.pc = "asked"
           /\ req' = [req EXCEPT ![p].pc = "done"]
           /\ IF r.write
              THEN store' = [store EXCEPT ![r.block] = data[r.b]] /\ UNCHANGED data
              ELSE data' = [data EXCEPT ![r.b] = store[r.block]] /\ UNCHANGED store

Return(p) == /\ req[p].pc = "done" /\ req' = [req EXCEPT ![p] = Idle]
             /\ UNCHANGED <<store, data>>

\* The holder of a buffer fills it.
Fill(b, v) == Free(b) /\ data' = [data EXCEPT ![b] = v] /\ UNCHANGED <<store, req>>

Next == \/ \E p \in Proc : Call(p) \/ Copy(p) \/ Return(p)
        \/ \E b \in Buf, v \in Val : Fill(b, v)

Spec == Init /\ [][Next]_vars
=============================================================================
