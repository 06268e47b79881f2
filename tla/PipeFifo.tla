------------------------------- MODULE PipeFifo -------------------------------
(***************************************************************************)
(* What a pipe promises: a bounded queue of bytes that comes out in the    *)
(* order it went in, and that takes nothing any more once no process can   *)
(* read it.                                                                *)
(***************************************************************************)
EXTENDS Naturals, Sequences

CONSTANTS Byte, Capacity

VARIABLES
    queue,     \* the bytes written and not read yet
    readable   \* the read end is open

vars == <<queue, readable>>

Init == queue = <<>> /\ readable = TRUE

Put(b) == /\ readable /\ Len(queue) < Capacity
          /\ queue' = Append(queue, b)
          /\ UNCHANGED readable

Get == queue # <<>> /\ queue' = Tail(queue) /\ UNCHANGED readable

CloseRead == readable' = FALSE /\ UNCHANGED queue

Next == (\E b \in Byte : Put(b)) \/ Get \/ CloseRead

Spec == Init /\ [][Next]_vars
=============================================================================
