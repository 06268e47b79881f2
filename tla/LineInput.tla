----------------------------- MODULE LineInput -----------------------------
(***************************************************************************)
(* What the console promises to those who read it: the characters typed,   *)
(* in order, after the editing of the line they are in, one line per       *)
(* read(), and an end of file once for each ^D.                            *)
(***************************************************************************)
EXTENDS Naturals, Sequences

CONSTANTS Char, Reader, Capacity, None

VARIABLES
    ready,  \* what can be read
    line,   \* the line that is being edited
    got     \* how many bytes a read() has so far

vars == <<ready, line, got>>

Init == ready = <<>> /\ line = <<>> /\ got = [p \in Reader |-> None]

\* A line ends with a newline or ^D, and when there is no room left.
Type(c) ==
    /\ Len(ready \o line) < Capacity
    /\ IF c \in {"nl", "^D"} \/ Len(ready \o line) + 1 = Capacity
       THEN ready' = ready \o Append(line, c) /\ line' = <<>>
       ELSE line' = Append(line, c) /\ UNCHANGED ready
    /\ UNCHANGED got

Erase(k) == /\ k <= Len(line) /\ line' = SubSeq(line, 1, Len(line) - k)
            /\ UNCHANGED <<ready, got>>

Begin(p) == got[p] = None /\ got' = [got EXCEPT ![p] = 0] /\ UNCHANGED <<ready, line>>

\* The last byte of a line is the last of a read().
TakeByte(p) ==
    /\ got[p] # None /\ ready # <<>> /\ Head(ready) # "^D"
    /\ ready' = Tail(ready)
    /\ \E g \in {None} \cup (IF Head(ready) = "nl" THEN {} ELSE {got[p] + 1}) :
          got' = [got EXCEPT ![p] = g]
    /\ UNCHANGED line

\* ^D ends a read(), and is left for the next one if this has bytes.
EndOfFile(p) ==
    /\ got[p] # None /\ ready # <<>> /\ Head(ready) = "^D"
    /\ ready' = IF got[p] = 0 THEN Tail(ready) ELSE ready
    /\ got' = [got EXCEPT ![p] = None] /\ UNCHANGED line

\* Only for a reader that is killed.
GiveUp(p) ==
    /\ got[p] # None /\ ready = <<>>
    /\ got' = [got EXCEPT ![p] = None] /\ UNCHANGED <<ready, line>>

Next ==
    \/ \E c \in Char \cup {"nl", "^D"} : Type(c)
    \/ Erase(1) \/ Erase(Len(line))
    \/ \E p \in Reader : Begin(p) \/ TakeByte(p) \/ EndOfFile(p) \/ GiveUp(p)

Spec == Init /\ [][Next]_vars
=============================================================================
