----------------------------- MODULE MCProcesses -----------------------------
(***************************************************************************)
(* Two instances of Processes for TLC in one run, chosen in the initial    *)
(* state:                                                                  *)
(*   "kill": nobody pauses;                                                *)
(*   "nap":  two processes pause in sys_sleep(), and nobody is killed.     *)
(***************************************************************************)
EXTENDS Processes

CONSTANTS h0, h1

VARIABLE on

K == INSTANCE Processes WITH Calls <- Calls \ {"sleep"}
N == INSTANCE Processes WITH Calls <- Calls \ {"kill", "fault"}, MaxPid <- 2

SpecBoth ==
    /\ on \in {"kill", "nap"} /\ Init
    /\ [][/\ UNCHANGED on
          /\ \/ on = "kill" /\ K!Next
             \/ on = "nap"  /\ N!Next]_<<on, vars>>

FairBoth == SpecBoth /\ Fairness
=============================================================================
