----------------------------- MODULE MCDiskLog -----------------------------
(* An instance of DiskLog for TLC. *)
EXTENDS DiskLog

CONSTANTS b1, b2, b3, p1, p2
=============================================================================
