----------------------------- MODULE MC_Threads -----------------------------
(* Thread manager with five slots: main (0), idle (4) and three free slots,  *)
(* and one condition of another kernel object.                             *)
EXTENDS Threads

CONSTANTS d1

MC_NTHR == 5
MC_DevConds == {d1}

=============================================================================
