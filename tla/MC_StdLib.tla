------------------------------ MODULE MC_StdLib ------------------------------
(* atoi / itoa with an 8-bit int: every int, every base the kernel's       *)
(* callers and itoa's comment name. The overflow cases (INT_MIN, the wrap  *)
(* of atoi) are the same at every width.                                   *)
EXTENDS StdLib

MC_W == 8
MC_Bases == {2, 8, 10, 16}
=============================================================================
