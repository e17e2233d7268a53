----------------------------- MODULE MC_IoTerm -----------------------------
(* IoTerm for TLC: the characters \r, \n and one other, x.                 *)
EXTENDS IoTerm

CONSTANTS X

MC_Chars == {CR, LF, X}
=============================================================================
