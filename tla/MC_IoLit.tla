------------------------------ MODULE MC_IoLit ------------------------------
(* IoLit for TLC: a 3-byte literal, requests up to 4 bytes, and seeks up   *)
(* to one past the end, so short, exact and past-the-end transfers occur. *)
EXTENDS IoLit
=============================================================================
