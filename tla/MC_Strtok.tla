------------------------------ MODULE MC_Strtok ------------------------------
(* strtok on every string of up to 4 characters over one letter and two   *)
(* delimiters (so the inner loop over delim matches its second character),*)
(* with up to 4 calls per string: enough to run past the last token.      *)
EXTENDS StrtokFields

CONSTANTS a, d, e, Nul

MC_Letters == {a}
MC_Delims == {d, e}
=============================================================================
