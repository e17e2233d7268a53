---------------------------- MODULE StrtokFields ----------------------------
(***************************************************************************)
(* The reference the calls of strtok are compared with: the fields and    *)
(* the tokens of the string last passed, computed by a fold over it.      *)
(***************************************************************************)
EXTENDS Strtok, SequencesExt

(* The fields of s: the pieces between its delimiters, empty ones too.    *)
Fields(s) ==
  FoldLeft(LAMBDA fs, c : IF c \in Delims THEN Append(fs, <<>>)
                          ELSE [fs EXCEPT ![Len(fs)] = Append(@, c)],
           << <<>> >>, s)

(* The tokens of s: its non-empty fields.                                 *)
Tokens(s) == SelectSeq(Fields(s), LAMBDA f : f # <<>>)

(* After strtok(str), the calls return the fields of str in order, each   *)
(* cut at its end, and then the empty string at the terminator: no call   *)
(* returns text of another field, a delimiter, or a pointer past the end. *)
SplitsAtEveryDelimiter ==
  ptr # NULL =>
    \A i \in 1..Len(results) :
      results[i] = << IF i <= Len(Fields(orig)) THEN Fields(orig)[i] ELSE <<>> >>

(* Standard strtok (spec, open question on strtok): the calls return the  *)
(* non-empty tokens of str in order, then NULL.                            *)
StandardStrtok ==
  ptr # NULL =>
    \A i \in 1..Len(results) :
      results[i] = IF i <= Len(Tokens(orig)) THEN << Tokens(orig)[i] >> ELSE <<>>
=============================================================================
