------------------------------ MODULE TermCRLF ------------------------------
(***************************************************************************)
(* What the terminal line discipline of io.c promises, as the comment     *)
(* above ioterm_init states it (io.c 236-252): input and output CRLF       *)
(* normalization, each a machine with one bit of state (cr_in, cr_out)    *)
(* that maps every character to its normalized output.                    *)
(*                                                                         *)
(* The input half: characters arrive at the device (avail) and a reader   *)
(* takes any number of them at once; what it is given (delivered) is the  *)
(* input normalization of what it took (consumed).                        *)
(*                                                                         *)
(* The output half: a writer hands over a chunk; the chunk is counted as  *)
(* accepted and its output normalization is appended to the raw output.  *)
(***************************************************************************)
EXTENDS Naturals, Sequences, SequencesExt

CONSTANTS CR, LF, Chars, MaxChunk, MaxTyped

VARIABLES avail, consumed, delivered, crIn, accepted, out, crOut

inVars == <<avail, consumed, delivered, crIn>>
outVars == <<accepted, out, crOut>>

(* One character through the input machine: \r becomes \n and sets cr_in; *)
(* a \n right after \r is dropped; anything else passes and clears it.    *)
InChar(s, ch) ==
  [cr  |-> IF ch = CR THEN 1 ELSE 0,
   out |-> IF s.cr = 1 /\ ch = LF THEN s.out
           ELSE Append(s.out, IF ch = CR THEN LF ELSE ch)]

NormIn(cr, seq) == FoldLeft(InChar, [cr |-> cr, out |-> <<>>], seq)

(* One character through the output machine: a line end becomes \r\n,    *)
(* except the \n of a \r\n, which is dropped since \r already wrote it.   *)
OutChar(s, ch) ==
  [cr  |-> IF ch = CR THEN 1 ELSE 0,
   out |-> s.out \o (IF s.cr = 1 /\ ch = LF THEN <<>>
                     ELSE IF ch \in {CR, LF} THEN <<CR, LF>> ELSE <<ch>>)]

NormOut(cr, seq) == FoldLeft(OutChar, [cr |-> cr, out |-> <<>>], seq)

-----------------------------------------------------------------------------
InInit == avail = <<>> /\ consumed = <<>> /\ delivered = <<>> /\ crIn = 0

Arrive(ch) ==
  /\ Len(consumed) + Len(avail) < MaxTyped
  /\ avail' = Append(avail, ch)
  /\ UNCHANGED <<consumed, delivered, crIn>>

Take(k) ==
  LET r == NormIn(crIn, SubSeq(avail, 1, k))
  IN  /\ consumed' = consumed \o SubSeq(avail, 1, k)
      /\ avail' = SubSeq(avail, k + 1, Len(avail))
      /\ delivered' = delivered \o r.out
      /\ crIn' = r.cr

InNext == \/ \E ch \in Chars : Arrive(ch)
          \/ \E k \in 1..Len(avail) : Take(k)

InSpec == InInit /\ [][InNext]_inVars

-----------------------------------------------------------------------------
OutInit == accepted = <<>> /\ out = <<>> /\ crOut = 0

Put(s) ==
  LET r == NormOut(crOut, s)
  IN  /\ accepted' = accepted \o s
      /\ out' = out \o r.out
      /\ crOut' = r.cr

OutNext == \E s \in SeqOf(Chars, MaxChunk) \ {<<>>} : Put(s)

OutSpec == OutInit /\ [][OutNext]_outVars
=============================================================================
