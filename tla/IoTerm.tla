------------------------------- MODULE IoTerm -------------------------------
(***************************************************************************)
(* The terminal line discipline of io.c (ioterm_read, ioterm_write) used   *)
(* through the generic loops ioread_full and iowrite, over a raw UART.     *)
(*                                                                         *)
(* One reader and one writer use the terminal; cr_in and cr_out are       *)
(* separate, so the two directions share no state and interleave freely.  *)
(* A pass of ioterm_read's do-while loop (one ioread of the UART and the  *)
(* rewrite of what it returned) is one step, and so is one call of        *)
(* ioterm_write, with the bookkeeping of the io loop that called it.      *)
(* The UART read blocks until a character is there and then returns some  *)
(* of what is there, at most len; a UART write takes everything.          *)
(***************************************************************************)
EXTENDS Naturals, Sequences, SequencesExt

CONSTANTS
  CR, LF,       \* '\r' and '\n'
  Chars,        \* the characters: CR, LF and others
  MaxBuf,       \* largest bufsz / n passed to ioread_full and iowrite
  MaxTyped,     \* bound: characters the UART receives in a run
  MaxWrites     \* bound: iowrite calls in a run

ASSUME IoTermAssumption ==
  /\ {CR, LF} \subseteq Chars /\ CR # LF
  /\ MaxBuf \in Nat \ {0} /\ MaxTyped \in Nat /\ MaxWrites \in Nat

VARIABLES
  devIn,     \* received by the UART, not yet read
  consumed,  \* everything ioterm_read has taken from the UART
  crIn,      \* iot->cr_in
  rpc,       \* reader: "idle" or "busy" (inside ioread_full)
  rreq,      \* bufsz of the current / last ioread_full
  rbuf,      \* what ioread_full has accumulated (buf[0..acc))
  rret,      \* the value the last ioread_full returned
  got,       \* what completed ioread_full calls returned to the reader
  crOut,     \* iot->cr_out
  raw,       \* everything written to the UART
  wpc,       \* writer: "idle" or "busy" (inside iowrite)
  wbuf,      \* the buffer of the current / last iowrite
  wacc,      \* iowrite's acc; when idle, its return value
  written,   \* the prefixes of their buffers that iowrite calls reported
  fed,       \* everything passed to ioterm_write (history)
  wcalls     \* iowrite calls so far

inputVars == <<devIn, consumed, crIn, rpc, rreq, rbuf, rret, got>>
outputVars == <<crOut, raw, wpc, wbuf, wacc, written, fed, wcalls>>
vars == <<inputVars, outputVars>>

-----------------------------------------------------------------------------
(* Mutant: cr_in stays set after a character other than \r or \n.       *)
RECURSIVE TermReadScanKeepCr(_, _)
TermReadScanKeepCr(s, chunk) ==
  IF chunk = <<>> THEN s
  ELSE LET ch == Head(chunk)
       IN  TermReadScanKeepCr(
             IF s.cr = 1
             THEN CASE ch = CR -> [s EXCEPT !.out = Append(@, LF)]
                    [] ch = LF -> [s EXCEPT !.cr = 0]
                    [] OTHER   -> [s EXCEPT !.out = Append(@, ch)]
             ELSE IF ch = CR THEN [s EXCEPT !.cr = 1, !.out = Append(@, LF)]
                  ELSE [s EXCEPT !.out = Append(@, ch)],
             Tail(chunk))

(* The rewrite loop of ioterm_read over the characters the UART returned, *)
(* s = [cr |-> cr_in, out |-> the characters kept, up to wp].             *)
RECURSIVE TermReadScan(_, _)
TermReadScan(s, chunk) ==
  IF chunk = <<>> THEN s
  ELSE LET ch == Head(chunk)
       IN  TermReadScan(
             IF s.cr = 1
             THEN CASE ch = CR -> [s EXCEPT !.out = Append(@, LF)]
                    [] ch = LF -> [s EXCEPT !.cr = 0]
                    [] OTHER   -> [s EXCEPT !.cr = 0, !.out = Append(@, ch)]
             ELSE IF ch = CR THEN [s EXCEPT !.cr = 1, !.out = Append(@, LF)]
                  ELSE [s EXCEPT !.out = Append(@, ch)],
             Tail(chunk))

(* The scan loop of ioterm_write over b. rp and wp are offsets into b:    *)
(* b[1..wp] is written out, acc counts what the UART writes of b, and out *)
(* is what went to the UART (the writes and the ioputc of \n or \r).      *)
RECURSIVE TermWriteScan(_, _)
TermWriteScan(b, s) ==
  IF s.rp >= Len(b) THEN s
  ELSE LET ch == b[s.rp + 1]
           rp == s.rp + 1
       IN  TermWriteScan(b,
             CASE ch = CR /\ rp < Len(b) /\ b[rp + 1] = LF ->
                    [s EXCEPT !.cr = 0, !.rp = rp + 1]
               [] ch = CR ->
                    [s EXCEPT !.rp = rp, !.wp = rp, !.cr = 1,
                              !.acc = @ + (rp - s.wp),
                              !.out = @ \o SubSeq(b, s.wp + 1, rp) \o <<LF>>]
               [] ch = LF /\ s.cr = 1 ->
                    [s EXCEPT !.rp = rp, !.cr = 0, !.wp = @ + 1]
               [] ch = LF ->
                    [s EXCEPT !.rp = rp, !.wp = rp - 1, !.cr = 0,
                              !.acc = @ + (rp - 1 - s.wp),
                              !.out = @ \o SubSeq(b, s.wp + 1, rp - 1) \o <<CR>>]
               [] OTHER -> [s EXCEPT !.rp = rp, !.cr = 0])

(* Mutant: the characters after the last \r or \n are never written.     *)
TermWriteNoFlush(cr, b) ==
  TermWriteScan(b, [rp |-> 0, wp |-> 0, acc |-> 0, cr |-> cr, out |-> <<>>])

(* A whole call of ioterm_write: the scan, then the write of b(wp..rp].   *)
TermWrite(cr, b) ==
  LET s == TermWriteScan(b, [rp |-> 0, wp |-> 0, acc |-> 0, cr |-> cr, out |-> <<>>])
  IN  [s EXCEPT !.acc = @ + (s.rp - s.wp), !.out = @ \o SubSeq(b, s.wp + 1, s.rp)]

-----------------------------------------------------------------------------
Init ==
  /\ devIn = <<>> /\ consumed = <<>> /\ crIn = 0
  /\ rpc = "idle" /\ rreq = 0 /\ rbuf = <<>> /\ rret = 0 /\ got = <<>>
  /\ crOut = 0 /\ raw = <<>>
  /\ wpc = "idle" /\ wbuf = <<>> /\ wacc = 0 /\ written = <<>> /\ fed = <<>>
  /\ wcalls = 0

(* The UART receives a character (its interrupt handler buffers it).      *)
UartReceive(ch) ==
  /\ Len(consumed) + Len(devIn) < MaxTyped
  /\ devIn' = Append(devIn, ch)
  /\ UNCHANGED <<consumed, crIn, rpc, rreq, rbuf, rret, got, outputVars>>

(* The reader calls ioread_full(term, buf, n).                            *)
ReadCall(n) ==
  /\ rpc = "idle"
  /\ rpc' = "busy" /\ rreq' = n /\ rbuf' = <<>>
  /\ UNCHANGED <<devIn, consumed, crIn, rret, got, outputVars>>

(* Mutant: the UART read is not limited to len = bufsz - acc.            *)
ReadStepNoLen(k) ==
  LET chunk == SubSeq(devIn, 1, k)
      r     == TermReadScan([cr |-> crIn, out |-> <<>>], chunk)
      nb    == rbuf \o r.out
  IN  /\ rpc = "busy"
      /\ devIn' = SubSeq(devIn, k + 1, Len(devIn))
      /\ consumed' = consumed \o chunk
      /\ crIn' = r.cr
      /\ IF r.out = <<>> \/ Len(nb) < rreq
         THEN rbuf' = nb /\ UNCHANGED <<rpc, rret, got>>
         ELSE /\ rpc' = "idle" /\ rret' = Len(nb) /\ got' = got \o nb
              /\ rbuf' = <<>>
      /\ UNCHANGED <<rreq, outputVars>>

(* One pass of ioterm_read's do-while loop: the UART returns k characters *)
(* (1 <= k <= len = bufsz - acc), they are rewritten in place; if none is *)
(* left the loop reads again, otherwise ioterm_read returns them and      *)
(* ioread_full adds them to acc, returning when acc reaches bufsz.        *)
ReadStep(k) ==
  LET chunk == SubSeq(devIn, 1, k)
      r     == TermReadScan([cr |-> crIn, out |-> <<>>], chunk)
      nb    == rbuf \o r.out
  IN  /\ rpc = "busy"
      /\ k <= rreq - Len(rbuf)
      /\ devIn' = SubSeq(devIn, k + 1, Len(devIn))
      /\ consumed' = consumed \o chunk
      /\ crIn' = r.cr
      /\ IF r.out = <<>> \/ Len(nb) < rreq
         THEN rbuf' = nb /\ UNCHANGED <<rpc, rret, got>>
         ELSE /\ rpc' = "idle" /\ rret' = Len(nb) /\ got' = got \o nb
              /\ rbuf' = <<>>
      /\ UNCHANGED <<rreq, outputVars>>

(* The writer calls iowrite(term, b, n), n > 0.                           *)
WriteCall(b) ==
  /\ wpc = "idle" /\ wcalls < MaxWrites
  /\ wpc' = "busy" /\ wbuf' = b /\ wacc' = 0 /\ wcalls' = wcalls + 1
  /\ UNCHANGED <<crOut, raw, written, fed, inputVars>>

(* iowrite calls ioterm_write(term, b + acc, n - acc); a return of 0      *)
(* ends iowrite, otherwise acc grows and the loop goes on while acc < n.  *)
WriteStep ==
  LET rest == SubSeq(wbuf, wacc + 1, Len(wbuf))
      r    == TermWrite(crOut, rest)
      acc  == wacc + r.acc
  IN  /\ wpc = "busy"
      /\ raw' = raw \o r.out
      /\ crOut' = r.cr
      /\ fed' = fed \o rest
      /\ wacc' = acc
      /\ IF r.acc = 0 \/ acc >= Len(wbuf)
         THEN wpc' = "idle" /\ written' = written \o SubSeq(wbuf, 1, acc)
         ELSE UNCHANGED <<wpc, written>>
      /\ UNCHANGED <<wbuf, wcalls, inputVars>>

Next ==
  \/ \E ch \in Chars : UartReceive(ch)
  \/ \E n \in 1..MaxBuf : ReadCall(n)
  \/ \E k \in 1..Len(devIn) : ReadStep(k)
  \/ \E b \in SeqOf(Chars, MaxBuf) \ {<<>>} : WriteCall(b)
  \/ WriteStep

Spec == Init /\ [][Next]_vars

-----------------------------------------------------------------------------
(* The io_term as the comment above ioterm_init describes it.             *)
CRLF == INSTANCE TermCRLF
          WITH avail <- devIn, delivered <- got \o rbuf,
               accepted <- IF wpc = "busy" THEN written \o SubSeq(wbuf, 1, wacc)
                           ELSE written,
               out <- raw, MaxChunk <- MaxBuf

TypeOK ==
  /\ devIn \in Seq(Chars) /\ consumed \in Seq(Chars) /\ got \in Seq(Chars)
  /\ crIn \in {0, 1} /\ crOut \in {0, 1}
  /\ rpc \in {"idle", "busy"} /\ wpc \in {"idle", "busy"}
  /\ rreq \in 0..MaxBuf /\ rret \in 0..MaxBuf
  /\ rbuf \in SeqOf(Chars, MaxBuf)
  /\ wbuf \in SeqOf(Chars, MaxBuf) /\ wacc \in 0..Len(wbuf)
  /\ raw \in Seq(Chars) /\ written \in Seq(Chars) /\ fed \in Seq(Chars)
  /\ wcalls \in 0..MaxWrites

(* What ioterm_read hands out through ioread_full, and cr_in, are the     *)
(* input normalization of what it took from the UART, however the reads   *)
(* split the input: ioterm_read refines the input half of TermCRLF.       *)
InputRefines == CRLF!InSpec

(* Everything ioterm_write sent to the UART, and cr_out, are the output   *)
(* normalization of the concatenation of the buffers it was called with:  *)
(* the partial writes and the \r / \n it inserts lose or repeat nothing.  *)
TermWriteNormalizes ==
  LET n == CRLF!NormOut(0, fed) IN raw = n.out /\ crOut = n.cr

(* What iowrite reports written to the terminal, and what reaches the     *)
(* UART, are the accepted characters and their output normalization, as  *)
(* the comment and the iowrite contract (return what was written) state. *)
OutputRefines == CRLF!OutSpec
=============================================================================
