---------------------------- MODULE StrtokProofs ----------------------------
(***************************************************************************)
(* Proof that strtok keeps its static ptr inside the caller's buffer and  *)
(* writes '\0' only over delimiters it has passed (BufferIntact), for all *)
(* letters, delimiters, string lengths and numbers of calls.               *)
(***************************************************************************)
EXTENDS Strtok, SequenceTheorems, WellFoundedInduction, TLAPS

Chars == Letters \cup Delims \cup {NUL}

\* The buffer holds characters, the string last passed holds no '\0', and
\* ptr is a pointer or NULL.
StrtokTyped ==
  /\ buf \in Seq(Chars)
  /\ orig \in Seq(Letters \cup Delims)
  /\ ptr \in Nat

\* BufferIntact is inductive once the buffer and the string are typed.
SInv == StrtokTyped /\ BufferIntact

-----------------------------------------------------------------------------
(* The scan of the loop *)

\* A non-empty set of naturals has a least element.
LEMMA LeastNat ==
  ASSUME NEW S \in SUBSET Nat, S # {}
  PROVE  \E m \in S : \A j \in S : m <= j
<1>1. PICK x \in S : \A y \in S : ~(<<y, x>> \in OpToRel(<, Nat))
  BY NatLessThanWellFounded, WFMin
<1>2. \A y \in S : x <= y
  <2> TAKE y \in S
  <2>1. <<y, x>> \in Nat \X Nat
    OBVIOUS
  <2>2. ~(y < x)
    BY <1>1, <2>1 DEF OpToRel
  <2> QED
    BY <2>2
<1> QED
  BY <1>2

\* From p on, a buffer that ends in '\0' has a first delimiter or '\0':
\* the loop of strtok stops inside the buffer.
LEMMA StopFound ==
  ASSUME NEW b \in Seq(Chars), NEW p \in 1 .. Len(b), b[Len(b)] = NUL
  PROVE  /\ Stop(b, p) \in p .. Len(b)
         /\ b[Stop(b, p)] \in Delims \cup {NUL}
         /\ \A j \in p .. Stop(b, p) - 1 : b[j] \notin Delims \cup {NUL}
<1> DEFINE S == {k \in p .. Len(b) : b[k] \in Delims \cup {NUL}}
<1>1. S \in SUBSET Nat /\ Len(b) \in S
  BY DEF S
<1>2. PICK m \in S : \A j \in S : m <= j
  BY <1>1, LeastNat
<1>3. /\ m \in p .. Len(b)
      /\ b[m] \in Delims \cup {NUL}
      /\ \A j \in p .. m - 1 : b[j] \notin Delims \cup {NUL}
  BY <1>2 DEF S
<1> QED
  BY <1>3 DEF Stop

\* One run of the loop from p: ptr ends on the '\0' or just past the cut
\* delimiter, still inside the buffer, and the only character written is a
\* delimiter from p on, cut to '\0' before the new ptr.
LEMMA ScanFacts ==
  ASSUME NEW b \in Seq(Chars), NEW p \in 1 .. Len(b), b[Len(b)] = NUL
  PROVE  /\ Scan(b, p).ptr \in p .. Len(b)
         /\ Scan(b, p).buf \in Seq(Chars)
         /\ Len(Scan(b, p).buf) = Len(b)
         /\ Scan(b, p).buf[Len(b)] = NUL
         /\ \A i \in 1 .. Len(b) :
              \/ Scan(b, p).buf[i] = b[i]
              \/ /\ b[i] \in Delims /\ Scan(b, p).buf[i] = NUL
                 /\ i < Scan(b, p).ptr
<1> DEFINE k == Stop(b, p)
<1>1. /\ k \in p .. Len(b)
      /\ b[k] \in Delims \cup {NUL}
  BY StopFound DEF k
<1>2. CASE b[k] = NUL
  BY <1>1, <1>2 DEF Scan, k
<1>3. CASE b[k] # NUL
  <2>1. b[k] \in Delims /\ k < Len(b)
    BY <1>1, <1>3
  <2>2. Scan(b, p) = [buf |-> [b EXCEPT ![k] = NUL], ptr |-> k + 1]
    BY <1>3 DEF Scan, k
  <2>3. /\ [b EXCEPT ![k] = NUL] \in Seq(Chars)
        /\ Len([b EXCEPT ![k] = NUL]) = Len(b)
    BY <1>1, ExceptSeq DEF Chars
  <2> QED
    BY <1>1, <2>1, <2>2, <2>3
<1> QED
  BY <1>2, <1>3

-----------------------------------------------------------------------------
(* The steps *)

LEMMA InitSInv == Init => SInv
BY EmptySeq DEF Init, SInv, StrtokTyped, BufferIntact, Chars, NULL

\* strtok(str, delim): the buffer is the new string and its terminator.
LEMMA StrSInv ==
  ASSUME StrtokAssumption, NEW s \in Strings, StrtokStr(s)
  PROVE  SInv'
<1> DEFINE b == s \o <<NUL>>
<1>1. s \in Seq(Letters \cup Delims)
  <2>1. PICK n \in 0 .. MaxLen : s \in [1 .. n -> Letters \cup Delims]
    BY DEF Strings
  <2> QED
    BY <2>1, SeqDef
<1>2. /\ b \in Seq(Chars)
      /\ Len(b) = Len(s) + 1
      /\ \A i \in 1 .. Len(s) : b[i] = s[i]
      /\ b[Len(b)] = NUL
  <2>1. s \in Seq(Chars) /\ <<NUL>> \in Seq(Chars)
    BY <1>1, SeqMonotonic DEF Chars
  <2> QED
    BY <2>1, ConcatProperties DEF b
<1>3. 1 \in 1 .. Len(b)
  BY <1>1, <1>2
<1>4. /\ Scan(b, 1).ptr \in 1 .. Len(b)
      /\ Scan(b, 1).buf \in Seq(Chars)
      /\ Len(Scan(b, 1).buf) = Len(b)
      /\ Scan(b, 1).buf[Len(b)] = NUL
      /\ \A i \in 1 .. Len(b) :
           \/ Scan(b, 1).buf[i] = b[i]
           \/ /\ b[i] \in Delims /\ Scan(b, 1).buf[i] = NUL
              /\ i < Scan(b, 1).ptr
  BY <1>2, <1>3, ScanFacts
<1>5. buf' = Scan(b, 1).buf /\ ptr' = Scan(b, 1).ptr /\ orig' = s
  BY DEF StrtokStr, b
<1>6. StrtokTyped'
  BY <1>1, <1>4, <1>5 DEF StrtokTyped
<1>7. /\ Len(buf') = Len(orig') + 1
      /\ buf'[Len(buf')] = NUL
      /\ ptr' \in 1 .. Len(buf')
  BY <1>2, <1>4, <1>5
<1>8. \A i \in 1 .. Len(orig') :
        \/ buf'[i] = orig'[i]
        \/ buf'[i] = NUL /\ orig'[i] \in Delims /\ i < ptr'
  <2> TAKE i \in 1 .. Len(orig')
  <2>1. i \in 1 .. Len(b) /\ b[i] = s[i]
    BY <1>1, <1>2, <1>5
  <2> QED
    BY <1>4, <1>5, <2>1
<1> QED
  BY <1>6, <1>7, <1>8 DEF SInv, BufferIntact

\* strtok(NULL, delim): NULL, or the loop from the stored ptr.
LEMMA NullSInv ==
  ASSUME StrtokAssumption, SInv, StrtokNull
  PROVE  SInv'
<1>1. CASE ptr = NULL
  BY <1>1 DEF StrtokNull, SInv, StrtokTyped, BufferIntact
<1>2. CASE ptr # NULL
  <2>1. /\ buf \in Seq(Chars) /\ orig \in Seq(Letters \cup Delims)
        /\ ptr \in 1 .. Len(buf) /\ buf[Len(buf)] = NUL
        /\ Len(buf) = Len(orig) + 1
    BY <1>2 DEF SInv, StrtokTyped, BufferIntact
  <2>2. /\ Scan(buf, ptr).ptr \in ptr .. Len(buf)
        /\ Scan(buf, ptr).buf \in Seq(Chars)
        /\ Len(Scan(buf, ptr).buf) = Len(buf)
        /\ Scan(buf, ptr).buf[Len(buf)] = NUL
        /\ \A i \in 1 .. Len(buf) :
             \/ Scan(buf, ptr).buf[i] = buf[i]
             \/ /\ buf[i] \in Delims /\ Scan(buf, ptr).buf[i] = NUL
                /\ i < Scan(buf, ptr).ptr
    BY <2>1, ScanFacts
  <2>3. buf' = Scan(buf, ptr).buf /\ ptr' = Scan(buf, ptr).ptr /\ orig' = orig
    BY <1>2 DEF StrtokNull
  <2>4. \A i \in 1 .. Len(orig) : buf[i] \in Delims => buf[i] = orig[i]
    BY <2>1, StrtokAssumption DEF SInv, BufferIntact
  <2> QED
    BY <2>1, <2>2, <2>3, <2>4 DEF SInv, StrtokTyped, BufferIntact, NULL
<1> QED
  BY <1>1, <1>2

LEMMA NextSInv == StrtokAssumption /\ SInv /\ [Next]_vars => SInv'
BY StrSInv, NullSInv DEF Next, vars, SInv, StrtokTyped, BufferIntact

\* Every call of strtok keeps its static ptr on or before the terminator of
\* the caller's buffer and cuts only delimiters it has passed, whatever the
\* strings, the delimiters and the number of calls.
THEOREM BufferSafe == Spec => []BufferIntact
<1>1. Init => SInv
  BY InitSInv
<1>2. SInv /\ [Next]_vars => SInv'
  BY NextSInv, StrtokAssumption
<1>3. SInv => BufferIntact
  BY DEF SInv
<1> QED
  BY <1>1, <1>2, <1>3, PTL DEF Spec
=============================================================================
