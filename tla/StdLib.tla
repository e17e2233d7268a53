------------------------------- MODULE StdLib -------------------------------
(***************************************************************************)
(* atoi and itoa of stdlib.c over W-bit two's-complement ints, with C's   *)
(* truncating / and %. A string is the sequence of its character codes,   *)
(* without the terminating '\0'. Signed overflow (undefined in C) takes   *)
(* the outcome the RISC-V build produces: wrap-around modulo 2^W.         *)
(*                                                                         *)
(* The state is the arguments of one call of itoa (num, base), whose      *)
(* result a caller may hand back to atoi; each step is another call.      *)
(***************************************************************************)
EXTENDS Integers, Sequences, SequencesExt

CONSTANTS
  W,        \* width of int in bits
  Bases     \* the bases callers pass to itoa

ASSUME StdLibAssumption == W \in Nat \ {0} /\ Bases \subseteq 2..36

MinInt == -(2^(W - 1))
MaxInt == 2^(W - 1) - 1
IntW == MinInt..MaxInt

(* The int a W-bit machine holds for the mathematical value x.            *)
Wrap(x) == ((x - MinInt) % 2^W) + MinInt

(* C's / and % on ints: the quotient is truncated toward zero.            *)
CDiv(a, b) == IF (a >= 0) = (b > 0) THEN a \div b ELSE -((-a) \div b)
CMod(a, b) == a - b * CDiv(a, b)

ZERO == 48      \* '0'
MINUS == 45     \* '-'

VARIABLES num, base

vars == <<num, base>>

-----------------------------------------------------------------------------
(* Mutant: the letter digits start one value early (rem >= 9).            *)
DigitCharOffByOne(rem) == IF rem >= 9 THEN (rem - 10) + 97 ELSE rem + ZERO

(* The character itoa stores for a remainder: 0-9, then 'a', 'b', ...     *)
DigitChar(rem) == IF rem > 9 THEN (rem - 10) + 97 ELSE rem + ZERO

(* itoa's digit loop: least significant digit first.                      *)
RECURSIVE ItoaLoop(_, _, _)
ItoaLoop(n, b, s) ==
  IF n = 0 THEN s
  ELSE ItoaLoop(CDiv(n, b), b, Append(s, DigitChar(CMod(n, b))))

(* itoa(num, str, base): "0" for 0; a negative number in base 10 is       *)
(* negated (wrapping) and gets a '-' after its digits; then the string is *)
(* reversed in place.                                                      *)
Itoa(n, b) ==
  IF n = 0 THEN <<ZERO>>
  ELSE LET neg == n < 0 /\ b = 10
           s   == ItoaLoop(IF neg THEN Wrap(-n) ELSE n, b, <<>>)
       IN  Reverse(IF neg THEN Append(s, MINUS) ELSE s)

(* atoi's digit loop: res = res * 10 + str[i] - '0', unchecked.           *)
RECURSIVE AtoiLoop(_, _, _)
AtoiLoop(s, i, res) ==
  IF i > Len(s) THEN res
  ELSE AtoiLoop(s, i + 1, Wrap(res * 10 + s[i] - ZERO))

(* Mutant: a leading '-' is not recognised.                               *)
AtoiNoSign(s) == AtoiLoop(s, 1, 0)

(* atoi(str): a leading '-' sets the sign; returns sign * res.            *)
Atoi(s) ==
  IF s # <<>> /\ s[1] = MINUS THEN Wrap(-AtoiLoop(s, 2, 0))
  ELSE AtoiLoop(s, 1, 0)

-----------------------------------------------------------------------------
Init == num \in IntW /\ base \in Bases

(* A caller calls itoa(n, str, b).                                        *)
Call(n, b) == num' = n /\ base' = b

Next == \E n \in IntW, b \in Bases : Call(n, b)

Spec == Init /\ [][Next]_vars

-----------------------------------------------------------------------------
(* The reference: the numeral of n >= 0 in base b, most significant digit *)
(* first, with the digits 0-9a-z.                                          *)
RECURSIVE Numeral(_, _)
Numeral(n, b) ==
  LET r == n % b
      d == IF r < 10 THEN ZERO + r ELSE 87 + r
  IN  IF n < b THEN <<d>> ELSE Numeral(n \div b, b) \o <<d>>

(* What the comment of itoa promises: signed decimal in base 10; in other *)
(* bases the number is taken as unsigned (its W-bit pattern).             *)
RefItoa(n, b) ==
  CASE b = 10 /\ n < 0 -> <<MINUS>> \o Numeral(-n, 10)
    [] n < 0           -> Numeral(n + 2^W, b)
    [] OTHER           -> Numeral(n, b)

(* itoa writes the standard numeral of every non-negative int, in every   *)
(* base callers use.                                                       *)
ItoaNonNegative == num >= 0 => Itoa(num, base) = RefItoa(num, base)

(* atoi reads back every int that itoa writes in base 10, negative ones   *)
(* included: the decimal conversions of stdlib.c are inverse.             *)
DecimalRoundTrip == base = 10 => Atoi(Itoa(num, 10)) = num

(* In base 10, itoa writes the signed decimal numeral of every int.       *)
ItoaDecimal == base = 10 => Itoa(num, 10) = RefItoa(num, 10)

(* In a base other than 10, itoa writes a negative int as the numeral of  *)
(* its unsigned value, as the comment of itoa says.                       *)
ItoaUnsignedBases ==
  (base # 10 /\ num < 0) => Itoa(num, base) = RefItoa(num, base)
=============================================================================
