---------------------------- MODULE IoLitProofs ----------------------------
(***************************************************************************)
(* Proofs about the I/O literal, for every size, request bound and seek   *)
(* bound: the memcpy of io_lit_read / io_lit_write never leaves the       *)
(* literal, whatever IOCTL_SETPOS stored before it.                       *)
(***************************************************************************)
EXTENDS IoLit, TLAPS

(* The inductive invariant: the types, and the last copy inside the       *)
(* literal. Neither holds inductively alone: the bound of pos' needs      *)
(* Bytes(len) <= Size - pos, the bound of the copy needs pos in 0..MaxPos.*)
IInv == TypeOK /\ CopyInBounds

(* What one io_lit_read / io_lit_write copies, when pos is inside the     *)
(* literal: at most what was asked, and no further than its end.          *)
LEMMA BytesBounds ==
  ASSUME NEW len \in 0..MaxReq, pos \in 0..MaxPos, pos < Size
  PROVE  /\ Bytes(len) \in 0..len
         /\ pos + Bytes(len) <= Size
<1>1. (pos + len) % ULONG = pos + len
  BY IoLitAssumption
<1>2. (Size - pos) % ULONG = Size - pos
  BY IoLitAssumption
<1> QED
  BY <1>1, <1>2, IoLitAssumption DEF Bytes

LEMMA InitIInv == Init => IInv
  BY IoLitAssumption DEF Init, IInv, TypeOK, CopyInBounds

(* The loop turn preserves the invariant: past the end only pc and ret    *)
(* change; inside, the copy is clamped and the loop returns at once,      *)
(* since io_lit_read / io_lit_write return 0.                             *)
LEMMA LitStepIInv == IInv /\ LitStep => IInv'
<1> SUFFICES ASSUME IInv, LitStep PROVE IInv'
  OBVIOUS
<1> DEFINE len == req - acc
<1>1. len \in 0..MaxReq
  BY IoLitAssumption DEF IInv, TypeOK, len
<1>2. CASE pos >= Size
  <2>1. pc' = "idle" /\ ret' = -EINVAL /\ UNCHANGED <<pos, acc, copy, req, start>>
    BY <1>2 DEF LitStep
  <2>2. QED
    BY <2>1 DEF IInv, TypeOK, CopyInBounds
<1>3. CASE pos < Size
  <2>1. /\ copy' = [lo |-> pos, n |-> Bytes(len)]
        /\ pos' = (pos + Bytes(len)) % ULONG
        /\ pc' = "idle" /\ ret' = acc /\ acc' = acc
        /\ UNCHANGED <<req, start>>
    <3>1. pos \in 0..MaxPos /\ Size \in Nat
      BY IoLitAssumption DEF IInv, TypeOK
    <3>2. ~(pos >= Size)
      BY <1>3, <3>1
    <3>3. acc \in Int /\ acc + 0 = acc
      BY DEF IInv, TypeOK
    <3>4. QED
      BY <3>2, <3>3 DEF LitStep, LitReturn, len
  <2>2. pos \in 0..MaxPos
    BY DEF IInv, TypeOK
  <2>3. Bytes(len) \in 0..len /\ pos + Bytes(len) <= Size
    BY <1>1, <1>3, <2>2, BytesBounds
  <2>4. pos' = pos + Bytes(len)
    <3>1. pos + Bytes(len) \in 0..(ULONG - 1)
      BY <2>2, <2>3, <1>1, IoLitAssumption
    <3> QED
      BY <2>1, <3>1, IoLitAssumption
  <2>5. TypeOK'
    BY <2>1, <2>2, <2>3, <2>4, <1>1, IoLitAssumption DEF IInv, TypeOK, len
  <2>6. CopyInBounds'
    BY <2>1, <2>3 DEF CopyInBounds
  <2>7. QED
    BY <2>5, <2>6 DEF IInv
<1>4. QED
  BY <1>2, <1>3, IoLitAssumption DEF IInv, TypeOK

LEMMA NextIInv == IInv /\ [Next]_vars => IInv'
<1> SUFFICES ASSUME IInv, [Next]_vars PROVE IInv'
  OBVIOUS
<1>1. ASSUME NEW op \in {"read", "write"}, NEW n \in 1..MaxReq, Call(op, n)
      PROVE IInv'
  BY <1>1, IoLitAssumption DEF Call, IInv, TypeOK, CopyInBounds
<1>2. CASE LitStep
  BY <1>2, LitStepIInv
<1>3. ASSUME NEW p \in 0..MaxPos, SetPos(p) PROVE IInv'
  BY <1>3 DEF SetPos, IInv, TypeOK, CopyInBounds
<1>4. CASE UNCHANGED vars
  BY <1>4 DEF vars, IInv, TypeOK, CopyInBounds
<1>5. QED
  BY <1>1, <1>2, <1>3, <1>4 DEF Next

(* Every memcpy of io_lit_read and io_lit_write lies inside the literal,  *)
(* in every behaviour of the literal driven by ioread_full, iowrite and   *)
(* IOCTL_SETPOS, seeks past the end included: the pos >= size test keeps  *)
(* the unsigned size - pos of the clamp from wrapping.                     *)
THEOREM CopySafe == Spec => []CopyInBounds
<1>1. IInv => CopyInBounds
  BY DEF IInv
<1>2. Spec => []IInv
  BY InitIInv, NextIInv, PTL DEF Spec
<1>3. QED
  BY <1>1, <1>2, PTL

(* The literal's state stays well typed: pos within the seek range, acc   *)
(* within the request, the results either -EINVAL or a count.             *)
THEOREM LitTypeCorrect == Spec => []TypeOK
<1>1. IInv => TypeOK
  BY DEF IInv
<1>2. Spec => []IInv
  BY InitIInv, NextIInv, PTL DEF Spec
<1>3. QED
  BY <1>1, <1>2, PTL
=============================================================================
