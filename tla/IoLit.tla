------------------------------- MODULE IoLit --------------------------------
(***************************************************************************)
(* The I/O literal of io.c (iolit_init, io_lit_read, io_lit_write,         *)
(* io_lit_ioctl), a block of Size bytes seen as a file, used through the  *)
(* generic loops ioread_full and iowrite. The contents are left out: what *)
(* the properties tell apart is where each memcpy lands and what the      *)
(* calls return. One caller at a time; one call of io_lit_read or         *)
(* io_lit_write, with the bookkeeping of the loop that made it, is a step.*)
(***************************************************************************)
EXTENDS Integers

CONSTANTS
  Size,     \* lit->size
  MaxReq,   \* largest bufsz / n passed to ioread_full and iowrite
  MaxPos,   \* largest position passed to IOCTL_SETPOS
  EINVAL,   \* the error number io_lit_read returns negated
  ULONG     \* 2^64: pos, size, bufsz and size_t are 64-bit unsigned

(* SETPOS takes any position, so the seeks modelled reach at least Size.  *)
(* No position plus request reaches ULONG: a pos + bufsz that wraps needs *)
(* a bufsz within pos of 2^64, which no caller's buffer has.              *)
ASSUME IoLitAssumption ==
  /\ Size \in Nat /\ MaxReq \in Nat \ {0} /\ MaxPos \in Nat /\ EINVAL \in Nat \ {0}
  /\ Size <= MaxPos
  /\ ULONG \in Nat /\ MaxPos + MaxReq < ULONG

VARIABLES
  pos,      \* lit->pos
  pc,       \* "idle", or the loop the caller is in: "read" / "write"
  req,      \* bufsz / n of the current call
  acc,      \* the loop's acc
  start,    \* lit->pos when the current / last call began (history)
  ret,      \* what the last ioread_full / iowrite returned
  copy      \* the last memcpy: [lo |-> offset in buf, n |-> bytes]

vars == <<pos, pc, req, acc, start, ret, copy>>

-----------------------------------------------------------------------------
(* iolit_init: pos = 0.                                                    *)
Init ==
  /\ pos = 0 /\ pc = "idle" /\ req = 0 /\ acc = 0 /\ start = 0 /\ ret = 0
  /\ copy = [lo |-> 0, n |-> 0]

(* The bytes io_lit_read / io_lit_write copy for a request of len: all,   *)
(* unless pos + len runs past the end, then size - pos, both computed in  *)
(* unsigned 64-bit arithmetic.                                             *)
Bytes(len) == IF (pos + len) % ULONG > Size THEN (Size - pos) % ULONG ELSE len

(* What io_lit_read and io_lit_write return after the copy.               *)
LitReturn(bytes) == 0

(* ioread_full(lit, buf, n) or iowrite(lit, buf, n) begins, acc = 0.      *)
Call(op, n) ==
  /\ pc = "idle"
  /\ pc' = op /\ req' = n /\ acc' = 0 /\ start' = pos
  /\ UNCHANGED <<pos, ret, copy>>

(* Mutant: the pos >= size test is missing.                              *)
LitStepNoEndCheck ==
  LET len == req - acc
      cnt == LitReturn(Bytes(len))
  IN  /\ pc \in {"read", "write"}
      /\ copy' = [lo |-> pos, n |-> Bytes(len)]
      /\ pos' = (pos + Bytes(len)) % ULONG
      /\ IF cnt = 0 \/ acc + cnt >= req
         THEN pc' = "idle" /\ ret' = acc + cnt /\ acc' = acc + cnt
         ELSE acc' = acc + cnt /\ UNCHANGED <<pc, ret>>
      /\ UNCHANGED <<req, start>>

(* Mutant: pos advances by the request rather than by the bytes copied.  *)
LitStepPosByLen ==
  LET len == req - acc
  IN  /\ pc \in {"read", "write"}
      /\ IF pos >= Size
         THEN pc' = "idle" /\ ret' = -EINVAL /\ UNCHANGED <<pos, acc, copy>>
         ELSE LET cnt == LitReturn(Bytes(len))
              IN  /\ copy' = [lo |-> pos, n |-> Bytes(len)]
                  /\ pos' = (pos + len) % ULONG
                  /\ IF cnt = 0 \/ acc + cnt >= req
                     THEN pc' = "idle" /\ ret' = acc + cnt /\ acc' = acc + cnt
                     ELSE acc' = acc + cnt /\ UNCHANGED <<pc, ret>>
      /\ UNCHANGED <<req, start>>

(* One turn of the loop: io_lit_read / io_lit_write(lit, buf + acc,       *)
(* n - acc). Past the end it returns -EINVAL, which the loop returns;     *)
(* otherwise it copies Bytes(len) at pos and advances pos. The loop       *)
(* returns acc on 0, else adds the count and goes on while acc < n.       *)
LitStep ==
  LET len == req - acc
  IN  /\ pc \in {"read", "write"}
      /\ IF pos >= Size
         THEN pc' = "idle" /\ ret' = -EINVAL /\ UNCHANGED <<pos, acc, copy>>
         ELSE LET cnt == LitReturn(Bytes(len))
              IN  /\ copy' = [lo |-> pos, n |-> Bytes(len)]
                  /\ pos' = (pos + Bytes(len)) % ULONG
                  /\ IF cnt = 0 \/ acc + cnt >= req
                     THEN pc' = "idle" /\ ret' = acc + cnt /\ acc' = acc + cnt
                     ELSE acc' = acc + cnt /\ UNCHANGED <<pc, ret>>
      /\ UNCHANGED <<req, start>>

(* io_lit_ioctl(IOCTL_SETPOS, &p): pos = p, unchecked. GETLEN, GETPOS and *)
(* GETBLKSZ change nothing.                                                *)
SetPos(p) ==
  /\ pc = "idle"
  /\ pos' = p
  /\ UNCHANGED <<pc, req, acc, start, ret, copy>>

Next ==
  \/ \E op \in {"read", "write"}, n \in 1..MaxReq : Call(op, n)
  \/ LitStep
  \/ \E p \in 0..MaxPos : SetPos(p)

Spec == Init /\ [][Next]_vars

-----------------------------------------------------------------------------
TypeOK ==
  /\ pos \in 0..MaxPos /\ start \in 0..MaxPos
  /\ pc \in {"idle", "read", "write"}
  /\ req \in 0..MaxReq /\ acc \in 0..req
  /\ ret \in {-EINVAL} \cup 0..MaxReq
  /\ copy \in [lo : 0..MaxPos, n : 0..MaxReq]

(* Whatever position IOCTL_SETPOS left, past the end included, and        *)
(* whatever the loops ask for, every memcpy of io_lit_read / io_lit_write *)
(* stays inside the literal's Size bytes: the pos >= size test keeps the  *)
(* unsigned size - pos of the clamp from wrapping.                        *)
CopyInBounds == copy.lo + copy.n <= Size

(* ioread_full and iowrite return the number of bytes they moved (spec    *)
(* 4.6 and its open question on io_lit): when a call ends without error,  *)
(* its result is how far it moved pos.                                     *)
ReturnsBytesMoved ==
  [][pc # "idle" /\ pc' = "idle" /\ ret' >= 0 => ret' = pos' - start]_vars
=============================================================================
