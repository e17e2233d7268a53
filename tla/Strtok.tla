------------------------------- MODULE Strtok -------------------------------
(***************************************************************************)
(* strtok of stdlib.c: a static ptr into the caller's buffer, which each  *)
(* call cuts by writing '\0' over the delimiter that ends the token. The  *)
(* buffer is a sequence of characters ending in NUL, ptr an index into it *)
(* or NULL (0, its static initial value), and a returned char * is an     *)
(* index whose C string the caller reads up to the next NUL. One caller   *)
(* tokenises one string at a time; a call is one step.                    *)
(***************************************************************************)
EXTENDS Naturals, Sequences

CONSTANTS
  Letters,    \* characters that are not delimiters
  Delims,     \* the characters of the delim string
  NUL,        \* '\0'
  MaxLen,     \* longest string passed to strtok
  MaxCalls    \* calls strtok(NULL, delim) per string

ASSUME StrtokAssumption ==
  /\ Letters \cap Delims = {} /\ NUL \notin Letters \cup Delims
  /\ MaxLen \in Nat /\ MaxCalls \in Nat \ {0}

NULL == 0

Strings == UNION {[1..n -> Letters \cup Delims] : n \in 0..MaxLen}

VARIABLES
  buf,        \* the caller's buffer, as strtok has left it
  ptr,        \* static char *ptr
  orig,       \* the string last passed as str (history)
  results     \* what the calls since then returned: <<>> for NULL,
              \* <<s>> for a pointer whose C string is s (history)

vars == <<buf, ptr, orig, results>>

(* The C string at index i: the characters up to the next NUL.            *)
CStr(b, i) ==
  LET end == CHOOSE k \in i..Len(b) : b[k] = NUL /\ \A j \in i..k - 1 : b[j] # NUL
  IN  SubSeq(b, i, end - 1)

(* The first index from p on that holds a delimiter or the terminator.    *)
Stop(b, p) ==
  CHOOSE k \in p..Len(b) : /\ b[k] \in Delims \cup {NUL}
                           /\ \A j \in p..k - 1 : b[j] \notin Delims \cup {NUL}

(* Mutant: the delimiter is stepped over but not overwritten with '\0'.   *)
ScanNoCut(b, p) ==
  LET k == Stop(b, p)
  IN  IF b[k] = NUL THEN [buf |-> b, ptr |-> k]
      ELSE [buf |-> b, ptr |-> k + 1]

(* Mutant: the terminator is stepped over too (a do-while for the loop).  *)
ScanPastEnd(b, p) ==
  LET k == Stop(b, p)
  IN  IF b[k] = NUL THEN [buf |-> b, ptr |-> k + 1]
      ELSE [buf |-> [b EXCEPT ![k] = NUL], ptr |-> k + 1]

(* The loop from start = ptr: at the terminator ptr stays on it; at a     *)
(* delimiter it is overwritten with '\0' and ptr moves past it. Either    *)
(* way start is returned (start == ptr after ptr++ cannot hold).          *)
Scan(b, p) ==
  LET k == Stop(b, p)
  IN  IF b[k] = NUL THEN [buf |-> b, ptr |-> k]
      ELSE [buf |-> [b EXCEPT ![k] = NUL], ptr |-> k + 1]

Init == buf = <<NUL>> /\ ptr = NULL /\ orig = <<>> /\ results = <<>>

(* strtok(str, delim), str != NULL: ptr = str, then the loop.             *)
StrtokStr(s) ==
  LET r == Scan(s \o <<NUL>>, 1)
  IN  /\ buf' = r.buf /\ ptr' = r.ptr /\ orig' = s
      /\ results' = << <<CStr(r.buf, 1)>> >>

(* strtok(NULL, delim): NULL while ptr is NULL, else the loop from ptr.   *)
StrtokNull ==
  /\ Len(results) < MaxCalls
  /\ IF ptr = NULL
     THEN results' = Append(results, <<>>) /\ UNCHANGED <<buf, ptr, orig>>
     ELSE LET r == Scan(buf, ptr)
          IN  /\ buf' = r.buf /\ ptr' = r.ptr /\ UNCHANGED orig
              /\ results' = Append(results, <<CStr(r.buf, ptr)>>)

Next == (\E s \in Strings : StrtokStr(s)) \/ StrtokNull

Spec == Init /\ [][Next]_vars

-----------------------------------------------------------------------------
(* Across calls, the static ptr stays inside the caller's buffer, on or   *)
(* before its terminator, and the buffer is the string last passed with   *)
(* its terminator, except that some delimiters before ptr are cut to '\0'. *)
(* So strtok(NULL, delim) never scans past the end of the string, and     *)
(* never writes anywhere but over a delimiter it has passed.              *)
BufferIntact ==
  /\ Len(buf) = Len(orig) + 1
  /\ buf[Len(buf)] = NUL
  /\ ptr # NULL => ptr \in 1..Len(buf)
  /\ \A i \in 1..Len(orig) :
       \/ buf[i] = orig[i]
       \/ buf[i] = NUL /\ orig[i] \in Delims /\ i < ptr
=============================================================================
