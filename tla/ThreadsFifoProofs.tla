------------------------- MODULE ThreadsFifoProofs -------------------------
(***************************************************************************)
(* Proof that the ready list is a FIFO queue (ReadyListFifo), for every   *)
(* NTHR >= 2: tlinsert and tlappend only add at the tail, and             *)
(* suspend_self only takes the head. The order of the threads that stay   *)
(* in the list is the order they had.                                      *)
(***************************************************************************)
EXTENDS ThreadsProofs

\* One step of the ready list, from rl to rl2, as ReadyListFifo states it.
Fifo(rl, rl2) ==
  /\ \A u \in Range(rl) \ Range(rl2) : u = Head(rl)
  /\ \A s, u \in Range(rl) : Ahead(rl, s, u) /\ s \in Range(rl2) => Ahead(rl2, s, u)

-----------------------------------------------------------------------------
(* How the list operations move the threads of a list *)

\* tlinsert, tlappend: threads added at the tail.
LEMMA FifoExtend ==
  ASSUME NEW rl \in Seq(Tids), NEW x \in Seq(Tids)
  PROVE  Fifo(rl, rl \o x)
<1>1. Range(rl) \subseteq Range(rl \o x)
  BY ConcatList
<1>2. \A s, u \in Range(rl) : Ahead(rl, s, u) => Ahead(rl \o x, s, u)
  BY DEF Ahead
<1> QED
  BY <1>1, <1>2 DEF Fifo

\* ConcatList for lists of thread ids.
LEMMA ConcatRange ==
  ASSUME NEW a \in Seq(Tids), NEW b \in Seq(Tids)
  PROVE  Range(a \o b) = Range(a) \cup Range(b)
BY ConcatList

\* The list is not changed.
LEMMA FifoSame ==
  ASSUME NEW rl \in Seq(Tids)
  PROVE  Fifo(rl, rl)
BY DEF Fifo

\* tlremove of the head of an injective list, then threads from outside the
\* list added at the tail.
LEMMA FifoDequeue ==
  ASSUME NEW rl \in Seq(Tids), rl # <<>>, IsInjective(rl),
         NEW x \in Seq(Tids), Range(x) \cap Range(rl) = {}
  PROVE  Fifo(rl, Tail(rl) \o x)
<1>1. /\ Tail(rl) \in Seq(Tids)
      /\ Range(Tail(rl)) = Range(rl) \ {Head(rl)}
  BY TailList
<1>2. Range(Tail(rl) \o x) = (Range(rl) \ {Head(rl)}) \cup Range(x)
  <2>1. Range(Tail(rl) \o x) = Range(Tail(rl)) \cup Range(x)
    <3>1. Tail(rl) \in Seq(Tids)
      BY <1>1
    <3> QED
      BY <3>1, ConcatRange
  <2> QED
    BY <1>1, <2>1
<1>3. \A u \in Range(rl) \ Range(Tail(rl) \o x) : u = Head(rl)
  BY <1>2
<1>4. ASSUME NEW s \in Range(rl), NEW u \in Range(rl), Ahead(rl, s, u),
             s \in Range(Tail(rl) \o x)
      PROVE  Ahead(Tail(rl) \o x, s, u)
  <2>1. PICK i, j \in 1 .. Len(rl) : i < j /\ rl[i] = s /\ rl[j] = u
    BY <1>4 DEF Ahead
  <2>2. s # Head(rl)
    BY <1>2, <1>4
  <2>3. i # 1
    BY <2>1, <2>2
  <2>4. /\ i - 1 \in 1 .. Len(Tail(rl)) /\ j - 1 \in 1 .. Len(Tail(rl))
        /\ Tail(rl)[i - 1] = s /\ Tail(rl)[j - 1] = u
    BY <2>1, <2>3
  <2>5. /\ i - 1 \in 1 .. Len(Tail(rl) \o x) /\ j - 1 \in 1 .. Len(Tail(rl) \o x)
        /\ (Tail(rl) \o x)[i - 1] = s /\ (Tail(rl) \o x)[j - 1] = u
    BY <1>1, <2>4
  <2>6. i - 1 < j - 1
    BY <2>1
  <2> QED
    BY <2>5, <2>6 DEF Ahead
<1> QED
  BY <1>3, <1>4 DEF Fifo

\* What holds of a list with more threads spliced at its tail holds of the
\* list: thread_exit hands suspend_self the ready list with the waiters of
\* the parent's child_exit appended.
LEMMA FifoPrefix ==
  ASSUME NEW rl \in Seq(Tids), NEW x \in Seq(Tids), NEW rl2,
         Fifo(rl \o x, rl2)
  PROVE  Fifo(rl, rl2)
<1>1. CASE rl = <<>>
  BY <1>1 DEF Fifo, Range
<1>2. CASE rl # <<>>
  <2>1. Head(rl \o x) = Head(rl) /\ Range(rl) \subseteq Range(rl \o x)
    <3>1. Head(rl \o x) = Head(rl)
      BY <1>2
    <3>2. Range(rl \o x) = Range(rl) \cup Range(x)
      BY ConcatList
    <3> QED
      BY <3>1, <3>2
  <2>2. \A s, u \in Range(rl) : Ahead(rl, s, u) => Ahead(rl \o x, s, u)
    BY DEF Ahead
  <2> QED
    BY <2>1, <2>2 DEF Fifo
<1> QED
  BY <1>1, <1>2

\* suspend_self with an injective list rl that does not hold the caller:
\* the head is taken and the caller, if still RUNNING, put at the tail.
LEMMA SuspendFifo ==
  ASSUME NEW st, NEW rl \in Seq(Tids), cur \in Tids, IsInjective(rl),
         cur \notin Range(rl), SuspendSelf(st, rl)
  PROVE  Fifo(rl, readyList')
<1>1. rl # <<>>
  BY DEF SuspendSelf
<1>2. CASE readyList' = Tail(rl)
  <2>1. <<>> \in Seq(Tids) /\ Range(<<>>) \cap Range(rl) = {}
    BY DEF Range
  <2>2. Fifo(rl, Tail(rl) \o <<>>)
    BY <1>1, <2>1, FifoDequeue
  <2> QED
    BY <1>2, <2>2
<1>3. CASE readyList' = Append(Tail(rl), cur)
  <2>1. <<cur>> \in Seq(Tids) /\ Range(<<cur>>) \cap Range(rl) = {}
    BY DEF Range
  <2>2. Fifo(rl, Tail(rl) \o <<cur>>)
    BY <1>1, <2>1, FifoDequeue
  <2>3. Append(Tail(rl), cur) = Tail(rl) \o <<cur>>
    BY <1>1
  <2> QED
    BY <1>3, <2>2, <2>3
<1> QED
  BY <1>1, <1>2, <1>3 DEF SuspendSelf
-----------------------------------------------------------------------------
(* The operations *)

\* In every state of IInv the ready list is an injective list of threads
\* that does not hold the running thread.
LEMMA ReadyHeld ==
  ASSUME IInv
  PROVE  /\ readyList \in Seq(Tids) /\ IsInjective(readyList)
         /\ cur \in Tids /\ cur \notin Range(readyList)
BY DEF IInv, TypeOK, SchedulerConsistent, ReadyListExact, OneRunning

\* thread_yield, condition_wait and the waits of thread_join and
\* thread_join_any: suspend_self on the ready list as it is.
LEMMA SuspendHereFifo ==
  ASSUME IInv, NEW st, SuspendSelf(st, readyList)
  PROVE  Fifo(readyList, readyList')
BY ReadyHeld, SuspendFifo

\* tlinsert of one thread (thread_spawn, thread_fork).
LEMMA AppendFifo ==
  ASSUME IInv, NEW k \in Tids, readyList' = Append(readyList, k)
  PROVE  Fifo(readyList, readyList')
<1>1. readyList \in Seq(Tids) /\ <<k>> \in Seq(Tids)
  BY ReadyHeld
<1>2. readyList' = readyList \o <<k>>
  BY <1>1
<1> QED
  BY <1>1, <1>2, FifoExtend

\* A step that leaves the ready list as it is.
LEMMA KeptFifo ==
  ASSUME IInv, readyList' = readyList
  PROVE  Fifo(readyList, readyList')
BY ReadyHeld, FifoSame

\* thread_exit of a thread other than main: the parent's child_exit waiters
\* go to the tail of the ready list, and suspend_self takes its head.
LEMMA ExitFifo ==
  ASSUME IInv, NEW t \in Tids, ThreadExit(t)
  PROVE  Fifo(readyList, readyList')
<1>1. CASE t = MAIN_TID
  BY <1>1, KeptFifo DEF ThreadExit
<1>2. CASE t # MAIN_TID
  <2> DEFINE p  == parent[t]
             wl == waitList[p]
  <2>1. t = cur /\ state[t] = "RUNNING" /\ p \in Conds
    BY <1>2 DEF ThreadExit, Running, IInv, SchedulerConsistent, OneRunning,
                ParentTyped, Conds, p
  <2>2. /\ wl \in Seq(Tids) /\ IsInjective(wl)
        /\ Range(wl) = {s \in Tids : state[s] = "WAITING" /\ waitCond[s] = p}
    BY <2>1 DEF IInv, TypeOK, SchedulerConsistent, WaitListsExact, wl
  <2>3. /\ readyList \in Seq(Tids) /\ IsInjective(readyList)
        /\ Range(readyList) = {s \in Tids : state[s] = "READY"}
    BY DEF IInv, TypeOK, SchedulerConsistent, ReadyListExact
  <2>4. Range(readyList) \cap Range(wl) = {} /\ cur \notin Range(wl)
    BY <2>1, <2>2, <2>3
  <2>5. /\ readyList \o wl \in Seq(Tids)
        /\ IsInjective(readyList \o wl)
        /\ cur \notin Range(readyList \o wl)
    BY <2>2, <2>3, <2>4, ReadyHeld, ConcatList
  <2>6. PICK st : SuspendSelf(st, readyList \o wl)
    BY <1>2 DEF ThreadExit, wl, p
  <2>7. Fifo(readyList \o wl, readyList')
    BY <2>5, <2>6, ReadyHeld, SuspendFifo
  <2> QED
    BY <2>2, <2>3, <2>7, FifoPrefix
<1> QED
  BY <1>1, <1>2

\* thread_spawn and thread_fork_to_user: tlinsert of the new thread or of
\* the parent, or a halt.
LEMMA SpawnForkFifo ==
  ASSUME IInv, NEW t \in Tids, ThreadSpawn(t) \/ ThreadFork(t)
  PROVE  Fifo(readyList, readyList')
<1>1. CASE ThreadSpawn(t) /\ FreeSlots(1) # {}
  <2>1. Lowest(FreeSlots(1)) \in Tids
    BY <1>1, FreeSlotFound
  <2>2. readyList' = Append(readyList, Lowest(FreeSlots(1)))
    BY <1>1 DEF ThreadSpawn
  <2> QED
    BY <2>1, <2>2, AppendFifo
<1>2. CASE ThreadFork(t) /\ FreeSlots(0) # {}
  <2>1. readyList' = Append(readyList, t)
    BY <1>2 DEF ThreadFork
  <2> QED
    BY <2>1, AppendFifo
<1>3. CASE ThreadSpawn(t) /\ FreeSlots(1) = {}
  BY <1>3, KeptFifo DEF ThreadSpawn
<1>4. CASE ThreadFork(t) /\ FreeSlots(0) = {}
  BY <1>4, KeptFifo DEF ThreadFork
<1> QED
  BY <1>1, <1>2, <1>3, <1>4

\* The reaping or waiting step of thread_join.
LEMMA JoinStepFifo ==
  ASSUME IInv, NEW t, NEW tid, JoinStep(t, tid)
  PROVE  Fifo(readyList, readyList')
<1>1. CASE readyList' = readyList
  BY <1>1, KeptFifo
<1>2. CASE ConditionWaitOn(t, t)
  BY <1>2, SuspendHereFifo DEF ConditionWaitOn
<1> QED
  BY <1>1, <1>2 DEF JoinStep

\* thread_join_any, first call or resumed: a reap, a halt or a wait.
LEMMA JoinAnyFifo ==
  ASSUME IInv, NEW t \in Tids, ThreadJoinAny(t) \/ JoinAnyResume(t)
  PROVE  Fifo(readyList, readyList')
<1>1. CASE readyList' = readyList
  BY <1>1, KeptFifo
<1>2. CASE ConditionWaitOn(t, t)
  BY <1>2, SuspendHereFifo DEF ConditionWaitOn
<1> QED
  BY <1>1, <1>2 DEF ThreadJoinAny, JoinAnyResume

\* ISR or kernel condition_broadcast: tlappend of the waiters.
LEMMA BroadcastFifo ==
  ASSUME IInv, NEW c \in DevConds, ConditionBroadcast(c)
  PROVE  Fifo(readyList, readyList')
<1>1. readyList \in Seq(Tids) /\ waitList[c] \in Seq(Tids)
  BY DEF IInv, TypeOK, Conds
<1> QED
  BY <1>1, FifoExtend DEF ConditionBroadcast

\* Every step of the thread manager, or a stutter, keeps the ready list FIFO.
LEMMA NextFifo == IInv /\ [Next]_vars => Fifo(readyList, readyList')
<1> SUFFICES ASSUME IInv, [Next]_vars PROVE Fifo(readyList, readyList')
  OBVIOUS
<1>1. CASE UNCHANGED vars
  BY <1>1, KeptFifo DEF vars
<1>2. ASSUME NEW t \in Tids, ThreadYield(t) PROVE Fifo(readyList, readyList')
  BY <1>2, SuspendHereFifo DEF ThreadYield
<1>3. ASSUME NEW t \in Tids, ThreadSpawn(t) \/ ThreadFork(t)
      PROVE  Fifo(readyList, readyList')
  BY <1>3, SpawnForkFifo
<1>4. ASSUME NEW t \in Tids, ThreadExit(t) PROVE Fifo(readyList, readyList')
  BY <1>4, ExitFifo
<1>5. ASSUME NEW t \in Tids, NEW tid \in 1 .. NTHR - 1, ThreadJoin(t, tid)
      PROVE  Fifo(readyList, readyList')
  BY <1>5, JoinStepFifo DEF ThreadJoin
<1>6. ASSUME NEW t \in Tids, JoinResume(t) PROVE Fifo(readyList, readyList')
  BY <1>6, JoinStepFifo DEF JoinResume
<1>7. ASSUME NEW t \in Tids, ThreadJoinAny(t) \/ JoinAnyResume(t)
      PROVE  Fifo(readyList, readyList')
  BY <1>7, JoinAnyFifo
<1>8. ASSUME NEW t \in Tids, NEW c \in DevConds, ConditionWait(t, c)
      PROVE  Fifo(readyList, readyList')
  BY <1>8, SuspendHereFifo DEF ConditionWait, ConditionWaitOn
<1>9. ASSUME NEW c \in DevConds, ConditionBroadcast(c) PROVE Fifo(readyList, readyList')
  BY <1>9, BroadcastFifo
<1> QED
  BY <1>1, <1>2, <1>3, <1>4, <1>5, <1>6, <1>7, <1>8, <1>9 DEF Next

\* suspend_self always runs the head of the ready list, and tlinsert and
\* tlappend only add at its tail: no step of any thread or ISR removes a
\* thread other than the head or lets a thread overtake one ahead of it,
\* for every number of thread slots.
THEOREM ReadyListFifoSafe == Spec => ReadyListFifo
<1>1. IInv /\ [Next]_vars => [Fifo(readyList, readyList')]_vars
  BY NextFifo
<1>2. ReadyListFifo <=> [][Fifo(readyList, readyList')]_vars
  BY DEF ReadyListFifo, Fifo
<1> QED
  BY <1>1, <1>2, IInvariant, PTL DEF Spec
=============================================================================
