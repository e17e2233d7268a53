---------------------------- MODULE ThreadsProofs ----------------------------
(***************************************************************************)
(* Proofs about the thread manager of module Threads: the type invariant   *)
(* and the scheduler invariant hold in every reachable state, for every    *)
(* number of thread slots NTHR >= 2 and every set of device conditions.    *)
(***************************************************************************)
EXTENDS Threads, WellFoundedInduction, TLAPS

-----------------------------------------------------------------------------
(* Lemmas about the helpers *)

\* The slot searches find the lowest empty slot.
LEMMA LowestIsLeast ==
  ASSUME NEW S \in SUBSET Nat, S # {}
  PROVE  /\ Lowest(S) \in S
         /\ \A j \in S : Lowest(S) <= j
<1>1. \E x \in S : \A y \in S : ~(<<y, x>> \in OpToRel(<, Nat))
  BY NatLessThanWellFounded, WFMin
<1>2. PICK x \in S : \A y \in S : ~(<<y, x>> \in OpToRel(<, Nat))
  BY <1>1
<1>3. \A y \in S : x <= y
  <2> TAKE y \in S
  <2>1. <<y, x>> \in Nat \X Nat
    OBVIOUS
  <2>2. ~(y < x)
    BY <1>2, <2>1 DEF OpToRel
  <2> QED
    BY <2>2
<1>4. QED
  BY <1>3 DEF Lowest

\* Putting a thread at the tail of a list.
LEMMA AppendList ==
  ASSUME NEW S, NEW s \in Seq(S), NEW x \in S
  PROVE  /\ Range(Append(s, x)) = Range(s) \cup {x}
         /\ IsInjective(s) /\ x \notin Range(s) => IsInjective(Append(s, x))
BY DEF Range, IsInjective

\* Taking the head of a non-empty list (tlremove).
LEMMA TailList ==
  ASSUME NEW S, NEW s \in Seq(S), s # <<>>, IsInjective(s)
  PROVE  /\ Head(s) \in Range(s)
         /\ Tail(s) \in Seq(S)
         /\ IsInjective(Tail(s))
         /\ Range(Tail(s)) = Range(s) \ {Head(s)}
<1>1. Head(s) \in Range(s)
  BY DEF Range
<1>2. IsInjective(Tail(s))
  BY DEF IsInjective
<1>3. Range(Tail(s)) = Range(s) \ {Head(s)}
  <2>1. Range(Tail(s)) \subseteq Range(s) \ {Head(s)}
    <3> SUFFICES ASSUME NEW i \in 1 .. Len(s) - 1
                 PROVE  Tail(s)[i] \in Range(s) \ {Head(s)}
      BY DEF Range
    <3>1. Tail(s)[i] = s[i + 1] /\ i + 1 \in DOMAIN s /\ i + 1 # 1
      OBVIOUS
    <3> QED
      BY <3>1 DEF Range, IsInjective
  <2>2. Range(s) \ {Head(s)} \subseteq Range(Tail(s))
    <3> SUFFICES ASSUME NEW i \in 1 .. Len(s), s[i] # Head(s)
                 PROVE  s[i] \in Range(Tail(s))
      BY DEF Range
    <3>1. i # 1 /\ Tail(s)[i - 1] = s[i] /\ i - 1 \in DOMAIN Tail(s)
      OBVIOUS
    <3> QED
      BY <3>1 DEF Range
  <2> QED
    BY <2>1, <2>2
<1>4. QED
  BY <1>1, <1>2, <1>3

\* Splicing one list at the end of another (tlappend).
LEMMA ConcatList ==
  ASSUME NEW S, NEW s \in Seq(S), NEW u \in Seq(S)
  PROVE  /\ s \o u \in Seq(S)
         /\ Range(s \o u) = Range(s) \cup Range(u)
         /\ IsInjective(s) /\ IsInjective(u) /\ Range(s) \cap Range(u) = {}
              => IsInjective(s \o u)
<1>1. Range(s \o u) = Range(s) \cup Range(u)
  <2>1. Range(s \o u) \subseteq Range(s) \cup Range(u)
    BY DEF Range
  <2>2. Range(s) \subseteq Range(s \o u)
    BY DEF Range
  <2>3. Range(u) \subseteq Range(s \o u)
    <3> SUFFICES ASSUME NEW i \in 1 .. Len(u) PROVE u[i] \in Range(s \o u)
      BY DEF Range
    <3>1. (s \o u)[Len(s) + i] = u[i]
      OBVIOUS
    <3> QED
      BY <3>1 DEF Range
  <2> QED
    BY <2>1, <2>2, <2>3
<1>2. ASSUME IsInjective(s), IsInjective(u), Range(s) \cap Range(u) = {}
      PROVE  IsInjective(s \o u)
  <2> SUFFICES ASSUME NEW a \in 1 .. Len(s) + Len(u), NEW b \in 1 .. Len(s) + Len(u),
                      (s \o u)[a] = (s \o u)[b]
               PROVE  a = b
    BY DEF IsInjective
  <2>1. \A i \in 1 .. Len(s) + Len(u) :
          IF i <= Len(s) THEN (s \o u)[i] = s[i] /\ s[i] \in Range(s)
          ELSE (s \o u)[i] = u[i - Len(s)] /\ i - Len(s) \in 1 .. Len(u)
                 /\ u[i - Len(s)] \in Range(u)
    BY DEF Range
  <2>2. CASE a <= Len(s) /\ b <= Len(s)
    BY <2>1, <2>2, <1>2 DEF IsInjective
  <2>3. CASE a > Len(s) /\ b > Len(s)
    <3>1. u[a - Len(s)] = u[b - Len(s)]
      BY <2>1, <2>3
    <3> QED
      BY <2>1, <2>3, <3>1, <1>2 DEF IsInjective
  <2>4. CASE (a <= Len(s)) # (b <= Len(s))
    BY <2>1, <2>4, <1>2
  <2> QED
    BY <2>2, <2>3, <2>4
<1>3. QED
  BY <1>1, <1>2

-----------------------------------------------------------------------------
(* The inductive invariant *)

\* Live threads other than main have a parent slot; a thread blocked in
\* thread_join waits for a slot other than main's; a thread waits either on
\* a device condition or on its own child_exit (thread_join and
\* thread_join_any wait on CURTHR->child_exit).
ParentTyped ==
  \A k \in Tids \ {MAIN_TID} : state[k] # "UNINIT" => parent[k] \in Tids

JoinTyped == \A t \in Tids : pc[t] = "join" => joinTid[t] \in 1 .. NTHR - 1

WaitOwn ==
  \A t \in Tids : state[t] = "WAITING" => waitCond[t] \in DevConds \cup {t}

\* SchedulerConsistent is not inductive by itself: thread_exit needs the
\* exiting thread's parent to be a condition, the reaping in thread_join
\* needs its argument to have a parent, the fresh wait list that spawn and
\* fork give a slot needs no thread to wait on it, and the idle thread must
\* never be resumed inside a join, where it would wait.
IInv ==
  /\ TypeOK
  /\ SchedulerConsistent
  /\ pc[IDLE_TID] = "run"
  /\ ParentTyped
  /\ JoinTyped
  /\ WaitOwn

\* The states suspend_self switches between.
ReadySet(st) == {t \in Tids : st[t] = "READY"}
Active == {"READY", "RUNNING"}

\* No slot of thrtab is filled or emptied.
SlotsKept == \A s \in Tids : state'[s] = "UNINIT" <=> state[s] = "UNINIT"

-----------------------------------------------------------------------------
(* suspend_self *)

\* Called with a ready list holding exactly the READY threads of st, once
\* each, and with the caller the only RUNNING thread or no longer runnable,
\* suspend_self switches to another thread, leaves exactly one RUNNING
\* thread and a ready list holding exactly the READY threads, and changes
\* states only between READY and RUNNING.
LEMMA SuspendSelfStep ==
  ASSUME NEW st \in [Tids -> States], NEW rl \in Seq(Tids),
         cur \in Tids,
         IsInjective(rl),
         Range(rl) = ReadySet(st),
         st[cur] # "READY",
         \A s \in Tids : st[s] = "RUNNING" => s = cur,
         SuspendSelf(st, rl)
  PROVE  /\ cur' \in Tids
         /\ state' \in [Tids -> States]
         /\ readyList' \in Seq(Tids)
         /\ state'[cur'] = "RUNNING"
         /\ \A s \in Tids : state'[s] = "RUNNING" => s = cur'
         /\ IsInjective(readyList')
         /\ Range(readyList') = ReadySet(state')
         /\ \A s \in Tids : \/ state'[s] = st[s]
                            \/ st[s] \in Active /\ state'[s] \in Active
<1> DEFINE next == Head(rl)
           st1  == [st EXCEPT ![next] = "RUNNING"]
<1>1. rl # <<>>
  BY DEF SuspendSelf
<1>2. /\ next \in Range(rl)
      /\ Tail(rl) \in Seq(Tids)
      /\ IsInjective(Tail(rl))
      /\ Range(Tail(rl)) = Range(rl) \ {next}
  BY <1>1, TailList
<1>3. next \in Tids /\ st[next] = "READY" /\ next # cur
  BY <1>2 DEF ReadySet
<1>4. cur' = next
  BY DEF SuspendSelf
<1>7. st1[cur] = st[cur] /\ st1 \in [Tids -> States]
  BY <1>3 DEF st1, States
<1>5. CASE st[cur] = "RUNNING"
  <2>1. state' = [st1 EXCEPT ![cur] = "READY"] /\ readyList' = Append(Tail(rl), cur)
    BY <1>7, <1>5 DEF SuspendSelf
  <2>2. cur \notin Range(Tail(rl))
    BY <1>2, <1>5 DEF ReadySet
  <2>3. Range(Append(Tail(rl), cur)) = Range(Tail(rl)) \cup {cur}
    BY <1>2 DEF Range
  <2>4. IsInjective(Append(Tail(rl), cur))
    BY <1>2, <2>2, AppendList
  <2> QED
    BY <1>2, <1>3, <1>4, <1>7, <1>5, <2>1, <2>3, <2>4 DEF ReadySet, Active, st1
<1>6. CASE st[cur] # "RUNNING"
  <2>1. state' = st1 /\ readyList' = Tail(rl)
    BY <1>7, <1>6 DEF SuspendSelf
  <2> QED
    BY <1>2, <1>3, <1>4, <1>7, <1>6, <2>1 DEF ReadySet, Active, st1
<1> QED
  BY <1>5, <1>6

-----------------------------------------------------------------------------
(* condition_wait *)

\* What every caller of condition_wait keeps: the thread manager's types,
\* the scheduler invariant, and the waiters' conditions; no slot is filled
\* or emptied.
WaitOnPost ==
  /\ state' \in [Tids -> States]
  /\ readyList' \in Seq(Tids)
  /\ waitList' \in [Conds -> Seq(Tids)]
  /\ waitCond' \in [Tids -> Conds \cup {NULL}]
  /\ cur' \in Tids
  /\ SchedulerConsistent'
  /\ WaitOwn'
  /\ \A s \in Tids : state'[s] = "UNINIT" <=> state[s] = "UNINIT"

\* condition_wait(c) by the running thread t, other than idle, on a device
\* condition or on its own child_exit.
LEMMA WaitOnStep ==
  ASSUME IInv, NEW t \in Tids, NEW c \in DevConds \cup {t},
         cur = t, t # IDLE_TID,
         ConditionWaitOn(t, c)
  PROVE  WaitOnPost
<1> DEFINE st == [state EXCEPT ![t] = "WAITING"]
<1>1. /\ state[t] = "RUNNING"
      /\ \A s \in Tids : state[s] = "RUNNING" => s = t
      /\ IsInjective(readyList) /\ Range(readyList) = ReadySet(state)
      /\ WaitListsExact /\ IdleRunnable /\ TypeOK /\ WaitOwn
  BY DEF IInv, SchedulerConsistent, OneRunning, ReadyListExact, ReadySet
<1>2. /\ st \in [Tids -> States]
      /\ Range(readyList) = ReadySet(st)
      /\ st[t] # "READY"
      /\ \A s \in Tids : st[s] = "RUNNING" => s = cur
  BY <1>1 DEF TypeOK, ReadySet, States
<1>3. SuspendSelf(st, readyList)
  BY DEF ConditionWaitOn
<1>4. /\ cur' \in Tids
      /\ state' \in [Tids -> States]
      /\ readyList' \in Seq(Tids)
      /\ state'[cur'] = "RUNNING"
      /\ \A s \in Tids : state'[s] = "RUNNING" => s = cur'
      /\ IsInjective(readyList')
      /\ Range(readyList') = ReadySet(state')
      /\ \A s \in Tids : \/ state'[s] = st[s]
                         \/ st[s] \in Active /\ state'[s] \in Active
  BY <1>1, <1>2, <1>3, SuspendSelfStep DEF TypeOK
<1>5. \A s \in Tids : /\ state'[s] = "WAITING" <=> (s = t \/ state[s] = "WAITING")
                      /\ state'[s] = "UNINIT" <=> state[s] = "UNINIT"
  BY <1>1, <1>4 DEF TypeOK, Active
<1>6. /\ waitCond' = [waitCond EXCEPT ![t] = c]
      /\ waitList' = [waitList EXCEPT ![c] = Append(@, t)]
  BY DEF ConditionWaitOn
<1>7. t \notin Range(waitList[c])
  BY <1>1 DEF WaitListsExact, Conds
<1>8. WaitListsExact'
  <2> SUFFICES ASSUME NEW d \in Conds
               PROVE  /\ IsInjective(waitList'[d])
                      /\ Range(waitList'[d]) =
                           {s \in Tids : state'[s] = "WAITING" /\ waitCond'[s] = d}
    BY DEF WaitListsExact
  <2>1. CASE d = c
    <3>1. waitList'[d] = Append(waitList[c], t)
      BY <1>1, <1>6, <2>1 DEF TypeOK, Conds
    <3>2. IsInjective(waitList'[d])
      BY <1>1, <1>7, <3>1, AppendList DEF TypeOK, WaitListsExact, Conds
    <3>3. Range(waitList'[d]) = Range(waitList[c]) \cup {t}
      <4>1. waitList[c] \in Seq(Tids)
        BY <1>1 DEF TypeOK, Conds
      <4>2. Range(Append(waitList[c], t)) = Range(waitList[c]) \cup {t}
        BY <4>1, <1>1, AppendList DEF TypeOK
      <4> QED
        BY <3>1, <4>2
    <3> QED
      BY <1>1, <1>5, <1>6, <2>1, <3>2, <3>3 DEF TypeOK, WaitListsExact, Conds
  <2>2. CASE d # c
    <3>1. waitList'[d] = waitList[d] /\ waitCond'[t] # d
      BY <1>1, <1>6, <2>2 DEF TypeOK
    <3> QED
      BY <1>1, <1>5, <1>6, <3>1 DEF TypeOK, WaitListsExact
  <2> QED
    BY <2>1, <2>2
<1>9. IdleRunnable'
  <2>1. IDLE_TID \in Tids /\ st[IDLE_TID] \in Active
    BY <1>1, ConstAssumption DEF IdleRunnable, Active, IDLE_TID, Tids, TypeOK
  <2> QED
    BY <1>4, <2>1 DEF IdleRunnable, Active
<1>10. WaitOwn'
  BY <1>1, <1>5, <1>6 DEF WaitOwn, TypeOK
<1>11. waitList' \in [Conds -> Seq(Tids)] /\ waitCond' \in [Tids -> Conds \cup {NULL}]
  BY <1>1, <1>6 DEF TypeOK, Conds
<1> QED
  BY <1>4, <1>5, <1>8, <1>9, <1>10, <1>11
     DEF WaitOnPost, SchedulerConsistent, OneRunning, ReadyListExact, ReadySet

-----------------------------------------------------------------------------
(* Slots *)

\* The idle and main threads have slots.
LEMMA IdleInTids == IDLE_TID \in Tids /\ MAIN_TID \in Tids /\ IDLE_TID # MAIN_TID
BY ConstAssumption DEF IDLE_TID, MAIN_TID, Tids

\* An empty slot is not the running thread, not idle, not ready, and no
\* thread waits on its child_exit.
LEMMA FreeSlotFacts ==
  ASSUME IInv, NEW k \in Tids, state[k] = "UNINIT"
  PROVE  /\ k # cur
         /\ k # IDLE_TID
         /\ k \notin Range(readyList)
         /\ k \notin DevConds
         /\ \A s \in Tids : ~(state[s] = "WAITING" /\ waitCond[s] = k)
<1>1. k \notin DevConds
  BY ConstAssumption DEF Tids
<1> QED
  BY <1>1 DEF IInv, SchedulerConsistent, OneRunning, ReadyListExact, IdleRunnable,
             WaitOwn

\* The slot searches of thread_spawn (from 1) and thread_fork_to_user
\* (from 0) return an empty slot.
LEMMA FreeSlotFound ==
  ASSUME NEW lo \in {0, 1}, FreeSlots(lo) # {}
  PROVE  /\ Lowest(FreeSlots(lo)) \in Tids
         /\ state[Lowest(FreeSlots(lo))] = "UNINIT"
<1>1. FreeSlots(lo) \subseteq Nat
  BY ConstAssumption DEF FreeSlots
<1>2. Lowest(FreeSlots(lo)) \in FreeSlots(lo)
  BY <1>1, LowestIsLeast
<1> QED
  BY <1>2 DEF FreeSlots, Tids

-----------------------------------------------------------------------------
(* recycle_thread *)

\* Reaping an EXITED thread other than main (thread_join, thread_join_any)
\* keeps the invariant; the caller's pc returns to "run" and only its own
\* join argument may change.
LEMMA ReapStep ==
  ASSUME IInv, NEW t \in Tids, NEW tid \in 1 .. NTHR - 1,
         state[tid] = "EXITED",
         RecycleThread(tid),
         UNCHANGED <<readyList, waitList, waitCond, cur, halt>>,
         pc' = [pc EXCEPT ![t] = "run"],
         joinTid' \in [Tids -> Tids \cup {NULL}],
         \A s \in Tids \ {t} : joinTid'[s] = joinTid[s]
  PROVE  IInv'
<1>1. /\ tid \in Tids /\ tid # MAIN_TID
      /\ parent[tid] \in Tids
      /\ state' = [state EXCEPT ![tid] = "UNINIT"]
  BY ConstAssumption DEF IInv, ParentTyped, RecycleThread, Tids, MAIN_TID
<1>2. \A s \in Tids : state'[s] = "UNINIT" \/ state'[s] = state[s]
  BY <1>1 DEF IInv, TypeOK
<1>3. \A s \in Tids : state'[s] # state[s] => state[s] = "EXITED" /\ s = tid
  BY <1>1 DEF IInv, TypeOK
<1>4. TypeOK'
  BY <1>1 DEF IInv, TypeOK, RecycleThread, States, Pcs
<1>5. SchedulerConsistent'
  <2>1. OneRunning'
    BY <1>2, <1>3 DEF IInv, SchedulerConsistent, OneRunning, TypeOK
  <2>2. ReadyListExact'
    <3>1. {s \in Tids : state'[s] = "READY"} = {s \in Tids : state[s] = "READY"}
      BY <1>2, <1>3
    <3> QED
      BY <3>1 DEF IInv, SchedulerConsistent, ReadyListExact
  <2>3. WaitListsExact'
    <3>1. \A d \in Conds :
            {s \in Tids : state'[s] = "WAITING" /\ waitCond'[s] = d} =
            {s \in Tids : state[s] = "WAITING" /\ waitCond[s] = d}
      BY <1>2, <1>3
    <3> QED
      BY <3>1 DEF IInv, SchedulerConsistent, WaitListsExact
  <2>4. IdleRunnable'
    BY <1>2, <1>3, IdleInTids DEF IInv, SchedulerConsistent, IdleRunnable
  <2> QED
    BY <2>1, <2>2, <2>3, <2>4 DEF SchedulerConsistent
<1>6. ParentTyped'
  BY <1>1, <1>2 DEF IInv, ParentTyped, RecycleThread
<1>7. JoinTyped' /\ pc'[IDLE_TID] = "run"
  BY DEF IInv, JoinTyped, TypeOK
<1>8. WaitOwn'
  BY <1>2 DEF IInv, WaitOwn
<1> QED
  BY <1>4, <1>5, <1>6, <1>7, <1>8 DEF IInv

-----------------------------------------------------------------------------
(* The steps *)

\* A panic or halt_success changes nothing but halt.
LEMMA HaltStep ==
  ASSUME IInv, halt' \in Halts,
         UNCHANGED <<state, parent, readyList, waitList, waitCond, cur, pc, joinTid>>
  PROVE  IInv'
BY DEF IInv, TypeOK, SchedulerConsistent, OneRunning, ReadyListExact, WaitListsExact,
       IdleRunnable, ParentTyped, JoinTyped, WaitOwn

\* thread_yield: suspend_self with the caller still RUNNING.
LEMMA YieldIInv ==
  ASSUME IInv, NEW t \in Tids, ThreadYield(t)
  PROVE  IInv' /\ SlotsKept
<1>1. /\ TypeOK
      /\ IsInjective(readyList) /\ Range(readyList) = ReadySet(state)
      /\ state[cur] # "READY"
      /\ \A s \in Tids : state[s] = "RUNNING" => s = cur
      /\ SuspendSelf(state, readyList)
  BY DEF IInv, SchedulerConsistent, OneRunning, ReadyListExact, ReadySet, ThreadYield
<1>2. /\ cur' \in Tids
      /\ state' \in [Tids -> States]
      /\ readyList' \in Seq(Tids)
      /\ state'[cur'] = "RUNNING"
      /\ \A s \in Tids : state'[s] = "RUNNING" => s = cur'
      /\ IsInjective(readyList')
      /\ Range(readyList') = ReadySet(state')
      /\ \A s \in Tids : \/ state'[s] = state[s]
                         \/ state[s] \in Active /\ state'[s] \in Active
  BY <1>1, SuspendSelfStep DEF TypeOK
<1>3. \A s \in Tids : /\ state'[s] = "WAITING" <=> state[s] = "WAITING"
                      /\ state'[s] = "UNINIT" <=> state[s] = "UNINIT"
                      /\ state[s] \in Active => state'[s] \in Active
  BY <1>2 DEF Active
<1>4. UNCHANGED <<parent, waitList, waitCond, pc, joinTid, halt>>
  BY DEF ThreadYield
<1>5. TypeOK'
  BY <1>2, <1>4 DEF IInv, TypeOK
<1>6. SchedulerConsistent'
  <2>1. WaitListsExact'
    BY <1>3, <1>4 DEF IInv, SchedulerConsistent, WaitListsExact
  <2>2. IdleRunnable'
    BY <1>3, IdleInTids DEF IInv, SchedulerConsistent, IdleRunnable, Active
  <2> QED
    BY <1>2, <2>1, <2>2 DEF SchedulerConsistent, OneRunning, ReadyListExact, ReadySet
<1>7. pc'[IDLE_TID] = "run" /\ ParentTyped' /\ JoinTyped' /\ WaitOwn'
  BY <1>3, <1>4 DEF IInv, ParentTyped, JoinTyped, WaitOwn
<1> QED
  BY <1>3, <1>5, <1>6, <1>7 DEF IInv, SlotsKept

\* thread_spawn: a READY thread in the lowest empty slot from 1.
LEMMA SpawnIInv ==
  ASSUME IInv, NEW t \in Tids, ThreadSpawn(t)
  PROVE  IInv'
<1>1. CASE FreeSlots(1) = {}
  BY <1>1, HaltStep DEF ThreadSpawn, Halts
<1>2. CASE FreeSlots(1) # {}
  <2> DEFINE tid == Lowest(FreeSlots(1))
  <2>1. tid \in Tids /\ state[tid] = "UNINIT"
    BY <1>2, FreeSlotFound
  <2>2. /\ tid # cur /\ tid # IDLE_TID /\ tid \notin Range(readyList)
        /\ tid \notin DevConds
        /\ \A s \in Tids : ~(state[s] = "WAITING" /\ waitCond[s] = tid)
    BY <2>1, FreeSlotFacts
  <2>3. /\ state' = [state EXCEPT ![tid] = "READY"]
        /\ parent' = [parent EXCEPT ![tid] = t]
        /\ readyList' = Append(readyList, tid)
        /\ waitList' = [waitList EXCEPT ![tid] = <<>>]
        /\ pc' = [pc EXCEPT ![tid] = "run"]
        /\ joinTid' = [joinTid EXCEPT ![tid] = NULL]
        /\ UNCHANGED <<waitCond, cur, halt>>
    BY <1>2 DEF ThreadSpawn
  <2>4. Running(t) /\ t = cur
    BY DEF ThreadSpawn, Running
  <2>5. TypeOK'
    BY <2>1, <2>3 DEF IInv, TypeOK, States, Conds, Pcs
  <2>6. OneRunning' /\ IdleRunnable'
    BY <2>1, <2>2, <2>3, IdleInTids DEF IInv, TypeOK, SchedulerConsistent, OneRunning,
                                     IdleRunnable
  <2>7. ReadyListExact'
    <3>1. Range(readyList') = Range(readyList) \cup {tid} /\ IsInjective(readyList')
      BY <2>1, <2>2, <2>3, AppendList DEF IInv, TypeOK, SchedulerConsistent,
                                         ReadyListExact
    <3> QED
      BY <2>1, <2>3, <3>1 DEF IInv, TypeOK, SchedulerConsistent, ReadyListExact
  <2>8. WaitListsExact'
    <3>1. \A s \in Tids : state'[s] = "WAITING" <=> state[s] = "WAITING"
      BY <2>1, <2>3 DEF IInv, TypeOK
    <3>2. Range(<<>>) = {} /\ IsInjective(<<>>)
      BY DEF Range, IsInjective
    <3> QED
      BY <2>2, <2>3, <3>1, <3>2 DEF IInv, TypeOK, SchedulerConsistent, WaitListsExact
  <2>9. pc'[IDLE_TID] = "run" /\ ParentTyped' /\ JoinTyped' /\ WaitOwn'
    BY <2>1, <2>2, <2>3 DEF IInv, TypeOK, ParentTyped, JoinTyped, WaitOwn
  <2> QED
    BY <2>5, <2>6, <2>7, <2>8, <2>9 DEF IInv, SchedulerConsistent
<1> QED
  BY <1>1, <1>2

\* thread_fork_to_user: the child, in the lowest empty slot from 0, runs;
\* the parent goes to the tail of the ready list.
LEMMA ForkIInv ==
  ASSUME IInv, NEW t \in Tids, ThreadFork(t)
  PROVE  IInv'
<1>1. CASE FreeSlots(0) = {}
  BY <1>1, HaltStep DEF ThreadFork, Halts
<1>2. CASE FreeSlots(0) # {}
  <2> DEFINE child == Lowest(FreeSlots(0))
  <2>1. child \in Tids /\ state[child] = "UNINIT"
    BY <1>2, FreeSlotFound
  <2>2. /\ child # cur /\ child # IDLE_TID
        /\ child \notin DevConds
        /\ \A s \in Tids : ~(state[s] = "WAITING" /\ waitCond[s] = child)
    BY <2>1, FreeSlotFacts
  <2>3. /\ state' = [state EXCEPT ![child] = "RUNNING", ![t] = "READY"]
        /\ parent' = [parent EXCEPT ![child] = t]
        /\ readyList' = Append(readyList, t)
        /\ waitList' = [waitList EXCEPT ![child] = <<>>]
        /\ cur' = child
        /\ pc' = [pc EXCEPT ![child] = "run"]
        /\ joinTid' = [joinTid EXCEPT ![child] = NULL]
        /\ UNCHANGED <<waitCond, halt>>
    BY <1>2 DEF ThreadFork
  <2>4. t = cur /\ state[t] = "RUNNING" /\ t \notin Range(readyList)
        /\ \A s \in Tids : state[s] = "RUNNING" => s = t
    BY DEF ThreadFork, Running, IInv, SchedulerConsistent, OneRunning, ReadyListExact
  <2>5. TypeOK'
    <3>1. state' \in [Tids -> States]
      BY <2>1, <2>3 DEF IInv, TypeOK, States
    <3>2. waitList' \in [Conds -> Seq(Tids)]
      BY <2>1, <2>3 DEF IInv, TypeOK, Conds
    <3> QED
      BY <2>1, <2>3, <3>1, <3>2 DEF IInv, TypeOK, Pcs
  <2>6. OneRunning' /\ IdleRunnable'
    BY <2>1, <2>2, <2>3, <2>4, IdleInTids DEF IInv, TypeOK, SchedulerConsistent,
                                          IdleRunnable, OneRunning
  <2>7. ReadyListExact'
    <3>1. Range(readyList') = Range(readyList) \cup {t} /\ IsInjective(readyList')
      BY <2>3, <2>4, AppendList DEF IInv, TypeOK, SchedulerConsistent, ReadyListExact
    <3> QED
      BY <2>1, <2>2, <2>3, <2>4, <3>1 DEF IInv, TypeOK, SchedulerConsistent,
                                        ReadyListExact
  <2>8. WaitListsExact'
    <3>1. \A s \in Tids : state'[s] = "WAITING" <=> state[s] = "WAITING"
      BY <2>1, <2>3, <2>4 DEF IInv, TypeOK
    <3>2. Range(<<>>) = {} /\ IsInjective(<<>>)
      BY DEF Range, IsInjective
    <3> QED
      BY <2>2, <2>3, <3>1, <3>2 DEF IInv, TypeOK, SchedulerConsistent, WaitListsExact
  <2>9. pc'[IDLE_TID] = "run" /\ ParentTyped' /\ JoinTyped' /\ WaitOwn'
    BY <2>1, <2>2, <2>3, <2>4 DEF IInv, TypeOK, ParentTyped, JoinTyped, WaitOwn
  <2> QED
    BY <2>5, <2>6, <2>7, <2>8, <2>9 DEF IInv, SchedulerConsistent
<1> QED
  BY <1>1, <1>2

\* condition_wait on a device condition.
LEMMA ConditionWaitIInv ==
  ASSUME IInv, NEW t \in Tids, NEW c \in DevConds, ConditionWait(t, c)
  PROVE  IInv' /\ SlotsKept
<1>1. WaitOnPost
  BY WaitOnStep DEF ConditionWait, Running
<1>2. UNCHANGED <<parent, pc, joinTid, halt>>
  BY DEF ConditionWait
<1> QED
  BY <1>1, <1>2 DEF WaitOnPost, IInv, TypeOK, ParentTyped, JoinTyped, SlotsKept

-----------------------------------------------------------------------------
(* condition_broadcast *)

\* WaitListsExact for thread states st, wait lists wl and wait conditions wc.
WaitExact(st, wl, wc) ==
  \A d \in Conds :
    /\ IsInjective(wl[d])
    /\ Range(wl[d]) = {s \in Tids : st[s] = "WAITING" /\ wc[s] = d}

\* Broadcasting c, from thread states st that have the READY and WAITING
\* threads of state, moves exactly c's waiters from WAITING to READY and to
\* the tail of the ready list, and leaves every wait list exact.
LEMMA BroadcastFacts ==
  ASSUME IInv, NEW st \in [Tids -> States], NEW c \in Conds,
         \A s \in Tids : /\ st[s] = "WAITING" <=> state[s] = "WAITING"
                         /\ st[s] = "READY" <=> state[s] = "READY"
  PROVE  /\ Woken(st, c) \in [Tids -> States]
         /\ readyList \o waitList[c] \in Seq(Tids)
         /\ IsInjective(readyList \o waitList[c])
         /\ Range(readyList \o waitList[c]) = ReadySet(Woken(st, c))
         /\ WaitExact(Woken(st, c), [waitList EXCEPT ![c] = <<>>], Unwaited(c))
         /\ [waitList EXCEPT ![c] = <<>>] \in [Conds -> Seq(Tids)]
         /\ Unwaited(c) \in [Tids -> Conds \cup {NULL}]
         /\ \A s \in Tids : \/ Woken(st, c)[s] = st[s]
                            \/ st[s] = "WAITING" /\ Woken(st, c)[s] = "READY"
         /\ \A s \in Tids : Woken(st, c)[s] = "WAITING" =>
                              /\ state[s] = "WAITING"
                              /\ Unwaited(c)[s] = waitCond[s]
<1> DEFINE W == Range(waitList[c])
<1>1. /\ waitList[c] \in Seq(Tids)
      /\ IsInjective(waitList[c])
      /\ W = {s \in Tids : state[s] = "WAITING" /\ waitCond[s] = c}
  BY DEF IInv, TypeOK, SchedulerConsistent, WaitListsExact, W
<1>2. /\ readyList \in Seq(Tids) /\ IsInjective(readyList)
      /\ Range(readyList) = ReadySet(state)
  BY DEF IInv, TypeOK, SchedulerConsistent, ReadyListExact, ReadySet
<1>3. Range(readyList) \cap W = {}
  BY <1>1, <1>2 DEF ReadySet
<1>4. /\ readyList \o waitList[c] \in Seq(Tids)
      /\ IsInjective(readyList \o waitList[c])
      /\ Range(readyList \o waitList[c]) = Range(readyList) \cup W
  BY <1>1, <1>2, <1>3, ConcatList DEF W
<1>5. \A s \in Tids : Woken(st, c)[s] = IF s \in W THEN "READY" ELSE st[s]
  BY DEF Woken, W
<1>6. \A s \in Tids : Unwaited(c)[s] = IF s \in W THEN NULL ELSE waitCond[s]
  BY DEF Unwaited, W
<1>7. Woken(st, c) \in [Tids -> States] /\ ReadySet(Woken(st, c)) = ReadySet(state) \cup W
  BY <1>1, <1>5 DEF Woken, W, ReadySet, States
<1>8. WaitExact(Woken(st, c), [waitList EXCEPT ![c] = <<>>], Unwaited(c))
  <2> SUFFICES ASSUME NEW d \in Conds
               PROVE  /\ IsInjective([waitList EXCEPT ![c] = <<>>][d])
                      /\ Range([waitList EXCEPT ![c] = <<>>][d]) =
                           {s \in Tids : Woken(st, c)[s] = "WAITING" /\ Unwaited(c)[s] = d}
    BY DEF WaitExact
  <2>1. CASE d = c
    <3>1. Range(<<>>) = {} /\ IsInjective(<<>>)
      BY DEF Range, IsInjective
    <3>2. \A s \in Tids : ~(Woken(st, c)[s] = "WAITING" /\ Unwaited(c)[s] = c)
      BY <1>1, <1>5, <1>6
    <3> QED
      BY <2>1, <3>1, <3>2 DEF IInv, TypeOK
  <2>2. CASE d # c
    <3>1. [waitList EXCEPT ![c] = <<>>][d] = waitList[d]
      BY <2>2 DEF IInv, TypeOK
    <3>2. {s \in Tids : Woken(st, c)[s] = "WAITING" /\ Unwaited(c)[s] = d}
            = {s \in Tids : state[s] = "WAITING" /\ waitCond[s] = d}
      BY <1>1, <1>5, <1>6, <2>2
    <3> QED
      BY <3>1, <3>2 DEF IInv, SchedulerConsistent, WaitListsExact
  <2> QED
    BY <2>1, <2>2
<1>9. /\ [waitList EXCEPT ![c] = <<>>] \in [Conds -> Seq(Tids)]
      /\ Unwaited(c) \in [Tids -> Conds \cup {NULL}]
  BY <1>6 DEF IInv, TypeOK, Unwaited
<1>10. \A s \in Tids : \/ Woken(st, c)[s] = st[s]
                       \/ st[s] = "WAITING" /\ Woken(st, c)[s] = "READY"
  BY <1>1, <1>5
<1>11. \A s \in Tids : Woken(st, c)[s] = "WAITING" =>
                         /\ state[s] = "WAITING"
                         /\ Unwaited(c)[s] = waitCond[s]
  BY <1>5, <1>6
<1> QED
  BY <1>2, <1>4, <1>7, <1>8, <1>9, <1>10, <1>11

\* condition_broadcast of a device condition, by a thread or an ISR.
LEMMA ConditionBroadcastIInv ==
  ASSUME IInv, NEW c \in DevConds, ConditionBroadcast(c)
  PROVE  IInv' /\ SlotsKept
<1>1. c \in Conds
  BY DEF Conds
<1>2. /\ state' = Woken(state, c)
      /\ readyList' = readyList \o waitList[c]
      /\ waitList' = [waitList EXCEPT ![c] = <<>>]
      /\ waitCond' = Unwaited(c)
      /\ UNCHANGED <<parent, cur, pc, joinTid, halt>>
  BY DEF ConditionBroadcast
<1>3. /\ state' \in [Tids -> States]
      /\ readyList' \in Seq(Tids)
      /\ IsInjective(readyList')
      /\ Range(readyList') = ReadySet(state')
      /\ WaitExact(state', waitList', waitCond')
      /\ waitList' \in [Conds -> Seq(Tids)]
      /\ waitCond' \in [Tids -> Conds \cup {NULL}]
      /\ \A s \in Tids : \/ state'[s] = state[s]
                         \/ state[s] = "WAITING" /\ state'[s] = "READY"
      /\ \A s \in Tids : state'[s] = "WAITING" =>
                           /\ state[s] = "WAITING"
                           /\ waitCond'[s] = waitCond[s]
  <2>1. /\ Woken(state, c) \in [Tids -> States]
        /\ readyList \o waitList[c] \in Seq(Tids)
        /\ IsInjective(readyList \o waitList[c])
        /\ Range(readyList \o waitList[c]) = ReadySet(Woken(state, c))
        /\ WaitExact(Woken(state, c), [waitList EXCEPT ![c] = <<>>], Unwaited(c))
        /\ [waitList EXCEPT ![c] = <<>>] \in [Conds -> Seq(Tids)]
        /\ Unwaited(c) \in [Tids -> Conds \cup {NULL}]
        /\ \A s \in Tids : \/ Woken(state, c)[s] = state[s]
                           \/ state[s] = "WAITING" /\ Woken(state, c)[s] = "READY"
        /\ \A s \in Tids : Woken(state, c)[s] = "WAITING" =>
                             /\ state[s] = "WAITING"
                             /\ Unwaited(c)[s] = waitCond[s]
    BY <1>1, BroadcastFacts DEF IInv, TypeOK
  <2> QED
    BY <1>2, <2>1
<1>4. TypeOK'
  BY <1>2, <1>3 DEF IInv, TypeOK
<1>5. OneRunning' /\ IdleRunnable'
  BY <1>2, <1>3, IdleInTids DEF IInv, SchedulerConsistent, OneRunning, IdleRunnable,
                               TypeOK
<1>6. ParentTyped' /\ JoinTyped' /\ WaitOwn' /\ pc'[IDLE_TID] = "run"
  BY <1>2, <1>3 DEF IInv, ParentTyped, JoinTyped, WaitOwn
<1>7. SlotsKept
  BY <1>3 DEF SlotsKept
<1> QED
  BY <1>3, <1>4, <1>5, <1>6, <1>7
     DEF IInv, SchedulerConsistent, ReadyListExact, ReadySet, WaitListsExact, WaitExact

\* thread_exit: main halts; any other thread becomes EXITED, wakes the
\* waiters of its parent's child_exit and suspends for good.
LEMMA ExitIInv ==
  ASSUME IInv, NEW t \in Tids, ThreadExit(t)
  PROVE  IInv' /\ SlotsKept
<1>1. CASE t = MAIN_TID
  BY <1>1, HaltStep DEF ThreadExit, Halts, SlotsKept
<1>2. CASE t # MAIN_TID
  <2> DEFINE p   == parent[t]
             st0 == [state EXCEPT ![t] = "EXITED"]
             st2 == Woken(st0, p)
             rl2 == readyList \o waitList[p]
  <2>1. t = cur /\ state[t] = "RUNNING" /\ t # IDLE_TID
        /\ \A s \in Tids : state[s] = "RUNNING" => s = t
    BY DEF ThreadExit, Running, IInv, SchedulerConsistent, OneRunning
  <2>2. p \in Tids /\ p \in Conds
    BY <1>2, <2>1 DEF IInv, ParentTyped, Conds, p
  <2>3. /\ waitCond' = Unwaited(p)
        /\ waitList' = [waitList EXCEPT ![p] = <<>>]
        /\ SuspendSelf(st2, rl2)
        /\ UNCHANGED <<parent, pc, joinTid, halt>>
    BY <1>2 DEF ThreadExit, p, st0, st2, rl2
  <2>4. /\ st0 \in [Tids -> States]
        /\ \A s \in Tids : /\ st0[s] = "WAITING" <=> state[s] = "WAITING"
                           /\ st0[s] = "READY" <=> state[s] = "READY"
                           /\ st0[s] = "UNINIT" <=> state[s] = "UNINIT"
                           /\ st0[s] = "RUNNING" => s # t /\ state[s] = "RUNNING"
    BY <2>1 DEF IInv, TypeOK, States, st0
  <2>5. /\ st2 \in [Tids -> States]
        /\ rl2 \in Seq(Tids)
        /\ IsInjective(rl2)
        /\ Range(rl2) = ReadySet(st2)
        /\ WaitExact(st2, waitList', waitCond')
        /\ waitList' \in [Conds -> Seq(Tids)]
        /\ waitCond' \in [Tids -> Conds \cup {NULL}]
        /\ \A s \in Tids : \/ st2[s] = st0[s]
                           \/ st0[s] = "WAITING" /\ st2[s] = "READY"
        /\ \A s \in Tids : st2[s] = "WAITING" =>
                             /\ state[s] = "WAITING"
                             /\ waitCond'[s] = waitCond[s]
    <3>1. /\ Woken(st0, p) \in [Tids -> States]
          /\ readyList \o waitList[p] \in Seq(Tids)
          /\ IsInjective(readyList \o waitList[p])
          /\ Range(readyList \o waitList[p]) = ReadySet(Woken(st0, p))
          /\ WaitExact(Woken(st0, p), [waitList EXCEPT ![p] = <<>>], Unwaited(p))
          /\ [waitList EXCEPT ![p] = <<>>] \in [Conds -> Seq(Tids)]
          /\ Unwaited(p) \in [Tids -> Conds \cup {NULL}]
          /\ \A s \in Tids : \/ Woken(st0, p)[s] = st0[s]
                             \/ st0[s] = "WAITING" /\ Woken(st0, p)[s] = "READY"
          /\ \A s \in Tids : Woken(st0, p)[s] = "WAITING" =>
                               /\ state[s] = "WAITING"
                               /\ Unwaited(p)[s] = waitCond[s]
      BY <2>2, <2>4, BroadcastFacts
    <3> QED
      BY <2>3, <3>1 DEF st2, rl2
  <2>6. st2[cur] = "EXITED" /\ \A s \in Tids : st2[s] = "RUNNING" => s = cur
    <3>1. st0[t] = "EXITED"
      BY DEF IInv, TypeOK, st0
    <3>2. st2[t] = "EXITED"
      BY <2>5, <3>1
    <3>3. \A s \in Tids : st2[s] # "RUNNING"
      <4> TAKE s \in Tids
      <4>1. st0[s] # "RUNNING"
        BY <2>1, <2>4
      <4> QED
        BY <2>5, <4>1
    <3> QED
      BY <2>1, <3>2, <3>3
  <2>7. /\ cur' \in Tids
        /\ state' \in [Tids -> States]
        /\ readyList' \in Seq(Tids)
        /\ state'[cur'] = "RUNNING"
        /\ \A s \in Tids : state'[s] = "RUNNING" => s = cur'
        /\ IsInjective(readyList')
        /\ Range(readyList') = ReadySet(state')
        /\ \A s \in Tids : \/ state'[s] = st2[s]
                           \/ st2[s] \in Active /\ state'[s] \in Active
    BY <2>3, <2>5, <2>6, SuspendSelfStep DEF IInv, TypeOK
  <2>8. \A s \in Tids : /\ state'[s] = "WAITING" <=> st2[s] = "WAITING"
                        /\ state'[s] = "UNINIT" <=> state[s] = "UNINIT"
    <3>1. \A s \in Tids : /\ state'[s] = "WAITING" <=> st2[s] = "WAITING"
                          /\ state'[s] = "UNINIT" <=> st2[s] = "UNINIT"
      BY <2>7 DEF Active
    <3>2. \A s \in Tids : st2[s] = "UNINIT" <=> st0[s] = "UNINIT"
      BY <2>5
    <3> QED
      BY <2>4, <3>1, <3>2
  <2>9. TypeOK'
    BY <2>3, <2>5, <2>7 DEF IInv, TypeOK
  <2>10. WaitListsExact'
    BY <2>5, <2>8 DEF WaitListsExact, WaitExact
  <2>11. IdleRunnable'
    <3>1. st2[IDLE_TID] \in Active
      BY <2>1, <2>4, <2>5, IdleInTids DEF IInv, SchedulerConsistent, IdleRunnable,
                                         Active, TypeOK
    <3> QED
      BY <2>7, <3>1, IdleInTids DEF IdleRunnable, Active
  <2>12. ParentTyped' /\ JoinTyped' /\ WaitOwn' /\ pc'[IDLE_TID] = "run"
    BY <2>3, <2>5, <2>8 DEF IInv, ParentTyped, JoinTyped, WaitOwn
  <2> QED
    BY <2>7, <2>8, <2>9, <2>10, <2>11, <2>12
       DEF IInv, SchedulerConsistent, OneRunning, ReadyListExact, ReadySet, SlotsKept
<1> QED
  BY <1>1, <1>2

-----------------------------------------------------------------------------
(* thread_join and thread_join_any *)

\* The scans of thread_join_any return an EXITED slot other than main's.
LEMMA ExitedChildFound ==
  ASSUME NEW t \in Tids, ExitedChildren(t) # {}
  PROVE  /\ Lowest(ExitedChildren(t)) \in 1 .. NTHR - 1
         /\ state[Lowest(ExitedChildren(t))] = "EXITED"
<1>1. ExitedChildren(t) \subseteq Nat
  BY ConstAssumption DEF ExitedChildren, Children
<1>2. Lowest(ExitedChildren(t)) \in ExitedChildren(t)
  BY <1>1, LowestIsLeast
<1> QED
  BY <1>2 DEF ExitedChildren, Children

\* The wait of thread_join and thread_join_any on CURTHR->child_exit, with
\* the caller's pc set to where it resumes and its join argument to a slot
\* other than main's or unchanged.
LEMMA JoinWaitIInv ==
  ASSUME IInv, NEW t \in Tids, NEW where \in {"join", "joinany"},
         cur = t, t # IDLE_TID,
         ConditionWaitOn(t, t),
         pc' = [pc EXCEPT ![t] = where],
         \/ where = "join" /\ joinTid' \in [Tids -> Tids \cup {NULL}]
                           /\ joinTid'[t] \in 1 .. NTHR - 1
                           /\ \A s \in Tids \ {t} : joinTid'[s] = joinTid[s]
         \/ where = "joinany" /\ joinTid' = joinTid,
         UNCHANGED <<parent, halt>>
  PROVE  IInv' /\ SlotsKept
<1>1. WaitOnPost
  BY WaitOnStep
<1>2. TypeOK'
  BY <1>1 DEF WaitOnPost, IInv, TypeOK, Pcs
<1>3. pc'[IDLE_TID] = "run" /\ ParentTyped' /\ JoinTyped'
  BY <1>1, IdleInTids DEF WaitOnPost, IInv, TypeOK, ParentTyped, JoinTyped
<1> QED
  BY <1>1, <1>2, <1>3 DEF WaitOnPost, IInv, SlotsKept

\* One iteration of thread_join's loop, for a child tid other than main.
LEMMA JoinStepIInv ==
  ASSUME IInv, NEW t \in Tids, NEW tid \in 1 .. NTHR - 1,
         cur = t, t # IDLE_TID,
         JoinStep(t, tid)
  PROVE  IInv'
<1>1. CASE state[tid] = "EXITED"
  <2>1. /\ RecycleThread(tid)
        /\ pc' = [pc EXCEPT ![t] = "run"]
        /\ joinTid' = [joinTid EXCEPT ![t] = NULL]
        /\ UNCHANGED <<readyList, waitList, waitCond, cur, halt>>
    BY <1>1 DEF JoinStep
  <2> QED
    BY <1>1, <2>1, ReapStep DEF IInv, TypeOK
<1>2. CASE state[tid] # "EXITED"
  <2>1. /\ pc' = [pc EXCEPT ![t] = "join"]
        /\ joinTid' = [joinTid EXCEPT ![t] = tid]
        /\ ConditionWaitOn(t, t)
        /\ UNCHANGED <<parent, halt>>
    BY <1>2 DEF JoinStep
  <2>2. joinTid' \in [Tids -> Tids \cup {NULL}] /\ joinTid'[t] \in 1 .. NTHR - 1
    BY <2>1 DEF IInv, TypeOK, Tids
  <2> QED
    BY <2>1, <2>2, JoinWaitIInv DEF IInv, TypeOK
<1> QED
  BY <1>1, <1>2

\* thread_join(tid) with a live child tid.
LEMMA ThreadJoinIInv ==
  ASSUME IInv, NEW t \in Tids, NEW tid \in 1 .. NTHR - 1, ThreadJoin(t, tid)
  PROVE  IInv'
BY JoinStepIInv DEF ThreadJoin, Running

\* thread_join resumed: the loop goes on with the argument it was called with.
LEMMA JoinResumeIInv ==
  ASSUME IInv, NEW t \in Tids, JoinResume(t)
  PROVE  IInv'
<1>1. joinTid[t] \in 1 .. NTHR - 1 /\ t # IDLE_TID /\ cur = t
  BY DEF JoinResume, Running, IInv, JoinTyped
<1> QED
  BY <1>1, JoinStepIInv DEF JoinResume

\* thread_join_any: reap, panic, or wait on the caller's child_exit.
LEMMA ThreadJoinAnyIInv ==
  ASSUME IInv, NEW t \in Tids, ThreadJoinAny(t)
  PROVE  IInv'
<1>1. cur = t /\ t # IDLE_TID /\ pc[t] = "run" /\ pc = [pc EXCEPT ![t] = "run"]
  BY DEF ThreadJoinAny, Running, IInv, TypeOK
<1>2. CASE ExitedChildren(t) # {} /\ RecycleThread(Lowest(ExitedChildren(t)))
                                  /\ UNCHANGED <<readyList, waitList, waitCond, cur, pc,
                                                 joinTid, halt>>
  BY <1>1, <1>2, ExitedChildFound, ReapStep DEF IInv, TypeOK
<1>3. CASE Children(t) = {} /\ halt' = "childless"
           /\ UNCHANGED <<state, parent, readyList, waitList, waitCond, cur, pc, joinTid>>
  BY <1>3, HaltStep DEF Halts
<1>4. CASE pc' = [pc EXCEPT ![t] = "joinany"] /\ ConditionWaitOn(t, t)
           /\ UNCHANGED <<parent, joinTid, halt>>
  BY <1>1, <1>4, JoinWaitIInv
<1> QED
  BY <1>2, <1>3, <1>4 DEF ThreadJoinAny

\* thread_join_any after its wait: reap, or panic.
LEMMA JoinAnyResumeIInv ==
  ASSUME IInv, NEW t \in Tids, JoinAnyResume(t)
  PROVE  IInv'
<1>1. cur = t
  BY DEF JoinAnyResume, Running
<1>2. CASE ExitedChildren(t) # {} /\ RecycleThread(Lowest(ExitedChildren(t)))
           /\ pc' = [pc EXCEPT ![t] = "run"]
           /\ UNCHANGED <<readyList, waitList, waitCond, cur, joinTid, halt>>
  BY <1>1, <1>2, ExitedChildFound, ReapStep DEF IInv, TypeOK
<1>3. CASE halt' = "spurious"
           /\ UNCHANGED <<state, parent, readyList, waitList, waitCond, cur, pc, joinTid>>
  BY <1>3, HaltStep DEF Halts
<1> QED
  BY <1>2, <1>3 DEF JoinAnyResume

-----------------------------------------------------------------------------
(* The theorems *)

\* thread_init leaves main RUNNING and idle READY, alone in the ready list.
LEMMA InitIInv == Init => IInv
<1> SUFFICES ASSUME Init PROVE IInv
  OBVIOUS
<1>1. TypeOK
  BY IdleInTids DEF Init, TypeOK, States, Conds, Pcs, Halts
<1>2. Range(readyList) = {IDLE_TID} /\ IsInjective(readyList)
  BY DEF Init, Range, IsInjective
<1>3. \A c \in Conds : Range(waitList[c]) = {} /\ IsInjective(waitList[c])
  BY DEF Init, Range, IsInjective
<1>4. \A t \in Tids : state[t] = "READY" <=> t = IDLE_TID
  BY IdleInTids DEF Init
<1> QED
  BY <1>1, <1>2, <1>3, <1>4, IdleInTids
     DEF Init, IInv, SchedulerConsistent, OneRunning, ReadyListExact, WaitListsExact,
         IdleRunnable, ParentTyped, JoinTyped, WaitOwn

\* Every step of the thread manager, and every broadcast of an interrupt
\* service routine, keeps the invariant.
LEMMA NextIInv == IInv /\ [Next]_vars => IInv'
<1> SUFFICES ASSUME IInv, [Next]_vars PROVE IInv'
  OBVIOUS
<1>1. CASE UNCHANGED vars
  BY <1>1 DEF vars, IInv, TypeOK, SchedulerConsistent, OneRunning, ReadyListExact,
              WaitListsExact, IdleRunnable, ParentTyped, JoinTyped, WaitOwn
<1>2. ASSUME NEW t \in Tids,
             \/ ThreadYield(t)
             \/ ThreadSpawn(t)
             \/ ThreadFork(t)
             \/ ThreadExit(t)
             \/ \E tid \in 1 .. NTHR - 1 : ThreadJoin(t, tid)
             \/ JoinResume(t)
             \/ ThreadJoinAny(t)
             \/ JoinAnyResume(t)
             \/ \E c \in DevConds : ConditionWait(t, c)
      PROVE  IInv'
  BY <1>2, YieldIInv, SpawnIInv, ForkIInv, ExitIInv, ThreadJoinIInv, JoinResumeIInv,
     ThreadJoinAnyIInv, JoinAnyResumeIInv, ConditionWaitIInv
<1>3. ASSUME NEW c \in DevConds, ConditionBroadcast(c) PROVE IInv'
  BY <1>3, ConditionBroadcastIInv
<1> QED
  BY <1>1, <1>2, <1>3 DEF Next

\* The inductive invariant holds in every reachable state.
THEOREM IInvariant == Spec => []IInv
BY InitIInv, NextIInv, PTL DEF Spec

\* Type correctness: every variable of the thread manager keeps its type
\* through every operation (spawn, fork, exit, join, wait, broadcast).
THEOREM TypeCorrect == Spec => []TypeOK
<1>1. IInv => TypeOK
  BY DEF IInv
<1> QED
  BY IInvariant, <1>1, PTL

\* The scheduler invariant, for every NTHR >= 2: exactly one thread (CURTHR)
\* is RUNNING, ready_list holds each READY thread once and nothing else, each
\* WAITING thread is linked once in the list of the condition it waits on,
\* and idle is READY or RUNNING, so suspend_self never finds the ready list
\* empty (the assertion of thread.c:620).
THEOREM SchedulerSafe == Spec => []SchedulerConsistent
<1>1. IInv => SchedulerConsistent
  BY DEF IInv
<1> QED
  BY IInvariant, <1>1, PTL

\* Only a thread itself waits on its child_exit, so the child_exit of a
\* thread that is EXITED or gone has an empty wait list.
LEMMA IInvChildExit == IInv => ReapedChildExitEmpty
<1> SUFFICES ASSUME IInv, NEW t \in Tids, state[t] \in {"UNINIT", "EXITED"}
             PROVE  waitList[t] = <<>>
  BY DEF ReapedChildExitEmpty
<1>1. \A k \in Tids : ~(state[k] = "WAITING" /\ waitCond[k] = t)
  <2> SUFFICES ASSUME NEW k \in Tids, state[k] = "WAITING", waitCond[k] = t
               PROVE  FALSE
    OBVIOUS
  <2>1. waitCond[k] \in DevConds \cup {k}
    BY DEF IInv, WaitOwn
  <2>2. t \notin DevConds
    BY ConstAssumption DEF Tids
  <2>3. k = t
    BY <2>1, <2>2
  <2> QED
    BY <2>3
<1>2. Range(waitList[t]) = {}
  BY <1>1 DEF IInv, SchedulerConsistent, WaitListsExact, Conds
<1>3. waitList[t] \in Seq(Tids)
  BY DEF IInv, TypeOK, Conds
<1>4. Len(waitList[t]) = 0
  <2> SUFFICES ASSUME Len(waitList[t]) # 0 PROVE FALSE
    OBVIOUS
  <2>1. 1 \in DOMAIN waitList[t]
    BY <1>3
  <2>2. waitList[t][1] \in Range(waitList[t])
    BY <2>1, Zenon DEF Range
  <2> QED
    BY <2>2, <1>2
<1> QED
  BY <1>3, <1>4

\* The child_exit of every EXITED or reaped thread has no waiter, for every
\* NTHR >= 2: a struct thread that kmalloc hands back to thread_spawn or
\* thread_fork_to_user after recycle_thread freed it carries an empty
\* child_exit, although neither calls condition_init (thread.c:215).
THEOREM ReapedChildExitSafe == Spec => []ReapedChildExitEmpty
BY IInvariant, IInvChildExit, PTL

=============================================================================
