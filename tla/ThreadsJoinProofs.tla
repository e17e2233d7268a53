------------------------- MODULE ThreadsJoinProofs -------------------------
(***************************************************************************)
(* Proofs about thread_join and thread_join_any, for every NTHR >= 2: the *)
(* struct thread_join caches stays its live child while it waits, and a   *)
(* thread_join_any woken from its wait finds an EXITED child. Both rest   *)
(* on the invariant IInv of ThreadsProofs.                                 *)
(***************************************************************************)
EXTENDS ThreadsProofs

(* The join invariant, thread by thread. A thread suspended inside        *)
(* thread_join / thread_join_any (pc # "run") is alive, and while it      *)
(* waits it waits on its own child_exit; the child thread_join watches is *)
(* held; a woken thread_join_any has an EXITED child to reap.             *)
PcOK(s) ==
  pc[s] # "run" =>
    /\ state[s] \in {"WAITING", "READY", "RUNNING"}
    /\ state[s] = "WAITING" => waitCond[s] = s

JoinOK(s) ==
  pc[s] = "join" =>
    /\ joinTid[s] \in 1 .. NTHR - 1
    /\ state[joinTid[s]] # "UNINIT"
    /\ parent[joinTid[s]] = s

AnyOK(s) == (pc[s] = "joinany" /\ state[s] \in Active) => ExitedChildren(s) # {}

ThreadOK(s) == PcOK(s) /\ JoinOK(s) /\ AnyOK(s)

\* JoinTargetHeld and WokenJoinAnyFindsChild are not inductive alone: a
\* broadcast of a device condition must not wake a thread inside a join, and
\* a reaped thread must not be one that a join still waits in.
JInv == \A s \in Tids : ThreadOK(s)

\* What a step must keep for a thread s to keep ThreadOK: s leaves the join
\* (pc' = "run"), or s stays where it was and its children stay its
\* children, EXITED ones EXITED, while s itself is unchanged, moves between
\* READY and RUNNING, or is made runnable with an EXITED child.
Kept(s) ==
  \/ pc'[s] = "run"
  \/ /\ pc'[s] = pc[s]
     /\ pc[s] = "join" => joinTid'[s] = joinTid[s]
     /\ \A k \in Tids : parent[k] = s /\ state[k] # "UNINIT" =>
          /\ state'[k] # "UNINIT" /\ parent'[k] = s
          /\ state[k] = "EXITED" => state'[k] = "EXITED"
     /\ \/ state'[s] = state[s] /\ (state[s] = "WAITING" => waitCond'[s] = waitCond[s])
        \/ state[s] \in Active /\ state'[s] \in Active
        \/ state'[s] \in Active /\ ExitedChildren(s)' # {}

\* An EXITED thread stays EXITED until its slot is emptied by recycle_thread.
ExitedKept == \A k \in Tids : state[k] = "EXITED" => state'[k] \in {"EXITED", "UNINIT"}

LEMMA ThreadFrame ==
  ASSUME NEW s \in Tids, ThreadOK(s), Kept(s)
  PROVE  ThreadOK(s)'
<1>1. CASE pc'[s] = "run"
  BY <1>1 DEF ThreadOK, PcOK, JoinOK, AnyOK
<1>2. CASE pc'[s] # "run"
  <2>1. /\ pc'[s] = pc[s]
        /\ pc[s] = "join" => joinTid'[s] = joinTid[s]
        /\ \A k \in Tids : parent[k] = s /\ state[k] # "UNINIT" =>
             /\ state'[k] # "UNINIT" /\ parent'[k] = s
             /\ state[k] = "EXITED" => state'[k] = "EXITED"
        /\ \/ state'[s] = state[s] /\ (state[s] = "WAITING" => waitCond'[s] = waitCond[s])
           \/ state[s] \in Active /\ state'[s] \in Active
           \/ state'[s] \in Active /\ ExitedChildren(s)' # {}
    BY <1>2 DEF Kept
  <2>2. PcOK(s)'
    BY <1>2, <2>1 DEF ThreadOK, PcOK, Active
  <2>3. JoinOK(s)'
    BY <2>1, ConstAssumption DEF ThreadOK, JoinOK, Tids
  <2>4. AnyOK(s)'
    <3> SUFFICES ASSUME pc'[s] = "joinany", state'[s] \in Active
                 PROVE  ExitedChildren(s)' # {}
      BY DEF AnyOK
    <3>1. CASE state'[s] \in Active /\ ExitedChildren(s)' # {}
      BY <3>1
    <3>2. CASE ~(state'[s] \in Active /\ ExitedChildren(s)' # {})
      <4>1. state[s] \in Active
        BY <2>1, <3>2
      <4>2. PICK k \in ExitedChildren(s) : TRUE
        BY <2>1, <4>1 DEF ThreadOK, AnyOK
      <4>3. k \in 1 .. NTHR - 1 /\ parent[k] = s /\ state[k] = "EXITED"
        BY DEF ExitedChildren, Children
      <4>4. k \in Tids
        BY <4>3, ConstAssumption DEF Tids
      <4>5. state'[k] = "EXITED" /\ parent'[k] = s
        BY <2>1, <4>3, <4>4
      <4> QED
        BY <4>3, <4>5 DEF ExitedChildren, Children
    <3> QED
      BY <3>1, <3>2
  <2> QED
    BY <2>2, <2>3, <2>4 DEF ThreadOK
<1> QED
  BY <1>1, <1>2

\* A step that keeps every thread keeps the join invariant.
LEMMA AllKept ==
  ASSUME JInv, \A s \in Tids : Kept(s)
  PROVE  JInv'
BY ThreadFrame DEF JInv

\* A step that leaves the thread states, parents, wait conditions and join
\* positions alone (a panic, halt_success) keeps the join invariant.
LEMMA HaltJInv ==
  ASSUME JInv, UNCHANGED <<state, parent, waitCond, pc, joinTid>>
  PROVE  JInv' /\ ExitedKept
BY DEF JInv, ThreadOK, PcOK, JoinOK, AnyOK, ExitedChildren, Children, ExitedKept

\* condition_wait(c) by t: t is WAITING on c; every other thread keeps its
\* wait condition and its state, or moves between READY and RUNNING.
LEMMA WaitOnFrame ==
  ASSUME IInv, NEW t \in Tids, NEW c \in DevConds \cup {t},
         cur = t, ConditionWaitOn(t, c)
  PROVE  /\ state'[t] = "WAITING" /\ waitCond'[t] = c
         /\ \A s \in Tids \ {t} :
              /\ waitCond'[s] = waitCond[s]
              /\ \/ state'[s] = state[s]
                 \/ state[s] \in Active /\ state'[s] \in Active
<1> DEFINE st == [state EXCEPT ![t] = "WAITING"]
<1>1. /\ state[t] = "RUNNING"
      /\ \A s \in Tids : state[s] = "RUNNING" => s = t
      /\ IsInjective(readyList) /\ Range(readyList) = ReadySet(state)
      /\ TypeOK
  BY DEF IInv, SchedulerConsistent, OneRunning, ReadyListExact, ReadySet
<1>2. /\ st \in [Tids -> States]
      /\ Range(readyList) = ReadySet(st)
      /\ st[t] # "READY"
      /\ \A s \in Tids : st[s] = "RUNNING" => s = cur
  BY <1>1 DEF TypeOK, ReadySet, States
<1>3. \A s \in Tids : \/ state'[s] = st[s]
                      \/ st[s] \in Active /\ state'[s] \in Active
  BY <1>1, <1>2, SuspendSelfStep DEF ConditionWaitOn, TypeOK, st
<1>4. waitCond' = [waitCond EXCEPT ![t] = c]
  BY DEF ConditionWaitOn
<1> QED
  BY <1>1, <1>3, <1>4 DEF TypeOK, Active, st

\* thread_yield moves threads only between READY and RUNNING.
LEMMA YieldJInv ==
  ASSUME IInv, JInv, NEW t \in Tids, ThreadYield(t)
  PROVE  JInv' /\ ExitedKept
<1>1. /\ TypeOK
      /\ IsInjective(readyList) /\ Range(readyList) = ReadySet(state)
      /\ state[cur] # "READY"
      /\ \A s \in Tids : state[s] = "RUNNING" => s = cur
      /\ SuspendSelf(state, readyList)
  BY DEF IInv, SchedulerConsistent, OneRunning, ReadyListExact, ReadySet, ThreadYield
<1>2. \A s \in Tids : \/ state'[s] = state[s]
                      \/ state[s] \in Active /\ state'[s] \in Active
  BY <1>1, SuspendSelfStep DEF TypeOK
<1>3. UNCHANGED <<parent, waitCond, pc, joinTid>>
  BY DEF ThreadYield
<1>4. \A s \in Tids : Kept(s)
  BY <1>2, <1>3 DEF Kept, Active
<1> QED
  BY <1>2, <1>4, AllKept DEF ExitedKept, Active

\* thread_spawn fills an empty slot, which no join watches.
LEMMA SpawnJInv ==
  ASSUME IInv, JInv, NEW t \in Tids, ThreadSpawn(t)
  PROVE  JInv' /\ ExitedKept
<1>1. CASE FreeSlots(1) = {}
  BY <1>1, HaltJInv DEF ThreadSpawn
<1>2. CASE FreeSlots(1) # {}
  <2> DEFINE tid == Lowest(FreeSlots(1))
  <2>1. tid \in Tids /\ state[tid] = "UNINIT"
    BY <1>2, FreeSlotFound
  <2>2. /\ state' = [state EXCEPT ![tid] = "READY"]
        /\ parent' = [parent EXCEPT ![tid] = t]
        /\ pc' = [pc EXCEPT ![tid] = "run"]
        /\ joinTid' = [joinTid EXCEPT ![tid] = NULL]
        /\ UNCHANGED waitCond
    BY <1>2 DEF ThreadSpawn
  <2>3. \A s \in Tids : Kept(s)
    BY <2>1, <2>2 DEF Kept, IInv, TypeOK
  <2> QED
    BY <2>1, <2>2, <2>3, AllKept DEF ExitedKept, IInv, TypeOK
<1> QED
  BY <1>1, <1>2

\* thread_fork_to_user fills an empty slot and makes the caller READY.
LEMMA ForkJInv ==
  ASSUME IInv, JInv, NEW t \in Tids, ThreadFork(t)
  PROVE  JInv' /\ ExitedKept
<1>1. CASE FreeSlots(0) = {}
  BY <1>1, HaltJInv DEF ThreadFork
<1>2. CASE FreeSlots(0) # {}
  <2> DEFINE child == Lowest(FreeSlots(0))
  <2>1. child \in Tids /\ state[child] = "UNINIT" /\ pc[t] = "run" /\ state[t] = "RUNNING"
    BY <1>2, FreeSlotFound DEF ThreadFork, Running, IInv, SchedulerConsistent, OneRunning
  <2>2. /\ state' = [state EXCEPT ![child] = "RUNNING", ![t] = "READY"]
        /\ parent' = [parent EXCEPT ![child] = t]
        /\ pc' = [pc EXCEPT ![child] = "run"]
        /\ joinTid' = [joinTid EXCEPT ![child] = NULL]
        /\ UNCHANGED waitCond
    BY <1>2 DEF ThreadFork
  <2>3. /\ child # t
        /\ pc'[child] = "run" /\ pc'[t] = "run"
        /\ \A s \in Tids \ {child} : pc'[s] = pc[s] /\ joinTid'[s] = joinTid[s]
        /\ \A k \in Tids \ {child} : parent'[k] = parent[k]
        /\ \A k \in Tids \ {child, t} : state'[k] = state[k]
        /\ state'[t] = "READY"
    BY <2>1, <2>2 DEF IInv, TypeOK
  <2>4. \A s \in Tids : Kept(s)
    <3> TAKE s \in Tids
    <3>1. CASE s \in {child, t}
      BY <2>3, <3>1 DEF Kept
    <3>2. CASE s \notin {child, t}
      <4>1. \A k \in Tids : state[k] # "UNINIT" =>
                             /\ state'[k] # "UNINIT" /\ parent'[k] = parent[k]
                             /\ state[k] = "EXITED" => state'[k] = "EXITED"
        BY <2>1, <2>3
      <4> QED
        BY <2>2, <2>3, <3>2, <4>1 DEF Kept
    <3> QED
      BY <3>1, <3>2
  <2> QED
    BY <2>1, <2>3, <2>4, AllKept DEF ExitedKept
<1> QED
  BY <1>1, <1>2

\* condition_wait on a device condition, from outside any join.
LEMMA ConditionWaitJInv ==
  ASSUME IInv, JInv, NEW t \in Tids, NEW c \in DevConds, ConditionWait(t, c)
  PROVE  JInv' /\ ExitedKept
<1>1. /\ state'[t] = "WAITING" /\ waitCond'[t] = c
      /\ \A s \in Tids \ {t} :
           /\ waitCond'[s] = waitCond[s]
           /\ \/ state'[s] = state[s]
              \/ state[s] \in Active /\ state'[s] \in Active
  BY WaitOnFrame DEF ConditionWait, Running
<1>2. UNCHANGED <<parent, pc, joinTid>> /\ pc[t] = "run" /\ state[t] = "RUNNING"
  BY DEF ConditionWait, Running, IInv, SchedulerConsistent, OneRunning
<1>3. \A s \in Tids : Kept(s)
  BY <1>1, <1>2 DEF Kept, Active
<1> QED
  BY <1>1, <1>2, <1>3, AllKept DEF ExitedKept, Active

\* condition_broadcast of a device condition wakes no thread inside a join:
\* those wait on their own child_exit.
LEMMA ConditionBroadcastJInv ==
  ASSUME IInv, JInv, NEW c \in DevConds, ConditionBroadcast(c)
  PROVE  JInv' /\ ExitedKept
<1>1. /\ state' = Woken(state, c)
      /\ waitCond' = Unwaited(c)
      /\ UNCHANGED <<parent, pc, joinTid>>
  BY DEF ConditionBroadcast
<1>2. \A s \in Range(waitList[c]) : s \in Tids /\ pc[s] = "run"
  <2> TAKE s \in Range(waitList[c])
  <2>1. s \in Tids /\ state[s] = "WAITING" /\ waitCond[s] = c
    BY DEF IInv, SchedulerConsistent, WaitListsExact, Conds
  <2>2. c \notin Tids
    BY ConstAssumption DEF Tids
  <2> QED
    BY <2>1, <2>2 DEF JInv, ThreadOK, PcOK
<1>3. \A s \in Tids : s \notin Range(waitList[c]) =>
                        state'[s] = state[s] /\ waitCond'[s] = waitCond[s]
  BY <1>1 DEF Woken, Unwaited
<1>4. \A s \in Tids : \/ state'[s] = state[s]
                      \/ state[s] = "WAITING" /\ state'[s] = "READY"
  BY <1>1, <1>3 DEF Woken, IInv, SchedulerConsistent, WaitListsExact, Conds
<1>5. \A s \in Tids : Kept(s)
  BY <1>1, <1>2, <1>3, <1>4 DEF Kept
<1> QED
  BY <1>4, <1>5, AllKept DEF ExitedKept


\* thread_exit by t, other than main: t becomes EXITED and the waiters of
\* its parent p's child_exit are woken. A thread inside a join waits on its
\* own child_exit, so the only one woken is p itself, which then has t as
\* an EXITED child.
LEMMA ExitJInv ==
  ASSUME IInv, JInv, NEW t \in Tids, ThreadExit(t)
  PROVE  JInv' /\ ExitedKept
<1>1. CASE t = MAIN_TID
  BY <1>1, HaltJInv DEF ThreadExit
<1>2. CASE t # MAIN_TID
  <2> DEFINE p   == parent[t]
             st0 == [state EXCEPT ![t] = "EXITED"]
             st2 == Woken(st0, p)
             rl2 == readyList \o waitList[p]
  <2>1. t = cur /\ state[t] = "RUNNING" /\ pc[t] = "run"
        /\ \A s \in Tids : state[s] = "RUNNING" => s = t
    BY DEF ThreadExit, Running, IInv, SchedulerConsistent, OneRunning
  <2>2. p \in Tids /\ p \in Conds
    BY <1>2, <2>1 DEF IInv, ParentTyped, Conds, p
  <2>3. /\ waitCond' = Unwaited(p)
        /\ SuspendSelf(st2, rl2)
        /\ UNCHANGED <<parent, pc, joinTid>>
    BY <1>2 DEF ThreadExit, p, st0, st2, rl2
  <2>4. /\ st0 \in [Tids -> States]
        /\ \A s \in Tids : /\ st0[s] = "WAITING" <=> state[s] = "WAITING"
                           /\ st0[s] = "READY" <=> state[s] = "READY"
                           /\ s # t => st0[s] = state[s]
                           /\ st0[s] # "RUNNING"
        /\ st0[t] = "EXITED"
    BY <2>1 DEF IInv, TypeOK, States, st0
  <2>5. /\ st2 \in [Tids -> States]
        /\ rl2 \in Seq(Tids)
        /\ IsInjective(rl2)
        /\ Range(rl2) = ReadySet(st2)
        /\ \A s \in Tids : \/ st2[s] = st0[s]
                           \/ st0[s] = "WAITING" /\ st2[s] = "READY"
    <3>1. /\ Woken(st0, p) \in [Tids -> States]
          /\ readyList \o waitList[p] \in Seq(Tids)
          /\ IsInjective(readyList \o waitList[p])
          /\ Range(readyList \o waitList[p]) = ReadySet(Woken(st0, p))
          /\ WaitExact(Woken(st0, p), [waitList EXCEPT ![p] = <<>>], Unwaited(p))
          /\ [waitList EXCEPT ![p] = <<>>] \in [Conds -> Seq(Tids)]
          /\ Unwaited(p) \in [Tids -> Conds \cup {NULL}]
          /\ \A s \in Tids : \/ Woken(st0, p)[s] = st0[s]
                             \/ st0[s] = "WAITING" /\ Woken(st0, p)[s] = "READY"
          /\ \A s \in Tids : Woken(st0, p)[s] = "WAITING" =>
                               /\ state[s] = "WAITING"
                               /\ Unwaited(p)[s] = waitCond[s]
      BY <2>2, <2>4, BroadcastFacts
    <3> QED
      BY <3>1 DEF st2, rl2
  <2>6. st2[cur] # "READY" /\ \A s \in Tids : st2[s] = "RUNNING" => s = cur
    <3>1. st2[t] = "EXITED"
      BY <2>4, <2>5
    <3>2. \A s \in Tids : st2[s] # "RUNNING"
      BY <2>4, <2>5
    <3> QED
      BY <2>1, <3>1, <3>2
  <2>7. \A s \in Tids : \/ state'[s] = st2[s]
                        \/ st2[s] \in Active /\ state'[s] \in Active
    BY <2>3, <2>5, <2>6, SuspendSelfStep DEF IInv, TypeOK
  <2>10. state'[t] = "EXITED"
    <3>1. st2[t] = "EXITED"
      BY <2>4, <2>5
    <3> QED
      BY <2>7, <3>1 DEF Active
  <2>8. \A k \in Tids : /\ state[k] # "UNINIT" => state'[k] # "UNINIT"
                        /\ state[k] = "EXITED" => state'[k] = "EXITED"
    BY <2>4, <2>5, <2>7 DEF Active
  <2>9. \A s \in Tids : Kept(s)
    <3> TAKE s \in Tids
    <3>1. CASE pc[s] = "run"
      BY <2>3, <3>1 DEF Kept
    <3>2. CASE pc[s] # "run"
      <4>1. /\ s # t
            /\ state[s] \in {"WAITING", "READY", "RUNNING"}
            /\ state[s] = "WAITING" => waitCond[s] = s
        BY <2>1, <3>2 DEF JInv, ThreadOK, PcOK
      <4>2. s \in Range(waitList[p]) <=> state[s] = "WAITING" /\ p = s
        BY <2>2, <4>1 DEF IInv, SchedulerConsistent, WaitListsExact
      <4>3. CASE s = p
        <5>1. state'[s] \in Active
          BY <2>4, <2>5, <2>7, <4>1, <4>2, <4>3 DEF st2, Woken, Active
        <5>2. t \in ExitedChildren(s)'
          <6>1. t \in 1 .. NTHR - 1
            BY <1>2 DEF Tids, MAIN_TID
          <6> QED
            BY <2>3, <2>10, <4>3, <6>1 DEF ExitedChildren, Children, p
        <5> QED
          BY <2>3, <2>8, <5>1, <5>2 DEF Kept
      <4>4. CASE s # p
        <5>1. st2[s] = state[s] /\ waitCond'[s] = waitCond[s]
          BY <2>3, <2>4, <4>1, <4>2, <4>4 DEF st2, Woken, Unwaited
        <5>2. \/ state'[s] = state[s]
              \/ state[s] \in Active /\ state'[s] \in Active
          BY <2>7, <5>1
        <5> QED
          BY <2>3, <2>8, <5>1, <5>2 DEF Kept
      <4> QED
        BY <4>3, <4>4
    <3> QED
      BY <3>1, <3>2
  <2> QED
    BY <2>8, <2>9, AllKept DEF ExitedKept
<1> QED
  BY <1>1, <1>2


\* Reaping the EXITED child x of u (recycle_thread) while u leaves its join:
\* x is no thread's join target but u's, and the children it hands to u
\* are not the children of any other thread.
LEMMA ReapJInv ==
  ASSUME IInv, JInv, NEW u \in Tids, NEW x \in 1 .. NTHR - 1,
         state[x] = "EXITED", parent[x] = u,
         RecycleThread(x),
         UNCHANGED waitCond,
         pc' = [pc EXCEPT ![u] = "run"],
         \A s \in Tids \ {u} : joinTid'[s] = joinTid[s]
  PROVE  JInv' /\ ExitedKept
<1>1. x \in Tids /\ state' = [state EXCEPT ![x] = "UNINIT"]
  BY ConstAssumption DEF RecycleThread, Tids
<1>2. \A s \in Tids : Kept(s)
  <2> TAKE s \in Tids
  <2>1. CASE s = u \/ pc[s] = "run"
    BY <2>1 DEF Kept, IInv, TypeOK
  <2>2. CASE s # u /\ pc[s] # "run"
    <3>1. s # x /\ pc'[s] = pc[s]
      BY <2>2 DEF JInv, ThreadOK, PcOK, IInv, TypeOK
    <3>2. \A k \in Tids : parent[k] = s /\ state[k] # "UNINIT" =>
            /\ k # x
            /\ state'[k] = state[k]
            /\ parent'[k] = s
      BY <1>1, <2>2, <3>1 DEF RecycleThread, IInv, TypeOK
    <3> QED
      BY <1>1, <2>2, <3>1, <3>2 DEF Kept, IInv, TypeOK
  <2> QED
    BY <2>1, <2>2
<1> QED
  BY <1>1, <1>2, AllKept DEF ExitedKept, IInv, TypeOK

\* The wait of thread_join (where = "join", on a live child of t) and of
\* thread_join_any (where = "joinany") on t's own child_exit.
LEMMA JoinWaitJInv ==
  ASSUME IInv, JInv, NEW t \in Tids, NEW where \in {"join", "joinany"},
         cur = t,
         ConditionWaitOn(t, t),
         pc' = [pc EXCEPT ![t] = where],
         \A s \in Tids \ {t} : joinTid'[s] = joinTid[s],
         where = "join" => /\ joinTid'[t] \in 1 .. NTHR - 1
                           /\ state[joinTid'[t]] # "UNINIT"
                           /\ parent[joinTid'[t]] = t,
         UNCHANGED parent
  PROVE  JInv' /\ ExitedKept
<1>1. /\ state'[t] = "WAITING" /\ waitCond'[t] = t
      /\ \A s \in Tids \ {t} :
           /\ waitCond'[s] = waitCond[s]
           /\ \/ state'[s] = state[s]
              \/ state[s] \in Active /\ state'[s] \in Active
  BY WaitOnFrame
<1>2. \A k \in Tids : /\ state[k] # "UNINIT" => state'[k] # "UNINIT"
                      /\ state[k] = "EXITED" => state'[k] = "EXITED"
  BY <1>1 DEF Active, IInv, SchedulerConsistent, OneRunning
<1>3. pc'[t] = where /\ \A s \in Tids \ {t} : pc'[s] = pc[s]
  BY DEF IInv, TypeOK
<1>4. \A s \in Tids \ {t} : Kept(s)
  BY <1>1, <1>2, <1>3 DEF Kept, Active
<1>5. ThreadOK(t)'
  <2>1. PcOK(t)'
    BY <1>1 DEF PcOK
  <2>2. JoinOK(t)'
    BY <1>2, <1>3, ConstAssumption DEF JoinOK, Tids
  <2>3. AnyOK(t)'
    BY <1>1 DEF AnyOK, Active
  <2> QED
    BY <2>1, <2>2, <2>3 DEF ThreadOK
<1>6. JInv'
  BY <1>4, <1>5, ThreadFrame DEF JInv
<1> QED
  BY <1>2, <1>6 DEF ExitedKept

\* One iteration of thread_join's loop for a live child tid of t.
LEMMA JoinStepJInv ==
  ASSUME IInv, JInv, NEW t \in Tids, NEW tid \in 1 .. NTHR - 1,
         cur = t, state[tid] # "UNINIT", parent[tid] = t,
         JoinStep(t, tid)
  PROVE  JInv' /\ ExitedKept
<1>1. CASE state[tid] = "EXITED"
  BY <1>1, ReapJInv DEF JoinStep, IInv, TypeOK
<1>2. CASE state[tid] # "EXITED"
  <2>1. /\ pc' = [pc EXCEPT ![t] = "join"]
        /\ joinTid' = [joinTid EXCEPT ![t] = tid]
        /\ ConditionWaitOn(t, t)
        /\ UNCHANGED parent
    BY <1>2 DEF JoinStep
  <2>2. joinTid'[t] = tid /\ \A s \in Tids \ {t} : joinTid'[s] = joinTid[s]
    BY <2>1 DEF IInv, TypeOK
  <2> QED
    BY <2>1, <2>2, JoinWaitJInv
<1> QED
  BY <1>1, <1>2

\* thread_join(tid) on a live child.
LEMMA ThreadJoinJInv ==
  ASSUME IInv, JInv, NEW t \in Tids, NEW tid \in 1 .. NTHR - 1, ThreadJoin(t, tid)
  PROVE  JInv' /\ ExitedKept
BY JoinStepJInv DEF ThreadJoin, Running

\* thread_join resumed: its argument is still its live child.
LEMMA JoinResumeJInv ==
  ASSUME IInv, JInv, NEW t \in Tids, JoinResume(t)
  PROVE  JInv' /\ ExitedKept
<1>1. /\ cur = t
      /\ joinTid[t] \in 1 .. NTHR - 1
      /\ state[joinTid[t]] # "UNINIT"
      /\ parent[joinTid[t]] = t
  BY DEF JoinResume, Running, JInv, ThreadOK, JoinOK
<1> QED
  BY <1>1, JoinStepJInv DEF JoinResume

\* The child the scans of thread_join_any reap is an EXITED child of t.
LEMMA LowestExitedChild ==
  ASSUME NEW t \in Tids, ExitedChildren(t) # {}
  PROVE  /\ Lowest(ExitedChildren(t)) \in 1 .. NTHR - 1
         /\ state[Lowest(ExitedChildren(t))] = "EXITED"
         /\ parent[Lowest(ExitedChildren(t))] = t
<1>1. ExitedChildren(t) \subseteq Nat
  BY ConstAssumption DEF ExitedChildren, Children
<1>2. Lowest(ExitedChildren(t)) \in ExitedChildren(t)
  BY <1>1, LowestIsLeast
<1> QED
  BY <1>2 DEF ExitedChildren, Children

\* thread_join_any: reap, panic, or wait on t's child_exit.
LEMMA ThreadJoinAnyJInv ==
  ASSUME IInv, JInv, NEW t \in Tids, ThreadJoinAny(t)
  PROVE  JInv' /\ ExitedKept
<1>1. cur = t /\ pc[t] = "run" /\ pc = [pc EXCEPT ![t] = "run"]
  BY DEF ThreadJoinAny, Running, IInv, TypeOK
<1>2. CASE ExitedChildren(t) # {} /\ RecycleThread(Lowest(ExitedChildren(t)))
                                  /\ UNCHANGED <<readyList, waitList, waitCond, cur, pc,
                                                 joinTid, halt>>
  BY <1>1, <1>2, LowestExitedChild, ReapJInv
<1>3. CASE Children(t) = {} /\ halt' = "childless"
           /\ UNCHANGED <<state, parent, readyList, waitList, waitCond, cur, pc, joinTid>>
  BY <1>3, HaltJInv
<1>4. CASE pc' = [pc EXCEPT ![t] = "joinany"] /\ ConditionWaitOn(t, t)
           /\ UNCHANGED <<parent, joinTid, halt>>
  BY <1>1, <1>4, JoinWaitJInv
<1> QED
  BY <1>2, <1>3, <1>4 DEF ThreadJoinAny

\* thread_join_any after its wait: reap, or panic.
LEMMA JoinAnyResumeJInv ==
  ASSUME IInv, JInv, NEW t \in Tids, JoinAnyResume(t)
  PROVE  JInv' /\ ExitedKept
<1>2. CASE ExitedChildren(t) # {} /\ RecycleThread(Lowest(ExitedChildren(t)))
           /\ pc' = [pc EXCEPT ![t] = "run"]
           /\ UNCHANGED <<readyList, waitList, waitCond, cur, joinTid, halt>>
  BY <1>2, LowestExitedChild, ReapJInv
<1>3. CASE halt' = "spurious"
           /\ UNCHANGED <<state, parent, readyList, waitList, waitCond, cur, pc, joinTid>>
  BY <1>3, HaltJInv
<1> QED
  BY <1>2, <1>3 DEF JoinAnyResume


-----------------------------------------------------------------------------
(* The theorems *)

\* After thread_init no thread is inside a join.
LEMMA InitJInv == Init => JInv
BY DEF Init, JInv, ThreadOK, PcOK, JoinOK, AnyOK

\* Every step of the thread manager, and every broadcast of an interrupt
\* service routine, keeps the join invariant and never revives an EXITED
\* thread.
LEMMA NextJInv == IInv /\ JInv /\ [Next]_vars => JInv' /\ ExitedKept
<1> SUFFICES ASSUME IInv, JInv, [Next]_vars PROVE JInv' /\ ExitedKept
  OBVIOUS
<1>1. CASE UNCHANGED vars
  BY <1>1 DEF vars, JInv, ThreadOK, PcOK, JoinOK, AnyOK, ExitedChildren, Children,
              ExitedKept
<1>2. ASSUME NEW t \in Tids,
             \/ ThreadYield(t)
             \/ ThreadSpawn(t)
             \/ ThreadFork(t)
             \/ ThreadExit(t)
             \/ \E tid \in 1 .. NTHR - 1 : ThreadJoin(t, tid)
             \/ JoinResume(t)
             \/ ThreadJoinAny(t)
             \/ JoinAnyResume(t)
             \/ \E c \in DevConds : ConditionWait(t, c)
      PROVE  JInv' /\ ExitedKept
  BY <1>2, YieldJInv, SpawnJInv, ForkJInv, ExitJInv, ThreadJoinJInv, JoinResumeJInv,
     ThreadJoinAnyJInv, JoinAnyResumeJInv, ConditionWaitJInv
<1>3. ASSUME NEW c \in DevConds, ConditionBroadcast(c) PROVE JInv' /\ ExitedKept
  BY <1>3, ConditionBroadcastJInv
<1> QED
  BY <1>1, <1>2, <1>3 DEF Next

\* IInv and the join invariant hold together in every reachable state.
THEOREM JoinInvariant == Spec => [](IInv /\ JInv)
<1>1. Init => IInv /\ JInv
  BY InitIInv, InitJInv
<1>2. IInv /\ JInv /\ [Next]_vars => (IInv /\ JInv)'
  BY NextIInv, NextJInv
<1> QED
  BY <1>1, <1>2, PTL DEF Spec

\* thread_join(tid) waits on a slot that holds its own child for as long as
\* it waits: the child it rechecks after every wake-up is never recycled or
\* re-parented under it, for every table size NTHR.
THEOREM JoinTargetSafe == Spec => []JoinTargetHeld
<1>1. JInv => JoinTargetHeld
  BY DEF JInv, ThreadOK, JoinOK, JoinTargetHeld
<1> QED
  BY <1>1, JoinInvariant, PTL

\* A thread_join_any woken from its wait on child_exit finds an EXITED child
\* on its second scan: the "spurious child_exit signal" panic never happens,
\* for every table size NTHR and every set of device conditions.
THEOREM WokenJoinAnySafe == Spec => []WokenJoinAnyFindsChild
<1>1. JInv => WokenJoinAnyFindsChild
  BY DEF JInv, ThreadOK, AnyOK, Active, WokenJoinAnyFindsChild
<1> QED
  BY <1>1, JoinInvariant, PTL

\* No operation brings an EXITED thread back: it stays EXITED until
\* thread_join or thread_join_any recycles its slot.
THEOREM ExitedStaysExitedSafe == Spec => ExitedStaysExited
<1>1. IInv /\ JInv /\ [Next]_vars =>
        [\A t \in Tids : state[t] = "EXITED" => state'[t] \in {"EXITED", "UNINIT"}]_vars
  BY NextJInv DEF ExitedKept
<1> QED
  BY <1>1, JoinInvariant, PTL DEF Spec, ExitedStaysExited

=============================================================================
