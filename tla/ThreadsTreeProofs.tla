------------------------- MODULE ThreadsTreeProofs -------------------------
(***************************************************************************)
(* Proof that the parent links of thrtab form a tree rooted at the main   *)
(* thread (ParentTree), for every NTHR >= 2: thread_spawn and             *)
(* thread_fork_to_user hang a new leaf under a live thread, and the       *)
(* re-parenting loop of recycle_thread splices a reaped thread out of the *)
(* tree. Every other step fills or empties no slot and moves no parent.   *)
(***************************************************************************)
EXTENDS ThreadsProofs

\* The main thread holds its slot (no join reaps slot 0, so fork never
\* takes it).
MainLive == state[MAIN_TID] # "UNINIT"

\* ParentTree is not inductive alone: a fork into slot 0 would give main a
\* parent.
TInv == ParentTree /\ MainLive

-----------------------------------------------------------------------------
(* The three ways a step changes the tree *)

\* A step that fills and empties no slot and changes no parent keeps it.
LEMMA SameTree ==
  ASSUME TInv, SlotsKept, parent' = parent
  PROVE  TInv'
<1>1. Live' = Live /\ MainLive'
  BY IdleInTids DEF SlotsKept, Live, TInv, MainLive
<1> QED
  BY <1>1 DEF TInv, ParentTree

\* thread_spawn, thread_fork_to_user: a thread in an empty slot tid, child
\* of the live thread pt.
LEMMA GrowTree ==
  ASSUME TypeOK, TInv, NEW tid \in Tids, NEW pt \in Tids,
         state[tid] = "UNINIT", state[pt] # "UNINIT", state'[tid] # "UNINIT",
         \A k \in Tids \ {tid} : state'[k] = "UNINIT" <=> state[k] = "UNINIT",
         parent' = [parent EXCEPT ![tid] = pt]
  PROVE  TInv'
<1>1. tid # MAIN_TID /\ tid # pt /\ tid \notin Live /\ pt \in Live
  BY DEF TInv, MainLive, Live
<1>2. Live' = Live \cup {tid} /\ MainLive'
  <2>1. \A k \in Tids : k \in Live' <=> k \in Live \/ k = tid
    BY DEF Live
  <2>2. Live' = Live \cup {tid}
    BY <2>1 DEF Live
  <2>3. MainLive'
    BY <1>1, IdleInTids DEF MainLive, TInv
  <2> QED
    BY <2>2, <2>3
<1>3. parent'[tid] = pt /\ \A k \in Tids \ {tid} : parent'[k] = parent[k]
  <2>1. DOMAIN parent = Tids
    BY DEF TypeOK
  <2> QED
    BY <2>1
<1>4. \A k \in Live' \ {MAIN_TID} : parent'[k] \in Live'
  BY <1>1, <1>2, <1>3 DEF TInv, ParentTree, Live
<1>5. ASSUME NEW S \in SUBSET (Live' \ {MAIN_TID}), S # {}
      PROVE  \E k \in S : parent'[k] \notin S
  <2>1. CASE S = {tid}
    BY <1>1, <1>3, <2>1
  <2>2. CASE S # {tid}
    <3> DEFINE R == S \ {tid}
    <3>1. R \in SUBSET (Live \ {MAIN_TID}) /\ R # {}
      BY <1>2, <1>5, <2>2 DEF R
    <3>2. PICK k \in R : parent[k] \notin R
      BY <3>1 DEF TInv, ParentTree
    <3>3. parent[k] # tid
      BY <1>1, <3>1 DEF TInv, ParentTree, R
    <3>4. k \in S /\ parent'[k] \notin S
      BY <1>3, <3>1, <3>2, <3>3 DEF R, Live
    <3> QED
      BY <3>4
  <2> QED
    BY <2>1, <2>2
<1> QED
  BY <1>2, <1>4, <1>5 DEF TInv, ParentTree

\* recycle_thread(tid): tid's slot is emptied and its live children become
\* children of tid's parent.
LEMMA PruneTree ==
  ASSUME TypeOK, TInv, NEW tid \in Tids \ {MAIN_TID}, state[tid] # "UNINIT",
         RecycleThread(tid)
  PROVE  TInv'
<1> DEFINE p == parent[tid]
<1>1. tid \in Live /\ p \in Live /\ p # tid
  <2>1. {tid} \in SUBSET (Live \ {MAIN_TID})
    BY DEF Live
  <2> QED
    BY <2>1 DEF TInv, ParentTree, Live, p
<1>2. /\ state' = [state EXCEPT ![tid] = "UNINIT"]
      /\ \A k \in Tids : parent'[k] = IF k # MAIN_TID /\ k \in Live /\ parent[k] = tid
                                        THEN p ELSE parent[k]
  BY DEF RecycleThread, Live, p
<1>3. Live' = Live \ {tid} /\ MainLive'
  BY <1>2, IdleInTids DEF Live, MainLive, TInv, TypeOK
<1>4. \A k \in Live' \ {MAIN_TID} : parent'[k] \in Live'
  <2> TAKE k \in Live' \ {MAIN_TID}
  <2>1. k \in Live \ {MAIN_TID} /\ k # tid
    BY <1>3
  <2>2. parent[k] \in Live
    BY <2>1 DEF TInv, ParentTree
  <2> QED
    BY <1>1, <1>2, <1>3, <2>1, <2>2 DEF Live
<1>5. ASSUME NEW S \in SUBSET (Live' \ {MAIN_TID}), S # {}
      PROVE  \E k \in S : parent'[k] \notin S
  <2>1. S \in SUBSET (Live \ {MAIN_TID}) /\ tid \notin S
    BY <1>3
  <2>2. PICK v \in S : parent[v] \notin S
    BY <1>5, <2>1 DEF TInv, ParentTree
  <2>3. CASE parent[v] # tid
    BY <1>2, <2>1, <2>2, <2>3 DEF Live
  <2>4. CASE parent[v] = tid /\ p \notin S
    BY <1>2, <2>1, <2>4 DEF Live
  <2>5. CASE parent[v] = tid /\ p \in S
    <3>1. S \cup {tid} \in SUBSET (Live \ {MAIN_TID})
      BY <1>1, <2>1
    <3>2. PICK u \in S \cup {tid} : parent[u] \notin S \cup {tid}
      BY <3>1 DEF TInv, ParentTree
    <3>3. u \in S /\ parent[u] # tid
      BY <2>5, <3>2 DEF p
    <3>4. parent'[u] \notin S
      BY <1>2, <2>1, <3>2, <3>3 DEF Live
    <3> QED
      BY <3>3, <3>4
  <2> QED
    BY <2>3, <2>4, <2>5
<1> QED
  BY <1>3, <1>4, <1>5 DEF TInv, ParentTree
-----------------------------------------------------------------------------
(* The steps *)

\* thread_spawn hangs the new thread under the caller, or panics.
LEMMA SpawnTInv ==
  ASSUME IInv, TInv, NEW t \in Tids, ThreadSpawn(t)
  PROVE  TInv'
<1>1. CASE FreeSlots(1) = {}
  BY <1>1, SameTree DEF ThreadSpawn, SlotsKept
<1>2. CASE FreeSlots(1) # {}
  <2> DEFINE tid == Lowest(FreeSlots(1))
  <2>1. tid \in Tids /\ state[tid] = "UNINIT"
    BY <1>2, FreeSlotFound
  <2>2. state[t] = "RUNNING"
    BY DEF ThreadSpawn, Running, IInv, SchedulerConsistent, OneRunning
  <2>3. /\ state' = [state EXCEPT ![tid] = "READY"]
        /\ parent' = [parent EXCEPT ![tid] = t]
    BY <1>2 DEF ThreadSpawn
  <2>4. state'[tid] # "UNINIT" /\ \A k \in Tids \ {tid} : state'[k] = state[k]
    BY <2>1, <2>3 DEF IInv, TypeOK
  <2> QED
    BY <2>1, <2>2, <2>3, <2>4, GrowTree DEF IInv
<1> QED
  BY <1>1, <1>2

\* thread_fork_to_user hangs the child under the caller, or panics.
LEMMA ForkTInv ==
  ASSUME IInv, TInv, NEW t \in Tids, ThreadFork(t)
  PROVE  TInv'
<1>1. CASE FreeSlots(0) = {}
  BY <1>1, SameTree DEF ThreadFork, SlotsKept
<1>2. CASE FreeSlots(0) # {}
  <2> DEFINE child == Lowest(FreeSlots(0))
  <2>1. child \in Tids /\ state[child] = "UNINIT"
    BY <1>2, FreeSlotFound
  <2>2. state[t] = "RUNNING"
    BY DEF ThreadFork, Running, IInv, SchedulerConsistent, OneRunning
  <2>3. /\ state' = [state EXCEPT ![child] = "RUNNING", ![t] = "READY"]
        /\ parent' = [parent EXCEPT ![child] = t]
    BY <1>2 DEF ThreadFork
  <2>4. state'[child] # "UNINIT"
        /\ \A k \in Tids \ {child} : state'[k] = "UNINIT" <=> state[k] = "UNINIT"
    BY <2>1, <2>2, <2>3 DEF IInv, TypeOK
  <2> QED
    BY <2>1, <2>2, <2>3, <2>4, GrowTree DEF IInv
<1> QED
  BY <1>1, <1>2

\* One iteration of thread_join's loop: recycle_thread(tid), or a wait.
LEMMA JoinStepTInv ==
  ASSUME IInv, TInv, NEW t \in Tids, NEW tid \in 1 .. NTHR - 1,
         cur = t, t # IDLE_TID, JoinStep(t, tid)
  PROVE  TInv'
<1>1. CASE state[tid] = "EXITED"
  <2>1. RecycleThread(tid)
    BY <1>1 DEF JoinStep
  <2>2. tid \in Tids \ {MAIN_TID}
    BY ConstAssumption DEF Tids, MAIN_TID
  <2> QED
    BY <1>1, <2>1, <2>2, PruneTree DEF IInv
<1>2. CASE state[tid] # "EXITED"
  <2>1. /\ pc' = [pc EXCEPT ![t] = "join"]
        /\ joinTid' = [joinTid EXCEPT ![t] = tid]
        /\ ConditionWaitOn(t, t)
        /\ UNCHANGED <<parent, halt>>
    BY <1>2 DEF JoinStep
  <2>2. joinTid' \in [Tids -> Tids \cup {NULL}] /\ joinTid'[t] \in 1 .. NTHR - 1
    BY <2>1 DEF IInv, TypeOK, Tids
  <2>3. SlotsKept
    BY <2>1, <2>2, JoinWaitIInv DEF IInv, TypeOK
  <2> QED
    BY <2>1, <2>3, SameTree
<1> QED
  BY <1>1, <1>2

\* thread_join_any: recycle_thread of an EXITED child, a panic, or a wait.
LEMMA JoinAnyTInv ==
  ASSUME IInv, TInv, NEW t \in Tids, cur = t, t # IDLE_TID,
         \/ ExitedChildren(t) # {} /\ RecycleThread(Lowest(ExitedChildren(t)))
         \/ UNCHANGED <<state, parent>>
         \/ /\ pc' = [pc EXCEPT ![t] = "joinany"] /\ ConditionWaitOn(t, t)
            /\ UNCHANGED <<parent, joinTid, halt>>
  PROVE  TInv'
<1>1. CASE ExitedChildren(t) # {} /\ RecycleThread(Lowest(ExitedChildren(t)))
  <2>1. /\ Lowest(ExitedChildren(t)) \in Tids \ {MAIN_TID}
        /\ state[Lowest(ExitedChildren(t))] = "EXITED"
    BY <1>1, ExitedChildFound DEF Tids, MAIN_TID
  <2> QED
    BY <1>1, <2>1, PruneTree DEF IInv
<1>2. CASE UNCHANGED <<state, parent>>
  BY <1>2, SameTree DEF SlotsKept
<1>3. CASE /\ pc' = [pc EXCEPT ![t] = "joinany"] /\ ConditionWaitOn(t, t)
           /\ UNCHANGED <<parent, joinTid, halt>>
  <2>1. SlotsKept
    BY <1>3, JoinWaitIInv
  <2> QED
    BY <1>3, <2>1, SameTree
<1> QED
  BY <1>1, <1>2, <1>3

\* thread_init leaves main and idle, idle a child of main.
LEMMA InitTInv == Init => TInv
<1> SUFFICES ASSUME Init PROVE TInv
  OBVIOUS
<1>1. Live = {MAIN_TID, IDLE_TID}
  BY IdleInTids DEF Init, Live
<1>2. parent[IDLE_TID] = MAIN_TID
  BY IdleInTids DEF Init
<1>3. Live \ {MAIN_TID} = {IDLE_TID}
  BY <1>1, IdleInTids
<1> QED
  BY <1>1, <1>2, <1>3, IdleInTids DEF TInv, ParentTree, MainLive, Init

\* Every step of the thread manager, and every ISR broadcast, keeps TInv.
LEMMA NextTInv == IInv /\ TInv /\ [Next]_vars => TInv'
<1> SUFFICES ASSUME IInv, TInv, [Next]_vars PROVE TInv'
  OBVIOUS
<1>1. CASE UNCHANGED vars
  BY <1>1, SameTree DEF vars, SlotsKept
<1>2. ASSUME NEW t \in Tids, ThreadYield(t) PROVE TInv'
  BY <1>2, YieldIInv, SameTree DEF ThreadYield
<1>3. ASSUME NEW t \in Tids, ThreadSpawn(t) PROVE TInv'
  BY <1>3, SpawnTInv
<1>4. ASSUME NEW t \in Tids, ThreadFork(t) PROVE TInv'
  BY <1>4, ForkTInv
<1>5. ASSUME NEW t \in Tids, ThreadExit(t) PROVE TInv'
  <2>1. SlotsKept /\ parent' = parent
    BY <1>5, ExitIInv DEF ThreadExit
  <2> QED
    BY <2>1, SameTree
<1>6. ASSUME NEW t \in Tids, NEW tid \in 1 .. NTHR - 1, ThreadJoin(t, tid) PROVE TInv'
  BY <1>6, JoinStepTInv DEF ThreadJoin, Running
<1>7. ASSUME NEW t \in Tids, JoinResume(t) PROVE TInv'
  <2>1. joinTid[t] \in 1 .. NTHR - 1 /\ t # IDLE_TID /\ cur = t
    BY <1>7 DEF JoinResume, Running, IInv, JoinTyped
  <2> QED
    BY <1>7, <2>1, JoinStepTInv DEF JoinResume
<1>8. ASSUME NEW t \in Tids, ThreadJoinAny(t) PROVE TInv'
  BY <1>8, JoinAnyTInv DEF ThreadJoinAny, Running
<1>9. ASSUME NEW t \in Tids, JoinAnyResume(t) PROVE TInv'
  <2>1. cur = t /\ t # IDLE_TID
    BY <1>9 DEF JoinAnyResume, Running, IInv
  <2> QED
    BY <1>9, <2>1, JoinAnyTInv DEF JoinAnyResume
<1>10. ASSUME NEW t \in Tids, NEW c \in DevConds, ConditionWait(t, c) PROVE TInv'
  BY <1>10, ConditionWaitIInv, SameTree DEF ConditionWait
<1>11. ASSUME NEW c \in DevConds, ConditionBroadcast(c) PROVE TInv'
  BY <1>11, ConditionBroadcastIInv, SameTree DEF ConditionBroadcast
<1> QED
  BY <1>1, <1>2, <1>3, <1>4, <1>5, <1>6, <1>7, <1>8, <1>9, <1>10, <1>11 DEF Next

\* For every NTHR >= 2 and every set of device conditions, the parent of
\* every live thread other than main is live and the parent links lead to
\* main without a cycle: thread_exit always broadcasts the child_exit of a
\* live thread, and the re-parenting of recycle_thread never leaves a
\* dangling parent nor closes a loop.
THEOREM ParentTreeSafe == Spec => []ParentTree
<1>1. Init => IInv /\ TInv
  BY InitIInv, InitTInv
<1>2. IInv /\ TInv /\ [Next]_vars => IInv' /\ TInv'
  BY NextIInv, NextTInv
<1>3. TInv => ParentTree
  BY DEF TInv
<1> QED
  BY <1>1, <1>2, <1>3, PTL DEF Spec
=============================================================================
