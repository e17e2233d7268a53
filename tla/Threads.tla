------------------------------- MODULE Threads -------------------------------
(***************************************************************************)
(* The thread manager of the kernel (src/src/kern/thread.c): the thread    *)
(* table thrtab, the ready list, condition variables with broadcast, and   *)
(* the operations spawn, fork, yield, exit, join, join_any, wait and       *)
(* broadcast.                                                              *)
(*                                                                         *)
(* The machine has one CPU.  A kernel operation runs without interruption  *)
(* until it reaches suspend_self, the only suspension point, so each       *)
(* operation up to and including its call of suspend_self is one step,     *)
(* taken by the running thread `cur` (the tp register).  A thread that is  *)
(* woken continues where it suspended: `pc` records that point.  Interrupt *)
(* service routines take no thread-manager step except a broadcast, which  *)
(* is the ConditionBroadcast step and may happen between any two steps.    *)
(*                                                                         *)
(* A slot t of thrtab that holds NULL is a thread in state "UNINIT"; the   *)
(* child_exit condition of the thread in slot t is the condition named t.  *)
(***************************************************************************)
EXTENDS Integers, Sequences, FiniteSets, Functions

CONSTANTS
  NTHR,       \* number of slots of thrtab (NTHR, thread.c:25)
  DevConds,   \* conditions of other kernel objects (device and pipe queues)
  NULL        \* the null pointer

ASSUME ConstAssumption ==
  /\ NTHR \in Nat
  /\ NTHR >= 2
  /\ NULL \notin Int
  /\ DevConds \cap Int = {}
  /\ NULL \notin DevConds

MAIN_TID == 0
IDLE_TID == NTHR - 1
Tids     == 0 .. NTHR - 1
Conds    == Tids \cup DevConds
States   == {"UNINIT", "STOPPED", "WAITING", "RUNNING", "READY", "EXITED"}
\* Where a thread resumes: in its caller ("run"), or in the wait loop of
\* thread_join or the second scan of thread_join_any.
Pcs      == {"run", "join", "joinany"}
\* "none" while the kernel runs, otherwise why it stopped.
Halts    == {"none", "success", "too_many_threads", "childless", "spurious"}

VARIABLES
  state,      \* thrtab[t]->state, "UNINIT" when thrtab[t] = NULL
  parent,     \* thrtab[t]->parent
  readyList,  \* ready_list, head first
  waitList,   \* waitList[c]: wait_list of condition c, head first
  waitCond,   \* thrtab[t]->wait_cond
  cur,        \* the running thread (CURTHR)
  pc,         \* where a suspended thread resumes
  joinTid,    \* argument of the thread_join a thread is blocked in
  halt        \* why the kernel halted, or "none"

vars == <<state, parent, readyList, waitList, waitCond, cur, pc, joinTid, halt>>

-----------------------------------------------------------------------------
(* Helpers *)

Lowest(S) == CHOOSE k \in S : \A j \in S : k <= j

\* Mutant: the slot search also takes slots of EXITED, unreaped threads.
FreeOrExitedSlots(lo) == {k \in lo .. NTHR - 1 : state[k] \in {"UNINIT", "EXITED"}}

\* The empty slots among lo .. NTHR-1, as the slot searches see them.
FreeSlots(lo) == {k \in lo .. NTHR - 1 : state[k] = "UNINIT"}

\* Threads whose parent is t, as the scans of thread_join_any see them.
Children(t) == {k \in 1 .. NTHR - 1 : state[k] # "UNINIT" /\ parent[k] = t}

\* Mutant: the scan drops the test thrtab[tid]->parent == CURTHR.
ExitedAnyParent(t) == {k \in 1 .. NTHR - 1 : state[k] = "EXITED"}

ExitedChildren(t) == {k \in Children(t) : state[k] = "EXITED"}

\* Mutant: the current thread is requeued whatever its state (the test of
\* thread.c:635 dropped).
SuspendSelfAlwaysRequeue(st, rl) ==
  LET next == Head(rl)
      st1  == [st EXCEPT ![next] = "RUNNING"]
  IN  /\ rl # <<>>
      /\ cur' = next
      /\ state' = [st1 EXCEPT ![cur] = "READY"]
      /\ readyList' = Append(Tail(rl), cur)

\* Mutant: the next thread is taken from the tail of the ready list.
SuspendSelfLifo(st, rl) ==
  LET next == rl[Len(rl)]
      rest == SubSeq(rl, 1, Len(rl) - 1)
      st1  == [st EXCEPT ![next] = "RUNNING"]
  IN  /\ rl # <<>>
      /\ cur' = next
      /\ IF st1[cur] = "RUNNING"
           THEN /\ state' = [st1 EXCEPT ![cur] = "READY"]
                /\ readyList' = Append(rest, cur)
           ELSE /\ state' = st1
                /\ readyList' = rest

\* suspend_self, called with st and rl the thread states and ready list the
\* caller has just produced: the head of the ready list is marked RUNNING
\* and switched to; the caller, if still RUNNING, is marked READY and put at
\* the tail.  The stack release after _thread_swtch returns is not modelled.
SuspendSelf(st, rl) ==
  LET next == Head(rl)
      st1  == [st EXCEPT ![next] = "RUNNING"]
  IN  /\ rl # <<>>
      /\ cur' = next
      /\ IF st1[cur] = "RUNNING"
           THEN /\ state' = [st1 EXCEPT ![cur] = "READY"]
                /\ readyList' = Append(Tail(rl), cur)
           ELSE /\ state' = st1
                /\ readyList' = Tail(rl)

\* condition_wait(c) by thread t: mark t WAITING, link it at the tail of c's
\* wait list, and suspend.
ConditionWaitOn(t, c) ==
  /\ waitCond' = [waitCond EXCEPT ![t] = c]
  /\ waitList' = [waitList EXCEPT ![c] = Append(@, t)]
  /\ SuspendSelf([state EXCEPT ![t] = "WAITING"], readyList)

\* Mutant: a broadcast wakes every WAITING thread, whatever it waits on.
WokenAllWaiting(st, c) == [t \in Tids |-> IF st[t] = "WAITING" THEN "READY" ELSE st[t]]

\* condition_broadcast(c) applied to thread states st: every waiter is READY.
Woken(st, c) == [t \in Tids |-> IF t \in Range(waitList[c]) THEN "READY" ELSE st[t]]

\* The waiters of c have no wait condition any more.
Unwaited(c) == [t \in Tids |-> IF t \in Range(waitList[c]) THEN NULL ELSE waitCond[t]]

\* Mutant: the re-parenting loop of recycle_thread is missing.
RecycleThreadNoReparent(tid) ==
  /\ parent' = parent
  /\ state' = [state EXCEPT ![tid] = "UNINIT"]

\* recycle_thread(tid): its children become children of its parent, and its
\* slot is emptied.
RecycleThread(tid) ==
  /\ parent' = [k \in Tids |->
                  IF k # MAIN_TID /\ state[k] # "UNINIT" /\ parent[k] = tid
                    THEN parent[tid] ELSE parent[k]]
  /\ state' = [state EXCEPT ![tid] = "UNINIT"]

Running(t) == halt = "none" /\ cur = t

-----------------------------------------------------------------------------
(* Initial state: after thread_init. *)

Init ==
  /\ state = [t \in Tids |-> IF t = MAIN_TID THEN "RUNNING"
                             ELSE IF t = IDLE_TID THEN "READY" ELSE "UNINIT"]
  /\ parent = [t \in Tids |-> IF t = IDLE_TID THEN MAIN_TID ELSE NULL]
  /\ readyList = <<IDLE_TID>>
  /\ waitList = [c \in Conds |-> <<>>]
  /\ waitCond = [t \in Tids |-> NULL]
  /\ cur = MAIN_TID
  /\ pc = [t \in Tids |-> "run"]
  /\ joinTid = [t \in Tids |-> NULL]
  /\ halt = "none"

-----------------------------------------------------------------------------
(* Operations *)

\* thread_yield, and the idle thread's loop, which yields while the ready
\* list is not empty.
ThreadYield(t) ==
  /\ Running(t)
  /\ pc[t] = "run"
  /\ SuspendSelf(state, readyList)
  /\ UNCHANGED <<parent, waitList, waitCond, pc, joinTid, halt>>

\* Mutant: the "Too many threads" panic is missing; tid runs to NTHR.
ThreadSpawnNoPanic(t) ==
  /\ Running(t)
  /\ pc[t] = "run"
  /\ t # IDLE_TID
  /\ LET tid == IF FreeSlots(1) = {} THEN NTHR ELSE Lowest(FreeSlots(1)) IN
       /\ state' = [state EXCEPT ![tid] = "READY"]
       /\ parent' = [parent EXCEPT ![tid] = t]
       /\ readyList' = Append(readyList, tid)
       /\ waitList' = [waitList EXCEPT ![tid] = <<>>]
       /\ pc' = [pc EXCEPT ![tid] = "run"]
       /\ joinTid' = [joinTid EXCEPT ![tid] = NULL]
  /\ UNCHANGED <<waitCond, cur, halt>>

\* thread_spawn: the lowest empty slot from 1 gets a READY thread, child of
\* t, at the tail of the ready list; no empty slot is a panic.  The child's
\* child_exit condition is the fresh, empty wait list of its slot.
ThreadSpawn(t) ==
  /\ Running(t)
  /\ pc[t] = "run"
  /\ t # IDLE_TID
  /\ \/ /\ FreeSlots(1) # {}
        /\ LET tid == Lowest(FreeSlots(1)) IN
             /\ state' = [state EXCEPT ![tid] = "READY"]
             /\ parent' = [parent EXCEPT ![tid] = t]
             /\ readyList' = Append(readyList, tid)
             /\ waitList' = [waitList EXCEPT ![tid] = <<>>]
             /\ pc' = [pc EXCEPT ![tid] = "run"]
             /\ joinTid' = [joinTid EXCEPT ![tid] = NULL]
        /\ UNCHANGED <<waitCond, cur, halt>>
     \/ /\ FreeSlots(1) = {}
        /\ halt' = "too_many_threads"
        /\ UNCHANGED <<state, parent, readyList, waitList, waitCond, cur, pc, joinTid>>

\* thread_fork_to_user: the lowest empty slot from 0 gets a RUNNING child of
\* t; t becomes READY at the tail of the ready list, and _thread_finish_fork
\* switches to the child.  No empty slot is a panic.
ThreadFork(t) ==
  /\ Running(t)
  /\ pc[t] = "run"
  /\ t # IDLE_TID
  /\ \/ /\ FreeSlots(0) # {}
        /\ LET child == Lowest(FreeSlots(0)) IN
             /\ state' = [state EXCEPT ![child] = "RUNNING", ![t] = "READY"]
             /\ parent' = [parent EXCEPT ![child] = t]
             /\ readyList' = Append(readyList, t)
             /\ waitList' = [waitList EXCEPT ![child] = <<>>]
             /\ cur' = child
             /\ pc' = [pc EXCEPT ![child] = "run"]
             /\ joinTid' = [joinTid EXCEPT ![child] = NULL]
        /\ UNCHANGED <<waitCond, halt>>
     \/ /\ FreeSlots(0) = {}
        /\ halt' = "too_many_threads"
        /\ UNCHANGED <<state, parent, readyList, waitList, waitCond, cur, pc, joinTid>>

\* Mutant: the exiting thread broadcasts its own child_exit, not its
\* parent's.
ThreadExitOwnCond(t) ==
  /\ Running(t)
  /\ pc[t] = "run"
  /\ t # IDLE_TID
  /\ \/ /\ t = MAIN_TID
        /\ halt' = "success"
        /\ UNCHANGED <<state, parent, readyList, waitList, waitCond, cur, pc, joinTid>>
     \/ /\ t # MAIN_TID
        /\ waitCond' = Unwaited(t)
        /\ waitList' = [waitList EXCEPT ![t] = <<>>]
        /\ SuspendSelf(Woken([state EXCEPT ![t] = "EXITED"], t),
                       readyList \o waitList[t])
        /\ UNCHANGED <<parent, pc, joinTid, halt>>

\* thread_exit: the main thread halts the machine; any other thread becomes
\* EXITED, broadcasts its parent's child_exit and suspends for good.
ThreadExit(t) ==
  /\ Running(t)
  /\ pc[t] = "run"
  /\ t # IDLE_TID
  /\ \/ /\ t = MAIN_TID
        /\ halt' = "success"
        /\ UNCHANGED <<state, parent, readyList, waitList, waitCond, cur, pc, joinTid>>
     \/ /\ t # MAIN_TID
        /\ LET p == parent[t] IN
             /\ waitCond' = Unwaited(p)
             /\ waitList' = [waitList EXCEPT ![p] = <<>>]
             /\ SuspendSelf(Woken([state EXCEPT ![t] = "EXITED"], p),
                            readyList \o waitList[p])
        /\ UNCHANGED <<parent, pc, joinTid, halt>>

\* condition_wait(c) on the condition of another kernel object.
ConditionWait(t, c) ==
  /\ Running(t)
  /\ pc[t] = "run"
  /\ t # IDLE_TID
  /\ ConditionWaitOn(t, c)
  /\ UNCHANGED <<parent, pc, joinTid, halt>>

\* condition_broadcast(c), from a thread or from an interrupt service
\* routine; with no waiter it returns at once, a step that changes nothing.
ConditionBroadcast(c) ==
  /\ halt = "none"
  /\ waitList[c] # <<>>
  /\ state' = Woken(state, c)
  /\ waitCond' = Unwaited(c)
  /\ readyList' = readyList \o waitList[c]
  /\ waitList' = [waitList EXCEPT ![c] = <<>>]
  /\ UNCHANGED <<parent, cur, pc, joinTid, halt>>

\* Mutant: thread_join waits on the child's child_exit, not its own.
JoinStepChildCond(t, tid) ==
  \/ /\ state[tid] = "EXITED"
     /\ RecycleThread(tid)
     /\ pc' = [pc EXCEPT ![t] = "run"]
     /\ joinTid' = [joinTid EXCEPT ![t] = NULL]
     /\ UNCHANGED <<readyList, waitList, waitCond, cur, halt>>
  \/ /\ state[tid] # "EXITED"
     /\ pc' = [pc EXCEPT ![t] = "join"]
     /\ joinTid' = [joinTid EXCEPT ![t] = tid]
     /\ ConditionWaitOn(t, tid)
     /\ UNCHANGED <<parent, halt>>

\* One iteration of thread_join's loop for child tid: reap it if EXITED,
\* otherwise wait on t's child_exit and come back to the loop.
JoinStep(t, tid) ==
  \/ /\ state[tid] = "EXITED"
     /\ RecycleThread(tid)
     /\ pc' = [pc EXCEPT ![t] = "run"]
     /\ joinTid' = [joinTid EXCEPT ![t] = NULL]
     /\ UNCHANGED <<readyList, waitList, waitCond, cur, halt>>
  \/ /\ state[tid] # "EXITED"
     /\ pc' = [pc EXCEPT ![t] = "join"]
     /\ joinTid' = [joinTid EXCEPT ![t] = tid]
     /\ ConditionWaitOn(t, t)
     /\ UNCHANGED <<parent, halt>>

\* thread_join(tid): a tid out of range, an empty slot or a thread that is
\* not t's child returns -1 at once, a step that changes nothing.
ThreadJoin(t, tid) ==
  /\ Running(t)
  /\ pc[t] = "run"
  /\ t # IDLE_TID
  /\ state[tid] # "UNINIT"
  /\ parent[tid] = t
  /\ JoinStep(t, tid)

\* thread_join resumed after condition_wait.
JoinResume(t) ==
  /\ Running(t)
  /\ pc[t] = "join"
  /\ JoinStep(t, joinTid[t])

\* thread_join_any: reap the lowest EXITED child; with no child at all,
\* panic; otherwise wait on t's child_exit.
ThreadJoinAny(t) ==
  /\ Running(t)
  /\ pc[t] = "run"
  /\ t # IDLE_TID
  /\ \/ /\ ExitedChildren(t) # {}
        /\ RecycleThread(Lowest(ExitedChildren(t)))
        /\ UNCHANGED <<readyList, waitList, waitCond, cur, pc, joinTid, halt>>
     \/ /\ Children(t) = {}
        /\ halt' = "childless"
        /\ UNCHANGED <<state, parent, readyList, waitList, waitCond, cur, pc, joinTid>>
     \/ /\ Children(t) # {}
        /\ ExitedChildren(t) = {}
        /\ pc' = [pc EXCEPT ![t] = "joinany"]
        /\ ConditionWaitOn(t, t)
        /\ UNCHANGED <<parent, joinTid, halt>>

\* thread_join_any after condition_wait: one more scan, which reaps the
\* lowest EXITED child or panics with "spurious child_exit signal".
JoinAnyResume(t) ==
  /\ Running(t)
  /\ pc[t] = "joinany"
  /\ \/ /\ ExitedChildren(t) # {}
        /\ RecycleThread(Lowest(ExitedChildren(t)))
        /\ pc' = [pc EXCEPT ![t] = "run"]
        /\ UNCHANGED <<readyList, waitList, waitCond, cur, joinTid, halt>>
     \/ /\ ExitedChildren(t) = {}
        /\ halt' = "spurious"
        /\ UNCHANGED <<state, parent, readyList, waitList, waitCond, cur, pc, joinTid>>

Next ==
  \/ \E t \in Tids :
       \/ ThreadYield(t)
       \/ ThreadSpawn(t)
       \/ ThreadFork(t)
       \/ ThreadExit(t)
       \/ \E tid \in 1 .. NTHR - 1 : ThreadJoin(t, tid)
       \/ JoinResume(t)
       \/ ThreadJoinAny(t)
       \/ JoinAnyResume(t)
       \/ \E c \in DevConds : ConditionWait(t, c)
  \/ \E c \in DevConds : ConditionBroadcast(c)

Spec == Init /\ [][Next]_vars

\* The running thread is eventually preempted at a trap (timer interrupt),
\* and a thread resumed in thread_join or thread_join_any runs on.
Fairness ==
  \A t \in Tids :
    /\ WF_vars(ThreadYield(t))
    /\ WF_vars(JoinResume(t))
    /\ WF_vars(JoinAnyResume(t))

FairSpec == Spec /\ Fairness

-----------------------------------------------------------------------------
(* Properties *)

TypeOK ==
  /\ state \in [Tids -> States]
  /\ parent \in [Tids -> Tids \cup {NULL}]
  /\ readyList \in Seq(Tids)
  /\ waitList \in [Conds -> Seq(Tids)]
  /\ waitCond \in [Tids -> Conds \cup {NULL}]
  /\ cur \in Tids
  /\ pc \in [Tids -> Pcs]
  /\ joinTid \in [Tids -> Tids \cup {NULL}]
  /\ halt \in Halts

\* The running thread is the one thread in state RUNNING.
OneRunning ==
  /\ state[cur] = "RUNNING"
  /\ \A t \in Tids : state[t] = "RUNNING" => t = cur

\* Every READY thread is in the ready list exactly once, and nothing else is
\* (suspend_self asserts that the head it takes is READY).
ReadyListExact ==
  /\ IsInjective(readyList)
  /\ Range(readyList) = {t \in Tids : state[t] = "READY"}

\* Every WAITING thread is linked exactly once in the wait list of the
\* condition it waits on, and in no other list (condition_broadcast asserts
\* that each thread it wakes is WAITING on that condition).
WaitListsExact ==
  \A c \in Conds :
    /\ IsInjective(waitList[c])
    /\ Range(waitList[c]) = {t \in Tids : state[t] = "WAITING" /\ waitCond[t] = c}

\* The idle thread is always runnable, so the ready list suspend_self takes
\* a thread from is never empty (the assertion of thread.c:620).
IdleRunnable == state[IDLE_TID] \in {"READY", "RUNNING"}

\* The scheduler invariant of the spec: one running thread, the ready list
\* holding exactly the READY threads, each waiter in its condition's list.
SchedulerConsistent ==
  /\ OneRunning
  /\ ReadyListExact
  /\ WaitListsExact
  /\ IdleRunnable

\* A thread woken in thread_join_any finds an EXITED child on its second
\* scan: the "spurious child_exit signal" panic cannot happen.
WokenJoinAnyFindsChild ==
  \A t \in Tids :
    (pc[t] = "joinany" /\ state[t] \in {"READY", "RUNNING"})
      => ExitedChildren(t) # {}

\* While a thread is inside thread_join(tid), the struct it cached for tid
\* stays in thrtab and is still its child, so the loop re-reads a live
\* thread and recycle_thread(tid) frees that very thread.
JoinTargetHeld ==
  \A t \in Tids :
    pc[t] = "join" =>
      /\ joinTid[t] \in 1 .. NTHR - 1
      /\ state[joinTid[t]] # "UNINIT"
      /\ parent[joinTid[t]] = t

\* The threads that hold a slot of thrtab.
Live == {t \in Tids : state[t] # "UNINIT"}

\* Through spawns, forks, exits and the re-parenting of recycle_thread, the
\* parent of every live thread other than main is a live thread, and no
\* non-empty set of live threads without main holds the parents of all its
\* members: following parent links from any live thread leaves every such
\* set, so the links lead to the main thread without a cycle.
ParentTree ==
  /\ \A t \in Live \ {MAIN_TID} : parent[t] \in Live
  /\ \A S \in SUBSET (Live \ {MAIN_TID}) :
       S # {} => \E t \in S : parent[t] \notin S

\* A thread that has EXITED never runs or becomes READY again: the only
\* change of its state is the recycling of its slot.
ExitedStaysExited ==
  [][\A t \in Tids : state[t] = "EXITED" => state'[t] \in {"EXITED", "UNINIT"}]_vars

\* s is ahead of u in the ready list rl.
Ahead(rl, s, u) == \E i, j \in 1 .. Len(rl) : i < j /\ rl[i] = s /\ rl[j] = u

\* The ready list is a FIFO queue: a thread leaves it only from the head
\* (suspend_self switching to it), and no thread ever overtakes one ahead
\* of it, whatever yields, spawns, forks, exits, waits and ISR broadcasts
\* append meanwhile.
ReadyListFifo ==
  [][/\ \A u \in Range(readyList) \ Range(readyList') : u = Head(readyList)
     /\ \A s, u \in Range(readyList) :
          Ahead(readyList, s, u) /\ s \in Range(readyList') =>
            Ahead(readyList', s, u)]_vars

\* Every READY thread eventually runs, unless the kernel halts (the ready
\* list is FIFO and the running thread is eventually preempted).
ReadyEventuallyRuns ==
  \A t \in Tids : state[t] = "READY" ~> (state[t] = "RUNNING" \/ halt # "none")

\* A thread blocked in thread_join(tid) returns once tid has exited: the
\* exit broadcast reaches the parent and the parent is scheduled again.
JoinReturnsAfterExit ==
  \A t \in Tids :
    (pc[t] = "join" /\ joinTid[t] \in Tids /\ state[joinTid[t]] = "EXITED")
      ~> (pc[t] = "run" \/ halt # "none")

\* thread_spawn and thread_fork_to_user never condition_init the child's
\* child_exit (thread.c:215): the kmalloc'd struct keeps its old wait list.
\* When the block is the struct of a thread that recycle_thread freed, that
\* list is empty: the child_exit of an EXITED or reaped thread has no
\* waiter, since only its owner waits on it, in thread_join / join_any.
ReapedChildExitEmpty ==
  \A t \in Tids : state[t] \in {"UNINIT", "EXITED"} => waitList[t] = <<>>

\* The children a blocked thread_join / thread_join_any waits for.
Awaited(t) == IF pc[t] = "join" THEN {joinTid[t]} ELSE Children(t)

\* The spec: the idle thread "has no parent of its own to wait on", and
\* thread_join_any panics when the caller has no children.  So no thread
\* ever blocks waiting for the idle thread alone.
NoWaitOnIdle ==
  \A t \in Tids :
    (state[t] = "WAITING" /\ pc[t] \in {"join", "joinany"})
      => Awaited(t) \ {IDLE_TID} # {}

\* The spec: thread_spawn "fails with TOO_MANY_THREADS when no slot is
\* free" and fork returns -EAGAIN, so a full thread table is an error
\* returned to the caller and never halts the kernel.
FullTableIsAnError == halt # "too_many_threads"

=============================================================================
