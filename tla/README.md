# Verification of the kernel's thread manager and I/O layer

This directory holds TLA+ models of the teaching kernel in `src/`, the TLC
configurations that check them, and TLAPS proofs. Everything here is
translated from the C source; `PROJECT.json` maps every definition that
models code to the lines it stands for.

## The system

The kernel (`spec.md`) is a single-CPU RISC-V kernel. Its parts, and where
they live:

| Part | Source | State | Operations |
|---|---|---|---|
| Thread manager | `src/src/kern/thread.c` | `thrtab[NTHR]` (state, parent, wait_cond, child_exit per thread), `ready_list`, the `tp` register (CURTHR) | `thread_init`, `thread_spawn`, `thread_fork_to_user`, `thread_exit`, `thread_yield`, `thread_join`, `thread_join_any`, `condition_wait`, `condition_broadcast`, `recycle_thread`, `suspend_self`, `idle_thread_func` |
| Generic I/O | `src/unnamed/part_002` (io.c) | none (loops over an `io_intf`) | `ioread_full`, `iowrite`, `ioputs`, `iovprintf` |
| I/O literal | io.c | `pos`, `size`, `buf` | `iolit_init`, `io_lit_read`, `io_lit_write`, `io_lit_ioctl` |
| Terminal line discipline | io.c | `cr_in`, `cr_out`, the raw device | `ioterm_init`, `ioterm_read`, `ioterm_write`, `ioterm_ioctl`, `ioterm_getsn` |
| C helpers | `src/src/kern/stdlib.c` | the static `ptr` of `strtok` | `atoi`, `itoa`, `strtok` |
| User programs | `src/unnamed/part_003` | user memory | system calls |
| Process, fork, VM, pipe, syscalls, drivers | not in `src/` | — | described by `spec.md` only |

How they interact: every blocking operation of the kernel parks the
running thread on a condition (`condition_wait`), and an interrupt service
routine or another thread wakes it (`condition_broadcast`), which appends
the waiters to the ready list. The idle thread yields while the ready list
is not empty and otherwise waits for an interrupt. `thread_exit` broadcasts
the parent's `child_exit`, which `thread_join` and `thread_join_any` wait
on. The I/O objects are used through `ioread_full` / `iowrite`, which loop
on the object's `read` / `write` until the transfer is complete or a call
returns 0 (no progress).

What makes the thread manager hard to test: interleavings of thread
operations with ISR broadcasts; the order in which exit, broadcast, wakeup
and reaping happen between parent and child; the slot table at its limit;
re-parenting of orphans in `recycle_thread`; and the fairness of the FIFO
ready list. The I/O layer's difficulty is the interplay of the generic
progress loops with back ends that return something other than the number
of bytes they consumed.

## Modules

### `Threads.tla` — the thread manager

The CPU runs one thread at a time. A kernel operation runs without
interruption until it calls `suspend_self`, the only point where a thread
stops, so each operation, up to and including its `suspend_self`, is one
step of the running thread `cur`. A thread that is switched back to
continues where it stopped, and `pc` records that point: in its caller
("run"), in the loop of `thread_join` ("join"), or before the second scan
of `thread_join_any` ("joinany"). Interrupt service routines touch the
thread manager only by broadcasting a condition; `ConditionBroadcast(c)`
is that step, and it may come between any two steps.

| TLA+ | C |
|---|---|
| `state[t]` | `thrtab[t]->state`; `"UNINIT"` is `thrtab[t] == NULL` |
| `parent[t]` | `thrtab[t]->parent` (a slot number, `NULL` for main) |
| `readyList` | `ready_list`, head first |
| `waitList[c]` | the wait list of condition `c`; the `child_exit` of slot `t` is the condition `t`, device and pipe conditions are `DevConds` |
| `waitCond[t]` | `thrtab[t]->wait_cond` |
| `cur` | `CURTHR` (the `tp` register) |
| `halt` | `panic` / `halt_success` (the run stops) |
| `SuspendSelf(st, rl)` | `suspend_self`, applied to the states and ready list its caller has just produced |
| `ThreadSpawn`, `ThreadFork`, `ThreadExit`, `ThreadYield`, `ThreadJoin` + `JoinResume`, `ThreadJoinAny` + `JoinAnyResume`, `ConditionWait`, `ConditionBroadcast` | the operations of the same names |

Each action models the whole C function: the slot search, the list
operations (`tlinsert` is `Append`, `tlremove` is `Head`/`Tail`, `tlappend`
is `\o`), the state changes, the panics (`halt`) and the trailing
`suspend_self`. `thread_join`'s error returns (bad tid, empty slot, not a
child) change nothing and are stuttering steps. The idle thread runs only
`idle_thread_func`, so its only step is `ThreadYield` while the ready list
is not empty; the other operations carry the guard `t # IDLE_TID`.

Left out: the thread's name, process, register context and kernel stack.
So `thread_set_process`, the address-space switch in `suspend_self` and the
stack release after `_thread_swtch` are not modelled (see the hazards in
`PROJECT.json`).

### `MC_Threads.tla` and its configurations

`MC_Threads` sets `NTHR = 5` (main, idle and three more slots) and one
device condition `d1`. Five slots are the smallest table in which a thread
has a grandchild while another slot is free. So re-parenting, a join_any
that has several children, a fork into slot 0 (never free) and a full
table all happen. `CHECK_DEADLOCK FALSE` is set because a panic or
`halt_success` stops the machine for good: halted states have no successor.

| Run | Config | Expect | What it shows |
|---|---|---|---|
| `threads_safety_liveness` | `MC_Threads.cfg` | pass | The properties below, over 66,904 states |
| `threads_wait_on_idle` | `MC_Threads_idle.cfg` | violation | main can block forever joining idle |
| `threads_full_table` | `MC_Threads_full.cfg` | violation | a full table panics instead of failing |

The properties of the passing run:

- `TypeOK`.
- `SchedulerConsistent` (the spec's scheduler invariant): one RUNNING
  thread, and it is `cur`. The ready list holds each READY thread once and
  nothing else. Each WAITING thread is linked once in the list of the
  condition it waits on. Idle is READY or RUNNING.
- `WokenJoinAnyFindsChild`: `thread_join_any` woken from its wait always
  finds an EXITED child, so the "spurious child_exit signal" panic is
  unreachable.
- `JoinTargetHeld`: the struct `thread_join` cached for its argument stays
  in the table and stays its child while the parent waits.
- `ParentTree`: through re-parenting, parent links stay a tree rooted at
  main. It is stated without recursion: every live thread other than main
  has a live parent, and every non-empty set of live threads without main
  has a member whose parent lies outside the set. So following parents
  from any live thread cannot stay inside such a set forever; it reaches
  main without a cycle. TLC checked this form against the earlier
  recursive `Ancestor` form on every reachable state with `NTHR = 4`.
- `ReapedChildExitEmpty`: the `child_exit` of an EXITED or reaped thread
  has no waiter. `thread_spawn` and `thread_fork_to_user` never call
  `condition_init` on the `kmalloc`'d child (`thread.c:215`). This shows
  that a recycled thread struct hands the new thread an empty list; heap
  blocks that held other data remain undefined behaviour.
- `ExitedStaysExited` (action property): an EXITED thread never runs again
  until its slot is recycled.
- `ReadyListFifo` (action property): the ready list is a FIFO queue. A
  thread leaves it only as its head (`suspend_self` switching to it), and
  no thread that stays overtakes one ahead of it. This is the safety half
  of "no READY thread starves" (`thread.c:635`). The mutant
  `SuspendSelfLifo`, which takes the tail, breaks it.
- `ReadyEventuallyRuns`, `JoinReturnsAfterExit` (liveness).

Fairness: `WF` of `ThreadYield(t)` for every thread (the timer interrupt
preempts the running thread through `thread_yield` at the end of trap
handling, and idle yields whenever the ready list is not empty), and `WF`
of `JoinResume(t)` and `JoinAnyResume(t)` (a thread that has been switched
back into a join continues its loop without stopping). No fairness is
assumed for spawn, fork, exit, join or waits: a program may never call
them.

Each property of the passing run has a mutant in `PROJECT.json`: a
plausible bug in one mapped definition (a dropped requeue test, a LIFO
ready list, a missing re-parenting, a broadcast of the wrong condition,
...) under which TLC finds the property violated.

### `ThreadsProofs.tla` — proofs

Proved with TLAPS, for every `NTHR >= 2` and every set of device
conditions:

- `IInvariant`: `Spec => []IInv`.
- `TypeCorrect`: `Spec => []TypeOK`.
- `SchedulerSafe`: `Spec => []SchedulerConsistent`.
- `ReapedChildExitSafe`: `Spec => []ReapedChildExitEmpty`, from `IInv`
  through the lemma `IInvChildExit`. Only `t` itself waits on `t`'s
  `child_exit` (`WaitOwn`), and only WAITING threads are linked
  (`WaitListsExact`). So the list of an EXITED or empty slot is empty.

`SchedulerConsistent` is not inductive alone. `IInv` adds:

- the types;
- idle's `pc` is "run" (idle is never resumed inside a join, where it would
  wait, and so the ready list is never empty when a thread suspends);
- `ParentTyped`: the parent of every live thread other than main is a slot
  (needed for `thread_exit`'s broadcast and for re-parenting);
- `JoinTyped`: a thread waiting in `thread_join` waits for a slot other
  than main's (needed when the loop reaps it);
- `WaitOwn`: a WAITING thread waits on a device condition or on its own
  `child_exit`. Needed because spawn and fork give the new slot an empty
  `child_exit` list: nobody may be waiting on it.

The proof has one lemma per operation and shared lemmas for `suspend_self`
(`SuspendSelfStep`: the ready list stays exact and only READY/RUNNING
states change), `condition_wait` (`WaitOnStep`), the broadcast
(`BroadcastFacts`, stated over a generic `WaitExact(st, wl, wc)`),
`recycle_thread` (`ReapStep`), and the list helpers (`AppendList`,
`TailList`, `ConcatList`, `LowestIsLeast` via `WellFoundedInduction`).
`TLC` checked `IInv` as an invariant of the same model before it was
proved.

### `ThreadsJoinProofs.tla` — proofs about `thread_join` and `thread_join_any`

Proved with TLAPS, for every `NTHR >= 2` and every set of device
conditions:

- `JoinInvariant`: `Spec => [](IInv /\ JInv)`.
- `JoinTargetSafe`: `Spec => []JoinTargetHeld`. While a thread is inside
  `thread_join(tid)`, `tid` holds a live child of the joiner. This matters
  because the loop re-reads the `child` pointer it cached before waiting.
- `WokenJoinAnySafe`: `Spec => []WokenJoinAnyFindsChild`. A thread woken
  inside `thread_join_any` has an EXITED child, so the "spurious
  child_exit signal" panic cannot happen.
- `ExitedStaysExitedSafe`: `Spec => ExitedStaysExited`, the action
  property. No step makes an EXITED thread READY, RUNNING or WAITING
  again; only recycling the slot changes its state.

`JInv` states, for every thread `s`, three things (`ThreadOK(s)`):

- `PcOK`: a thread suspended inside a join (`pc # "run"`) is alive. If it
  is WAITING, it waits on its own `child_exit`.
- `JoinOK`: this is `JoinTargetHeld` for `s`.
- `AnyOK`: this is `WokenJoinAnyFindsChild` for `s`.

`JoinTargetHeld` and `WokenJoinAnyFindsChild` are not inductive alone.
Three facts need `PcOK`:

- A broadcast of a device condition never wakes a joiner.
- Only the exit of one of `s`'s own children wakes `s`.
- `s` is never the EXITED thread that someone else recycles, so its
  children are never re-parented.

The proof is built around one frame lemma, `ThreadFrame`. It says `s`
keeps `ThreadOK` through a step if `Kept(s)` holds: either `s` leaves the
join, or `s`'s `pc` and join argument stay, its live children stay its
children, its EXITED children stay EXITED, and `s` itself is unchanged,
moves between READY and RUNNING, or becomes runnable with an EXITED
child. Each operation has a lemma that establishes `Kept` for every thread:

- `ExitJInv`: the woken parent becomes runnable with the exiting thread as
  an EXITED child.
- `ReapJInv`: the recycled slot is a child of the reaper only.
- `JoinWaitJInv`: establishes `ThreadOK` directly for the thread that
  starts waiting.

Each of these lemmas also proves `ExitedKept`, the body of
`ExitedStaysExited`, from the same facts. Before the proof, TLC checked
`JInv` as an invariant of `MC_Threads` with `MC_Threads.cfg`'s constants
(66,904 states).

### `ThreadsTreeProofs.tla` — the parent tree

`ParentTreeSafe`: `Spec => []ParentTree`, for every `NTHR >= 2`. The
inductive invariant is `IInv /\ TInv`, where `TInv == ParentTree /\
MainLive`. `MainLive` (main's slot is never emptied) is needed because
`ParentTree` alone does not stop a step from emptying main's slot. That
would leave main's children without a live parent. There are three lemmas,
one for each way the parent links change:

- `SameTree`: the links stay and no slot is filled or emptied (`SlotsKept`,
  which the `IInv` lemmas of yield, wait, broadcast, exit and join-wait
  now also prove).
- `GrowTree`: spawn and fork fill an empty slot whose parent is live. A
  set holding the new thread has it as its escaping member, or escapes
  without it.
- `PruneTree`: `recycle_thread` empties an EXITED slot and moves its
  children to its parent. For a set `S` whose members all have parents in
  `S` after the step, `S` plus the reaped thread violates `ParentTree`
  before the step.

### `ThreadsFifoProofs.tla` — the ready list is FIFO

`ReadyListFifoSafe`: `Spec => ReadyListFifo`, for every `NTHR >= 2` and
every set of device conditions. `ReadyListFifo` is inductive on top of
`IInv`: it needs no invariant of its own. The proof uses four lemmas about
list operations, over `Fifo(rl, rl2)`, the body of the property:

- `FifoExtend`: appending at the tail (`tlinsert`, `tlappend`).
- `FifoDequeue`: removing the head of an injective list and appending
  threads from outside it.
- `FifoPrefix`: what holds of `rl \o x` holds of `rl`. `thread_exit` hands
  `suspend_self` the ready list with the parent's waiters appended.
- `FifoSame`: the list does not change.

`SuspendFifo` applies them to `suspend_self`. `IInv` supplies the facts it
needs: the ready list is injective and does not hold the running thread
(`ReadyHeld`). Then there is one lemma per operation.

What stays with TLC:

- Liveness (`ReadyEventuallyRuns`, `JoinReturnsAfterExit`), since TLAPS
  does not handle fairness and ENABLED. `ReadyListFifoSafe` and
  `SchedulerSafe` prove the safety facts that `ReadyEventuallyRuns`
  rests on.

Everything about `IoTerm` and `StdLib` is model-checked only, as are the
`Strtok` properties stated with `StrtokFields` (`SplitsAtEveryDelimiter`,
`StandardStrtok`). The scans of `IoTerm` and the loops of `StdLib` are
`RECURSIVE` operators, which tlapm cannot use. `TermCRLF` and
`StrtokFields` fold with `FoldLeft`. What these compute for every input
would need induction over sequences or numbers, which the provers cannot
instantiate.

### `IoTerm.tla` and `TermCRLF.tla` — the terminal line discipline

`TermCRLF` is the abstract specification, taken from the comment above
`ioterm_init` (io.c 222-252). Input and output normalization are each a
machine with one bit of state. `InChar` / `OutChar` are the comment's
tables, and `NormIn` / `NormOut` fold them over a sequence. Its input half
(`InSpec`) lets characters arrive at the device and a reader take any
number of them at once. Its output half (`OutSpec`) lets a writer hand
over a chunk, which is counted as accepted and whose normalization goes to
the raw output.

`IoTerm` is the code: one reader and one writer on an `io_term` over a
UART. `cr_in` and `cr_out` are separate, so the two directions share no
state. The steps are:

- `UartReceive(ch)`: the UART receives a character (environment, bounded
  by `MaxTyped`).
- `ReadCall(n)`: `ioread_full(term, buf, n)` begins.
- `ReadStep(k)`: one pass of `ioterm_read`'s do-while loop. The UART
  returns `k` characters, 1 <= k <= len, and `TermReadScan` (the `switch`
  on `cr_in`, lines 409-437) rewrites them. The pass then either loops,
  because nothing is left, or returns to `ioread_full`, which adds the
  result to `acc` and returns at `bufsz`.
- `WriteCall(b)`: `iowrite(term, b, n)` begins.
- `WriteStep`: one call of `ioterm_write` on the rest of the buffer, and
  what `iowrite` does with its result. `TermWriteScan` is the `rp`/`wp`
  scan of lines 468-541, including the partial writes and the inserted
  `\n` / `\r`. `TermWrite` adds the final flush of lines 543-552.

A UART read blocks until a character is there. A UART write takes
everything, so the `cnt < 0` and `cnt == 0` returns of the raw writes
never fire.

The refinement mapping `CRLF == INSTANCE TermCRLF WITH ...` maps:

- what the reader has been given to `got \o rbuf`;
- what the writer has been told was written to `written` plus the current
  buffer up to `acc`;
- the raw output to everything the UART received.

`MC_IoTerm` uses the characters `\r`, `\n` and `x`, up to 3 typed
characters, buffers of at most 2 and two `iowrite` calls. That is the
least in which a `\r\n` is split between two UART reads, a read
normalizes to nothing, and a `\r` ends one write while a `\n` starts the
next.

| Run | Config | Expect | What it shows |
|---|---|---|---|
| `iot_crlf` | `MC_IoTerm.cfg` | pass | `InputRefines`: `ioterm_read` + `ioread_full` refine `InSpec` however the input is split. `TermWriteNormalizes`: the UART output is exactly `NormOut` of everything `ioterm_write` was given. 232,700 states. |
| `iot_output_count` | `MC_IoTerm_out.cfg` | violation | `OutputRefines` (`IoTerm` refines `OutSpec`) fails: see the findings |

`CHECK_DEADLOCK FALSE` is set in both because a reader may wait forever
for input that never comes, as a real one does, and the writer may stop
calling.

### `IoLit.tla` — the I/O literal

The state is `lit->pos`, the loop the caller is in (`ioread_full` or
`iowrite`) with its `req` and `acc`, the last result, and the range of the
last `memcpy`. The byte contents are left out: no property looks at them.

| Action | Code |
|---|---|
| `Init` | `iolit_init` |
| `Call(op, n)` | `ioread_full` / `iowrite` begins |
| `LitStep` | one `io_lit_read` / `io_lit_write`: `-EINVAL` past the end; else copy `Bytes(len)` and advance `pos`; then the loop's test of the result |
| `SetPos(p)` | `io_lit_ioctl(IOCTL_SETPOS)`, unchecked |

`pos`, `size`, `bufsz` and `size_t` are 64-bit unsigned in the code, so
`Bytes` computes `pos + len` and `size - pos`, and `LitStep` advances
`pos`, modulo the constant `ULONG` (2^64 in the code, 16 in `MC_IoLit`).
This matters after a `SETPOS` past the end. There `size - pos` wraps to a
huge count, and only the `pos >= size` test keeps it from reaching
`memcpy`. `IoLitAssumption` requires `MaxPos + MaxReq < ULONG`. So
`pos + bufsz` never wraps in the model: that needs a `bufsz` within `pos`
of 2^64, which no caller's buffer has (hazard at io.c:120, left to
review).

`MC_IoLit` uses a 3-byte literal, requests of 1 to 4 bytes and seeks to
0..4, so short, exact, past-the-end and after-the-end transfers all occur.

| Run | Config | Expect | What it shows |
|---|---|---|---|
| `lit_bounds` | `MC_IoLit.cfg` | pass | `CopyInBounds`: whatever `SETPOS` left, every `memcpy` stays in the literal. 905 states. The mutant without the `pos >= size` test copies the wrapped `size - pos` = 15 bytes after a seek to 4, and is caught. |
| `lit_return_count` | `MC_IoLit_ret.cfg` | violation | `ReturnsBytesMoved` fails: the loops return 0 after moving `pos` |

Deadlock is checked here: an idle caller can always seek or call again.

### `IoLitProofs.tla` — proofs

Proved with TLAPS for every `Size`, `MaxReq >= 1`, `MaxPos >= Size` and
`ULONG > MaxPos + MaxReq` (`IoLitAssumption`: the seeks reach at least
the end, as `SETPOS` takes any position, and no `pos + bufsz` wraps):

- `CopySafe`: `Spec => []CopyInBounds`.
- `LitTypeCorrect`: `Spec => []TypeOK`.

Both rest on the inductive invariant `IInv == TypeOK /\ CopyInBounds`.
Neither conjunct is inductive alone. Keeping `pos` within `0..MaxPos`
needs the clamp `pos + Bytes(len) <= Size`. The copy bound needs `pos`
and `acc` to be numbers in range. The lemma `BytesBounds` states what the
clamp gives when `pos < Size`. There neither `pos + len` nor
`size - pos` wraps, so the unsigned arithmetic agrees with the
mathematical one. `LitStepIInv` has one case for the
`-EINVAL` return past the end and one for the copy. In the copy case,
`LitReturn` is 0, so the loop returns at once.

### `StdLib.tla` — `atoi` and `itoa`

`Itoa(n, b)` and `Atoi(s)` are operators, translated line by line from
`stdlib.c`:

- a string is the sequence of its character codes;
- `int` is `W` bits wide, and every signed operation that can overflow
  goes through `Wrap`: the `res * 10 + digit` of `atoi`, `sign * res`,
  and `-num` of `itoa`;
- C's `/` and `%` truncate toward zero (`CDiv`, `CMod`), which is what
  puts negative remainders into `itoa`'s digit loop.

Signed overflow is undefined in C. The model takes the outcome the
RISC-V build produces, two's-complement wrap-around. The loops are
`RECURSIVE` operators (`ItoaLoop`, `AtoiLoop`), so this module is for
TLC only.

The state is the pair of arguments `(num, base)` of an `itoa` call, and
a step is another call. The reference `RefItoa` is the standard numeral:
signed decimal in base 10, and the unsigned value in other bases, as
itoa's comment says. `MC_StdLib` sets `W = 8` and the bases
{2, 8, 10, 16}: every int and every base, 1024 states. The overflow
cases are the same at every width, since they hit at `INT_MIN` and past
`INT_MAX`.

| Run | Config | Expect | What it shows |
|---|---|---|---|
| `stdlib_conversions` | `MC_StdLib.cfg` | pass | `ItoaNonNegative`: `itoa` writes the standard numeral of every `n >= 0` in every base. `DecimalRoundTrip`: `atoi(itoa(n, 10)) = n` for every int. |
| `stdlib_itoa_int_min` | `MC_StdLib_decimal.cfg` | violation | `ItoaDecimal` fails at `INT_MIN` only |
| `stdlib_itoa_bases` | `MC_StdLib_bases.cfg` | violation | `ItoaUnsignedBases` fails for every negative int |

The round trip holds at `INT_MIN` too, but only by accident. The
garbage `itoa` writes there is read back by `atoi`'s unchecked,
wrapping arithmetic.

### `Strtok.tla` — `strtok`

The state is:

- the caller's buffer, a sequence of characters ending in `NUL`;
- the static `ptr`, an index into the buffer or `NULL`, its static
  initial value;
- two history variables: the string last passed, and the results
  since then.

The results are `<<>>` for NULL and `<<s>>` for a pointer whose C
string is `s`. `CStr` reads a returned pointer the way the caller
does, up to the next `NUL`, so a missing cut shows up as a token that
runs on.

The actions:

- `StrtokStr(s)` is `strtok(str, delim)` for a new string;
- `StrtokNull` is `strtok(NULL, delim)`, at most `MaxCalls` per string.

Both end in `Scan`, the loop of lines 88-109. It stops at the first
delimiter or the terminator, overwrites a delimiter with `'\0'`, and
steps `ptr` past it. The test `start == ptr` after `ptr++` can never
hold, and the model leaves it out.

`StrtokFields.tla` holds the reference the calls are compared with: the
fields of the string (`Fields`, a `FoldLeft` over it) and its non-empty
tokens (`Tokens`), with the two properties stated over them. `Strtok`
itself needs only `Sequences`, so its proofs need no fold.

`MC_Strtok` (which extends `StrtokFields`) uses one letter, two
delimiters (so the inner loop over
`delim` matches its second character), strings of up to 4 characters
and 4 calls per string: 489 states.

| Run | Config | Expect | What it shows |
|---|---|---|---|
| `strtok_fields` | `MC_Strtok.cfg` | pass | `SplitsAtEveryDelimiter`: the calls return the fields between delimiters in order, each cut at its end, then `""` at the terminator. `BufferIntact`: `ptr` stays on or before the terminator, and the buffer is the string last passed except for `'\0'` written over delimiters before `ptr`. |
| `strtok_standard` | `MC_Strtok_std.cfg` | violation | `StandardStrtok`: `strtok("")` returns `""`, not NULL; it never returns NULL |

`strtok` has no caller in the kernel (spec.md calls its end behaviour
an open question). The model records what a future caller would meet.

### `StrtokProofs.tla` — proofs

`BufferSafe`: `Spec => []BufferIntact`, proved with TLAPS for any
letters, delimiters, string lengths and numbers of calls. The inductive
invariant `SInv` is `BufferIntact` plus types: the buffer holds
characters, the string holds no `'\0'`, and `ptr` is a natural.

The argument has three steps:

- `StopFound`: a buffer that ends in `'\0'` has, from any `p` inside it,
  a first delimiter or `'\0'`. So the `CHOOSE` of `Stop` is defined and
  the loop stops inside the buffer. The proof takes the least element
  with `WellFoundedInduction`.
- `ScanFacts`: one run of the loop leaves `ptr` in `p .. Len(b)`. At a
  delimiter, the terminator still follows it, so `k + 1` is inside.
  The only character the loop writes is that delimiter.
- Since `NUL` is not a delimiter, a cut delimiter is still the character
  of the string that was there. This keeps `BufferIntact` across
  `strtok(NULL, delim)`.

## Findings

- `idle_thread.parent = &main_thread` (`thread.c:85`): idle is main's
  child. So `thread_join(IDLE_TID)` from main, or `thread_join_any` from a
  main whose only other children are gone, blocks main forever. The spec
  says idle has no parent and that join_any panics without children
  (`threads_wait_on_idle`).
- A full thread table panics (`thread.c:211`, `319`); the spec says spawn
  fails with `TOO_MANY_THREADS` and fork with an error
  (`threads_full_table`).
- `ioterm_write` does not count a skipped `\n` (io.c:510). When one
  write ends in `\r` and the next starts with `\n`, the `\n` is consumed
  but not counted. So `iowrite(term, "\n", 1)` returns 0, the
  no-progress value. And `iowrite(term, "\nx", 2)` calls `ioterm_write`
  again on `"x"`, so the UART receives `\r\nxx` (`iot_output_count`).
- `io_lit_read` / `io_lit_write` return 0, not the bytes copied
  (io.c:127, 173). So `ioread_full` and `iowrite` on a literal report 0
  bytes after moving `pos` (`lit_return_count`). The spec's open
  question asks for the byte count. Even then, a read that reaches the
  end makes one more call, which returns `-EINVAL`, so `ioread_full`
  returns the error and not the count.
- `itoa(INT_MIN, str, 10)` (`stdlib.c:44`): `-num` overflows, and
  `itoa` writes characters below `'0'`. At 32 bits it writes
  `"-./,),(-*,("`, 12 bytes with the terminator
  (`stdlib_itoa_int_min`).
- `itoa` of a negative int in a base other than 10 (`stdlib.c:50`): the
  comment says the number is taken as unsigned, but `num` stays signed.
  So `itoa(-1, str, 16)` writes `"/"` (`stdlib_itoa_bases`).
- `strtok` never returns NULL, and it gives empty tokens for leading or
  repeated delimiters (`stdlib.c:109`, `strtok_standard`).
- `io_lit_ioctl` returns -1, not `-ENOTSUP`, for an unknown command
  (io.c:216; spec 4.6). No run for this: it is one line.

## Not modelled, and why

- The process table, fork's address-space clone, virtual memory, pipes and
  system calls: their code is not in `src/`. They are planned as
  spec-modelled modules (see the plan).
- Trap glue, drivers, file system, ELF loader, heap, boot: out of scope in
  the spec, and not in `src/`.
- `ioterm_getsn` (line editing that echoes to the console), `ioprintf`
  formatting: console output with no state a property distinguishes.
  `ioterm_ioctl` passes commands through and refuses `SETPOS`, and the
  `GET` commands of `io_lit_ioctl` change nothing.
- Arithmetic wrap of `pos + bufsz` in `io_lit_read` (64-bit unsigned): a
  hazard in `PROJECT.json`, not modelled (see its note).
- User programs and the build script.

## Plan

Modules in order, each with an MC module, a passing run and mutants:

1. `Threads` (done), proofs of `TypeOK` and `SchedulerConsistent` (done).
   The recycled `child_exit` is covered by `ReapedChildExitEmpty`
   (proved). Next in this module: the kernel stack ownership of exited
   threads. A two-step `condition_wait` was considered and left out. No
   ISR in `src/` broadcasts a `child_exit`. A device condition
   broadcast in the window finds the caller unlinked, and the caller is
   then linked and waits for the next broadcast. Whether that loses a
   wakeup depends on the driver's condition test, which is not in
   `src/`.
2. `IoLit` (done).
3. `IoTerm` with its abstract `TermCRLF` (done). Next: `ioterm_getsn`'s
   line editing as an abstract line buffer.
4. `StdLib` and `Strtok` (done).
5. `Pipe` (spec-modelled): the 512-byte ring, scaled down, with
   `not_full`/`not_empty` over `Threads`' conditions; an abstract FIFO
   channel it refines, and the spec's round-trip property.
6. `Process` (spec-modelled): fork and exit composed with `Threads`.

Proved so far:

- the invariants `TypeOK`, `SchedulerConsistent`, `ReapedChildExitEmpty`,
  `JoinTargetHeld`, `WokenJoinAnyFindsChild` and `ParentTree` of `Threads`;
- the action properties `ExitedStaysExited` and `ReadyListFifo`;
- `TypeOK` and `CopyInBounds` of `IoLit`;
- `BufferIntact` of `Strtok`.

Proofs to come: the refinement of the pipe's abstract FIFO, once `Pipe`
exists.
