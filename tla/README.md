# BlueCore in TLA+

Models of the concurrent and stateful parts of BlueCore, TLC runs that check
them on small instances, and TLAPS proofs for all instances. Paths below are
relative to the repository; `modules/` is where its C++ lives.

    tlasany M.tla                     # parse
    tlc -workers 2 -config X.cfg M    # check
    tlapm M.tla                       # prove

`PROJECT.json` lists every run with its module, configuration and properties,
maps each definition to the source lines it stands for, and names for each
property a mutation of the code's model that breaks it.

## 1. Inventory

BlueCore is a stack of C++ libraries: BlueSystem (atomics, synchronization,
threads, time, log, assertions), BlueMemory on top of it (pools, tracking,
allocators, metrics), BlueContainer, BlueJobSystem; beside them a test runner,
a build framework in Lua, a command line in Python. Components call each other
directly; there are no messages. What they share is global state behind
atomics (pool counters, slab table), a spin lock (tracker, logger, assertion
handler), or a mutex (semaphore, event).

### BlueMemory

| component | state | operations | hard | right when |
|---|---|---|---|---|
| Pool registry, `src/Pool/MemoryPoolRegistry.cpp` | per pool: current, peak, totals, counts, all atomic; two plain flags | Initialize, Shutdown, TryReserve, CommitAllocation, CancelReservation, RecordFree, RecordFailure | every call interleaves with every other between any two atomic accesses; counters wrap | books balance, budget holds, peak is a peak |
| Allocator proxy, `include/Blue/Memory/Proxy/AllocatorProxy.h` | none | Allocate: reserve, allocate, track, commit; Free: untrack, free, record | a failure half-way; size and alignment at Free choose the route | reservation and block come and go together; a block goes back where it came from |
| Heap allocator, `src/HeapAllocator.cpp` | none | Allocate, Reallocate, Free | Reallocate frees the old block before it untracks it; grows and shrinks accounting by the difference | no record of another allocation is touched |
| Allocation tracker, `src/Tracking/MemoryAllocationTracker.cpp` | hash table with tombstones, counts, a spin lock | Initialize, Shutdown, Track, TryFind, Untrack, Capture, Report | tombstones and reuse of addresses; full table; the report between locks | a map from pointers to records; the report misses nothing that stays |
| Small block allocator, `src/Allocator/SmallBlockAllocator.cpp` | slab table, count, generation, flag; free lists per thread linked through the blocks | Initialize, Shutdown, Allocate, Free | blocks freed by other threads, restarts with stale caches, races for the slab table, thread ends | one owner per block, in memory that exists; all slabs go back |
| Memory system, `src/MemorySystem.cpp` | settings, initialized flag | Initialize, Shutdown with leak detection | failure half-way through the start | everything or nothing is started |
| OOM reporter, `src/Oom/OomReporter.cpp` | ring of reports, atomic sequence | Configure, Clear, Record, Capture | writers a whole ring apart share a slot | the latest reports, each whole |
| Metrics and thread contexts, `src/MemoryMetrics.cpp`, `src/Metrics/MemoryThreadContext.cpp` | atomic totals; table of per-thread counters | record, capture | more threads than the table has rows; capture beside writers | the capture stays in the table |
| Pool and linear allocators, `src/PoolAllocator.cpp`, `src/LinearAllocator.cpp` | free list in the slots; bump pointer | Initialize, Shutdown, Allocate, Free; Allocate, Reset | Free is checked by address only, Initialize may be refused half-way or come twice, sums and products wrap | blocks disjoint and in range |
| Backends, virtual memory | none | malloc, mimalloc, mmap | failure | environment of the models |

Lifecycle: `InitializeMemorySystem` starts metrics, OOM reporter, registry,
tracker, thread context, small blocks, in this order; `ShutdownMemorySystem`
reports leaks, then stops small blocks, tracker, registry, OOM reporter. No part
guards against calls that run meanwhile; that is the owner's duty.

### BlueSystem

| component | state | operations | hard | right when |
|---|---|---|---|---|
| Semaphore, `src/Platform/POSIX/Semaphore_POSIX.cpp` | count, maximum, mutex, condition | Initialize, Shutdown, Acquire, TryAcquire, AcquireFor, Release | overtaking, timeouts meeting releases, spurious wakeups, overflow of the count | a counting semaphore; no lost wakeup; timed waits end |
| Event, `src/Platform/POSIX/Event_POSIX.cpp` | flag, mode, mutex, condition | Initialize, Shutdown, Signal, Reset, Wait, TryWait, WaitFor | the same, and reset before the woken look | an event flag; no lost signal |
| Mutex, condition variable, spin lock | native object; one atomic word | acquire, release, wait, notify | fairness, memory order | mutual exclusion |
| Threads, `src/Platform/POSIX/Thread_POSIX.cpp` | handle | Create, Join, Detach | start context handed over, double join | each thread joined or detached once |
| Time, `src/Time.cpp`, `POSIX_Synchronization.cpp` | none | durations, absolute deadlines | saturation, carry | deadlines never wrap into the past |
| Logger, `src/Log/Logger.cpp` | sinks, counters, spin lock, re-entrance flag per thread | Initialize, Shutdown, Register, Clear, Flush, Write | sinks run from a copy after the lock is gone; sequence numbers out of order | each event written or counted as dropped |
| Assertions, debug output, processor queries | a handler pointer | | | |
| Windows forms, `src/Platform/Windows/*.cpp` | kernel objects and handles | the same operations | limits the kernel does not share; the reset mode handed on | the promises of the POSIX ones |

### The test runner, `tools/BlueTestRunner`

| component | state | operations | hard | right when |
|---|---|---|---|---|
| Scheduler, `TestScheduler.cpp` | a shared index, a result per test | RunTests on one or several workers | racing for the last index; results side by side | each test run and reported once |
| Process runner on POSIX, `ProcessRunner_Posix.cpp` | two pipes, a child in its own process group, a launch lock | RunProcess | other workers' forks inherit descriptors; exit, launch error, output and deadline in any order; descendants that hold the pipe; any system call may fail | the verdict is what happened, nothing is left running, every run ends |
| Process runner on Windows, `ProcessRunner_Windows.cpp` | a pipe, a suspended process, a job object | RunProcess | handles inherited by processes of other workers; death during assignment | as above |
| Output buffer, `BoundedOutputBuffer.cpp` | head, tail ring, count | Append, Finish | wrapping at odd limits, reads larger than the ring | the first and the last bytes, none twice |
| Options, `RunnerOptions.cpp` | none | ParseArguments | overflow of scaled values; the separator | accepted means exact |

### The rest

Containers (`RingBuffer.h`, `DynamicArray.h`, `SmidString.cpp`) and the job
system (a ring buffer of jobs run on the caller's thread, by jobs too) are
sequential. The build framework, the command line, benchmarks and tests hold no
state worth a model.

`PROJECT.json` lists the components with what is modelled of each, and the
hazards, each at its line with the properties that watch it.

## 2. What is modelled

### Pool registry: `MemoryPoolRegistry`

One pool (pools share only the flags). The processes are the allocations
themselves, from the call of `Allocate` to the return of the matching `Free`: no
step depends on the thread that runs it. `pc` follows AllocatorProxy's order of
calls; each action is one access to one atomic counter, so `TryReserve` is a
load and a compare-exchange that may fail and repeat, `CommitAllocation` is
`CommitLoad`, `CommitBytes`, `CommitCount`, then `UpdatePeak`'s load and loop,
`RecordFree` is three steps. `Uint` is arithmetic modulo the counter's width.
`SumOver` (module `Sums`) adds sizes without recursion, so that it can be proved
about. `MCMemoryPoolPeak` adds an observer that remembers the most bytes ever
resident.

Runs. `pool_accounting`: two allocations of 0, 1 or 3 bytes, budget 3, counters of
five values: each fits alone, two together may not, their sum can overflow before
the budget is looked at, totals wrap after a few calls; zero sizes are refused;
fairness lets `CallsReturn` be checked. `pool_peak` finds a disagreement: two
allocations can be resident together while the peak recorded stays below their
sum, because `CommitAllocation` reads `CurrentBytes` after the reservation and
another allocation may be freed in between. `PeakCoversLive` says what does hold:
the peak covers the blocks whose `Allocate` has returned.

### Allocation tracker: `AllocationMap`, `MemoryAllocationTracker`

The table slot by slot: state, pointer, the rest of the record. `Probe(p, k)` is
the slot of the k-th probe; `Hits` is `FindSlot`, `Vacant` the slot
`FindInsertionSlot` returns when the pointer is new. Each operation is under the
lock and one step; the report takes the lock once per record and so is one step
per record, with tracking in between. `answer` is what the last call returned.
`settled` is a history variable: the pointers tracked without interruption since
the report began. `AllocationMap` is the promise: a partial function with at
most `Capacity` entries and truthful answers. `Live` is the refinement mapping.

Run. `tracker_full`: two slots for three pointers, two at home in the last slot and
one where they wrap to: clusters, wrapping, tombstones in every order, a table
full of records or of tombstones; two record values, so that a re-track changes
the answer. It checks the table's invariants, the refinement, and that the report
misses nothing although tracking goes on.

### Small block allocator: `SmallBlockAllocator`

A block is a pair of its slab and its place. `word` is the first word of each
block: the link while it is on a list, `Garbage` while a caller has it. So a
free list exists only as links, as in the code, and `Follow` walks it. `held`
says who owns a block, for the properties and for what callers may free; any
thread may free any block. A call on the thread's own cache is one step; the
refill is a step per access to the backend, to `s_SlabCount` and to `s_Slabs`.
`Initialize` and `Shutdown` leave the caches alone, as the code does, and raise
the generation. `ThreadEnds` drops a `thread_local` cache.

Run. `small_blocks`: two threads, three slabs of two blocks of one class or one of
the other, a table of two entries for which refills race, two starts. A program
may end with everything shut down, so deadlock is not checked.

### Heap and default allocator: `Allocators`

The allocators have no state of their own; what can go wrong lies between the
components they call. `Allocators` composes them: the tracker as the
`AllocationMap` that `MemoryAllocationTracker` is shown to implement, each pool's
charge and totals (a registry call is one step here, its accesses are
`MemoryPoolRegistry`'s subject), the live bytes of the metrics, and the memory
itself, addresses that belong to the backend or to a small block class. A call is
the list of the steps it has still to make (`AllocateSteps`, `ReallocateSteps`,
`FreeSteps`, in the order of the code), and each step is one call of a component;
other threads run between any two. `owned` is what callers know of the blocks they
have. Freed addresses are handed out again at once, and `Obtain` may move a block
that is reallocated or leave it where it is, or fail.

Runs. `heap_reallocate`: two threads, three addresses, a tracker for two of them,
one pool with room for three units, sizes that are small blocks and sizes that are
not: charges, metrics, records and routes are right, whatever moved, failed or went
untracked for want of a slot. Two runs show what does not hold. `reallocate_race`:
`HeapAllocator::Reallocate` untracks the old pointer after the backend has freed it,
so another thread that was given the address in between loses its record, and its
live allocation is missing from lookups and leak reports. (In `heap_reallocate` the
books survive this, since every caller knows size and pool of its block. The
records do not when some requests ask not to be tracked: with
`TrackFlags <- SometimesTracked` the stale record of a block that moved stands for
the new owner's block, and `RecordsTruthful` fails.) `reallocate_pool`: a block
reallocated in another pool stays charged to the old one, since only the difference of the
sizes is charged, and to the new one; its `Free` then takes the new pool's charge below
zero.

### Semaphore and event: `PosixWait`, `Semaphore`, `Event`, `CountingSemaphore`, `EventFlag`

`PosixWait` is waiting on a condition variable: a thread is idle, asleep, awake
(its wait returned, the mutex not yet acquired) or timed out, and has no
deadline, one ahead or one that passed. `Signal` wakes one sleeper of those
there are, `Broadcast` all; spurious wakeups happen; a signal may still reach a
thread whose deadline has passed. `Semaphore` and `Event` add the count or the
flag. A critical section is one step: what is between lock and wait, or between
return from wait and the next wait or unlock. A thread that is awake competes
for the mutex with threads that just arrive, so permits and signals are
overtaken. `CountingSemaphore` and `EventFlag` are the promises; threads inside a
wait are `waiting`, those with a deadline `timed`. A call that changes nothing
(a failed try, a release that does not fit, an invalid description, a failing
clock or pthread initialisation) is a stuttering step.

`SemaphoreWindows` and `EventWindows` are the same operations over kernel objects,
modelled from the calls the code makes; the same abstract specifications are their
promises. `Monitor` is a mutex and a condition used as the tests use them (a flag
under the mutex, waiters in a loop), on POSIX and on Windows.

Runs. `semaphore_promise`: three threads, initial and maximum counts and releases
of one, several and too many, a counter just wide enough for its maximum. The event,
the Windows objects and the monitor run in `system`, the event with three threads and
both reset modes.

### Test runner: `ProcessRunner`, `TestScheduler`, `ProcessRunnerWindows`, `OutputBuffer`, `RunnerOptions`

`ProcessRunner` is `RunProcess` on POSIX with everything around it: `step` is where
the runner is, one system call (or one pass over a pipe) to a step, and the child, its
descendant and the kernel move between any two. A pipe's write end is the set of its
holders (the runner, the child before `execv`, the program after it, a descendant),
for each launch, so that a fork by another worker inherits what the code would let it
inherit; the end of a pipe is the empty set. `doomed` are the processes that were
sent SIGKILL. Each runner step has a failing form (`LaunchFails`, `SetGroupFails`,
`WatchFails`, `FinalizeFails`, `KillFails`, `ReapFails`, `KillAgainFails`,
`CleanupFails`), enabled by `Programs[l].fails` and limited by `MaxFaults`. With `Darwin`
the branch under `__APPLE__` of `TerminateExitedLeaderAndGroup` is there too: the group's
signal may be refused while the child is a zombie (`KillRefused`, which is no fault), the
child is reaped (`ReapRefused`) and the group signalled once more (`KillAgain`). `Elapse` passes the deadline in
force: the test's, then that of the cleanup. `TestScheduler` adds the workers, the
shared index and the results, and the exit code of `main`.

Run. `test_runner`: one launch whose program may write, close its output, start a
descendant that stays in the group or escapes it, refuse to end, end by itself or by a
signal, or never start, while any one system call may fail; or two launches side by
side on two workers; or a test that does not exist. `LaunchStatusFinal` is the claim of
the comments at lines 470 and 593; `Contained`, `VerdictTruthful`, `NoSignalAfterReap`
and `AllReported` are the runner's contract; `RunnerEnds` says that it ends whatever
the programs do. `Darwin` is TRUE in the run: the branch is optional in every state, so
what the other platforms do is among what is checked. `NoSignalAfterReap` has the one
exception that the branch makes: after the child is reaped nobody is signalled, but
the group by the retry; without the exception TLC shows a descendant that is signalled
by the retry when the child is gone. That is the reverse of what the comment at lines
620-622 says (`Terminate the process group before reaping it`), for the reason the comment
at lines 229-232 gives. `RunsAreContained` holds all the same. That the kernel
gives the number of a reaped child, or of its group, to another process is not modelled:
between lines 234 and 240 a group whose last member ends could be followed by
another with its number (another launch's, since a child's group has the child's number),
and the retry would then signal that.

`ProcessRunnerWindows` is the Windows form: created suspended, assigned to a job,
resumed, the job closed at the end. Run `windows_pipes` finds that `CreateProcessW`
inherits the write end of another worker's pipe, since nothing serialises pipe creation
and launch as the POSIX runner's lock does: the pipe then has a writer outside the job,
and draining waits for it until its deadline. In `system` one worker runs alone, for
which `JobContained` and `PipeEnds` hold.

`OutputBuffer` numbers the bytes a program writes, so that `OutputKept` can say which
ones come out; `RunnerOptions` is `ParseArguments` over argument records, one after the
other, compared with what each argument says on its own in exact arithmetic.

### Logger, memory system and the other parts: run `system`

`System` puts the components that share no state side by side: it EXTENDS `Event` and
`JobSystem`, instantiates the others, and names their properties. The initial state
chooses one (`which`), or inputs of the pure operators (`number`, `clock`, `arguments`),
and only that one runs, so the run's states are the sum of theirs; the fairness is the
event's. `MCSystem` gives each small constants.

| module | what it keeps | property |
|---|---|---|
| `Logger` | `WriteLog` step by step (check, sequence, copy of the sinks, each call, count) beside register, clear, shutdown, initialise; a sink may log | `EventsAccounted`: every call is written, dropped, filtered, or under way |
| `MemorySystem` over `MemoryThreadContext` and `OomReporter` | start with a failing tracker, shutdown with leak detection, allocations, failures and frees of two threads between; the table of thread contexts; the ring of reports | `LeakReportTruthful`, `CapturesReports`, `CountsBalance` |
| `Threads` | OwnedThread objects and native threads on three platforms: the start context, the handle stored after the thread runs, policies | `ThreadsOwned` |
| `Monitor`, `SemaphoreWindows`, `EventWindows` | see above | `PrimitivesKept` |
| `FixedPools` | the pool allocator's free list in its slots, any pointer freed, an Initialize refused (`InitializeFails`) or repeated; the linear allocator's cursor and the words its sums wrap in; histories of what leaves either without a promise (`spoilt`, `wrapped`) | `BlocksDisjoint` |
| `OutputBuffer`, `TimeConversions`, `RunnerOptions` | see above; saturating times, deadlines, time-outs | `OutputKept`, `ConversionsExact` |
| `ProcessRunnerWindows` | one worker | `JobContained` |

`MemorySystem` is initialised and stopped while no call runs, the caller's duty that
`docs/USAGE.md` states; blocks that are still out at a shutdown are given up, which is
what the leak report is about.

The pool allocator checks a freed pointer by its address only, so the model frees every
address of the block, a free slot too. After that (or after the product of line 47 has
wrapped, or a refused Initialize has changed the stride of a pool that has a block) the
pool goes on in the model as in the code, a free list that is a circle included, but it is
`spoilt` and `BlocksDisjoint` promises nothing of it until it is initialized
anew or shut down. The linear allocator adds in words of the machine without a check
(`src/LinearAllocator.cpp:13` and `:21`): a request so large that the sum wraps is accepted
and moves the cursor back, so that a later block overlaps one that is out. The model does
the same, and TLC violates `BlocksDisjoint` in two steps when its condition `~wrapped` is
dropped; without such a request the blocks are disjoint.

### Job system: `JobSystem`

The ring buffer of `Blue/Container/RingBuffer.h` and the calls on it, which nest
because a job may submit, drain and shut down. In `system` four jobs fill and wrap a
queue of two: by `JobsRunInOrder` every accepted job was started once, in order, or
is still queued, and a system that is shut down keeps none.

### Strings: `SmidString`

Sizes, flags and blocks of strings that are appended to, copied, moved and destroyed.
Run `strings` finds that the move constructor loses the block of a string on the heap
(it copies the inline text only), so the moved string claims a heap text it does not
have; move assignment is right.

## 3. Bounds and fairness

| bound | where | why enough |
|---|---|---|
| two allocations; two or three threads; three pointers; two launches | all | a race needs a loser, and a third that profits |
| `MaxCalls` | pool registry | completed `Allocate` calls in one life of the registry; three let each allocation be reused after a free |
| `Modulus` | all | wide enough to tell values apart, narrow enough to wrap where the run is about wrapping |
| `MaxStarts` | small blocks | starts and stops together; two make one restart with stale caches. `GenerationAssumption` keeps it below the modulus: after 2^32 starts the code itself can mistake a stale cache |
| `Capacity` 2 | tracker | fills with two of three pointers, and a record wraps behind a tombstone; the proofs are for every capacity |
| 1 to 3 slots of 8 or 16 bytes, `AddressSpace` 32, `MaxUsed` 4, `MaxLinear` 4 | pools | three slots are a head, a middle and an end of the list; 3 * 16 wraps to a block too small for its slots, 2 * 16 to none; a list that is a circle is used past its slots; the linear block lies near the end of the addresses, so requests wrap. The proofs are for any |
| `MaxSlabs` 2, three slabs | small blocks | the table fills while the backend has memory |
| `Budget` 3, sizes 1 and 2 | allocators | two blocks fill the pool, growth of one can be refused |
| `MaxFaults` 1, `writes` 1, `DrainLimit` 1 | process runner | one failing call at any place, after which cleanup must work; a pass that stops at its limit and one that sees the end. The proofs are for any of them |
| `MaxEvents`, `MaxSwitches` 2 | logger | two events of two threads across a restart |
| `MaxCalls`, `MaxStarts` 2, `MaxContexts` 3 | memory system | a failure and a block out over a restart; a table that runs out |
| `Jobs` 1..4, `Capacity` 2, `MaxDepth` 2 | job system | the ring fills and wraps, a job drains the queue it is in. The proof is for any |
| `Maxima` 0..6, `MaxChunk` 4, `MaxProduced` 12 | output buffer | odd, even and zero limits, reads larger than the tail, two turns of it |
| `MaxUint64` 63, units and limits below it; `MaxArguments` 3 | times, options | every product and sum that saturates, and every limit, is reached; all pairs of numbers are tried; a separator or a help between two options. The proofs are for any |

Nothing else is bounded. Symmetry is used only in runs without liveness.

Fairness: `CallStep` (a thread inside a registry call is scheduled: the code's
compare-exchange loops are lock-free, and the bound on calls makes competition
finite), and in `Semaphore` and `Event` the woken thread's
`Resume` (`AcquireResumes` in the semaphore) and the passing of its deadline. The last two say that the mutex does
not starve a thread for ever and that time passes. In `TestScheduler` the workers'
threads run (weakly fair), and a deadline that is looked at again and again passes
(strongly fair, since the loop looks at the clock between other steps); nothing is
assumed of the programs under test, not even that a killed one dies. Nobody is assumed
to call anything. For untimed waits nothing is claimed of a single thread, since others
may overtake it for ever; the abstract specifications promise only that
*somebody* is served (everybody, at a manual-reset event that stays up).

Atomic accesses are sequentially consistent single steps. The registry's
counters are mostly relaxed, which matters not to one counter's value; the
properties that relate counters (`QuiescentTotals`) are stated of moments when no
call runs. Spin locks and mutexes are assumed to exclude.

## 4. What is proved

For every value of the constants, from the named ASSUMEs of the modules.

`MemoryPoolRegistryProofs`. `IInv` is inductive: `CurrentMatchesHolding` (the
counter is the sum of what allocations hold) makes every subtraction exact;
`WithinBudget` follows for the exchange, since what is stored was compared with
the budget and the counter has not moved. `PeakCoversLive` is not inductive,
for between `CommitLoad` and `PeakExchange` the peak lags; `CommitsCoverPeak`
says that for every set of committing allocations the peak covers them and the
live ones or one of them carries a value that does. `CountingTheorems` has the
lemmas about sums. Theorems: `TypeCorrect`, `CurrentIsExact`, `BudgetHolds`,
`PeakIsEnough`, `PeakMonotone`. `TotalsAreRight` is `QuiescentTotals`, under
`CountersLast`: a lifetime makes fewer calls than a counter of 64 bits counts, for a
wrapped count of failures could not bound the refusals. The byte totals do wrap, so what
is kept of them (`BytesAddUp`) is a congruence: at every moment they differ by the sizes
added and not yet taken off, modulo the width; between calls that sum is `CurrentBytes`,
which is in range, and `UintExact` makes the congruence an equality.

`MemoryAllocationTrackerProofs`, for any capacity and any hash. The invariant's
heart is `EveryPointerReachable`: no empty slot lies between a record's home and
its slot. Removal keeps it because it buries instead of emptying; insertion
because the slot it takes is the first that is not occupied. From it follow
`SearchComplete`, `PointersUnique`, `CountExact`, `ReportMissesNothing`, and
`TableIsMap`: `Spec => ImplementsMap`, where a full table is shown to hold
`Capacity` different pointers.

`PosixPrimitivesProofs`, the semaphore and the event over the same lemmas about waiting.
`NoWakeupLost` (while threads sleep there are at least as many contenders as
permits) is inductive with the types: a release of one adds a contender or finds
no sleeper, of several leaves none asleep, and taking a permit removes one of
each. `NoSignalLost` likewise. `SemaphoreIsSafe` and `EventIsSafe` prove that every
step is one of the abstract specification or leaves it alone; they need that
only waiting threads have deadlines, and only those past it time out.

`SmallBlockAllocatorProofs`, for any finite sets of threads, classes and slabs, any
number of blocks in a slab and any size of the table. A free list exists only as words
in the blocks, so the invariant says that there are an `owner` (the list each block is
on, if any) and a `rank` (how many blocks are behind it) with which the words agree:
`Threaded` relates a block to the next, and `AllThere` the lists and `held` to the
table. Each step gives the new `owner` and `rank`: `PopKeeps`, `PushKeeps`,
`RefillKeeps` and `DropKeeps` are the list operations. `FollowList` says that the walk
which `Follow` defines by recursion meets exactly the blocks of the list and ends; it is
what `BlocksHandedOutOnce` and `BlocksNotLost` need besides the invariant. `TableKept`
and `SlabsKept` say who owns an index and a slab while refills race for the table, and
`GenerationsKept` that no cache is of a generation to come; `SlabsReturned` follows from
the first two.

`AllocatorsProofs`, for any finite sets of threads and addresses, any pools, budget, sizes
and routes, and a tracker of any capacity. `HeapAllocateOrder` and the lemmas beside it
read off each list of steps which steps are still to come at each of them; a call's stage
says what it holds. `CallOK` is what its fields then say, `CallKeeps` that the block it has
is its own, of the size and from the area it believes, and recorded so if recorded;
`OwnersSound` is the same of callers, `CallsApart` that no two calls have one block,
`RecordsKnown` that every record is of somebody's block or of one that a `Forget` is still
to remove. `Balanced` makes each account the sum of what every call contributes at its
stage (`Charge`, `NetCharge`, `LiveCharge`) and of the owned blocks; each step changes the
account as it changes its call's share, which `BeginBalance`, `StepBalance` and
`EndBalance` prove once for all of them. `BooksAgree` follows when no call contributes
anything. The theorems assume `Orderly`: if callers reallocate, then in the block's own
pool, and every request is tracked. Both parts are needed, as `reallocate_pool` and the
remark on untracked requests in section 2 show; without reallocation nothing is assumed.

`ProcessRunnerProofs`, for any number of launches side by side, any programs and any
number of failing calls. `IInv` speaks of each launch on its own (`LaunchInv`), and
of the lock that keeps them apart (`OneHolder`); a step of one launch leaves what is
said of the others as it is, which `Frame` and `OneLaunch` prove once for all steps.
`LockHeld` and `PipesOwned` are the heart: the runner's own write ends are open only
while the launch holds the lock, so a fork inherits no other launch's, so the holders
of a pipe are the launch's own processes. `LaunchStatusIsFinal` follows (a child
that is dead holds nothing), and with it `StatusKnown`: what was read when the exit
had been seen is all that was written. `GroupDoomed` and `OutputEnds` give
`RunsAreContained`; `VerdictsAreTruthful` needs that a child seen dead was not yet
doomed, so its status is its own; `ReapedIsNotSignalled` that `kill` comes before
`reap` in every path but Darwin's retry, and that the retry signals only the group.

The module goes on to the workers of `TestScheduler`, for any lists of tests, any
options and any number of workers. `TestsAreReported` is `AllReported`: `SchedulerInv`
adds to `IInv` that a worker with a test took it from the shared index and no other has
it (`JobsTaken`), that below that index every test is reported or in work
(`IndexesTaken`), and that nobody starts a file that is missing; a worker that leaves has
seen the index beyond the list. `TestListsAssumption` gives each entry of a list a launch
of its own, as a call of RunProcess is. `ReportedStays` and `LaunchMoves` prove once that
a step of one launch, or of a program, takes back no result. That the exit code is 0 only
if every program returned 0 is then the link from the count of results through
`VerdictKnown` to the ends of the programs. `WorkersAreSafe` carries `LaunchStatusFinal`,
`Contained` and `VerdictTruthful` over to the launches that the workers make.

`SystemProofs` is about the components of `System`, each proved by itself for any values
of its constants, and about the system they make up.

- The job system, any capacity, jobs and nesting of calls: `QueueIsKept`. `RingOrdered`
  says slot by slot that the ring holds what was accepted and not started; `OneTurn` is
  the one fact of arithmetic, that an index below twice the capacity wraps at most once.
- The logger, any finite set of threads: `LogCallsAreCounted`. The threads between the
  entry and the exit of WriteLog make up the difference between the calls taken and
  those counted as written, dropped or filtered (`LogInv`); `WritingChanges` counts them.
- Owned threads, either platform: `ThreadsAreOwned`. `ObjectOK` and `NativeOK` say what
  an object and a thread know of each other at each place of the creator and of the
  thread, `SoleOwner` that no two objects have one thread; `ObjectMoves` and `NativeMoves`
  prove once that a step of one object, or of one thread, disturbs no other. The policies
  are the reason for keeping track of the creator: on Windows it sets some of them after
  the thread runs, so they are complete when both have done their part.
- The output kept of a child, every limit and every way of cutting it into reads:
  `OutputIsKept`. `RingHolds` says slot by slot which byte of the stream the ring of the
  tail holds; `TailReplaced`, `TailFilled` and `TailOverwritten` are the three ways
  AppendTail keeps it so, and `RingRead` is what comes out at the end.
- The memory system, any finite set of threads: `LeaksAreReported`, `CapturesAreReports`,
  `CountsAreBalanced`. `MemInv` has the first: a block is held by one call or caller
  (`BlocksHeldOnce`), the pool is charged what is live and what calls under way have
  charged (`ChargesAddUp`), a record belongs to a block (`RecordsHaveBlocks`), and a
  stopped system has neither (`NothingWhileStopped`). `ReportInv` has the second: a slot
  of the buffer has a report whose number leads to it, or a thread that drew such a
  number has yet to store its report. `CountInv` has the third: the totals of the table
  of contexts account for the blocks out; `RunningTotal` ties the recursive total of
  CaptureMemoryThreadContexts, which adds up row by row, to the sum over the table. They
  assume `MemoryAssumption`: a valid request is not empty (ValidateAllocationRequest
  refuses it) and a buffer of reports has a slot (ConfigureOomReporter takes its own for
  one without).
- The platform primitives, any number of threads: `PrimitivesAreKept`. `MonInv` makes the
  owner of the mutex the thread inside; nobody sleeps beside a raised flag, because a
  waiter gives up the mutex and sleeps in one step. `SemStep` and `EvtStep` map each step
  of the Windows semaphore and event to a step of `CountingSemaphore` and `EventFlag`: the
  kernel's count is the promise's, and a failing call leaves it alone.
- The pool and linear allocators, any number and stride of slots, any address space, any
  requests: `BlocksAreDisjoint`, with the conditions above. A free list exists only as
  links in the slots, so `SoundPool`, which `PoolInv` claims of a pool that is not
  spoilt, says that there is a list (`Listed`), without repetition, of the free slots, as
  long as the counters say, whose links the slots hold; `FreeListIs` shows that following
  the links meets just these. `InPoolIsSlot` says that what passes the checks of Free is a
  slot, and `EmptyIs` that a pool without a block is sound whatever stride a refused
  Initialize has left. `LinearInv` keeps the cuts below the cursor until an address wraps;
  `ProductsApart` is the arithmetic of slots: different numbers are at least a stride
  apart.
- The Windows process runner, any number of launches side by side: `ResultsAreComplete` and
  `PipesAreHeldByOthers`. `ClosedIsRead` in `LaunchInv` says that when the
  pipe has been read to its end the launch's processes are gone and all they wrote is
  captured, `HoldersAre` and `HoldersHold` who can hold a pipe. The second theorem bounds what `windows_pipes` finds: after the job is closed, only a process of another
  launch can hold a pipe open. `JobIsContained` is the case of one worker, where there is
  no other.
- Times, any clock, time-out and width that meet `TimeAssumption` (a time_t fits a Uint64,
  and so does the longest time-out in nanoseconds, rounded up): `WaitsAreLongEnough`,
  `ClocksAreMonotone`. `SaturatedSum` and `SaturatedProduct` say when the two helpers
  saturate; `Divided` is division by its quotient and remainder.
- The command line, any number of arguments with any numbers and units:
  `OptionsAreParsed`. `ParsedTo` says for every prefix what has been parsed of it: where
  options end, whether one has stopped the parser, the paths in their order, and the last
  value of each kind; `ArgumentParsed` takes it one argument further, with `OptionTaken`
  for the options and `ScaledValue` for the check by division that no product wraps.
- The system: `ComponentsStandAlone` proves that `SystemSpec` implies the specification of
  every component, since whose turn it is not keeps its state. `SystemIsSafe` concludes
  that all these properties hold of the system; it assumes what the run's constants meet,
  a queue with room, limits that are numbers, and one launch at a time for `JobContained`.

Recursion is proved about only where it can be replaced: the proofs about free lists
unfold the recursive function of `Follow` to its defining equation, which a least
counterexample (`LeastNatural`) shows to have one solution; that of `ParseArguments` has
one likewise (`Unrolls`), and so has that of `FreeList`.

Every invariant and action property that a passing run checks is a theorem. Only
model-checked is what is beyond the prover, liveness and ENABLED: `CallsReturn`,
`TimedWaitsEnd`, `RunnerEnds`, and the fairness in `ImplementsSemaphore` and
`ImplementsEvent`, of which `SemaphoreIsSafe` and `EventIsSafe` are the rest.

## 5. Not modelled

- Spin lock and atomics: a loop around one exchange, and compiler intrinsics. The
  models take a critical section for one step and an atomic access for one
  sequentially consistent step; weaker orders are outside what a state machine of
  this kind can say.
- Memory backends and virtual memory, processor queries: calls of the operating
  system with no state of their own; the models let them fail or succeed.
- Assertions and debug output, formatting, the test reporter: output.
- `DynamicArray`: sequential growth, no state beside size, capacity and block.
- Size classes and alignment: the class of a small block is an input of the model, one
  for allocation and free alike; the tracker's capacity is given in its normalised
  form.
- The typed proxies, which only compute sizes.
- The build framework (Lua), the command line (Python), benchmarks, tests and
  examples: drivers and generators that keep no state.

Hazards that no property covers are listed in `PROJECT.json` with the reason: calls that
race the start or the shutdown of a component, which the code leaves to its caller, and
counters that overflow only after 2^32 starts, and a slot of a pool that is freed twice,
after which the pool has no promise to keep.
