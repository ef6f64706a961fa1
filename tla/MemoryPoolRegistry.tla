------------------------- MODULE MemoryPoolRegistry -------------------------
(***************************************************************************)
(* The lock-free accounting of one memory pool                             *)
(* (modules/BlueMemory/src/Pool/MemoryPoolRegistry.cpp), driven by the     *)
(* order of calls AllocatorProxy::Allocate and AllocatorProxy::Free make   *)
(* (include/Blue/Memory/Proxy/AllocatorProxy.h).  Pools share nothing but  *)
(* the registry's flags, so one pool is modelled.                          *)
(*                                                                         *)
(* An element of Allocations is an allocation from the call of Allocate to *)
(* the return of the matching Free.  No step reads anything of the thread  *)
(* that executes it, so the allocations themselves are the processes: any  *)
(* thread may run the next step of any of them.  A step is one access to   *)
(* one atomic counter.                                                     *)
(***************************************************************************)
EXTENDS Integers, FiniteSets, Sums

CONSTANTS
  Allocations, \* the allocations that may exist at the same time
  Sizes,       \* the byte sizes callers ask for; 0 is refused
  Budget,      \* MemoryPoolDesc.BudgetBytes; 0 is "no budget"
  Modulus,     \* 2^64: the counters are Uint64 and wrap
  MaxCalls     \* bound of the model: completed Allocate calls per lifetime

ASSUME AllocationsAssumption == IsFiniteSet(Allocations)
ASSUME WidthAssumption == Modulus \in Nat \ {0}
ASSUME SizesAssumption == Sizes \subseteq 0..(Modulus - 1)
ASSUME BudgetAssumption == Budget \in 0..(Modulus - 1)
ASSUME CallsAssumption == MaxCalls \in Nat

VARIABLES
  Initialized,           \* m_Initialized
  EnforceBudgets,        \* m_EnforceBudgets
  CurrentBytes,          \* the counters of MemoryPoolState
  PeakBytes,
  TotalAllocatedBytes,
  TotalFreedBytes,
  AllocationCount,
  FreeCount,
  FailedAllocationCount,
  BudgetExceededCount,
  pc,                    \* the next step of each allocation
  size,                  \* its byte size; 0 while idle
  current,               \* local `current` of TryReserve and CommitAllocation
  peak                   \* local `peak` of UpdatePeak

counters == <<CurrentBytes, PeakBytes, TotalAllocatedBytes, TotalFreedBytes,
              AllocationCount, FreeCount, FailedAllocationCount,
              BudgetExceededCount>>
flags == <<Initialized, EnforceBudgets>>
vars == <<flags, counters, pc, size, current, peak>>

\* Uint64 arithmetic for operands in range.
Uint(n) == IF n >= Modulus THEN n - Modulus ELSE IF n < 0 THEN n + Modulus ELSE n

Word == 0..(Modulus - 1)

Step(a, from, to) ==
  /\ pc[a] = from
  /\ pc' = [pc EXCEPT ![a] = to]

-----------------------------------------------------------------------------
(* What an allocation owes the counters at each step.                      *)

\* The steps of CommitAllocation after its load of CurrentBytes.
Committing == {"commitBytes", "commitCount", "peakLoad", "peakLoop"}

\* Allocations whose bytes are in CurrentBytes.
Holding ==
  {a \in Allocations :
     pc[a] \in {"reserved", "allocated", "live", "released"} \cup Committing}

\* Allocations whose block the backend has handed out and not taken back.
Resident == {a \in Allocations : pc[a] \in {"allocated", "live"} \cup Committing}

\* Allocations in CommitAllocation after its load of CurrentBytes.
Loaded == {a \in Allocations : pc[a] \in Committing}

\* Allocations whose pointer the caller has, and has not begun to free.
Live == {a \in Allocations : pc[a] = "live"}

\* No call of the registry is being executed.
Quiescent == \A a \in Allocations : pc[a] \in {"idle", "live"}

-----------------------------------------------------------------------------
Init ==
  /\ Initialized = FALSE
  /\ EnforceBudgets = TRUE
  /\ CurrentBytes = 0
  /\ PeakBytes = 0
  /\ TotalAllocatedBytes = 0
  /\ TotalFreedBytes = 0
  /\ AllocationCount = 0
  /\ FreeCount = 0
  /\ FailedAllocationCount = 0
  /\ BudgetExceededCount = 0
  /\ pc = [a \in Allocations |-> "idle"]
  /\ size = [a \in Allocations |-> 0]
  /\ current = [a \in Allocations |-> 0]
  /\ peak = [a \in Allocations |-> 0]

ResetState ==
  /\ CurrentBytes' = 0
  /\ PeakBytes' = 0
  /\ TotalAllocatedBytes' = 0
  /\ TotalFreedBytes' = 0
  /\ AllocationCount' = 0
  /\ FreeCount' = 0
  /\ FailedAllocationCount' = 0
  /\ BudgetExceededCount' = 0

\* InitializeMemorySystem: the registry is initialised and the setting
\* EnableRuntimePoolBudgets applied, before any allocation.
Initialize(enforce) ==
  /\ ~Initialized
  /\ Initialized' = TRUE
  /\ EnforceBudgets' = enforce
  /\ ResetState
  /\ UNCHANGED <<pc, size, current, peak>>

\* ShutdownMemorySystem, which the owner calls when no allocation call is
\* being executed.  Allocations still live are leaks: their blocks are gone
\* and the caller may not free them.
Shutdown ==
  /\ Initialized
  /\ Quiescent
  /\ Initialized' = FALSE
  /\ EnforceBudgets' = TRUE
  /\ ResetState
  /\ pc' = [a \in Allocations |-> "idle"]
  /\ size' = [a \in Allocations |-> 0]
  /\ UNCHANGED <<current, peak>>

-----------------------------------------------------------------------------
(* TryReserve.                                                             *)

\* The call and its first load.  A size of 0 is refused at once.
TryReserve(a, s) ==
  /\ Initialized
  /\ AllocationCount + FailedAllocationCount < MaxCalls
  /\ IF s = 0
     THEN /\ Step(a, "idle", "failed")
          /\ UNCHANGED <<size, current>>
     ELSE /\ Step(a, "idle", "reserve")
          /\ size' = [size EXCEPT ![a] = s]
          /\ current' = [current EXCEPT ![a] = CurrentBytes]
  /\ UNCHANGED <<flags, counters, peak>>

next(a) == current[a] + size[a]

\* `next < current` in Uint64.
Overflows(a) == Uint(next(a)) < current[a]

ExceedsBudget(a) == EnforceBudgets /\ Budget # 0 /\ Uint(next(a)) > Budget

GiveUp(a) ==
  /\ Step(a, "reserve", "failed")
  /\ size' = [size EXCEPT ![a] = 0]
  /\ current' = [current EXCEPT ![a] = 0]

ReserveOverflows(a) ==
  /\ Overflows(a)
  /\ GiveUp(a)
  /\ UNCHANGED <<flags, counters, peak>>

\* Mutation of ReserveExceedsBudget: the early return skips RecordFailure.
ExceedsBudgetUnrecorded(a) ==
  /\ ~Overflows(a)
  /\ ExceedsBudget(a)
  /\ Step(a, "reserve", "idle")
  /\ size' = [size EXCEPT ![a] = 0]
  /\ current' = [current EXCEPT ![a] = 0]
  /\ BudgetExceededCount' = Uint(BudgetExceededCount + 1)
  /\ UNCHANGED <<flags, CurrentBytes, PeakBytes, TotalAllocatedBytes,
                 TotalFreedBytes, AllocationCount, FreeCount,
                 FailedAllocationCount, peak>>

ReserveExceedsBudget(a) ==
  /\ ~Overflows(a)
  /\ ExceedsBudget(a)
  /\ GiveUp(a)
  /\ BudgetExceededCount' = Uint(BudgetExceededCount + 1)
  /\ UNCHANGED <<flags, CurrentBytes, PeakBytes, TotalAllocatedBytes,
                 TotalFreedBytes, AllocationCount, FreeCount,
                 FailedAllocationCount, peak>>

\* Mutation of ReserveExchange: the sum is stored without comparing.
ReserveStore(a) ==
  /\ ~Overflows(a)
  /\ ~ExceedsBudget(a)
  /\ CurrentBytes' = Uint(next(a))
  /\ Step(a, "reserve", "reserved")
  /\ current' = [current EXCEPT ![a] = 0]
  /\ UNCHANGED <<flags, PeakBytes, TotalAllocatedBytes, TotalFreedBytes,
                 AllocationCount, FreeCount, FailedAllocationCount,
                 BudgetExceededCount, size, peak>>

\* Mutation of ReserveExchange: the budget is checked, then FetchAdd reserves.
ReserveFetchAdd(a) ==
  /\ ~Overflows(a)
  /\ ~ExceedsBudget(a)
  /\ CurrentBytes' = Uint(CurrentBytes + size[a])
  /\ Step(a, "reserve", "reserved")
  /\ current' = [current EXCEPT ![a] = 0]
  /\ UNCHANGED <<flags, PeakBytes, TotalAllocatedBytes, TotalFreedBytes,
                 AllocationCount, FreeCount, FailedAllocationCount,
                 BudgetExceededCount, size, peak>>

\* Mutation of ReserveExchange: a failed exchange leaves `current` stale.
ReserveExchangeStale(a) ==
  /\ pc[a] = "reserve"
  /\ ~Overflows(a)
  /\ ~ExceedsBudget(a)
  /\ CurrentBytes = current[a]
  /\ CurrentBytes' = Uint(next(a))
  /\ Step(a, "reserve", "reserved")
  /\ current' = [current EXCEPT ![a] = 0]
  /\ UNCHANGED <<flags, PeakBytes, TotalAllocatedBytes, TotalFreedBytes,
                 AllocationCount, FreeCount, FailedAllocationCount,
                 BudgetExceededCount, size, peak>>

\* A failed CompareExchange refreshes `current`, and the loop repeats.
ReserveExchange(a) ==
  /\ pc[a] = "reserve"
  /\ ~Overflows(a)
  /\ ~ExceedsBudget(a)
  /\ IF CurrentBytes = current[a]
     THEN /\ CurrentBytes' = Uint(next(a))
          /\ Step(a, "reserve", "reserved")
          /\ current' = [current EXCEPT ![a] = 0]
     ELSE /\ current' = [current EXCEPT ![a] = CurrentBytes]
          /\ UNCHANGED <<CurrentBytes, pc>>
  /\ UNCHANGED <<flags, PeakBytes, TotalAllocatedBytes, TotalFreedBytes,
                 AllocationCount, FreeCount, FailedAllocationCount,
                 BudgetExceededCount, size, peak>>

-----------------------------------------------------------------------------
(* The rest of Allocate.                                                   *)

\* The small block allocator or the backend returned null.
CancelReservation(a) ==
  /\ Step(a, "reserved", "failed")
  /\ CurrentBytes' = Uint(CurrentBytes - size[a])
  /\ size' = [size EXCEPT ![a] = 0]
  /\ UNCHANGED <<flags, PeakBytes, TotalAllocatedBytes, TotalFreedBytes,
                 AllocationCount, FreeCount, FailedAllocationCount,
                 BudgetExceededCount, current, peak>>

RecordFailure(a) ==
  /\ Step(a, "failed", "idle")
  /\ FailedAllocationCount' = Uint(FailedAllocationCount + 1)
  /\ UNCHANGED <<flags, CurrentBytes, PeakBytes, TotalAllocatedBytes,
                 TotalFreedBytes, AllocationCount, FreeCount,
                 BudgetExceededCount, size, current, peak>>

\* It returned a block.
BackendAllocate(a) ==
  /\ Step(a, "reserved", "allocated")
  /\ UNCHANGED <<flags, counters, size, current, peak>>

CommitLoad(a) ==
  /\ Step(a, "allocated", "commitBytes")
  /\ current' = [current EXCEPT ![a] = CurrentBytes]
  /\ UNCHANGED <<flags, counters, size, peak>>

CommitBytes(a) ==
  /\ Step(a, "commitBytes", "commitCount")
  /\ TotalAllocatedBytes' = Uint(TotalAllocatedBytes + size[a])
  /\ UNCHANGED <<flags, CurrentBytes, PeakBytes, TotalFreedBytes,
                 AllocationCount, FreeCount, FailedAllocationCount,
                 BudgetExceededCount, size, current, peak>>

CommitCount(a) ==
  /\ Step(a, "commitCount", "peakLoad")
  /\ AllocationCount' = Uint(AllocationCount + 1)
  /\ UNCHANGED <<flags, CurrentBytes, PeakBytes, TotalAllocatedBytes,
                 TotalFreedBytes, FreeCount, FailedAllocationCount,
                 BudgetExceededCount, size, current, peak>>

PeakLoad(a) ==
  /\ Step(a, "peakLoad", "peakLoop")
  /\ peak' = [peak EXCEPT ![a] = PeakBytes]
  /\ UNCHANGED <<flags, counters, size, current>>

Return(a) ==
  /\ Step(a, "peakLoop", "live")
  /\ current' = [current EXCEPT ![a] = 0]
  /\ peak' = [peak EXCEPT ![a] = 0]

\* Mutation of PeakExchange: one attempt, without the loop.
PeakExchangeOnce(a) ==
  /\ current[a] > peak[a]
  /\ PeakBytes' = IF PeakBytes = peak[a] THEN current[a] ELSE PeakBytes
  /\ Return(a)
  /\ UNCHANGED <<flags, CurrentBytes, TotalAllocatedBytes, TotalFreedBytes,
                 AllocationCount, FreeCount, FailedAllocationCount,
                 BudgetExceededCount, size>>

\* Mutation of PeakExchange: the peak is stored without comparing.
PeakStore(a) ==
  /\ current[a] > peak[a]
  /\ PeakBytes' = current[a]
  /\ Return(a)
  /\ UNCHANGED <<flags, CurrentBytes, TotalAllocatedBytes, TotalFreedBytes,
                 AllocationCount, FreeCount, FailedAllocationCount,
                 BudgetExceededCount, size>>

PeakExchange(a) ==
  /\ pc[a] = "peakLoop"
  /\ current[a] > peak[a]
  /\ IF PeakBytes = peak[a]
     THEN /\ PeakBytes' = current[a]
          /\ Return(a)
     ELSE /\ peak' = [peak EXCEPT ![a] = PeakBytes]
          /\ UNCHANGED <<PeakBytes, pc, current>>
  /\ UNCHANGED <<flags, CurrentBytes, TotalAllocatedBytes, TotalFreedBytes,
                 AllocationCount, FreeCount, FailedAllocationCount,
                 BudgetExceededCount, size>>

PeakCovered(a) ==
  /\ current[a] <= peak[a]
  /\ Return(a)
  /\ UNCHANGED <<flags, counters, size>>

-----------------------------------------------------------------------------
(* Free: the block goes back to the backend, then RecordFree.              *)

BackendFree(a) ==
  /\ Step(a, "live", "released")
  /\ UNCHANGED <<flags, counters, size, current, peak>>

FreeCurrent(a) ==
  /\ Step(a, "released", "freeBytes")
  /\ CurrentBytes' = Uint(CurrentBytes - size[a])
  /\ UNCHANGED <<flags, PeakBytes, TotalAllocatedBytes, TotalFreedBytes,
                 AllocationCount, FreeCount, FailedAllocationCount,
                 BudgetExceededCount, size, current, peak>>

FreeBytes(a) ==
  /\ Step(a, "freeBytes", "freeCount")
  /\ TotalFreedBytes' = Uint(TotalFreedBytes + size[a])
  /\ size' = [size EXCEPT ![a] = 0]
  /\ UNCHANGED <<flags, CurrentBytes, PeakBytes, TotalAllocatedBytes,
                 AllocationCount, FreeCount, FailedAllocationCount,
                 BudgetExceededCount, current, peak>>

RecordFreeCount(a) ==
  /\ Step(a, "freeCount", "idle")
  /\ FreeCount' = Uint(FreeCount + 1)
  /\ UNCHANGED <<flags, CurrentBytes, PeakBytes, TotalAllocatedBytes,
                 TotalFreedBytes, AllocationCount, FailedAllocationCount,
                 BudgetExceededCount, size, current, peak>>

-----------------------------------------------------------------------------
\* The steps of a call that is being executed.
CallStep(a) ==
  \/ ReserveOverflows(a)
  \/ ReserveExceedsBudget(a)
  \/ ReserveExchange(a)
  \/ CancelReservation(a)
  \/ RecordFailure(a)
  \/ BackendAllocate(a)
  \/ CommitLoad(a)
  \/ CommitBytes(a)
  \/ CommitCount(a)
  \/ PeakLoad(a)
  \/ PeakExchange(a)
  \/ PeakCovered(a)
  \/ FreeCurrent(a)
  \/ FreeBytes(a)
  \/ RecordFreeCount(a)

Next ==
  \/ \E enforce \in BOOLEAN : Initialize(enforce)
  \/ Shutdown
  \/ \E a \in Allocations :
       \/ \E s \in Sizes : TryReserve(a, s)
       \/ BackendFree(a)
       \/ CallStep(a)

Spec == Init /\ [][Next]_vars

\* A thread inside a call is eventually scheduled; nobody has to call.
FairSpec == Spec /\ \A a \in Allocations : WF_vars(CallStep(a))

-----------------------------------------------------------------------------
(* Properties.                                                             *)

\* Every variable ranges over what its C++ type allows.
TypeOK ==
  /\ Initialized \in BOOLEAN
  /\ EnforceBudgets \in BOOLEAN
  /\ CurrentBytes \in Word
  /\ PeakBytes \in Word
  /\ TotalAllocatedBytes \in Word
  /\ TotalFreedBytes \in Word
  /\ AllocationCount \in Word
  /\ FreeCount \in Word
  /\ FailedAllocationCount \in Word
  /\ BudgetExceededCount \in Word
  /\ pc \in [Allocations -> {"idle", "reserve", "reserved", "allocated", "failed",
                             "live", "released", "freeBytes", "freeCount"}
                              \cup Committing]
  /\ size \in [Allocations -> Word]
  /\ current \in [Allocations -> Word]
  /\ peak \in [Allocations -> Word]

\* CurrentBytes is exactly the bytes of the allocations that hold a
\* reservation: no interleaving of TryReserve's compare-exchange loop,
\* CancelReservation and RecordFree loses or doubles an update, and no
\* subtraction wraps below zero.
CurrentMatchesHolding == CurrentBytes = SumOver(size, Holding)

\* However many TryReserve calls race, together they never push the pool past
\* its budget while budgets are enforced.
WithinBudget == EnforceBudgets /\ Budget # 0 => CurrentBytes <= Budget

\* PeakBytes covers the blocks callers own at any moment, although
\* CommitAllocation reads CurrentBytes some time after TryReserve changed it.
PeakCoversLive == SumOver(size, Live) <= PeakBytes

\* Between calls the totals tell the truth: allocated less freed is what is
\* live, in bytes and in blocks, even after a total wrapped; a refused
\* allocation was counted as failed.
QuiescentTotals ==
  Quiescent =>
    /\ Uint(TotalAllocatedBytes - TotalFreedBytes) = CurrentBytes
    /\ Uint(AllocationCount - FreeCount) = Cardinality(Live)
    /\ BudgetExceededCount <= FailedAllocationCount

\* UpdatePeak's loop never lowers the peak: a smaller late value does not
\* overwrite a larger one.
PeakNeverFalls == [][Initialized' => PeakBytes' >= PeakBytes]_vars

\* A call that has begun returns: with finitely many competing calls the
\* compare-exchange loops of TryReserve and UpdatePeak end.
CallsReturn == \A a \in Allocations : pc[a] \notin {"idle", "live"} ~> pc[a] \in {"idle", "live"}

-----------------------------------------------------------------------------
(* The inductive invariant behind the safety properties.                   *)

\* Outside Initialize .. Shutdown nothing is in flight.
IdleWhenDown == ~Initialized => PeakBytes = 0 /\ \A a \in Allocations : pc[a] = "idle"

\* UpdatePeak's local is never ahead of the peak it was loaded from.
LocalPeakIsPast == \A a \in Allocations : pc[a] = "peakLoop" => peak[a] <= PeakBytes

\* Take the live allocations and any of those being committed: the peak
\* already covers them, or one of the latter carries a value that does.
CommitsCoverPeak ==
  \A Q \in SUBSET Loaded :
    \/ SumOver(size, Live \cup Q) <= PeakBytes
    \/ \E q \in Q : SumOver(size, Live \cup Q) <= current[q]

\* The conjunction that Next preserves.
IInv ==
  /\ TypeOK
  /\ IdleWhenDown
  /\ CurrentMatchesHolding
  /\ WithinBudget
  /\ LocalPeakIsPast
  /\ CommitsCoverPeak
=============================================================================
