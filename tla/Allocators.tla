------------------------------ MODULE Allocators ------------------------------
(***************************************************************************)
(* Calls of HeapAllocator (modules/BlueMemory/src/HeapAllocator.cpp) and   *)
(* of the default allocator (AllocatorProxy.h behind                       *)
(* RuntimeAllocationInvoker.cpp), by several threads, over what they share:*)
(* the allocation tracker, as the AllocationMap it implements, the bytes   *)
(* each pool is charged, the memory metrics, and the memory behind it all. *)
(*                                                                         *)
(* A call is the list of the steps it has still to make, each of them a    *)
(* call of another component.                                              *)
(***************************************************************************)
EXTENDS Integers, Sequences, Sums

CONSTANTS
  Threads,
  Pools,
  Budget,      \* the budget of each pool
  Sizes,       \* byte sizes of requests
  ClassOf,     \* the small block class of a size; 0 if it is too large
  Addresses,   \* the blocks of memory there are,
  Area,        \* ... and the class each belongs to; 0 is the memory backend
  Capacity,    \* of the tracker
  TrackFlags,  \* whether requests are to be tracked: a subset of BOOLEAN
  Reallocates, \* callers reallocate
  KeepsPool,   \* they do so in the pool the block is in
  None,        \* no record, no owner
  Null         \* no address

ASSUME ThreadsAssumption == IsFiniteSet(Threads)
ASSUME AddressesAssumption == IsFiniteSet(Addresses) /\ Null \notin Addresses
ASSUME SizesAssumption == Sizes \subseteq Nat \ {0}
ASSUME BudgetAssumption == Budget \in Nat
ASSUME ClassAssumption == ClassOf \in [Sizes -> Nat] /\ Area \in [Addresses -> Nat]
ASSUME FlagsAssumption ==
  TrackFlags \subseteq BOOLEAN /\ Reallocates \in BOOLEAN /\ KeepsPool \in BOOLEAN

VARIABLES
  CurrentBytes, \* of each pool
  NetBytes,     \* TotalAllocatedBytes - TotalFreedBytes of each pool
  CurrentLiveBytes, \* of the memory metrics
  live,         \* the records of the tracker
  block,        \* the byte size of the block at each address, 0 where none is
  owned,        \* what the caller who has the block knows of it
  call          \* the call each thread is in

pools == <<CurrentBytes, NetBytes>>
vars == <<pools, CurrentLiveBytes, live, block, owned, call>>

Records == [size : Sizes, pool : Pools]
Requests == [api : {"Heap", "Default"}, pool : Pools, tracked : TrackFlags]

ASSUME NoneAssumption == None \notin Records \cup Requests

Tracker == INSTANCE AllocationMap WITH
  Pointers <- Addresses, enabled <- TRUE, answer <- <<>>

-----------------------------------------------------------------------------
(* Calls.                                                                  *)

\* The steps of each operation, in the order of the code.
AllocateSteps(api) ==
  IF api = "Heap"
  THEN <<"Reserve", "Obtain", "Account", "Track", "Measure", "Return">>
  ELSE <<"Reserve", "Obtain", "Track", "Account", "Return">>

ReallocateSteps ==
  <<"Look", "Reserve", "Obtain", "Account", "Forget", "Track", "Measure", "Return">>

FreeSteps(api) ==
  IF api = "Heap"
  THEN <<"Untrack", "Release", "Account", "Measure", "Return">>
  ELSE <<"Find", "Untrack", "Release", "Account", "Return">>

\* Between calls.
NoCall == [todo |-> <<>>]

Idle(t) == call[t] = NoCall
At(t, step) == ~Idle(t) /\ Head(call[t].todo) = step

\* The call of t goes on, with what it has learnt.
Proceed(t, c) == call' = [call EXCEPT ![t] = [c EXCEPT !.todo = Tail(@)]]

\* The call of t returns null; a block that was to be reallocated stays.
ReturnNull(t) ==
  /\ call' = [call EXCEPT ![t] = NoCall]
  /\ owned' = IF call[t].old_pointer = Null THEN owned
              ELSE [owned EXCEPT ![call[t].old_pointer] = call[t].mine]

\* The call of a request: the old pointer and size, the new pointer and size.
CallOf(steps, r, p, old, size) ==
  [todo |-> steps, api |-> r.api, pool |-> r.pool, tracked |-> r.tracked,
   old_pointer |-> p, old_size |-> old, pointer |-> Null, size |-> size,
   found |-> FALSE, mine |-> IF p = Null THEN None ELSE owned[p]]

Begin(t, c) ==
  /\ Idle(t)
  /\ call' = [call EXCEPT ![t] = c]
  /\ owned' = IF c.old_pointer = Null THEN owned
              ELSE [owned EXCEPT ![c.old_pointer] = None]
  /\ UNCHANGED <<pools, CurrentLiveBytes, live, block>>

\* A valid request; others return at once.
Allocate(t) ==
  \E r \in Requests, size \in Sizes :
    Begin(t, CallOf(AllocateSteps(r.api), r, Null, 0, size))

\* The caller hands over a block it owns, and what it knows of it.
Owned == {p \in Addresses : owned[p] # None}

Free(t) ==
  \E p \in Owned :
    Begin(t, CallOf(FreeSteps(owned[p].api), owned[p], p, block[p], 0))

\* Of the heap allocator only; of a block, or of null.
Reallocate(t) ==
  /\ Reallocates
  /\ \E r \in Requests, size \in Sizes \cup {0} :
       /\ r.api = "Heap"
       /\ \/ Begin(t, CallOf(ReallocateSteps, r, Null, 0, size))
          \/ \E p \in Owned :
               /\ owned[p].api = "Heap"
               /\ KeepsPool => r.pool = owned[p].pool
               /\ Begin(t, CallOf(ReallocateSteps, r, p, block[p], size))

-----------------------------------------------------------------------------
(* The steps.                                                              *)

\* HeapAllocator::Reallocate takes the old size from the record; a new size of
\* zero makes it a Free of the record.
Look(t) ==
  /\ At(t, "Look")
  /\ LET c == call[t]
         found == c.old_pointer # Null /\ live[c.old_pointer] # None
         r == live[c.old_pointer]
         known == IF found THEN [c EXCEPT !.found = TRUE, !.old_size = r.size] ELSE c
     IN  IF c.size # 0
         THEN Proceed(t, known) /\ UNCHANGED owned
         ELSE IF c.old_pointer = Null
         THEN ReturnNull(t)
         ELSE /\ call' = [call EXCEPT ![t] =
                   [known EXCEPT !.todo = FreeSteps("Heap"),
                                 !.pool = IF found THEN r.pool ELSE @]]
              /\ UNCHANGED owned
  /\ UNCHANGED <<pools, CurrentLiveBytes, live, block>>

\* RuntimeAllocationInvoker::Free prefers the record to what the caller says.
Find(t) ==
  /\ At(t, "Find")
  /\ LET c == call[t]
         r == live[c.old_pointer]
     IN  Proceed(t, IF r = None THEN c
                    ELSE [c EXCEPT !.old_size = r.size, !.pool = r.pool])
  /\ UNCHANGED <<pools, CurrentLiveBytes, live, block, owned>>

Growth(c) == IF c.size > c.old_size THEN c.size - c.old_size ELSE 0
Shrinkage(c) == IF c.size < c.old_size THEN c.old_size - c.size ELSE 0

\* TryReserve, for what a call needs on top of what it has.
Reserve(t) ==
  /\ At(t, "Reserve")
  /\ LET c == call[t] IN
       /\ Growth(c) > 0 => CurrentBytes[c.pool] + Growth(c) <= Budget
       /\ CurrentBytes' = [CurrentBytes EXCEPT ![c.pool] = @ + Growth(c)]
       /\ Proceed(t, c)
  /\ UNCHANGED <<NetBytes, CurrentLiveBytes, live, block, owned>>

ReserveFails(t) ==
  /\ At(t, "Reserve")
  /\ Growth(call[t]) > 0
  /\ CurrentBytes[call[t].pool] + Growth(call[t]) > Budget
  /\ ReturnNull(t)
  /\ UNCHANGED <<pools, CurrentLiveBytes, live, block>>

\* The class of small blocks a call of the default allocator is routed to.
Route(api, size) == IF api = "Default" THEN ClassOf[size] ELSE 0

\* AllocateSmallBlock or the backend hand out a block.  MemoryBackend::Reallocate
\* may move it or leave it in place; when it moves, the old one is free at once.
Obtain(t) ==
  /\ At(t, "Obtain")
  /\ LET c == call[t] IN
       \E p \in Addresses :
         /\ \/ p = c.old_pointer
            \/ block[p] = 0 /\ Area[p] = Route(c.api, c.size)
         /\ block' = [a \in Addresses |-> IF a = p THEN c.size
                                          ELSE IF a = c.old_pointer THEN 0
                                          ELSE block[a]]
         /\ Proceed(t, [c EXCEPT !.pointer = p])
  /\ UNCHANGED <<pools, CurrentLiveBytes, live, owned>>

ObtainFails(t) ==
  /\ At(t, "Obtain")
  /\ call' = [call EXCEPT ![t].todo = <<"Cancel">>]
  /\ UNCHANGED <<pools, CurrentLiveBytes, live, block, owned>>

\* Mutation of Cancel: the reservation stays.
CancelNothing(t) ==
  /\ At(t, "Cancel")
  /\ ReturnNull(t)
  /\ UNCHANGED <<pools, CurrentLiveBytes, live, block>>

\* CancelReservation.
Cancel(t) ==
  /\ At(t, "Cancel")
  /\ CurrentBytes' = [CurrentBytes EXCEPT ![call[t].pool] = @ - Growth(call[t])]
  /\ ReturnNull(t)
  /\ UNCHANGED <<NetBytes, CurrentLiveBytes, live, block>>

\* CommitAllocation of what was reserved, or RecordFree of what was given up.
Account(t) ==
  /\ At(t, "Account")
  /\ LET c == call[t] IN
       /\ CurrentBytes' = [CurrentBytes EXCEPT ![c.pool] = @ - Shrinkage(c)]
       /\ NetBytes' = [NetBytes EXCEPT ![c.pool] = @ + Growth(c) - Shrinkage(c)]
       /\ Proceed(t, c)
  /\ UNCHANGED <<CurrentLiveBytes, live, block, owned>>

\* Mutation of Track: a record that is there already stays.
TrackFirst(t) ==
  /\ At(t, "Track")
  /\ LET c == call[t]
         r == [size |-> c.size, pool |-> c.pool]
     IN  /\ IF c.tracked /\ c.pointer \notin Tracker!Tracked /\ ~Tracker!Full
            THEN Tracker!Enter(c.pointer, r)
            ELSE UNCHANGED live
         /\ Proceed(t, c)
  /\ UNCHANGED <<pools, CurrentLiveBytes, block, owned>>

\* TrackMemoryAllocation: unless the table is full of other pointers.
Track(t) ==
  /\ At(t, "Track")
  /\ LET c == call[t]
         p == c.pointer
         r == [size |-> c.size, pool |-> c.pool]
     IN  /\ IF c.tracked /\ (p \in Tracker!Tracked \/ ~Tracker!Full)
            THEN Tracker!Enter(p, r)
            ELSE UNCHANGED live
         /\ Proceed(t, c)
  /\ UNCHANGED <<pools, CurrentLiveBytes, block, owned>>

\* Mutation of Forget: the record of a block that moved stays.
ForgetNothing(t) ==
  /\ At(t, "Forget")
  /\ Proceed(t, call[t])
  /\ UNCHANGED <<pools, CurrentLiveBytes, live, block, owned>>

\* Reallocate untracks the old pointer if it found a record of it at first.
Forget(t) ==
  /\ At(t, "Forget")
  /\ IF call[t].found THEN Tracker!Remove(call[t].old_pointer) ELSE UNCHANGED live
  /\ Proceed(t, call[t])
  /\ UNCHANGED <<pools, CurrentLiveBytes, block, owned>>

\* UntrackMemoryAllocation in Free: the record, if there is one, says how large
\* the block is and, to the heap allocator, in which pool.
Untrack(t) ==
  /\ At(t, "Untrack")
  /\ LET c == call[t]
         r == live[c.old_pointer]
     IN  /\ Tracker!Remove(c.old_pointer)
         /\ Proceed(t, IF r = None THEN c
                       ELSE [c EXCEPT !.old_size = r.size,
                                      !.pool = IF c.api = "Heap" THEN r.pool ELSE @])
  /\ UNCHANGED <<pools, CurrentLiveBytes, block, owned>>

\* FreeSmallBlock or MemoryBackend::Free.
Release(t) ==
  /\ At(t, "Release")
  /\ block' = [block EXCEPT ![call[t].old_pointer] = 0]
  /\ Proceed(t, call[t])
  /\ UNCHANGED <<pools, CurrentLiveBytes, live, owned>>

\* RecordMemoryAllocation, RecordMemoryReallocation, RecordMemoryFree.
Measure(t) ==
  /\ At(t, "Measure")
  /\ CurrentLiveBytes' = CurrentLiveBytes + Growth(call[t]) - Shrinkage(call[t])
  /\ Proceed(t, call[t])
  /\ UNCHANGED <<pools, live, block, owned>>

Return(t) ==
  /\ At(t, "Return")
  /\ LET c == call[t] IN
       /\ call' = [call EXCEPT ![t] = NoCall]
       /\ owned' = IF c.pointer = Null THEN owned
                   ELSE [owned EXCEPT ![c.pointer] =
                           [api |-> c.api, pool |-> c.pool, tracked |-> c.tracked]]
  /\ UNCHANGED <<pools, CurrentLiveBytes, live, block>>

-----------------------------------------------------------------------------
Init ==
  /\ CurrentBytes = [p \in Pools |-> 0]
  /\ NetBytes = [p \in Pools |-> 0]
  /\ CurrentLiveBytes = 0
  /\ live = [a \in Addresses |-> None]
  /\ block = [a \in Addresses |-> 0]
  /\ owned = [a \in Addresses |-> None]
  /\ call = [t \in Threads |-> NoCall]

Next ==
  \E t \in Threads :
    \/ Allocate(t)
    \/ Reallocate(t)
    \/ Free(t)
    \/ Look(t)
    \/ Find(t)
    \/ Reserve(t)
    \/ ReserveFails(t)
    \/ Obtain(t)
    \/ ObtainFails(t)
    \/ Cancel(t)
    \/ Account(t)
    \/ Track(t)
    \/ Forget(t)
    \/ Untrack(t)
    \/ Release(t)
    \/ Measure(t)
    \/ Return(t)

Spec == Init /\ [][Next]_vars

-----------------------------------------------------------------------------
(* Properties.                                                             *)

Quiescent == \A t \in Threads : Idle(t)

\* The bytes at the addresses of S.
Bytes(S) == SumOver(block, S)

\* Types; no charge falls below zero, which as a Uint64 would wrap, and none
\* passes the budget.
TypeOK ==
  /\ CurrentBytes \in [Pools -> 0..Budget]
  /\ NetBytes \in [Pools -> Int]
  /\ CurrentLiveBytes \in Int
  /\ live \in [Addresses -> Records \cup {None}]
  /\ block \in [Addresses -> Sizes \cup {0}]
  /\ owned \in [Addresses -> Requests \cup {None}]

\* When no call runs, each pool is charged the bytes of the blocks callers
\* have in it, its totals agree, and the metrics count those of the heap
\* allocator, whatever was reallocated, refused or tracked.
BooksExact ==
  Quiescent =>
    /\ \A p \in Pools :
         LET inPool == {a \in Owned : owned[a].pool = p} IN
         CurrentBytes[p] = Bytes(inPool) /\ NetBytes[p] = Bytes(inPool)
    /\ CurrentLiveBytes = Bytes({a \in Owned : owned[a].api = "Heap"})

\* A record of a block that its owner may free says what the owner would.
RecordsTruthful ==
  \A a \in Owned :
    live[a] # None => live[a].size = block[a] /\ live[a].pool = owned[a].pool

\* When no call runs, the tracker holds records of blocks that exist only, so
\* that the leak report names no other.
NoStaleRecords == Quiescent => Tracker!Tracked \subseteq Owned

\* A block is given back to the allocator, and the size class, that it is from.
BackWhereItCameFrom ==
  \A t \in Threads :
    At(t, "Release") => Route(call[t].api, call[t].old_size) = Area[call[t].old_pointer]

\* While the tracker has room, an allocation that asked to be tracked is, from
\* the return of its call to that of its Free.
OwnedTracked ==
  \A a \in Owned : owned[a].tracked /\ Capacity >= Cardinality(Addresses) => live[a] # None
=============================================================================
