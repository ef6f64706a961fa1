---------------------- MODULE MemoryAllocationTracker ----------------------
(***************************************************************************)
(* The hash table of live allocations                                      *)
(* (modules/BlueMemory/src/Tracking/MemoryAllocationTracker.cpp): open     *)
(* addressing, linear probing, tombstones, no rehashing.  Every operation  *)
(* runs under s_Tracker.Lock and is one step; the leak report takes the    *)
(* lock again for each record and is one step per record.                  *)
(***************************************************************************)
EXTENDS Integers, FiniteSets

CONSTANTS
  Pointers, \* addresses the backend can hand out
  Records,  \* what is recorded of an allocation besides its pointer
  None,     \* the cleared record, and "no record"
  Null,     \* the pointer of a cleared record
  Capacity, \* the normalised capacity of the table
  Home,     \* Home[p] is HashPointer(p) & mask
  Modulus   \* 2^64: the width of the statistics

ASSUME CapacityAssumption == Capacity \in Nat \ {0}
ASSUME HomeAssumption == Home \in [Pointers -> 0..(Capacity - 1)]
ASSUME NoneAssumption == None \notin Records /\ Null \notin Pointers
ASSUME WidthAssumption == Modulus \in Nat \ {0}

VARIABLES
  Enabled,             \* s_Tracker.Enabled; the slots exist when it is set
  State,               \* the State of each slot
  Pointer,             \* its Record.Pointer
  Record,              \* the rest of its Record
  ActiveCount,
  TotalTrackedCount,
  TotalUntrackedCount,
  FailedTrackCount,
  UnknownFreeCount,
  answer,              \* the call last returned from, its pointer and result
  nextIndex,           \* the local of ReportLive...; Capacity + 1 outside it
  reported,            \* the pointers this report has logged
  settled              \* history: tracked since before the report began

table == <<Enabled, State, Pointer, Record, ActiveCount>>
stats == <<TotalTrackedCount, TotalUntrackedCount, FailedTrackCount,
           UnknownFreeCount>>
report == <<nextIndex, reported, settled>>
vars == <<table, stats, answer, report>>

Slots == 0..(Capacity - 1)
Occupied == {i \in Slots : State[i] = "Occupied"}
InTable == {Pointer[i] : i \in Occupied}
Uint(n) == n % Modulus

-----------------------------------------------------------------------------
(* Probing.                                                                *)

\* The slot of p's k-th probe, ( index + 1 ) & mask repeated k times.
Probe(p, k) == IF Home[p] + k < Capacity THEN Home[p] + k ELSE Home[p] + k - Capacity

Matches(p, k) == State[Probe(p, k)] = "Occupied" /\ Pointer[Probe(p, k)] = p

\* FindSlot: probe k is the first that matches, and no empty slot stops the
\* search before it.
Hits(p, k) ==
  /\ Matches(p, k)
  /\ \A j \in 0..(k - 1) : State[Probe(p, j)] # "Empty" /\ ~Matches(p, j)

Found(p) == \E k \in Slots : Hits(p, k)

\* FindInsertionSlot when no probe hits: the first tombstone before an empty
\* slot, else that empty slot: in either case the first that is not occupied.
Vacant(p, k) ==
  /\ State[Probe(p, k)] # "Occupied"
  /\ \A j \in 0..(k - 1) : State[Probe(p, j)] = "Occupied"

-----------------------------------------------------------------------------
EmptyTable ==
  /\ State' = [i \in Slots |-> "Empty"]
  /\ Pointer' = [i \in Slots |-> Null]
  /\ Record' = [i \in Slots |-> None]
  /\ ActiveCount' = 0
  /\ TotalTrackedCount' = 0
  /\ TotalUntrackedCount' = 0
  /\ FailedTrackCount' = 0
  /\ UnknownFreeCount' = 0

Init ==
  /\ Enabled = FALSE
  /\ State = [i \in Slots |-> "Empty"]
  /\ Pointer = [i \in Slots |-> Null]
  /\ Record = [i \in Slots |-> None]
  /\ ActiveCount = 0
  /\ TotalTrackedCount = 0
  /\ TotalUntrackedCount = 0
  /\ FailedTrackCount = 0
  /\ UnknownFreeCount = 0
  /\ answer = <<"none">>
  /\ nextIndex = Capacity + 1
  /\ reported = {}
  /\ settled = {}

\* InitializeMemoryAllocationTracker shuts the old table down first; it takes
\* no lock for the new one, so it runs while nobody else calls.
Initialize ==
  /\ nextIndex = Capacity + 1
  /\ Enabled' = TRUE
  /\ EmptyTable
  /\ answer' = <<"none">>
  /\ settled' = {}
  /\ UNCHANGED <<nextIndex, reported>>

Shutdown ==
  /\ Enabled' = FALSE
  /\ EmptyTable
  /\ answer' = <<"none">>
  /\ settled' = {}
  /\ UNCHANGED <<nextIndex, reported>>

\* Writing the record of p into slot i.
Write(i, p, r) ==
  /\ State' = [State EXCEPT ![i] = "Occupied"]
  /\ Pointer' = [Pointer EXCEPT ![i] = p]
  /\ Record' = [Record EXCEPT ![i] = r]
  /\ TotalTrackedCount' = Uint(TotalTrackedCount + 1)
  /\ answer' = <<"Track", p, r>>
  /\ UNCHANGED <<Enabled, TotalUntrackedCount, FailedTrackCount,
                 UnknownFreeCount, report>>

\* TrackMemoryAllocation of a pointer that is already in the table.
TrackAgain(p, r) ==
  /\ Enabled
  /\ \E k \in Slots : Hits(p, k) /\ Write(Probe(p, k), p, r)
  /\ UNCHANGED ActiveCount

\* Mutation of TrackNew: the table is not searched for the pointer first.
TrackUnsearched(p, r) ==
  /\ Enabled
  /\ \E k \in Slots : Vacant(p, k) /\ Write(Probe(p, k), p, r)
  /\ ActiveCount' = ActiveCount + 1

TrackNew(p, r) ==
  /\ Enabled
  /\ ~Found(p)
  /\ \E k \in Slots : Vacant(p, k) /\ Write(Probe(p, k), p, r)
  /\ ActiveCount' = ActiveCount + 1

TrackFails(p) ==
  /\ Enabled
  /\ ~Found(p)
  /\ \A k \in Slots : State[Probe(p, k)] = "Occupied"
  /\ FailedTrackCount' = Uint(FailedTrackCount + 1)
  /\ answer' = <<"Track", p, None>>
  /\ UNCHANGED <<table, TotalTrackedCount, TotalUntrackedCount,
                 UnknownFreeCount, report>>

TryFind(p) ==
  /\ answer' = <<"TryFind", p,
                 IF Enabled /\ Found(p)
                 THEN Record[Probe(p, CHOOSE k \in Slots : Hits(p, k))]
                 ELSE None>>
  /\ UNCHANGED <<table, stats, report>>

\* Mutation of ClearSlot: the slot is emptied instead of buried.
ClearSlotEmpty(i) ==
  /\ State' = [State EXCEPT ![i] = "Empty"]
  /\ Pointer' = [Pointer EXCEPT ![i] = Null]
  /\ Record' = [Record EXCEPT ![i] = None]

ClearSlot(i) ==
  /\ State' = [State EXCEPT ![i] = "Tombstone"]
  /\ Pointer' = [Pointer EXCEPT ![i] = Null]
  /\ Record' = [Record EXCEPT ![i] = None]

\* UntrackMemoryAllocation.
Untrack(p) ==
  /\ Enabled
  /\ \E k \in Slots :
       /\ Hits(p, k)
       /\ ClearSlot(Probe(p, k))
       /\ answer' = <<"Untrack", p, Record[Probe(p, k)]>>
  /\ ActiveCount' = ActiveCount - 1
  /\ TotalUntrackedCount' = Uint(TotalUntrackedCount + 1)
  /\ settled' = settled \ {p}
  /\ UNCHANGED <<Enabled, TotalTrackedCount, FailedTrackCount,
                 UnknownFreeCount, nextIndex, reported>>

UntrackUnknown(p) ==
  /\ ~(Enabled /\ Found(p))
  /\ UnknownFreeCount' = IF Enabled THEN Uint(UnknownFreeCount + 1) ELSE UnknownFreeCount
  /\ answer' = <<"Untrack", p, None>>
  /\ UNCHANGED <<table, TotalTrackedCount, TotalUntrackedCount,
                 FailedTrackCount, report>>

-----------------------------------------------------------------------------
(* ReportLiveTrackedMemoryAllocations.                                     *)

Reporting == nextIndex <= Capacity

ReportBegin ==
  /\ ~Reporting
  /\ nextIndex' = 0
  /\ reported' = {}
  /\ settled' = InTable
  /\ UNCHANGED <<table, stats, answer>>

\* Mutation of ReportRecord: the scan resumes one slot too far.
ReportRecordSkipping ==
  /\ Reporting
  /\ Enabled
  /\ \E i \in nextIndex..(Capacity - 1) :
       /\ State[i] = "Occupied"
       /\ \A j \in nextIndex..(i - 1) : State[j] # "Occupied"
       /\ reported' = reported \cup {Pointer[i]}
       /\ nextIndex' = IF i + 2 > Capacity THEN Capacity ELSE i + 2
  /\ UNCHANGED <<table, stats, answer, settled>>

ReportRecord ==
  /\ Reporting
  /\ Enabled
  /\ \E i \in nextIndex..(Capacity - 1) :
       /\ State[i] = "Occupied"
       /\ \A j \in nextIndex..(i - 1) : State[j] # "Occupied"
       /\ reported' = reported \cup {Pointer[i]}
       /\ nextIndex' = i + 1
  /\ UNCHANGED <<table, stats, answer, settled>>

ReportEnd ==
  /\ Reporting
  /\ ~Enabled \/ \A i \in nextIndex..(Capacity - 1) : State[i] # "Occupied"
  /\ nextIndex' = Capacity + 1
  /\ UNCHANGED <<table, stats, answer, reported, settled>>

-----------------------------------------------------------------------------
Next ==
  \/ Initialize
  \/ Shutdown
  \/ \E p \in Pointers, r \in Records : TrackAgain(p, r) \/ TrackNew(p, r)
  \/ \E p \in Pointers : TrackFails(p) \/ TryFind(p) \/ Untrack(p) \/ UntrackUnknown(p)
  \/ ReportBegin
  \/ ReportRecord
  \/ ReportEnd

Spec == Init /\ [][Next]_vars

-----------------------------------------------------------------------------
(* Properties.                                                             *)

\* The slots and statistics have the types of the code.
TypeOK ==
  /\ Enabled \in BOOLEAN
  /\ State \in [Slots -> {"Empty", "Occupied", "Tombstone"}]
  /\ Pointer \in [Slots -> Pointers \cup {Null}]
  /\ Record \in [Slots -> Records \cup {None}]
  /\ ActiveCount \in 0..Capacity
  /\ TotalTrackedCount \in 0..(Modulus - 1)
  /\ TotalUntrackedCount \in 0..(Modulus - 1)
  /\ FailedTrackCount \in 0..(Modulus - 1)
  /\ UnknownFreeCount \in 0..(Modulus - 1)
  /\ nextIndex \in 0..(Capacity + 1)
  /\ reported \subseteq Pointers
  /\ settled \subseteq Pointers

\* An occupied slot holds a whole record, any other a cleared one.
RecordsWhole ==
  \A i \in Slots :
    IF i \in Occupied
    THEN Pointer[i] \in Pointers /\ Record[i] \in Records
    ELSE Pointer[i] = Null /\ Record[i] = None

\* No pointer is in two slots, so that one Untrack removes it.
OneSlotPerPointer == \A i, j \in Occupied : Pointer[i] = Pointer[j] => i = j

\* No empty slot lies between a pointer's home and its slot, whatever was
\* removed in between: the search that stops at empty slots finds it.
EveryPointerReachable ==
  \A i \in Occupied :
    \E k \in Slots :
      /\ Probe(Pointer[i], k) = i
      /\ \A j \in 0..(k - 1) : State[Probe(Pointer[i], j)] # "Empty"

\* ActiveCount is the number of records in the table.
ActiveCountExact == ActiveCount = Cardinality(Occupied)

\* The leak report, although it lets go of the lock after each record, has
\* logged every allocation that stayed live while it ran.
ReportComplete ==
  \A i \in Occupied : Pointer[i] \in settled /\ i < nextIndex => Pointer[i] \in reported

\* The inductive invariant: the above, an empty table while tracking is off,
\* and what the report waits for is still there.
IInv ==
  /\ TypeOK
  /\ RecordsWhole
  /\ OneSlotPerPointer
  /\ EveryPointerReachable
  /\ ActiveCountExact
  /\ ReportComplete
  /\ Enabled \/ Occupied = {}
  /\ settled \subseteq InTable

-----------------------------------------------------------------------------
(* The abstraction.                                                        *)

\* The record the table holds of each pointer.
Live ==
  [p \in Pointers |->
     IF p \in InTable
     THEN Record[CHOOSE i \in Occupied : Pointer[i] = p]
     ELSE None]

Map == INSTANCE AllocationMap WITH enabled <- Enabled, live <- Live

\* To its callers the table is an allocation map of Capacity records: answers
\* are those of the map, and it turns a pointer away only when it is full.
ImplementsMap == Map!Spec
=============================================================================
