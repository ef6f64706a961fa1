-------------------- MODULE MemoryAllocationTrackerProofs --------------------
(***************************************************************************)
(* Proofs about the allocation tracker for a table of any capacity, any    *)
(* hash function and any pointers: the table stays searchable whatever is  *)
(* removed from it, and it implements the allocation map.                  *)
(***************************************************************************)
EXTENDS MemoryAllocationTracker, FiniteSetTheorems, TLAPS

-----------------------------------------------------------------------------
(* Probing.                                                                *)

\* The probes of a pointer stay in the table.
LEMMA ProbeInTable ==
  ASSUME NEW p \in Pointers, NEW k \in Slots
  PROVE  Probe(p, k) \in Slots
BY CapacityAssumption, HomeAssumption DEF Probe, Slots

\* No two of the first Capacity probes of a pointer visit the same slot.
LEMMA ProbesDiffer ==
  ASSUME NEW p \in Pointers, NEW j \in Slots, NEW k \in Slots,
         Probe(p, j) = Probe(p, k)
  PROVE  j = k
BY CapacityAssumption, HomeAssumption DEF Probe, Slots

\* The first Capacity probes of a pointer visit every slot.
LEMMA ProbesCover ==
  ASSUME NEW p \in Pointers, NEW i \in Slots
  PROVE  \E k \in Slots : Probe(p, k) = i
<1> DEFINE k == IF i >= Home[p] THEN i - Home[p] ELSE i - Home[p] + Capacity
<1>1. Home[p] \in Slots
  BY HomeAssumption DEF Slots
<1>2. k \in Slots /\ Probe(p, k) = i
  BY <1>1, CapacityAssumption DEF Probe, Slots
<1> QED BY <1>2

\* The probes before one in the table are in the table.
LEMMA EarlierProbes ==
  ASSUME NEW k \in Slots, NEW j \in 0..(k - 1)
  PROVE  j \in Slots /\ j # k
BY CapacityAssumption DEF Slots

-----------------------------------------------------------------------------
(* The search finds exactly what is in the table.                          *)

\* A probe that hits is at the pointer's slot.
LEMMA HitIsSlot ==
  ASSUME NEW p \in Pointers, NEW k \in Slots, Hits(p, k)
  PROVE  Probe(p, k) \in Occupied /\ Pointer[Probe(p, k)] = p
BY ProbeInTable DEF Hits, Matches, Occupied

\* A pointer in the table is found.
LEMMA InTableFound ==
  ASSUME OneSlotPerPointer, EveryPointerReachable, NEW p \in Pointers,
         p \in InTable
  PROVE  Found(p)
<1>1. PICK i \in Occupied : Pointer[i] = p
  BY DEF InTable
<1>2. PICK k \in Slots : /\ Probe(p, k) = i
                         /\ \A j \in 0..(k - 1) : State[Probe(p, j)] # "Empty"
  BY <1>1 DEF EveryPointerReachable
<1>3. Matches(p, k)
  BY <1>1, <1>2 DEF Matches, Occupied
<1>4. ASSUME NEW j \in 0..(k - 1), Matches(p, j) PROVE FALSE
  <2>1. j \in Slots /\ j # k
    BY EarlierProbes
  <2>2. Probe(p, j) \in Occupied /\ Pointer[Probe(p, j)] = p
    BY <1>4, <2>1, ProbeInTable DEF Matches, Occupied
  <2>3. Probe(p, j) = Probe(p, k)
    BY <1>1, <1>2, <2>2 DEF OneSlotPerPointer
  <2> QED BY <2>1, <2>3, ProbesDiffer
<1> QED BY <1>2, <1>3, <1>4 DEF Found, Hits

\* A pointer found is in the table.
LEMMA FoundInTable ==
  ASSUME NEW p \in Pointers, Found(p)
  PROVE  p \in InTable
BY HitIsSlot DEF Found, InTable

-----------------------------------------------------------------------------
(* Counting slots.                                                         *)

\* Any set of slots is finite and has at most Capacity elements.
LEMMA SlotsFinite ==
  ASSUME NEW S \in SUBSET Slots
  PROVE  IsFiniteSet(S) /\ Cardinality(S) \in 0..Capacity
<1>1. IsFiniteSet(Slots) /\ Cardinality(Slots) = Capacity
  BY FS_Interval, CapacityAssumption DEF Slots
<1>2. IsFiniteSet(S) /\ Cardinality(S) <= Capacity
  BY <1>1, FS_Subset
<1>3. Cardinality(S) \in Nat
  BY <1>2, FS_CardinalityType
<1> QED BY <1>2, <1>3, CapacityAssumption

\* A statistic incremented stays in range.
LEMMA UintInRange ==
  ASSUME NEW x \in 0..(Modulus - 1)
  PROVE  Uint(x + 1) \in 0..(Modulus - 1)
BY WidthAssumption DEF Uint

-----------------------------------------------------------------------------
(* Every step preserves the invariant.                                     *)

\* The initial table is empty.
LEMMA InitInvariant == Init => IInv
<1> SUFFICES ASSUME Init PROVE IInv
  OBVIOUS
<1>1. Occupied = {} /\ InTable = {}
  BY DEF Init, Occupied, InTable
<1>2. Cardinality({}) = 0
  BY FS_EmptySet
<1>3. TypeOK
  <2>1. /\ State \in [Slots -> {"Empty", "Occupied", "Tombstone"}]
        /\ Pointer \in [Slots -> Pointers \cup {Null}]
        /\ Record \in [Slots -> Records \cup {None}]
    BY DEF Init
  <2>2. /\ 0 \in 0..Capacity /\ 0 \in 0..(Modulus - 1)
        /\ Capacity + 1 \in 0..(Capacity + 1)
    BY CapacityAssumption, WidthAssumption
  <2>3. Enabled \in BOOLEAN /\ reported \subseteq Pointers /\ settled \subseteq Pointers
    BY DEF Init
  <2> QED BY <2>1, <2>2, <2>3 DEF Init, TypeOK
<1>4. RecordsWhole
  BY <1>1 DEF Init, RecordsWhole
<1>5. OneSlotPerPointer /\ ActiveCountExact
  BY <1>1, <1>2 DEF Init, OneSlotPerPointer, ActiveCountExact
<1>6. EveryPointerReachable
  BY <1>1, Zenon DEF EveryPointerReachable
<1>7. ReportComplete
  BY <1>1, Zenon DEF ReportComplete
<1>8. settled \subseteq InTable
  BY Zenon DEF Init
<1> QED
  BY <1>1, <1>3, <1>4, <1>5, <1>6, <1>7, <1>8, Zenon DEF IInv

\* Initialize and Shutdown leave an empty table.
LEMMA EmptyStep ==
  ASSUME IInv, Initialize \/ Shutdown
  PROVE  IInv'
<1> USE DEF Initialize, Shutdown, EmptyTable
<1>1. Occupied' = {} /\ InTable' = {}
  BY DEF Occupied, InTable
<1>2. Cardinality({}) = 0
  BY FS_EmptySet
<1>3. TypeOK'
  <2>1. /\ State' \in [Slots -> {"Empty", "Occupied", "Tombstone"}]
        /\ Pointer' \in [Slots -> Pointers \cup {Null}]
        /\ Record' \in [Slots -> Records \cup {None}]
    OBVIOUS
  <2>2. /\ 0 \in 0..Capacity /\ 0 \in 0..(Modulus - 1)
        /\ Capacity + 1 \in 0..(Capacity + 1)
    BY CapacityAssumption, WidthAssumption
  <2>3. Enabled' \in BOOLEAN /\ reported' \subseteq Pointers /\ settled' \subseteq Pointers
    BY DEF IInv, TypeOK
  <2> QED BY <2>1, <2>2, <2>3 DEF IInv, TypeOK
<1>4. RecordsWhole'
  BY <1>1 DEF RecordsWhole
<1>5. OneSlotPerPointer' /\ ActiveCountExact'
  BY <1>1, <1>2 DEF OneSlotPerPointer, ActiveCountExact
<1>6. EveryPointerReachable'
  BY <1>1, Zenon DEF EveryPointerReachable
<1>7. ReportComplete'
  BY <1>1, Zenon DEF ReportComplete
<1>8. settled' \subseteq InTable'
  BY Zenon
<1> QED
  BY <1>1, <1>3, <1>4, <1>5, <1>6, <1>7, <1>8, Zenon DEF IInv

\* Steps that leave the slots alone keep what is said of them alone.
LEMMA TableUnchanged ==
  ASSUME IInv, UNCHANGED table
  PROVE  /\ Occupied' = Occupied /\ InTable' = InTable
         /\ RecordsWhole' /\ OneSlotPerPointer' /\ EveryPointerReachable'
         /\ ActiveCountExact'
         /\ Enabled' \/ Occupied' = {}
<1>1. Occupied' = Occupied /\ InTable' = InTable
  BY DEF table, Occupied, InTable
<1>2. RecordsWhole' /\ OneSlotPerPointer' /\ ActiveCountExact'
  BY <1>1 DEF IInv, table, RecordsWhole, OneSlotPerPointer, ActiveCountExact
<1>3. EveryPointerReachable'
  BY <1>1 DEF IInv, table, EveryPointerReachable, Probe
<1> QED BY <1>1, <1>2, <1>3 DEF IInv, table

\* Steps that touch neither slots nor report preserve the invariant.
LEMMA QuietStep ==
  ASSUME IInv, UNCHANGED <<table, report>>,
         TotalTrackedCount' = TotalTrackedCount,
         TotalUntrackedCount' = TotalUntrackedCount,
         FailedTrackCount' \in 0..(Modulus - 1),
         UnknownFreeCount' \in 0..(Modulus - 1)
  PROVE  IInv'
<1>1. TypeOK'
  BY DEF IInv, TypeOK, table, report
<1>2. ReportComplete'
  BY TableUnchanged DEF IInv, table, report, ReportComplete
<1> QED BY <1>1, <1>2, TableUnchanged DEF IInv, report

\* Overwriting the record of a pointer that is in the table.
LEMMA TrackAgainStep ==
  ASSUME IInv, NEW p \in Pointers, NEW r \in Records, TrackAgain(p, r)
  PROVE  IInv'
<1>1. PICK k \in Slots : Hits(p, k) /\ Write(Probe(p, k), p, r)
  BY DEF TrackAgain
<1> DEFINE i == Probe(p, k)
<1>2. i \in Occupied /\ Pointer[i] = p
  BY <1>1, HitIsSlot
<1>3. State' = State /\ Pointer' = Pointer /\ ActiveCount' = ActiveCount
  BY <1>1, <1>2 DEF Write, TrackAgain, Occupied, IInv, TypeOK
<1>4. Occupied' = Occupied /\ InTable' = InTable
  BY <1>3 DEF Occupied, InTable
<1>5. TypeOK'
  BY <1>1, <1>3, UintInRange DEF Write, report, IInv, TypeOK
<1>6. RecordsWhole'
  BY <1>1, <1>2, <1>3, <1>4 DEF Write, IInv, TypeOK, RecordsWhole
<1>7. OneSlotPerPointer' /\ ActiveCountExact'
  BY <1>3, <1>4 DEF IInv, OneSlotPerPointer, ActiveCountExact
<1>8. EveryPointerReachable'
  BY <1>3, <1>4 DEF IInv, EveryPointerReachable, Probe
<1>9. ReportComplete'
  BY <1>1, <1>3, <1>4 DEF IInv, Write, report, ReportComplete
<1> QED
  BY <1>1, <1>4, <1>5, <1>6, <1>7, <1>8, <1>9 DEF IInv, Write, report

\* Tracking a pointer that is not in the table.
LEMMA TrackNewStep ==
  ASSUME IInv, NEW p \in Pointers, NEW r \in Records, TrackNew(p, r)
  PROVE  IInv'
<1>1. PICK k \in Slots : Vacant(p, k) /\ Write(Probe(p, k), p, r)
  BY DEF TrackNew
<1> DEFINE i == Probe(p, k)
<1>2. i \in Slots /\ i \notin Occupied
  BY <1>1, ProbeInTable DEF Vacant, Occupied
<1>3. p \notin InTable
  BY InTableFound DEF TrackNew, IInv
<1>4. Occupied' = Occupied \cup {i}
  BY <1>1, <1>2 DEF Write, Occupied, IInv, TypeOK
<1>5. Pointer'[i] = p /\ \A j \in Occupied : Pointer'[j] = Pointer[j] /\ j # i
  BY <1>1, <1>2 DEF Write, Occupied, IInv, TypeOK
<1>6. InTable' = InTable \cup {p}
  BY <1>4, <1>5 DEF InTable
<1>7. ActiveCountExact'
  <2>1. IsFiniteSet(Occupied)
    BY SlotsFinite DEF Occupied
  <2>2. Cardinality(Occupied \cup {i}) = Cardinality(Occupied) + 1
    BY <1>2, <2>1, FS_AddElement
  <2> QED BY <1>4, <2>2 DEF TrackNew, IInv, ActiveCountExact
<1>8. TypeOK'
  <2>1. Occupied' \in SUBSET Slots
    BY <1>2, <1>4 DEF Occupied
  <2>2. ActiveCount' \in 0..Capacity
    BY <1>7, <2>1, SlotsFinite DEF ActiveCountExact
  <2> QED BY <1>1, <1>2, <2>2, UintInRange DEF Write, report, IInv, TypeOK
<1>9. RecordsWhole'
  BY <1>1, <1>2, <1>4 DEF Write, IInv, TypeOK, RecordsWhole
<1>10. OneSlotPerPointer'
  BY <1>3, <1>4, <1>5 DEF IInv, OneSlotPerPointer, InTable
<1>11. EveryPointerReachable'
  <2>1. \A s \in Slots : State[s] # "Empty" => State'[s] # "Empty"
    BY <1>1, <1>2 DEF Write, IInv, TypeOK
  <2>2. SUFFICES ASSUME NEW s \in Occupied'
                 PROVE  \E j \in Slots :
                          /\ Probe(Pointer'[s], j) = s
                          /\ \A n \in 0..(j - 1) :
                               State'[Probe(Pointer'[s], n)] # "Empty"
    BY DEF EveryPointerReachable, Probe
  <2>3. CASE s = i
    <3>1. \A n \in 0..(k - 1) : State[Probe(p, n)] # "Empty"
      BY <1>1 DEF Vacant
    <3>2. \A n \in 0..(k - 1) : Probe(p, n) \in Slots
      BY EarlierProbes, ProbeInTable
    <3> QED BY <1>5, <2>1, <2>3, <3>1, <3>2
  <2>4. CASE s # i
    <3>1. s \in Occupied /\ Pointer'[s] = Pointer[s]
      BY <1>4, <1>5, <2>4
    <3>2. Pointer[s] \in Pointers
      BY <3>1 DEF IInv, RecordsWhole, Occupied
    <3>3. PICK j \in Slots :
            /\ Probe(Pointer[s], j) = s
            /\ \A n \in 0..(j - 1) : State[Probe(Pointer[s], n)] # "Empty"
      BY <3>1 DEF IInv, EveryPointerReachable
    <3>4. \A n \in 0..(j - 1) : Probe(Pointer[s], n) \in Slots
      BY <3>2, EarlierProbes, ProbeInTable
    <3> QED BY <2>1, <3>1, <3>3, <3>4
  <2> QED BY <2>3, <2>4
<1>12. settled' = settled /\ settled \subseteq InTable
  BY <1>1 DEF Write, report, IInv
<1>13. ReportComplete'
  BY <1>1, <1>3, <1>4, <1>5, <1>12 DEF IInv, Write, report, ReportComplete
<1> QED
  BY <1>1, <1>6, <1>7, <1>8, <1>9, <1>10, <1>11, <1>12, <1>13
  DEF IInv, TrackNew, Write

\* Removing a pointer: its slot becomes a tombstone, so that no search that
\* went past it stops there.
LEMMA UntrackStep ==
  ASSUME IInv, NEW p \in Pointers, Untrack(p)
  PROVE  IInv'
<1>1. PICK k \in Slots : Hits(p, k) /\ ClearSlot(Probe(p, k))
  BY DEF Untrack
<1> DEFINE i == Probe(p, k)
<1>2. i \in Slots /\ i \in Occupied /\ Pointer[i] = p
  BY <1>1, HitIsSlot DEF Occupied
<1>3. Occupied' = Occupied \ {i}
  BY <1>1, <1>2 DEF ClearSlot, Occupied, IInv, TypeOK
<1>4. \A j \in Occupied' : Pointer'[j] = Pointer[j] /\ Pointer[j] # p /\ j \in Occupied
  <2>1. \A j \in Occupied : Pointer[j] = p => j = i
    BY <1>2 DEF IInv, OneSlotPerPointer
  <2> QED BY <1>1, <1>3, <2>1 DEF ClearSlot, Occupied, IInv, TypeOK
<1>5. InTable' = InTable \ {p}
  BY <1>2, <1>3, <1>4 DEF InTable
<1>6. ActiveCountExact'
  <2>1. IsFiniteSet(Occupied)
    BY SlotsFinite DEF Occupied
  <2>2. Cardinality(Occupied \ {i}) = Cardinality(Occupied) - 1
    BY <1>2, <2>1, FS_RemoveElement
  <2> QED BY <1>3, <2>2 DEF Untrack, IInv, ActiveCountExact
<1>7. TypeOK'
  <2>1. Occupied' \in SUBSET Slots
    BY <1>3 DEF Occupied
  <2>2. ActiveCount' \in 0..Capacity
    BY <1>6, <2>1, SlotsFinite DEF ActiveCountExact
  <2> QED BY <1>1, <1>2, <2>2, UintInRange DEF Untrack, ClearSlot, IInv, TypeOK
<1>8. RecordsWhole'
  BY <1>1, <1>2, <1>3 DEF ClearSlot, IInv, TypeOK, RecordsWhole
<1>9. OneSlotPerPointer'
  BY <1>4 DEF IInv, OneSlotPerPointer
<1>10. EveryPointerReachable'
  <2>1. \A s \in Slots : State[s] # "Empty" => State'[s] # "Empty"
    BY <1>1, <1>2 DEF ClearSlot, IInv, TypeOK
  <2>2. SUFFICES ASSUME NEW s \in Occupied'
                 PROVE  \E j \in Slots :
                          /\ Probe(Pointer'[s], j) = s
                          /\ \A n \in 0..(j - 1) :
                               State'[Probe(Pointer'[s], n)] # "Empty"
    BY DEF EveryPointerReachable, Probe
  <2>3. Pointer[s] \in Pointers /\ s \in Occupied /\ Pointer'[s] = Pointer[s]
    BY <1>4 DEF IInv, RecordsWhole, Occupied
  <2>4. PICK j \in Slots :
          /\ Probe(Pointer[s], j) = s
          /\ \A n \in 0..(j - 1) : State[Probe(Pointer[s], n)] # "Empty"
    BY <2>3 DEF IInv, EveryPointerReachable
  <2>5. \A n \in 0..(j - 1) : Probe(Pointer[s], n) \in Slots
    BY <2>3, EarlierProbes, ProbeInTable
  <2> QED BY <2>1, <2>3, <2>4, <2>5
<1>11. ReportComplete'
  BY <1>4 DEF IInv, Untrack, ReportComplete
<1> QED
  BY <1>2, <1>5, <1>6, <1>7, <1>8, <1>9, <1>10, <1>11 DEF IInv, Untrack

\* The leak report only reads the table.
LEMMA ReportStep ==
  ASSUME IInv, ReportBegin \/ ReportRecord \/ ReportEnd
  PROVE  IInv'
<1>1. UNCHANGED table /\ UNCHANGED stats
  BY DEF ReportBegin, ReportRecord, ReportEnd
<1>2. /\ Occupied' = Occupied /\ InTable' = InTable /\ Pointer' = Pointer
      /\ RecordsWhole' /\ OneSlotPerPointer' /\ EveryPointerReachable'
      /\ ActiveCountExact' /\ (Enabled' \/ Occupied' = {})
  BY <1>1, TableUnchanged DEF table
<1>3. \A i \in Occupied : i \in Slots /\ State[i] = "Occupied" /\ Pointer[i] \in Pointers
  BY DEF Occupied, IInv, RecordsWhole
<1>4. InTable \subseteq Pointers
  BY <1>3 DEF InTable
<1>5. CASE ReportBegin
  <2>1. TypeOK'
    BY <1>1, <1>4, <1>5, CapacityAssumption DEF ReportBegin, table, stats, IInv, TypeOK
  <2>2. ReportComplete'
    BY <1>2, <1>3, <1>5 DEF ReportBegin, ReportComplete, Slots
  <2> QED BY <1>2, <1>5, <2>1, <2>2 DEF ReportBegin, IInv
<1>6. CASE ReportRecord
  <2>1. PICK i \in nextIndex..(Capacity - 1) :
          /\ State[i] = "Occupied"
          /\ \A j \in nextIndex..(i - 1) : State[j] # "Occupied"
          /\ reported' = reported \cup {Pointer[i]}
          /\ nextIndex' = i + 1
    BY <1>6 DEF ReportRecord
  <2>2. i \in Occupied /\ nextIndex \in 0..(Capacity + 1)
    BY <2>1, CapacityAssumption DEF Occupied, Slots, IInv, TypeOK
  <2>3. settled' = settled
    BY <1>6 DEF ReportRecord
  <2>4. TypeOK'
    BY <1>1, <1>3, <2>1, <2>2, <2>3, CapacityAssumption DEF table, stats, IInv, TypeOK
  <2>5. ReportComplete'
    <3>1. SUFFICES ASSUME NEW s \in Occupied, Pointer[s] \in settled, s < i + 1
                   PROVE  Pointer[s] \in reported'
      BY <1>2, <2>1, <2>3 DEF ReportComplete
    <3>2. s \in 0..(Capacity - 1) /\ State[s] = "Occupied"
      BY <1>3 DEF Slots
    <3>3. CASE s < nextIndex
      BY <2>1, <3>1, <3>3 DEF IInv, ReportComplete
    <3>4. CASE ~(s < nextIndex)
      <4>1. ~(s \in nextIndex..(i - 1))
        BY <2>1, <3>2
      <4>2. s = i
        BY <2>1, <2>2, <3>1, <3>2, <3>4, <4>1, CapacityAssumption
      <4> QED BY <2>1, <4>2
    <3> QED BY <3>3, <3>4
  <2> QED BY <1>2, <2>3, <2>4, <2>5 DEF IInv
<1>7. CASE ReportEnd
  <2>1. nextIndex' = Capacity + 1 /\ reported' = reported /\ settled' = settled
    BY <1>7 DEF ReportEnd
  <2>2. TypeOK'
    BY <1>1, <2>1, CapacityAssumption DEF table, stats, IInv, TypeOK
  <2>3. ReportComplete'
    <3>1. SUFFICES ASSUME NEW s \in Occupied, Pointer[s] \in settled
                   PROVE  Pointer[s] \in reported
      BY <1>2, <2>1 DEF ReportComplete
    <3>2. s \in 0..(Capacity - 1) /\ State[s] = "Occupied"
      BY <1>3 DEF Slots
    <3>3. ~(s \in nextIndex..(Capacity - 1))
      BY <1>7, <3>1, <3>2 DEF ReportEnd, IInv
    <3>4. s < nextIndex
      BY <3>2, <3>3, CapacityAssumption DEF IInv, TypeOK
    <3> QED BY <3>1, <3>4 DEF IInv, ReportComplete
  <2> QED BY <1>2, <2>1, <2>2, <2>3 DEF IInv
<1> QED BY <1>5, <1>6, <1>7

\* Every step preserves the invariant.
LEMMA InvariantStep ==
  ASSUME IInv, [Next]_vars
  PROVE  IInv'
<1>1. CASE UNCHANGED vars
  BY <1>1, QuietStep DEF vars, stats, table, report, IInv, TypeOK
<1>2. CASE Initialize \/ Shutdown
  BY <1>2, EmptyStep
<1>3. ASSUME NEW p \in Pointers, NEW r \in Records, TrackAgain(p, r) \/ TrackNew(p, r)
      PROVE IInv'
  BY <1>3, TrackAgainStep, TrackNewStep
<1>4. ASSUME NEW p \in Pointers, TrackFails(p) PROVE IInv'
  BY <1>4, UintInRange, QuietStep DEF TrackFails, IInv, TypeOK
<1>5. ASSUME NEW p \in Pointers, TryFind(p) PROVE IInv'
  BY <1>5, QuietStep DEF TryFind, stats, IInv, TypeOK
<1>6. ASSUME NEW p \in Pointers, Untrack(p) PROVE IInv'
  BY <1>6, UntrackStep
<1>7. ASSUME NEW p \in Pointers, UntrackUnknown(p) PROVE IInv'
  BY <1>7, UintInRange, QuietStep DEF UntrackUnknown, IInv, TypeOK
<1>8. CASE ReportBegin \/ ReportRecord \/ ReportEnd
  BY <1>8, ReportStep
<1> QED
  BY <1>1, <1>2, <1>3, <1>4, <1>5, <1>6, <1>7, <1>8 DEF Next

\* The table is well formed in every reachable state: types, whole records,
\* one slot per pointer, every pointer reachable, the count, the report.
THEOREM InvariantHolds == Spec => []IInv
<1>1. Init => IInv
  BY InitInvariant
<1>2. IInv /\ [Next]_vars => IInv'
  BY InvariantStep
<1> QED BY <1>1, <1>2, PTL DEF Spec

\* Slots, count and statistics keep their types; no count goes negative.
THEOREM TypeCorrect == Spec => []TypeOK
<1>1. IInv => TypeOK
  BY DEF IInv
<1> QED BY <1>1, InvariantHolds, PTL

\* No pointer ever has two records.
THEOREM PointersUnique == Spec => []OneSlotPerPointer
<1>1. IInv => OneSlotPerPointer
  BY DEF IInv
<1> QED BY <1>1, InvariantHolds, PTL

\* Whatever is removed, the search for a tracked pointer reaches it.
THEOREM SearchComplete == Spec => []EveryPointerReachable
<1>1. IInv => EveryPointerReachable
  BY DEF IInv
<1> QED BY <1>1, InvariantHolds, PTL

\* ActiveCount never drifts from the number of records.
THEOREM CountExact == Spec => []ActiveCountExact
<1>1. IInv => ActiveCountExact
  BY DEF IInv
<1> QED BY <1>1, InvariantHolds, PTL

\* The leak report misses no allocation that stayed live while it ran.
THEOREM ReportMissesNothing == Spec => []ReportComplete
<1>1. IInv => ReportComplete
  BY DEF IInv
<1> QED BY <1>1, InvariantHolds, PTL

-----------------------------------------------------------------------------
(* The table implements the allocation map.                                *)

\* The record of a pointer in the table is that of its slot.
LEMMA LiveOfSlot ==
  ASSUME OneSlotPerPointer, NEW i \in Occupied, Pointer[i] \in Pointers
  PROVE  Live[Pointer[i]] = Record[i]
<1>1. Pointer[i] \in InTable
  BY DEF InTable
<1>2. (CHOOSE j \in Occupied : Pointer[j] = Pointer[i]) = i
  BY DEF OneSlotPerPointer
<1> QED BY <1>1, <1>2 DEF Live

\* A pointer that is not in the table has no record.
LEMMA LiveOfNone ==
  ASSUME NEW p \in Pointers, p \notin InTable
  PROVE  Live[p] = None
BY DEF Live

\* A record is never None, so the map tracks what the table holds.
LEMMA TrackedInTable ==
  ASSUME IInv
  PROVE  Map!Tracked = InTable
<1>1. ASSUME NEW p \in Pointers, p \in InTable PROVE Live[p] # None
  <2>1. PICK i \in Occupied : Pointer[i] = p
    BY <1>1 DEF InTable
  <2>2. Live[p] = Record[i]
    BY <2>1, LiveOfSlot DEF IInv
  <2>3. Record[i] \in Records
    BY DEF IInv, RecordsWhole, Occupied
  <2> QED BY <2>2, <2>3, NoneAssumption
<1>2. InTable \subseteq Pointers
  BY DEF InTable, IInv, RecordsWhole, Occupied
<1> QED BY <1>1, <1>2, LiveOfNone DEF Map!Tracked

\* A step that leaves the slots alone leaves the map alone.
LEMMA LiveUnchanged ==
  ASSUME UNCHANGED table
  PROVE  Live' = Live
BY DEF table, Live, InTable, Occupied

\* An empty table is an empty map.
LEMMA LiveEmpty ==
  ASSUME InTable = {}
  PROVE  Live = [p \in Pointers |-> None]
BY DEF Live

\* A function that agrees everywhere with an updated one is that one.
LEMMA UpdateAt ==
  ASSUME NEW S, NEW f, NEW g, NEW p \in S, NEW v,
         f = [x \in S |-> f[x]], g = [x \in S |-> g[x]],
         \A x \in S : g[x] = [f EXCEPT ![p] = v][x]
  PROVE  g = [f EXCEPT ![p] = v]
OBVIOUS

\* The initial states are those of the map.
LEMMA InitRefines == Init => Map!Init
<1> SUFFICES ASSUME Init PROVE Map!Init
  OBVIOUS
<1>1. InTable = {}
  BY DEF Init, Occupied, InTable
<1> QED BY <1>1, LiveEmpty DEF Init, Map!Init

\* Initialize and Shutdown are the switch of the map.
LEMMA EmptyRefines ==
  ASSUME Initialize \/ Shutdown
  PROVE  Map!Switch(Enabled')
<1>1. Occupied' = {} /\ InTable' = {}
  BY DEF Initialize, Shutdown, EmptyTable, Occupied, InTable
<1>2. Live' = [p \in Pointers |-> None]
  BY <1>1 DEF Live
<1> QED BY <1>2 DEF Initialize, Shutdown, Map!Switch

\* Writing a record of p is the map's Track, given that the slots of the
\* other pointers stay as they are.
LEMMA WriteRefines ==
  ASSUME IInv, IInv', NEW p \in Pointers, NEW r \in Records, NEW i \in Slots,
         Enabled, Write(i, p, r),
         Occupied' = Occupied \cup {i},
         i \in Occupied => Pointer[i] = p
  PROVE  Map!Track(p, r)
<1>1. /\ Pointer'[i] = p /\ Record'[i] = r
      /\ \A j \in Occupied \ {i} : Pointer'[j] = Pointer[j] /\ Record'[j] = Record[j]
  BY DEF Write, IInv, TypeOK, Occupied
<1>2. InTable' = InTable \cup {p}
  BY <1>1 DEF InTable
<1>3. \A j, l \in Occupied' : Pointer'[j] = Pointer'[l] => j = l
  BY DEF IInv, OneSlotPerPointer
<1>4. ASSUME NEW q \in Pointers PROVE Live'[q] = [Live EXCEPT ![p] = r][q]
  <2>1. CASE q = p
    <3>1. (CHOOSE j \in Occupied' : Pointer'[j] = p) = i
      BY <1>1, <1>3
    <3>2. Live'[p] = r
      BY <1>1, <1>2, <3>1 DEF Live
    <3> QED BY <2>1, <3>2 DEF Live
  <2>2. CASE q # p /\ q \in InTable
    <3>1. PICK j \in Occupied : Pointer[j] = q
      BY <2>2 DEF InTable
    <3>2. j # i /\ Pointer'[j] = q /\ Record'[j] = Record[j]
      BY <1>1, <2>2, <3>1
    <3>3. (CHOOSE l \in Occupied' : Pointer'[l] = q) = j
      BY <1>3, <3>2
    <3>4. Live'[q] = Record[j]
      BY <1>2, <2>2, <3>2, <3>3 DEF Live
    <3>5. Live[q] = Record[j]
      BY <3>1, LiveOfSlot DEF IInv
    <3> QED BY <2>2, <3>4, <3>5 DEF Live
  <2>3. CASE q # p /\ q \notin InTable
    <3>1. Live'[q] = None
      BY <1>2, <2>3 DEF Live
    <3> QED BY <2>3, <3>1 DEF Live
  <2> QED BY <2>1, <2>2, <2>3
<1>5. Live' = [Live EXCEPT ![p] = r]
  <2>1. Live' = [q \in Pointers |-> Live'[q]]
    BY DEF Live
  <2>2. Live = [q \in Pointers |-> Live[q]]
    BY DEF Live
  <2> QED BY <1>4, <2>1, <2>2, UpdateAt
<1> QED BY <1>5 DEF Write, Map!Track, Map!Enter

\* Tracking is the map's Track.
LEMMA TrackRefines ==
  ASSUME IInv, IInv', NEW p \in Pointers, NEW r \in Records,
         TrackAgain(p, r) \/ TrackNew(p, r)
  PROVE  Map!Track(p, r)
<1>1. CASE TrackAgain(p, r)
  <2>1. PICK k \in Slots : Hits(p, k) /\ Write(Probe(p, k), p, r)
    BY <1>1 DEF TrackAgain
  <2>2. Probe(p, k) \in Occupied /\ Pointer[Probe(p, k)] = p
    BY <2>1, HitIsSlot
  <2>3. Occupied' = Occupied \cup {Probe(p, k)} /\ Probe(p, k) \in Slots
    BY <2>1, <2>2 DEF Write, Occupied, IInv, TypeOK
  <2> QED BY <1>1, <2>1, <2>2, <2>3, WriteRefines DEF TrackAgain
<1>2. CASE TrackNew(p, r)
  <2>1. PICK k \in Slots : Vacant(p, k) /\ Write(Probe(p, k), p, r)
    BY <1>2 DEF TrackNew
  <2>2. Probe(p, k) \in Slots /\ Probe(p, k) \notin Occupied
    BY <2>1, ProbeInTable DEF Vacant, Occupied
  <2>3. Occupied' = Occupied \cup {Probe(p, k)}
    BY <2>1, <2>2 DEF Write, Occupied, IInv, TypeOK
  <2> QED BY <1>2, <2>1, <2>2, <2>3, WriteRefines DEF TrackNew
<1> QED BY <1>1, <1>2

\* Tracking fails only in a table that is full.
LEMMA TrackFailsRefines ==
  ASSUME IInv, NEW p \in Pointers, TrackFails(p)
  PROVE  Map!TrackFails(p)
<1>1. p \notin InTable
  BY InTableFound DEF TrackFails, IInv
<1>2. Occupied = Slots
  BY ProbesCover DEF TrackFails, Occupied
<1>3. Map!Full
  <2> DEFINE f == [n \in 1..Capacity |-> Pointer[n - 1]]
  <2>1. \A n \in 1..Capacity : n - 1 \in Slots
    BY CapacityAssumption DEF Slots
  <2>2. f \in [1..Capacity -> InTable]
    BY <1>2, <2>1 DEF InTable
  <2>3. ASSUME NEW m \in 1..Capacity, NEW n \in 1..Capacity, f[m] = f[n]
        PROVE  m = n
    <3>1. m - 1 = n - 1
      BY <1>2, <2>1, <2>3 DEF IInv, OneSlotPerPointer
    <3> QED BY <3>1
  <2> QED BY <2>2, <2>3, TrackedInTable DEF Map!Full
<1>4. Live' = Live
  BY LiveUnchanged DEF TrackFails
<1>5. p \notin Map!Tracked
  BY <1>1, TrackedInTable
<1>6. Enabled' = Enabled /\ Enabled /\ answer' = <<"Track", p, None>>
  BY DEF TrackFails, table
<1> QED BY <1>3, <1>4, <1>5, <1>6 DEF Map!TrackFails

\* TryFind answers with the record of the map.
LEMMA TryFindRefines ==
  ASSUME IInv, NEW p \in Pointers, TryFind(p)
  PROVE  Map!TryFind(p)
<1>1. Live' = Live
  BY LiveUnchanged DEF TryFind
<1>2. CASE Enabled /\ Found(p)
  <2> DEFINE k == CHOOSE n \in Slots : Hits(p, n)
  <2>1. k \in Slots /\ Hits(p, k)
    BY <1>2 DEF Found
  <2>2. Probe(p, k) \in Occupied /\ Pointer[Probe(p, k)] = p
    BY <2>1, HitIsSlot
  <2>3. Live[p] = Record[Probe(p, k)]
    BY <2>2, LiveOfSlot DEF IInv
  <2> QED BY <1>1, <1>2, <2>3 DEF TryFind, table, Map!TryFind
<1>3. CASE ~(Enabled /\ Found(p))
  <2>1. p \notin InTable
    BY <1>3, InTableFound DEF IInv, InTable
  <2> QED BY <1>1, <1>3, <2>1, LiveOfNone DEF TryFind, table, Map!TryFind
<1> QED BY <1>2, <1>3

\* Untracking removes exactly one pointer from the map.
LEMMA UntrackRefines ==
  ASSUME IInv, NEW p \in Pointers, Untrack(p)
  PROVE  Map!Untrack(p)
<1>1. PICK k \in Slots : /\ Hits(p, k) /\ ClearSlot(Probe(p, k))
                         /\ answer' = <<"Untrack", p, Record[Probe(p, k)]>>
  BY DEF Untrack
<1> DEFINE i == Probe(p, k)
<1>2. i \in Slots /\ i \in Occupied /\ Pointer[i] = p
  BY <1>1, HitIsSlot DEF Occupied
<1>3. Live[p] = Record[i]
  BY <1>2, LiveOfSlot DEF IInv
<1>4. Occupied' = Occupied \ {i}
  BY <1>1, <1>2 DEF ClearSlot, Occupied, IInv, TypeOK
<1>5. /\ \A j, l \in Occupied : Pointer[j] = Pointer[l] => j = l
      /\ \A j \in Occupied' : Pointer'[j] = Pointer[j] /\ Record'[j] = Record[j]
  BY <1>1, <1>4 DEF ClearSlot, IInv, TypeOK, OneSlotPerPointer, Occupied
<1>6. InTable' = InTable \ {p}
  BY <1>2, <1>4, <1>5 DEF InTable
<1>7. ASSUME NEW q \in Pointers PROVE Live'[q] = [Live EXCEPT ![p] = None][q]
  <2>1. CASE q = p \/ q \notin InTable
    <3>1. Live'[q] = None
      BY <1>6, <2>1 DEF Live
    <3> QED BY <2>1, <3>1 DEF Live
  <2>2. CASE q # p /\ q \in InTable
    <3>1. PICK j \in Occupied' : Pointer[j] = q
      BY <1>2, <1>4, <2>2 DEF InTable
    <3>2. (CHOOSE l \in Occupied' : Pointer'[l] = q) = j
      BY <1>4, <1>5, <3>1
    <3>3. Live'[q] = Record[j]
      BY <1>5, <1>6, <2>2, <3>2 DEF Live
    <3>4. Live[q] = Record[j]
      BY <1>4, <3>1, LiveOfSlot DEF IInv
    <3> QED BY <2>2, <3>3, <3>4 DEF Live
  <2> QED BY <2>1, <2>2
<1>8. Live' = [Live EXCEPT ![p] = None]
  <2>1. Live' = [q \in Pointers |-> Live'[q]]
    BY DEF Live
  <2>2. Live = [q \in Pointers |-> Live[q]]
    BY DEF Live
  <2> QED BY <1>7, <2>1, <2>2, UpdateAt
<1> QED BY <1>1, <1>3, <1>8 DEF Untrack, Map!Untrack, Map!Remove

\* Untracking an unknown pointer removes nothing from the map.
LEMMA UntrackUnknownRefines ==
  ASSUME IInv, NEW p \in Pointers, UntrackUnknown(p)
  PROVE  Map!Untrack(p)
<1>1. p \notin InTable
  BY InTableFound DEF UntrackUnknown, IInv, InTable
<1>2. Live[p] = None
  BY <1>1, LiveOfNone
<1>3. Live' = [Live EXCEPT ![p] = None]
  BY <1>2, LiveUnchanged DEF UntrackUnknown, Live
<1> QED BY <1>2, <1>3 DEF UntrackUnknown, table, Map!Untrack, Map!Remove

\* Every step of the table is a step of the map or leaves it alone.
LEMMA StepRefines ==
  ASSUME IInv, IInv', [Next]_vars
  PROVE  [Map!Next]_Map!vars
<1>1. CASE UNCHANGED vars
  BY <1>1, LiveUnchanged DEF vars, table, Map!vars
<1>2. CASE Initialize \/ Shutdown
  BY <1>2, EmptyRefines DEF IInv, TypeOK, Map!Next
<1>3. ASSUME NEW p \in Pointers, NEW r \in Records, TrackAgain(p, r) \/ TrackNew(p, r)
      PROVE  Map!Next
  BY <1>3, TrackRefines DEF Map!Next
<1>4. ASSUME NEW p \in Pointers,
             TrackFails(p) \/ TryFind(p) \/ Untrack(p) \/ UntrackUnknown(p)
      PROVE  Map!Next
  BY <1>4, TrackFailsRefines, TryFindRefines, UntrackRefines, UntrackUnknownRefines
  DEF Map!Next
<1>5. CASE ReportBegin \/ ReportRecord \/ ReportEnd
  BY <1>5, LiveUnchanged
  DEF ReportBegin, ReportRecord, ReportEnd, table, Map!vars
<1> QED BY <1>1, <1>2, <1>3, <1>4, <1>5 DEF Next

\* To its callers the table is a map: every answer is the map's, and a pointer
\* is turned away only when the table is full of others.
THEOREM TableIsMap == Spec => ImplementsMap
<1>1. Init => Map!Init
  BY InitRefines
<1>2. IInv /\ IInv' /\ [Next]_vars => [Map!Next]_Map!vars
  BY StepRefines
<1> QED BY <1>1, <1>2, InvariantHolds, PTL DEF Spec, ImplementsMap, Map!Spec
=============================================================================
