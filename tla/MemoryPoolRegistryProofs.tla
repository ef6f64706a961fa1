---------------------- MODULE MemoryPoolRegistryProofs ----------------------
(***************************************************************************)
(* Proofs that the pool accounting of MemoryPoolRegistry is correct for    *)
(* any number of allocations, any sizes, any budget and any counter width. *)
(***************************************************************************)
EXTENDS MemoryPoolRegistry, CountingTheorems

\* Uint64 arithmetic stays in range for the operands the counters use.
LEMMA UintInRange ==
  ASSUME NEW x \in Word, NEW y \in Word
  PROVE  /\ Uint(x + y) \in Word
         /\ Uint(x - y) \in Word
         /\ x + y < Modulus => Uint(x + y) = x + y
         /\ x >= y => Uint(x - y) = x - y
         /\ Modulus > 1 => Uint(x + 1) \in Word
BY WidthAssumption DEF Uint, Word

\* A counter incremented stays in range.
LEMMA UintIncrement ==
  ASSUME NEW x \in Word
  PROVE  Uint(x + 1) \in Word
BY WidthAssumption DEF Uint, Word

\* A reservation that neither overflows nor exceeds the budget fits.
LEMMA NoOverflow ==
  ASSUME TypeOK, NEW a \in Allocations, ~Overflows(a)
  PROVE  next(a) \in Word /\ Uint(next(a)) = next(a)
BY WidthAssumption DEF TypeOK, Overflows, next, Uint, Word

-----------------------------------------------------------------------------
\* Every step keeps the variables in their types.
LEMMA TypeStep ==
  ASSUME TypeOK, [Next]_vars
  PROVE  TypeOK'
<1> USE DEF Word
<1>0. 0 \in Word
  BY WidthAssumption
<1>1. CASE UNCHANGED vars
  BY <1>1 DEF vars, flags, counters, TypeOK
<1>2. ASSUME NEW e \in BOOLEAN, Initialize(e) PROVE TypeOK'
  BY <1>0, <1>2 DEF Initialize, ResetState, TypeOK
<1>3. CASE Shutdown
  BY <1>0, <1>3 DEF Shutdown, ResetState, TypeOK
<1>4. ASSUME NEW a \in Allocations, NEW s \in Sizes, TryReserve(a, s)
      PROVE TypeOK'
  BY <1>4, SizesAssumption DEF TryReserve, Step, flags, counters, TypeOK
<1>5. ASSUME NEW a \in Allocations, BackendFree(a) PROVE TypeOK'
  BY <1>5 DEF BackendFree, Step, flags, counters, TypeOK
<1>6. ASSUME NEW a \in Allocations, CallStep(a) PROVE TypeOK'
  <2>1. CASE ReserveOverflows(a)
    BY <1>0, <2>1 DEF ReserveOverflows, GiveUp, Step, flags, counters, TypeOK
  <2>2. CASE ReserveExceedsBudget(a)
    BY <1>0, <2>2, UintIncrement
    DEF ReserveExceedsBudget, GiveUp, Step, flags, TypeOK
  <2>3. CASE ReserveExchange(a)
    BY <1>0, <2>3, NoOverflow DEF ReserveExchange, Step, flags, TypeOK
  <2>4. CASE CancelReservation(a)
    BY <1>0, <2>4, UintInRange DEF CancelReservation, Step, flags, TypeOK
  <2>5. CASE RecordFailure(a)
    BY <2>5, UintIncrement DEF RecordFailure, Step, flags, TypeOK
  <2>6. CASE BackendAllocate(a)
    BY <2>6 DEF BackendAllocate, Step, flags, counters, TypeOK
  <2>7. CASE CommitLoad(a)
    BY <2>7 DEF CommitLoad, Step, flags, counters, TypeOK, Committing
  <2>8. CASE CommitBytes(a)
    BY <2>8, UintInRange DEF CommitBytes, Step, flags, TypeOK, Committing
  <2>9. CASE CommitCount(a)
    BY <2>9, UintIncrement DEF CommitCount, Step, flags, TypeOK, Committing
  <2>10. CASE PeakLoad(a)
    BY <2>10 DEF PeakLoad, Step, flags, counters, TypeOK, Committing
  <2>11. CASE PeakExchange(a)
    BY <1>0, <2>11 DEF PeakExchange, Return, Step, flags, TypeOK
  <2>12. CASE PeakCovered(a)
    BY <1>0, <2>12 DEF PeakCovered, Return, Step, flags, counters, TypeOK
  <2>13. CASE FreeCurrent(a)
    BY <2>13, UintInRange DEF FreeCurrent, Step, flags, TypeOK
  <2>14. CASE FreeBytes(a)
    BY <1>0, <2>14, UintInRange DEF FreeBytes, Step, flags, TypeOK
  <2>15. CASE RecordFreeCount(a)
    BY <2>15, UintIncrement DEF RecordFreeCount, Step, flags, TypeOK
  <2> QED
    BY <1>6, <2>1, <2>2, <2>3, <2>4, <2>5, <2>6, <2>7, <2>8, <2>9, <2>10,
       <2>11, <2>12, <2>13, <2>14, <2>15 DEF CallStep
<1> QED
  BY <1>1, <1>2, <1>3, <1>4, <1>5, <1>6 DEF Next

\* The registry starts with counters of the right type.
LEMMA TypeCorrectInit ==
  ASSUME Init
  PROVE  TypeOK
<1>1. 0 \in Word
  BY WidthAssumption DEF Word
<1>2. /\ size \in [Allocations -> Word]
      /\ current \in [Allocations -> Word]
      /\ peak \in [Allocations -> Word]
  BY <1>1 DEF Init
<1> QED BY <1>1, <1>2 DEF Init, TypeOK

\* The counters and locals keep their types: they are Uint64 whatever happens.
THEOREM TypeCorrect == Spec => []TypeOK
<1>1. Init => TypeOK
  BY TypeCorrectInit
<1>2. TypeOK /\ [Next]_vars => TypeOK'
  BY TypeStep
<1> QED BY <1>1, <1>2, PTL DEF Spec

-----------------------------------------------------------------------------
(* CurrentBytes.  A step either leaves the reservations alone, adds one or *)
(* takes one away.                                                         *)

\* Reservations are finitely many and of bounded size.
LEMMA HoldingFinite ==
  ASSUME TypeOK
  PROVE  /\ IsFiniteSet(Holding)
         /\ Holding \subseteq Allocations
         /\ \A a \in Allocations : size[a] \in 0..(Modulus - 1)
         /\ Modulus - 1 \in Nat
<1>1. Holding \subseteq Allocations
  BY DEF Holding
<1>2. IsFiniteSet(Holding)
  BY <1>1, AllocationsAssumption, FS_Subset
<1> QED BY <1>1, <1>2, WidthAssumption DEF TypeOK, Word

\* The sum moves to the next state with the reservations and their sizes.
LEMMA AccountKeep ==
  ASSUME CurrentMatchesHolding,
         CurrentBytes' = CurrentBytes,
         Holding' = Holding,
         \A x \in Holding : size'[x] = size[x]
  PROVE  CurrentMatchesHolding'
<1>1. SumOver(size', Holding) = SumOver(size, Holding)
  BY SumSame
<1>2. SumOver(size', Holding') = SumOver(size', Holding)
  BY Zenon
<1>3. SumOver(size', Holding') = CurrentBytes'
  BY <1>1, <1>2, Zenon DEF CurrentMatchesHolding
<1> QED BY <1>3, Zenon DEF CurrentMatchesHolding

\* A successful compare-exchange in TryReserve adds one reservation.
LEMMA AccountAdd ==
  ASSUME TypeOK, CurrentMatchesHolding,
         NEW a \in Allocations, a \notin Holding,
         Holding' = Holding \cup {a},
         size' = size,
         CurrentBytes' = CurrentBytes + size[a]
  PROVE  CurrentMatchesHolding'
<1>0. IsFiniteSet(Holding) /\ \A x \in Holding \cup {a} : size[x] \in Nat
  BY HoldingFinite
<1>1. SumOver(size, Holding \cup {a}) = SumOver(size, Holding) + size[a]
  BY <1>0, SumAdd
<1>2. SumOver(size', Holding') = SumOver(size, Holding \cup {a})
  BY Zenon
<1>3. SumOver(size', Holding') = CurrentBytes'
  BY <1>1, <1>2, Zenon DEF CurrentMatchesHolding
<1> QED BY <1>3, Zenon DEF CurrentMatchesHolding

\* CancelReservation and RecordFree take one reservation away, and the
\* subtraction does not wrap.
LEMMA AccountRemove ==
  ASSUME TypeOK, CurrentMatchesHolding,
         NEW a \in Allocations, a \in Holding,
         Holding' = Holding \ {a},
         \A x \in Allocations : x # a => size'[x] = size[x],
         CurrentBytes' = Uint(CurrentBytes - size[a])
  PROVE  CurrentMatchesHolding' /\ CurrentBytes' <= CurrentBytes
<1> DEFINE T == Holding \ {a}
<1>0. SumOver(size', Holding') = SumOver(size', T)
  BY Zenon
<1>1. SumOver(size, T) = SumOver(size, Holding) - size[a]
  BY HoldingFinite, SumRemove
<1>2. IsFiniteSet(T) /\ T \subseteq Allocations
  BY HoldingFinite, FS_RemoveElement
<1>3. \A x \in T : size'[x] = size[x]
  BY <1>2
<1>4. \A x \in T : size[x] \in 0..(Modulus - 1)
  BY <1>2, HoldingFinite
<1> HIDE DEF T
<1>5. SumOver(size, T) \in Nat
  BY <1>2, <1>4, HoldingFinite, SumNat
<1>6. SumOver(size', T) = SumOver(size, T)
  BY <1>3, SumSame
<1>7. SumOver(size, T) = CurrentBytes - size[a]
  BY <1>1, Zenon DEF CurrentMatchesHolding
<1>8. /\ CurrentBytes' = CurrentBytes - size[a]
      /\ CurrentBytes' <= CurrentBytes
  <2>1. CurrentBytes \in Word /\ size[a] \in Word
    BY DEF TypeOK
  <2>2. CurrentBytes \in Nat /\ size[a] \in Nat
    BY <2>1, WidthAssumption DEF Word
  <2>3. CurrentBytes >= size[a]
    BY <1>5, <1>7, <2>2
  <2> QED BY <2>1, <2>2, <2>3, UintInRange
<1>9. SumOver(size', Holding') = CurrentBytes'
  BY <1>0, <1>6, <1>7, <1>8, Zenon
<1> QED BY <1>8, <1>9, Zenon DEF CurrentMatchesHolding

\* No step loses or doubles a reservation.
LEMMA AccountStep ==
  ASSUME TypeOK, IdleWhenDown, CurrentMatchesHolding, [Next]_vars
  PROVE  CurrentMatchesHolding'
<1>1. CASE UNCHANGED vars
  BY <1>1, AccountKeep DEF vars, counters, Holding
<1>2. ASSUME NEW e \in BOOLEAN, Initialize(e) PROVE CurrentMatchesHolding'
  <2>1. CurrentBytes' = 0 /\ Holding' = {}
    BY <1>2 DEF Initialize, ResetState, IdleWhenDown, Holding, Committing
  <2> QED BY <2>1, SumEmpty, Zenon DEF CurrentMatchesHolding
<1>3. CASE Shutdown
  <2>1. CurrentBytes' = 0 /\ Holding' = {}
    BY <1>3 DEF Shutdown, ResetState, Holding, Committing
  <2> QED BY <2>1, SumEmpty, Zenon DEF CurrentMatchesHolding
<1>4. ASSUME NEW a \in Allocations, NEW s \in Sizes, TryReserve(a, s)
      PROVE CurrentMatchesHolding'
  BY <1>4, AccountKeep
  DEF TryReserve, Step, counters, Holding, Committing, TypeOK
<1>5. ASSUME NEW a \in Allocations, BackendFree(a)
      PROVE CurrentMatchesHolding'
  BY <1>5, AccountKeep DEF BackendFree, Step, counters, Holding, TypeOK
<1>6. ASSUME NEW a \in Allocations, CallStep(a) PROVE CurrentMatchesHolding'
  <2>1. CASE ReserveOverflows(a)
    BY <2>1, AccountKeep
    DEF ReserveOverflows, GiveUp, Step, counters, Holding, Committing, TypeOK
  <2>2. CASE ReserveExceedsBudget(a)
    BY <2>2, AccountKeep
    DEF ReserveExceedsBudget, GiveUp, Step, Holding, Committing, TypeOK
  <2>3. CASE ReserveExchange(a) /\ CurrentBytes = current[a]
    <3>1. CurrentBytes' = CurrentBytes + size[a]
      BY <2>3, NoOverflow DEF ReserveExchange, next
    <3>2. a \notin Holding /\ Holding' = Holding \cup {a}
      BY <2>3 DEF ReserveExchange, Step, Holding, Committing, TypeOK
    <3>3. size' = size
      BY <2>3 DEF ReserveExchange
    <3> QED BY <3>1, <3>2, <3>3, AccountAdd
  <2>4. CASE ReserveExchange(a) /\ CurrentBytes # current[a]
    BY <2>4, AccountKeep DEF ReserveExchange, Holding
  <2>5. CASE CancelReservation(a)
    <3>1. a \in Holding /\ Holding' = Holding \ {a}
      BY <2>5 DEF CancelReservation, Step, Holding, Committing, TypeOK
    <3>2. /\ \A x \in Allocations : x # a => size'[x] = size[x]
          /\ CurrentBytes' = Uint(CurrentBytes - size[a])
      BY <2>5 DEF CancelReservation, TypeOK
    <3> QED BY <3>1, <3>2, AccountRemove
  <2>6. CASE RecordFailure(a)
    BY <2>6, AccountKeep DEF RecordFailure, Step, Holding, Committing, TypeOK
  <2>7. CASE BackendAllocate(a) \/ CommitLoad(a) \/ CommitBytes(a)
              \/ CommitCount(a) \/ PeakLoad(a)
    BY <2>7, AccountKeep
    DEF BackendAllocate, CommitLoad, CommitBytes, CommitCount, PeakLoad,
        Step, counters, Holding, Committing, TypeOK
  <2>8. CASE PeakExchange(a) \/ PeakCovered(a)
    BY <2>8, AccountKeep
    DEF PeakExchange, PeakCovered, Return, Step, counters, Holding,
        Committing, TypeOK
  <2>9. CASE FreeCurrent(a)
    <3>1. a \in Holding /\ Holding' = Holding \ {a}
      BY <2>9 DEF FreeCurrent, Step, Holding, Committing, TypeOK
    <3>2. /\ \A x \in Allocations : x # a => size'[x] = size[x]
          /\ CurrentBytes' = Uint(CurrentBytes - size[a])
      BY <2>9 DEF FreeCurrent
    <3> QED BY <3>1, <3>2, AccountRemove
  <2>10. CASE FreeBytes(a) \/ RecordFreeCount(a)
    BY <2>10, AccountKeep
    DEF FreeBytes, RecordFreeCount, Step, Holding, Committing, TypeOK
  <2> QED
    BY <1>6, <2>1, <2>2, <2>3, <2>4, <2>5, <2>6, <2>7, <2>8, <2>9, <2>10
    DEF CallStep
<1> QED
  BY <1>1, <1>2, <1>3, <1>4, <1>5, <1>6 DEF Next

-----------------------------------------------------------------------------
\* The registry is quiet while it is down.
LEMMA IdleStep ==
  ASSUME TypeOK, IdleWhenDown, [Next]_vars
  PROVE  IdleWhenDown'
<1>1. CASE UNCHANGED vars
  BY <1>1 DEF vars, flags, counters, IdleWhenDown
<1>2. ASSUME NEW e \in BOOLEAN, Initialize(e) PROVE IdleWhenDown'
  BY <1>2 DEF Initialize, IdleWhenDown
<1>3. CASE Shutdown
  BY <1>3 DEF Shutdown, ResetState, IdleWhenDown
<1>4. ASSUME NEW a \in Allocations, NEW s \in Sizes, TryReserve(a, s)
      PROVE IdleWhenDown'
  BY <1>4 DEF TryReserve, flags, IdleWhenDown
<1>5. ASSUME NEW a \in Allocations, BackendFree(a) PROVE IdleWhenDown'
  BY <1>5 DEF BackendFree, Step, flags, IdleWhenDown
<1>6. ASSUME NEW a \in Allocations, CallStep(a) PROVE IdleWhenDown'
  <2>1. pc[a] # "idle" /\ Initialized' = Initialized
    BY <1>6
    DEF CallStep, ReserveOverflows, ReserveExceedsBudget, GiveUp,
        ReserveExchange, CancelReservation, RecordFailure, BackendAllocate,
        CommitLoad, CommitBytes, CommitCount, PeakLoad, PeakExchange,
        PeakCovered, Return, FreeCurrent, FreeBytes, RecordFreeCount, Step,
        flags
  <2> QED BY <2>1 DEF IdleWhenDown
<1> QED
  BY <1>1, <1>2, <1>3, <1>4, <1>5, <1>6 DEF Next

\* Only a successful exchange of TryReserve raises CurrentBytes, and it
\* checked the budget against the very value it replaced.
LEMMA BudgetStep ==
  ASSUME TypeOK, CurrentMatchesHolding, WithinBudget, [Next]_vars
  PROVE  WithinBudget'
<1>1. CASE UNCHANGED vars
  BY <1>1 DEF vars, flags, counters, WithinBudget
<1>2. ASSUME NEW e \in BOOLEAN, Initialize(e) PROVE WithinBudget'
  BY <1>2, BudgetAssumption DEF Initialize, ResetState, WithinBudget
<1>3. CASE Shutdown
  BY <1>3, BudgetAssumption DEF Shutdown, ResetState, WithinBudget
<1>4. ASSUME NEW a \in Allocations, NEW s \in Sizes, TryReserve(a, s)
      PROVE WithinBudget'
  BY <1>4 DEF TryReserve, flags, counters, WithinBudget
<1>5. ASSUME NEW a \in Allocations, BackendFree(a) PROVE WithinBudget'
  BY <1>5 DEF BackendFree, flags, counters, WithinBudget
<1>6. ASSUME NEW a \in Allocations, CallStep(a) PROVE WithinBudget'
  <2>1. CASE ReserveExchange(a)
    BY <2>1, NoOverflow, BudgetAssumption
    DEF ReserveExchange, ExceedsBudget, flags, WithinBudget, Word
  <2>2. CASE CancelReservation(a) \/ FreeCurrent(a)
    <3>1. a \in Holding /\ Holding' = Holding \ {a}
      BY <2>2
      DEF CancelReservation, FreeCurrent, Step, Holding, Committing, TypeOK
    <3>2. /\ \A x \in Allocations : x # a => size'[x] = size[x]
          /\ CurrentBytes' = Uint(CurrentBytes - size[a])
      BY <2>2 DEF CancelReservation, FreeCurrent, TypeOK
    <3>3. CurrentBytes' <= CurrentBytes
      BY <3>1, <3>2, AccountRemove
    <3>4. CurrentBytes' \in Word
      BY TypeStep DEF TypeOK
    <3>5. EnforceBudgets' = EnforceBudgets
      BY <2>2 DEF CancelReservation, FreeCurrent, flags
    <3> QED BY <3>3, <3>4, <3>5, BudgetAssumption DEF WithinBudget, TypeOK, Word
  <2>3. CASE UNCHANGED <<CurrentBytes, EnforceBudgets>>
    BY <2>3 DEF WithinBudget
  <2> QED
    BY <1>6, <2>1, <2>2, <2>3
    DEF CallStep, ReserveOverflows, ReserveExceedsBudget, RecordFailure,
        BackendAllocate, CommitLoad, CommitBytes, CommitCount, PeakLoad,
        PeakExchange, PeakCovered, FreeBytes, RecordFreeCount, flags, counters
<1> QED
  BY <1>1, <1>2, <1>3, <1>4, <1>5, <1>6 DEF Next

\* The peak only grows between Initialize and Shutdown.
LEMMA PeakGrows ==
  ASSUME TypeOK, IdleWhenDown, [Next]_vars, Initialized'
  PROVE  PeakBytes' >= PeakBytes
<1> USE DEF TypeOK, Word
<1>1. CASE UNCHANGED vars
  BY <1>1 DEF vars, counters
<1>2. ASSUME NEW e \in BOOLEAN, Initialize(e) PROVE PeakBytes' >= PeakBytes
  BY <1>2 DEF Initialize, ResetState, IdleWhenDown
<1>3. CASE Shutdown
  BY <1>3 DEF Shutdown
<1>4. ASSUME NEW a \in Allocations, NEW s \in Sizes, TryReserve(a, s)
      PROVE PeakBytes' >= PeakBytes
  BY <1>4 DEF TryReserve, counters
<1>5. ASSUME NEW a \in Allocations, BackendFree(a)
      PROVE PeakBytes' >= PeakBytes
  BY <1>5 DEF BackendFree, counters
<1>6. ASSUME NEW a \in Allocations, CallStep(a)
      PROVE PeakBytes' >= PeakBytes
  <2>1. CASE PeakExchange(a)
    BY <2>1 DEF PeakExchange
  <2>2. CASE PeakBytes' = PeakBytes
    BY <2>2
  <2> QED
    BY <1>6, <2>1, <2>2
    DEF CallStep, ReserveOverflows, ReserveExceedsBudget, ReserveExchange,
        CancelReservation, RecordFailure, BackendAllocate, CommitLoad,
        CommitBytes, CommitCount, PeakLoad, PeakCovered, FreeCurrent,
        FreeBytes, RecordFreeCount, counters
<1> QED
  BY <1>1, <1>2, <1>3, <1>4, <1>5, <1>6 DEF Next

-----------------------------------------------------------------------------
(* PeakBytes.                                                              *)

\* UpdatePeak's local stays at or below the peak.
LEMMA LocalPeakStep ==
  ASSUME TypeOK, IdleWhenDown, LocalPeakIsPast, [Next]_vars
  PROVE  LocalPeakIsPast'
<1>1. CASE ~Initialized'
  BY <1>1, IdleStep DEF IdleWhenDown, LocalPeakIsPast
<1>2. CASE Initialized'
  <2> SUFFICES ASSUME NEW b \in Allocations, pc'[b] = "peakLoop"
               PROVE  peak'[b] <= PeakBytes'
    BY DEF LocalPeakIsPast
  <2>1. PeakBytes' >= PeakBytes /\ PeakBytes \in Nat /\ PeakBytes' \in Nat
    BY <1>2, PeakGrows, TypeStep, WidthAssumption DEF TypeOK, Word
  <2>2. peak[b] \in Nat
    BY WidthAssumption DEF TypeOK, Word
  <2>3. CASE pc[b] = "peakLoop" /\ peak'[b] = peak[b]
    BY <2>1, <2>2, <2>3 DEF LocalPeakIsPast
  <2>4. CASE peak'[b] = PeakBytes
    BY <2>1, <2>4
  <2>5. CASE UNCHANGED vars
    BY <2>3, <2>5 DEF vars
  <2>6. ASSUME NEW e \in BOOLEAN, Initialize(e) PROVE FALSE
    BY <2>6 DEF Initialize, IdleWhenDown
  <2>7. CASE Shutdown
    BY <1>2, <2>7 DEF Shutdown
  <2>8. ASSUME NEW a \in Allocations, NEW s \in Sizes, TryReserve(a, s)
        PROVE  pc[b] = "peakLoop" /\ peak'[b] = peak[b]
    BY <2>8 DEF TryReserve, Step, TypeOK
  <2>9. ASSUME NEW a \in Allocations, BackendFree(a)
        PROVE  pc[b] = "peakLoop" /\ peak'[b] = peak[b]
    BY <2>9 DEF BackendFree, Step, TypeOK
  <2>10. ASSUME NEW a \in Allocations, CallStep(a)
         PROVE  \/ pc[b] = "peakLoop" /\ peak'[b] = peak[b]
                \/ peak'[b] = PeakBytes
    <3>1. CASE PeakLoad(a) \/ PeakExchange(a) \/ PeakCovered(a)
      BY <3>1 DEF PeakLoad, PeakExchange, PeakCovered, Return, Step, TypeOK
    <3>2. CASE ~(PeakLoad(a) \/ PeakExchange(a) \/ PeakCovered(a))
      BY <2>10, <3>2
      DEF CallStep, ReserveOverflows, ReserveExceedsBudget, GiveUp,
          ReserveExchange, CancelReservation, RecordFailure, BackendAllocate,
          CommitLoad, CommitBytes, CommitCount, FreeCurrent, FreeBytes,
          RecordFreeCount, Step, TypeOK
    <3> QED BY <3>1, <3>2
  <2> QED
    BY <2>3, <2>4, <2>5, <2>6, <2>7, <2>8, <2>9, <2>10 DEF Next
<1> QED BY <1>1, <1>2

\* Any live and committing allocations have a natural sum of sizes, no larger
\* than that of all reservations.
LEMMA CoverSum ==
  ASSUME TypeOK, NEW T \in SUBSET (Live \cup Loaded)
  PROVE  /\ SumOver(size, T) \in Nat
         /\ SumOver(size, T) <= SumOver(size, Holding)
<1>1. T \subseteq Holding
  BY DEF Live, Loaded, Holding
<1>2. IsFiniteSet(T) /\ \A x \in T : size[x] \in 0..(Modulus - 1)
  BY <1>1, HoldingFinite, FS_Subset
<1>3. SumOver(size, T) \in Nat
  BY <1>2, HoldingFinite, SumNat
<1>4. SumOver(size, T) <= SumOver(size, Holding)
  BY <1>1, HoldingFinite, SumSubset
<1> QED BY <1>3, <1>4

\* Steps that neither raise what must be covered nor lower what covers it.
LEMMA CoverKeep ==
  ASSUME TypeOK, CommitsCoverPeak,
         Live' \subseteq Live,
         Loaded' = Loaded,
         \A x \in Live \cup Loaded : size'[x] = size[x],
         \A x \in Loaded : current'[x] = current[x],
         PeakBytes' = PeakBytes
  PROVE  CommitsCoverPeak'
<1> SUFFICES ASSUME NEW Q \in SUBSET Loaded
             PROVE \/ SumOver(size', Live' \cup Q) <= PeakBytes
                   \/ \E q \in Q : SumOver(size', Live' \cup Q) <= current[q]
  BY DEF CommitsCoverPeak
<1> DEFINE T == Live' \cup Q
           U == Live \cup Q
<1>1. T \subseteq U /\ U \subseteq Live \cup Loaded
  OBVIOUS
<1>2. \A x \in T : size'[x] = size[x]
  OBVIOUS
<1>3. IsFiniteSet(U) /\ \A x \in U : size[x] \in 0..(Modulus - 1)
  <2>1. U \subseteq Holding
    BY DEF Live, Loaded, Holding
  <2> QED BY <2>1, HoldingFinite, FS_Subset
<1>4. SumOver(size, U) \in Nat /\ SumOver(size, T) \in Nat
  BY <1>1, CoverSum
<1>5. \/ SumOver(size, U) <= PeakBytes
      \/ \E q \in Q : SumOver(size, U) <= current[q]
  BY DEF CommitsCoverPeak
<1>6. PeakBytes \in Nat /\ \A q \in Q : current[q] \in Nat
  BY WidthAssumption DEF TypeOK, Word, Loaded
<1> HIDE DEF T, U
<1>7. SumOver(size', T) = SumOver(size, T)
  BY <1>2, SumSame
<1>8. SumOver(size, T) <= SumOver(size, U)
  BY <1>1, <1>3, HoldingFinite, SumSubset
<1>9. \/ SumOver(size, T) <= PeakBytes
      \/ \E q \in Q : SumOver(size, T) <= current[q]
  BY <1>4, <1>5, <1>6, <1>8
<1> QED BY <1>7, <1>9, Zenon DEF T

\* The load in CommitAllocation sees at least everything that is live or
\* being committed, itself included.
LEMMA CoverLoad ==
  ASSUME TypeOK, CurrentMatchesHolding, CommitsCoverPeak,
         NEW a \in Allocations, CommitLoad(a)
  PROVE  CommitsCoverPeak'
<1>1. /\ Live' = Live
      /\ Loaded' = Loaded \cup {a}
      /\ a \notin Loaded
      /\ a \in Holding
  BY DEF CommitLoad, Step, Live, Loaded, Holding, Committing, TypeOK
<1>2. /\ size' = size
      /\ PeakBytes' = PeakBytes
      /\ current' = [current EXCEPT ![a] = CurrentBytes]
  BY DEF CommitLoad, counters
<1> SUFFICES ASSUME NEW Q \in SUBSET (Loaded \cup {a})
             PROVE \/ SumOver(size, Live \cup Q) <= PeakBytes
                   \/ \E q \in Q : SumOver(size, Live \cup Q) <= current'[q]
  BY <1>1, <1>2 DEF CommitsCoverPeak
<1>3. CASE a \in Q
  <2>1. Live \cup Q \subseteq Holding
    BY <1>1 DEF Live, Loaded, Holding
  <2>2. SumOver(size, Live \cup Q) <= SumOver(size, Holding)
    BY <2>1, HoldingFinite, SumSubset
  <2>3. current'[a] = CurrentBytes
    BY <1>2 DEF TypeOK
  <2>4. SumOver(size, Live \cup Q) <= current'[a]
    BY <2>2, <2>3, Zenon DEF CurrentMatchesHolding
  <2> QED BY <1>3, <2>4
<1>4. CASE a \notin Q
  <2>1. Q \in SUBSET Loaded
    BY <1>4
  <2>2. \A q \in Q : current'[q] = current[q]
    BY <1>2, <1>4, <2>1 DEF TypeOK, Loaded
  <2> QED BY <2>1, <2>2 DEF CommitsCoverPeak
<1> QED BY <1>3, <1>4

\* An allocation whose value the peak has reached may become live.
LEMMA CoverReturn ==
  ASSUME TypeOK, CommitsCoverPeak, TypeOK',
         NEW a \in Allocations, Return(a),
         size' = size,
         PeakBytes' >= PeakBytes,
         PeakBytes' >= current[a]
  PROVE  CommitsCoverPeak'
<1>1. /\ Live' = Live \cup {a}
      /\ Loaded' = Loaded \ {a}
      /\ a \in Loaded
  BY DEF Return, Step, Live, Loaded, Committing, TypeOK
<1>2. \A q \in Loaded : q # a => current'[q] = current[q]
  BY DEF Return, Loaded, TypeOK
<1> SUFFICES ASSUME NEW Q \in SUBSET (Loaded \ {a})
             PROVE \/ SumOver(size, (Live \cup {a}) \cup Q) <= PeakBytes'
                   \/ \E q \in Q :
                        SumOver(size, (Live \cup {a}) \cup Q) <= current'[q]
  BY <1>1 DEF CommitsCoverPeak
<1> DEFINE R == Q \cup {a}
           T == Live \cup R
<1>3. (Live \cup {a}) \cup Q = T
  OBVIOUS
<1>4. R \in SUBSET Loaded
  BY <1>1
<1>5. \/ SumOver(size, T) <= PeakBytes
      \/ \E q \in R : SumOver(size, T) <= current[q]
  BY <1>4 DEF CommitsCoverPeak
<1>6. SumOver(size, T) \in Nat
  BY <1>4, CoverSum
<1>7. PeakBytes \in Nat /\ PeakBytes' \in Nat /\ current[a] \in Nat
  BY WidthAssumption DEF TypeOK, Word
<1>8. \/ SumOver(size, T) <= PeakBytes
      \/ SumOver(size, T) <= current[a]
      \/ \E q \in Q : SumOver(size, T) <= current[q]
  BY <1>5
<1> HIDE DEF T, R
<1>9. \/ SumOver(size, T) <= PeakBytes'
      \/ \E q \in Q : SumOver(size, T) <= current'[q]
  BY <1>2, <1>6, <1>7, <1>8
<1> QED BY <1>3, <1>9, Zenon

\* No step uncovers the live allocations.
LEMMA CoverStep ==
  ASSUME IInv, [Next]_vars
  PROVE  CommitsCoverPeak'
<1> USE DEF IInv
<1>0. TypeOK'
  BY TypeStep
<1>1. CASE UNCHANGED vars
  BY <1>1, CoverKeep DEF vars, counters, Live, Loaded
<1>2. CASE \E e \in BOOLEAN : Initialize(e)
  <2>1. Live' = {} /\ Loaded' = {}
    BY <1>2 DEF Initialize, IdleWhenDown, Live, Loaded, Committing
  <2>2. SumOver(size', {}) <= 0 /\ PeakBytes' = 0
    BY <1>2, SumEmpty DEF Initialize, ResetState
  <2>3. \A Q \in SUBSET Loaded' : Live' \cup Q = {}
    BY <2>1
  <2> QED BY <2>2, <2>3, Zenon DEF CommitsCoverPeak
<1>3. CASE Shutdown
  <2>1. Live' = {} /\ Loaded' = {}
    BY <1>3 DEF Shutdown, Live, Loaded, Committing
  <2>2. SumOver(size', {}) <= 0 /\ PeakBytes' = 0
    BY <1>3, SumEmpty DEF Shutdown, ResetState
  <2>3. \A Q \in SUBSET Loaded' : Live' \cup Q = {}
    BY <2>1
  <2> QED BY <2>2, <2>3, Zenon DEF CommitsCoverPeak
<1>4. ASSUME NEW a \in Allocations, NEW s \in Sizes, TryReserve(a, s)
      PROVE CommitsCoverPeak'
  BY <1>4, CoverKeep
  DEF TryReserve, Step, counters, Live, Loaded, Committing, TypeOK
<1>5. ASSUME NEW a \in Allocations, BackendFree(a)
      PROVE CommitsCoverPeak'
  BY <1>5, CoverKeep
  DEF BackendFree, Step, counters, Live, Loaded, Committing, TypeOK
<1>6. ASSUME NEW a \in Allocations, CallStep(a) PROVE CommitsCoverPeak'
  <2>1. CASE ReserveOverflows(a)
    BY <2>1, CoverKeep
    DEF ReserveOverflows, GiveUp, Step, counters, Live, Loaded, Committing,
        TypeOK
  <2>2. CASE ReserveExceedsBudget(a)
    BY <2>2, CoverKeep
    DEF ReserveExceedsBudget, GiveUp, Step, Live, Loaded, Committing, TypeOK
  <2>3. CASE ReserveExchange(a)
    BY <2>3, CoverKeep
    DEF ReserveExchange, Step, Live, Loaded, Committing, TypeOK
  <2>4. CASE CancelReservation(a) \/ RecordFailure(a)
    BY <2>4, CoverKeep
    DEF CancelReservation, RecordFailure, Step, Live, Loaded, Committing,
        TypeOK
  <2>5. CASE BackendAllocate(a)
    BY <2>5, CoverKeep
    DEF BackendAllocate, Step, counters, Live, Loaded, Committing, TypeOK
  <2>6. CASE CommitLoad(a)
    BY <2>6, CoverLoad
  <2>7. CASE CommitBytes(a) \/ CommitCount(a) \/ PeakLoad(a)
    BY <2>7, CoverKeep
    DEF CommitBytes, CommitCount, PeakLoad, Step, counters, Live, Loaded,
        Committing, TypeOK
  <2>8. CASE PeakExchange(a) /\ PeakBytes = peak[a]
    <3>1. Return(a) /\ size' = size /\ PeakBytes' = current[a]
      BY <2>8 DEF PeakExchange
    <3>2. PeakBytes' >= PeakBytes /\ PeakBytes' >= current[a]
      BY <2>8, <3>1, WidthAssumption DEF PeakExchange, TypeOK, Word
    <3> QED BY <1>0, <3>1, <3>2, CoverReturn
  <2>9. CASE PeakExchange(a) /\ PeakBytes # peak[a]
    BY <2>9, CoverKeep DEF PeakExchange, Live, Loaded
  <2>10. CASE PeakCovered(a)
    <3>1. Return(a) /\ size' = size /\ PeakBytes' = PeakBytes
      BY <2>10 DEF PeakCovered, counters
    <3>2. peak[a] <= PeakBytes
      BY <3>1 DEF LocalPeakIsPast, Return, Step
    <3>3. PeakBytes' >= PeakBytes /\ PeakBytes' >= current[a]
      BY <2>10, <3>1, <3>2, WidthAssumption DEF PeakCovered, TypeOK, Word
    <3> QED BY <1>0, <3>1, <3>3, CoverReturn
  <2>11. CASE FreeCurrent(a) \/ FreeBytes(a) \/ RecordFreeCount(a)
    BY <2>11, CoverKeep
    DEF FreeCurrent, FreeBytes, RecordFreeCount, Step, Live, Loaded,
        Committing, TypeOK
  <2> QED
    BY <1>6, <2>1, <2>2, <2>3, <2>4, <2>5, <2>6, <2>7, <2>8, <2>9, <2>10,
       <2>11 DEF CallStep
<1> QED
  BY <1>1, <1>2, <1>3, <1>4, <1>5, <1>6 DEF Next

-----------------------------------------------------------------------------
(* The theorems.                                                           *)

\* The inductive invariant holds in every reachable state.
THEOREM InvariantHolds == Spec => []IInv
<1>1. ASSUME Init PROVE IInv
  <2>1. TypeOK
    BY <1>1, TypeCorrectInit
  <2>2. Holding = {} /\ Live = {} /\ Loaded = {}
    BY <1>1 DEF Init, Holding, Live, Loaded, Committing
  <2>3. SumOver(size, {}) = 0
    BY SumEmpty
  <2>4. CurrentMatchesHolding
    BY <1>1, <2>2, <2>3, Zenon DEF Init, CurrentMatchesHolding
  <2>5. IdleWhenDown /\ LocalPeakIsPast /\ WithinBudget
    BY <1>1, BudgetAssumption
    DEF Init, IdleWhenDown, LocalPeakIsPast, WithinBudget
  <2>6. \A Q \in SUBSET Loaded : SumOver(size, Live \cup Q) <= PeakBytes
    <3>1. \A Q \in SUBSET Loaded : Live \cup Q = {}
      BY <2>2
    <3>2. SumOver(size, {}) <= PeakBytes
      BY <1>1, <2>3 DEF Init
    <3> QED BY <3>1, <3>2, Zenon
  <2> QED BY <2>1, <2>4, <2>5, <2>6 DEF IInv, CommitsCoverPeak
<1>2. ASSUME IInv, [Next]_vars PROVE IInv'
  BY <1>2, TypeStep, IdleStep, AccountStep, BudgetStep, LocalPeakStep,
     CoverStep DEF IInv
<1> QED BY <1>1, <1>2, PTL DEF Spec

\* CurrentBytes is always exactly what is reserved.
THEOREM CurrentIsExact == Spec => []CurrentMatchesHolding
<1>1. IInv => CurrentMatchesHolding
  BY DEF IInv
<1> QED BY <1>1, InvariantHolds, PTL

\* Racing reservations never exceed an enforced budget.
THEOREM BudgetHolds == Spec => []WithinBudget
<1>1. IInv => WithinBudget
  BY DEF IInv
<1> QED BY <1>1, InvariantHolds, PTL

\* The recorded peak always covers the blocks callers own.
THEOREM PeakIsEnough == Spec => []PeakCoversLive
<1>1. IInv => PeakCoversLive
  <2> SUFFICES ASSUME IInv PROVE PeakCoversLive
    OBVIOUS
  <2> DEFINE Q == {}
  <2>1. /\ Q \in SUBSET Loaded
        /\ Live \cup Q = Live
        /\ \A q \in Q : FALSE
    OBVIOUS
  <2> HIDE DEF Q
  <2>2. \/ SumOver(size, Live \cup Q) <= PeakBytes
        \/ \E q \in Q : SumOver(size, Live \cup Q) <= current[q]
    BY <2>1, Zenon DEF IInv, CommitsCoverPeak
  <2> QED BY <2>1, <2>2, Zenon DEF PeakCoversLive
<1> QED BY <1>1, InvariantHolds, PTL

\* The recorded peak never falls while the registry is up.
THEOREM PeakMonotone == Spec => PeakNeverFalls
<1>1. IInv /\ [Next]_vars => [Initialized' => PeakBytes' >= PeakBytes]_vars
  BY PeakGrows DEF IInv
<1> QED BY <1>1, InvariantHolds, PTL DEF Spec, PeakNeverFalls

-----------------------------------------------------------------------------
(* The totals.  They may wrap, so what holds of them holds modulo the      *)
(* width; and what a call still has to count is kept with them.            *)

\* Allocations whose size CommitAllocation has added and RecordFree has not.
Committed ==
  {a \in Allocations :
     pc[a] \in {"commitCount", "peakLoad", "peakLoop", "live", "released", "freeBytes"}}

\* Allocations counted as allocated and not yet as freed.
Counted ==
  {a \in Allocations :
     pc[a] \in {"peakLoad", "peakLoop", "live", "released", "freeBytes", "freeCount"}}

\* Allocations refused whose failure is not yet recorded.
Refused == {a \in Allocations : pc[a] = "failed"}

\* Calls that will count an allocation or a failure.
Uncounted ==
  {a \in Allocations :
     pc[a] \in {"reserve", "reserved", "allocated", "failed", "commitBytes", "commitCount"}}

Congruent(x, y) == \E k \in Int : x = y + k * Modulus

BytesAddUp == Congruent(TotalAllocatedBytes - TotalFreedBytes, SumOver(size, Committed))
BlocksAddUp == Congruent(AllocationCount - FreeCount, Cardinality(Counted))
RefusalsRecorded == BudgetExceededCount <= FailedAllocationCount + Cardinality(Refused)
CallsBounded ==
  Uncounted # {} =>
    AllocationCount + FailedAllocationCount + Cardinality(Uncounted)
      < MaxCalls + Cardinality(Allocations)

\* The counters of calls outlast a lifetime of the registry: nobody makes 2^64 calls.
\* The totals of bytes may wrap.
CountersLast == MaxCalls \in 1..(Modulus - Cardinality(Allocations))

\* A Uint64 sum or difference is that of the integers, modulo the width.
LEMMA UintCongruent ==
  ASSUME NEW x \in Word, NEW z \in Word, NEW s \in Int, 0 <= s, s <= Modulus, NEW t \in Int,
         Congruent(x - z, t)
  PROVE  Congruent(Uint(x + s) - z, t + s) /\ Congruent(x - Uint(z + s), t - s)
<1>1. PICK k \in Int : x - z = t + k * Modulus
  BY DEF Congruent
<1>2. Modulus \in Int /\ x \in Int /\ z \in Int /\ x < Modulus /\ z < Modulus /\ x >= 0 /\ z >= 0
  BY WidthAssumption DEF Word
<1>3. PICK m \in Int : m = k * Modulus
  BY <1>2
<1>4. (k - 1) * Modulus = m - Modulus /\ (k + 1) * Modulus = m + Modulus
  BY <1>2, <1>3
<1>5. Uint(x + s) = x + s \/ Uint(x + s) = x + s - Modulus
  BY <1>2 DEF Uint
<1>6. Uint(z + s) = z + s \/ Uint(z + s) = z + s - Modulus
  BY <1>2 DEF Uint
<1>7. \E j \in Int : Uint(x + s) - z = t + s + j * Modulus
  <2>1. CASE Uint(x + s) = x + s
    <3>1. Uint(x + s) - z = t + s + k * Modulus
      BY <1>1, <1>2, <1>3, <2>1
    <3> QED BY <3>1
  <2>2. CASE Uint(x + s) = x + s - Modulus
    <3>1. Uint(x + s) - z = t + s + (k - 1) * Modulus
      BY <1>1, <1>2, <1>3, <1>4, <2>2
    <3> QED BY <3>1
  <2> QED BY <1>5, <2>1, <2>2
<1>8. \E j \in Int : x - Uint(z + s) = t - s + j * Modulus
  <2>1. CASE Uint(z + s) = z + s
    <3>1. x - Uint(z + s) = t - s + k * Modulus
      BY <1>1, <1>2, <1>3, <2>1
    <3> QED BY <3>1
  <2>2. CASE Uint(z + s) = z + s - Modulus
    <3>1. x - Uint(z + s) = t - s + (k + 1) * Modulus
      BY <1>1, <1>2, <1>3, <1>4, <2>2
    <3> QED BY <3>1
  <2> QED BY <1>6, <2>1, <2>2
<1> QED BY <1>7, <1>8 DEF Congruent

\* In the range of a word, congruent is equal.
LEMMA UintExact ==
  ASSUME NEW x \in Word, NEW z \in Word, NEW t \in Word, Congruent(x - z, t)
  PROVE  Uint(x - z) = t
<1>1. PICK k \in Int : x - z = t + k * Modulus
  BY DEF Congruent
<1>2. /\ Modulus \in Int /\ x \in Int /\ z \in Int /\ t \in Int
      /\ x < Modulus /\ z < Modulus /\ t < Modulus /\ x >= 0 /\ z >= 0 /\ t >= 0
  BY WidthAssumption DEF Word
<1>3. PICK m \in Int : m = k * Modulus
  BY <1>2
<1>4. x - z = t + m /\ m < Modulus /\ m > -2 * Modulus
  BY <1>1, <1>2, <1>3
<1>5. m = 0 \/ m = -Modulus
  <2>1. k >= 1 => m >= Modulus
    BY <1>2, <1>3
  <2>2. k <= -2 => m <= -2 * Modulus
    BY <1>2, <1>3
  <2>3. k = 0 => m = 0
    BY <1>2, <1>3
  <2>4. k = -1 => m = -Modulus
    BY <1>2, <1>3
  <2>5. k = 0 \/ k = -1
    BY <1>2, <1>4, <2>1, <2>2
  <2> QED BY <2>3, <2>4, <2>5
<1> QED BY <1>2, <1>4, <1>5 DEF Uint

\* The sets of calls are finite, and their sums and sizes are numbers.
LEMMA TotalsFinite ==
  ASSUME TypeOK
  PROVE  /\ IsFiniteSet(Committed) /\ IsFiniteSet(Counted) /\ IsFiniteSet(Refused)
         /\ IsFiniteSet(Uncounted)
         /\ SumOver(size, Committed) \in Nat /\ Cardinality(Counted) \in Nat
         /\ Cardinality(Refused) \in Nat /\ Cardinality(Uncounted) \in Nat
         /\ Cardinality(Allocations) \in Nat
         /\ \A a \in Allocations : size[a] \in Nat
<1>1. /\ Committed \in SUBSET Allocations /\ Counted \in SUBSET Allocations
      /\ Refused \in SUBSET Allocations /\ Uncounted \in SUBSET Allocations
  BY DEF Committed, Counted, Refused, Uncounted
<1>2. /\ IsFiniteSet(Committed) /\ IsFiniteSet(Counted) /\ IsFiniteSet(Refused)
      /\ IsFiniteSet(Uncounted)
  BY <1>1, AllocationsAssumption, FS_Subset
<1>3. \A a \in Allocations : size[a] \in Nat
  BY WidthAssumption DEF TypeOK, Word
<1>4. \A a \in Committed : size[a] \in Nat
  BY <1>1, <1>3
<1>5. SumOver(size, Committed) \in Nat
  BY <1>2, <1>4, SumNat
<1> QED BY <1>2, <1>3, <1>5, AllocationsAssumption, FS_CardinalityType

-----------------------------------------------------------------------------
\* No step of a call loses or doubles bytes of the totals.
LEMMA BytesStep ==
  ASSUME TypeOK, IdleWhenDown, BytesAddUp, [Next]_vars
  PROVE  BytesAddUp'
<1> DEFINE sum == SumOver(size, Committed)
           later == SumOver(size', Committed')
<1>1. ASSUME Committed' = Committed, \A x \in Committed : size'[x] = size[x],
             UNCHANGED <<TotalAllocatedBytes, TotalFreedBytes>>
      PROVE  BytesAddUp'
  <2>1. SumOver(size', Committed) = SumOver(size, Committed)
    BY <1>1, SumSame
  <2>2. later = sum
    BY <1>1, <2>1, Zenon
  <2> HIDE DEF sum, later
  <2>3. Congruent(TotalAllocatedBytes - TotalFreedBytes, sum)
    BY DEF BytesAddUp, sum
  <2>4. Congruent(TotalAllocatedBytes' - TotalFreedBytes', later)
    BY <1>1, <2>2, <2>3
  <2> QED BY <2>4 DEF BytesAddUp, later, Congruent
<1>2. ASSUME Committed' = {}, TotalAllocatedBytes' = 0, TotalFreedBytes' = 0
      PROVE  BytesAddUp'
  <2>1. SumOver(size', {}) = 0
    BY SumEmpty
  <2>2. later = 0
    BY <1>2, <2>1, Zenon
  <2> HIDE DEF later
  <2>3. 0 \in Int /\ 0 - 0 = 0 + 0 * Modulus
    BY WidthAssumption
  <2>4. Congruent(TotalAllocatedBytes' - TotalFreedBytes', later)
    BY <1>2, <2>2, <2>3 DEF Congruent
  <2> QED BY <2>4 DEF BytesAddUp, later, Congruent
<1>3. CASE UNCHANGED vars
  BY <1>1, <1>3 DEF vars, counters, Committed
<1>4. ASSUME NEW e \in BOOLEAN, Initialize(e) PROVE BytesAddUp'
  BY <1>2, <1>4 DEF Initialize, ResetState, IdleWhenDown, Committed
<1>5. CASE Shutdown
  BY <1>2, <1>5 DEF Shutdown, ResetState, Committed
<1>6. ASSUME NEW a \in Allocations, NEW s \in Sizes, TryReserve(a, s)
      PROVE  BytesAddUp'
  BY <1>1, <1>6 DEF TryReserve, Step, counters, Committed, TypeOK
<1>7. ASSUME NEW a \in Allocations, BackendFree(a) PROVE BytesAddUp'
  BY <1>1, <1>7 DEF BackendFree, Step, counters, Committed, TypeOK
<1>8. ASSUME NEW a \in Allocations, CommitBytes(a) PROVE BytesAddUp'
  <2>1. /\ a \notin Committed /\ Committed' = Committed \cup {a} /\ size' = size
        /\ TotalAllocatedBytes' = Uint(TotalAllocatedBytes + size[a])
        /\ TotalFreedBytes' = TotalFreedBytes
    BY <1>8 DEF CommitBytes, Step, Committed, TypeOK
  <2>2. IsFiniteSet(Committed) /\ \A x \in Committed \cup {a} : size[x] \in Nat
    BY TotalsFinite DEF Committed
  <2>3. SumOver(size, Committed \cup {a}) = SumOver(size, Committed) + size[a]
    BY <2>1, <2>2, SumAdd
  <2>4. later = sum + size[a]
    BY <2>1, <2>3, Zenon
  <2>5. sum \in Int
    BY TotalsFinite
  <2> HIDE DEF sum, later
  <2>6. Congruent(TotalAllocatedBytes - TotalFreedBytes, sum)
    BY DEF BytesAddUp, sum
  <2>7. /\ TotalAllocatedBytes \in Word /\ TotalFreedBytes \in Word /\ size[a] \in Int
        /\ 0 <= size[a] /\ size[a] <= Modulus
    BY WidthAssumption DEF TypeOK, Word
  <2>8. Congruent(Uint(TotalAllocatedBytes + size[a]) - TotalFreedBytes, sum + size[a])
    BY <2>5, <2>6, <2>7, UintCongruent
  <2>9. Congruent(TotalAllocatedBytes' - TotalFreedBytes', later)
    BY <2>1, <2>4, <2>8
  <2> QED BY <2>9 DEF BytesAddUp, later, Congruent
<1>9. ASSUME NEW a \in Allocations, FreeBytes(a) PROVE BytesAddUp'
  <2>1. /\ a \in Committed /\ Committed' = Committed \ {a}
        /\ \A x \in Committed \ {a} : size'[x] = size[x]
        /\ TotalFreedBytes' = Uint(TotalFreedBytes + size[a])
        /\ TotalAllocatedBytes' = TotalAllocatedBytes
    BY <1>9 DEF FreeBytes, Step, Committed, TypeOK
  <2>2. IsFiniteSet(Committed) /\ \A x \in Committed : size[x] \in Nat
    BY TotalsFinite DEF Committed
  <2>3. SumOver(size, Committed \ {a}) = SumOver(size, Committed) - size[a]
    BY <2>1, <2>2, SumRemove
  <2>4. SumOver(size', Committed \ {a}) = SumOver(size, Committed \ {a})
    BY <2>1, SumSame
  <2>5. later = sum - size[a]
    BY <2>1, <2>3, <2>4, Zenon
  <2>6. sum \in Int
    BY TotalsFinite
  <2> HIDE DEF sum, later
  <2>7. Congruent(TotalAllocatedBytes - TotalFreedBytes, sum)
    BY DEF BytesAddUp, sum
  <2>8. /\ TotalAllocatedBytes \in Word /\ TotalFreedBytes \in Word /\ size[a] \in Int
        /\ 0 <= size[a] /\ size[a] <= Modulus
    BY WidthAssumption DEF TypeOK, Word
  <2>9. Congruent(TotalAllocatedBytes - Uint(TotalFreedBytes + size[a]), sum - size[a])
    BY <2>6, <2>7, <2>8, UintCongruent
  <2>10. Congruent(TotalAllocatedBytes' - TotalFreedBytes', later)
    BY <2>1, <2>5, <2>9
  <2> QED BY <2>10 DEF BytesAddUp, later, Congruent
<1>10. ASSUME NEW a \in Allocations, CallStep(a), ~CommitBytes(a), ~FreeBytes(a)
       PROVE  BytesAddUp'
  <2>1. CASE ReserveOverflows(a) \/ ReserveExceedsBudget(a) \/ ReserveExchange(a)
    BY <1>1, <2>1 DEF ReserveOverflows, ReserveExceedsBudget, GiveUp, ReserveExchange, Step,
       counters, Committed, TypeOK
  <2>2. CASE CancelReservation(a) \/ RecordFailure(a) \/ BackendAllocate(a) \/ CommitLoad(a)
    BY <1>1, <2>2 DEF CancelReservation, RecordFailure, BackendAllocate, CommitLoad, Step,
       counters, Committed, TypeOK
  <2>3. CASE CommitCount(a) \/ PeakLoad(a) \/ PeakExchange(a) \/ PeakCovered(a)
    BY <1>1, <2>3 DEF CommitCount, PeakLoad, PeakExchange, PeakCovered, Return, Step,
       counters, Committed, TypeOK
  <2>4. CASE FreeCurrent(a) \/ RecordFreeCount(a)
    BY <1>1, <2>4 DEF FreeCurrent, RecordFreeCount, Step, counters, Committed, TypeOK
  <2> QED BY <1>10, <2>1, <2>2, <2>3, <2>4 DEF CallStep
<1> QED
  BY <1>3, <1>4, <1>5, <1>6, <1>7, <1>8, <1>9, <1>10 DEF Next

\* No step of a call loses or doubles a block of the counts.
LEMMA BlocksStep ==
  ASSUME TypeOK, IdleWhenDown, BlocksAddUp, [Next]_vars
  PROVE  BlocksAddUp'
<1>0. IsFiniteSet(Counted) /\ Cardinality(Counted) \in Int
  BY TotalsFinite
<1>1. ASSUME Counted' = Counted, UNCHANGED <<AllocationCount, FreeCount>>
      PROVE  BlocksAddUp'
  BY <1>1 DEF BlocksAddUp, Congruent
<1>2. ASSUME Counted' = {}, AllocationCount' = 0, FreeCount' = 0
      PROVE  BlocksAddUp'
  <2>1. Cardinality(Counted') = 0
    BY <1>2, FS_EmptySet
  <2>2. 0 \in Int /\ 0 - 0 = 0 + 0 * Modulus
    BY WidthAssumption
  <2> QED BY <1>2, <2>1, <2>2 DEF BlocksAddUp, Congruent
<1>3. CASE UNCHANGED vars
  BY <1>1, <1>3 DEF vars, counters, Counted
<1>4. ASSUME NEW e \in BOOLEAN, Initialize(e) PROVE BlocksAddUp'
  BY <1>2, <1>4 DEF Initialize, ResetState, IdleWhenDown, Counted
<1>5. CASE Shutdown
  BY <1>2, <1>5 DEF Shutdown, ResetState, Counted
<1>6. ASSUME NEW a \in Allocations, NEW s \in Sizes, TryReserve(a, s)
      PROVE  BlocksAddUp'
  BY <1>1, <1>6 DEF TryReserve, Step, counters, Counted, TypeOK
<1>7. ASSUME NEW a \in Allocations, BackendFree(a) PROVE BlocksAddUp'
  BY <1>1, <1>7 DEF BackendFree, Step, counters, Counted, TypeOK
<1>8. /\ AllocationCount \in Word /\ FreeCount \in Word
      /\ 1 \in Int /\ 0 <= 1 /\ 1 <= Modulus
      /\ Congruent(AllocationCount - FreeCount, Cardinality(Counted))
  BY WidthAssumption DEF TypeOK, BlocksAddUp
<1>9. ASSUME NEW a \in Allocations, CommitCount(a) PROVE BlocksAddUp'
  <2>1. /\ a \notin Counted /\ Counted' = Counted \cup {a}
        /\ AllocationCount' = Uint(AllocationCount + 1) /\ FreeCount' = FreeCount
    BY <1>9 DEF CommitCount, Step, Counted, TypeOK
  <2>2. Cardinality(Counted') = Cardinality(Counted) + 1
    BY <1>0, <2>1, FS_AddElement
  <2>3. Congruent(Uint(AllocationCount + 1) - FreeCount, Cardinality(Counted) + 1)
    BY <1>0, <1>8, UintCongruent
  <2>4. Congruent(AllocationCount' - FreeCount', Cardinality(Counted'))
    BY <2>1, <2>2, <2>3
  <2> QED BY <2>4 DEF BlocksAddUp, Congruent
<1>10. ASSUME NEW a \in Allocations, RecordFreeCount(a) PROVE BlocksAddUp'
  <2>1. /\ a \in Counted /\ Counted' = Counted \ {a}
        /\ FreeCount' = Uint(FreeCount + 1) /\ AllocationCount' = AllocationCount
    BY <1>10 DEF RecordFreeCount, Step, Counted, TypeOK
  <2>2. Cardinality(Counted') = Cardinality(Counted) - 1
    BY <1>0, <2>1, FS_RemoveElement
  <2>3. Congruent(AllocationCount - Uint(FreeCount + 1), Cardinality(Counted) - 1)
    BY <1>0, <1>8, UintCongruent
  <2>4. Congruent(AllocationCount' - FreeCount', Cardinality(Counted'))
    BY <2>1, <2>2, <2>3
  <2> QED BY <2>4 DEF BlocksAddUp, Congruent
<1>11. ASSUME NEW a \in Allocations, CallStep(a), ~CommitCount(a), ~RecordFreeCount(a)
       PROVE  BlocksAddUp'
  <2>1. CASE ReserveOverflows(a) \/ ReserveExceedsBudget(a) \/ ReserveExchange(a)
    BY <1>1, <2>1 DEF ReserveOverflows, ReserveExceedsBudget, GiveUp, ReserveExchange, Step,
       counters, Counted, TypeOK
  <2>2. CASE CancelReservation(a) \/ RecordFailure(a) \/ BackendAllocate(a) \/ CommitLoad(a)
    BY <1>1, <2>2 DEF CancelReservation, RecordFailure, BackendAllocate, CommitLoad, Step,
       counters, Counted, TypeOK
  <2>3. CASE CommitBytes(a) \/ PeakLoad(a) \/ PeakExchange(a) \/ PeakCovered(a)
    BY <1>1, <2>3 DEF CommitBytes, PeakLoad, PeakExchange, PeakCovered, Return, Step,
       counters, Counted, TypeOK
  <2>4. CASE FreeCurrent(a) \/ FreeBytes(a)
    BY <1>1, <2>4 DEF FreeCurrent, FreeBytes, Step, counters, Counted, TypeOK
  <2> QED BY <1>11, <2>1, <2>2, <2>3, <2>4 DEF CallStep
<1> QED
  BY <1>3, <1>4, <1>5, <1>6, <1>7, <1>9, <1>10, <1>11 DEF Next

\* The steps of a call that neither begins nor counts.
LEMMA CallsKeep ==
  ASSUME TypeOK, CallsBounded, Uncounted' = Uncounted,
         UNCHANGED <<AllocationCount, FailedAllocationCount>>
  PROVE  CallsBounded'
BY DEF CallsBounded

\* The guard of TryReserve bounds what the counters can come to: the calls that have
\* passed it are no more than the allocations.
LEMMA CallsStep ==
  ASSUME TypeOK, IdleWhenDown, CallsBounded, [Next]_vars
  PROVE  CallsBounded'
<1>0. /\ IsFiniteSet(Uncounted) /\ Cardinality(Uncounted) \in Nat
      /\ Cardinality(Allocations) \in Nat /\ MaxCalls \in Nat
      /\ AllocationCount \in Nat /\ FailedAllocationCount \in Nat
  BY TotalsFinite, CallsAssumption, WidthAssumption DEF TypeOK, Word
<1>1. CASE UNCHANGED vars
  BY <1>1, CallsKeep DEF vars, counters, Uncounted
<1>2. ASSUME NEW e \in BOOLEAN, Initialize(e) PROVE CallsBounded'
  BY <1>2 DEF Initialize, IdleWhenDown, Uncounted, CallsBounded
<1>3. CASE Shutdown
  BY <1>3 DEF Shutdown, Uncounted, CallsBounded
<1>4. ASSUME NEW a \in Allocations, NEW s \in Sizes, TryReserve(a, s)
      PROVE  CallsBounded'
  <2>1. Uncounted' \in SUBSET Allocations
    BY DEF Uncounted
  <2>2. Cardinality(Uncounted') \in Nat /\ Cardinality(Uncounted') <= Cardinality(Allocations)
    BY <2>1, AllocationsAssumption, FS_Subset, FS_CardinalityType
  <2>3. /\ AllocationCount + FailedAllocationCount < MaxCalls
        /\ AllocationCount' = AllocationCount /\ FailedAllocationCount' = FailedAllocationCount
    BY <1>4 DEF TryReserve, counters
  <2>4. AllocationCount' + FailedAllocationCount' + Cardinality(Uncounted')
          < MaxCalls + Cardinality(Allocations)
    BY <1>0, <2>2, <2>3
  <2> QED BY <2>4 DEF CallsBounded
<1>5. ASSUME NEW a \in Allocations, BackendFree(a) PROVE CallsBounded'
  BY <1>5, CallsKeep DEF BackendFree, Step, counters, Uncounted, TypeOK
<1>6. ASSUME NEW a \in Allocations, CommitCount(a) \/ RecordFailure(a)
      PROVE  CallsBounded'
  <2>1. a \in Uncounted /\ Uncounted' = Uncounted \ {a}
    BY <1>6 DEF CommitCount, RecordFailure, Step, Uncounted, TypeOK
  <2>2. Cardinality(Uncounted') = Cardinality(Uncounted) - 1
    BY <1>0, <2>1, FS_RemoveElement
  <2>3. AllocationCount + FailedAllocationCount + Cardinality(Uncounted)
          < MaxCalls + Cardinality(Allocations)
    BY <2>1 DEF CallsBounded
  <2>4. /\ \A n \in Nat : Uint(n + 1) <= n + 1 /\ Uint(n + 1) \in Int
        /\ \/ /\ AllocationCount' = Uint(AllocationCount + 1)
              /\ FailedAllocationCount' = FailedAllocationCount
           \/ /\ FailedAllocationCount' = Uint(FailedAllocationCount + 1)
              /\ AllocationCount' = AllocationCount
    BY <1>6, WidthAssumption DEF CommitCount, RecordFailure, Uint
  <2>5. AllocationCount' + FailedAllocationCount' + Cardinality(Uncounted')
          < MaxCalls + Cardinality(Allocations)
    BY <1>0, <2>2, <2>3, <2>4
  <2> QED BY <2>5 DEF CallsBounded
<1>7. ASSUME NEW a \in Allocations, CallStep(a), ~CommitCount(a), ~RecordFailure(a)
      PROVE  CallsBounded'
  <2>1. CASE ReserveOverflows(a) \/ ReserveExceedsBudget(a) \/ ReserveExchange(a)
    BY <2>1, CallsKeep DEF ReserveOverflows, ReserveExceedsBudget, GiveUp, ReserveExchange,
       Step, counters, Uncounted, TypeOK
  <2>2. CASE CancelReservation(a) \/ BackendAllocate(a) \/ CommitLoad(a) \/ CommitBytes(a)
    BY <2>2, CallsKeep DEF CancelReservation, BackendAllocate, CommitLoad, CommitBytes, Step,
       counters, Uncounted, TypeOK, Committing
  <2>3. CASE PeakLoad(a) \/ PeakExchange(a) \/ PeakCovered(a)
    BY <2>3, CallsKeep DEF PeakLoad, PeakExchange, PeakCovered, Return, Step, counters,
       Uncounted, TypeOK
  <2>4. CASE FreeCurrent(a) \/ FreeBytes(a) \/ RecordFreeCount(a)
    BY <2>4, CallsKeep DEF FreeCurrent, FreeBytes, RecordFreeCount, Step, counters,
       Uncounted, TypeOK
  <2> QED BY <1>7, <2>1, <2>2, <2>3, <2>4 DEF CallStep
<1> QED
  BY <1>1, <1>2, <1>3, <1>4, <1>5, <1>6, <1>7 DEF Next

\* A refusal that the budget counts is a failure counted, or still to be.
LEMMA RefusalsStep ==
  ASSUME TypeOK, IdleWhenDown, CallsBounded, RefusalsRecorded, CountersLast, [Next]_vars
  PROVE  RefusalsRecorded'
<1>0. /\ IsFiniteSet(Refused) /\ Cardinality(Refused) \in Nat
      /\ BudgetExceededCount \in Nat /\ FailedAllocationCount \in Nat /\ AllocationCount \in Nat
      /\ BudgetExceededCount <= FailedAllocationCount + Cardinality(Refused)
  BY TotalsFinite, WidthAssumption DEF TypeOK, Word, RefusalsRecorded
<1>1. ASSUME Refused' = Refused, UNCHANGED <<BudgetExceededCount, FailedAllocationCount>>
      PROVE  RefusalsRecorded'
  BY <1>1 DEF RefusalsRecorded
<1>2. ASSUME NEW a \in Allocations, a \notin Refused, Refused' = Refused \cup {a},
             BudgetExceededCount' \in Int, BudgetExceededCount' <= BudgetExceededCount + 1,
             FailedAllocationCount' = FailedAllocationCount
      PROVE  RefusalsRecorded'
  <2>1. Cardinality(Refused') = Cardinality(Refused) + 1
    BY <1>0, <1>2, FS_AddElement
  <2>2. BudgetExceededCount' <= FailedAllocationCount' + Cardinality(Refused')
    BY <1>0, <1>2, <2>1
  <2> QED BY <2>2 DEF RefusalsRecorded
<1>3. CASE UNCHANGED vars
  BY <1>1, <1>3 DEF vars, counters, Refused
<1>4. CASE Shutdown \/ \E e \in BOOLEAN : Initialize(e)
  <2>1. Refused' = {} /\ BudgetExceededCount' = 0 /\ FailedAllocationCount' = 0
    BY <1>4 DEF Shutdown, Initialize, ResetState, IdleWhenDown, Refused
  <2>2. Cardinality(Refused') = 0
    BY <2>1, FS_EmptySet
  <2>3. BudgetExceededCount' <= FailedAllocationCount' + Cardinality(Refused')
    BY <2>1, <2>2
  <2> QED BY <2>3 DEF RefusalsRecorded
<1>5. ASSUME NEW a \in Allocations, NEW s \in Sizes, TryReserve(a, s)
      PROVE  RefusalsRecorded'
  <2>1. UNCHANGED <<BudgetExceededCount, FailedAllocationCount>>
    BY <1>5 DEF TryReserve, counters
  <2>2. Refused' = Refused \/ (a \notin Refused /\ Refused' = Refused \cup {a})
    BY <1>5 DEF TryReserve, Step, Refused, TypeOK
  <2> QED BY <1>0, <1>1, <1>2, <2>1, <2>2
<1>6. ASSUME NEW a \in Allocations, BackendFree(a) PROVE RefusalsRecorded'
  BY <1>1, <1>6 DEF BackendFree, Step, counters, Refused, TypeOK
<1>7. ASSUME NEW a \in Allocations,
             ReserveOverflows(a) \/ ReserveExceedsBudget(a) \/ CancelReservation(a)
      PROVE  RefusalsRecorded'
  <2>1. a \notin Refused /\ Refused' = Refused \cup {a}
    BY <1>7 DEF ReserveOverflows, ReserveExceedsBudget, CancelReservation, GiveUp, Step,
       Refused, TypeOK
  <2>2. /\ FailedAllocationCount' = FailedAllocationCount
        /\ \/ BudgetExceededCount' = BudgetExceededCount
           \/ BudgetExceededCount' = Uint(BudgetExceededCount + 1)
    BY <1>7 DEF ReserveOverflows, ReserveExceedsBudget, CancelReservation, counters
  <2>3. BudgetExceededCount' \in Int /\ BudgetExceededCount' <= BudgetExceededCount + 1
    BY <1>0, <2>2, WidthAssumption DEF Uint
  <2> QED BY <1>2, <2>1, <2>2, <2>3
<1>8. ASSUME NEW a \in Allocations, RecordFailure(a) PROVE RefusalsRecorded'
  <2>1. /\ a \in Refused /\ Refused' = Refused \ {a} /\ a \in Uncounted
        /\ BudgetExceededCount' = BudgetExceededCount
        /\ FailedAllocationCount' = Uint(FailedAllocationCount + 1)
    BY <1>8 DEF RecordFailure, Step, Refused, Uncounted, TypeOK
  <2>2. Cardinality(Refused') = Cardinality(Refused) - 1
    BY <1>0, <2>1, FS_RemoveElement
  <2>3. Cardinality(Uncounted) \in Nat /\ Cardinality(Uncounted) # 0
    BY <2>1, TotalsFinite, FS_EmptySet
  <2>4. AllocationCount + FailedAllocationCount + Cardinality(Uncounted)
          < MaxCalls + Cardinality(Allocations)
    BY <2>1 DEF CallsBounded
  <2>5. MaxCalls + Cardinality(Allocations) <= Modulus /\ MaxCalls \in Int /\ Modulus \in Int
        /\ Cardinality(Allocations) \in Int
    BY TotalsFinite, WidthAssumption DEF CountersLast
  <2>6. FailedAllocationCount + 1 < Modulus
    BY <1>0, <2>3, <2>4, <2>5
  <2>7. FailedAllocationCount' = FailedAllocationCount + 1
    BY <1>0, <2>1, <2>5, <2>6 DEF Uint
  <2>8. BudgetExceededCount' <= FailedAllocationCount' + Cardinality(Refused')
    BY <1>0, <2>1, <2>2, <2>7
  <2> QED BY <2>8 DEF RefusalsRecorded
<1>9. ASSUME NEW a \in Allocations, CallStep(a),
             ~(ReserveOverflows(a) \/ ReserveExceedsBudget(a) \/ CancelReservation(a)),
             ~RecordFailure(a)
      PROVE  RefusalsRecorded'
  <2>1. CASE ReserveExchange(a) \/ BackendAllocate(a) \/ CommitLoad(a) \/ CommitBytes(a)
    BY <1>1, <2>1 DEF ReserveExchange, BackendAllocate, CommitLoad, CommitBytes, Step,
       counters, Refused, TypeOK, Committing
  <2>2. CASE CommitCount(a) \/ PeakLoad(a) \/ PeakExchange(a) \/ PeakCovered(a)
    BY <1>1, <2>2 DEF CommitCount, PeakLoad, PeakExchange, PeakCovered, Return, Step,
       counters, Refused, TypeOK
  <2>3. CASE FreeCurrent(a) \/ FreeBytes(a) \/ RecordFreeCount(a)
    BY <1>1, <2>3 DEF FreeCurrent, FreeBytes, RecordFreeCount, Step, counters, Refused, TypeOK
  <2> QED BY <1>9, <2>1, <2>2, <2>3 DEF CallStep
<1> QED
  BY <1>3, <1>4, <1>5, <1>6, <1>7, <1>8, <1>9 DEF Next

-----------------------------------------------------------------------------
\* Between calls the totals are right, even after one wrapped: allocated less freed
\* is what is live, and every refusal was counted as a failure.
THEOREM TotalsAreRight ==
  ASSUME CountersLast
  PROVE  Spec => []QuiescentTotals
<1>1. ASSUME Init PROVE BytesAddUp /\ BlocksAddUp /\ RefusalsRecorded /\ CallsBounded
  <2>1. Committed = {} /\ Counted = {} /\ Refused = {} /\ Uncounted = {}
    BY <1>1 DEF Init, Committed, Counted, Refused, Uncounted
  <2>2. SumOver(size, {}) = 0 /\ Cardinality({}) = 0
    BY SumEmpty, FS_EmptySet
  <2>3. 0 \in Int /\ 0 - 0 = 0 + 0 * Modulus
    BY WidthAssumption
  <2>4. Congruent(0 - 0, 0)
    BY <2>3 DEF Congruent
  <2>5. SumOver(size, Committed) = 0 /\ Cardinality(Counted) = 0 /\ Cardinality(Refused) = 0
    BY <2>1, <2>2, Zenon
  <2>6. /\ TotalAllocatedBytes = 0 /\ TotalFreedBytes = 0 /\ AllocationCount = 0
        /\ FreeCount = 0 /\ BudgetExceededCount = 0 /\ FailedAllocationCount = 0
    BY <1>1 DEF Init
  <2>7. BytesAddUp /\ BlocksAddUp
    BY <2>4, <2>5, <2>6 DEF BytesAddUp, BlocksAddUp
  <2> QED BY <2>1, <2>5, <2>6, <2>7 DEF RefusalsRecorded, CallsBounded
<1>2. ASSUME IInv, BytesAddUp, BlocksAddUp, RefusalsRecorded, CallsBounded, [Next]_vars
      PROVE  (BytesAddUp /\ BlocksAddUp /\ RefusalsRecorded /\ CallsBounded)'
  BY <1>2, BytesStep, BlocksStep, RefusalsStep, CallsStep DEF IInv
<1>3. ASSUME IInv, BytesAddUp, BlocksAddUp, RefusalsRecorded PROVE QuiescentTotals
  <2> SUFFICES ASSUME Quiescent
               PROVE  /\ Uint(TotalAllocatedBytes - TotalFreedBytes) = CurrentBytes
                      /\ Uint(AllocationCount - FreeCount) = Cardinality(Live)
                      /\ BudgetExceededCount <= FailedAllocationCount
    BY DEF QuiescentTotals
  <2>1. TypeOK /\ CurrentMatchesHolding
    BY <1>3 DEF IInv
  <2>2. Committed = Holding /\ Counted = Live /\ Refused = {}
    BY DEF Quiescent, Committed, Counted, Refused, Holding, Live, Committing
  <2>3. SumOver(size, Committed) = CurrentBytes
    BY <2>1, <2>2, Zenon DEF CurrentMatchesHolding
  <2>4. Uint(TotalAllocatedBytes - TotalFreedBytes) = CurrentBytes
    <3>1. Congruent(TotalAllocatedBytes - TotalFreedBytes, CurrentBytes)
      BY <1>3, <2>3 DEF BytesAddUp
    <3>2. /\ TotalAllocatedBytes \in Word /\ TotalFreedBytes \in Word /\ CurrentBytes \in Word
      BY <2>1 DEF TypeOK
    <3> QED BY <3>1, <3>2, UintExact
  <2>5. Uint(AllocationCount - FreeCount) = Cardinality(Live)
    <3>1. Congruent(AllocationCount - FreeCount, Cardinality(Live))
      BY <1>3, <2>2 DEF BlocksAddUp
    <3>2. AllocationCount \in Word /\ FreeCount \in Word
      BY <2>1 DEF TypeOK
    <3>3. Live \in SUBSET Allocations
      BY DEF Live
    <3>4. Cardinality(Live) \in Nat /\ Cardinality(Live) <= Cardinality(Allocations)
      BY <3>3, AllocationsAssumption, FS_Subset, FS_CardinalityType
    <3>5. Cardinality(Live) \in Word
      BY <2>1, <3>4, TotalsFinite, WidthAssumption DEF CountersLast, Word
    <3> QED BY <3>1, <3>2, <3>5, UintExact
  <2>6. BudgetExceededCount <= FailedAllocationCount
    <3>1. Cardinality(Refused) = 0
      BY <2>2, FS_EmptySet
    <3>2. FailedAllocationCount \in Nat
      BY <2>1, WidthAssumption DEF TypeOK, Word
    <3> QED BY <1>3, <3>1, <3>2 DEF RefusalsRecorded
  <2> QED BY <2>4, <2>5, <2>6
<1> QED BY <1>1, <1>2, <1>3, InvariantHolds, PTL DEF Spec
=============================================================================
