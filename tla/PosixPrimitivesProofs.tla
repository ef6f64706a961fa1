------------------------ MODULE PosixPrimitivesProofs ------------------------
(***************************************************************************)
(* Proofs about the pthread semaphore and the pthread event, for any set   *)
(* of threads, any counts and any width of the counter: no wakeup and no   *)
(* signal is lost, and every step is one that a counting semaphore or an   *)
(* event flag may take.                                                    *)
(***************************************************************************)
EXTENDS Semaphore, Event, FiniteSetTheorems, TLAPS

-----------------------------------------------------------------------------
(* What the steps of a wait do to those who wait.                          *)

LEMMA SleepMoves ==
  ASSUME WaitTypeOK, NEW t \in Threads, NEW d \in {"None", "Ahead", "Passed"}, Sleep(t, d)
  PROVE  /\ WaitTypeOK'
         /\ Contenders' = Contenders \ {t}
         /\ Idle' = Idle \ {t}
BY DEF WaitTypeOK, Sleep, Contenders, Idle

LEMMA SleepAgainMoves ==
  ASSUME WaitTypeOK, NEW t \in Threads, pc[t] = "Awake", SleepAgain(t)
  PROVE  WaitTypeOK' /\ Idle' = Idle /\ UNCHANGED deadline
BY DEF WaitTypeOK, SleepAgain, Idle

LEMMA LeaveMoves ==
  ASSUME WaitTypeOK, NEW t \in Contenders, Leave(t)
  PROVE  /\ WaitTypeOK'
         /\ Sleepers' = Sleepers
         /\ Contenders' = Contenders \ {t}
         /\ Idle' = Idle \cup {t}
         /\ deadline' = [deadline EXCEPT ![t] = "None"]
BY DEF WaitTypeOK, Leave, Sleepers, Contenders, Idle

\* A signal turns a sleeper, if there is one, into a contender.
LEMMA SignalMoves ==
  ASSUME WaitTypeOK, Signal
  PROVE  /\ WaitTypeOK' /\ Idle' = Idle /\ UNCHANGED deadline
         /\ \/ Sleepers' = {} /\ Contenders' = Contenders
            \/ \E t \in Threads : t \notin Contenders /\ Contenders' = Contenders \cup {t}
<1>1. CASE Sleepers = {}
  <2>1. pc' = pc /\ deadline' = deadline
    BY <1>1 DEF Signal
  <2> QED BY <1>1, <2>1 DEF WaitTypeOK, Sleepers, Contenders, Idle
<1>2. CASE Sleepers # {}
  <2>1. PICK t \in Sleepers : pc' = [pc EXCEPT ![t] = "Awake"] /\ deadline' = deadline
    BY <1>2 DEF Signal
  <2>2. t \in Threads /\ pc[t] = "Asleep"
    BY DEF Sleepers
  <2>3. t \notin Contenders /\ Contenders' = Contenders \cup {t}
    BY <2>1, <2>2 DEF WaitTypeOK, Contenders
  <2> QED BY <2>1, <2>2, <2>3 DEF WaitTypeOK, Idle
<1> QED BY <1>1, <1>2

LEMMA BroadcastMoves ==
  ASSUME WaitTypeOK, Broadcast
  PROVE  WaitTypeOK' /\ Idle' = Idle /\ Sleepers' = {} /\ UNCHANGED deadline
BY DEF WaitTypeOK, Broadcast, Sleepers, Idle

\* A deadline, a timer or a spurious wakeup only adds contenders.
LEMMA WaitStepMoves ==
  ASSUME WaitTypeOK, NEW t \in Threads, WaitStep(t)
  PROVE  /\ WaitTypeOK' /\ Idle' = Idle
         /\ {u \in Threads : deadline'[u] # "None"} = {u \in Threads : deadline[u] # "None"}
         /\ \/ Sleepers' = Sleepers /\ Contenders' = Contenders
            \/ Contenders' = Contenders \cup {t}
<1>1. CASE DeadlinePasses(t)
  BY <1>1 DEF DeadlinePasses, WaitTypeOK, Sleepers, Contenders, Idle
<1>2. CASE TimerFires(t) \/ SpuriousWakeup(t)
  BY <1>2 DEF TimerFires, SpuriousWakeup, WaitTypeOK, Sleepers, Contenders, Idle
<1> QED BY <1>1, <1>2 DEF WaitStep

-----------------------------------------------------------------------------
(* Deadlines.                                                              *)

\* Only a thread that waits has a deadline, and only one whose deadline is
\* behind it times out.
DeadlineOfWaiter ==
  /\ \A t \in Threads : deadline[t] # "None" => t \notin Idle
  /\ \A t \in Threads : pc[t] = "TimedOut" => deadline[t] = "Passed"

LEMMA SleepDeadline ==
  ASSUME WaitTypeOK, DeadlineOfWaiter, NEW t \in Threads, NEW d \in {"None", "Ahead", "Passed"}, Sleep(t, d)
  PROVE  DeadlineOfWaiter'
BY DEF WaitTypeOK, DeadlineOfWaiter, Sleep, Idle

LEMMA SleepAgainDeadline ==
  ASSUME WaitTypeOK, DeadlineOfWaiter, NEW t \in Threads, pc[t] = "Awake", SleepAgain(t)
  PROVE  DeadlineOfWaiter'
BY DEF WaitTypeOK, DeadlineOfWaiter, SleepAgain, Idle

LEMMA LeaveDeadline ==
  ASSUME WaitTypeOK, DeadlineOfWaiter, NEW t \in Threads, Leave(t)
  PROVE  DeadlineOfWaiter'
BY DEF WaitTypeOK, DeadlineOfWaiter, Leave, Idle

LEMMA WakeDeadline ==
  ASSUME WaitTypeOK, DeadlineOfWaiter, Signal \/ Broadcast
  PROVE  DeadlineOfWaiter'
BY DEF WaitTypeOK, DeadlineOfWaiter, Signal, Broadcast, Sleepers, Idle

LEMMA WaitStepDeadline ==
  ASSUME WaitTypeOK, DeadlineOfWaiter, NEW t \in Threads, WaitStep(t)
  PROVE  DeadlineOfWaiter'
BY DEF WaitTypeOK, DeadlineOfWaiter, WaitStep, DeadlinePasses, TimerFires,
       SpuriousWakeup, Idle

-----------------------------------------------------------------------------
(* The semaphore.                                                          *)

\* The count a release fits into neither wraps nor exceeds the maximum.
LEMMA ReleaseExact ==
  ASSUME SemaphoreTypeOK, NEW n \in Releases, Fits(n)
  PROVE  /\ n \in Nat
         /\ Uint(Count + n) = Count + n
         /\ Count + n \in 0..MaximumCount
<1>1. /\ n \in 0..(Modulus - 1) /\ Count \in 0..MaximumCount
      /\ MaximumCount \in 0..(Modulus - 1)
  BY ReleasesAssumption DEF SemaphoreTypeOK
<1>2. Uint(MaximumCount - Count) = MaximumCount - Count
  BY <1>1, WidthAssumption DEF Uint
<1>3. n <= MaximumCount - Count
  BY <1>2 DEF Fits
<1>4. n \in Nat /\ Count + n \in 0..MaximumCount /\ Count + n \in 0..(Modulus - 1)
  BY <1>1, <1>3, WidthAssumption
<1>5. Uint(Count + n) = Count + n
  BY <1>4, WidthAssumption DEF Uint
<1> QED BY <1>4, <1>5

\* Threads on their way to the mutex can be counted.
LEMMA ContendersFinite ==
  ASSUME NEW S \in SUBSET Threads
  PROVE  IsFiniteSet(S) /\ Cardinality(S) \in Nat
BY ThreadsAssumption, FS_Subset, FS_CardinalityType

-----------------------------------------------------------------------------
(* Every step preserves the invariant.                                     *)

LEMMA SemaphoreInitInvariant == SemaphoreInit => SemaphoreIInv
<1> SUFFICES ASSUME SemaphoreInit PROVE SemaphoreIInv
  OBVIOUS
<1>1. WaitTypeOK /\ Sleepers = {} /\ Idle = Threads
  BY DEF SemaphoreInit, WaitInit, WaitTypeOK, Sleepers, Idle
<1>2. SemaphoreTypeOK
  <2>1. 0 \in 0..(Modulus - 1) /\ 0 \in 0..0
    BY WidthAssumption
  <2> QED BY <1>1, <2>1 DEF SemaphoreInit, SemaphoreTypeOK
<1> QED BY <1>1, <1>2 DEF SemaphoreIInv, NoWakeupLost

\* Taking a permit takes one contender away, or none.
LEMMA TakeStep ==
  ASSUME SemaphoreIInv, NEW t \in Threads, AcquireSemaphore(t) \/ TakeAfterWait(t)
  PROVE  SemaphoreIInv'
<1>1. Count > 0 /\ Count' = Count - 1 /\ UNCHANGED <<Initialized, MaximumCount>>
  BY DEF AcquireSemaphore, TakeAfterWait
<1>2. Count \in Nat /\ MaximumCount \in Nat
  BY WidthAssumption DEF SemaphoreIInv, SemaphoreTypeOK
<1>3. CASE AcquireSemaphore(t)
  <2>1. pc' = pc /\ deadline' = deadline
    BY <1>3 DEF AcquireSemaphore, waits
  <2>2. WaitTypeOK' /\ Sleepers' = Sleepers /\ Contenders' = Contenders /\ Idle' = Idle
    BY <2>1 DEF WaitTypeOK, Sleepers, Contenders, Idle, SemaphoreIInv, SemaphoreTypeOK
  <2>3. SemaphoreTypeOK'
    BY <1>1, <1>2, <2>2 DEF SemaphoreIInv, SemaphoreTypeOK
  <2>4. NoWakeupLost'
    <3>1. Cardinality(Contenders) \in Nat
      BY ContendersFinite DEF Contenders
    <3>2. Sleepers = {} \/ Cardinality(Contenders) >= Count - 1
      BY <1>2, <3>1 DEF SemaphoreIInv, NoWakeupLost
    <3> QED BY <1>1, <2>2, <3>2, Zenon DEF NoWakeupLost
  <2> QED BY <1>1, <2>2, <2>3, <2>4 DEF SemaphoreIInv
<1>4. CASE TakeAfterWait(t)
  <2>1. t \in Contenders /\ Leave(t)
    BY <1>4 DEF TakeAfterWait
  <2>2. /\ WaitTypeOK' /\ Sleepers' = Sleepers /\ Contenders' = Contenders \ {t}
        /\ Idle' = Idle \cup {t}
    BY <2>1, LeaveMoves DEF SemaphoreIInv, SemaphoreTypeOK
  <2>3. SemaphoreTypeOK'
    BY <1>1, <1>2, <2>2 DEF SemaphoreIInv, SemaphoreTypeOK
  <2>4. NoWakeupLost'
    <3>1. IsFiniteSet(Contenders) /\ Cardinality(Contenders) \in Nat
      BY ContendersFinite DEF Contenders
    <3>2. Cardinality(Contenders \ {t}) = Cardinality(Contenders) - 1
      BY <2>1, <3>1, FS_RemoveElement
    <3>3. Sleepers = {} \/ Cardinality(Contenders \ {t}) >= Count - 1
      BY <1>2, <3>1, <3>2 DEF SemaphoreIInv, NoWakeupLost
    <3> QED BY <1>1, <2>2, <3>3, Zenon DEF NoWakeupLost
  <2>5. Idle' = Threads \/ Initialized'
    BY <1>1, <2>1, <2>2 DEF SemaphoreIInv, Contenders, Idle
  <2> QED BY <1>1, <2>2, <2>3, <2>4, <2>5 DEF SemaphoreIInv
<1> QED BY <1>3, <1>4

\* With no permit there is none to look for.
LEMMA EmptyStep ==
  ASSUME SemaphoreIInv, NEW t \in Threads, AcquireWaits(t) \/ AcquireAgain(t) \/ AcquireGivesUp(t)
  PROVE  SemaphoreIInv'
<1>1. Count = 0 /\ Count' = 0 /\ MaximumCount' = MaximumCount /\ Initialized' = Initialized
  BY DEF AcquireWaits, AcquireAgain, AcquireGivesUp, counts
<1>2. WaitTypeOK' /\ (Idle' = Threads \/ Initialized')
  <2>1. CASE AcquireWaits(t)
    BY <1>1, <2>1, SleepMoves DEF AcquireWaits, SemaphoreIInv, SemaphoreTypeOK
  <2>2. CASE AcquireAgain(t)
    BY <1>1, <2>2, SleepAgainMoves DEF AcquireAgain, SemaphoreIInv, SemaphoreTypeOK
  <2>3. CASE AcquireGivesUp(t)
    <3>1. t \in Contenders
      BY <2>3 DEF AcquireGivesUp, Contenders
    <3> QED BY <1>1, <2>3, <3>1, LeaveMoves DEF AcquireGivesUp, SemaphoreIInv, SemaphoreTypeOK, Contenders, Idle
  <2> QED BY <2>1, <2>2, <2>3
<1>3. SemaphoreTypeOK'
  BY <1>1, <1>2 DEF SemaphoreIInv, SemaphoreTypeOK
<1>4. NoWakeupLost'
  <2>1. \A S \in SUBSET Threads : Cardinality(S) >= 0
    BY ContendersFinite
  <2>2. Contenders' \in SUBSET Threads
    BY DEF Contenders
  <2>3. Cardinality(Contenders') >= 0
    BY <2>1, <2>2
  <2> QED BY <1>1, <2>3, Zenon DEF NoWakeupLost
<1> QED BY <1>2, <1>3, <1>4 DEF SemaphoreIInv

\* One permit wakes one sleeper, several wake all.
LEMMA ReleaseStep ==
  ASSUME SemaphoreIInv, NEW n \in Releases, ReleaseSemaphore(n)
  PROVE  SemaphoreIInv'
<1>1. /\ n \in Nat /\ Count' = Count + n /\ Count + n \in 0..MaximumCount
      /\ Initialized /\ Initialized' = Initialized /\ MaximumCount' = MaximumCount
  BY ReleaseExact DEF ReleaseSemaphore, SemaphoreIInv
<1>2. Count \in Nat /\ WaitTypeOK
  BY WidthAssumption DEF SemaphoreIInv, SemaphoreTypeOK
<1>3. CASE n = 1
  <2>1. Signal
    BY <1>3 DEF ReleaseSemaphore, NotifyReleased
  <2>2. SemaphoreTypeOK'
    BY <1>1, <1>2, <2>1, SignalMoves DEF SemaphoreIInv, SemaphoreTypeOK
  <2>3. NoWakeupLost'
    <3>1. CASE Sleepers' = {}
      BY <3>1 DEF NoWakeupLost
    <3>2. CASE Sleepers' # {}
      <4>1. Sleepers # {}
        BY <2>1, <3>2 DEF Signal, Sleepers
      <4>2. PICK t \in Threads : t \notin Contenders /\ Contenders' = Contenders \cup {t}
        BY <1>2, <2>1, <3>2, SignalMoves
      <4>3. IsFiniteSet(Contenders) /\ Cardinality(Contenders) \in Nat
        BY ContendersFinite DEF Contenders
      <4>4. Cardinality(Contenders \cup {t}) = Cardinality(Contenders) + 1
        BY <4>2, <4>3, FS_AddElement
      <4>5. Cardinality(Contenders \cup {t}) >= Count + n
        BY <1>2, <1>3, <4>1, <4>3, <4>4 DEF SemaphoreIInv, NoWakeupLost
      <4> QED BY <1>1, <4>2, <4>5, Zenon DEF NoWakeupLost
    <3> QED BY <3>1, <3>2
  <2> QED BY <1>1, <2>2, <2>3 DEF SemaphoreIInv
<1>4. CASE n # 1
  <2>1. Broadcast
    BY <1>4 DEF ReleaseSemaphore, NotifyReleased
  <2>2. WaitTypeOK' /\ Sleepers' = {}
    BY <1>2, <2>1, BroadcastMoves
  <2> QED BY <1>1, <1>2, <2>2 DEF SemaphoreIInv, SemaphoreTypeOK, NoWakeupLost
<1> QED BY <1>3, <1>4

\* A timer or a spurious wakeup adds a contender, which can only help.
LEMMA SemaphoreWakeupStep ==
  ASSUME SemaphoreIInv, NEW t \in Threads, WaitStep(t), UNCHANGED <<Initialized, counts>>
  PROVE  SemaphoreIInv'
<1>1. Count' = Count /\ MaximumCount' = MaximumCount /\ Initialized' = Initialized
  BY DEF counts
<1>2. WaitTypeOK
  BY DEF SemaphoreIInv, SemaphoreTypeOK
<1>3. SemaphoreTypeOK' /\ Idle' = Idle
  BY <1>1, <1>2, WaitStepMoves DEF SemaphoreIInv, SemaphoreTypeOK
<1>4. NoWakeupLost'
  <2>1. CASE Sleepers' = Sleepers /\ Contenders' = Contenders
    BY <1>1, <2>1, Zenon DEF SemaphoreIInv, NoWakeupLost
  <2>2. CASE Contenders' = Contenders \cup {t}
    <3>1. IsFiniteSet(Contenders) /\ Cardinality(Contenders) \in Nat
      BY ContendersFinite DEF Contenders
    <3>2. Cardinality(Contenders \cup {t}) =
            IF t \in Contenders THEN Cardinality(Contenders) ELSE Cardinality(Contenders) + 1
      BY <3>1, FS_AddElement
    <3>3. Cardinality(Contenders \cup {t}) \in Nat
      BY <2>2, ContendersFinite DEF Contenders
    <3>4. Sleepers = {} \/ Cardinality(Contenders \cup {t}) >= Count
      BY <3>1, <3>2, <3>3, WidthAssumption DEF SemaphoreIInv, NoWakeupLost, SemaphoreTypeOK
    <3>5. Sleepers' \subseteq Sleepers
      BY <1>2 DEF WaitStep, DeadlinePasses, TimerFires, SpuriousWakeup, Sleepers, WaitTypeOK
    <3>6. Sleepers' = {} \/ Cardinality(Contenders \cup {t}) >= Count
      BY <3>4, <3>5
    <3> QED BY <1>1, <2>2, <3>6, Zenon DEF NoWakeupLost
  <2> QED BY <1>2, <2>1, <2>2, WaitStepMoves
<1> QED BY <1>1, <1>3, <1>4 DEF SemaphoreIInv

\* Creation and destruction happen while nobody waits.
LEMMA SemaphoreLifeStep ==
  ASSUME SemaphoreIInv, InitializeSemaphore \/ ShutdownSemaphore
  PROVE  SemaphoreIInv'
<1>1. pc' = pc /\ deadline' = deadline
  BY DEF InitializeSemaphore, ShutdownSemaphore, waits
<1>2. Idle = Threads
  BY DEF InitializeSemaphore, ShutdownSemaphore, SemaphoreIInv
<1>3. WaitTypeOK' /\ Idle' = Threads /\ Sleepers' = {}
  BY <1>1, <1>2 DEF SemaphoreIInv, SemaphoreTypeOK, WaitTypeOK, Idle, Sleepers
<1>4. Initialized' \in BOOLEAN /\ MaximumCount' \in 0..(Modulus - 1) /\ Count' \in 0..MaximumCount'
  <2>1. CASE InitializeSemaphore
    <3>1. PICK desc \in Descs : /\ ValidDesc(desc)
                                /\ Count' = desc[1] /\ MaximumCount' = desc[2]
      BY <2>1 DEF InitializeSemaphore
    <3>2. desc[1] \in 0..(Modulus - 1) /\ desc[2] \in 0..(Modulus - 1)
      BY DescsAssumption
    <3> QED BY <2>1, <3>1, <3>2, WidthAssumption DEF InitializeSemaphore, ValidDesc
  <2>2. CASE ShutdownSemaphore
    <3>1. 0 \in 0..(Modulus - 1) /\ 0 \in 0..0
      BY WidthAssumption
    <3> QED BY <2>2, <3>1 DEF ShutdownSemaphore
  <2> QED BY <2>1, <2>2
<1> QED BY <1>3, <1>4 DEF SemaphoreIInv, SemaphoreTypeOK, NoWakeupLost

\* Every step preserves the invariant.
LEMMA SemaphoreInvariantStep ==
  ASSUME SemaphoreIInv, [SemaphoreNext]_semaphoreVars
  PROVE  SemaphoreIInv'
<1>1. CASE UNCHANGED semaphoreVars
  BY <1>1 DEF semaphoreVars, counts, waits, SemaphoreIInv, SemaphoreTypeOK, NoWakeupLost, WaitTypeOK, Sleepers,
              Contenders, Idle
<1>2. CASE InitializeSemaphore \/ ShutdownSemaphore
  BY <1>2, SemaphoreLifeStep
<1>3. ASSUME NEW n \in Releases, ReleaseSemaphore(n) PROVE SemaphoreIInv'
  BY <1>3, ReleaseStep
<1>4. ASSUME NEW t \in Threads, AcquireSemaphore(t) \/ AcquireWaits(t) \/ AcquireResumes(t)
      PROVE SemaphoreIInv'
  BY <1>4, TakeStep, EmptyStep DEF AcquireResumes
<1>5. ASSUME NEW t \in Threads, WaitStep(t), UNCHANGED <<Initialized, counts>>
      PROVE SemaphoreIInv'
  BY <1>5, SemaphoreWakeupStep
<1> QED BY <1>1, <1>2, <1>3, <1>4, <1>5 DEF SemaphoreNext

\* The types, the wakeups and the idle threads of a dead semaphore.
THEOREM SemaphoreInvariantHolds == SemaphoreSpec => []SemaphoreIInv
<1>1. SemaphoreInit => SemaphoreIInv
  BY SemaphoreInitInvariant
<1>2. SemaphoreIInv /\ [SemaphoreNext]_semaphoreVars => SemaphoreIInv'
  BY SemaphoreInvariantStep
<1> QED BY <1>1, <1>2, PTL DEF SemaphoreSpec

\* The count never exceeds the maximum, nor wraps.
THEOREM SemaphoreTypesKept == SemaphoreSpec => []SemaphoreTypeOK
<1>1. SemaphoreIInv => SemaphoreTypeOK
  BY DEF SemaphoreIInv
<1> QED BY <1>1, SemaphoreInvariantHolds, PTL

\* No permit is left over while a thread sleeps and none is on its way.
THEOREM WakeupsKept == SemaphoreSpec => []NoWakeupLost
<1>1. SemaphoreIInv => NoWakeupLost
  BY DEF SemaphoreIInv
<1> QED BY <1>1, SemaphoreInvariantHolds, PTL

-----------------------------------------------------------------------------
(* The semaphore is a counting semaphore, as far as safety goes.           *)

\* A thread is idle again after its wait, and has no deadline.
LEMMA SemaphoreInitRefines == SemaphoreInit => Counting!Init /\ DeadlineOfWaiter
BY DEF SemaphoreInit, WaitInit, Idle, Counting!Init, DeadlineOfWaiter

\* A deadline is set when the wait begins and forgotten when it ends.
LEMMA SemaphoreDeadlineStep ==
  ASSUME SemaphoreTypeOK, DeadlineOfWaiter, [SemaphoreNext]_semaphoreVars
  PROVE  DeadlineOfWaiter'
<1>0. WaitTypeOK
  BY DEF SemaphoreTypeOK
<1>1. CASE UNCHANGED <<pc, deadline>>
  BY <1>1 DEF DeadlineOfWaiter, Idle
<1>2. ASSUME NEW t \in Threads, AcquireWaits(t) PROVE DeadlineOfWaiter'
  BY <1>0, <1>2, SleepDeadline DEF AcquireWaits
<1>3. ASSUME NEW t \in Threads, AcquireResumes(t) PROVE DeadlineOfWaiter'
  BY <1>0, <1>3, SleepAgainDeadline, LeaveDeadline
  DEF AcquireResumes, TakeAfterWait, AcquireAgain, AcquireGivesUp, Contenders
<1>4. ASSUME NEW t \in Threads, WaitStep(t) PROVE DeadlineOfWaiter'
  BY <1>0, <1>4, WaitStepDeadline
<1>5. CASE Signal \/ Broadcast
  BY <1>0, <1>5, WakeDeadline
<1> QED
  BY <1>1, <1>2, <1>3, <1>4, <1>5
  DEF SemaphoreNext, semaphoreVars, waits, InitializeSemaphore, ShutdownSemaphore, ReleaseSemaphore,
      NotifyReleased, AcquireSemaphore

\* Every step of the semaphore is a step of the counting semaphore or leaves
\* it alone.
LEMMA SemaphoreStepRefines ==
  ASSUME SemaphoreIInv, DeadlineOfWaiter, [SemaphoreNext]_semaphoreVars
  PROVE  [Counting!Next]_Counting!vars
<1> DEFINE awaited == {t \in Threads : deadline[t] # "None"}
<1>0. SemaphoreTypeOK /\ WaitTypeOK
  BY DEF SemaphoreIInv, SemaphoreTypeOK
<1>1. CASE UNCHANGED semaphoreVars
  BY <1>1 DEF semaphoreVars, counts, waits, Counting!vars, Idle
<1>2. CASE InitializeSemaphore
  <2>1. PICK desc \in Descs :
          /\ ValidDesc(desc)
          /\ Count' = desc[1]
          /\ MaximumCount' = desc[2]
    BY <1>2 DEF InitializeSemaphore
  <2>2. desc[2] > 0 /\ desc[1] <= desc[2]
    BY <2>1, DescsAssumption, WidthAssumption DEF ValidDesc
  <2>3. Idle' = Idle /\ deadline' = deadline
    BY <1>2 DEF InitializeSemaphore, waits, Idle
  <2>4. Counting!Create
    BY <1>2, <2>1, <2>2, <2>3 DEF InitializeSemaphore, Counting!Create
  <2> QED BY <2>4 DEF Counting!Next
<1>3. CASE ShutdownSemaphore
  BY <1>3 DEF ShutdownSemaphore, waits, Counting!Next, Counting!Destroy, Idle
<1>4. ASSUME NEW n \in Releases, ReleaseSemaphore(n) PROVE Counting!Release
  <2>1. /\ n \in Nat /\ Count' = Count + n /\ Count + n \in 0..MaximumCount
        /\ Initialized /\ Initialized' = Initialized /\ MaximumCount' = MaximumCount
    BY <1>0, <1>4, ReleaseExact DEF ReleaseSemaphore
  <2>2. Idle' = Idle /\ deadline' = deadline
    BY <1>0, <1>4, SignalMoves, BroadcastMoves DEF ReleaseSemaphore, NotifyReleased
  <2>3. n \in 1..(MaximumCount - Count)
    BY <1>0, <1>4, <2>1, WidthAssumption DEF ReleaseSemaphore, SemaphoreTypeOK
  <2> QED BY <2>1, <2>2, <2>3 DEF Counting!Release
<1>5. ASSUME NEW t \in Threads, AcquireSemaphore(t) PROVE Counting!Acquire(t)
  BY <1>5 DEF AcquireSemaphore, waits, Idle, Counting!Acquire
<1>6. ASSUME NEW t \in Threads, AcquireWaits(t) PROVE Counting!Wait(t)
  <2>1. PICK d \in {"None", "Ahead"} : Sleep(t, d)
    BY <1>6 DEF AcquireWaits
  <2>2. t \in Idle /\ t \notin awaited
    BY <1>6 DEF AcquireWaits, DeadlineOfWaiter
  <2>3. Threads \ Idle' = (Threads \ Idle) \cup {t}
    BY <1>0, <2>1, <2>2, SleepMoves
  <2>4. awaited' \in {awaited, awaited \cup {t}}
    <3>0. /\ deadline'[t] = d
          /\ \A s \in Threads \ {t} : deadline'[s] = deadline[s]
      BY <1>0, <2>1 DEF Sleep, WaitTypeOK
    <3>1. CASE d = "None"
      <4>1. \A s \in Threads : s \in awaited' <=> s \in awaited
        BY <2>2, <3>0, <3>1
      <4> QED BY <4>1
    <3>2. CASE d = "Ahead"
      <4>1. \A s \in Threads : s \in awaited' <=> (s \in awaited \/ s = t)
        BY <2>2, <3>0, <3>2
      <4>2. awaited' = awaited \cup {t}
        BY <4>1
      <4> QED BY <4>2
    <3> QED BY <3>1, <3>2
  <2> QED BY <1>6, <2>2, <2>3, <2>4 DEF AcquireWaits, counts, Counting!Wait
<1>7. ASSUME NEW t \in Threads, TakeAfterWait(t) \/ AcquireGivesUp(t)
      PROVE  Counting!Take(t) \/ Counting!GiveUp(t)
  <2>1. t \in Contenders /\ Leave(t)
    BY <1>7 DEF TakeAfterWait, AcquireGivesUp, Contenders
  <2>2. t \notin Idle
    BY <2>1 DEF Contenders, Idle
  <2>3. Threads \ Idle' = (Threads \ Idle) \ {t} /\ awaited' = awaited \ {t}
    BY <1>0, <2>1, LeaveMoves DEF WaitTypeOK, Idle
  <2>4. CASE TakeAfterWait(t)
    BY <2>2, <2>3, <2>4 DEF TakeAfterWait, Counting!Take
  <2>5. CASE AcquireGivesUp(t)
    <3>1. t \in awaited
      BY <2>5 DEF AcquireGivesUp, DeadlineOfWaiter
    <3> QED BY <2>3, <2>5, <3>1 DEF AcquireGivesUp, counts, Counting!GiveUp
  <2> QED BY <1>7, <2>4, <2>5
<1>8. ASSUME NEW t \in Threads, AcquireAgain(t) PROVE UNCHANGED Counting!vars
  <2>1. Idle' = Idle /\ deadline' = deadline
    BY <1>0, <1>8, SleepAgainMoves DEF AcquireAgain
  <2> QED BY <1>8, <2>1 DEF AcquireAgain, counts, Counting!vars
<1>9. ASSUME NEW t \in Threads, WaitStep(t), UNCHANGED <<Initialized, counts>>
      PROVE UNCHANGED Counting!vars
  BY <1>0, <1>9, WaitStepMoves DEF counts, Counting!vars
<1> QED
  BY <1>1, <1>2, <1>3, <1>4, <1>5, <1>6, <1>7, <1>8, <1>9
  DEF SemaphoreNext, AcquireResumes, Counting!Next

\* In every execution the permits and the waiting threads are those of a
\* counting semaphore: none is made up or lost, and no call waits or gives up
\* while there is one.
THEOREM SemaphoreIsSafe == SemaphoreSpec => Counting!Safe
<1>1. SemaphoreInit => Counting!Init /\ DeadlineOfWaiter
  BY SemaphoreInitRefines
<1>2. SemaphoreIInv /\ DeadlineOfWaiter /\ [SemaphoreNext]_semaphoreVars => DeadlineOfWaiter'
  BY SemaphoreDeadlineStep DEF SemaphoreIInv
<1>3. SemaphoreIInv /\ DeadlineOfWaiter /\ [SemaphoreNext]_semaphoreVars => [Counting!Next]_Counting!vars
  BY SemaphoreStepRefines
<1>4. SemaphoreSpec => []SemaphoreIInv
  BY SemaphoreInvariantHolds
<1> QED BY <1>1, <1>2, <1>3, <1>4, PTL DEF SemaphoreSpec, Counting!Safe

-----------------------------------------------------------------------------
(* The event.                                                              *)

\* Nobody sleeps or contends before the event is created.
LEMMA EventInitInvariant == Init => IInv
BY DEF Init, WaitInit, IInv, TypeOK, WaitTypeOK, NoSignalLost, Idle

\* Creation and destruction happen while nobody waits.
LEMMA EventLifeStep ==
  ASSUME IInv, InitializeEvent \/ ShutdownEvent
  PROVE  IInv'
<1>1. pc' = pc /\ deadline' = deadline
  BY DEF InitializeEvent, ShutdownEvent, waits
<1>2. Idle = Threads
  BY DEF InitializeEvent, ShutdownEvent, IInv
<1>3. WaitTypeOK' /\ Idle' = Threads /\ Sleepers' = {}
  BY <1>1, <1>2 DEF IInv, TypeOK, WaitTypeOK, Idle, Sleepers
<1>4. Initialized' \in BOOLEAN /\ ResetMode' \in {"Auto", "Manual"} /\ Signaled' \in BOOLEAN
  BY DEF InitializeEvent, ShutdownEvent
<1> QED BY <1>3, <1>4 DEF IInv, TypeOK, NoSignalLost

\* A signal leaves a contender or no sleeper, a broadcast no sleeper.
LEMMA SignalStep ==
  ASSUME IInv, SignalEvent
  PROVE  IInv'
<1>1. /\ Initialized /\ Signaled' = TRUE
      /\ Initialized' = Initialized /\ ResetMode' = ResetMode
  BY DEF SignalEvent
<1>2. WaitTypeOK /\ ResetMode \in {"Auto", "Manual"}
  BY DEF IInv, TypeOK
<1>3. CASE ResetMode = "Manual"
  <2>1. WaitTypeOK' /\ Sleepers' = {}
    BY <1>2, <1>3, BroadcastMoves DEF SignalEvent, Notify
  <2> QED BY <1>1, <1>2, <2>1 DEF IInv, TypeOK, NoSignalLost
<1>4. CASE ResetMode = "Auto"
  <2>1. Signal
    BY <1>4 DEF SignalEvent, Notify
  <2>2. WaitTypeOK' /\ (Sleepers' = {} \/ Contenders' # {})
    BY <1>2, <2>1, SignalMoves
  <2> QED BY <1>1, <1>2, <1>4, <2>2 DEF IInv, TypeOK, NoSignalLost
<1> QED BY <1>2, <1>3, <1>4

\* A thread that leaves with the flag down needs no one after it, and one that
\* leaves a manual-reset event leaves no sleeper behind.
LEMMA ReturnStep ==
  ASSUME IInv, NEW t \in Threads, WaitReturns(t)
  PROVE  IInv'
<1>1. t \in Contenders /\ Leave(t) /\ Initialized' = Initialized /\ ResetMode' = ResetMode
  BY DEF WaitReturns
<1>2. Signaled /\ Signaled' = IF ResetMode = "Auto" THEN FALSE ELSE Signaled
  BY DEF WaitReturns, ConsumeAutoResetSignalIfNeeded
<1>3. WaitTypeOK' /\ Sleepers' = Sleepers /\ Idle' = Idle \cup {t}
  BY <1>1, LeaveMoves DEF IInv, TypeOK
<1>4. NoSignalLost'
  BY <1>1, <1>2, <1>3 DEF IInv, TypeOK, NoSignalLost
<1>5. TypeOK'
  BY <1>1, <1>2, <1>3 DEF IInv, TypeOK
<1>6. ~Initialized' => Idle' = Threads
  BY <1>1, <1>3 DEF IInv
<1> QED BY <1>4, <1>5, <1>6 DEF IInv

\* With the flag down there is no signal to lose.
LEMMA DownStep ==
  ASSUME IInv, NEW t \in Threads, WaitSleeps(t) \/ WaitAgain(t) \/ GiveUp(t)
  PROVE  IInv'
<1>1. ~Signaled /\ Signaled' = Signaled /\ ResetMode' = ResetMode /\ Initialized' = Initialized
  BY DEF WaitSleeps, WaitAgain, GiveUp, flags
<1>2. WaitTypeOK' /\ (Idle' = Threads \/ Initialized')
  <2>1. CASE WaitSleeps(t)
    BY <1>1, <2>1, SleepMoves DEF WaitSleeps, IInv, TypeOK
  <2>2. CASE WaitAgain(t)
    BY <1>1, <2>2, SleepAgainMoves DEF WaitAgain, IInv, TypeOK
  <2>3. CASE GiveUp(t)
    <3>1. t \in Contenders
      BY <2>3 DEF GiveUp, Contenders
    <3> QED BY <1>1, <2>3, <3>1, LeaveMoves DEF GiveUp, IInv, TypeOK, Contenders, Idle
  <2> QED BY <2>1, <2>2, <2>3
<1> QED BY <1>1, <1>2 DEF IInv, TypeOK, NoSignalLost

\* A flag that is taken down or passed without a wait moves nobody.
LEMMA StillStep ==
  ASSUME IInv, ResetEvent \/ \E t \in Threads : WaitPasses(t)
  PROVE  IInv'
<1>1. pc' = pc /\ deadline' = deadline /\ Initialized' = Initialized /\ ResetMode' = ResetMode
  BY DEF ResetEvent, WaitPasses, waits
<1>2. Signaled' \in BOOLEAN /\ (Signaled' => Signaled)
  <2>1. CASE ResetEvent
    BY <2>1 DEF ResetEvent
  <2>2. CASE \E t \in Threads : WaitPasses(t)
    BY <2>2 DEF WaitPasses, ConsumeAutoResetSignalIfNeeded
  <2> QED BY <2>1, <2>2
<1>3. Sleepers' = Sleepers /\ Contenders' = Contenders /\ Idle' = Idle /\ WaitTypeOK'
  BY <1>1 DEF IInv, TypeOK, WaitTypeOK, Sleepers, Contenders, Idle
<1>4. NoSignalLost' /\ TypeOK'
  BY <1>1, <1>2, <1>3 DEF IInv, TypeOK, NoSignalLost
<1>5. ~Initialized' => Idle' = Threads
  BY <1>1, <1>3 DEF IInv
<1> QED BY <1>4, <1>5 DEF IInv

\* A timer or a spurious wakeup adds a contender, which can only help.
LEMMA EventWakeupStep ==
  ASSUME IInv, NEW t \in Threads, WaitStep(t), UNCHANGED <<Initialized, flags>>
  PROVE  IInv'
<1>1. Signaled' = Signaled /\ ResetMode' = ResetMode /\ Initialized' = Initialized
  BY DEF flags
<1>2. WaitTypeOK
  BY DEF IInv, TypeOK
<1>3. /\ WaitTypeOK' /\ Idle' = Idle
      /\ \/ Sleepers' = Sleepers /\ Contenders' = Contenders
         \/ Contenders' = Contenders \cup {t}
  BY <1>2, WaitStepMoves
<1>4. Sleepers' \subseteq Sleepers
  BY <1>2 DEF WaitStep, DeadlinePasses, TimerFires, SpuriousWakeup, Sleepers, WaitTypeOK
<1>5. Contenders # {} => Contenders' # {}
  BY <1>3
<1>6. TypeOK'
  BY <1>1, <1>3 DEF IInv, TypeOK
<1>7. NoSignalLost'
  BY <1>1, <1>4, <1>5 DEF IInv, NoSignalLost
<1>8. ~Initialized' => Idle' = Threads
  BY <1>1, <1>3 DEF IInv
<1> QED BY <1>6, <1>7, <1>8 DEF IInv

\* Every step preserves the invariant.
LEMMA EventInvariantStep ==
  ASSUME IInv, [Next]_vars
  PROVE  IInv'
<1>1. CASE UNCHANGED vars
  BY <1>1 DEF vars, flags, waits, IInv, TypeOK, NoSignalLost, WaitTypeOK, Sleepers,
              Contenders, Idle
<1>2. CASE InitializeEvent \/ ShutdownEvent
  BY <1>2, EventLifeStep
<1>3. CASE SignalEvent
  BY <1>3, SignalStep
<1>4. CASE ResetEvent
  BY <1>4, StillStep
<1>5. ASSUME NEW t \in Threads, WaitPasses(t) \/ WaitSleeps(t) \/ Resume(t)
      PROVE  IInv'
  BY <1>5, StillStep, ReturnStep, DownStep DEF Resume
<1>6. ASSUME NEW t \in Threads, WaitStep(t), UNCHANGED <<Initialized, flags>>
      PROVE  IInv'
  BY <1>6, EventWakeupStep
<1> QED BY <1>1, <1>2, <1>3, <1>4, <1>5, <1>6 DEF Next

\* The types, the signals and the idle threads of a dead event.
THEOREM EventInvariantHolds == Spec => []IInv
<1>1. Init => IInv
  BY EventInitInvariant
<1>2. IInv /\ [Next]_vars => IInv'
  BY EventInvariantStep
<1> QED BY <1>1, <1>2, PTL DEF Spec

\* No thread sleeps at an event that is up, unless one is about to take it down.
THEOREM SignalsKept == Spec => []NoSignalLost
<1>1. IInv => NoSignalLost
  BY DEF IInv
<1> QED BY <1>1, EventInvariantHolds, PTL

-----------------------------------------------------------------------------
(* The event is an event flag, as far as safety goes.                      *)

LEMMA EventInitRefines == Init => Promise!Init /\ DeadlineOfWaiter
BY DEF Init, WaitInit, Idle, Promise!Init, DeadlineOfWaiter

\* A deadline is set when the wait begins and forgotten when it ends.
LEMMA EventDeadlineStep ==
  ASSUME TypeOK, DeadlineOfWaiter, [Next]_vars
  PROVE  DeadlineOfWaiter'
<1>0. WaitTypeOK
  BY DEF TypeOK
<1>1. CASE UNCHANGED <<pc, deadline>>
  BY <1>1 DEF DeadlineOfWaiter, Idle
<1>2. ASSUME NEW t \in Threads, WaitSleeps(t) PROVE DeadlineOfWaiter'
  BY <1>0, <1>2, SleepDeadline DEF WaitSleeps
<1>3. ASSUME NEW t \in Threads, Resume(t) PROVE DeadlineOfWaiter'
  BY <1>0, <1>3, SleepAgainDeadline, LeaveDeadline
  DEF Resume, WaitReturns, WaitAgain, GiveUp
<1>4. ASSUME NEW t \in Threads, WaitStep(t) PROVE DeadlineOfWaiter'
  BY <1>0, <1>4, WaitStepDeadline
<1>5. CASE Signal \/ Broadcast
  BY <1>0, <1>5, WakeDeadline
<1> QED
  BY <1>1, <1>2, <1>3, <1>4, <1>5
  DEF Next, vars, waits, InitializeEvent, ShutdownEvent, SignalEvent, ResetEvent,
      Notify, WaitPasses

\* Every step of the event is a step of the event flag or leaves it alone.
LEMMA EventStepRefines ==
  ASSUME IInv, DeadlineOfWaiter, [Next]_vars
  PROVE  [Promise!Next]_Promise!vars
<1> DEFINE awaited == {t \in Threads : deadline[t] # "None"}
<1>0. WaitTypeOK /\ ResetMode \in {"Auto", "Manual"} /\ Signaled \in BOOLEAN
  BY DEF IInv, TypeOK
<1>1. CASE UNCHANGED vars
  BY <1>1 DEF vars, flags, waits, Promise!vars, Idle
<1>2. CASE InitializeEvent
  BY <1>2 DEF InitializeEvent, waits, Promise!Next, Promise!Create, Idle
<1>3. CASE ShutdownEvent
  BY <1>3 DEF ShutdownEvent, waits, Promise!Next, Promise!Destroy, Idle
<1>4. CASE SignalEvent
  <2>1. Idle' = Idle /\ deadline' = deadline
    BY <1>0, <1>4, SignalMoves, BroadcastMoves DEF SignalEvent, Notify
  <2> QED BY <1>4, <2>1 DEF SignalEvent, Promise!Next, Promise!Set
<1>5. CASE ResetEvent
  BY <1>5 DEF ResetEvent, waits, Promise!Next, Promise!Clear, Idle
<1>6. ASSUME NEW t \in Threads, WaitPasses(t) PROVE Promise!Pass(t)
  BY <1>0, <1>6
  DEF WaitPasses, ConsumeAutoResetSignalIfNeeded, waits, Idle, Promise!Pass, Promise!Through
<1>7. ASSUME NEW t \in Threads, WaitSleeps(t) PROVE Promise!Wait(t)
  <2>1. PICK d \in {"None", "Ahead"} : Sleep(t, d)
    BY <1>7 DEF WaitSleeps
  <2>2. t \in Idle /\ t \notin awaited
    BY <1>7 DEF WaitSleeps, DeadlineOfWaiter
  <2>3. Threads \ Idle' = (Threads \ Idle) \cup {t}
    BY <1>0, <2>1, <2>2, SleepMoves
  <2>4. /\ deadline'[t] = d
        /\ \A s \in Threads \ {t} : deadline'[s] = deadline[s]
    BY <1>0, <2>1 DEF Sleep, WaitTypeOK
  <2>5. awaited' \in {awaited, awaited \cup {t}}
    <3>1. CASE d = "None"
      <4>1. \A s \in Threads : s \in awaited' <=> s \in awaited
        BY <2>2, <2>4, <3>1
      <4> QED BY <4>1
    <3>2. CASE d = "Ahead"
      <4>1. \A s \in Threads : s \in awaited' <=> (s \in awaited \/ s = t)
        BY <2>2, <2>4, <3>2
      <4>2. awaited' = awaited \cup {t}
        BY <4>1
      <4> QED BY <4>2
    <3> QED BY <3>1, <3>2
  <2> QED BY <1>7, <2>2, <2>3, <2>5 DEF WaitSleeps, flags, Promise!Wait
<1>8. ASSUME NEW t \in Threads, WaitReturns(t) \/ GiveUp(t)
      PROVE  Promise!Return(t) \/ Promise!GiveUp(t)
  <2>1. t \in Contenders /\ Leave(t)
    BY <1>8 DEF WaitReturns, GiveUp, Contenders
  <2>2. t \notin Idle
    BY <2>1 DEF Contenders, Idle
  <2>3. Threads \ Idle' = (Threads \ Idle) \ {t} /\ awaited' = awaited \ {t}
    BY <1>0, <2>1, LeaveMoves DEF WaitTypeOK, Idle
  <2>4. CASE WaitReturns(t)
    <3>1. Promise!Through
      BY <1>0, <2>4 DEF WaitReturns, ConsumeAutoResetSignalIfNeeded, Promise!Through
    <3> QED BY <2>2, <2>3, <2>4, <3>1 DEF WaitReturns, Promise!Return
  <2>5. CASE GiveUp(t)
    <3>1. t \in awaited
      BY <2>5 DEF GiveUp, DeadlineOfWaiter
    <3> QED BY <2>3, <2>5, <3>1 DEF GiveUp, flags, Promise!GiveUp
  <2> QED BY <1>8, <2>4, <2>5
<1>9. ASSUME NEW t \in Threads, WaitAgain(t) PROVE UNCHANGED Promise!vars
  <2>1. Idle' = Idle /\ deadline' = deadline
    BY <1>0, <1>9, SleepAgainMoves DEF WaitAgain
  <2> QED BY <1>9, <2>1 DEF WaitAgain, flags, Promise!vars
<1>10. ASSUME NEW t \in Threads, WaitStep(t), UNCHANGED <<Initialized, flags>>
       PROVE UNCHANGED Promise!vars
  BY <1>0, <1>10, WaitStepMoves DEF flags, Promise!vars
<1> QED
  BY <1>1, <1>2, <1>3, <1>4, <1>5, <1>6, <1>7, <1>8, <1>9, <1>10
  DEF Next, Resume, Promise!Next

\* In every execution the gate opens and closes as an event flag does: an
\* auto-reset event lets one thread through for each time it is set, and no
\* call waits or gives up while the flag is up.
THEOREM EventIsSafe == Spec => Promise!Safe
<1>1. Init => Promise!Init /\ DeadlineOfWaiter
  BY EventInitRefines
<1>2. IInv /\ DeadlineOfWaiter /\ [Next]_vars => DeadlineOfWaiter'
  BY EventDeadlineStep DEF IInv
<1>3. IInv /\ DeadlineOfWaiter /\ [Next]_vars => [Promise!Next]_Promise!vars
  BY EventStepRefines
<1>4. Spec => []IInv
  BY EventInvariantHolds
<1> QED BY <1>1, <1>2, <1>3, <1>4, PTL DEF Spec, Promise!Safe
=============================================================================
