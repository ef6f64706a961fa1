------------------------------ MODULE SystemProofs ------------------------------
(***************************************************************************)
(* Proofs about the components of System, each by itself and for any       *)
(* values of its constants, and, at the end, about the system they make up. *)
(***************************************************************************)
EXTENDS System, CountingTheorems, SequenceTheorems, FiniteSetTheorems, TLAPS

-----------------------------------------------------------------------------
(***************************************************************************)
(* The job system, for any capacity of the queue, any number of jobs and   *)
(* any nesting of calls: the ring buffer is a queue, so jobs run in the    *)
(* order in which they were accepted, and a shutdown leaves none behind.   *)
(***************************************************************************)

(***************************************************************************)
(* Indices of the ring: one turn around it is enough.                      *)
(***************************************************************************)

LEMMA OneTurn ==
  ASSUME Capacity \in Nat \ {0}, NEW x \in 0..(2 * Capacity - 1)
  PROVE  /\ Wrapped(x) = IF x < Capacity THEN x ELSE x - Capacity
         /\ Wrapped(x) \in 0..(Capacity - 1)
<1>1. /\ x % Capacity \in 0..(Capacity - 1)
      /\ x = Capacity * (x \div Capacity) + (x % Capacity) /\ x \div Capacity \in Int
  OBVIOUS
<1>2. x % Capacity = IF x < Capacity THEN x ELSE x - Capacity
  BY <1>1
<1> QED BY <1>1, <1>2 DEF Wrapped

\* The slot of the i-th entry from the head.
LEMMA Slot ==
  ASSUME Capacity \in Nat \ {0}, RingTypes, NEW i \in 1..Capacity
  PROVE  /\ At(i) \in 0..(Capacity - 1)
         /\ At(i) = IF m_Head + i - 1 < Capacity THEN m_Head + i - 1
                    ELSE m_Head + i - 1 - Capacity
<1>1. m_Head \in Int /\ m_Head + i - 1 \in 0..(2 * Capacity - 1)
  BY DEF RingTypes
<1>2. At(i) = IF m_Head + i - 1 < Capacity THEN m_Head + i - 1
              ELSE m_Head + i - 1 - Capacity
  BY <1>1, OneTurn DEF At
<1> QED BY <1>1, <1>2

LEMMA NextSlot ==
  ASSUME Capacity \in Nat \ {0}, NEW x \in 0..(Capacity - 1)
  PROVE  /\ Wrapped(x + 1) \in 0..(Capacity - 1)
         /\ Wrapped(x + 1) = IF x + 1 < Capacity THEN x + 1 ELSE 0
<1>1. x + 1 \in 0..(2 * Capacity - 1)
  OBVIOUS
<1>2. Wrapped(x + 1) = IF x + 1 < Capacity THEN x + 1 ELSE x + 1 - Capacity
  BY <1>1, OneTurn
<1> QED BY <1>2

\* A buffer that is not full takes the next value behind its last.
LEMMA PushIsLast ==
  ASSUME Capacity \in Nat \ {0}, RingTypes, RingOrdered, NEW value \in Nat, Push(value)
  PROVE  /\ m_Items' \in [0..(Capacity - 1) -> Nat] /\ m_Head' = m_Head
         /\ m_Tail' \in 0..(Capacity - 1) /\ m_Count' \in 0..Capacity
         /\ m_Count' = m_Count + 1 /\ m_Tail' = Wrapped(m_Head' + m_Count')
         /\ m_Items'[At(m_Count + 1)] = value
         /\ \A i \in 1..m_Count : m_Items'[At(i)] = m_Items[At(i)]
<1>1. m_Count \in Nat /\ m_Count + 1 \in 1..Capacity /\ m_Head \in 0..(Capacity - 1)
  BY DEF Push, RingTypes
<1>2. At(m_Count + 1) = m_Tail
  BY <1>1 DEF At, RingOrdered, RingTypes
<1>3. At(m_Count + 1) = IF m_Head + m_Count < Capacity THEN m_Head + m_Count
                        ELSE m_Head + m_Count - Capacity
  BY <1>1, Slot
<1>4. ASSUME NEW i \in 1..m_Count PROVE At(i) \in 0..(Capacity - 1) /\ At(i) # m_Tail
  <2>1. i \in 1..Capacity
    BY <1>1
  <2>2. /\ At(i) \in 0..(Capacity - 1)
        /\ At(i) = IF m_Head + i - 1 < Capacity THEN m_Head + i - 1
                   ELSE m_Head + i - 1 - Capacity
    BY <2>1, Slot
  <2> QED BY <1>1, <1>2, <1>3, <2>2
<1>5. m_Tail' \in 0..(Capacity - 1) /\ m_Tail' = Wrapped(m_Head' + m_Count')
  <2>1. m_Tail' \in 0..(Capacity - 1)
        /\ m_Tail' = IF m_Tail + 1 < Capacity THEN m_Tail + 1 ELSE 0
    BY NextSlot DEF Push, RingTypes
  <2>2. m_Head + (m_Count + 1) \in 0..(2 * Capacity - 1)
    BY <1>1
  <2>3. Wrapped(m_Head + (m_Count + 1)) =
          IF m_Head + (m_Count + 1) < Capacity THEN m_Head + (m_Count + 1)
          ELSE m_Head + (m_Count + 1) - Capacity
    BY <1>1, <2>2, OneTurn
  <2>4. m_Head' = m_Head /\ m_Count' = m_Count + 1
    BY DEF Push
  <2>5. m_Tail' = Wrapped(m_Head + (m_Count + 1))
    BY <1>1, <1>2, <1>3, <2>1, <2>3
  <2> QED BY <2>1, <2>4, <2>5
<1>6. /\ m_Items \in [0..(Capacity - 1) -> Nat] /\ m_Tail \in 0..(Capacity - 1)
      /\ m_Items' = [m_Items EXCEPT ![m_Tail] = value]
      /\ m_Head' = m_Head /\ m_Count' = m_Count + 1
  BY DEF Push, RingTypes
<1>7. m_Items' \in [0..(Capacity - 1) -> Nat] /\ m_Items'[At(m_Count + 1)] = value
  BY <1>2, <1>6
<1>8. m_Count' \in 0..Capacity
  BY <1>1, <1>6
<1> QED BY <1>4, <1>5, <1>6, <1>7, <1>8

\* A buffer that is not empty gives up its first value.
LEMMA PopIsFirst ==
  ASSUME Capacity \in Nat \ {0}, RingTypes, RingOrdered, Pop
  PROVE  /\ m_Items' = m_Items /\ m_Head' \in 0..(Capacity - 1) /\ m_Tail' = m_Tail
         /\ m_Count' = m_Count - 1 /\ m_Count' \in 0..Capacity /\ m_Count \in 1..Capacity
         /\ m_Tail' = Wrapped(m_Head' + m_Count')
         /\ m_Items[m_Head] = m_Items[At(1)]
         /\ \A i \in 1..m_Count' : At(i)' = At(i + 1)
<1>1. m_Count \in 1..Capacity /\ m_Head \in 0..(Capacity - 1) /\ m_Items' = m_Items
      /\ m_Tail' = m_Tail /\ m_Count' = m_Count - 1
  BY DEF Pop, RingTypes
<1>2. m_Head' \in 0..(Capacity - 1)
      /\ m_Head' = IF m_Head + 1 < Capacity THEN m_Head + 1 ELSE 0
  BY NextSlot DEF Pop, RingTypes
<1>3. ASSUME NEW x \in 0..(Capacity - 1)
      PROVE  Wrapped(m_Head' + x) = Wrapped(m_Head + (x + 1))
  <2>1. m_Head' + x \in 0..(2 * Capacity - 1) /\ m_Head + (x + 1) \in 0..(2 * Capacity - 1)
    BY <1>1, <1>2
  <2>2. Wrapped(m_Head' + x) =
          IF m_Head' + x < Capacity THEN m_Head' + x ELSE m_Head' + x - Capacity
    BY <1>1, <1>2, <2>1, OneTurn
  <2>3. Wrapped(m_Head + (x + 1)) =
          IF m_Head + (x + 1) < Capacity THEN m_Head + (x + 1)
          ELSE m_Head + (x + 1) - Capacity
    BY <1>1, <1>2, <2>1, OneTurn
  <2> QED BY <1>1, <1>2, <2>2, <2>3
<1>4. m_Tail' = Wrapped(m_Head' + m_Count')
  <2>1. m_Count' \in 0..(Capacity - 1)
    BY <1>1
  <2>2. m_Count = m_Count' + 1
    BY <1>1
  <2>3. m_Tail = Wrapped(m_Head + (m_Count' + 1))
    BY <2>2 DEF RingOrdered
  <2> QED BY <1>1, <1>3, <2>1, <2>3
<1>5. m_Items[m_Head] = m_Items[At(1)]
  <2>1. At(1) = m_Head
    BY <1>1, Slot
  <2> QED BY <2>1
<1>6. ASSUME NEW i \in 1..m_Count' PROVE At(i)' = At(i + 1)
  <2>1. i - 1 \in 0..(Capacity - 1)
    BY <1>1
  <2>2. At(i)' = Wrapped(m_Head' + (i - 1))
    BY <1>1, <1>2 DEF At
  <2>3. At(i + 1) = Wrapped(m_Head + ((i - 1) + 1))
    BY <1>1 DEF At
  <2> QED BY <1>3, <2>1, <2>2, <2>3
<1> QED BY <1>1, <1>2, <1>4, <1>5, <1>6

(***************************************************************************)
(* The steps.                                                              *)
(***************************************************************************)

LEMMA SubmitStep ==
  ASSUME Capacity \in Nat \ {0}, JobIInv, Submit
  PROVE  JobIInv'
<1>1. CASE UNCHANGED <<ring, accepted>>
  BY <1>1 DEF Submit, JobIInv, RingTypes, RingOrdered, At, ring
<1>2. CASE m_Initialized /\ Push(asked + 1) /\ accepted' = Append(accepted, asked + 1)
  <2>1. /\ m_Items' \in [0..(Capacity - 1) -> Nat] /\ m_Head' = m_Head
        /\ m_Tail' \in 0..(Capacity - 1) /\ m_Count' \in 0..Capacity
        /\ m_Count' = m_Count + 1 /\ m_Tail' = Wrapped(m_Head' + m_Count')
        /\ m_Items'[At(m_Count + 1)] = asked + 1
        /\ \A i \in 1..m_Count : m_Items'[At(i)] = m_Items[At(i)]
    <3>1. asked + 1 \in Nat
      BY DEF JobIInv, RingTypes
    <3> QED BY <1>2, <3>1, PushIsLast DEF JobIInv
  <2>2. /\ accepted' \in Seq(Nat) /\ Len(accepted') = Len(accepted) + 1
        /\ accepted'[Len(accepted) + 1] = asked + 1
        /\ \A i \in 1..Len(accepted) : accepted'[i] = accepted[i]
    BY <1>2 DEF JobIInv, RingTypes
  <2>3. started' = started /\ m_Initialized' = m_Initialized /\ asked' = asked + 1
    BY DEF Submit
  <2>4. RingTypes'
    <3>1. /\ m_Initialized \in BOOLEAN /\ started \in Seq(Nat) /\ asked \in Nat
          /\ asked + 1 \in Nat /\ m_Head \in 0..(Capacity - 1)
      BY DEF JobIInv, RingTypes
    <3>2. /\ m_Initialized' \in BOOLEAN /\ started' \in Seq(Nat) /\ asked' \in Nat
      BY <2>3, <3>1
    <3> QED BY <2>1, <2>2, <3>1, <3>2 DEF RingTypes
  <2>5. /\ Len(started) \in Nat /\ m_Count \in Nat
        /\ Len(accepted) = Len(started) + m_Count
    BY DEF JobIInv, RingTypes, RingOrdered
  <2>6. \A i \in 1..Len(started) : accepted'[i] = started[i]
    BY <2>2, <2>5 DEF JobIInv, RingOrdered
  <2>7. ASSUME NEW i \in 1..(m_Count + 1)
        PROVE  accepted'[Len(started) + i] = m_Items'[At(i)]
    <3>1. CASE i = m_Count + 1
      BY <2>1, <2>2, <2>5, <3>1
    <3>2. CASE i \in 1..m_Count
      <4>1. accepted[Len(started) + i] = m_Items[At(i)]
        BY <3>2 DEF JobIInv, RingOrdered
      <4>2. Len(started) + i \in 1..Len(accepted)
        BY <2>5, <3>2
      <4> QED BY <2>1, <2>2, <3>2, <4>1, <4>2
    <3> QED BY <2>5, <3>1, <3>2
  <2>8. \A i \in 1..(m_Count + 1) : At(i)' = At(i)
    BY <2>1 DEF At
  <2>9. RingOrdered'
    <3>1. m_Count' = m_Count + 1 /\ started' = started /\ m_Tail' = Wrapped(m_Head' + m_Count')
      BY <2>1, <2>3
    <3>2. Len(accepted') = Len(started') + m_Count'
      BY <2>2, <2>5, <3>1
    <3>3. \A i \in 1..Len(started') : accepted'[i] = started'[i]
      BY <2>6, <3>1
    <3>4. \A i \in 1..m_Count' : accepted'[Len(started') + i] = m_Items'[At(i)']
      BY <2>7, <2>8, <3>1
    <3> QED BY <3>1, <3>2, <3>3, <3>4 DEF RingOrdered
  <2> QED BY <1>2, <2>3, <2>4, <2>9 DEF JobIInv
<1> QED BY <1>1, <1>2 DEF Submit

LEMMA StartJobStep ==
  ASSUME Capacity \in Nat \ {0}, JobIInv, StartJob
  PROVE  JobIInv'
<1>1. /\ m_Items' = m_Items /\ m_Head' \in 0..(Capacity - 1) /\ m_Tail' = m_Tail
      /\ m_Count' = m_Count - 1 /\ m_Count' \in 0..Capacity /\ m_Count \in 1..Capacity
      /\ m_Tail' = Wrapped(m_Head' + m_Count')
      /\ m_Items[m_Head] = m_Items[At(1)]
      /\ \A i \in 1..m_Count' : At(i)' = At(i + 1)
  BY PopIsFirst DEF StartJob, JobIInv
<1>2. UNCHANGED <<m_Initialized, accepted, asked>>
      /\ started' = Append(started, m_Items[m_Head]) /\ m_Items[m_Head] \in Nat
  BY DEF StartJob, JobIInv, RingTypes
<1>3. /\ started' \in Seq(Nat) /\ Len(started') = Len(started) + 1
      /\ started'[Len(started) + 1] = m_Items[m_Head]
      /\ \A i \in 1..Len(started) : started'[i] = started[i]
  BY <1>2 DEF JobIInv, RingTypes
<1>4. RingTypes'
  BY <1>1, <1>2, <1>3 DEF JobIInv, RingTypes
<1>5. /\ Len(started) \in Nat /\ Len(accepted) = Len(started) + m_Count
      /\ \A i \in 1..m_Count : accepted[Len(started) + i] = m_Items[At(i)]
  BY DEF JobIInv, RingTypes, RingOrdered
<1>6. ASSUME NEW i \in 1..(Len(started) + 1) PROVE accepted[i] = started'[i]
  <2>1. CASE i = Len(started) + 1
    <3>1. 1 \in 1..m_Count
      BY <1>1
    <3>2. accepted[Len(started) + 1] = m_Items[At(1)]
      BY <1>5, <3>1
    <3> QED BY <1>1, <1>3, <2>1, <3>2
  <2>2. CASE i \in 1..Len(started)
    BY <1>3, <2>2 DEF JobIInv, RingOrdered
  <2> QED BY <1>5, <2>1, <2>2
<1>7. ASSUME NEW i \in 1..m_Count'
      PROVE  accepted[Len(started) + 1 + i] = m_Items'[At(i)']
  <2>1. i + 1 \in 1..m_Count
    BY <1>1
  <2>2. accepted[Len(started) + (i + 1)] = m_Items[At(i + 1)]
    BY <1>5, <2>1
  <2>3. Len(started) + (i + 1) = Len(started) + 1 + i
    BY <1>5
  <2> QED BY <1>1, <2>2, <2>3
<1>8. RingOrdered'
  BY <1>1, <1>2, <1>3, <1>5, <1>6, <1>7 DEF RingOrdered
<1>9. ~m_Initialized' => m_Count' = 0
  BY <1>1, <1>2 DEF JobIInv
<1> QED BY <1>4, <1>8, <1>9 DEF JobIInv

LEMMA InvariantStep ==
  ASSUME Capacity \in Nat \ {0}, JobIInv, [JobNext]_jobVars
  PROVE  JobIInv'
<1>1. CASE Submit
  BY <1>1, SubmitStep
<1>2. CASE StartJob
  BY <1>2, StartJobStep
<1>3. ASSUME UNCHANGED <<ring, history>>, m_Initialized' \in BOOLEAN,
             ~m_Initialized' => ~m_Initialized \/ m_Count = 0
      PROVE  JobIInv'
  BY <1>3 DEF JobIInv, RingTypes, RingOrdered, At, ring, history
<1>4. CASE Initialize \/ ExecutePendingJobsOnCurrentThread \/ Shutdown \/ EndJob \/ Drained
  BY <1>3, <1>4 DEF JobIInv, RingTypes, Initialize, ExecutePendingJobsOnCurrentThread,
     Shutdown, EndJob, Drained
<1>5. CASE UNCHANGED jobVars
  BY <1>3, <1>5 DEF JobIInv, RingTypes, jobVars
<1> QED BY <1>1, <1>2, <1>4, <1>5 DEF JobNext

LEMMA InvariantOrders ==
  ASSUME Capacity \in Nat \ {0}, JobIInv
  PROVE  JobsRunInOrder
<1>1. /\ accepted \in Seq(Nat) /\ started \in Seq(Nat) /\ m_Count \in 0..Capacity
  BY DEF JobIInv, RingTypes
<1>2. /\ Len(accepted) = Len(started) + m_Count
      /\ \A i \in 1..Len(started) : accepted[i] = started[i]
      /\ \A i \in 1..m_Count : accepted[Len(started) + i] = m_Items[At(i)]
  BY DEF JobIInv, RingOrdered
<1>3. Pending \in Seq(Nat) /\ Len(Pending) = m_Count
      /\ \A i \in 1..m_Count : Pending[i] = m_Items[At(i)]
  <2>1. \A i \in 1..m_Count : m_Items[At(i)] \in Nat
    BY <1>1, Slot DEF JobIInv, RingTypes
  <2> QED BY <1>1, <2>1 DEF Pending
<1>4. /\ started \o Pending \in Seq(Nat) /\ Len(started \o Pending) = Len(accepted)
      /\ \A i \in 1..Len(accepted) :
           (started \o Pending)[i] =
             IF i <= Len(started) THEN started[i] ELSE Pending[i - Len(started)]
  <2>1. PICK p \in Seq(Nat) : p = Pending
    BY <1>3
  <2>2. /\ started \o p \in Seq(Nat) /\ Len(started \o p) = Len(started) + Len(p)
        /\ \A i \in 1..(Len(started) + Len(p)) :
             (started \o p)[i] = IF i <= Len(started) THEN started[i] ELSE p[i - Len(started)]
    BY <1>1, ConcatProperties
  <2>3. Len(started) + Len(p) = Len(accepted)
    BY <1>2, <1>3, <2>1
  <2> QED BY <2>1, <2>2, <2>3
<1>5. ASSUME NEW i \in 1..Len(accepted) PROVE accepted[i] = (started \o Pending)[i]
  <2> DEFINE n == Len(started)
  <2>1. n \in Nat /\ i \in 1..(n + m_Count) /\ m_Count \in Nat
    BY <1>1, <1>2
  <2>2. CASE i <= n
    BY <1>2, <1>4, <2>1, <2>2
  <2>3. CASE i > n
    <3>1. i - n \in 1..m_Count /\ n + (i - n) = i
      BY <2>1, <2>3
    <3>2. accepted[n + (i - n)] = Pending[i - n]
      BY <1>2, <1>3, <3>1
    <3>3. (started \o Pending)[i] = Pending[i - n]
      BY <1>4, <2>1, <2>3
    <3> QED BY <3>1, <3>2, <3>3
  <2>4. i <= n \/ i > n
    BY <2>1
  <2> QED BY <2>2, <2>3, <2>4
<1>6. accepted = started \o Pending
  BY <1>1, <1>4, <1>5, SeqEqual
<1> QED BY <1>1, <1>6 DEF JobIInv, JobsRunInOrder

\* Whatever jobs do, they are started in the order in which they were accepted,
\* each once, and a system that is shut down has none left.
THEOREM QueueIsKept ==
  ASSUME Capacity \in Nat \ {0}
  PROVE  JobSpec => []JobsRunInOrder
<1>1. JobInit => JobIInv
  <2> SUFFICES ASSUME JobInit PROVE JobIInv
    OBVIOUS
  <2>1. RingTypes /\ m_Count = 0 /\ m_Head = 0 /\ m_Tail = 0
    <3>1. accepted \in Seq(Nat) /\ started \in Seq(Nat)
      BY DEF JobInit
    <3>2. m_Items \in [0..(Capacity - 1) -> Nat]
      BY DEF JobInit, Empty
    <3>3. m_Count = 0 /\ m_Head = 0 /\ m_Tail = 0 /\ asked = 0 /\ m_Initialized \in BOOLEAN
      BY DEF JobInit
    <3> QED BY <3>1, <3>2, <3>3 DEF RingTypes
  <2>2. Wrapped(m_Head + m_Count) = m_Tail
    BY <2>1, OneTurn
  <2>3. Len(accepted) = 0 /\ Len(started) = 0
    BY EmptySeq DEF JobInit
  <2> QED BY <2>1, <2>2, <2>3 DEF JobIInv, RingOrdered
<1>2. JobIInv /\ [JobNext]_jobVars => JobIInv'
  BY InvariantStep
<1>3. JobIInv => JobsRunInOrder
  BY InvariantOrders
<1> QED BY <1>1, <1>2, <1>3, PTL DEF JobSpec

-----------------------------------------------------------------------------
(***************************************************************************)
(* The logger.                                                             *)
(***************************************************************************)

LogPlaces == {"idle", "shutdown", "enter", "sequence", "copy", "call"}
Outside == {"idle", "shutdown"}

LogInv ==
  /\ logPc \in [Users -> LogPlaces]
  /\ WrittenEventCount \in Nat /\ DroppedEventCount \in Nat /\ filtered \in Nat /\ taken \in Nat
  /\ WrittenEventCount + DroppedEventCount + filtered + Cardinality(Log!Writing) = taken

\* A call enters WriteLog, leaves it, or goes on, and no other thread moves.
LEMMA WritingChanges ==
  ASSUME IsFiniteSet(Users), LogInv, NEW t \in Users, NEW from \in LogPlaces,
         NEW to \in LogPlaces, Log!Go(t, from, to)
  PROVE  /\ logPc' \in [Users -> LogPlaces]
         /\ Cardinality(Log!Writing) \in Nat
         /\ from \in Outside /\ to \notin Outside =>
              Cardinality(Log!Writing') = Cardinality(Log!Writing) + 1
         /\ from \notin Outside /\ to \in Outside =>
              Cardinality(Log!Writing') = Cardinality(Log!Writing) - 1
         /\ (from \in Outside <=> to \in Outside) => Log!Writing' = Log!Writing
<1>1. /\ logPc \in [Users -> LogPlaces] /\ logPc[t] = from
      /\ logPc' = [logPc EXCEPT ![t] = to]
  BY DEF LogInv, Log!Go
<1>2. IsFiniteSet(Log!Writing) /\ Cardinality(Log!Writing) \in Nat
  <2>1. Log!Writing \in SUBSET Users
    BY DEF Log!Writing
  <2> QED BY <2>1, FS_Subset, FS_CardinalityType
<1>3. ASSUME from \in Outside, to \notin Outside
      PROVE  Cardinality(Log!Writing') = Cardinality(Log!Writing) + 1
  <2>1. t \notin Log!Writing /\ Log!Writing' = Log!Writing \cup {t}
    BY <1>1, <1>3 DEF Log!Writing, LogPlaces, Outside
  <2> QED BY <1>2, <2>1, FS_AddElement
<1>4. ASSUME from \notin Outside, to \in Outside
      PROVE  Cardinality(Log!Writing') = Cardinality(Log!Writing) - 1
  <2>1. t \in Log!Writing /\ Log!Writing' = Log!Writing \ {t}
    BY <1>1, <1>4 DEF Log!Writing, LogPlaces, Outside
  <2> QED BY <1>2, <2>1, FS_RemoveElement
<1>5. ASSUME from \in Outside <=> to \in Outside
      PROVE  Log!Writing' = Log!Writing
  BY <1>1, <1>5 DEF Log!Writing, LogPlaces, Outside
<1>6. logPc' \in [Users -> LogPlaces]
  BY <1>1
<1> QED BY <1>2, <1>3, <1>4, <1>5, <1>6

LEMMA LogInvStep ==
  ASSUME IsFiniteSet(Users), LogInv, NEW t \in Users,
         \/ Log!InitializeLogger(t) \/ Log!ClearLogSinks(t) \/ Log!ShutdownLogger(t)
         \/ Log!ShutdownClears(t) \/ (\E sink \in LogSinks : Log!RegisterLogSink(t, sink))
         \/ (\E e \in LogEvents : Log!WriteLog(t, e))
         \/ Log!EnterWriteLog(t) \/ Log!DrawSequence(t) \/ Log!CopySinks(t)
         \/ Log!CallSink(t) \/ Log!CountEvent(t)
  PROVE  LogInv'
<1>1. /\ logPc \in [Users -> LogPlaces]
      /\ WrittenEventCount \in Nat /\ DroppedEventCount \in Nat /\ filtered \in Nat
      /\ taken \in Nat
      /\ WrittenEventCount + DroppedEventCount + filtered + Cardinality(Log!Writing) = taken
  BY DEF LogInv
<1>2. ASSUME Log!Writing' = Log!Writing, logPc' \in [Users -> LogPlaces],
             UNCHANGED <<WrittenEventCount, filtered>>,
             NEW n \in Nat, DroppedEventCount' = DroppedEventCount + n, taken' = taken + n
      PROVE  LogInv'
  <2>1. Cardinality(Log!Writing) \in Nat
    <3>1. Log!Writing \in SUBSET Users
      BY DEF Log!Writing
    <3> QED BY <3>1, FS_Subset, FS_CardinalityType
  <2>2. Cardinality(Log!Writing') = Cardinality(Log!Writing)
    BY <1>2
  <2>3. /\ WrittenEventCount' = WrittenEventCount /\ filtered' = filtered
        /\ DroppedEventCount' = DroppedEventCount + n /\ taken' = taken + n /\ n \in Nat
    BY <1>2
  <2>4. PICK c \in Nat : c = Cardinality(Log!Writing)
    BY <2>1
  <2>5. WrittenEventCount' + DroppedEventCount' + filtered' + c = taken'
    BY <1>1, <2>3, <2>4
  <2> QED BY <1>1, <1>2, <2>2, <2>3, <2>4, <2>5 DEF LogInv
<1>3. ASSUME NEW from \in LogPlaces, NEW to \in LogPlaces, Log!Go(t, from, to),
             from \in Outside <=> to \in Outside,
             UNCHANGED <<WrittenEventCount, DroppedEventCount, filtered, taken>>
      PROVE  LogInv'
  <2>1. Log!Writing' = Log!Writing /\ logPc' \in [Users -> LogPlaces]
    BY <1>3, WritingChanges
  <2> QED BY <1>1, <1>2, <1>3, <2>1
<1>4. ASSUME NEW from \in LogPlaces, Log!Go(t, from, "idle"), from \notin Outside,
             taken' = taken,
             \/ Log!Drop /\ UNCHANGED <<WrittenEventCount, filtered>>
             \/ WrittenEventCount' = WrittenEventCount + 1
                /\ UNCHANGED <<DroppedEventCount, filtered>>
             \/ filtered' = filtered + 1 /\ UNCHANGED <<WrittenEventCount, DroppedEventCount>>
      PROVE  LogInv'
  <2>1. "idle" \in LogPlaces /\ "idle" \in Outside
    BY DEF LogPlaces, Outside
  <2>2. /\ Cardinality(Log!Writing') = Cardinality(Log!Writing) - 1
        /\ Cardinality(Log!Writing) \in Nat /\ logPc' \in [Users -> LogPlaces]
    BY <1>4, <2>1, WritingChanges
  <2>3. /\ WrittenEventCount' \in Nat /\ DroppedEventCount' \in Nat /\ filtered' \in Nat
        /\ WrittenEventCount' + DroppedEventCount' + filtered' + Cardinality(Log!Writing') = taken'
    BY <1>1, <1>4, <2>2 DEF Log!Drop
  <2> QED BY <1>1, <1>4, <2>2, <2>3 DEF LogInv
<1> USE DEF Log!state, Log!ghosts
<1>5. CASE Log!InitializeLogger(t)
  <2>1. /\ logPc' = logPc /\ WrittenEventCount' = 0 /\ DroppedEventCount' = 0 /\ filtered' = 0
        /\ taken' = 0 /\ Log!Writing = {}
    BY <1>5 DEF Log!InitializeLogger
  <2>2. Cardinality(Log!Writing') = 0
    BY <2>1, FS_EmptySet DEF Log!Writing
  <2> QED BY <1>1, <2>1, <2>2 DEF LogInv
<1>6. CASE Log!ClearLogSinks(t) \/ \E sink \in LogSinks : Log!RegisterLogSink(t, sink)
  <2>1. UNCHANGED <<logPc, WrittenEventCount, DroppedEventCount, filtered, taken>>
    BY <1>6 DEF Log!ClearLogSinks, Log!RegisterLogSink
  <2>2. Log!Writing' = Log!Writing /\ taken' = taken + 0 /\ DroppedEventCount' = DroppedEventCount + 0
    BY <1>1, <2>1 DEF Log!Writing
  <2> QED BY <1>1, <1>2, <2>1, <2>2
<1>7. CASE Log!ShutdownLogger(t) \/ Log!ShutdownClears(t) \/ Log!DrawSequence(t)
  BY <1>3, <1>7 DEF Log!ShutdownLogger, Log!ShutdownClears, Log!DrawSequence, LogPlaces, Outside
<1>8. CASE \E e \in LogEvents : Log!WriteLog(t, e)
  <2>1. /\ Log!Go(t, "idle", "enter") /\ taken' = taken + 1
        /\ UNCHANGED <<WrittenEventCount, DroppedEventCount, filtered>>
    BY <1>8 DEF Log!WriteLog
  <2>2. /\ Cardinality(Log!Writing') = Cardinality(Log!Writing) + 1
        /\ Cardinality(Log!Writing) \in Nat /\ logPc' \in [Users -> LogPlaces]
    <3>1. /\ "idle" \in LogPlaces /\ "enter" \in LogPlaces
          /\ "idle" \in Outside /\ "enter" \notin Outside
      BY DEF LogPlaces, Outside
    <3> QED BY <2>1, <3>1, WritingChanges
  <2>3. /\ taken' \in Nat
        /\ WrittenEventCount' + DroppedEventCount' + filtered' + Cardinality(Log!Writing') = taken'
    BY <1>1, <2>1, <2>2
  <2> QED BY <1>1, <2>1, <2>2, <2>3 DEF LogInv
<1>9. CASE Log!EnterWriteLog(t)
  <2>1. \/ Log!Go(t, "enter", "idle") /\ Log!Drop /\ UNCHANGED <<WrittenEventCount, filtered, taken>>
        \/ Log!Go(t, "enter", "idle") /\ filtered' = filtered + 1
             /\ UNCHANGED <<WrittenEventCount, DroppedEventCount, taken>>
        \/ Log!Go(t, "enter", "sequence")
             /\ UNCHANGED <<WrittenEventCount, DroppedEventCount, filtered, taken>>
    BY <1>9 DEF Log!EnterWriteLog
  <2>2. /\ "enter" \in LogPlaces /\ "sequence" \in LogPlaces
        /\ "enter" \notin Outside /\ "sequence" \notin Outside
    BY DEF LogPlaces, Outside
  <2> QED BY <1>3, <1>4, <2>1, <2>2
<1>10. CASE Log!CopySinks(t)
  <2>1. \/ Log!Go(t, "copy", "idle") /\ Log!Drop /\ UNCHANGED <<WrittenEventCount, filtered, taken>>
        \/ Log!Go(t, "copy", "call")
             /\ UNCHANGED <<WrittenEventCount, DroppedEventCount, filtered, taken>>
    BY <1>10 DEF Log!CopySinks
  <2>2. /\ "copy" \in LogPlaces /\ "call" \in LogPlaces
        /\ "copy" \notin Outside /\ "call" \notin Outside
    BY DEF LogPlaces, Outside
  <2> QED BY <1>3, <1>4, <2>1, <2>2
<1>11. CASE Log!CallSink(t)
  <2>1. \E n \in {0, 1} : DroppedEventCount' = DroppedEventCount + n /\ taken' = taken + n
    BY <1>11 DEF Log!CallSink
  <2>2. UNCHANGED <<logPc, WrittenEventCount, filtered>> /\ Log!Writing' = Log!Writing
    BY <1>11 DEF Log!CallSink, Log!Writing
  <2> QED BY <1>1, <1>2, <2>1, <2>2
<1>12. CASE Log!CountEvent(t)
  <2>1. /\ Log!Go(t, "call", "idle") /\ UNCHANGED <<filtered, taken>>
        /\ \/ WrittenEventCount' = WrittenEventCount + 1 /\ UNCHANGED DroppedEventCount
           \/ Log!Drop /\ UNCHANGED WrittenEventCount
    BY <1>12 DEF Log!CountEvent
  <2>2. "call" \in LogPlaces /\ "call" \notin Outside
    BY DEF LogPlaces, Outside
  <2> QED BY <1>4, <2>1, <2>2
<1> QED BY <1>5, <1>6, <1>7, <1>8, <1>9, <1>10, <1>11, <1>12

\* The instance has a Cardinality of its own, which is the same.
LEMMA LogCardinality ==
  ASSUME NEW S
  PROVE  Log!Cardinality(S) = Cardinality(S)
BY Zenon DEF Log!Cardinality, Cardinality

\* Whatever is registered, cleared, shut down and initialised meanwhile: every call of
\* WriteLog is counted as written, dropped or filtered, or has not returned.
THEOREM LogCallsAreCounted ==
  ASSUME IsFiniteSet(Users)
  PROVE  Log!Spec => []EventsAccounted
<1>1. Log!Init => LogInv
  <2> SUFFICES ASSUME Log!Init PROVE LogInv
    OBVIOUS
  <2>1. Log!Writing = {}
    BY DEF Log!Init, Log!Writing
  <2>2. Cardinality(Log!Writing) = 0
    BY <2>1, FS_EmptySet
  <2> QED BY <2>2 DEF Log!Init, LogInv, LogPlaces
<1>2. LogInv /\ [Log!Next]_(Log!vars) => LogInv'
  <2> SUFFICES ASSUME LogInv, [Log!Next]_(Log!vars) PROVE LogInv'
    OBVIOUS
  <2>1. CASE UNCHANGED Log!vars
    BY <2>1 DEF Log!vars, Log!state, Log!ghosts, LogInv, Log!EventsAccounted, Log!Writing
  <2>2. CASE Log!Next
    BY <2>2, LogInvStep DEF Log!Next
  <2> QED BY <2>1, <2>2
<1>3. LogInv => EventsAccounted
  <2>1. Log!Cardinality(Log!Writing) = Cardinality(Log!Writing)
    BY LogCardinality
  <2> QED BY <2>1, Zenon DEF LogInv, EventsAccounted, Log!EventsAccounted
<1> QED BY <1>1, <1>2, <1>3, PTL DEF Log!Spec

-----------------------------------------------------------------------------
(***************************************************************************)
(* Threads.                                                                *)
(***************************************************************************)

NativePlaces == {"unmade", "prepared", "failed", "started", "named", "running", "exited"}
NativeFields == {"at", "info", "contexts", "frees", "tried", "closed"}

ObjectValues ==
  [at : {"idle", "creating"}, Joinable : BOOLEAN, Handle : Natives \cup {"none"}]

ThrTypes ==
  /\ platform \in {"POSIX", "Windows"}
  /\ object \in [Objects -> ObjectValues]
  /\ DOMAIN native = Natives
  /\ \A n \in Natives :
       /\ DOMAIN native[n] = NativeFields /\ native[n].at \in NativePlaces
       /\ native[n].contexts \in Nat /\ native[n].frees \in Nat /\ native[n].closed \in Nat

Owned(n) == \E o \in Objects : object[o].Handle = n
BeingMade(n) == \E o \in Objects : object[o].Handle = n /\ object[o].at = "creating"

\* What an object says of the thread it has.
ObjectOK(o) ==
  /\ object[o].at = "creating" => object[o].Handle # "none" /\ ~object[o].Joinable
  /\ object[o].at = "idle" => (object[o].Joinable <=> object[o].Handle # "none")
  /\ object[o].Handle # "none" =>
       /\ native[object[o].Handle].closed = 0
       /\ native[object[o].Handle].at \notin {"unmade", "failed"}
       /\ object[o].at = "idle" => native[object[o].Handle].at # "prepared"

\* What of a thread's creation has been done.
NativeOK(n) ==
  /\ native[n].contexts = IF native[n].at = "unmade" THEN 0 ELSE 1
  /\ native[n].frees = IF native[n].at \in {"failed", "running", "exited"} THEN 1 ELSE 0
  /\ native[n].at \in {"unmade", "prepared"} => native[n].tried = {}
  /\ native[n].at \in {"unmade", "prepared"} => native[n].closed = 0
  /\ native[n].at = "prepared" => BeingMade(n)
  /\ native[n].at \in {"started", "named", "running", "exited"} =>
       /\ native[n].closed = IF Owned(n) THEN 0 ELSE 1
       /\ platform = "POSIX" =>
            native[n].tried = IF native[n].at = "started" THEN {} ELSE native[n].info.policies
       /\ platform = "Windows" =>
            native[n].tried =
              (IF native[n].at = "started" THEN {} ELSE native[n].info.policies \cap {"name"})
              \cup (IF BeingMade(n) THEN {} ELSE native[n].info.policies \ {"name"})

SoleOwner ==
  \A o, p \in Objects :
    object[o].Handle # "none" /\ object[o].Handle = object[p].Handle => o = p

ThrInv ==
  /\ ThrTypes /\ SoleOwner
  /\ \A o \in Objects : ObjectOK(o)
  /\ \A n \in Natives : NativeOK(n)

\* An object takes, keeps or gives up a thread that no other has.
LEMMA ObjectMoves ==
  ASSUME ThrInv, ThrTypes', "none" \notin Natives, platform' = platform,
         NEW o \in Objects, NEW n \in Natives,
         \A p \in Objects \ {o} : object'[p] = object[p] /\ object[p].Handle # n,
         \A m \in Natives \ {n} : native'[m] = native[m],
         object[o].Handle \in {n, "none"}, object'[o].Handle \in {n, "none"},
         ObjectOK(o)', NativeOK(n)'
  PROVE  ThrInv'
<1>1. SoleOwner'
  BY DEF SoleOwner, ThrInv
<1>2. ASSUME NEW p \in Objects PROVE ObjectOK(p)'
  <2>1. CASE p = o
    BY <2>1
  <2>2. CASE p # o
    <3>1. object'[p] = object[p] /\ object[p].Handle # n /\ ObjectOK(p)
      BY <2>2 DEF ThrInv
    <3>2. object[p].Handle \in Natives => native'[object[p].Handle] = native[object[p].Handle]
      BY <3>1
    <3>3. object[p].Handle \in Natives \cup {"none"}
      BY DEF ObjectValues, ThrInv, ThrTypes
    <3> QED BY <3>1, <3>2, <3>3 DEF ObjectOK
  <2> QED BY <2>1, <2>2
<1>3. ASSUME NEW m \in Natives PROVE NativeOK(m)'
  <2>1. CASE m = n
    BY <2>1
  <2>2. CASE m # n
    <3>1. native'[m] = native[m] /\ NativeOK(m)
      BY <2>2 DEF ThrInv
    <3>2. object[o].Handle # m /\ object'[o].Handle # m
      BY <2>2
    <3>3. (Owned(m)' <=> Owned(m)) /\ (BeingMade(m)' <=> BeingMade(m))
      BY <3>2 DEF Owned, BeingMade
    <3> QED BY <3>1, <3>3 DEF NativeOK
  <2> QED BY <2>1, <2>2
<1> QED BY <1>1, <1>2, <1>3 DEF ThrInv

\* A thread goes on, whoever owns it.
LEMMA NativeMoves ==
  ASSUME ThrInv, ThrTypes', platform' = platform, object' = object, NEW n \in Natives,
         \A m \in Natives \ {n} : native'[m] = native[m],
         native'[n].closed = native[n].closed,
         native'[n].at \in {"started", "named", "running", "exited"},
         NativeOK(n)'
  PROVE  ThrInv'
<1>1. SoleOwner'
  BY DEF SoleOwner, ThrInv
<1>2. ASSUME NEW p \in Objects PROVE ObjectOK(p)'
  <2>1. ObjectOK(p) /\ object[p].Handle \in Natives \cup {"none"}
    BY DEF ObjectValues, ThrInv, ThrTypes
  <2>2. CASE object[p].Handle = n
    BY <2>1, <2>2 DEF ObjectOK
  <2>3. CASE object[p].Handle # n
    BY <2>1, <2>3 DEF ObjectOK
  <2> QED BY <2>2, <2>3
<1>3. ASSUME NEW m \in Natives PROVE NativeOK(m)'
  <2>1. CASE m = n
    BY <2>1
  <2>2. CASE m # n
    <3>1. native'[m] = native[m] /\ NativeOK(m)
      BY <2>2 DEF ThrInv
    <3>2. (Owned(m)' <=> Owned(m)) /\ (BeingMade(m)' <=> BeingMade(m))
      BY DEF Owned, BeingMade
    <3> QED BY <3>1, <3>2 DEF NativeOK
  <2> QED BY <2>1, <2>2
<1> QED BY <1>1, <1>2, <1>3 DEF ThrInv

\* What SetNative leaves alone.
LEMMA NativeChanges ==
  ASSUME ThrTypes, NEW n \in Natives, NEW changes, DOMAIN changes \subseteq NativeFields,
         Thr!SetNative(n, changes)
  PROVE  /\ DOMAIN native' = Natives /\ DOMAIN native'[n] = NativeFields
         /\ \A m \in Natives \ {n} : native'[m] = native[m]
         /\ \A f \in NativeFields :
              native'[n][f] = IF f \in DOMAIN changes THEN changes[f] ELSE native[n][f]
BY DEF ThrTypes, Thr!SetNative

\* Types are kept by a step that gives one object a value and changes one thread's.
LEMMA TypesMove ==
  ASSUME ThrTypes, platform' = platform, NEW o \in Objects, NEW r \in ObjectValues,
         object' = [object EXCEPT ![o] = r] \/ object' = object, NEW n \in Natives,
         DOMAIN native' = Natives, DOMAIN native'[n] = NativeFields,
         \A m \in Natives \ {n} : native'[m] = native[m],
         native'[n].at \in NativePlaces, native'[n].contexts \in Nat,
         native'[n].frees \in Nat, native'[n].closed \in Nat
  PROVE  ThrTypes'
<1>1. object \in [Objects -> ObjectValues] /\ platform \in {"POSIX", "Windows"}
  BY DEF ThrTypes
<1>2. object' \in [Objects -> ObjectValues]
  BY <1>1
<1>3. ASSUME NEW m \in Natives
      PROVE  /\ DOMAIN native'[m] = NativeFields /\ native'[m].at \in NativePlaces
             /\ native'[m].contexts \in Nat /\ native'[m].frees \in Nat
             /\ native'[m].closed \in Nat
  <2>1. CASE m = n
    BY <2>1
  <2>2. CASE m # n
    BY <2>2 DEF ThrTypes
  <2> QED BY <2>1, <2>2
<1> QED BY <1>1, <1>2, <1>3 DEF ThrTypes

LEMMA FieldsGiven ==
  /\ \A x, y, z : DOMAIN [at |-> x, info |-> y, contexts |-> z] \subseteq NativeFields
  /\ \A x, y : DOMAIN [at |-> x, frees |-> y] \subseteq NativeFields
  /\ \A x, y : DOMAIN [at |-> x, tried |-> y] \subseteq NativeFields
  /\ \A x : DOMAIN [at |-> x] \subseteq NativeFields
  /\ \A x : DOMAIN [tried |-> x] \subseteq NativeFields
  /\ \A x : DOMAIN [closed |-> x] \subseteq NativeFields
BY DEF NativeFields

\* OwnedThread::Create, up to the allocation of the start context.
LEMMA PrepareKeeps ==
  ASSUME ThrInv, "none" \notin Natives, NEW o \in Objects, Thr!Create(o)
  PROVE  ThrInv'
<1>1. PICK n \in Natives, info \in Infos : Thr!Prepare(o, n, info)
  BY DEF Thr!Create
<1>2. /\ object[o].at = "idle" /\ ~object[o].Joinable /\ native[n].at = "unmade"
      /\ platform' = platform
      /\ Thr!SetNative(n, [at |-> "prepared", info |-> info, contexts |-> 1])
      /\ object' = [object EXCEPT ![o] = [Thr!NoThread EXCEPT !.at = "creating", !.Handle = n]]
  BY <1>1 DEF Thr!Create, Thr!Prepare
<1>3. /\ DOMAIN native' = Natives /\ DOMAIN native'[n] = NativeFields
      /\ \A m \in Natives \ {n} : native'[m] = native[m]
      /\ native'[n].at = "prepared" /\ native'[n].info = info /\ native'[n].contexts = 1
      /\ native'[n].frees = native[n].frees /\ native'[n].tried = native[n].tried
      /\ native'[n].closed = native[n].closed
  BY <1>2, FieldsGiven, NativeChanges DEF ThrInv, NativeFields
<1>4. /\ object \in [Objects -> ObjectValues]
      /\ ObjectOK(o) /\ NativeOK(n) /\ ThrTypes
  BY DEF ThrInv, ThrTypes
<1>5. /\ object'[o] = [at |-> "creating", Joinable |-> FALSE, Handle |-> n]
      /\ object[o].Handle = "none"
      /\ \A p \in Objects \ {o} : object'[p] = object[p]
  BY <1>2, <1>4 DEF Thr!NoThread, ObjectOK
<1>6. \A p \in Objects : object[p].Handle # n
  BY <1>2 DEF ThrInv, ObjectOK
<1>7. ThrTypes'
  <2>1. PICK r : r = [Thr!NoThread EXCEPT !.at = "creating", !.Handle = n]
    OBVIOUS
  <2>2. object' = [object EXCEPT ![o] = r]
    BY <1>2, <2>1
  <2>3. r = [at |-> "creating", Joinable |-> FALSE, Handle |-> n]
    BY <1>4, <1>5, <2>2
  <2>4. r \in ObjectValues
    BY <2>3 DEF ObjectValues
  <2>5. native[n].frees \in Nat /\ native[n].closed \in Nat
    BY <1>4 DEF ThrTypes
  <2>6. native'[n].at \in NativePlaces /\ native'[n].contexts \in Nat
    BY <1>3 DEF NativePlaces
  <2> QED BY <1>2, <1>3, <1>4, <2>2, <2>4, <2>5, <2>6, TypesMove
<1>8. ObjectOK(o)'
  <2>1. native'[n].closed = 0
    BY <1>2, <1>3, <1>4 DEF NativeOK
  <2> QED BY <1>3, <1>5, <2>1 DEF ObjectOK
<1>9. NativeOK(n)'
  <2>1. BeingMade(n)'
    BY <1>5 DEF BeingMade
  <2> QED BY <1>2, <1>3, <1>4, <2>1 DEF NativeOK
<1> QED BY <1>2, <1>3, <1>5, <1>6, <1>7, <1>8, <1>9, ObjectMoves

\* The creator's next step: the system refuses, makes the thread, or has returned.
LEMMA CreatorKeeps ==
  ASSUME ThrInv, "none" \notin Natives, NEW o \in Objects,
         Thr!StartFails(o) \/ Thr!Start(o) \/ Thr!StorePosix(o) \/ Thr!StoreWindows(o)
  PROVE  ThrInv'
<1>1. object[o].at = "creating" /\ platform' = platform
  BY DEF Thr!StartFails, Thr!Start, Thr!StorePosix, Thr!StoreWindows
<1>2. /\ object \in [Objects -> ObjectValues]
      /\ ObjectOK(o) /\ ThrTypes
  BY DEF ThrInv, ThrTypes
<1>3. PICK n \in Natives : n = object[o].Handle
  BY <1>1, <1>2 DEF ObjectValues, ObjectOK
<1>4. /\ NativeOK(n) /\ native[n].closed = 0 /\ native[n].at \in NativePlaces
      /\ native[n].at \notin {"unmade", "failed"}
  BY <1>2, <1>3 DEF ThrInv, ThrTypes, ObjectOK
<1>5. \A p \in Objects \ {o} : object[p].Handle # n
  BY <1>3 DEF ThrInv, SoleOwner
<1>6. CASE Thr!StartFails(o)
  <2>1. /\ native[n].at = "prepared" /\ object' = [object EXCEPT ![o] = Thr!NoThread]
        /\ Thr!SetNative(n, [at |-> "failed", frees |-> native[n].frees + 1])
    BY <1>3, <1>6 DEF Thr!StartFails
  <2>2. /\ DOMAIN native' = Natives /\ DOMAIN native'[n] = NativeFields
        /\ \A m \in Natives \ {n} : native'[m] = native[m]
        /\ native'[n].at = "failed" /\ native'[n].frees = native[n].frees + 1
        /\ native'[n].contexts = native[n].contexts /\ native'[n].tried = native[n].tried
        /\ native'[n].closed = native[n].closed
    BY <1>2, <2>1, FieldsGiven, NativeChanges DEF NativeFields
  <2>3. /\ object'[o] = [at |-> "idle", Joinable |-> FALSE, Handle |-> "none"]
        /\ \A p \in Objects \ {o} : object'[p] = object[p]
    BY <1>2, <2>1 DEF Thr!NoThread
  <2>4. ThrTypes'
    <3>1. PICK r \in ObjectValues : r = Thr!NoThread
      BY DEF ObjectValues, Thr!NoThread
    <3>2. /\ native[n].frees \in Nat /\ native[n].closed \in Nat
          /\ native[n].contexts \in Nat
      BY <1>2 DEF ThrTypes
    <3>3. native'[n].at \in NativePlaces /\ native'[n].frees \in Nat
      BY <2>2, <3>2 DEF NativePlaces
    <3> QED BY <1>1, <1>2, <2>1, <2>2, <3>1, <3>2, <3>3, TypesMove
  <2>5. ObjectOK(o)' /\ NativeOK(n)'
    BY <1>4, <2>1, <2>2, <2>3 DEF ObjectOK, NativeOK
  <2> QED BY <1>1, <1>3, <1>5, <2>2, <2>3, <2>4, <2>5, ObjectMoves
<1>7. CASE Thr!Start(o)
  <2>1. /\ native[n].at = "prepared" /\ object' = object
        /\ Thr!SetNative(n, [at |-> "started"])
    BY <1>3, <1>7 DEF Thr!Start
  <2>2. /\ DOMAIN native' = Natives /\ DOMAIN native'[n] = NativeFields
        /\ \A m \in Natives \ {n} : native'[m] = native[m]
        /\ native'[n].at = "started" /\ native'[n].frees = native[n].frees
        /\ native'[n].contexts = native[n].contexts /\ native'[n].tried = native[n].tried
        /\ native'[n].closed = native[n].closed /\ native'[n].info = native[n].info
    BY <1>2, <2>1, FieldsGiven, NativeChanges DEF NativeFields
  <2>3. ThrTypes'
    BY <1>1, <1>2, <2>1, <2>2 DEF ThrTypes, NativePlaces
  <2>4. Owned(n)' /\ BeingMade(n)'
    BY <1>1, <1>3, <2>1 DEF Owned, BeingMade
  <2>5. NativeOK(n)'
    BY <1>4, <2>1, <2>2, <2>4 DEF NativeOK
  <2> QED BY <1>1, <2>1, <2>2, <2>3, <2>5, NativeMoves
<1>8. CASE Thr!StorePosix(o) \/ Thr!StoreWindows(o)
  <2>1. /\ native[n].at \in {"started", "named", "running", "exited"}
        /\ object' = [object EXCEPT ![o] = Thr!Stored(o)]
        /\ \/ platform = "POSIX" /\ native' = native
           \/ /\ platform = "Windows"
              /\ Thr!SetNative(n, [tried |-> native[n].tried \cup Thr!StoredPoliciesWindows(n)])
    BY <1>3, <1>4, <1>8 DEF Thr!StorePosix, Thr!StoreWindows, NativePlaces
  <2>2. /\ object'[o] = [at |-> "idle", Joinable |-> TRUE, Handle |-> n]
        /\ \A p \in Objects \ {o} : object'[p] = object[p]
    BY <1>2, <1>3, <2>1 DEF ObjectValues, Thr!Stored
  <2>3. /\ DOMAIN native' = Natives /\ DOMAIN native'[n] = NativeFields
        /\ \A m \in Natives \ {n} : native'[m] = native[m]
        /\ native'[n].at = native[n].at /\ native'[n].frees = native[n].frees
        /\ native'[n].contexts = native[n].contexts
        /\ native'[n].closed = native[n].closed /\ native'[n].info = native[n].info
        /\ platform = "POSIX" => native'[n].tried = native[n].tried
        /\ platform = "Windows" =>
             native'[n].tried = native[n].tried \cup (native[n].info.policies \ {"name"})
    <3>1. CASE platform = "POSIX" /\ native' = native
      BY <1>2, <3>1 DEF ThrTypes
    <3>2. CASE /\ platform = "Windows"
               /\ Thr!SetNative(n, [tried |-> native[n].tried \cup Thr!StoredPoliciesWindows(n)])
      BY <1>2, <3>2, FieldsGiven, NativeChanges DEF NativeFields, Thr!StoredPoliciesWindows
    <3> QED BY <2>1, <3>1, <3>2
  <2>4. ThrTypes'
    <3>1. PICK r \in ObjectValues : r = Thr!Stored(o)
      BY <1>2, <1>3 DEF ObjectValues, Thr!Stored
    <3>2. /\ native[n].frees \in Nat /\ native[n].closed \in Nat
          /\ native[n].contexts \in Nat
      BY <1>2 DEF ThrTypes
    <3> QED BY <1>1, <1>2, <1>4, <2>1, <2>3, <3>1, <3>2, TypesMove
  <2>5. Owned(n) /\ BeingMade(n) /\ Owned(n)' /\ ~BeingMade(n)'
    BY <1>1, <1>3, <1>5, <2>2 DEF Owned, BeingMade
  <2>6. ObjectOK(o)'
    BY <1>4, <2>1, <2>2, <2>3 DEF ObjectOK
  <2>7. NativeOK(n)'
    BY <1>1, <1>4, <2>1, <2>3, <2>5 DEF NativeOK
  <2> QED BY <1>1, <1>3, <1>5, <2>2, <2>3, <2>4, <2>6, <2>7, ObjectMoves
<1> QED BY <1>6, <1>7, <1>8

\* The new thread applies its policies, frees the context, runs and ends.
LEMMA ThreadKeeps ==
  ASSUME ThrInv, NEW n \in Natives,
         \/ Thr!ApplyCurrentThreadStartupPolicy(n)
         \/ Thr!EnterPosix(n) \/ Thr!EnterWindows(n) \/ Thr!Exit(n)
  PROVE  ThrInv'
<1>1. /\ object' = object /\ platform' = platform
      /\ native[n].at \in {"started", "named", "running"}
  BY DEF Thr!ApplyCurrentThreadStartupPolicy, Thr!EnterPosix, Thr!EnterWindows, Thr!Exit
<1>2. ThrTypes /\ NativeOK(n) /\ platform \in {"POSIX", "Windows"}
  BY DEF ThrInv, ThrTypes
<1>3. (Owned(n)' <=> Owned(n)) /\ (BeingMade(n)' <=> BeingMade(n))
  BY <1>1 DEF Owned, BeingMade
<1>4. CASE Thr!ApplyCurrentThreadStartupPolicy(n)
  <2>1. /\ native[n].at = "started"
        /\ Thr!SetNative(n, [at |-> "named",
             tried |-> IF platform = "POSIX" THEN Thr!StartPolicyPosix(n)
                       ELSE native[n].tried \cup Thr!StartPolicyWindows(n)])
    BY <1>4 DEF Thr!ApplyCurrentThreadStartupPolicy
  <2>2. /\ DOMAIN native' = Natives /\ DOMAIN native'[n] = NativeFields
        /\ \A m \in Natives \ {n} : native'[m] = native[m]
        /\ native'[n].at = "named" /\ native'[n].frees = native[n].frees
        /\ native'[n].contexts = native[n].contexts
        /\ native'[n].closed = native[n].closed /\ native'[n].info = native[n].info
        /\ native'[n].tried = IF platform = "POSIX" THEN native[n].info.policies
             ELSE native[n].tried \cup (native[n].info.policies \cap {"name"})
    <3>1. PICK t : t = IF platform = "POSIX" THEN Thr!StartPolicyPosix(n)
                       ELSE native[n].tried \cup Thr!StartPolicyWindows(n)
      OBVIOUS
    <3>2. Thr!SetNative(n, [at |-> "named", tried |-> t])
      BY <2>1, <3>1
    <3>3. /\ DOMAIN native' = Natives /\ DOMAIN native'[n] = NativeFields
          /\ \A m \in Natives \ {n} : native'[m] = native[m]
          /\ native'[n].at = "named" /\ native'[n].frees = native[n].frees
          /\ native'[n].contexts = native[n].contexts
          /\ native'[n].closed = native[n].closed /\ native'[n].info = native[n].info
          /\ native'[n].tried = t
      BY <1>2, <3>2, FieldsGiven, NativeChanges DEF NativeFields
    <3> QED BY <3>1, <3>3 DEF Thr!StartPolicyPosix, Thr!StartPolicyWindows
  <2>3. ThrTypes'
    BY <1>1, <1>2, <2>2 DEF ThrTypes, NativePlaces
  <2>4. NativeOK(n)'
    BY <1>1, <1>2, <1>3, <2>1, <2>2 DEF NativeOK
  <2> QED BY <1>1, <2>2, <2>3, <2>4, NativeMoves
<1>5. CASE Thr!EnterPosix(n) \/ Thr!EnterWindows(n)
  <2>1. /\ native[n].at = "named"
        /\ Thr!SetNative(n, [at |-> "running", frees |-> native[n].frees + 1])
    BY <1>5 DEF Thr!EnterPosix, Thr!EnterWindows
  <2>2. /\ DOMAIN native' = Natives /\ DOMAIN native'[n] = NativeFields
        /\ \A m \in Natives \ {n} : native'[m] = native[m]
        /\ native'[n].at = "running" /\ native'[n].frees = native[n].frees + 1
        /\ native'[n].contexts = native[n].contexts /\ native'[n].tried = native[n].tried
        /\ native'[n].closed = native[n].closed /\ native'[n].info = native[n].info
    BY <1>2, <2>1, FieldsGiven, NativeChanges DEF NativeFields
  <2>3. ThrTypes'
    BY <1>1, <1>2, <2>2 DEF ThrTypes, NativePlaces
  <2>4. NativeOK(n)'
    BY <1>1, <1>2, <1>3, <2>1, <2>2 DEF NativeOK
  <2> QED BY <1>1, <2>2, <2>3, <2>4, NativeMoves
<1>6. CASE Thr!Exit(n)
  <2>1. native[n].at = "running" /\ Thr!SetNative(n, [at |-> "exited"])
    BY <1>6 DEF Thr!Exit
  <2>2. /\ DOMAIN native' = Natives /\ DOMAIN native'[n] = NativeFields
        /\ \A m \in Natives \ {n} : native'[m] = native[m]
        /\ native'[n].at = "exited" /\ native'[n].frees = native[n].frees
        /\ native'[n].contexts = native[n].contexts /\ native'[n].tried = native[n].tried
        /\ native'[n].closed = native[n].closed /\ native'[n].info = native[n].info
    BY <1>2, <2>1, FieldsGiven, NativeChanges DEF NativeFields
  <2>3. ThrTypes'
    BY <1>1, <1>2, <2>2 DEF ThrTypes, NativePlaces
  <2>4. NativeOK(n)'
    BY <1>1, <1>2, <1>3, <2>1, <2>2 DEF NativeOK
  <2> QED BY <1>1, <2>2, <2>3, <2>4, NativeMoves
<1> QED BY <1>4, <1>5, <1>6

\* Join and Detach.
LEMMA OwnerKeeps ==
  ASSUME ThrInv, "none" \notin Natives, NEW o \in Objects, Thr!GiveUpHandle(o)
  PROVE  ThrInv'
<1>1. object[o].at = "idle" /\ object[o].Joinable /\ platform' = platform
  BY DEF Thr!GiveUpHandle
<1>2. /\ object \in [Objects -> ObjectValues]
      /\ ObjectOK(o) /\ ThrTypes
  BY DEF ThrInv, ThrTypes
<1>3. PICK n \in Natives : n = object[o].Handle
  BY <1>1, <1>2 DEF ObjectValues, ObjectOK
<1>4. /\ NativeOK(n) /\ native[n].closed = 0
      /\ native[n].at \in {"started", "named", "running", "exited"}
  BY <1>1, <1>2, <1>3 DEF ThrInv, ThrTypes, ObjectOK, NativePlaces
<1>5. \A p \in Objects \ {o} : object[p].Handle # n
  BY <1>3 DEF ThrInv, SoleOwner
<1>6. /\ object' = [object EXCEPT ![o] = Thr!NoThread]
      /\ Thr!SetNative(n, [closed |-> native[n].closed + 1])
  BY <1>3 DEF Thr!GiveUpHandle
<1>7. /\ DOMAIN native' = Natives /\ DOMAIN native'[n] = NativeFields
      /\ \A m \in Natives \ {n} : native'[m] = native[m]
      /\ native'[n].at = native[n].at /\ native'[n].frees = native[n].frees
      /\ native'[n].contexts = native[n].contexts /\ native'[n].tried = native[n].tried
      /\ native'[n].closed = native[n].closed + 1 /\ native'[n].info = native[n].info
  BY <1>2, <1>6, FieldsGiven, NativeChanges DEF NativeFields
<1>8. /\ object'[o] = [at |-> "idle", Joinable |-> FALSE, Handle |-> "none"]
      /\ \A p \in Objects \ {o} : object'[p] = object[p]
  BY <1>2, <1>6 DEF Thr!NoThread
<1>9. ThrTypes'
  <2>1. PICK r \in ObjectValues : r = Thr!NoThread
    BY DEF ObjectValues, Thr!NoThread
  <2>2. /\ native[n].frees \in Nat /\ native[n].contexts \in Nat
        /\ native[n].at \in NativePlaces
    BY <1>2 DEF ThrTypes
  <2>3. native'[n].closed \in Nat
    BY <1>4, <1>7
  <2> QED BY <1>1, <1>2, <1>6, <1>7, <2>1, <2>2, <2>3, TypesMove
<1>10. ~BeingMade(n) /\ ~BeingMade(n)' /\ ~Owned(n)'
  BY <1>1, <1>3, <1>5, <1>8 DEF Owned, BeingMade
<1>11. ObjectOK(o)' /\ NativeOK(n)'
  BY <1>1, <1>4, <1>7, <1>8, <1>10 DEF ObjectOK, NativeOK
<1> QED BY <1>1, <1>3, <1>5, <1>7, <1>8, <1>9, <1>11, ObjectMoves

\* The instance has a Cardinality of its own, which is the same.
LEMMA ThrCardinality ==
  ASSUME NEW S
  PROVE  Thr!Cardinality(S) = Cardinality(S)
BY Zenon DEF Thr!Cardinality, Cardinality

\* A thread that was made is owned by one object until it is joined or detached, once;
\* its start context is freed once; and its policies have been tried when it runs and
\* its creator knows of it; on either platform, in any order of creator and thread.
THEOREM ThreadsAreOwned ==
  ASSUME "none" \notin Natives
  PROVE  Thr!Spec => []ThreadsOwned
<1>1. Thr!InitThreads => ThrInv
  <2> SUFFICES ASSUME Thr!InitThreads PROVE ThrInv
    OBVIOUS
  <2>1. \A o \in Objects : object[o] = [at |-> "idle", Joinable |-> FALSE, Handle |-> "none"]
    BY DEF Thr!InitThreads, Thr!NoThread
  <2>2. \A n \in Natives :
          /\ DOMAIN native[n] = NativeFields /\ native[n].at = "unmade"
          /\ native[n].contexts = 0 /\ native[n].frees = 0 /\ native[n].closed = 0
          /\ native[n].tried = {}
    BY DEF Thr!InitThreads, Thr!Unmade, NativeFields
  <2>3. ThrTypes
    BY <2>1, <2>2 DEF ObjectValues, Thr!InitThreads, ThrTypes, Thr!NoThread, NativePlaces
  <2>4. SoleOwner /\ \A o \in Objects : ObjectOK(o)
    BY <2>1 DEF SoleOwner, ObjectOK
  <2>5. \A n \in Natives : NativeOK(n)
    BY <2>2 DEF NativeOK
  <2> QED BY <2>3, <2>4, <2>5 DEF ThrInv
<1>2. ThrInv /\ [Thr!Next]_(Thr!threadVars) => ThrInv'
  <2> SUFFICES ASSUME ThrInv, [Thr!Next]_(Thr!threadVars) PROVE ThrInv'
    OBVIOUS
  <2>1. CASE UNCHANGED Thr!threadVars
    BY <2>1 DEF Thr!threadVars, ThrInv, ThrTypes, SoleOwner, ObjectOK, NativeOK, Owned, BeingMade
  <2>2. CASE Thr!Next
    <3>1. ASSUME NEW o \in Objects,
                 \/ Thr!Create(o) \/ Thr!StartFails(o) \/ Thr!Start(o)
                 \/ Thr!StorePosix(o) \/ Thr!StoreWindows(o)
                 \/ Thr!JoinPosix(o) \/ Thr!JoinWindows(o)
                 \/ Thr!DetachPosix(o) \/ Thr!DetachWindows(o)
          PROVE  ThrInv'
      BY <3>1, PrepareKeeps, CreatorKeeps, OwnerKeeps
         DEF Thr!JoinPosix, Thr!JoinWindows, Thr!DetachPosix, Thr!DetachWindows
    <3>2. ASSUME NEW n \in Natives,
                 \/ Thr!ApplyCurrentThreadStartupPolicy(n)
                 \/ Thr!EnterPosix(n) \/ Thr!EnterWindows(n) \/ Thr!Exit(n)
          PROVE  ThrInv'
      BY <3>2, ThreadKeeps
    <3> QED BY <2>2, <3>1, <3>2 DEF Thr!Next
  <2> QED BY <2>1, <2>2
<1>3. ASSUME ThrInv PROVE ThreadsOwned
  <2> DEFINE owners(n) == {o \in Objects : object[o].Handle = n}
  <2>1. \A n \in Natives : NativeOK(n) /\ native[n].at \in NativePlaces
    BY <1>3 DEF ThrInv, ThrTypes
  <2>2. platform \in {"POSIX", "Windows"}
    BY <1>3 DEF ThrInv, ThrTypes
  <2>3. Thr!ContextFreedOnce
    BY <2>1 DEF Thr!ContextFreedOnce, NativeOK
  <2>4. ASSUME NEW n \in Natives, native[n].at \notin {"unmade", "prepared", "failed"}
        PROVE  Thr!Cardinality(owners(n)) = 1 - native[n].closed
    <3>1. native[n].closed = IF Owned(n) THEN 0 ELSE 1
      BY <2>1, <2>4 DEF NativeOK, NativePlaces
    <3>2. CASE Owned(n)
      <4>1. PICK o \in Objects : object[o].Handle = n
        BY <3>2 DEF Owned
      <4>2. owners(n) = {o}
        BY <1>3, <4>1 DEF ThrInv, SoleOwner
      <4> QED BY <3>1, <3>2, <4>2, ThrCardinality, FS_Singleton
    <3>3. CASE ~Owned(n)
      <4>1. owners(n) = {}
        BY <3>3 DEF Owned
      <4> QED BY <3>1, <3>3, <4>1, ThrCardinality, FS_EmptySet
    <3> QED BY <3>2, <3>3
  <2>5. Thr!OneOwner
    BY <2>4 DEF Thr!OneOwner, Thr!Made
  <2>6. ASSUME NEW n \in Natives, native[n].at \in {"running", "exited"},
               \A o \in Objects : object[o].Handle = n => object[o].at = "idle"
        PROVE  native[n].tried = native[n].info.policies
    <3>1. ~BeingMade(n)
      BY <2>6 DEF BeingMade
    <3> QED BY <2>1, <2>2, <2>6, <3>1 DEF NativeOK
  <2>7. Thr!PoliciesTried
    BY <2>6 DEF Thr!PoliciesTried, Thr!Made
  <2> QED BY <2>3, <2>5, <2>7 DEF ThreadsOwned, Thr!ThreadsOwned
<1> QED BY <1>1, <1>2, <1>3, PTL DEF Thr!Spec

-----------------------------------------------------------------------------
(***************************************************************************)
(* The output buffer.                                                      *)
(***************************************************************************)

LEMMA BytesAre ==
  ASSUME NEW a \in Int, NEW b \in Int, b >= a - 1
  PROVE  /\ Out!Bytes(a, b) \in Seq(Int) /\ Len(Out!Bytes(a, b)) = b - a + 1
         /\ DOMAIN Out!Bytes(a, b) = 1..(b - a + 1)
         /\ \A i \in 1..(b - a + 1) : Out!Bytes(a, b)[i] = a + i - 1
<1>1. b - a + 1 \in Nat
  OBVIOUS
<1> QED BY <1>1 DEF Out!Bytes

LEMMA NextBytes ==
  ASSUME NEW end \in Int, NEW count \in Nat
  PROVE  LET data == Out!Bytes(end + 1, end + count)
         IN  /\ data \in Seq(Int) /\ Len(data) = count /\ DOMAIN data = 1..count
             /\ \A i \in 1..count : data[i] = end + i
<1>1. PICK a \in Int, b \in Int : a = end + 1 /\ b = end + count
  OBVIOUS
<1>2. b >= a - 1 /\ b - a + 1 = count
  BY <1>1
<1>3. PICK d : d = Out!Bytes(a, b)
  OBVIOUS
<1>4. /\ d \in Seq(Int) /\ Len(d) = count /\ DOMAIN d = 1..count
      /\ \A i \in 1..count : d[i] = a + i - 1
  BY <1>2, <1>3, BytesAre
<1>5. \A i \in 1..count : d[i] = end + i
  BY <1>1, <1>4
<1> QED BY <1>1, <1>3, <1>4, <1>5

\* What is a sequence of bytes that follow each other.
LEMMA AreBytes ==
  ASSUME NEW a \in Int, NEW b \in Int, b >= a - 1, NEW s \in Seq(Int), Len(s) = b - a + 1,
         \A i \in 1..(b - a + 1) : s[i] = a + i - 1
  PROVE  s = Out!Bytes(a, b)
<1>1. s = [i \in 1..(b - a + 1) |-> s[i]]
  OBVIOUS
<1> QED BY <1>1 DEF Out!Bytes

LEMMA BytesJoin ==
  ASSUME NEW b \in Nat, NEW c \in Int, c >= b
  PROVE  Out!Bytes(1, b) \o Out!Bytes(b + 1, c) = Out!Bytes(1, c)
<1> DEFINE s == Out!Bytes(1, b)
<1> DEFINE t == Out!Bytes(b + 1, c)
<1>1. /\ s \in Seq(Int) /\ Len(s) = b /\ \A i \in 1..b : s[i] = i
  <2>1. PICK a \in Int : a = 1
    OBVIOUS
  <2>2. b >= a - 1
    BY <2>1
  <2>3. /\ Out!Bytes(a, b) \in Seq(Int) /\ Len(Out!Bytes(a, b)) = b - a + 1
        /\ \A i \in 1..(b - a + 1) : Out!Bytes(a, b)[i] = a + i - 1
    BY <2>2, BytesAre
  <2>4. s = Out!Bytes(a, b)
    BY <2>1
  <2> HIDE DEF s
  <2> QED BY <2>1, <2>3, <2>4
<1>2. /\ t \in Seq(Int) /\ Len(t) = c - b
      /\ \A i \in 1..(c - b) : t[i] = b + i
  <2>1. b + 1 \in Int /\ c >= (b + 1) - 1 /\ c - (b + 1) + 1 = c - b
    OBVIOUS
  <2>2. /\ t \in Seq(Int) /\ Len(t) = c - (b + 1) + 1
        /\ \A i \in 1..(c - (b + 1) + 1) : t[i] = b + 1 + i - 1
    BY <2>1, BytesAre
  <2> HIDE DEF t
  <2> QED BY <2>1, <2>2
<1> HIDE DEF s, t
<1>3. s \o t \in Seq(Int) /\ Len(s \o t) = c
  BY <1>1, <1>2
<1>4. ASSUME NEW i \in 1..c PROVE (s \o t)[i] = i
  <2>1. (s \o t)[i] = IF i <= Len(s) THEN s[i] ELSE t[i - Len(s)]
    BY <1>1, <1>2, <1>3
  <2> QED BY <1>1, <1>2, <2>1
<1>5. s \o t = Out!Bytes(1, c)
  <2>1. PICK u \in Seq(Int) : u = s \o t
    BY <1>3
  <2>2. Len(u) = c - 1 + 1 /\ c >= 1 - 1
        /\ \A i \in 1..(c - 1 + 1) : u[i] = 1 + i - 1
    BY <1>3, <1>4, <2>1
  <2>3. u = Out!Bytes(1, c)
    BY <2>2, AreBytes
  <2> QED BY <2>1, <2>3
<1> QED BY <1>5 DEF s, t

LEMMA SubBytes ==
  ASSUME NEW a \in Int, NEW b \in Int, b >= a - 1,
         NEW i \in Nat \ {0}, NEW j \in Nat, i <= j + 1, j <= b - a + 1
  PROVE  SubSeq(Out!Bytes(a, b), i, j) = Out!Bytes(a + i - 1, a + j - 1)
<1> DEFINE s == Out!Bytes(a, b)
<1> DEFINE t == SubSeq(s, i, j)
<1>1. /\ s \in Seq(Int) /\ Len(s) = b - a + 1 /\ \A k \in 1..(b - a + 1) : s[k] = a + k - 1
  BY BytesAre
<1> HIDE DEF s
<1>2. /\ t \in Seq(Int) /\ Len(t) = j - i + 1
      /\ \A k \in 1..(j - i + 1) : t[k] = s[i + k - 1]
  BY <1>1
<1> HIDE DEF t
<1>3. \A k \in 1..(j - i + 1) : t[k] = a + i - 1 + k - 1
  BY <1>1, <1>2
<1>4. t = Out!Bytes(a + i - 1, a + j - 1)
  BY <1>2, <1>3, AreBytes
<1> QED BY <1>4 DEF s, t

\* The ring holds the last bytes up to the one numbered end, in order from m_tailStart.
RingHolds(end) ==
  /\ m_tailStart \in 0..(Out!m_tailCapacity - 1)
  /\ m_tailSize \in 0..Out!m_tailCapacity
  /\ m_tailSize < Out!m_tailCapacity => m_tailStart = 0
  /\ m_tail \in Seq(Int) /\ Len(m_tail) = m_tailSize
  /\ \A p \in 1..m_tailSize :
       m_tail[p] = end - m_tailSize + (p - m_tailStart)
                     + (IF p > m_tailStart THEN 0 ELSE Out!m_tailCapacity)

\* An index of the ring, up to one turn on.
LEMMA RingTurn ==
  ASSUME NEW n \in Nat \ {0}, NEW x \in 0..(2 * n - 1)
  PROVE  /\ x % n = IF x < n THEN x ELSE x - n
         /\ x % n \in 0..(n - 1)
<1>1. /\ x % n \in 0..(n - 1)
      /\ x = n * (x \div n) + (x % n) /\ x \div n \in Int
  OBVIOUS
<1>2. x % n = IF x < n THEN x ELSE x - n
  BY <1>1
<1> QED BY <1>1, <1>2

\* More than the ring holds: its last bytes are kept.
LEMMA TailReplaced ==
  ASSUME Out!m_tailCapacity \in Nat \ {0}, m_maximumBytes' = m_maximumBytes,
         NEW end \in Int, NEW count \in Nat \ {0}, count >= Out!m_tailCapacity,
         RingHolds(end), Out!AppendTail(Out!Bytes(end + 1, end + count))
  PROVE  RingHolds(end + count)' /\ m_tailSize' = Out!m_tailCapacity
<1> DEFINE data == Out!Bytes(end + 1, end + count)
<1> DEFINE T == Out!m_tailCapacity
<1>1. /\ data \in Seq(Int) /\ Len(data) = count
      /\ \A i \in 1..count : data[i] = end + i
  BY NextBytes
<1>2. /\ m_tail' = SubSeq(data, count - T + 1, count)
      /\ m_tailStart' = 0 /\ m_tailSize' = T
  <2> HIDE DEF data
  <2>1. data # <<>> /\ Out!m_tailCapacity # 0 /\ Len(data) >= Out!m_tailCapacity
    BY <1>1
  <2>2. ~(Out!m_tailCapacity = 0 \/ data = <<>>) /\ ~(Len(data) < Out!m_tailCapacity)
    BY <1>1, <2>1
  <2>3. Out!AppendTail(data)
    BY DEF data
  <2>4. /\ m_tail' = SubSeq(data, Len(data) - Out!m_tailCapacity + 1, Len(data))
        /\ m_tailStart' = 0 /\ m_tailSize' = Out!m_tailCapacity
    BY ONLY <2>1, <2>2, <2>3 DEF Out!AppendTail
  <2> QED BY <1>1, <2>4
<1>3. T' = T
  BY DEF Out!m_tailCapacity, Out!m_headCapacity
<1> HIDE DEF data, T
<1>4. T \in Nat \ {0} /\ count >= T
  BY DEF T
<1>5. /\ m_tail' \in Seq(Int) /\ Len(m_tail') = T
      /\ \A p \in 1..T : m_tail'[p] = data[count - T + 1 + p - 1]
  BY <1>1, <1>2, <1>4
<1>6. \A p \in 1..T : m_tail'[p] = end + count - T + p
  BY <1>1, <1>4, <1>5
<1>7. RingHolds(end + count)'
  <2>1. ASSUME NEW p \in 1..m_tailSize'
        PROVE  m_tail'[p] = end + count - m_tailSize' + (p - m_tailStart')
                              + (IF p > m_tailStart' THEN 0 ELSE T)
    <3>1. p \in 1..T /\ p \in Int /\ p > 0
      BY <1>2, <1>4
    <3>2. m_tail'[p] = end + count - T + p
      BY <1>6, <3>1
    <3> QED BY <1>2, <1>4, <3>1, <3>2
  <2>2. /\ m_tailStart' \in 0..(T - 1) /\ m_tailSize' \in 0..T
        /\ (m_tailSize' < T => m_tailStart' = 0)
    BY <1>2, <1>4
  <2>3. m_tail' \in Seq(Int) /\ Len(m_tail') = m_tailSize'
    BY <1>2, <1>5
  <2> QED BY <1>3, <2>1, <2>2, <2>3 DEF RingHolds, T
<1> QED BY <1>2, <1>7 DEF T

\* The ring fills up, and what is over goes to its start.
LEMMA TailFilled ==
  ASSUME Out!m_tailCapacity \in Nat \ {0}, m_maximumBytes' = m_maximumBytes,
         NEW end \in Int, NEW count \in Nat \ {0}, count < Out!m_tailCapacity,
         m_tailSize < Out!m_tailCapacity,
         RingHolds(end), Out!AppendTail(Out!Bytes(end + 1, end + count))
  PROVE  /\ RingHolds(end + count)'
         /\ m_tailSize' = IF m_tailSize + count < Out!m_tailCapacity THEN m_tailSize + count
                          ELSE Out!m_tailCapacity
<1> DEFINE data == Out!Bytes(end + 1, end + count)
<1> DEFINE T == Out!m_tailCapacity
<1> DEFINE room == T - m_tailSize
<1> DEFINE rest == SubSeq(data, room + 1, Len(data))
<1> DEFINE fit == IF room < Len(data) THEN room ELSE Len(data)
<1> DEFINE full == m_tail \o SubSeq(data, 1, fit)
<1>1. /\ data \in Seq(Int) /\ Len(data) = count
      /\ \A i \in 1..count : data[i] = end + i
  BY NextBytes
<1>2. /\ m_tail' = [p \in 1..Len(full) |-> IF p <= Len(rest) THEN rest[p] ELSE full[p]]
      /\ m_tailSize' = Len(full) /\ m_tailStart' = Len(rest) % T
  <2> HIDE DEF data
  <2>1. data # <<>>
    BY <1>1
  <2>2. Out!AppendTail(data)
    BY DEF data
  <2>3. Out!FillUp(data)
    BY <1>1, <2>1, <2>2 DEF Out!AppendTail
  <2> QED BY <2>3 DEF Out!FillUp, Out!Least
<1>3. T' = T
  BY DEF Out!m_tailCapacity, Out!m_headCapacity
<1>4. /\ T \in Nat \ {0} /\ count < T /\ m_tailSize \in 0..(T - 1) /\ m_tailStart = 0
      /\ m_tail \in Seq(Int) /\ Len(m_tail) = m_tailSize
      /\ \A p \in 1..m_tailSize : m_tail[p] = end - m_tailSize + p
  BY DEF RingHolds
<1> HIDE DEF data, T
<1>5. /\ room \in Nat \ {0} /\ fit \in Nat /\ fit <= count /\ fit <= room
      /\ fit = (IF room < count THEN room ELSE count)
  BY <1>1, <1>4
<1>6. /\ SubSeq(data, 1, fit) \in Seq(Int) /\ Len(SubSeq(data, 1, fit)) = fit
      /\ \A i \in 1..fit : SubSeq(data, 1, fit)[i] = end + i
  BY <1>1, <1>5
<1>7. /\ full \in Seq(Int) /\ Len(full) = m_tailSize + fit
      /\ \A p \in 1..(m_tailSize + fit) : full[p] = end - m_tailSize + p
  <2>1. PICK first \in Seq(Int) : first = SubSeq(data, 1, fit)
    BY <1>6
  <2>2. full = m_tail \o first
    BY <2>1
  <2>3. Len(first) = fit /\ \A i \in 1..fit : first[i] = end + i
    BY <1>6, <2>1
  <2> HIDE DEF full, fit
  <2>4. full \in Seq(Int) /\ Len(full) = Len(m_tail) + Len(first)
    BY <1>4, <2>1, <2>2
  <2>5. Len(full) = m_tailSize + fit
    BY <1>4, <2>3, <2>4
  <2>6. ASSUME NEW p \in 1..(m_tailSize + fit) PROVE full[p] = end - m_tailSize + p
    <3>1. p \in 1..(Len(m_tail) + Len(first))
      BY <1>4, <2>3
    <3>2. full[p] = IF p <= Len(m_tail) THEN m_tail[p] ELSE first[p - Len(m_tail)]
      BY <1>4, <2>1, <2>2, <3>1, ConcatProperties
    <3>3. CASE p <= m_tailSize
      BY <1>4, <1>5, <3>2, <3>3
    <3>4. CASE p > m_tailSize
      <4>1. p - m_tailSize \in 1..fit /\ full[p] = first[p - m_tailSize]
        BY <1>4, <1>5, <3>2, <3>4
      <4>2. full[p] = end + (p - m_tailSize)
        BY <2>3, <4>1
      <4> QED BY <1>4, <1>5, <4>2
    <3> QED BY <1>4, <1>5, <3>3, <3>4
  <2> QED BY <2>4, <2>6, <2>5
<1>8. /\ rest \in Seq(Int) /\ Len(rest) = (IF room < count THEN count - room ELSE 0)
      /\ \A p \in 1..Len(rest) : rest[p] = end + room + p
  BY <1>1, <1>4, <1>5
<1>9. room = T - m_tailSize
  OBVIOUS
<1> HIDE DEF room, fit, rest, full
<1>10. Len(rest) \in Nat /\ Len(rest) < T /\ Len(rest) % T = Len(rest)
  <2>1. PICK k \in Nat : k = Len(rest)
    BY <1>8
  <2>2. k < T /\ k \in 0..(2 * T - 1)
    BY <1>4, <1>5, <1>8, <2>1
  <2>3. k % T = k
    BY <1>4, <2>2, RingTurn
  <2> QED BY <2>1, <2>2, <2>3
<1>11. PICK k \in Nat : k = Len(rest)
  BY <1>10
<1>12. /\ k < T /\ m_tailStart' = k /\ m_tailSize' = m_tailSize + fit
       /\ k = (IF room < count THEN count - room ELSE 0)
       /\ m_tail' = [p \in 1..(m_tailSize + fit) |-> IF p <= k THEN rest[p] ELSE full[p]]
       /\ \A p \in 1..k : rest[p] = end + room + p
  BY <1>2, <1>7, <1>8, <1>10, <1>11
<1>13. k <= m_tailSize + fit /\ m_tailSize + fit \in Nat
  BY <1>4, <1>5, <1>9, <1>12
<1>14. ASSUME NEW p \in 1..(m_tailSize + fit)
       PROVE  /\ m_tail'[p] = IF p <= k THEN end + room + p ELSE end - m_tailSize + p
              /\ m_tail'[p] \in Int
  <2>1. CASE p <= k
    <3>1. m_tail'[p] = rest[p]
      BY <1>12, <2>1
    <3>2. p \in 1..k
      BY <2>1
    <3>3. m_tail'[p] = end + room + p
      BY <1>12, <3>1, <3>2
    <3>4. room \in Int /\ end \in Int
      BY <1>4, <1>5, <1>9
    <3> QED BY <2>1, <3>2, <3>3, <3>4
  <2>2. CASE ~(p <= k)
    <3>1. m_tail'[p] = full[p] /\ full[p] = end - m_tailSize + p
      BY <1>7, <1>12, <2>2
    <3>2. p \in Int /\ m_tailSize \in Int
      BY <1>4, <1>5
    <3> QED BY <2>2, <3>1, <3>2
  <2> QED BY <2>1, <2>2
<1>15. m_tail' \in Seq(Int) /\ Len(m_tail') = m_tailSize'
  BY <1>12, <1>13, <1>14
<1>16. ASSUME NEW p \in 1..m_tailSize'
       PROVE  m_tail'[p] = end + count - m_tailSize' + (p - m_tailStart')
                             + (IF p > m_tailStart' THEN 0 ELSE T)
  <2>1. p \in 1..(m_tailSize + fit)
    BY <1>12
  <2>2. m_tail'[p] = IF p <= k THEN end + room + p ELSE end - m_tailSize + p
    BY <1>14, <2>1
  <2>3. CASE k = 0
    <3>1. fit = count /\ p > k
      BY <1>5, <1>12, <2>1, <2>3
    <3> QED BY <1>4, <1>12, <2>1, <2>2, <2>3, <3>1
  <2>4. CASE k > 0
    <3>1. fit = room /\ k = count - room /\ m_tailSize' = T
      BY <1>4, <1>5, <1>9, <1>12, <2>4
    <3>2. p \in Int /\ m_tailSize \in Int /\ T \in Int /\ room \in Int
      BY <1>4, <1>9, <2>1
    <3>3. CASE p <= k
      <4>1. m_tail'[p] = end + room + p
        BY <2>2, <3>3
      <4>2. ~(p > m_tailStart') /\ m_tailStart' = count - room
        BY <1>12, <3>1, <3>2, <3>3
      <4> QED BY <3>1, <3>2, <4>1, <4>2
    <3>4. CASE p > k
      <4>1. m_tail'[p] = end - m_tailSize + p
        BY <2>2, <3>2, <3>4
      <4>2. p > m_tailStart' /\ m_tailStart' = count - room
        BY <1>12, <3>1, <3>2, <3>4
      <4> QED BY <1>9, <3>1, <3>2, <4>1, <4>2
    <3> QED BY <3>2, <3>3, <3>4
  <2> QED BY <2>3, <2>4
<1>17. RingHolds(end + count)'
  <2>1. m_tailStart' \in 0..(T - 1) /\ m_tailSize' \in 0..T /\ (m_tailSize' < T => m_tailStart' = 0)
    BY <1>4, <1>5, <1>9, <1>12
  <2> QED BY <1>3, <1>15, <1>16, <2>1 DEF RingHolds, T
<1> QED BY <1>4, <1>5, <1>9, <1>12, <1>17 DEF T

\* The bytes go over the oldest ones.
LEMMA TailOverwritten ==
  ASSUME Out!m_tailCapacity \in Nat \ {0}, m_maximumBytes' = m_maximumBytes,
         NEW end \in Int, NEW count \in Nat \ {0}, count < Out!m_tailCapacity,
         m_tailSize = Out!m_tailCapacity,
         RingHolds(end), Out!AppendTail(Out!Bytes(end + 1, end + count))
  PROVE  RingHolds(end + count)' /\ m_tailSize' = Out!m_tailCapacity
<1> DEFINE data == Out!Bytes(end + 1, end + count)
<1> DEFINE T == Out!m_tailCapacity
<1> DEFINE order(p) == IF p > m_tailStart THEN p - m_tailStart ELSE p - m_tailStart + T
<1>1. /\ data \in Seq(Int) /\ Len(data) = count /\ DOMAIN data = 1..count
      /\ \A i \in 1..count : data[i] = end + i
  BY NextBytes
<1>2. /\ m_tail' = [p \in 1..T |->
            IF \E i \in 1..count : (m_tailStart + i - 1) % T = p - 1
            THEN data[CHOOSE i \in 1..count : (m_tailStart + i - 1) % T = p - 1] ELSE m_tail[p]]
      /\ m_tailStart' = (m_tailStart + count) % T /\ m_tailSize' = T
  <2> HIDE DEF data
  <2>1. data # <<>>
    BY <1>1
  <2>2. Out!AppendTail(data)
    BY DEF data
  <2>3. Out!Overwrite(data)
    BY <1>1, <2>1, <2>2 DEF Out!AppendTail
  <2> QED BY <1>1, <2>3 DEF Out!Overwrite
<1>3. T' = T
  BY DEF Out!m_tailCapacity, Out!m_headCapacity
<1>4. /\ T \in Nat \ {0} /\ count < T /\ m_tailSize = T /\ m_tailStart \in 0..(T - 1)
      /\ m_tail \in Seq(Int) /\ Len(m_tail) = T
      /\ \A p \in 1..T : m_tail[p] = end - T + order(p)
  <2>1. /\ T \in Nat \ {0} /\ count < T /\ m_tailSize = T /\ m_tailStart \in 0..(T - 1)
        /\ m_tail \in Seq(Int) /\ Len(m_tail) = T
        /\ \A p \in 1..T : m_tail[p] = end - T + (p - m_tailStart)
                                       + (IF p > m_tailStart THEN 0 ELSE T)
    BY DEF RingHolds
  <2> HIDE DEF T
  <2>2. ASSUME NEW p \in 1..T PROVE m_tail[p] = end - T + order(p)
    <3>1. m_tail[p] = end - T + (p - m_tailStart) + (IF p > m_tailStart THEN 0 ELSE T)
      BY <2>1
    <3>2. p \in Int /\ m_tailStart \in Int /\ T \in Int
      BY <2>1
    <3>3. CASE p > m_tailStart
      <4>1. order(p) = p - m_tailStart
        BY <3>3
      <4> QED BY <3>1, <3>2, <3>3, <4>1
    <3>4. CASE ~(p > m_tailStart)
      <4>1. order(p) = p - m_tailStart + T
        BY <3>4
      <4> QED BY <3>1, <3>2, <3>4, <4>1
    <3> QED BY <3>3, <3>4
  <2> QED BY <2>1, <2>2
<1> HIDE DEF data, T
<1>5. ASSUME NEW p \in 1..T, NEW i \in 1..count
      PROVE  (m_tailStart + i - 1) % T = p - 1 <=> i = order(p)
  <2>1. PICK x \in 0..(2 * T - 1) : x = m_tailStart + i - 1
    BY <1>4
  <2>2. x % T = IF x < T THEN x ELSE x - T
    BY <1>4, RingTurn
  <2>3. PICK q \in Int : q = x % T
    BY <1>4, <2>1, <2>2
  <2>4. /\ x = m_tailStart + i - 1 /\ q = (IF x < T THEN x ELSE x - T)
        /\ x \in Int /\ q \in Int /\ i \in Int /\ p \in Int /\ T \in Int /\ m_tailStart \in Int
        /\ 1 <= i /\ i < T /\ 1 <= p /\ p <= T /\ 0 <= m_tailStart /\ m_tailStart < T
    BY <1>4, <2>1, <2>2, <2>3
  <2>5. ASSUME p > m_tailStart PROVE q = p - 1 <=> i = order(p)
    <3>1. order(p) = p - m_tailStart
      BY <2>5
    <3> QED BY <2>4, <2>5, <3>1
  <2>6. ASSUME ~(p > m_tailStart) PROVE q = p - 1 <=> i = order(p)
    <3>1. order(p) = p - m_tailStart + T
      BY <2>6
    <3> QED BY <2>4, <2>6, <3>1
  <2>7. q = p - 1 <=> i = order(p)
    BY <2>5, <2>6
  <2> QED BY <2>1, <2>3, <2>7
<1>6. ASSUME NEW p \in 1..T
      PROVE  /\ order(p) \in 1..T
             /\ m_tail'[p] = IF order(p) <= count THEN end + order(p) ELSE end - T + order(p)
  <2>1. order(p) \in 1..T
    BY <1>4
  <2>2. CASE order(p) <= count
    <3>1. order(p) \in 1..count
      BY <2>1, <2>2
    <3>2. \E i \in 1..count : (m_tailStart + i - 1) % T = p - 1
      BY <1>5, <3>1
    <3>3. (CHOOSE i \in 1..count : (m_tailStart + i - 1) % T = p - 1) = order(p)
      BY <1>5, <3>2
    <3>4. m_tail'[p] = data[order(p)]
      BY <1>2, <3>2, <3>3
    <3> QED BY <1>1, <2>1, <2>2, <3>1, <3>4
  <2>3. CASE ~(order(p) <= count)
    <3>1. ~\E i \in 1..count : (m_tailStart + i - 1) % T = p - 1
      BY <1>5, <2>1, <2>3
    <3>2. m_tail'[p] = m_tail[p]
      BY <1>2, <3>1
    <3> QED BY <1>4, <2>1, <2>3, <3>2
  <2> QED BY <2>1, <2>2, <2>3
<1>7. /\ m_tailStart' \in 0..(T - 1)
      /\ m_tailStart' = IF m_tailStart + count < T THEN m_tailStart + count
                        ELSE m_tailStart + count - T
  <2>1. PICK x \in 0..(2 * T - 1) : x = m_tailStart + count
    BY <1>4
  <2>2. x % T = (IF x < T THEN x ELSE x - T) /\ x % T \in 0..(T - 1)
    BY <1>4, RingTurn
  <2>3. m_tailStart' = x % T
    BY <1>2, <2>1
  <2>4. m_tailStart' \in 0..(T - 1)
    BY <2>2, <2>3
  <2>5. m_tailStart' = IF x < T THEN x ELSE x - T
    BY <2>2, <2>3
  <2> QED BY <1>4, <2>1, <2>4, <2>5
<1>8. ASSUME NEW p \in 1..T PROVE m_tail'[p] \in Int
  <2>1. PICK j \in 1..T : j = order(p)
    BY <1>6
  <2>2. m_tail'[p] = IF j <= count THEN end + j ELSE end - T + j
    BY <1>6, <2>1
  <2> QED BY <1>4, <2>1, <2>2
<1>9. m_tail' \in Seq(Int) /\ Len(m_tail') = m_tailSize'
  <2>1. m_tail' = [p \in 1..T |-> m_tail'[p]]
    BY <1>2
  <2>2. m_tailSize' = T /\ T \in Nat
    BY <1>2, <1>4
  <2>3. m_tail' \in [1..T -> Int]
    BY <1>8, <2>1
  <2> QED BY <2>2, <2>3
<1>10. ASSUME NEW p \in 1..m_tailSize'
       PROVE  m_tail'[p] = end + count - m_tailSize' + (p - m_tailStart')
                             + (IF p > m_tailStart' THEN 0 ELSE T)
  <2>1. p \in 1..T
    BY <1>2
  <2>2. PICK b \in Int : b = m_tail'[p]
    BY <1>8, <2>1
  <2>3. PICK s \in 0..(T - 1) : s = m_tailStart'
    BY <1>7
  <2>4. /\ s = IF m_tailStart + count < T THEN m_tailStart + count ELSE m_tailStart + count - T
        /\ b = IF order(p) <= count THEN end + order(p) ELSE end - T + order(p)
    BY <1>6, <1>7, <2>1, <2>2, <2>3
  <2>5. b = end + count - T + (p - s) + (IF p > s THEN 0 ELSE T)
    <3>1. /\ p \in Int /\ s \in Int /\ T \in Int /\ m_tailStart \in Int /\ b \in Int
          /\ 1 <= p /\ p <= T /\ count < T /\ 0 <= m_tailStart /\ m_tailStart < T
      BY <1>4, <2>1, <2>2, <2>3
    <3>2. CASE p > m_tailStart
      <4>1. order(p) = p - m_tailStart
        BY <3>2
      <4> QED BY <2>4, <3>1, <3>2, <4>1
    <3>3. CASE ~(p > m_tailStart)
      <4>1. order(p) = p - m_tailStart + T
        BY <3>3
      <4> QED BY <2>4, <3>1, <3>3, <4>1
    <3> QED BY <3>2, <3>3
  <2> QED BY <1>2, <2>2, <2>3, <2>5
<1>11. RingHolds(end + count)'
  <2>1. m_tailStart' \in 0..(T - 1) /\ m_tailSize' \in 0..T /\ (m_tailSize' < T => m_tailStart' = 0)
    BY <1>2, <1>4, <1>7
  <2> QED BY <1>3, <1>9, <1>10, <2>1 DEF RingHolds, T
<1> QED BY <1>2, <1>11 DEF T

\* What comes out of the ring.
LEMMA RingRead ==
  ASSUME Out!m_tailCapacity \in Nat \ {0}, NEW end \in Int, RingHolds(end)
  PROVE  Out!LinearizedTail = Out!Bytes(end - m_tailSize + 1, end)
<1> DEFINE T == Out!m_tailCapacity
<1>1. /\ m_tailStart \in 0..(T - 1) /\ m_tailSize \in 0..T /\ T \in Nat \ {0}
      /\ m_tailSize < T => m_tailStart = 0
      /\ m_tail \in Seq(Int) /\ Len(m_tail) = m_tailSize
      /\ \A p \in 1..m_tailSize :
           m_tail[p] = end - m_tailSize + (p - m_tailStart) + (IF p > m_tailStart THEN 0 ELSE T)
  BY DEF RingHolds
<1>2. PICK u : u = Out!LinearizedTail
  OBVIOUS
<1>3. u = IF m_tailSize < T \/ m_tailStart = 0 THEN SubSeq(m_tail, 1, m_tailSize)
          ELSE SubSeq(m_tail, m_tailStart + 1, T) \o SubSeq(m_tail, 1, m_tailStart)
  BY <1>2 DEF Out!LinearizedTail
<1> HIDE DEF T
<1>4. u \in Seq(Int) /\ Len(u) = m_tailSize
      /\ \A i \in 1..m_tailSize : u[i] = end - m_tailSize + i
  <2>1. CASE m_tailStart = 0
    <3>1. u = SubSeq(m_tail, 1, m_tailSize)
      BY <1>3, <2>1
    <3>2. u \in Seq(Int) /\ Len(u) = m_tailSize /\ \A i \in 1..m_tailSize : u[i] = m_tail[i]
      BY <1>1, <3>1
    <3>3. ASSUME NEW i \in 1..m_tailSize PROVE u[i] = end - m_tailSize + i
      <4>1. u[i] = end - m_tailSize + (i - 0) + (IF i > 0 THEN 0 ELSE T)
        BY <1>1, <2>1, <3>2
      <4>2. i > 0 /\ i - 0 = i
        BY <1>1
      <4>3. end - m_tailSize + i \in Int
        BY <1>1, <4>2
      <4> QED BY <4>1, <4>2, <4>3
    <3> QED BY <3>2, <3>3
  <2>2. CASE m_tailStart # 0
    <3>1. /\ m_tailSize = T
          /\ u = SubSeq(m_tail, m_tailStart + 1, T) \o SubSeq(m_tail, 1, m_tailStart)
      <4>1. m_tailSize = T /\ ~(m_tailSize < T \/ m_tailStart = 0)
        BY <1>1, <2>2
      <4> QED BY <1>3, <4>1
    <3>2. PICK a \in Seq(Int) : a = SubSeq(m_tail, m_tailStart + 1, T)
      <4>1. /\ m_tailStart + 1 \in Int /\ T \in Int
            /\ \A i \in (m_tailStart + 1)..T : m_tail[i] \in Int
        BY <1>1, <3>1
      <4>2. SubSeq(m_tail, m_tailStart + 1, T) \in Seq(Int)
        BY <4>1, SubSeqProperties
      <4> QED BY <4>2
    <3>3. PICK b \in Seq(Int) : b = SubSeq(m_tail, 1, m_tailStart)
      <4>1. m_tailStart \in Int /\ \A i \in 1..m_tailStart : m_tail[i] \in Int
        BY <1>1, <3>1
      <4>2. SubSeq(m_tail, 1, m_tailStart) \in Seq(Int)
        BY <4>1, SubSeqProperties
      <4> QED BY <4>2
    <3>4. Len(a) = T - m_tailStart /\ \A i \in 1..(T - m_tailStart) : a[i] = m_tail[m_tailStart + i]
      BY <1>1, <3>1, <3>2
    <3>5. Len(b) = m_tailStart /\ \A i \in 1..m_tailStart : b[i] = m_tail[i]
      BY <1>1, <3>1, <3>3
    <3>6. u = a \o b
      BY <3>1, <3>2, <3>3
    <3>7. u \in Seq(Int) /\ Len(u) = Len(a) + Len(b)
      BY <3>2, <3>3, <3>6
    <3>8. ASSUME NEW i \in 1..T PROVE u[i] = end - T + i
      <4>1. i \in 1..(Len(a) + Len(b))
        BY <1>1, <3>4, <3>5
      <4>2. u[i] = IF i <= Len(a) THEN a[i] ELSE b[i - Len(a)]
        BY <3>2, <3>3, <3>6, <4>1, ConcatProperties
      <4>3. CASE i <= T - m_tailStart
        <5>1. u[i] = m_tail[m_tailStart + i]
          BY <1>1, <3>4, <4>2, <4>3
        <5>2. m_tailStart + i \in 1..T /\ m_tailStart + i > m_tailStart
          BY <1>1, <4>3
        <5>3. PICK p \in 1..T : p = m_tailStart + i
          BY <5>2
        <5>4. p \in 1..m_tailSize /\ p > m_tailStart /\ p \in Int /\ m_tailStart \in Int
          BY <1>1, <3>1, <5>2, <5>3
        <5>5. m_tail[p] = end - m_tailSize + (p - m_tailStart) + (IF p > m_tailStart THEN 0 ELSE T)
          BY <1>1, <5>4
        <5>6. m_tail[p] = end - T + (p - m_tailStart)
          BY <1>1, <3>1, <5>4, <5>5
        <5> QED BY <1>1, <5>1, <5>3, <5>6
      <4>4. CASE ~(i <= T - m_tailStart)
        <5>1. PICK j \in 1..m_tailStart : j = i - (T - m_tailStart)
          BY <1>1, <4>4
        <5>2. u[i] = m_tail[j]
          BY <1>1, <3>4, <3>5, <4>2, <4>4, <5>1
        <5>3. j \in 1..T /\ ~(j > m_tailStart)
          BY <1>1, <5>1
        <5>4. m_tail[j] = end - T + (j - m_tailStart) + T
          BY <1>1, <3>1, <5>3
        <5>5. i \in Int /\ j \in Int /\ T \in Int /\ m_tailStart \in Int
          BY <1>1, <5>1
        <5> QED BY <5>1, <5>2, <5>4, <5>5
      <4> QED BY <4>3, <4>4
    <3>9. Len(u) = T
      BY <1>1, <3>4, <3>5, <3>7
    <3> QED BY <3>1, <3>7, <3>8, <3>9
  <2> QED BY <2>1, <2>2
<1>5. u = Out!Bytes(end - m_tailSize + 1, end)
  <2>1. PICK first \in Int : first = end - m_tailSize + 1
    BY <1>1
  <2>2. /\ end >= first - 1 /\ end - first + 1 = m_tailSize
        /\ \A i \in 1..m_tailSize : u[i] = first + i - 1
    BY <1>1, <1>4, <2>1
  <2>3. Len(u) = end - first + 1 /\ \A i \in 1..(end - first + 1) : u[i] = first + i - 1
    BY <1>4, <2>2
  <2>4. u = Out!Bytes(first, end)
    BY <1>4, <2>2, <2>3, AreBytes
  <2> QED BY <2>1, <2>4
<1> QED BY <1>2, <1>5

\* The bytes of the head.
HeadCount ==
  IF m_producedByteCount < Out!m_headCapacity THEN m_producedByteCount ELSE Out!m_headCapacity

TailCount ==
  IF m_producedByteCount - HeadCount < Out!m_tailCapacity THEN m_producedByteCount - HeadCount
  ELSE Out!m_tailCapacity

OutInv ==
  /\ m_maximumBytes \in Nat /\ m_producedByteCount \in Nat
  /\ m_head = Out!Bytes(1, HeadCount)
  /\ m_tailSize = TailCount
  /\ IF m_maximumBytes > 0 THEN RingHolds(m_producedByteCount)
     ELSE m_tail = <<>> /\ m_tailStart = 0

LEMMA Halves ==
  ASSUME m_maximumBytes \in Nat
  PROVE  /\ Out!m_headCapacity \in Nat /\ Out!m_tailCapacity \in Nat
         /\ Out!m_headCapacity + Out!m_tailCapacity = m_maximumBytes
         /\ Out!m_tailCapacity = 0 <=> m_maximumBytes = 0
<1>1. PICK h : h = m_maximumBytes \div 2
  OBVIOUS
<1>2. h \in Nat /\ (m_maximumBytes = 2 * h \/ m_maximumBytes = 2 * h + 1)
  BY <1>1
<1> QED BY <1>1, <1>2 DEF Out!m_headCapacity, Out!m_tailCapacity

LEMMA NoBytes ==
  ASSUME NEW a \in Int
  PROVE  Out!Bytes(a, a - 1) = <<>>
<1>1. Out!Bytes(a, a - 1) \in Seq(Int) /\ Len(Out!Bytes(a, a - 1)) = 0
  <2>1. a - 1 \in Int /\ a - 1 >= a - 1 /\ a - 1 - a + 1 = 0
    OBVIOUS
  <2> QED BY <2>1, BytesAre
<1> QED BY <1>1

\* Append, over however many bytes.
LEMMA AppendKeeps ==
  ASSUME OutInv, NEW size \in Nat \ {0}, Out!AppendBytes(size)
  PROVE  OutInv'
<1>1. PICK P \in Nat : P = m_producedByteCount
  BY DEF OutInv
<1> DEFINE H == Out!m_headCapacity
<1> DEFINE T == Out!m_tailCapacity
<1> DEFINE c == IF H - HeadCount < size THEN H - HeadCount ELSE size
<1> DEFINE data == Out!Bytes(P + 1, P + size)
<1>2. /\ H \in Nat /\ T \in Nat /\ P \in Nat /\ (T = 0 <=> m_maximumBytes = 0)
      /\ m_maximumBytes \in Nat
  BY <1>1, Halves DEF OutInv
<1>3. /\ HeadCount \in Nat /\ HeadCount <= H /\ HeadCount <= P
      /\ HeadCount < H => HeadCount = P
  BY <1>1, <1>2 DEF HeadCount
<1>4. c \in Nat /\ c <= size /\ (c > 0 => HeadCount = P)
  BY <1>3, <1>2
<1>5. Len(m_head) = HeadCount
  <2>1. HeadCount \in Int /\ HeadCount >= 1 - 1 /\ HeadCount - 1 + 1 = HeadCount
    BY <1>3
  <2> QED BY <2>1, BytesAre DEF OutInv
<1>6. /\ m_producedByteCount' = P + size /\ m_maximumBytes' = m_maximumBytes
      /\ m_head' = m_head \o SubSeq(data, 1, c)
      /\ Out!AppendTail(SubSeq(data, c + 1, size))
  BY <1>1, <1>5 DEF Out!AppendBytes, Out!Least
<1>7. H' = H /\ T' = T
  BY <1>6 DEF Out!m_headCapacity, Out!m_tailCapacity
<1>8. HeadCount' = HeadCount + c
  <2>1. HeadCount' = IF P + size < H THEN P + size ELSE H
    BY <1>6, <1>7 DEF HeadCount
  <2> HIDE DEF H, T, data
  <2>2. HeadCount = IF P < H THEN P ELSE H
    BY <1>1 DEF HeadCount, H
  <2> QED BY <1>2, <1>3, <2>1, <2>2
<1>9. /\ SubSeq(data, 1, c) = Out!Bytes(P + 1, P + c)
      /\ SubSeq(data, c + 1, size) = Out!Bytes(P + c + 1, P + c + (size - c))
  <2>1. PICK d \in Nat : d = c
    BY <1>4
  <2>2. PICK a \in Int, b \in Int, e \in Nat : a = P + 1 /\ b = P + size /\ e = d + 1
    BY <1>2
  <2>3. /\ b >= a - 1 /\ 1 \in Nat \ {0} /\ e \in Nat \ {0} /\ size \in Nat
        /\ 1 <= d + 1 /\ e <= size + 1 /\ d <= b - a + 1 /\ size <= b - a + 1
    BY <1>2, <1>4, <2>1, <2>2
  <2>4. SubSeq(Out!Bytes(a, b), 1, d) = Out!Bytes(a + 1 - 1, a + d - 1)
    BY <2>3, SubBytes
  <2>5. SubSeq(Out!Bytes(a, b), e, size) = Out!Bytes(a + e - 1, a + size - 1)
    BY <2>3, SubBytes
  <2>6. /\ a + 1 - 1 = P + 1 /\ a + d - 1 = P + d
        /\ a + e - 1 = P + d + 1 /\ a + size - 1 = P + d + (size - d)
    BY <1>2, <2>2
  <2> QED BY <2>1, <2>2, <2>4, <2>5, <2>6
<1>10. m_head' = Out!Bytes(1, HeadCount')
  <2>1. CASE c = 0
    <3>1. Out!Bytes(P + 1, P + c) = <<>>
      <4>1. PICK a \in Int : a = P + 1
        OBVIOUS
      <4>2. P + c = a - 1
        BY <1>2, <2>1, <4>1
      <4> QED BY <4>1, <4>2, NoBytes
    <3>2. m_head \in Seq(Int)
      BY <1>3, BytesAre DEF OutInv
    <3>3. HeadCount' = HeadCount
      BY <1>3, <1>8, <2>1
    <3>4. m_head' = m_head
      <4> HIDE DEF c
      <4>1. m_head' = m_head \o <<>>
        BY <1>6, <1>9, <3>1
      <4> QED BY <3>2, <4>1
    <3> QED BY <3>3, <3>4 DEF OutInv
  <2>2. CASE c > 0
    <3>1. HeadCount = P
      BY <1>4, <2>2
    <3> HIDE DEF c, H, T
    <3>2. PICK b \in Int : b = P + c
      BY <1>2, <1>4
    <3>3. P \in Nat /\ b >= P
      BY <1>2, <1>4, <3>2
    <3>4. Out!Bytes(1, P) \o Out!Bytes(P + 1, b) = Out!Bytes(1, b)
      BY <3>3, BytesJoin
    <3> QED BY <1>6, <1>8, <1>9, <3>1, <3>2, <3>4 DEF OutInv
  <2> QED BY <1>4, <2>1, <2>2
<1>11. m_tailSize = (IF P - HeadCount < T THEN P - HeadCount ELSE T) /\ m_tailSize \in Nat
  BY <1>1, <1>2, <1>3 DEF OutInv, TailCount
<1>12. TailCount' = IF m_tailSize + (size - c) < T THEN m_tailSize + (size - c) ELSE T
  <2>1. TailCount' = IF P + size - (HeadCount + c) < T THEN P + size - (HeadCount + c) ELSE T
    <3>1. TailCount' = IF m_producedByteCount' - HeadCount' < T' THEN m_producedByteCount' - HeadCount'
                       ELSE T'
      BY DEF TailCount
    <3> HIDE DEF c, T
    <3> QED BY <1>6, <1>7, <1>8, <3>1
  <2> HIDE DEF c, H, T
  <2> QED BY <1>2, <1>3, <1>4, <1>11, <2>1
<1>13. CASE T = 0
  <2>1. /\ UNCHANGED <<m_tail, m_tailStart, m_tailSize>>
    BY <1>6, <1>13 DEF Out!AppendTail
  <2>2. m_tailSize = 0 /\ TailCount' = 0
    BY <1>2, <1>3, <1>4, <1>11, <1>12, <1>13
  <2>3. m_producedByteCount' \in Nat /\ ~(m_maximumBytes' > 0)
    BY <1>2, <1>6, <1>13
  <2> QED BY <1>2, <1>6, <1>10, <1>13, <2>1, <2>2, <2>3 DEF OutInv
<1>14. CASE T # 0
  <2>1. RingHolds(P) /\ m_maximumBytes > 0
    BY <1>1, <1>2, <1>14 DEF OutInv
  <2>2. RingHolds(P + c)
    <3>1. CASE c = 0
      <4>1. P + c = P
        BY <1>2, <3>1
      <4> QED BY <2>1, <4>1
    <3>2. CASE c > 0
      <4>1. m_tailSize = 0
        BY <1>2, <1>4, <1>11, <1>14, <3>2
      <4> QED BY <2>1, <4>1 DEF RingHolds
    <3> QED BY <1>4, <3>1, <3>2
  <2>3. RingHolds(P + size)' /\ m_tailSize' = TailCount'
    <3>1. CASE c = size
      <4>1. Out!Bytes(P + c + 1, P + c + (size - c)) = <<>>
        <5> HIDE DEF c
        <5>1. PICK a \in Int : a = P + c + 1
          BY <1>2, <1>4
        <5>2. P + c + (size - c) = a - 1
          BY <1>2, <1>4, <3>1, <5>1
        <5> QED BY <5>1, <5>2, NoBytes
      <4>2. UNCHANGED <<m_tail, m_tailStart, m_tailSize>>
        BY <1>6, <1>9, <4>1 DEF Out!AppendTail
      <4>3. RingHolds(P + size)'
        <5>1. RingHolds(P + size)
          BY <2>2, <3>1
        <5> QED BY <1>7, <4>2, <5>1 DEF RingHolds
      <4>4. TailCount' = m_tailSize
        BY <1>2, <1>4, <1>11, <1>12, <3>1
      <4> QED BY <4>2, <4>3, <4>4
    <3>2. CASE c # size
      <4>1. PICK count \in Nat \ {0} : count = size - c
        BY <1>4, <3>2
      <4>2. PICK end \in Int : end = P + c
        BY <1>2, <1>4
      <4>3. end + count = P + size
        BY <1>2, <1>4, <4>1, <4>2
      <4>4. Out!AppendTail(Out!Bytes(end + 1, end + count))
        BY <1>6, <1>9, <4>1, <4>2
      <4>5. RingHolds(end) /\ T \in Nat \ {0}
        BY <1>2, <1>14, <2>2, <4>2
      <4>6. m_tailSize \in 0..T
        BY <4>5 DEF RingHolds
      <4>7. TailCount' = IF m_tailSize + count < T THEN m_tailSize + count ELSE T
        BY <1>12, <4>1
      <4> HIDE DEF c
      <4>8. CASE count >= T
        <5>1. RingHolds(end + count)' /\ m_tailSize' = T
          BY <1>6, <4>4, <4>5, <4>8, TailReplaced
        <5>2. TailCount' = T
          BY <4>5, <4>6, <4>7, <4>8
        <5>3. RingHolds(P + size)'
          BY <4>3, <5>1
        <5> QED BY <5>1, <5>2, <5>3
      <4>9. CASE count < T /\ m_tailSize < T
        <5>1. /\ RingHolds(end + count)'
              /\ m_tailSize' = IF m_tailSize + count < T THEN m_tailSize + count ELSE T
          BY <1>6, <4>4, <4>5, <4>9, TailFilled
        <5>2. RingHolds(P + size)'
          BY <4>3, <5>1
        <5> QED BY <4>7, <5>1, <5>2
      <4>10. CASE count < T /\ m_tailSize = T
        <5>1. RingHolds(end + count)' /\ m_tailSize' = T
          BY <1>6, <4>4, <4>5, <4>10, TailOverwritten
        <5>2. TailCount' = T
          BY <4>5, <4>6, <4>7, <4>10
        <5>3. RingHolds(P + size)'
          BY <4>3, <5>1
        <5> QED BY <5>1, <5>2, <5>3
      <4> QED BY <4>5, <4>6, <4>8, <4>9, <4>10
    <3> QED BY <3>1, <3>2
  <2>4. RingHolds(m_producedByteCount)'
    BY <1>6, <2>3 DEF RingHolds
  <2>5. m_producedByteCount' \in Nat /\ m_maximumBytes' > 0 /\ m_maximumBytes' \in Nat
    BY <1>2, <1>6, <2>1
  <2> QED BY <1>10, <2>3, <2>4, <2>5 DEF OutInv
<1> QED BY <1>13, <1>14

\* The output kept is the program's, whole or its first and last bytes, however it was
\* cut into reads: for every limit and every size of a read.
THEOREM OutputIsKept ==
  ASSUME Maxima \subseteq Nat, MaxChunk \in Nat
  PROVE  Out!Spec => []OutputKept
<1>1. Out!Init => OutInv
  <2> SUFFICES ASSUME Out!Init PROVE OutInv
    OBVIOUS
  <2>1. /\ m_maximumBytes \in Nat /\ m_producedByteCount = 0 /\ m_head = <<>> /\ m_tail = <<>>
        /\ m_tailStart = 0 /\ m_tailSize = 0
    BY DEF Out!Init
  <2>2. /\ Out!m_headCapacity \in Nat /\ Out!m_tailCapacity \in Nat
        /\ Out!m_tailCapacity = 0 <=> m_maximumBytes = 0
    BY <2>1, Halves
  <2>3. HeadCount = 0 /\ TailCount = 0
    <3>1. HeadCount = 0
      BY <2>1, <2>2 DEF HeadCount
    <3> QED BY <2>1, <2>2, <3>1 DEF TailCount
  <2>4. Out!Bytes(1, 0) = <<>>
    <3>1. 1 \in Int /\ 0 = 1 - 1
      OBVIOUS
    <3> QED BY <3>1, NoBytes
  <2>5. m_maximumBytes > 0 => RingHolds(0)
    BY <2>1, <2>2 DEF RingHolds
  <2> QED BY <2>1, <2>3, <2>4, <2>5 DEF OutInv
<1>2. OutInv /\ [Out!Next]_(Out!vars) => OutInv'
  <2> SUFFICES ASSUME OutInv, [Out!Next]_(Out!vars) PROVE OutInv'
    OBVIOUS
  <2>1. CASE UNCHANGED Out!vars
    BY <2>1 DEF Out!vars, OutInv, RingHolds, HeadCount, TailCount,
                Out!m_headCapacity, Out!m_tailCapacity
  <2>2. CASE Out!Next
    <3>1. PICK size \in 1..MaxChunk : Out!AppendBytes(size)
      BY <2>2 DEF Out!Next
    <3>2. size \in Nat \ {0}
      OBVIOUS
    <3> QED BY <3>1, <3>2, AppendKeeps
  <2> QED BY <2>1, <2>2
<1>3. ASSUME OutInv PROVE OutputKept
  <2> DEFINE P == m_producedByteCount
  <2> DEFINE H == Out!m_headCapacity
  <2> DEFINE T == Out!m_tailCapacity
  <2>1. /\ H \in Nat /\ T \in Nat /\ H + T = m_maximumBytes /\ (T = 0 <=> m_maximumBytes = 0)
        /\ P \in Nat /\ m_maximumBytes \in Nat /\ m_head = Out!Bytes(1, HeadCount)
    BY <1>3, Halves DEF OutInv
  <2>2. /\ HeadCount = (IF P < H THEN P ELSE H)
        /\ m_tailSize = (IF P - HeadCount < T THEN P - HeadCount ELSE T)
    BY <1>3 DEF OutInv, HeadCount, TailCount
  <2>3. Out!LinearizedTail = Out!Bytes(P - m_tailSize + 1, P)
    <3>1. CASE T = 0
      <4>1. m_tail = <<>> /\ m_tailStart = 0 /\ m_tailSize = 0
        BY <1>3, <2>1, <2>2, <3>1 DEF OutInv
      <4>2. Out!LinearizedTail = <<>>
        BY <4>1 DEF Out!LinearizedTail
      <4>3. PICK a \in Int : a = P - m_tailSize + 1
        BY <2>1, <4>1
      <4>4. P = a - 1
        BY <2>1, <4>1, <4>3
      <4> QED BY <4>2, <4>3, <4>4, NoBytes
    <3>2. CASE T # 0
      <4>1. RingHolds(P) /\ T \in Nat \ {0} /\ P \in Int
        BY <1>3, <2>1, <3>2 DEF OutInv
      <4> QED BY <4>1, RingRead
    <3> QED BY <3>1, <3>2
  <2>4. Out!BuildOutput = Out!Bytes(1, HeadCount) \o Out!Bytes(P - m_tailSize + 1, P)
    BY <2>1, <2>3 DEF Out!BuildOutput
  <2>5. CASE ~Out!Truncated
    <3> HIDE DEF H, T
    <3>1. /\ P - m_tailSize = HeadCount /\ HeadCount \in Int /\ P \in Int
          /\ HeadCount \in Nat /\ P >= HeadCount
      BY <2>1, <2>2, <2>5 DEF Out!Truncated
    <3>2. Out!Bytes(1, HeadCount) \o Out!Bytes(HeadCount + 1, P) = Out!Bytes(1, P)
      BY <3>1, BytesJoin
    <3> QED BY <2>4, <2>5, <3>1, <3>2 DEF OutputKept, Out!OutputKept
  <2>6. CASE Out!Truncated
    <3>1. HeadCount = H /\ m_tailSize = T
      <4> HIDE DEF H, T
      <4> QED BY <2>1, <2>2, <2>6 DEF Out!Truncated
    <3> QED BY <2>4, <2>6, <3>1 DEF OutputKept, Out!OutputKept
  <2> QED BY <2>5, <2>6
<1> QED BY <1>1, <1>2, <1>3, PTL DEF Out!Spec

-----------------------------------------------------------------------------
(***************************************************************************)
(* The memory system.                                                      *)
(***************************************************************************)

MemPlaces ==
  {"idle", "reserve", "obtain", "track", "count", "fail", "report", "store", "handle",
   "charge", "countFree"}
RequestValues ==
  [size : Nat, valid : BOOLEAN, tracked : BOOLEAN,
   policy : {"none", "try", "ReturnNull", "Abort", "CallHandlerThenAbort"}]

MemTypes ==
  /\ memory \in BOOLEAN /\ tracking \in BOOLEAN /\ Desc.leaks \in BOOLEAN
  /\ memoryPc \in [Users -> MemPlaces]
  /\ request \in [Users -> RequestValues]
  /\ block \in [Users -> Blocks \cup {"no block"}]
  /\ IsFiniteSet(DOMAIN live) /\ \A b \in DOMAIN live : live[b] \in Nat \ {0}

\* The calls that have a block, and those whose size the pool is charged with.
HasBlock(t) == memoryPc[t] \in {"track", "count", "charge"}
IsCharged(t) == memoryPc[t] \in {"obtain", "track", "count", "charge"}
Charges == [t \in Users |-> IF IsCharged(t) THEN request[t].size ELSE 0]

BlocksHeldOnce ==
  /\ \A t \in Users :
       /\ HasBlock(t) => block[t] # "no block" /\ block[t] \notin DOMAIN live
       /\ memoryPc[t] \in {"reserve", "obtain", "track", "count"} => request[t].size > 0
  /\ \A s, t \in Users : HasBlock(s) /\ HasBlock(t) /\ block[s] = block[t] => s = t

ChargesAddUp == CurrentBytes = SumOver(live, DOMAIN live) + SumOver(Charges, Users)

\* A record is of a block that its caller has or is about to be given.
RecordsHaveBlocks ==
  tracker \subseteq DOMAIN live \cup {block[t] : t \in {u \in Users : memoryPc[u] = "count"}}

NothingWhileStopped ==
  ~memory => DOMAIN live = {} /\ \A t \in Users : memoryPc[t] = "idle"

MemInv ==
  /\ MemTypes /\ BlocksHeldOnce /\ ChargesAddUp /\ RecordsHaveBlocks /\ NothingWhileStopped
  /\ LeakReportTruthful

\* The slots of the buffer in use: a slot has a report with a number that leads
\* to it, or the thread that drew such a number has yet to store its report.
ReportIn(i) ==
  /\ slots[s_Reports][i].SequenceId \in 1..s_ReportSequence
  /\ (slots[s_Reports][i].SequenceId - 1) % ReportCapacity[s_Reports] = i
ReportDue(i) == \E t \in Users : drawn[t] # -1 /\ drawn[t] % ReportCapacity[s_Reports] = i

ReportInv ==
  /\ memoryPc \in [Users -> MemPlaces]
  /\ s_Reports \in DOMAIN ReportCapacity /\ s_ReportSequence \in Nat
  /\ drawn \in [Users -> Nat \cup {-1}]
  /\ \A t \in Users : /\ drawn[t] # -1 <=> memoryPc[t] = "store"
                      /\ drawn[t] < s_ReportSequence
  /\ DOMAIN slots = DOMAIN ReportCapacity
  /\ \A b \in DOMAIN ReportCapacity : DOMAIN slots[b] = 0..(ReportCapacity[b] - 1)
  /\ \A i \in 0..(ReportCapacity[s_Reports] - 1) :
       i < s_ReportSequence => ReportIn(i) \/ ReportDue(i)


\* The instance has a Cardinality of its own, which is the same.
LEMMA MemCardinality ==
  ASSUME NEW S
  PROVE  Mem!Cardinality(S) = Cardinality(S)
BY Zenon DEF Mem!Cardinality, Cardinality

\* What the steps of a call leave alone.
LEMMA CallLeaves ==
  ASSUME NEW t \in Users, Mem!Call(t)
  PROVE  UNCHANGED <<memory, Desc, tracking, shutdown, starts>>
BY DEF Mem!Call, Mem!Ask, Mem!Reserve, Mem!ObtainFails, Mem!Track, Mem!Count, Mem!Obtain,
  Mem!Free, Mem!Fail, Mem!ReportAllocationFailure, Mem!RecordOomReport,
  Mem!HandleAllocationFailure, Mem!Charge, Mem!CountFree, Mem!life, Mem!books

LEMMA CallKeepsTypes ==
  ASSUME MemTypes, BlocksHeldOnce, NEW t \in Users, Mem!Call(t)
  PROVE  MemTypes'
<1> DEFINE Ledger == /\ request' \in [Users -> RequestValues]
                     /\ block' \in [Users -> Blocks \cup {"no block"}]
                     /\ memoryPc' \in [Users -> MemPlaces]
                     /\ IsFiniteSet(DOMAIN live') /\ \A b \in DOMAIN live' : live'[b] \in Nat \ {0}
<1>1. memory' = memory /\ Desc' = Desc /\ tracking' = tracking
  BY CallLeaves
<1>2. SUFFICES Ledger
  BY <1>1 DEF MemTypes
<1>3. /\ memoryPc \in [Users -> MemPlaces] /\ request \in [Users -> RequestValues]
      /\ block \in [Users -> Blocks \cup {"no block"}]
      /\ IsFiniteSet(DOMAIN live) /\ \A b \in DOMAIN live : live[b] \in Nat \ {0}
  BY DEF MemTypes
<1>4. Mem!NoRequest \in RequestValues /\ Mem!NoBlock = "no block"
  BY DEF Mem!NoRequest, Mem!NoBlock, RequestValues
<1>5. ASSUME NEW r \in Requests, Mem!Ask(t, r) PROVE Ledger
  BY <1>3, <1>5, MemoryAssumption DEF Mem!Ask, Mem!Go, Mem!books, MemPlaces, RequestValues
<1>6. CASE Mem!Reserve(t) \/ Mem!ObtainFails(t) \/ Mem!Track(t)
  BY <1>3, <1>6 DEF Mem!Reserve, Mem!ObtainFails, Mem!Track, Mem!Go, MemPlaces
<1>7. CASE Mem!Fail(t) \/ Mem!ReportAllocationFailure(t) \/ Mem!RecordOomReport(t)
  BY <1>3, <1>7 DEF Mem!Fail, Mem!ReportAllocationFailure, Mem!RecordOomReport, Mem!Go,
    Mem!books, MemPlaces
<1>8. CASE Mem!HandleAllocationFailure(t) \/ Mem!CountFree(t)
  BY <1>3, <1>4, <1>8 DEF Mem!HandleAllocationFailure, Mem!CountFree, Mem!Go,
    Mem!books, MemPlaces
<1>9. CASE Mem!Charge(t)
  BY <1>3, <1>4, <1>9 DEF Mem!Charge, Mem!Go, MemPlaces
<1>10. ASSUME NEW b \in Blocks, Mem!Obtain(t, b) PROVE Ledger
  BY <1>3, <1>10 DEF Mem!Obtain, Mem!Go, Mem!books, MemPlaces
<1>11. ASSUME NEW b \in Blocks, Mem!Free(t, b) PROVE Ledger
  <2>1. /\ b \in DOMAIN live /\ live' = [c \in DOMAIN live \ {b} |-> live[c]]
        /\ memoryPc' = [memoryPc EXCEPT ![t] = "charge"]
        /\ block' = [block EXCEPT ![t] = b]
        /\ request' = [request EXCEPT ![t].size = live[b]]
    BY <1>11 DEF Mem!Free, Mem!Go
  <2>2. IsFiniteSet(DOMAIN live')
    BY <1>3, <2>1, FS_RemoveElement
  <2>3. request' \in [Users -> RequestValues]
    BY <1>3, <2>1 DEF RequestValues
  <2> QED BY <1>3, <2>1, <2>2, <2>3 DEF MemPlaces
<1>12. CASE Mem!Count(t)
  <2>1. /\ live' = [b \in DOMAIN live \cup {block[t]} |->
                      IF b = block[t] THEN request[t].size ELSE live[b]]
        /\ memoryPc' = [memoryPc EXCEPT ![t] = "idle"]
        /\ block' = [block EXCEPT ![t] = "no block"]
        /\ request' = [request EXCEPT ![t] = Mem!NoRequest]
    BY <1>4, <1>12 DEF Mem!Count, Mem!Go
  <2>2. IsFiniteSet(DOMAIN live')
    BY <1>3, <2>1, FS_AddElement
  <2>3. request[t].size \in Nat \ {0}
    <3>1. request[t] \in RequestValues /\ memoryPc[t] = "count"
      BY <1>3, <1>12 DEF Mem!Count, Mem!Go
    <3>2. request[t].size > 0
      BY <3>1 DEF BlocksHeldOnce
    <3> QED BY <3>1, <3>2 DEF RequestValues
  <2> QED BY <1>3, <1>4, <2>1, <2>2, <2>3 DEF MemPlaces
<1> QED BY <1>5, <1>6, <1>7, <1>8, <1>9, <1>10, <1>11, <1>12 DEF Mem!Call


\* A block is handed over whole: from the unused ones to a call, from the call to
\* its caller, and back.
LEMMA CallKeepsBlocks ==
  ASSUME MemTypes, BlocksHeldOnce, NEW t \in Users, Mem!Call(t)
  PROVE  BlocksHeldOnce'
<1> DEFINE Mine == /\ HasBlock(t)' => block'[t] # "no block" /\ block'[t] \notin DOMAIN live'
                   /\ memoryPc'[t] \in {"reserve", "obtain", "track", "count"} =>
                        request'[t].size > 0
           Theirs == \A s \in Users \ {t} :
                       /\ memoryPc'[s] = memoryPc[s] /\ request'[s] = request[s]
                       /\ block'[s] = block[s]
                       /\ HasBlock(s) => /\ block[s] \notin DOMAIN live'
                                         /\ HasBlock(t)' => block[s] # block'[t]
<1>1. SUFFICES Mine /\ Theirs
  <2> SUFFICES ASSUME Mine, Theirs PROVE BlocksHeldOnce'
    OBVIOUS
  <2>1. \A s \in Users \ {t} : HasBlock(s)' <=> HasBlock(s)
    BY DEF HasBlock
  <2> QED BY <2>1 DEF BlocksHeldOnce
<1>2. /\ memoryPc \in [Users -> MemPlaces] /\ request \in [Users -> RequestValues]
      /\ block \in [Users -> Blocks \cup {"no block"}]
  BY DEF MemTypes
<1>3. \A s \in Users :
        /\ HasBlock(s) => block[s] # "no block" /\ block[s] \notin DOMAIN live
        /\ memoryPc[s] \in {"reserve", "obtain", "track", "count"} => request[s].size > 0
        /\ HasBlock(s) /\ HasBlock(t) /\ block[s] = block[t] => s = t
  BY DEF BlocksHeldOnce
<1>4. ASSUME NEW from \in MemPlaces, NEW to \in MemPlaces, Mem!Go(t, from, to),
             UNCHANGED <<request, block, live>>, HasBlock(t)' <=> HasBlock(t),
             to \in {"reserve", "obtain", "track", "count"} =>
               from \in {"reserve", "obtain", "track", "count"}
      PROVE  Mine /\ Theirs
  <2>1. memoryPc[t] = from /\ memoryPc' = [memoryPc EXCEPT ![t] = to]
    BY <1>4 DEF Mem!Go
  <2>2. \A s \in Users : HasBlock(s)' <=> HasBlock(s)
    BY <1>2, <1>4, <2>1 DEF HasBlock
  <2> QED BY <1>2, <1>3, <1>4, <2>1, <2>2
<1>5. ASSUME NEW r \in Requests, Mem!Ask(t, r) PROVE Mine /\ Theirs
  <2>1. /\ memoryPc[t] = "idle" /\ UNCHANGED <<block, live>>
        /\ memoryPc' = [memoryPc EXCEPT ![t] = IF r.valid THEN "reserve" ELSE "report"]
        /\ request' = [request EXCEPT ![t] = r]
    BY <1>5 DEF Mem!Ask, Mem!Go, Mem!books
  <2>2. r.valid => r.size > 0
    BY MemoryAssumption
  <2>3. ~HasBlock(t)'
    BY <1>2, <2>1 DEF HasBlock
  <2> QED BY <1>2, <1>3, <2>1, <2>2, <2>3
<1>6. CASE Mem!Reserve(t) \/ Mem!ObtainFails(t) \/ Mem!Track(t)
  <2>1. CASE Mem!Go(t, "reserve", "fail") /\ UNCHANGED <<request, block, live>>
    BY <1>2, <1>4, <2>1 DEF Mem!Go, HasBlock, MemPlaces
  <2>2. CASE Mem!Go(t, "reserve", "obtain") /\ UNCHANGED <<request, block, live>>
    BY <1>2, <1>4, <2>2 DEF Mem!Go, HasBlock, MemPlaces
  <2>3. CASE Mem!Go(t, "obtain", "fail") /\ UNCHANGED <<request, block, live>>
    BY <1>2, <1>4, <2>3 DEF Mem!Go, HasBlock, MemPlaces
  <2>4. CASE Mem!Go(t, "track", "count") /\ UNCHANGED <<request, block, live>>
    BY <1>2, <1>4, <2>4 DEF Mem!Go, HasBlock, MemPlaces
  <2> QED BY <1>6, <2>1, <2>2, <2>3, <2>4 DEF Mem!Reserve, Mem!ObtainFails, Mem!Track
<1>7. CASE Mem!Fail(t) \/ Mem!ReportAllocationFailure(t) \/ Mem!RecordOomReport(t)
  <2>1. CASE Mem!Fail(t)
    BY <1>2, <1>4, <2>1 DEF Mem!Fail, Mem!books, Mem!Go, HasBlock, MemPlaces
  <2>2. CASE Mem!ReportAllocationFailure(t)
    <3>1. CASE Mem!Go(t, "report", "store")
      BY <1>2, <1>4, <2>2, <3>1 DEF Mem!ReportAllocationFailure, Mem!books, Mem!Go, HasBlock,
        MemPlaces
    <3>2. CASE Mem!Go(t, "report", "handle")
      BY <1>2, <1>4, <2>2, <3>2 DEF Mem!ReportAllocationFailure, Mem!books, Mem!Go, HasBlock,
        MemPlaces
    <3> QED BY <2>2, <3>1, <3>2 DEF Mem!ReportAllocationFailure
  <2>3. CASE Mem!RecordOomReport(t)
    BY <1>2, <1>4, <2>3 DEF Mem!RecordOomReport, Mem!books, Mem!Go, HasBlock, MemPlaces
  <2> QED BY <1>7, <2>1, <2>2, <2>3
<1>8. CASE Mem!HandleAllocationFailure(t) \/ Mem!CountFree(t)
  <2>1. /\ ~HasBlock(t) /\ ~HasBlock(t)' /\ memoryPc' = [memoryPc EXCEPT ![t] = "idle"]
        /\ request' = [request EXCEPT ![t] = Mem!NoRequest]
        /\ UNCHANGED <<block, live>>
    BY <1>2, <1>8 DEF Mem!HandleAllocationFailure, Mem!CountFree, Mem!Go, Mem!books, HasBlock
  <2> QED BY <1>2, <1>3, <2>1
<1>9. CASE Mem!Charge(t)
  <2>1. /\ ~HasBlock(t)' /\ memoryPc' = [memoryPc EXCEPT ![t] = "countFree"]
        /\ block' = [block EXCEPT ![t] = Mem!NoBlock] /\ UNCHANGED <<request, live>>
    BY <1>2, <1>9 DEF Mem!Charge, Mem!Go, HasBlock
  <2> QED BY <1>2, <1>3, <2>1
<1>10. ASSUME NEW b \in Blocks, Mem!Obtain(t, b) PROVE Mine /\ Theirs
  <2>1. /\ b \notin DOMAIN live /\ \A s \in Users : b # block[s]
        /\ memoryPc[t] = "obtain" /\ memoryPc' = [memoryPc EXCEPT ![t] = "track"]
        /\ block' = [block EXCEPT ![t] = b] /\ UNCHANGED <<request, live>>
    BY <1>10 DEF Mem!Obtain, Mem!Unused, Mem!Go, Mem!books
  <2>2. b # "no block"
    BY MemoryAssumption
  <2> QED BY <1>2, <1>3, <2>1, <2>2
<1>11. ASSUME NEW b \in Blocks, Mem!Free(t, b) PROVE Mine /\ Theirs
  <2>1. /\ b \in DOMAIN live /\ DOMAIN live' = DOMAIN live \ {b}
        /\ memoryPc[t] = "idle" /\ memoryPc' = [memoryPc EXCEPT ![t] = "charge"]
        /\ block' = [block EXCEPT ![t] = b]
        /\ request' = [request EXCEPT ![t].size = live[b]]
    BY <1>11 DEF Mem!Free, Mem!Go
  <2>2. b # "no block"
    BY MemoryAssumption
  <2> QED BY <1>2, <1>3, <2>1, <2>2
<1>12. CASE Mem!Count(t)
  <2>1. /\ DOMAIN live' = DOMAIN live \cup {block[t]}
        /\ memoryPc[t] = "count" /\ memoryPc' = [memoryPc EXCEPT ![t] = "idle"]
        /\ block' = [block EXCEPT ![t] = Mem!NoBlock]
        /\ request' = [request EXCEPT ![t] = Mem!NoRequest]
    BY <1>12 DEF Mem!Count, Mem!Go
  <2>2. HasBlock(t) /\ ~HasBlock(t)'
    BY <1>2, <2>1 DEF HasBlock
  <2>3. ASSUME NEW s \in Users \ {t}, HasBlock(s) PROVE block[s] \notin DOMAIN live'
    BY <1>3, <2>1, <2>2, <2>3
  <2> QED BY <1>2, <1>3, <2>1, <2>2, <2>3
<1> QED BY <1>5, <1>6, <1>7, <1>8, <1>9, <1>10, <1>11, <1>12 DEF Mem!Call


\* Another thread's place, request and block are its own.
LEMMA CallIsOfOne ==
  ASSUME MemTypes, NEW t \in Users, Mem!Call(t), NEW s \in Users \ {t}
  PROVE  memoryPc'[s] = memoryPc[s] /\ request'[s] = request[s] /\ block'[s] = block[s]
<1>1. /\ DOMAIN memoryPc = Users /\ DOMAIN request = Users /\ DOMAIN block = Users
  BY DEF MemTypes
<1>2. CASE \/ \E r \in Requests : Mem!Ask(t, r)
           \/ Mem!Reserve(t) \/ Mem!ObtainFails(t) \/ Mem!Track(t) \/ Mem!Count(t)
  BY <1>1, <1>2 DEF Mem!Ask, Mem!Reserve, Mem!ObtainFails, Mem!Track, Mem!Count, Mem!Go
<1>3. CASE \E b \in Blocks : Mem!Obtain(t, b) \/ Mem!Free(t, b)
  BY <1>1, <1>3 DEF Mem!Obtain, Mem!Free, Mem!Go
<1>4. CASE \/ Mem!Fail(t) \/ Mem!ReportAllocationFailure(t) \/ Mem!RecordOomReport(t)
           \/ Mem!HandleAllocationFailure(t) \/ Mem!Charge(t) \/ Mem!CountFree(t)
  BY <1>1, <1>4 DEF Mem!Fail, Mem!ReportAllocationFailure, Mem!RecordOomReport,
    Mem!HandleAllocationFailure, Mem!Charge, Mem!CountFree, Mem!Go
<1> QED BY <1>2, <1>3, <1>4 DEF Mem!Call

\* The pool is charged when a call reserves, and until the block is freed or given up.
LEMMA CallKeepsCharges ==
  ASSUME MemTypes, BlocksHeldOnce, ChargesAddUp, NEW t \in Users, Mem!Call(t)
  PROVE  ChargesAddUp'
<1>1. /\ memoryPc \in [Users -> MemPlaces] /\ request \in [Users -> RequestValues]
      /\ memoryPc' \in [Users -> MemPlaces] /\ request' \in [Users -> RequestValues]
      /\ IsFiniteSet(DOMAIN live) /\ \A b \in DOMAIN live : live[b] \in Nat
      /\ IsFiniteSet(Users)
  BY CallKeepsTypes, MemoryAssumption DEF MemTypes
<1>2. \A s \in Users : Charges[s] \in Nat /\ Charges'[s] \in Nat
  <2>1. \A s \in Users : request[s].size \in Nat /\ request'[s].size \in Nat
    BY <1>1 DEF RequestValues
  <2> QED BY <1>1, <2>1 DEF Charges
<1>3. \A s \in Users \ {t} : Charges'[s] = Charges[s]
  BY CallIsOfOne DEF Charges, IsCharged
<1>4. /\ SumOver(Charges, Users) \in Nat
      /\ SumOver(Charges', Users) = SumOver(Charges, Users) + Charges'[t] - Charges[t]
  <2>1. PICK f : f = Charges
    OBVIOUS
  <2>2. PICK g : g = Charges'
    OBVIOUS
  <2>3. /\ \A s \in Users : f[s] \in Nat /\ g[s] \in Nat
        /\ \A s \in Users \ {t} : g[s] = f[s]
    BY <1>2, <1>3, <2>1, <2>2
  <2>4. /\ SumOver(f, Users) \in Nat
        /\ SumOver(g, Users) = SumOver(f, Users) + g[t] - f[t]
    <3>1. IsFiniteSet(Users)
      BY MemoryAssumption
    <3> QED BY <2>3, <3>1, SumChange
  <2> QED BY <2>1, <2>2, <2>4
<1>5. PICK m \in Nat : m = SumOver(Charges, Users)
  BY <1>4
<1>6. PICK k \in Nat : k = SumOver(live, DOMAIN live)
  BY <1>1, SumNat
<1>7. PICK a \in Nat : a = Charges[t]
  BY <1>2
<1>8. PICK c \in Nat : c = Charges'[t]
  BY <1>2
<1>9. SumOver(Charges', Users) = m + c - a
  BY <1>4, <1>5, <1>7, <1>8
<1>10. CurrentBytes = k + m
  BY <1>5, <1>6 DEF ChargesAddUp
<1>11. PICK z \in Nat : z = request[t].size
  BY <1>1 DEF RequestValues
<1>12. ASSUME live' = live, CurrentBytes' = CurrentBytes + (c - a)
       PROVE  ChargesAddUp'
  BY <1>6, <1>9, <1>10, <1>12 DEF ChargesAddUp
<1>13. ASSUME NEW r \in Requests, Mem!Ask(t, r) PROVE ChargesAddUp'
  <2>1. memoryPc[t] = "idle" /\ memoryPc'[t] \in {"reserve", "report"}
    BY <1>1, <1>13 DEF Mem!Ask, Mem!Go
  <2>2. c = 0 /\ a = 0
    BY <1>7, <1>8, <2>1 DEF Charges, IsCharged
  <2> QED BY <1>10, <1>12, <1>13, <2>2 DEF Mem!Ask, Mem!books
<1>14. CASE Mem!Reserve(t)
  <2>1. memoryPc[t] = "reserve" /\ live' = live /\ request' = request
    BY <1>14 DEF Mem!Reserve, Mem!Go
  <2>2. a = 0
    BY <1>7, <2>1 DEF Charges, IsCharged
  <2>3. CASE memoryPc'[t] = "fail" /\ CurrentBytes' = CurrentBytes
    <3>1. c = 0
      BY <1>8, <2>3 DEF Charges, IsCharged
    <3> QED BY <1>10, <1>12, <2>1, <2>2, <2>3, <3>1
  <2>4. CASE memoryPc'[t] = "obtain" /\ CurrentBytes' = CurrentBytes + request[t].size
    <3>1. c = z
      BY <1>8, <1>11, <2>1, <2>4 DEF Charges, IsCharged
    <3> QED BY <1>10, <1>11, <1>12, <2>1, <2>2, <2>4, <3>1
  <2> QED BY <1>1, <1>14, <2>3, <2>4 DEF Mem!Reserve, Mem!Go
<1>15. CASE Mem!ObtainFails(t) \/ Mem!Charge(t)
  <2>1. /\ memoryPc[t] \in {"obtain", "charge"} /\ memoryPc'[t] \in {"fail", "countFree"}
        /\ live' = live /\ request' = request /\ CurrentBytes' = CurrentBytes - request[t].size
    BY <1>1, <1>15 DEF Mem!ObtainFails, Mem!Charge, Mem!Go
  <2>2. a = z /\ c = 0
    BY <1>7, <1>8, <1>11, <2>1 DEF Charges, IsCharged
  <2> QED BY <1>10, <1>11, <1>12, <2>1, <2>2
<1>16. CASE Mem!Track(t) \/ \E b \in Blocks : Mem!Obtain(t, b)
  <2>1. /\ memoryPc[t] \in {"obtain", "track"} /\ memoryPc'[t] \in {"track", "count"}
        /\ live' = live /\ request' = request /\ CurrentBytes' = CurrentBytes
    BY <1>1, <1>16 DEF Mem!Track, Mem!Obtain, Mem!Go, Mem!books
  <2>2. a = z /\ c = z
    BY <1>7, <1>8, <1>11, <2>1 DEF Charges, IsCharged
  <2> QED BY <1>10, <1>11, <1>12, <2>1, <2>2
<1>17. CASE \/ Mem!Fail(t) \/ Mem!ReportAllocationFailure(t) \/ Mem!RecordOomReport(t)
            \/ Mem!HandleAllocationFailure(t) \/ Mem!CountFree(t)
  <2>1. /\ memoryPc[t] \in {"fail", "report", "store", "handle", "countFree"}
        /\ memoryPc'[t] \in {"report", "store", "handle", "idle"}
        /\ live' = live /\ CurrentBytes' = CurrentBytes
    BY <1>1, <1>17 DEF Mem!Fail, Mem!ReportAllocationFailure, Mem!RecordOomReport,
      Mem!HandleAllocationFailure, Mem!CountFree, Mem!Go, Mem!books
  <2>2. a = 0 /\ c = 0
    BY <1>7, <1>8, <2>1 DEF Charges, IsCharged
  <2> QED BY <1>10, <1>12, <2>1, <2>2
<1>18. CASE Mem!Count(t)
  <2>1. /\ memoryPc[t] = "count" /\ memoryPc'[t] = "idle" /\ CurrentBytes' = CurrentBytes
        /\ live' = [b \in DOMAIN live \cup {block[t]} |->
                      IF b = block[t] THEN request[t].size ELSE live[b]]
    BY <1>1, <1>18 DEF Mem!Count, Mem!Go
  <2>2. a = z /\ c = 0
    BY <1>7, <1>8, <1>11, <2>1 DEF Charges, IsCharged
  <2>3. block[t] \notin DOMAIN live
    BY <2>1 DEF BlocksHeldOnce, HasBlock
  <2>4. PICK D : D = DOMAIN live
    OBVIOUS
  <2>5. PICK g : g = live'
    OBVIOUS
  <2>6. PICK b : b = block[t]
    OBVIOUS
  <2>7. /\ IsFiniteSet(D) /\ b \notin D /\ DOMAIN g = D \cup {b} /\ g[b] = z
        /\ \A x \in D : g[x] = live[x] /\ g[x] \in Nat
    BY <1>1, <1>11, <2>1, <2>3, <2>4, <2>5, <2>6
  <2>8. SumOver(g, D \cup {b}) = SumOver(g, D) + z
    <3>1. \A x \in D \cup {b} : g[x] \in Nat
      BY <2>7, <1>11
    <3> QED BY <2>7, <3>1, SumAdd
  <2>9. SumOver(g, D) = k
    <3>1. PICK f : f = live
      OBVIOUS
    <3>2. SumOver(g, D) = SumOver(f, D)
      BY <2>7, <3>1, SumSame
    <3> QED BY <1>6, <2>4, <3>1, <3>2
  <2>10. SumOver(live', DOMAIN live') = k + z
    BY <2>5, <2>7, <2>8, <2>9
  <2> QED BY <1>9, <1>10, <1>11, <2>1, <2>2, <2>10 DEF ChargesAddUp
<1>19. ASSUME NEW b \in Blocks, Mem!Free(t, b) PROVE ChargesAddUp'
  <2>1. /\ memoryPc[t] = "idle" /\ memoryPc'[t] = "charge" /\ CurrentBytes' = CurrentBytes
        /\ b \in DOMAIN live /\ live' = [x \in DOMAIN live \ {b} |-> live[x]]
        /\ request'[t].size = live[b]
    BY <1>1, <1>19 DEF Mem!Free, Mem!Go, RequestValues
  <2>2. PICK y \in Nat : y = live[b]
    BY <1>1, <2>1
  <2>3. a = 0 /\ c = y
    BY <1>7, <1>8, <2>1, <2>2 DEF Charges, IsCharged
  <2>4. PICK f : f = live
    OBVIOUS
  <2>5. PICK g : g = live'
    OBVIOUS
  <2>6. PICK D : D = DOMAIN live
    OBVIOUS
  <2>7. /\ IsFiniteSet(D) /\ b \in D /\ f[b] = y /\ DOMAIN g = D \ {b}
        /\ (\A x \in D : f[x] \in Nat) /\ \A x \in D \ {b} : g[x] = f[x]
    BY <1>1, <2>1, <2>2, <2>4, <2>5, <2>6
  <2>8. SumOver(f, D \ {b}) = SumOver(f, D) - y
    BY <2>7, SumRemove
  <2>9. SumOver(g, D \ {b}) = SumOver(f, D \ {b})
    BY <2>7, SumSame
  <2>10. SumOver(live', DOMAIN live') = k - y
    BY <1>6, <2>4, <2>5, <2>6, <2>7, <2>8, <2>9
  <2> QED BY <1>9, <1>10, <2>1, <2>2, <2>3, <2>10 DEF ChargesAddUp
<1> QED BY <1>13, <1>14, <1>15, <1>16, <1>17, <1>18, <1>19 DEF Mem!Call


\* A record is made of a block its caller is about to have, and goes before it is freed.
LEMMA CallKeepsRecords ==
  ASSUME MemTypes, RecordsHaveBlocks, NEW t \in Users, Mem!Call(t)
  PROVE  RecordsHaveBlocks'
<1> DEFINE Tracked == {block[s] : s \in {u \in Users : memoryPc[u] = "count"}}
<1>1. /\ memoryPc \in [Users -> MemPlaces] /\ block \in [Users -> Blocks \cup {"no block"}]
      /\ memoryPc' \in [Users -> MemPlaces]
  BY CallIsOfOne DEF MemTypes, Mem!Call, Mem!Ask, Mem!Reserve, Mem!ObtainFails, Mem!Track,
    Mem!Count, Mem!Obtain, Mem!Free, Mem!Fail, Mem!ReportAllocationFailure,
    Mem!RecordOomReport, Mem!HandleAllocationFailure, Mem!Charge, Mem!CountFree, Mem!Go,
    MemPlaces
<1>2. \A b \in tracker : b \in DOMAIN live \/ \E s \in Users : memoryPc[s] = "count" /\ block[s] = b
  BY DEF RecordsHaveBlocks
<1>3. SUFFICES ASSUME NEW b \in tracker'
               PROVE  \/ b \in DOMAIN live'
                      \/ \E s \in Users : memoryPc'[s] = "count" /\ block'[s] = b
  BY DEF RecordsHaveBlocks
<1>4. ASSUME NEW s \in Users, s # t PROVE memoryPc'[s] = memoryPc[s] /\ block'[s] = block[s]
  BY CallIsOfOne, <1>4
<1>5. ASSUME memoryPc[t] # "count", tracker' \subseteq tracker, live' = live
      PROVE  \/ b \in DOMAIN live'
             \/ \E s \in Users : memoryPc'[s] = "count" /\ block'[s] = b
  BY <1>2, <1>3, <1>4, <1>5
<1>6. CASE \/ (\E r \in Requests : Mem!Ask(t, r)) \/ Mem!Reserve(t) \/ Mem!ObtainFails(t)
           \/ (\E c \in Blocks : Mem!Obtain(t, c)) \/ Mem!Fail(t)
           \/ Mem!ReportAllocationFailure(t) \/ Mem!RecordOomReport(t)
           \/ Mem!HandleAllocationFailure(t) \/ Mem!Charge(t) \/ Mem!CountFree(t)
  <2>1. memoryPc[t] # "count" /\ tracker' = tracker /\ live' = live
    BY <1>6 DEF Mem!Ask, Mem!Reserve, Mem!ObtainFails, Mem!Obtain, Mem!Fail,
      Mem!ReportAllocationFailure, Mem!RecordOomReport, Mem!HandleAllocationFailure,
      Mem!Charge, Mem!CountFree, Mem!Go, Mem!books
  <2> QED BY <1>5, <2>1
<1>7. CASE Mem!Track(t)
  <2>1. /\ memoryPc[t] = "track" /\ memoryPc'[t] = "count" /\ block' = block /\ live' = live
        /\ tracker' \subseteq tracker \cup {block[t]}
    BY <1>1, <1>7 DEF Mem!Track, Mem!Go
  <2> QED BY <1>2, <1>3, <1>4, <2>1
<1>8. CASE Mem!Count(t)
  <2>1. DOMAIN live' = DOMAIN live \cup {block[t]} /\ tracker' = tracker
    BY <1>8 DEF Mem!Count
  <2> QED BY <1>2, <1>3, <1>4, <2>1
<1>9. ASSUME NEW c \in Blocks, Mem!Free(t, c)
      PROVE  \/ b \in DOMAIN live'
             \/ \E s \in Users : memoryPc'[s] = "count" /\ block'[s] = b
  <2>1. /\ DOMAIN live' = DOMAIN live \ {c} /\ tracker' = tracker \ {c} /\ memoryPc[t] = "idle"
    BY <1>9 DEF Mem!Free, Mem!Go
  <2> QED BY <1>2, <1>3, <1>4, <2>1
<1> QED BY <1>6, <1>7, <1>8, <1>9 DEF Mem!Call

\* When no call runs, the pool is charged the bytes of the blocks that callers have.
LEMMA IdleCharges ==
  ASSUME MemTypes, ChargesAddUp, Mem!Idle
  PROVE  CurrentBytes = SumOver(live, DOMAIN live) /\ (CurrentBytes # 0 <=> DOMAIN live # {})
<1>1. SumOver(Charges, Users) = 0
  <2>1. \A t \in Users : Charges[t] = 0
    BY DEF Mem!Idle, Charges, IsCharged
  <2>2. PICK f : f = Charges
    OBVIOUS
  <2>3. SumOver(f, Users) = SumOver(f, {})
    <3>1. {} \in SUBSET Users /\ (\A x \in {} : f[x] = f[x]) /\ \A x \in Users \ {} : f[x] = 0
      BY <2>1, <2>2
    <3> QED BY <3>1, SumWhere
  <2> QED BY <2>2, <2>3, SumEmpty
<1>2. PICK f : f = live
  OBVIOUS
<1>3. PICK D : D = DOMAIN live
  OBVIOUS
<1>4. IsFiniteSet(D) /\ \A b \in D : f[b] \in Nat /\ f[b] > 0
  <2>1. IsFiniteSet(DOMAIN live) /\ \A b \in DOMAIN live : live[b] \in Nat \ {0}
    BY DEF MemTypes
  <2>2. \A b \in DOMAIN live : live[b] \in Nat /\ live[b] > 0
    BY <2>1
  <2> QED BY <1>2, <1>3, <2>1, <2>2
<1>5. PICK k \in Nat : k = SumOver(f, D)
  BY <1>4, SumNat
<1>6. CurrentBytes = k
  BY <1>1, <1>2, <1>3, <1>5 DEF ChargesAddUp
<1>7. D = {} => k = 0
  BY <1>5, SumEmpty
<1>8. ASSUME NEW b \in D PROVE k > 0
  <2>1. SumOver(f, D \ {b}) = k - f[b]
    BY <1>4, <1>5, <1>8, SumRemove
  <2>2. SumOver(f, D \ {b}) \in Nat
    <3>1. IsFiniteSet(D \ {b})
      BY <1>4, FS_RemoveElement
    <3> QED BY <1>4, <3>1, SumNat
  <2>3. f[b] \in Nat /\ f[b] > 0
    BY <1>4, <1>8
  <2> QED BY <1>5, <2>1, <2>2, <2>3
<1>9. D # {} => k > 0
  BY <1>8
<1>10. CurrentBytes # 0 <=> D # {}
  BY <1>5, <1>6, <1>7, <1>9
<1>11. CurrentBytes = SumOver(f, D)
  BY <1>5, <1>6
<1> QED BY <1>2, <1>3, <1>10, <1>11

\* An empty pool and idle threads, as the system starts with and a shutdown leaves.
LEMMA NothingHeld ==
  ASSUME NEW h, DOMAIN h = {}, NEW f, \A t \in Users : f[t] = 0
  PROVE  SumOver(h, DOMAIN h) + SumOver(f, Users) = 0
<1>1. SumOver(f, Users) = SumOver(f, {})
  <2>1. {} \in SUBSET Users /\ (\A x \in {} : f[x] = f[x]) /\ \A x \in Users \ {} : f[x] = 0
    OBVIOUS
  <2> QED BY <2>1, SumWhere
<1>2. SumOver(h, DOMAIN h) = SumOver(h, {})
  OBVIOUS
<1> QED BY <1>1, <1>2, SumEmpty


LEMMA CallKeepsMemory ==
  ASSUME MemInv, NEW t \in Users, Mem!Call(t)
  PROVE  MemInv'
<1>1. /\ MemTypes' /\ BlocksHeldOnce' /\ ChargesAddUp' /\ RecordsHaveBlocks'
  BY CallKeepsTypes, CallKeepsBlocks, CallKeepsCharges, CallKeepsRecords DEF MemInv
<1>2. memory' = memory /\ shutdown' = shutdown
  BY CallLeaves
<1>3. LeakReportTruthful'
  BY <1>2 DEF MemInv, LeakReportTruthful, Mem!LeakReportTruthful
<1>4. memory
  <2>1. SUFFICES ASSUME ~memory PROVE FALSE
    BY DEF MemInv, MemTypes
  <2>2. memoryPc[t] = "idle" /\ DOMAIN live = {}
    BY <2>1 DEF MemInv, NothingWhileStopped
  <2> QED BY <2>1, <2>2 DEF Mem!Call, Mem!Ask, Mem!Reserve, Mem!ObtainFails, Mem!Track,
    Mem!Count, Mem!Obtain, Mem!Free, Mem!Fail, Mem!ReportAllocationFailure,
    Mem!RecordOomReport, Mem!HandleAllocationFailure, Mem!Charge, Mem!CountFree, Mem!Go
<1>5. NothingWhileStopped'
  BY <1>2, <1>4 DEF NothingWhileStopped
<1> QED BY <1>1, <1>3, <1>5 DEF MemInv

LEMMA StartKeepsMemory ==
  ASSUME MemInv, NEW desc \in MemoryDescs, NEW trackerStarts \in BOOLEAN,
         Mem!InitializeMemorySystem(desc, trackerStarts)
  PROVE  MemInv'
<1>1. /\ UNCHANGED <<live, memoryPc, request, block, shutdown>> /\ Mem!Idle
  BY DEF Mem!InitializeMemorySystem
<1>2. LeakReportTruthful'
  BY <1>1 DEF MemInv, LeakReportTruthful, Mem!LeakReportTruthful
<1>3. desc.leaks \in BOOLEAN /\ desc.tracking \in BOOLEAN
  BY MemoryAssumption
<1>4. MemTypes'
  BY <1>1, <1>3 DEF MemInv, MemTypes, Mem!InitializeMemorySystem
<1>5. BlocksHeldOnce'
  BY <1>1 DEF MemInv, BlocksHeldOnce, HasBlock
<1>6. Charges' = Charges
  BY <1>1 DEF Charges, IsCharged
<1>7. CASE memory
  <2>1. UNCHANGED <<memory, Desc, CurrentBytes, tracking, tracker>>
    BY <1>7 DEF Mem!InitializeMemorySystem
  <2>2. ChargesAddUp' /\ RecordsHaveBlocks' /\ NothingWhileStopped'
    BY <1>1, <1>6, <2>1
      DEF MemInv, ChargesAddUp, RecordsHaveBlocks, NothingWhileStopped
  <2> QED BY <1>2, <1>4, <1>5, <2>2 DEF MemInv
<1>8. CASE ~memory
  <2>1. /\ DOMAIN live = {} /\ (\A t \in Users : memoryPc[t] = "idle")
    BY <1>8 DEF MemInv, NothingWhileStopped
  <2>2. CurrentBytes' = 0 /\ tracker' \subseteq tracker
    BY <1>8 DEF Mem!InitializeMemorySystem
  <2>3. tracker = {}
    BY <2>1 DEF MemInv, RecordsHaveBlocks
  <2>4. RecordsHaveBlocks'
    BY <2>2, <2>3 DEF RecordsHaveBlocks
  <2>5. ChargesAddUp'
    <3>1. \A t \in Users : Charges[t] = 0
      BY <2>1 DEF Charges, IsCharged
    <3>2. SumOver(live, DOMAIN live) + SumOver(Charges, Users) = 0
      BY <2>1, <3>1, NothingHeld
    <3> QED BY <1>1, <1>6, <2>2, <3>2 DEF ChargesAddUp
  <2>6. NothingWhileStopped'
    BY <1>1, <2>1 DEF NothingWhileStopped
  <2> QED BY <1>2, <1>4, <1>5, <2>4, <2>5, <2>6 DEF MemInv
<1> QED BY <1>7, <1>8

LEMMA ShutdownKeepsMemory ==
  ASSUME MemInv, Mem!ShutdownMemorySystem
  PROVE  MemInv'
<1>1. /\ UNCHANGED <<memoryPc, request, block>> /\ Mem!Idle
      /\ live' = <<>> /\ tracking' = FALSE /\ tracker' = {} /\ CurrentBytes' = 0
      /\ memory' = FALSE /\ Desc' = Mem!NoDesc
  BY DEF Mem!ShutdownMemorySystem
<1>2. \A t \in Users : memoryPc[t] = "idle"
  BY <1>1 DEF Mem!Idle
<1>3. DOMAIN live' = {}
  BY <1>1
<1>4. MemTypes'
  <2>1. IsFiniteSet({})
    BY FS_EmptySet
  <2> QED BY <1>1, <1>3, <2>1 DEF MemInv, MemTypes, Mem!NoDesc
<1>5. BlocksHeldOnce'
  BY <1>1, <1>2 DEF BlocksHeldOnce, HasBlock
<1>6. ChargesAddUp'
  <2>1. \A t \in Users : Charges'[t] = 0
    BY <1>1, <1>2 DEF Charges, IsCharged
  <2>2. PICK f : f = Charges'
    OBVIOUS
  <2>3. PICK h : h = live'
    OBVIOUS
  <2>4. SumOver(h, DOMAIN h) + SumOver(f, Users) = 0
    BY <1>3, <2>1, <2>2, <2>3, NothingHeld
  <2> QED BY <1>1, <2>2, <2>3, <2>4 DEF ChargesAddUp
<1>7. RecordsHaveBlocks' /\ NothingWhileStopped'
  BY <1>1, <1>2, <1>3 DEF RecordsHaveBlocks, NothingWhileStopped
\* The verdict: no call runs, so the records are of blocks that callers have, and
\* the pool is charged for theirs alone.
<1>8. LeakReportTruthful'
  <2>1. tracker \subseteq DOMAIN live
    BY <1>2 DEF MemInv, RecordsHaveBlocks
  <2>2. CurrentBytes # 0 <=> DOMAIN live # {}
    BY <1>1, IdleCharges DEF MemInv
  <2>3. /\ shutdown'.looked = Desc.leaks /\ shutdown'.tracking = tracking
        /\ shutdown'.reported = Mem!LeakDetected
        /\ shutdown'.left = DOMAIN live /\ shutdown'.tracked = DOMAIN live \cap tracker
    BY DEF Mem!ShutdownMemorySystem
  <2>4. tracking \in BOOLEAN /\ Desc.leaks \in BOOLEAN
    BY DEF MemInv, MemTypes
  <2> QED BY <2>1, <2>2, <2>3, <2>4
        DEF LeakReportTruthful, Mem!LeakReportTruthful, Mem!LeakDetected
<1> QED BY <1>4, <1>5, <1>6, <1>7, <1>8 DEF MemInv

LEMMA MemoryStarts ==
  ASSUME Mem!Init
  PROVE  MemInv
<1>1. /\ DOMAIN live = {} /\ CurrentBytes = 0 /\ tracker = {} /\ memory = FALSE
      /\ memoryPc = [t \in Users |-> "idle"] /\ tracking = FALSE /\ Desc.leaks = FALSE
      /\ request = [t \in Users |-> Mem!NoRequest]
      /\ block = [t \in Users |-> "no block"] /\ shutdown.looked = FALSE
  <2>1. /\ live = <<>> /\ CurrentBytes = 0 /\ tracker = {} /\ memory = FALSE
        /\ memoryPc = [t \in Users |-> "idle"] /\ tracking = FALSE
        /\ request = [t \in Users |-> Mem!NoRequest]
        /\ block = [t \in Users |-> Mem!NoBlock]
    BY DEF Mem!Init
  <2>2. Desc.leaks = FALSE /\ shutdown.looked = FALSE
    BY DEF Mem!Init, Mem!NoDesc
  <2>3. DOMAIN live = {}
    BY <2>1
  <2> QED BY <2>1, <2>2, <2>3 DEF Mem!NoBlock
<1>2. MemTypes
  <2>1. Mem!NoRequest \in RequestValues
    BY DEF Mem!NoRequest, RequestValues
  <2> QED BY <1>1, <2>1, FS_EmptySet DEF MemTypes, MemPlaces
<1>3. ChargesAddUp
  <2>1. \A t \in Users : Charges[t] = 0
    BY <1>1 DEF Charges, IsCharged
  <2>2. SumOver(live, DOMAIN live) + SumOver(Charges, Users) = 0
    BY <1>1, <2>1, NothingHeld
  <2> QED BY <1>1, <2>2 DEF ChargesAddUp
<1>4. BlocksHeldOnce /\ RecordsHaveBlocks /\ NothingWhileStopped /\ LeakReportTruthful
  BY <1>1 DEF BlocksHeldOnce, RecordsHaveBlocks, NothingWhileStopped, HasBlock,
    LeakReportTruthful, Mem!LeakReportTruthful
<1> QED BY <1>2, <1>3, <1>4 DEF MemInv

LEMMA MemoryStutters ==
  ASSUME MemInv, UNCHANGED Mem!vars
  PROVE  MemInv'
<1>1. /\ UNCHANGED <<memory, Desc, tracking, shutdown, CurrentBytes, tracker>>
      /\ UNCHANGED <<live, memoryPc, request, block>>
  BY DEF Mem!vars, Mem!life, Mem!books
<1>2. MemTypes' /\ NothingWhileStopped'
  BY <1>1 DEF MemInv, MemTypes, NothingWhileStopped
<1>3. BlocksHeldOnce'
  BY <1>1 DEF MemInv, BlocksHeldOnce, HasBlock
<1>4. RecordsHaveBlocks'
  BY <1>1 DEF MemInv, RecordsHaveBlocks
<1>5. ChargesAddUp' /\ LeakReportTruthful'
  BY <1>1 DEF MemInv, ChargesAddUp, Charges, IsCharged, LeakReportTruthful,
    Mem!LeakReportTruthful
<1> QED BY <1>2, <1>5, <1>3, <1>4 DEF MemInv

\* The verdict on leaks at a shutdown is right, for any threads, any calls between
\* and a tracker of any capacity, whether it has one or not.
THEOREM LeaksAreReported == Mem!Spec => []LeakReportTruthful
<1>1. Mem!Init => MemInv
  BY MemoryStarts
<1>2. MemInv /\ [Mem!Next]_(Mem!vars) => MemInv'
  <2> SUFFICES ASSUME MemInv, [Mem!Next]_(Mem!vars) PROVE MemInv'
    OBVIOUS
  <2>1. CASE UNCHANGED Mem!vars
    BY <2>1, MemoryStutters
  <2>2. CASE Mem!Next
    BY <2>2, StartKeepsMemory, ShutdownKeepsMemory, CallKeepsMemory DEF Mem!Next
  <2> QED BY <2>1, <2>2
<1>3. MemInv => LeakReportTruthful
  BY DEF MemInv
<1> QED BY <1>1, <1>2, <1>3, PTL DEF Mem!Spec


\* A thread that draws a number or stores its report; the other steps of a call
\* leave the reports alone.
LEMMA ReportsMove ==
  ASSUME ReportInv, NEW t \in Users, Mem!Call(t)
  PROVE  \/ /\ UNCHANGED <<s_Reports, slots, s_ReportSequence, drawn>>
            /\ memoryPc' \in [Users -> MemPlaces]
            /\ \A u \in Users : memoryPc'[u] = "store" <=> memoryPc[u] = "store"
         \/ memoryPc[t] = "report" /\ memoryPc' = [memoryPc EXCEPT ![t] = "store"]
            /\ Mem!DrawSequence(t)
         \/ memoryPc[t] = "store" /\ memoryPc' = [memoryPc EXCEPT ![t] = "handle"]
            /\ Mem!StoreReport(t, request[t].size)
<1>1. memoryPc \in [Users -> MemPlaces]
  BY DEF ReportInv
<1>2. ASSUME NEW from \in MemPlaces \ {"store"}, NEW to \in MemPlaces \ {"store"},
             Mem!Go(t, from, to), UNCHANGED <<s_Reports, slots, s_ReportSequence, drawn>>
      PROVE  /\ UNCHANGED <<s_Reports, slots, s_ReportSequence, drawn>>
             /\ memoryPc' \in [Users -> MemPlaces]
             /\ \A u \in Users : memoryPc'[u] = "store" <=> memoryPc[u] = "store"
  BY <1>1, <1>2 DEF Mem!Go
<1> DEFINE Still == /\ UNCHANGED <<s_Reports, slots, s_ReportSequence, drawn>>
                    /\ \E from, to \in MemPlaces \ {"store"} : Mem!Go(t, from, to)
<1>3. ASSUME NEW r \in Requests, Mem!Ask(t, r) PROVE Still
  <2>1. CASE r.valid
    BY <1>3, <2>1 DEF Mem!Ask, Mem!Go, Mem!reporterVars, MemPlaces
  <2>2. CASE ~r.valid
    BY <1>3, <2>2 DEF Mem!Ask, Mem!Go, Mem!reporterVars, MemPlaces
  <2> QED BY <2>1, <2>2
<1>4. ASSUME Mem!Reserve(t) PROVE Still
  BY <1>4 DEF Mem!Reserve, Mem!Go, Mem!reporterVars, MemPlaces
<1>5. ASSUME Mem!ObtainFails(t) \/ Mem!Track(t) PROVE Still
  BY <1>5 DEF Mem!ObtainFails, Mem!Track, Mem!Go, Mem!reporterVars, MemPlaces
<1>6. ASSUME Mem!Count(t) \/ Mem!Fail(t) PROVE Still
  BY <1>6 DEF Mem!Count, Mem!Fail, Mem!Go, Mem!reporterVars, MemPlaces
<1>7. ASSUME NEW b \in Blocks, Mem!Obtain(t, b) \/ Mem!Free(t, b) PROVE Still
  BY <1>7 DEF Mem!Obtain, Mem!Free, Mem!Go, Mem!reporterVars, MemPlaces
<1>8. ASSUME Mem!HandleAllocationFailure(t) \/ Mem!Charge(t) \/ Mem!CountFree(t) PROVE Still
  BY <1>8 DEF Mem!HandleAllocationFailure, Mem!Charge, Mem!CountFree, Mem!Go, Mem!reporterVars,
    MemPlaces
<1>9. CASE Mem!ReportAllocationFailure(t)
  <2>1. CASE Mem!ShouldRecordOomReport
    BY <1>9, <2>1 DEF Mem!ReportAllocationFailure, Mem!Go
  <2>2. CASE ~Mem!ShouldRecordOomReport
    <3>1. Still
      BY <1>9, <2>2 DEF Mem!ReportAllocationFailure, Mem!Go, Mem!reporterVars, MemPlaces
    <3> QED BY <1>2, <3>1
  <2> QED BY <2>1, <2>2
<1>10. CASE Mem!RecordOomReport(t)
  BY <1>10 DEF Mem!RecordOomReport, Mem!Go
<1>11. CASE Still
  BY <1>2, <1>11
<1> HIDE DEF Still
<1> QED BY <1>3, <1>4, <1>5, <1>6, <1>7, <1>8, <1>9, <1>10, <1>11 DEF Mem!Call


LEMMA DrawKeepsReports ==
  ASSUME ReportInv, NEW t \in Users, memoryPc[t] = "report",
         memoryPc' = [memoryPc EXCEPT ![t] = "store"], Mem!DrawSequence(t)
  PROVE  ReportInv'
<1>1. /\ memoryPc \in [Users -> MemPlaces] /\ s_ReportSequence \in Nat
      /\ drawn \in [Users -> Nat \cup {-1}]
      /\ \A u \in Users : (drawn[u] # -1 <=> memoryPc[u] = "store") /\ drawn[u] < s_ReportSequence
      /\ s_Reports \in DOMAIN ReportCapacity
  BY DEF ReportInv
<1>2. /\ drawn' = [drawn EXCEPT ![t] = s_ReportSequence]
      /\ s_ReportSequence' = s_ReportSequence + 1
      /\ s_Reports' = s_Reports /\ slots' = slots
  BY DEF Mem!DrawSequence
<1>3. PICK n \in Nat : n = s_ReportSequence
  BY <1>1
<1>4. PICK m \in Nat \ {0} : m = ReportCapacity[s_Reports]
  BY <1>1, MemoryAssumption
<1>5. /\ memoryPc' \in [Users -> MemPlaces] /\ drawn' \in [Users -> Nat \cup {-1}]
      /\ \A u \in Users : (drawn'[u] # -1 <=> memoryPc'[u] = "store") /\ drawn'[u] < n + 1
  <2>1. memoryPc' \in [Users -> MemPlaces]
    BY <1>1 DEF MemPlaces
  <2> QED BY <1>1, <1>2, <1>3, <2>1
<1>6. ASSUME NEW i \in 0..(m - 1), i < n + 1
      PROVE  ReportIn(i)' \/ ReportDue(i)'
  <2>1. CASE i < n /\ ReportIn(i)
    <3>1. PICK x : x = slots[s_Reports][i].SequenceId
      OBVIOUS
    <3>2. x \in 1..n /\ (x - 1) % m = i
      BY <1>3, <1>4, <2>1, <3>1 DEF ReportIn
    <3>3. x \in 1..(n + 1)
      BY <3>2
    <3> QED BY <1>2, <1>3, <1>4, <3>1, <3>2, <3>3 DEF ReportIn
  <2>2. CASE i < n /\ ReportDue(i)
    <3>1. PICK u \in Users : drawn[u] # -1 /\ drawn[u] % m = i
      BY <1>4, <2>2 DEF ReportDue
    <3>2. u # t
      BY <1>1, <3>1
    <3>3. drawn'[u] = drawn[u]
      BY <1>1, <1>2, <3>2
    <3> QED BY <1>2, <1>4, <3>1, <3>3 DEF ReportDue
  <2>3. CASE i = n
    <3>1. n % m = i
      BY <2>3, SmallModulo
    <3>2. drawn'[t] = n
      BY <1>1, <1>2, <1>3
    <3>3. n # -1
      OBVIOUS
    <3> QED BY <1>2, <1>4, <3>1, <3>2, <3>3 DEF ReportDue
  <2>4. i < n => ReportIn(i) \/ ReportDue(i)
    BY <1>3, <1>4 DEF ReportInv
  <2> QED BY <1>6, <2>1, <2>2, <2>3, <2>4
<1>7. \A i \in 0..(ReportCapacity[s_Reports'] - 1) :
        i < s_ReportSequence' => ReportIn(i)' \/ ReportDue(i)'
  BY <1>2, <1>3, <1>4, <1>6
<1>8. s_ReportSequence' \in Nat /\ \A u \in Users : drawn'[u] < s_ReportSequence'
  BY <1>2, <1>3, <1>5
<1> QED BY <1>1, <1>2, <1>5, <1>7, <1>8 DEF ReportInv

\* The slot of a number, and the number of a slot.
LEMMA StoreKeepsReports ==
  ASSUME ReportInv, NEW t \in Users, memoryPc[t] = "store",
         memoryPc' = [memoryPc EXCEPT ![t] = "handle"],
         Mem!StoreReport(t, request[t].size)
  PROVE  ReportInv'
<1>1. /\ memoryPc \in [Users -> MemPlaces] /\ s_ReportSequence \in Nat
      /\ drawn \in [Users -> Nat \cup {-1}]
      /\ \A u \in Users : (drawn[u] # -1 <=> memoryPc[u] = "store") /\ drawn[u] < s_ReportSequence
      /\ s_Reports \in DOMAIN ReportCapacity
      /\ DOMAIN slots = DOMAIN ReportCapacity
      /\ \A b \in DOMAIN ReportCapacity : DOMAIN slots[b] = 0..(ReportCapacity[b] - 1)
  BY DEF ReportInv
<1>2. PICK n \in Nat : n = s_ReportSequence
  BY <1>1
<1>3. PICK m \in Nat \ {0} : m = ReportCapacity[s_Reports]
  BY <1>1, MemoryAssumption
<1>4. PICK d \in Nat : d = drawn[t] /\ d < n
  BY <1>1, <1>2
<1>5. PICK k \in 0..(m - 1) : k = d % m
  BY <1>4
<1>6. PICK r : r = [SequenceId |-> d + 1, ThreadIndex |-> context'[t], info |-> request[t].size]
  OBVIOUS
<1>7. /\ slots' = [slots EXCEPT ![s_Reports][k] = r]
      /\ drawn' = [drawn EXCEPT ![t] = -1]
      /\ s_ReportSequence' = n /\ s_Reports' = s_Reports
  BY <1>2, <1>3, <1>4, <1>5, <1>6 DEF Mem!StoreReport, Mem!NotDrawn
<1>8. /\ memoryPc' \in [Users -> MemPlaces] /\ drawn' \in [Users -> Nat \cup {-1}]
      /\ \A u \in Users : (drawn'[u] # -1 <=> memoryPc'[u] = "store") /\ drawn'[u] < n
  <2>1. memoryPc' \in [Users -> MemPlaces]
    BY <1>1 DEF MemPlaces
  <2> QED BY <1>1, <1>2, <1>7, <2>1
<1>9. /\ DOMAIN slots' = DOMAIN ReportCapacity
      /\ \A b \in DOMAIN ReportCapacity : DOMAIN slots'[b] = 0..(ReportCapacity[b] - 1)
  BY <1>1, <1>7
<1>10. ASSUME NEW i \in 0..(m - 1), i < n
       PROVE  ReportIn(i)' \/ ReportDue(i)'
  <2>1. CASE i = k
    <3>1. slots'[s_Reports'][i] = r
      BY <1>1, <1>3, <1>7, <2>1
    <3>2. r.SequenceId = d + 1
      BY <1>6
    <3>3. d + 1 \in 1..n /\ (d + 1 - 1) % m = i
      BY <1>4, <1>5, <2>1
    <3> QED BY <1>3, <1>7, <3>1, <3>2, <3>3 DEF ReportIn
  <2>2. CASE i # k /\ ReportIn(i)
    <3>1. slots'[s_Reports'][i] = slots[s_Reports][i]
      BY <1>1, <1>3, <1>7, <2>2
    <3> QED BY <1>2, <1>3, <1>7, <2>2, <3>1 DEF ReportIn
  <2>3. CASE i # k /\ ReportDue(i)
    <3>1. PICK u \in Users : drawn[u] # -1 /\ drawn[u] % m = i
      BY <1>3, <2>3 DEF ReportDue
    <3>2. u # t
      BY <1>4, <1>5, <2>3, <3>1
    <3>3. drawn'[u] = drawn[u]
      BY <1>1, <1>7, <3>2
    <3> QED BY <1>3, <1>7, <3>1, <3>3 DEF ReportDue
  <2>4. ReportIn(i) \/ ReportDue(i)
    BY <1>2, <1>3, <1>10 DEF ReportInv
  <2> QED BY <2>1, <2>2, <2>3, <2>4
<1>11. \A i \in 0..(ReportCapacity[s_Reports'] - 1) :
         i < s_ReportSequence' => ReportIn(i)' \/ ReportDue(i)'
  BY <1>3, <1>7, <1>10
<1> QED BY <1>1, <1>7, <1>8, <1>9, <1>11 DEF ReportInv

\* A cleared ring: no number has been drawn.
LEMMA ClearedReports ==
  ASSUME ReportInv, memoryPc' = memoryPc, drawn' = drawn, Mem!Idle,
         s_Reports' \in DOMAIN ReportCapacity, Mem!ClearOomReports
  PROVE  ReportInv'
<1>1. /\ memoryPc \in [Users -> MemPlaces] /\ drawn \in [Users -> Nat \cup {-1}]
      /\ \A u \in Users : drawn[u] = -1 /\ memoryPc[u] = "idle"
      /\ DOMAIN slots = DOMAIN ReportCapacity
      /\ \A b \in DOMAIN ReportCapacity : DOMAIN slots[b] = 0..(ReportCapacity[b] - 1)
  BY DEF ReportInv, Mem!Idle
<1>2. /\ slots' = [slots EXCEPT ![s_Reports'] = Mem!Cleared(s_Reports')]
      /\ s_ReportSequence' = 0
  BY DEF Mem!ClearOomReports
<1>3. /\ DOMAIN slots' = DOMAIN ReportCapacity
      /\ \A b \in DOMAIN ReportCapacity : DOMAIN slots'[b] = 0..(ReportCapacity[b] - 1)
  BY <1>1, <1>2 DEF Mem!Cleared
<1>4. \A u \in Users : (drawn'[u] # -1 <=> memoryPc'[u] = "store") /\ drawn'[u] < s_ReportSequence'
  BY <1>1, <1>2
<1>5. \A i \in 0..(ReportCapacity[s_Reports'] - 1) : ~(i < s_ReportSequence')
  BY <1>2
<1> QED BY <1>1, <1>2, <1>3, <1>4, <1>5 DEF ReportInv


\* A capture while no report is being stored finds reports and no empty slot, each
\* in the slot its number leads to, for buffers of any capacity and reports that
\* overtake each other on their way into the ring.
THEOREM CapturesAreReports == Mem!Spec => []CapturesReports
<1>1. Mem!Init => ReportInv
  <2> SUFFICES ASSUME Mem!Init PROVE ReportInv
    OBVIOUS
  <2>1. /\ memoryPc = [t \in Users |-> "idle"] /\ drawn = [t \in Users |-> -1]
        /\ s_Reports = "default" /\ s_ReportSequence = 0
        /\ slots = [b \in DOMAIN ReportCapacity |-> Mem!Cleared(b)]
    BY DEF Mem!Init, Mem!InitReporter, Mem!NotDrawn, Mem!Buffers
  <2>2. \A b \in DOMAIN ReportCapacity : DOMAIN slots[b] = 0..(ReportCapacity[b] - 1)
    BY <2>1 DEF Mem!Cleared
  <2>3. \A i \in 0..(ReportCapacity[s_Reports] - 1) : ~(i < s_ReportSequence)
    BY <2>1
  <2>4. /\ memoryPc \in [Users -> MemPlaces] /\ drawn \in [Users -> Nat \cup {-1}]
        /\ \A t \in Users : (drawn[t] # -1 <=> memoryPc[t] = "store") /\ drawn[t] < s_ReportSequence
    BY <2>1 DEF MemPlaces
  <2>5. s_Reports \in DOMAIN ReportCapacity /\ s_ReportSequence \in Nat
        /\ DOMAIN slots = DOMAIN ReportCapacity
    BY <2>1, MemoryAssumption
  <2> QED BY <2>2, <2>3, <2>4, <2>5 DEF ReportInv
<1>2. ReportInv /\ [Mem!Next]_(Mem!vars) => ReportInv'
  <2> SUFFICES ASSUME ReportInv, [Mem!Next]_(Mem!vars) PROVE ReportInv'
    OBVIOUS
  <2>1. ASSUME UNCHANGED <<s_Reports, slots, s_ReportSequence, drawn>>,
               memoryPc' \in [Users -> MemPlaces],
               \A u \in Users : memoryPc'[u] = "store" <=> memoryPc[u] = "store"
        PROVE  ReportInv'
    BY <2>1 DEF ReportInv, ReportIn, ReportDue
  <2>2. CASE UNCHANGED Mem!vars
    <3>1. UNCHANGED <<s_Reports, slots, s_ReportSequence, drawn, memoryPc>>
      BY <2>2 DEF Mem!vars, Mem!reporterVars
    <3> QED BY <2>1, <3>1 DEF ReportInv
  <2>3. ASSUME NEW t \in Users, Mem!Call(t) PROVE ReportInv'
    BY <2>1, <2>3, ReportsMove, DrawKeepsReports, StoreKeepsReports
  <2>4. ASSUME NEW desc \in MemoryDescs, NEW trackerStarts \in BOOLEAN,
               Mem!InitializeMemorySystem(desc, trackerStarts)
        PROVE  ReportInv'
    <3>1. Mem!Idle /\ memoryPc' = memoryPc
      BY <2>4 DEF Mem!InitializeMemorySystem
    <3>2. CASE memory
      <4>1. UNCHANGED <<s_Reports, slots, s_ReportSequence, drawn>>
        BY <2>4, <3>2 DEF Mem!InitializeMemorySystem, Mem!reporterVars
      <4> QED BY <2>1, <3>1, <4>1 DEF ReportInv
    <3>3. CASE ~memory
      <4>1. s_Reports' = desc.buffer /\ Mem!ClearOomReports /\ drawn' = drawn
        BY <2>4, <3>3 DEF Mem!InitializeMemorySystem, Mem!ConfigureOomReporter
      <4>2. desc.buffer \in DOMAIN ReportCapacity
        BY MemoryAssumption
      <4> QED BY <3>1, <4>1, <4>2, ClearedReports
    <3> QED BY <3>2, <3>3
  <2>5. CASE Mem!ShutdownMemorySystem
    <3>1. /\ Mem!Idle /\ UNCHANGED <<memoryPc, s_Reports, drawn>> /\ Mem!ClearOomReports
      BY <2>5 DEF Mem!ShutdownMemorySystem
    <3>2. s_Reports' \in DOMAIN ReportCapacity
      BY <3>1 DEF ReportInv
    <3> QED BY <3>1, <3>2, ClearedReports
  <2> QED BY <2>2, <2>3, <2>4, <2>5 DEF Mem!Next
<1>3. ReportInv => CapturesReports
  <2> SUFFICES ASSUME ReportInv, \A t \in Users : drawn[t] = -1,
                      NEW i \in DOMAIN Mem!CaptureOomReports(ReportCapacity[s_Reports])
               PROVE  LET output == Mem!CaptureOomReports(ReportCapacity[s_Reports])
                      IN  /\ output[i].SequenceId \in 1..s_ReportSequence
                          /\ (output[i].SequenceId - 1) % ReportCapacity[s_Reports] = i
    BY DEF CapturesReports, Mem!CapturesReports, Mem!NotDrawn
  <2>1. PICK m \in Nat \ {0} : m = ReportCapacity[s_Reports]
    BY MemoryAssumption DEF ReportInv
  <2>2. PICK n \in Nat : n = s_ReportSequence
    BY DEF ReportInv
  <2>3. /\ i \in 0..(m - 1) /\ i < n
        /\ Mem!CaptureOomReports(ReportCapacity[s_Reports])[i] = slots[s_Reports][i]
    BY <2>1, <2>2 DEF Mem!CaptureOomReports
  <2>4. ReportIn(i)
    BY <2>1, <2>2, <2>3 DEF ReportInv, ReportDue
  <2> QED BY <2>3, <2>4 DEF ReportIn
<1> QED BY <1>1, <1>2, <1>3, PTL DEF Mem!Spec


\* The table of thread contexts, and what all of it together counted.
MetricValues ==
  [Thread : Users, Active : BOOLEAN, CurrentBytes : Nat, PeakBytes : Nat,
   AllocationCount : Nat, FreeCount : Nat, FailedAllocationCount : Nat]

AllocationsOf(table) == [i \in DOMAIN table |-> table[i].AllocationCount]
FreesOf(table) == [i \in DOMAIN table |-> table[i].FreeCount]
Allocations(table) == SumOver(AllocationsOf(table), DOMAIN table)
Frees(table) == SumOver(FreesOf(table), DOMAIN table)

CountTypes ==
  /\ nextThreadIndex \in Nat /\ context \in [Users -> Nat]
  /\ contexts \in Seq(MetricValues)
  /\ Len(contexts) = IF nextThreadIndex < MaxContexts THEN nextThreadIndex ELSE MaxContexts
  /\ \A t \in Users : context[t] <= Len(contexts)

Freeing == {t \in Users : memoryPc[t] \in {"charge", "countFree"}}

CountInv ==
  /\ MemInv /\ CountTypes /\ shutdown.abandoned \in Nat
  /\ nextThreadIndex <= MaxContexts =>
       Allocations(contexts) =
         Frees(contexts) + Cardinality(DOMAIN live) + shutdown.abandoned + Cardinality(Freeing)

LEMMA SumToNext ==
  ASSUME NEW k \in Nat, NEW g, \A i \in 1..(k + 1) : g[i] \in Nat
  PROVE  SumOver(g, 1..(k + 1)) = SumOver(g, 1..k) + g[k + 1]
<1>1. PICK y : y = k + 1
  OBVIOUS
<1>2. 1..(k + 1) = (1..k) \cup {y} /\ y \notin 1..k
  BY <1>1
<1>3. IsFiniteSet(1..k)
  BY FS_Interval
<1>4. \A x \in (1..k) \cup {y} : g[x] \in Nat
  BY <1>2
<1>5. SumOver(g, (1..k) \cup {y}) = SumOver(g, 1..k) + g[y]
  BY <1>2, <1>3, <1>4, SumAdd
<1> QED BY <1>1, <1>2, <1>5

\* Adding up in a loop, as the model does, gives the sum.
LEMMA RunningTotal ==
  ASSUME NEW n \in Nat, NEW g, \A i \in 1..n : g[i] \in Nat,
         NEW f, f = [i \in 0..n |-> IF i = 0 THEN 0 ELSE f[i - 1] + g[i]]
  PROVE  f[n] = SumOver(g, 1..n)
<1>1. \A i \in 0..n : f[i] = IF i = 0 THEN 0 ELSE f[i - 1] + g[i]
  OBVIOUS
<1> DEFINE T == {i \in 0..n : f[i] # SumOver(g, 1..i)}
<1> SUFFICES ASSUME T # {} PROVE FALSE
  OBVIOUS
<1>2. T \in SUBSET Nat
  OBVIOUS
<1>3. PICK i \in T : \A j \in T : i <= j
  <2> HIDE DEF T
  <2> QED BY <1>2, LeastNatural
<1>4. CASE i = 0
  <2>1. 1..0 = {} /\ f[0] = 0
    BY <1>1
  <2>2. f[i] = SumOver(g, 1..i)
    BY <1>4, <2>1, SumEmpty
  <2> QED BY <2>2
<1>5. CASE i # 0
  <2>1. i \in 1..n /\ i - 1 \in 0..n /\ i - 1 \notin T
    BY <1>3, <1>5
  <2>2. PICK k \in Nat : i = k + 1
    BY <2>1
  <2>3. f[k] = SumOver(g, 1..k)
    BY <2>1, <2>2
  <2>4. SumOver(g, 1..i) = SumOver(g, 1..k) + g[i]
    <3>1. \A x \in 1..(k + 1) : g[x] \in Nat
      BY <2>1, <2>2
    <3> QED BY <2>2, <3>1, SumToNext
  <2>5. f[i] = f[k] + g[i]
    BY <1>1, <2>1, <2>2
  <2> QED BY <2>3, <2>4, <2>5
<1> QED BY <1>4, <1>5

LEMMA RunningTotalExists ==
  ASSUME NEW n \in Nat, NEW g, \A i \in 1..n : g[i] \in Nat
  PROVE  \E f : f = [i \in 0..n |-> IF i = 0 THEN 0 ELSE f[i - 1] + g[i]]
<1> DEFINE f == [i \in 0..n |-> SumOver(g, 1..i)]
<1>1. ASSUME NEW i \in 0..n PROVE f[i] = IF i = 0 THEN 0 ELSE f[i - 1] + g[i]
  <2>1. CASE i = 0
    <3>1. 1..0 = {}
      OBVIOUS
    <3>2. f[i] = SumOver(g, {})
      BY <2>1, <3>1
    <3> QED BY <2>1, <3>2, SumEmpty
  <2>2. CASE i # 0
    <3>1. PICK k \in Nat : i = k + 1
      BY <2>2
    <3>2. k \in 0..n /\ \A x \in 1..(k + 1) : g[x] \in Nat
      BY <3>1
    <3>5. SumOver(g, 1..i) = SumOver(g, 1..k) + g[i]
      <4> HIDE DEF f
      <4> QED BY <3>1, <3>2, SumToNext
    <3>6. f[i] = SumOver(g, 1..k) + g[i]
      BY <3>5
    <3>7. f[i - 1] = SumOver(g, 1..k)
      <4>1. i - 1 = k
        BY <3>1
      <4> QED BY <3>2, <4>1
    <3> QED BY <2>2, <3>6, <3>7
  <2> QED BY <2>1, <2>2
<1>2. f = [i \in 0..n |-> IF i = 0 THEN 0 ELSE f[i - 1] + g[i]]
  BY <1>1
<1> HIDE DEF f
<1> QED BY <1>2


\* What CountsBalance adds up is what the table says.
LEMMA CountedAre ==
  ASSUME CountTypes
  PROVE  /\ Mem!Counted(LAMBDA c : c.AllocationCount) = Allocations(contexts)
         /\ Mem!Counted(LAMBDA c : c.FreeCount) = Frees(contexts)
<1> DEFINE rows == Mem!CaptureMemoryThreadContexts(MaxContexts)
<1>1. contexts \in Seq(MetricValues) /\ Len(contexts) \in Nat /\ DOMAIN contexts = 1..Len(contexts)
  BY LenProperties DEF CountTypes
<1>2. rows = contexts
  BY <1>1, SubSeqFull DEF Mem!CaptureMemoryThreadContexts, CountTypes
<1>3. \A i \in DOMAIN contexts :
        contexts[i].AllocationCount \in Nat /\ contexts[i].FreeCount \in Nat
  <2>1. \A i \in DOMAIN contexts : contexts[i] \in MetricValues
    BY <1>1, ElementOfSeq
  <2> QED BY <2>1 DEF MetricValues
<1>4. PICK n \in Nat : n = Len(contexts)
  BY <1>1
<1> DEFINE taken1 == CHOOSE f : f = [i \in 0..Len(rows) |->
                       IF i = 0 THEN 0 ELSE f[i - 1] + rows[i].AllocationCount]
           given1 == CHOOSE f : f = [i \in 0..Len(rows) |->
                       IF i = 0 THEN 0 ELSE f[i - 1] + rows[i].FreeCount]
<1>6. Mem!Counted(LAMBDA x : x.AllocationCount) = taken1[Len(rows)]
  BY DEF Mem!Counted
<1>7. Mem!Counted(LAMBDA x : x.FreeCount) = given1[Len(rows)]
  BY DEF Mem!Counted
<1>8. taken1[Len(rows)] = Allocations(contexts)
  <2>1. PICK g : g = AllocationsOf(contexts)
    OBVIOUS
  <2>2. /\ \A i \in 1..n : g[i] \in Nat /\ g[i] = rows[i].AllocationCount
        /\ Len(rows) = n /\ DOMAIN contexts = 1..n
    BY <1>1, <1>2, <1>3, <1>4, <2>1 DEF AllocationsOf
  <2>3. PICK f : f = [i \in 0..n |-> IF i = 0 THEN 0 ELSE f[i - 1] + g[i]]
    BY <2>2, RunningTotalExists
  <2>4. f = [i \in 0..Len(rows) |->
               IF i = 0 THEN 0 ELSE f[i - 1] + rows[i].AllocationCount]
    <3> HIDE DEF rows
    <3>1. \A i \in 0..n : i # 0 => i \in 1..n
      OBVIOUS
    <3> QED BY <2>2, <2>3, <3>1
  <2>5. taken1 = [i \in 0..Len(rows) |->
               IF i = 0 THEN 0 ELSE taken1[i - 1] + rows[i].AllocationCount]
    <3> HIDE DEF rows
    <3> QED BY <2>4
  <2> HIDE DEF taken1, rows
  <2>6. taken1 = [i \in 0..n |-> IF i = 0 THEN 0 ELSE taken1[i - 1] + g[i]]
    <3>1. \A i \in 0..n : i # 0 => i \in 1..n
      OBVIOUS
    <3> QED BY <2>2, <2>5, <3>1
  <2>7. taken1[n] = SumOver(g, 1..n)
    BY <2>2, <2>6, RunningTotal
  <2> QED BY <2>1, <2>2, <2>7 DEF Allocations
<1>9. given1[Len(rows)] = Frees(contexts)
  <2>1. PICK g : g = FreesOf(contexts)
    OBVIOUS
  <2>2. /\ \A i \in 1..n : g[i] \in Nat /\ g[i] = rows[i].FreeCount
        /\ Len(rows) = n /\ DOMAIN contexts = 1..n
    BY <1>1, <1>2, <1>3, <1>4, <2>1 DEF FreesOf
  <2>3. PICK f : f = [i \in 0..n |-> IF i = 0 THEN 0 ELSE f[i - 1] + g[i]]
    BY <2>2, RunningTotalExists
  <2>4. f = [i \in 0..Len(rows) |->
               IF i = 0 THEN 0 ELSE f[i - 1] + rows[i].FreeCount]
    <3> HIDE DEF rows
    <3>1. \A i \in 0..n : i # 0 => i \in 1..n
      OBVIOUS
    <3> QED BY <2>2, <2>3, <3>1
  <2>5. given1 = [i \in 0..Len(rows) |->
               IF i = 0 THEN 0 ELSE given1[i - 1] + rows[i].FreeCount]
    <3> HIDE DEF rows
    <3> QED BY <2>4
  <2> HIDE DEF given1, rows
  <2>6. given1 = [i \in 0..n |-> IF i = 0 THEN 0 ELSE given1[i - 1] + g[i]]
    <3>1. \A i \in 0..n : i # 0 => i \in 1..n
      OBVIOUS
    <3> QED BY <2>2, <2>5, <3>1
  <2>7. given1[n] = SumOver(g, 1..n)
    BY <2>2, <2>6, RunningTotal
  <2> QED BY <2>1, <2>2, <2>7 DEF Frees
<1> QED BY <1>6, <1>7, <1>8, <1>9


LEMMA TableTotals ==
  ASSUME NEW s \in Seq(MetricValues)
  PROVE  /\ DOMAIN s = 1..Len(s) /\ Len(s) \in Nat /\ IsFiniteSet(DOMAIN s)
         /\ \A i \in DOMAIN s : s[i] \in MetricValues
         /\ \A i \in DOMAIN s : AllocationsOf(s)[i] \in Nat /\ FreesOf(s)[i] \in Nat
         /\ Allocations(s) \in Nat /\ Frees(s) \in Nat
<1>1. DOMAIN s = 1..Len(s) /\ Len(s) \in Nat /\ \A i \in DOMAIN s : s[i] \in MetricValues
  BY LenProperties, ElementOfSeq
<1>2. \A i \in DOMAIN s : AllocationsOf(s)[i] \in Nat /\ FreesOf(s)[i] \in Nat
  BY <1>1 DEF AllocationsOf, FreesOf, MetricValues
<1>3. IsFiniteSet(DOMAIN s)
  BY <1>1, FS_Interval
<1>4. PICK D : D = DOMAIN s
  OBVIOUS
<1>5. PICK f : f = AllocationsOf(s)
  OBVIOUS
<1>6. PICK g : g = FreesOf(s)
  OBVIOUS
<1>7. SumOver(f, D) \in Nat /\ SumOver(g, D) \in Nat
  BY <1>2, <1>3, <1>4, <1>5, <1>6, SumNat
<1> QED BY <1>1, <1>2, <1>3, <1>4, <1>5, <1>6, <1>7 DEF Allocations, Frees

\* A new thread's metrics come at the end of the table.
LEMMA TableGrows ==
  ASSUME NEW s \in Seq(MetricValues), NEW r \in MetricValues
  PROVE  /\ Append(s, r) \in Seq(MetricValues) /\ Len(Append(s, r)) = Len(s) + 1
         /\ Append(s, r)[Len(s) + 1] = r
         /\ Allocations(Append(s, r)) = Allocations(s) + r.AllocationCount
         /\ Frees(Append(s, r)) = Frees(s) + r.FreeCount
<1>1. PICK n \in Nat : n = Len(s) /\ DOMAIN s = 1..n
  BY LenProperties
<1>2. PICK y \in Nat : y = n + 1
  OBVIOUS
<1>3. PICK b : b = Append(s, r)
  OBVIOUS
<1>4. /\ b \in Seq(MetricValues) /\ Len(b) = y /\ b[y] = r /\ \A i \in 1..n : b[i] = s[i]
  BY <1>1, <1>2, <1>3, AppendProperties
<1>5. DOMAIN b = (1..n) \cup {y} /\ y \notin 1..n
  BY <1>2, <1>4, LenProperties
<1>6. IsFiniteSet(1..n)
  BY FS_Interval
<1>7. PICK f : f = AllocationsOf(s)
  OBVIOUS
<1>8. PICK g : g = AllocationsOf(b)
  OBVIOUS
<1>9. /\ \A i \in 1..n : g[i] = f[i]
      /\ \A i \in (1..n) \cup {y} : g[i] \in Nat
      /\ g[y] = r.AllocationCount
  <2>1. \A i \in DOMAIN b : g[i] \in Nat
    BY <1>4, <1>8, TableTotals
  <2> QED BY <1>1, <1>4, <1>5, <1>7, <1>8, <2>1 DEF AllocationsOf
<1>10. Allocations(b) = Allocations(s) + r.AllocationCount
  <2>1. SumOver(g, (1..n) \cup {y}) = SumOver(g, 1..n) + g[y]
    <3>1. PICK S : S = 1..n
      OBVIOUS
    <3>2. IsFiniteSet(S) /\ y \notin S /\ \A x \in S \cup {y} : g[x] \in Nat
      BY <1>5, <1>6, <1>9, <3>1
    <3>3. SumOver(g, S \cup {y}) = SumOver(g, S) + g[y]
      BY <3>2, SumAdd
    <3> QED BY <3>1, <3>3
  <2>2. SumOver(g, 1..n) = SumOver(f, 1..n)
    BY <1>9, SumSame
  <2> QED BY <1>1, <1>5, <1>7, <1>8, <1>9, <2>1, <2>2 DEF Allocations
<1>11. PICK p : p = FreesOf(s)
  OBVIOUS
<1>12. PICK q : q = FreesOf(b)
  OBVIOUS
<1>13. /\ \A i \in 1..n : q[i] = p[i]
       /\ \A i \in (1..n) \cup {y} : q[i] \in Nat
       /\ q[y] = r.FreeCount
  <2>1. \A i \in DOMAIN b : q[i] \in Nat
    BY <1>4, <1>12, TableTotals
  <2> QED BY <1>1, <1>4, <1>5, <1>11, <1>12, <2>1 DEF FreesOf
<1>14. Frees(b) = Frees(s) + r.FreeCount
  <2>1. SumOver(q, (1..n) \cup {y}) = SumOver(q, 1..n) + q[y]
    <3>1. PICK S : S = 1..n
      OBVIOUS
    <3>2. IsFiniteSet(S) /\ y \notin S /\ \A x \in S \cup {y} : q[x] \in Nat
      BY <1>5, <1>6, <1>13, <3>1
    <3>3. SumOver(q, S \cup {y}) = SumOver(q, S) + q[y]
      BY <3>2, SumAdd
    <3> QED BY <3>1, <3>3
  <2>2. SumOver(q, 1..n) = SumOver(p, 1..n)
    BY <1>13, SumSame
  <2> QED BY <1>1, <1>5, <1>11, <1>12, <1>13, <2>1, <2>2 DEF Frees
<1> QED BY <1>1, <1>2, <1>3, <1>4, <1>10, <1>14

\* The metrics of one thread change.
LEMMA TableUpdated ==
  ASSUME NEW s \in Seq(MetricValues), NEW i \in DOMAIN s, NEW r \in MetricValues
  PROVE  /\ [s EXCEPT ![i] = r] \in Seq(MetricValues) /\ Len([s EXCEPT ![i] = r]) = Len(s)
         /\ Allocations([s EXCEPT ![i] = r]) =
              Allocations(s) + r.AllocationCount - s[i].AllocationCount
         /\ Frees([s EXCEPT ![i] = r]) = Frees(s) + r.FreeCount - s[i].FreeCount
<1>1. PICK D : D = DOMAIN s /\ D = 1..Len(s) /\ IsFiniteSet(D)
  BY TableTotals
<1>2. PICK b : b = [s EXCEPT ![i] = r]
  OBVIOUS
<1>3. /\ b \in Seq(MetricValues) /\ Len(b) = Len(s) /\ DOMAIN b = D
      /\ \A j \in D : b[j] = IF j = i THEN r ELSE s[j]
  BY <1>1, <1>2, ExceptSeq
<1>4. PICK f : f = AllocationsOf(s)
  OBVIOUS
<1>5. PICK g : g = AllocationsOf(b)
  OBVIOUS
<1>6. /\ \A j \in D : f[j] \in Nat /\ g[j] \in Nat
      /\ \A j \in D \ {i} : g[j] = f[j]
      /\ g[i] = r.AllocationCount /\ f[i] = s[i].AllocationCount
  <2>1. \A j \in D : f[j] \in Nat /\ g[j] \in Nat
    BY <1>1, <1>3, <1>4, <1>5, TableTotals
  <2> QED BY <1>1, <1>3, <1>4, <1>5, <2>1 DEF AllocationsOf
<1>7. SumOver(g, D) = SumOver(f, D) + g[i] - f[i]
  <2>1. i \in D /\ IsFiniteSet(D)
    BY <1>1
  <2>2. \A x \in D : f[x] \in Nat
    BY <1>6
  <2>3. \A x \in D : g[x] \in Nat
    BY <1>6
  <2>4. \A x \in D : x = i \/ g[x] = f[x]
    BY <1>6
  <2> QED BY <2>1, <2>2, <2>3, <2>4, SumChangeAt
<1>8. PICK p : p = FreesOf(s)
  OBVIOUS
<1>9. PICK q : q = FreesOf(b)
  OBVIOUS
<1>10. /\ \A j \in D : p[j] \in Nat /\ q[j] \in Nat
       /\ \A j \in D \ {i} : q[j] = p[j]
       /\ q[i] = r.FreeCount /\ p[i] = s[i].FreeCount
  <2>1. \A j \in D : p[j] \in Nat /\ q[j] \in Nat
    BY <1>1, <1>3, <1>8, <1>9, TableTotals
  <2> QED BY <1>1, <1>3, <1>8, <1>9, <2>1 DEF FreesOf
<1>11. SumOver(q, D) = SumOver(p, D) + q[i] - p[i]
  <2>1. i \in D /\ IsFiniteSet(D)
    BY <1>1
  <2>2. \A x \in D : p[x] \in Nat
    BY <1>10
  <2>3. \A x \in D : q[x] \in Nat
    BY <1>10
  <2>4. \A x \in D : x = i \/ q[x] = p[x]
    BY <1>10
  <2> QED BY <2>1, <2>2, <2>3, <2>4, SumChangeAt
<1>12. Allocations(b) = Allocations(s) + r.AllocationCount - s[i].AllocationCount
  BY <1>1, <1>3, <1>4, <1>5, <1>6, <1>7 DEF Allocations
<1>13. Frees(b) = Frees(s) + r.FreeCount - s[i].FreeCount
  BY <1>1, <1>3, <1>8, <1>9, <1>10, <1>11 DEF Frees
<1> QED BY <1>2, <1>3, <1>12, <1>13


\* A thread finds its slot of the table, takes a new one, or goes uncounted, and
\* then the index is beyond the table.
LEMMA ContextFound ==
  ASSUME CountTypes, NEW t \in Users
  PROVE  LET own == Mem!AcquireThreadContext(t) IN
         /\ own.table \in Seq(MetricValues) /\ own.next \in Nat
         /\ Len(own.table) = IF own.next < MaxContexts THEN own.next ELSE MaxContexts
         /\ own.slot \in 0..Len(own.table) /\ Len(contexts) <= Len(own.table)
         /\ own.next <= MaxContexts =>
              /\ nextThreadIndex <= MaxContexts /\ own.slot \in DOMAIN own.table
              /\ Allocations(own.table) = Allocations(contexts)
              /\ Frees(own.table) = Frees(contexts)
<1> DEFINE Found(own) ==
         /\ own.table \in Seq(MetricValues) /\ own.next \in Nat
         /\ Len(own.table) = IF own.next < MaxContexts THEN own.next ELSE MaxContexts
         /\ own.slot \in 0..Len(own.table) /\ Len(contexts) <= Len(own.table)
         /\ own.next <= MaxContexts =>
              /\ nextThreadIndex <= MaxContexts /\ own.slot \in DOMAIN own.table
              /\ Allocations(own.table) = Allocations(contexts)
              /\ Frees(own.table) = Frees(contexts)
<1>0. PICK own : own = Mem!AcquireThreadContext(t)
  OBVIOUS
<1> SUFFICES Found(own)
  BY <1>0
<1>1. /\ contexts \in Seq(MetricValues) /\ nextThreadIndex \in Nat /\ context[t] \in Nat
      /\ Len(contexts) = IF nextThreadIndex < MaxContexts THEN nextThreadIndex ELSE MaxContexts
      /\ context[t] <= Len(contexts) /\ MaxContexts \in Nat
      /\ Len(contexts) \in Nat /\ DOMAIN contexts = 1..Len(contexts)
  BY MemoryAssumption, LenProperties DEF CountTypes
<1>2. CASE context[t] # 0
  <2>1. own.table = contexts /\ own.slot = context[t] /\ own.next = nextThreadIndex
    BY <1>0, <1>2 DEF Mem!AcquireThreadContext
  <2>2. own.slot \in DOMAIN own.table
    BY <1>1, <1>2, <2>1
  <2> QED BY <1>1, <2>1, <2>2
<1>3. CASE context[t] = 0 /\ nextThreadIndex >= MaxContexts
  <2>1. own.table = contexts /\ own.slot = 0 /\ own.next = nextThreadIndex + 1
    BY <1>0, <1>3 DEF Mem!AcquireThreadContext
  <2> QED BY <1>1, <1>3, <2>1
<1>4. CASE context[t] = 0 /\ nextThreadIndex < MaxContexts
  <2>1. PICK r : r = Mem!Fresh(t)
    OBVIOUS
  <2>2. r \in MetricValues /\ r.AllocationCount = 0 /\ r.FreeCount = 0
    BY <2>1 DEF Mem!Fresh, MetricValues
  <2>3. PICK s : s = contexts
    OBVIOUS
  <2>4. /\ own.table = Append(s, r) /\ own.slot = nextThreadIndex + 1
        /\ own.next = nextThreadIndex + 1
    BY <1>0, <1>1, <1>4, <2>1, <2>3 DEF Mem!AcquireThreadContext
  <2>5. s \in Seq(MetricValues)
    BY <1>1, <2>3
  <2>6. /\ Append(s, r) \in Seq(MetricValues) /\ Len(Append(s, r)) = Len(s) + 1
        /\ Allocations(Append(s, r)) = Allocations(s) + 0
        /\ Frees(Append(s, r)) = Frees(s) + 0
    BY <2>2, <2>5, TableGrows
  <2>7. Allocations(s) \in Nat /\ Frees(s) \in Nat
    BY <2>5, TableTotals
  <2>8. DOMAIN own.table = 1..Len(own.table)
    BY <2>4, <2>6, LenProperties
  <2>9. own.slot \in 1..Len(own.table) /\ Len(own.table) = own.next /\ own.next \in Nat
    BY <1>1, <1>4, <2>3, <2>4, <2>6
  <2>10. Allocations(own.table) = Allocations(contexts) /\ Frees(own.table) = Frees(contexts)
    BY <2>3, <2>4, <2>6, <2>7
  <2> QED BY <1>1, <1>4, <2>3, <2>4, <2>6, <2>8, <2>9, <2>10
<1> QED BY <1>1, <1>2, <1>3, <1>4

\* The thread changes its metrics by a allocations and f frees.
\* A thread's row is replaced by one that counts so many more calls.
RowReplaced(t, own, old, r, a, f) ==
  /\ own = Mem!AcquireThreadContext(t) /\ old = own.table[own.slot]
  /\ nextThreadIndex' = own.next /\ context' = [context EXCEPT ![t] = own.slot]
  /\ contexts' = IF own.slot = 0 THEN own.table ELSE [own.table EXCEPT ![own.slot] = r]
  /\ own.slot # 0 => /\ r \in MetricValues
                     /\ r.AllocationCount = old.AllocationCount + a
                     /\ r.FreeCount = old.FreeCount + f

LEMMA RecordCounts ==
  ASSUME CountTypes, NEW t \in Users, NEW a \in Nat, NEW f \in Nat, NEW r, NEW own, NEW old,
         RowReplaced(t, own, old, r, a, f)
  PROVE  /\ CountTypes'
         /\ nextThreadIndex' <= MaxContexts =>
              /\ nextThreadIndex <= MaxContexts
              /\ Allocations(contexts') = Allocations(contexts) + a
              /\ Frees(contexts') = Frees(contexts) + f
<1>1. PICK s : s = own.table
  OBVIOUS
<1>2. PICK k : k = own.slot
  OBVIOUS
<1>3. PICK n : n = own.next
  OBVIOUS
<1>4. /\ s \in Seq(MetricValues) /\ n \in Nat
      /\ Len(s) = IF n < MaxContexts THEN n ELSE MaxContexts
      /\ k \in 0..Len(s) /\ Len(contexts) <= Len(s)
      /\ n <= MaxContexts =>
           /\ nextThreadIndex <= MaxContexts /\ k \in DOMAIN s
           /\ Allocations(s) = Allocations(contexts) /\ Frees(s) = Frees(contexts)
  BY <1>1, <1>2, <1>3, ContextFound DEF RowReplaced
<1>5. /\ nextThreadIndex' = n /\ context' = [context EXCEPT ![t] = k]
      /\ contexts' = IF k = 0 THEN s ELSE [s EXCEPT ![k] = r]
      /\ k # 0 => /\ r \in MetricValues
                  /\ r.AllocationCount = s[k].AllocationCount + a
                  /\ r.FreeCount = s[k].FreeCount + f
  BY <1>1, <1>2, <1>3 DEF RowReplaced
<1>6. /\ DOMAIN s = 1..Len(s) /\ Len(s) \in Nat /\ Len(contexts) \in Nat
      /\ Allocations(s) \in Nat /\ Frees(s) \in Nat
      /\ \A i \in DOMAIN s : s[i].AllocationCount \in Nat /\ s[i].FreeCount \in Nat
  <2>1. /\ DOMAIN s = 1..Len(s) /\ Len(s) \in Nat
        /\ Allocations(s) \in Nat /\ Frees(s) \in Nat
        /\ \A i \in DOMAIN s : s[i] \in MetricValues
    BY <1>4, TableTotals
  <2>2. Len(contexts) \in Nat
    BY LenProperties DEF CountTypes
  <2> QED BY <2>1, <2>2 DEF MetricValues
<1>7. ASSUME k # 0
      PROVE  /\ contexts' \in Seq(MetricValues) /\ Len(contexts') = Len(s)
             /\ Allocations(contexts') = Allocations(s) + a
             /\ Frees(contexts') = Frees(s) + f
  <2>1. k \in DOMAIN s /\ r \in MetricValues
    BY <1>4, <1>5, <1>6, <1>7
  <2>2. /\ [s EXCEPT ![k] = r] \in Seq(MetricValues) /\ Len([s EXCEPT ![k] = r]) = Len(s)
        /\ Allocations([s EXCEPT ![k] = r]) =
             Allocations(s) + r.AllocationCount - s[k].AllocationCount
        /\ Frees([s EXCEPT ![k] = r]) = Frees(s) + r.FreeCount - s[k].FreeCount
    BY <1>4, <2>1, TableUpdated
  <2>3. contexts' = [s EXCEPT ![k] = r]
    BY <1>5, <1>7
  <2>4. PICK x \in Nat : x = s[k].AllocationCount
    BY <1>6, <2>1
  <2>5. PICK y \in Nat : y = s[k].FreeCount
    BY <1>6, <2>1
  <2>6. PICK p \in Nat : p = Allocations(s)
    BY <1>6
  <2>7. PICK q \in Nat : q = Frees(s)
    BY <1>6
  <2>8. /\ Allocations([s EXCEPT ![k] = r]) = p + (x + a) - x
        /\ Frees([s EXCEPT ![k] = r]) = q + (y + f) - y
    BY <1>5, <1>7, <2>2, <2>4, <2>5, <2>6, <2>7
  <2>9. p + (x + a) - x = p + a /\ q + (y + f) - y = q + f
    OBVIOUS
  <2> QED BY <2>2, <2>3, <2>6, <2>7, <2>8, <2>9
<1>8. contexts' \in Seq(MetricValues) /\ Len(contexts') = Len(s)
  <2>1. CASE k = 0
    BY <1>4, <1>5, <2>1
  <2>2. CASE k # 0
    BY <1>7, <2>2
  <2> QED BY <2>1, <2>2
<1>9. CountTypes'
  <2>1. context \in [Users -> Nat] /\ \A u \in Users : context[u] <= Len(contexts)
    BY DEF CountTypes
  <2>2. PICK m \in Nat : m = Len(s)
    BY <1>6
  <2>3. PICK l \in Nat : l = Len(contexts)
    BY <1>6
  <2>4. k \in Nat /\ k <= m /\ l <= m
    BY <1>4, <2>2, <2>3
  <2>5. context' \in [Users -> Nat] /\ \A u \in Users : context'[u] <= m
    <3>1. \A u \in Users : context[u] \in Nat /\ context[u] <= l
      BY <2>1, <2>3
    <3>2. \A u \in Users : context[u] <= m
      BY <2>4, <3>1
    <3> QED BY <1>5, <2>1, <2>4, <3>2
  <2>6. Len(contexts') = m /\ m = IF n < MaxContexts THEN n ELSE MaxContexts
    BY <1>4, <1>8, <2>2
  <2> QED BY <1>4, <1>5, <1>8, <2>5, <2>6 DEF CountTypes
<1>10. nextThreadIndex' <= MaxContexts => k # 0
  BY <1>4, <1>5, <1>6
<1> QED BY <1>4, <1>5, <1>7, <1>9, <1>10

LEMMA OwnRow ==
  ASSUME CountTypes, NEW t \in Users, NEW own, own = Mem!AcquireThreadContext(t),
         NEW old, old = own.table[own.slot], own.slot # 0
  PROVE  old \in MetricValues
<1>1. own.table \in Seq(MetricValues) /\ own.slot \in 0..Len(own.table)
  BY ContextFound
<1>2. Len(own.table) \in Nat
  BY <1>1, LenProperties
<1>3. own.slot \in 1..Len(own.table)
  BY <1>1, <1>2
<1> QED BY <1>1, <1>3, ElementOfSeq

\* What each call that changes a thread's metrics adds to the counts.
LEMMA RegisteredCounts ==
  ASSUME CountTypes, NEW t \in Users, Mem!RegisterMemoryThread(t)
  PROVE  /\ CountTypes'
         /\ nextThreadIndex' <= MaxContexts =>
              /\ nextThreadIndex <= MaxContexts
              /\ Allocations(contexts') = Allocations(contexts) + 0
              /\ Frees(contexts') = Frees(contexts) + 0
<1>1. PICK own : own = Mem!AcquireThreadContext(t)
  OBVIOUS
<1>2. PICK old : old = own.table[own.slot]
  OBVIOUS
<1>3. own.slot # 0 => old \in MetricValues
  BY <1>1, <1>2, OwnRow
<1>4. PICK r : r = old
  OBVIOUS
<1>5. own.slot # 0 => /\ r \in MetricValues
                      /\ r.AllocationCount = old.AllocationCount + 0
                      /\ r.FreeCount = old.FreeCount + 0
  BY <1>3, <1>4 DEF MetricValues
<1>6. /\ nextThreadIndex' = own.next /\ context' = [context EXCEPT ![t] = own.slot]
      /\ contexts' = IF own.slot = 0 THEN own.table ELSE [own.table EXCEPT ![own.slot] = r]
  BY <1>1, <1>2, <1>4 DEF Mem!RegisterMemoryThread, Mem!Record
<1>7. RowReplaced(t, own, old, r, 0, 0)
  BY <1>1, <1>2, <1>5, <1>6 DEF RowReplaced
<1> QED BY <1>7, RecordCounts

LEMMA FailureCounts ==
  ASSUME CountTypes, NEW t \in Users, Mem!RecordThreadMemoryFailure(t)
  PROVE  /\ CountTypes'
         /\ nextThreadIndex' <= MaxContexts =>
              /\ nextThreadIndex <= MaxContexts
              /\ Allocations(contexts') = Allocations(contexts) + 0
              /\ Frees(contexts') = Frees(contexts) + 0
<1>1. PICK own : own = Mem!AcquireThreadContext(t)
  OBVIOUS
<1>2. PICK old : old = own.table[own.slot]
  OBVIOUS
<1>3. own.slot # 0 => old \in MetricValues
  BY <1>1, <1>2, OwnRow
<1>4. PICK r : r = [old EXCEPT !.FailedAllocationCount = @ + 1]
  OBVIOUS
<1>5. own.slot # 0 => /\ r \in MetricValues
                      /\ r.AllocationCount = old.AllocationCount + 0
                      /\ r.FreeCount = old.FreeCount + 0
  BY <1>3, <1>4 DEF MetricValues
<1>6. /\ nextThreadIndex' = own.next /\ context' = [context EXCEPT ![t] = own.slot]
      /\ contexts' = IF own.slot = 0 THEN own.table ELSE [own.table EXCEPT ![own.slot] = r]
  BY <1>1, <1>2, <1>4 DEF Mem!RecordThreadMemoryFailure, Mem!Record
<1>7. RowReplaced(t, own, old, r, 0, 0)
  BY <1>1, <1>2, <1>5, <1>6 DEF RowReplaced
<1> QED BY <1>7, RecordCounts

LEMMA AllocationCounts ==
  ASSUME CountTypes, NEW t \in Users, NEW size \in Nat, Mem!RecordThreadMemoryAllocation(t, size)
  PROVE  /\ CountTypes'
         /\ nextThreadIndex' <= MaxContexts =>
              /\ nextThreadIndex <= MaxContexts
              /\ Allocations(contexts') = Allocations(contexts) + 1
              /\ Frees(contexts') = Frees(contexts) + 0
<1>1. PICK own : own = Mem!AcquireThreadContext(t)
  OBVIOUS
<1>2. PICK old : old = own.table[own.slot]
  OBVIOUS
<1>3. own.slot # 0 => old \in MetricValues
  BY <1>1, <1>2, OwnRow
<1>4. PICK r : r =
    [old EXCEPT !.CurrentBytes = old.CurrentBytes + size, !.AllocationCount = @ + 1,
                !.PeakBytes = IF old.CurrentBytes + size > @ THEN old.CurrentBytes + size ELSE @]
  OBVIOUS
<1>5. own.slot # 0 => /\ r \in MetricValues
                      /\ r.AllocationCount = old.AllocationCount + 1
                      /\ r.FreeCount = old.FreeCount + 0
  <2> SUFFICES ASSUME own.slot # 0
               PROVE  /\ r \in MetricValues
                      /\ r.AllocationCount = old.AllocationCount + 1
                      /\ r.FreeCount = old.FreeCount + 0
    OBVIOUS
  <2>1. old \in MetricValues
    BY <1>3
  <2>2. PICK c \in Nat : c = old.CurrentBytes + size
    BY <2>1 DEF MetricValues
  <2>3. PICK p \in Nat : p = IF c > old.PeakBytes THEN c ELSE old.PeakBytes
    BY <2>1, <2>2 DEF MetricValues
  <2>4. r = [old EXCEPT !.CurrentBytes = c, !.AllocationCount = @ + 1, !.PeakBytes = p]
    BY <1>4, <2>2, <2>3
  <2>5. r \in MetricValues
    <3>1. PICK n \in Nat : n = old.AllocationCount + 1
      BY <2>1 DEF MetricValues
    <3>2. r = [old EXCEPT !.CurrentBytes = c, !.AllocationCount = n, !.PeakBytes = p]
      BY <2>4, <3>1
    <3> QED BY <2>1, <2>2, <2>3, <3>1, <3>2 DEF MetricValues
  <2>6. r.AllocationCount = old.AllocationCount + 1 /\ r.FreeCount = old.FreeCount
    BY <2>1, <2>4 DEF MetricValues
  <2>7. old.FreeCount \in Nat
    BY <2>1 DEF MetricValues
  <2> QED BY <2>5, <2>6, <2>7
<1>6. /\ nextThreadIndex' = own.next /\ context' = [context EXCEPT ![t] = own.slot]
      /\ contexts' = IF own.slot = 0 THEN own.table ELSE [own.table EXCEPT ![own.slot] = r]
  BY <1>1, <1>2, <1>4 DEF Mem!RecordThreadMemoryAllocation, Mem!Record
<1>7. RowReplaced(t, own, old, r, 1, 0)
  BY <1>1, <1>2, <1>5, <1>6 DEF RowReplaced
<1> QED BY <1>7, RecordCounts

LEMMA FreeCounts ==
  ASSUME CountTypes, NEW t \in Users, NEW size \in Nat, Mem!RecordThreadMemoryFree(t, size)
  PROVE  /\ CountTypes'
         /\ nextThreadIndex' <= MaxContexts =>
              /\ nextThreadIndex <= MaxContexts
              /\ Allocations(contexts') = Allocations(contexts) + 0
              /\ Frees(contexts') = Frees(contexts) + 1
<1>1. PICK own : own = Mem!AcquireThreadContext(t)
  OBVIOUS
<1>2. PICK old : old = own.table[own.slot]
  OBVIOUS
<1>3. own.slot # 0 => old \in MetricValues
  BY <1>1, <1>2, OwnRow
<1>4. PICK r : r =
    [old EXCEPT !.FreeCount = @ + 1, !.CurrentBytes = IF @ >= size THEN @ - size ELSE 0]
  OBVIOUS
<1>5. own.slot # 0 => /\ r \in MetricValues
                      /\ r.AllocationCount = old.AllocationCount + 0
                      /\ r.FreeCount = old.FreeCount + 1
  <2> SUFFICES ASSUME own.slot # 0
               PROVE  /\ r \in MetricValues
                      /\ r.AllocationCount = old.AllocationCount + 0
                      /\ r.FreeCount = old.FreeCount + 1
    OBVIOUS
  <2>1. old \in MetricValues
    BY <1>3
  <2>2. PICK c \in Nat : c = IF old.CurrentBytes >= size THEN old.CurrentBytes - size ELSE 0
    <3>1. old.CurrentBytes \in Nat
      BY <2>1 DEF MetricValues
    <3> QED BY <3>1
  <2>3. r = [old EXCEPT !.FreeCount = @ + 1, !.CurrentBytes = c]
    BY <1>4, <2>2
  <2>4. r \in MetricValues
    <3>1. PICK n \in Nat : n = old.FreeCount + 1
      BY <2>1 DEF MetricValues
    <3>2. r = [old EXCEPT !.FreeCount = n, !.CurrentBytes = c]
      BY <2>3, <3>1
    <3> QED BY <2>1, <2>2, <3>1, <3>2 DEF MetricValues
  <2>5. r.FreeCount = old.FreeCount + 1 /\ r.AllocationCount = old.AllocationCount
    BY <2>1, <2>3 DEF MetricValues
  <2>6. old.AllocationCount \in Nat
    BY <2>1 DEF MetricValues
  <2> QED BY <2>4, <2>5, <2>6
<1>6. /\ nextThreadIndex' = own.next /\ context' = [context EXCEPT ![t] = own.slot]
      /\ contexts' = IF own.slot = 0 THEN own.table ELSE [own.table EXCEPT ![own.slot] = r]
  BY <1>1, <1>2, <1>4 DEF Mem!RecordThreadMemoryFree, Mem!Record
<1>7. RowReplaced(t, own, old, r, 0, 1)
  BY <1>1, <1>2, <1>5, <1>6 DEF RowReplaced
<1> QED BY <1>7, RecordCounts


\* A call takes its block into account, frees one, or does neither.
LEMMA FreeingMoves ==
  ASSUME MemTypes, NEW t \in Users, Mem!Call(t)
  PROVE  /\ Cardinality(Freeing) \in Nat /\ Cardinality(Freeing') \in Nat
         /\ (memoryPc[t] \in {"charge", "countFree"} <=> memoryPc'[t] \in {"charge", "countFree"})
              => Cardinality(Freeing') = Cardinality(Freeing)
         /\ memoryPc[t] \notin {"charge", "countFree"} /\ memoryPc'[t] \in {"charge", "countFree"}
              => Cardinality(Freeing') = Cardinality(Freeing) + 1
         /\ memoryPc[t] \in {"charge", "countFree"} /\ memoryPc'[t] \notin {"charge", "countFree"}
              => Cardinality(Freeing') = Cardinality(Freeing) - 1
<1>1. \A s \in Users \ {t} : memoryPc'[s] = memoryPc[s]
  BY CallIsOfOne
<1>2. IsFiniteSet(Freeing) /\ Cardinality(Freeing) \in Nat /\ Cardinality(Freeing') \in Nat
  <2>1. Freeing \in SUBSET Users /\ Freeing' \in SUBSET Users
    BY DEF Freeing
  <2> QED BY <2>1, FS_Subset, FS_CardinalityType, MemoryAssumption
<1>3. ASSUME memoryPc[t] \in {"charge", "countFree"} <=> memoryPc'[t] \in {"charge", "countFree"}
      PROVE  Cardinality(Freeing') = Cardinality(Freeing)
  <2>1. Freeing' = Freeing
    BY <1>1, <1>3 DEF Freeing
  <2> QED BY <2>1
<1>4. ASSUME memoryPc[t] \notin {"charge", "countFree"}, memoryPc'[t] \in {"charge", "countFree"}
      PROVE  Cardinality(Freeing') = Cardinality(Freeing) + 1
  <2>1. Freeing' = Freeing \cup {t} /\ t \notin Freeing
    BY <1>1, <1>4 DEF Freeing
  <2> QED BY <1>2, <2>1, FS_AddElement
<1>5. ASSUME memoryPc[t] \in {"charge", "countFree"}, memoryPc'[t] \notin {"charge", "countFree"}
      PROVE  Cardinality(Freeing') = Cardinality(Freeing) - 1
  <2>1. Freeing' = Freeing \ {t} /\ t \in Freeing
    BY <1>1, <1>5 DEF Freeing
  <2> QED BY <1>2, <2>1, FS_RemoveElement
<1> QED BY <1>2, <1>3, <1>4, <1>5

LEMMA CallKeepsCounts ==
  ASSUME CountInv, NEW t \in Users, Mem!Call(t)
  PROVE  CountInv'
<1>1. /\ MemTypes /\ MemInv' /\ CountTypes
      /\ shutdown.abandoned \in Nat /\ shutdown' = shutdown
      /\ memoryPc \in [Users -> MemPlaces] /\ request \in [Users -> RequestValues]
      /\ request[t].size \in Nat /\ IsFiniteSet(DOMAIN live) /\ Cardinality(DOMAIN live) \in Nat
  <2>1. /\ MemInv /\ MemTypes /\ CountTypes /\ shutdown.abandoned \in Nat
    BY DEF CountInv, MemInv
  <2>2. /\ memoryPc \in [Users -> MemPlaces] /\ request \in [Users -> RequestValues]
        /\ IsFiniteSet(DOMAIN live)
    BY <2>1 DEF MemTypes
  <2>3. request[t].size \in Nat
    BY <2>2 DEF RequestValues
  <2> QED BY <2>1, <2>2, <2>3, CallKeepsMemory, CallLeaves, FS_CardinalityType
<1>2. Allocations(contexts) \in Nat /\ Frees(contexts) \in Nat
  BY <1>1, TableTotals DEF CountTypes
<1>3. Cardinality(Freeing) \in Nat
  BY <1>1, FreeingMoves
<1> DEFINE Counts(a, f) ==
             /\ CountTypes'
             /\ nextThreadIndex' <= MaxContexts =>
                  /\ nextThreadIndex <= MaxContexts
                  /\ Allocations(contexts') = Allocations(contexts) + a
                  /\ Frees(contexts') = Frees(contexts) + f
<1>4. ASSUME NEW a \in Nat, NEW f \in Nat, Counts(a, f),
             Cardinality(DOMAIN live') \in Nat, Cardinality(Freeing') \in Nat,
             a + Cardinality(DOMAIN live) + Cardinality(Freeing) =
               f + Cardinality(DOMAIN live') + Cardinality(Freeing')
      PROVE  CountInv'
  <2>1. ASSUME nextThreadIndex' <= MaxContexts
        PROVE  Allocations(contexts') =
                 Frees(contexts') + Cardinality(DOMAIN live') + shutdown'.abandoned
                   + Cardinality(Freeing')
    <3>1. /\ Allocations(contexts) =
               Frees(contexts) + Cardinality(DOMAIN live) + shutdown.abandoned + Cardinality(Freeing)
          /\ Allocations(contexts') = Allocations(contexts) + a
          /\ Frees(contexts') = Frees(contexts) + f
      BY <1>4, <2>1 DEF CountInv
    <3>2. PICK A \in Nat, F \in Nat, L \in Nat, D \in Nat, G \in Nat :
            /\ A = Allocations(contexts) /\ F = Frees(contexts) /\ L = Cardinality(DOMAIN live)
            /\ D = shutdown.abandoned /\ G = Cardinality(Freeing)
      BY <1>1, <1>2, <1>3
    <3>3. A = F + L + D + G
      BY <3>1, <3>2
    <3>4. PICK M \in Nat, H \in Nat : M = Cardinality(DOMAIN live') /\ H = Cardinality(Freeing')
      BY <1>4
    <3>5. a + L + G = f + M + H
      BY <1>4, <3>2, <3>4
    <3>6. A + a = (F + f) + M + D + H
      BY <1>4, <3>3, <3>5
    <3> QED BY <1>1, <3>1, <3>2, <3>4, <3>6
  <2>2. CountTypes' /\ shutdown'.abandoned \in Nat
    BY <1>1, <1>4
  <2> QED BY <1>1, <2>1, <2>2 DEF CountInv
<1>5. ASSUME UNCHANGED <<contexts, nextThreadIndex, context>> PROVE Counts(0, 0)
  BY <1>1, <1>2, <1>5 DEF CountTypes
<1>6. ASSUME live' = live, Counts(0, 0),
             memoryPc[t] \in {"charge", "countFree"} <=> memoryPc'[t] \in {"charge", "countFree"}
      PROVE  CountInv'
  <2>1. /\ Cardinality(DOMAIN live') = Cardinality(DOMAIN live)
        /\ Cardinality(Freeing') = Cardinality(Freeing)
    BY <1>1, <1>6, FreeingMoves
  <2>2. 0 + Cardinality(DOMAIN live) + Cardinality(Freeing) =
          0 + Cardinality(DOMAIN live') + Cardinality(Freeing')
    BY <1>1, <1>3, <2>1
  <2> HIDE DEF Counts
  <2> QED BY <1>1, <1>3, <1>4, <1>6, <2>1, <2>2
<1> HIDE DEF Counts
<1>7. CASE \/ (\E r \in Requests : Mem!Ask(t, r)) \/ (\E b \in Blocks : Mem!Obtain(t, b))
           \/ Mem!Reserve(t) \/ Mem!ObtainFails(t) \/ Mem!Track(t)
           \/ Mem!ReportAllocationFailure(t) \/ Mem!HandleAllocationFailure(t) \/ Mem!Charge(t)
  <2>1. UNCHANGED <<contexts, nextThreadIndex, context>> /\ live' = live
    BY <1>7 DEF Mem!Ask, Mem!Obtain, Mem!Reserve, Mem!ObtainFails, Mem!Track,
      Mem!ReportAllocationFailure, Mem!HandleAllocationFailure, Mem!Charge, Mem!contextVars,
      Mem!books
  <2>2. memoryPc[t] \in {"charge", "countFree"} <=> memoryPc'[t] \in {"charge", "countFree"}
    BY <1>1, <1>7 DEF Mem!Ask, Mem!Obtain, Mem!Reserve, Mem!ObtainFails, Mem!Track,
      Mem!ReportAllocationFailure, Mem!HandleAllocationFailure, Mem!Charge, Mem!Go
  <2>3. Counts(0, 0)
    BY <1>5, <2>1
  <2> QED BY <1>6, <2>1, <2>2, <2>3
<1>8. CASE Mem!Fail(t)
  <2>1. /\ Mem!RecordThreadMemoryFailure(t) /\ live' = live
        /\ memoryPc[t] = "fail" /\ memoryPc'[t] = "report"
    BY <1>1, <1>8 DEF Mem!Fail, Mem!Go, Mem!books
  <2>2. Counts(0, 0)
    BY <1>1, <2>1, FailureCounts DEF Counts
  <2>3. memoryPc[t] \in {"charge", "countFree"} <=> memoryPc'[t] \in {"charge", "countFree"}
    BY <2>1
  <2> QED BY <1>6, <2>1, <2>2, <2>3
<1>9. CASE Mem!RecordOomReport(t)
  <2>1. /\ Mem!RegisterMemoryThread(t) /\ live' = live
        /\ memoryPc[t] = "store" /\ memoryPc'[t] = "handle"
    BY <1>1, <1>9 DEF Mem!RecordOomReport, Mem!StoreReport, Mem!Go, Mem!books
  <2>2. Counts(0, 0)
    BY <1>1, <2>1, RegisteredCounts DEF Counts
  <2>3. memoryPc[t] \in {"charge", "countFree"} <=> memoryPc'[t] \in {"charge", "countFree"}
    BY <2>1
  <2> QED BY <1>6, <2>1, <2>2, <2>3
<1>10. CASE Mem!CountFree(t)
  <2>1. /\ Mem!RecordThreadMemoryFree(t, request[t].size) /\ live' = live
        /\ memoryPc[t] = "countFree" /\ memoryPc'[t] = "idle"
    BY <1>1, <1>10 DEF Mem!CountFree, Mem!Go, Mem!books
  <2>2. PICK z \in Nat : z = request[t].size
    BY <1>1
  <2>3. Counts(0, 1)
    BY <1>1, <2>1, <2>2, FreeCounts DEF Counts
  <2>4. Cardinality(Freeing) = Cardinality(Freeing') + 1 /\ Cardinality(Freeing') \in Nat
    BY <1>1, <1>3, <2>1, FreeingMoves
  <2>5. Cardinality(DOMAIN live') = Cardinality(DOMAIN live)
    BY <1>1, <2>1
  <2>6. 0 + Cardinality(DOMAIN live) + Cardinality(Freeing) =
          1 + Cardinality(DOMAIN live') + Cardinality(Freeing')
    BY <1>1, <2>4, <2>5
  <2> QED BY <1>1, <1>4, <2>3, <2>4, <2>5, <2>6
<1>11. CASE Mem!Count(t)
  <2>1. /\ Mem!RecordThreadMemoryAllocation(t, request[t].size)
        /\ DOMAIN live' = DOMAIN live \cup {block[t]}
        /\ memoryPc[t] = "count" /\ memoryPc'[t] = "idle"
    BY <1>1, <1>11 DEF Mem!Count, Mem!Go
  <2>2. PICK z \in Nat : z = request[t].size
    BY <1>1
  <2>3. Counts(1, 0)
    BY <1>1, <2>1, <2>2, AllocationCounts DEF Counts
  <2>4. Cardinality(Freeing') = Cardinality(Freeing)
    BY <1>1, <1>3, <2>1, FreeingMoves
  <2>5. block[t] \notin DOMAIN live
    BY <2>1 DEF CountInv, MemInv, BlocksHeldOnce, HasBlock
  <2>6. Cardinality(DOMAIN live') = Cardinality(DOMAIN live) + 1
    BY <1>1, <2>1, <2>5, FS_AddElement
  <2>7. 1 + Cardinality(DOMAIN live) + Cardinality(Freeing) =
          0 + Cardinality(DOMAIN live') + Cardinality(Freeing')
    BY <1>1, <1>3, <2>4, <2>6
  <2>8. Cardinality(DOMAIN live') \in Nat
    BY <1>1, <2>6
  <2> QED BY <1>3, <1>4, <2>3, <2>4, <2>7, <2>8
<1>12. ASSUME NEW b \in Blocks, Mem!Free(t, b) PROVE CountInv'
  <2>1. /\ UNCHANGED <<contexts, nextThreadIndex, context>>
        /\ b \in DOMAIN live /\ DOMAIN live' = DOMAIN live \ {b}
        /\ memoryPc[t] = "idle" /\ memoryPc'[t] = "charge"
    BY <1>1, <1>12 DEF Mem!Free, Mem!Go, Mem!contextVars
  <2>2. Counts(0, 0)
    BY <1>5, <2>1
  <2>3. Cardinality(Freeing') = Cardinality(Freeing) + 1
    BY <1>1, <2>1, FreeingMoves
  <2>4. Cardinality(DOMAIN live) = Cardinality(DOMAIN live') + 1
        /\ Cardinality(DOMAIN live') \in Nat
    <3>1. Cardinality(DOMAIN live') = Cardinality(DOMAIN live) - 1
      BY <1>1, <2>1, FS_RemoveElement
    <3>2. IsFiniteSet(DOMAIN live')
      BY <1>1, <2>1, FS_RemoveElement
    <3>3. Cardinality(DOMAIN live') \in Nat
      BY <3>2, FS_CardinalityType
    <3> QED BY <1>1, <3>1, <3>3
  <2>5. 0 + Cardinality(DOMAIN live) + Cardinality(Freeing) =
          0 + Cardinality(DOMAIN live') + Cardinality(Freeing')
    BY <1>3, <2>3, <2>4
  <2>6. Cardinality(Freeing') \in Nat
    BY <1>3, <2>3
  <2> QED BY <1>4, <2>2, <2>4, <2>5, <2>6
<1> QED BY <1>7, <1>8, <1>9, <1>10, <1>11, <1>12 DEF Mem!Call


LEMMA StartKeepsCounts ==
  ASSUME CountInv, NEW desc \in MemoryDescs, NEW trackerStarts \in BOOLEAN,
         Mem!InitializeMemorySystem(desc, trackerStarts)
  PROVE  CountInv'
<1>1. /\ MemInv' /\ CountTypes /\ shutdown.abandoned \in Nat
      /\ UNCHANGED <<live, memoryPc, shutdown>>
  BY StartKeepsMemory DEF CountInv, Mem!InitializeMemorySystem
<1>2. Freeing' = Freeing
  BY <1>1 DEF Freeing
<1>3. CASE UNCHANGED <<contexts, nextThreadIndex, context>>
  BY <1>1, <1>2, <1>3 DEF CountInv, CountTypes
<1>4. CASE Mem!RegisterMemoryThread(Main)
  <2>1. Main \in Users
    BY MemoryAssumption
  <2>2. PICK t \in Users : t = Main
    BY <2>1
  <2>3. /\ CountTypes'
        /\ nextThreadIndex' <= MaxContexts =>
             /\ nextThreadIndex <= MaxContexts
             /\ Allocations(contexts') = Allocations(contexts) + 0
             /\ Frees(contexts') = Frees(contexts) + 0
    BY <1>1, <1>4, <2>2, RegisteredCounts
  <2>4. Allocations(contexts) \in Nat /\ Frees(contexts) \in Nat
    BY <1>1, TableTotals DEF CountTypes
  <2>5. nextThreadIndex' <= MaxContexts =>
          /\ nextThreadIndex <= MaxContexts
          /\ Allocations(contexts') = Allocations(contexts)
          /\ Frees(contexts') = Frees(contexts)
    BY <2>3, <2>4
  <2> QED BY <1>1, <1>2, <2>3, <2>5 DEF CountInv
<1>5. Mem!RegisterMemoryThread(Main) \/ UNCHANGED <<contexts, nextThreadIndex, context>>
  BY DEF Mem!InitializeMemorySystem, Mem!contextVars
<1> QED BY <1>3, <1>4, <1>5

LEMMA ShutdownKeepsCounts ==
  ASSUME CountInv, Mem!ShutdownMemorySystem
  PROVE  CountInv'
<1>1. /\ MemInv' /\ MemTypes /\ CountTypes /\ shutdown.abandoned \in Nat
      /\ memoryPc' = memoryPc /\ Mem!Idle
      /\ DOMAIN live' = {} /\ Mem!UnregisterMemoryThread(Main)
      /\ shutdown'.abandoned = shutdown.abandoned + Cardinality(DOMAIN live)
  <2>1. live' = <<>> /\ shutdown'.abandoned = shutdown.abandoned + Mem!Cardinality(DOMAIN live)
    BY DEF Mem!ShutdownMemorySystem
  <2>2. DOMAIN live' = {}
    BY <2>1
  <2>3. shutdown'.abandoned = shutdown.abandoned + Cardinality(DOMAIN live)
    BY <2>1, MemCardinality
  <2> QED BY <2>2, <2>3, ShutdownKeepsMemory DEF CountInv, MemInv, Mem!ShutdownMemorySystem
<1>2. Freeing = {} /\ Freeing' = {} /\ Cardinality({}) = 0
  BY <1>1, FS_EmptySet DEF Freeing, Mem!Idle
<1>3. Cardinality(DOMAIN live) \in Nat
  BY <1>1, FS_CardinalityType DEF MemTypes
<1>4. PICK s : s = contexts
  OBVIOUS
<1>5. PICK k : k = context[Main]
  OBVIOUS
<1>6. /\ s \in Seq(MetricValues) /\ DOMAIN s = 1..Len(s) /\ Len(s) \in Nat /\ k \in 0..Len(s)
      /\ Main \in Users
      /\ nextThreadIndex \in Nat /\ context \in [Users -> Nat]
      /\ \A t \in Users : context[t] <= Len(s)
      /\ Len(s) = IF nextThreadIndex < MaxContexts THEN nextThreadIndex ELSE MaxContexts
      /\ Allocations(s) \in Nat /\ Frees(s) \in Nat
  <2>1. s \in Seq(MetricValues) /\ Main \in Users
    BY <1>1, <1>4, MemoryAssumption DEF CountTypes
  <2>2. DOMAIN s = 1..Len(s) /\ Len(s) \in Nat /\ Allocations(s) \in Nat /\ Frees(s) \in Nat
    BY <2>1, TableTotals
  <2>3. /\ nextThreadIndex \in Nat /\ context \in [Users -> Nat]
        /\ \A t \in Users : context[t] <= Len(contexts)
        /\ Len(contexts) = IF nextThreadIndex < MaxContexts THEN nextThreadIndex ELSE MaxContexts
    BY <1>1 DEF CountTypes
  <2>4. Len(contexts) = Len(s)
    BY <1>4
  <2>5. k \in Nat /\ k <= Len(s)
    BY <1>5, <2>1, <2>3, <2>4
  <2>6. k \in 0..Len(s)
    BY <2>2, <2>5
  <2> QED BY <2>1, <2>2, <2>3, <2>4, <2>6
<1>7. /\ contexts' = IF k = 0 THEN s ELSE [s EXCEPT ![k].Active = FALSE]
      /\ context' = [context EXCEPT ![Main] = 0] /\ nextThreadIndex' = nextThreadIndex
  BY <1>1, <1>4, <1>5 DEF Mem!UnregisterMemoryThread
\* Giving up a context changes no count.
<1>8. /\ contexts' \in Seq(MetricValues) /\ Len(contexts') = Len(s)
      /\ Allocations(contexts') = Allocations(s) /\ Frees(contexts') = Frees(s)
  <2>1. CASE k = 0
    BY <1>6, <1>7, <2>1
  <2>2. CASE k # 0
    <3>1. k \in DOMAIN s
      BY <1>6, <2>2
    <3>2. s[k] \in MetricValues
      BY <1>6, <3>1, TableTotals
    <3>3. PICK r : r = [s[k] EXCEPT !.Active = FALSE]
      OBVIOUS
    <3>4. /\ r \in MetricValues /\ r.AllocationCount = s[k].AllocationCount
          /\ r.FreeCount = s[k].FreeCount
          /\ s[k].AllocationCount \in Nat /\ s[k].FreeCount \in Nat
      BY <3>2, <3>3 DEF MetricValues
    <3>5. contexts' = [s EXCEPT ![k] = r]
      BY <1>7, <2>2, <3>3
    <3>6. /\ [s EXCEPT ![k] = r] \in Seq(MetricValues) /\ Len([s EXCEPT ![k] = r]) = Len(s)
          /\ Allocations([s EXCEPT ![k] = r]) =
               Allocations(s) + r.AllocationCount - s[k].AllocationCount
          /\ Frees([s EXCEPT ![k] = r]) = Frees(s) + r.FreeCount - s[k].FreeCount
      BY <1>6, <3>1, <3>4, TableUpdated
    <3>7. PICK x \in Nat : x = s[k].AllocationCount
      BY <3>4
    <3>8. PICK y \in Nat : y = s[k].FreeCount
      BY <3>4
    <3>9. /\ Allocations([s EXCEPT ![k] = r]) = Allocations(s) + x - x
          /\ Frees([s EXCEPT ![k] = r]) = Frees(s) + y - y
      BY <3>4, <3>6, <3>7, <3>8
    <3>10. PICK p \in Nat, q \in Nat : p = Allocations(s) /\ q = Frees(s)
      BY <1>6
    <3>11. p + x - x = p /\ q + y - y = q
      OBVIOUS
    <3> QED BY <3>5, <3>6, <3>9, <3>10, <3>11
  <2> QED BY <2>1, <2>2
<1>9. CountTypes'
  <2>1. context' \in [Users -> Nat] /\ \A t \in Users : context'[t] <= Len(contexts')
    BY <1>6, <1>7, <1>8
  <2> QED BY <1>6, <1>7, <1>8, <2>1 DEF CountTypes
<1>10. ASSUME nextThreadIndex' <= MaxContexts
       PROVE  Allocations(contexts') =
                Frees(contexts') + Cardinality(DOMAIN live') + shutdown'.abandoned
                  + Cardinality(Freeing')
  <2>1. Allocations(s) = Frees(s) + Cardinality(DOMAIN live) + shutdown.abandoned + 0
    BY <1>2, <1>4, <1>7, <1>10 DEF CountInv
  <2>2. PICK F \in Nat, L \in Nat, D \in Nat :
          F = Frees(s) /\ L = Cardinality(DOMAIN live) /\ D = shutdown.abandoned
    BY <1>1, <1>3, <1>6
  <2>3. F + L + D + 0 = F + 0 + (D + L) + 0
    OBVIOUS
  <2> QED BY <1>1, <1>2, <1>8, <2>1, <2>2, <2>3
<1>11. shutdown'.abandoned \in Nat
  BY <1>1, <1>3
<1> QED BY <1>1, <1>9, <1>10, <1>11 DEF CountInv

\* As long as every registration found a slot of the table, the allocations counted,
\* less the frees, are the blocks that are out, whichever threads allocated and freed
\* them and however often the system was started and stopped.
THEOREM CountsAreBalanced == Mem!Spec => []CountsBalance
<1>1. Mem!Init => CountInv
  <2> SUFFICES ASSUME Mem!Init PROVE CountInv
    OBVIOUS
  <2>1. MemInv
    BY MemoryStarts
  <2>2. /\ contexts = <<>> /\ nextThreadIndex = 0 /\ context = [t \in Users |-> 0]
        /\ live = <<>> /\ memoryPc = [t \in Users |-> "idle"] /\ shutdown.abandoned = 0
    BY DEF Mem!Init, Mem!InitContexts
  <2>3. Len(contexts) = 0 /\ DOMAIN contexts = {} /\ contexts \in Seq(MetricValues)
    BY <2>2
  <2>4. CountTypes
    <3>1. MaxContexts \in Nat
      BY MemoryAssumption
    <3>2. Len(contexts) = IF nextThreadIndex < MaxContexts THEN nextThreadIndex ELSE MaxContexts
      BY <2>2, <2>3, <3>1
    <3>3. context \in [Users -> Nat] /\ \A t \in Users : context[t] <= Len(contexts)
      BY <2>2, <2>3
    <3> QED BY <2>2, <2>3, <3>2, <3>3 DEF CountTypes
  <2>5. Allocations(contexts) = 0 /\ Frees(contexts) = 0
    BY <2>3, SumEmpty DEF Allocations, Frees
  <2>6. DOMAIN live = {} /\ Freeing = {} /\ Cardinality({}) = 0
    BY <2>2, FS_EmptySet DEF Freeing
  <2> QED BY <2>1, <2>2, <2>4, <2>5, <2>6 DEF CountInv
<1>2. CountInv /\ [Mem!Next]_(Mem!vars) => CountInv'
  <2> SUFFICES ASSUME CountInv, [Mem!Next]_(Mem!vars) PROVE CountInv'
    OBVIOUS
  <2>1. CASE UNCHANGED Mem!vars
    <3>1. UNCHANGED <<contexts, nextThreadIndex, context, live, memoryPc, shutdown>>
      BY <2>1 DEF Mem!vars, Mem!contextVars, Mem!life, Mem!books
    <3>2. MemInv'
      BY <2>1, MemoryStutters DEF CountInv
    <3>3. CountTypes'
      BY <3>1 DEF CountInv, CountTypes
    <3>4. Freeing' = Freeing
      BY <3>1 DEF Freeing
    <3> QED BY <3>1, <3>2, <3>3, <3>4 DEF CountInv
  <2>2. CASE Mem!Next
    BY <2>2, StartKeepsCounts, ShutdownKeepsCounts, CallKeepsCounts DEF Mem!Next
  <2> QED BY <2>1, <2>2
<1>3. CountInv => CountsBalance
  <2> SUFFICES ASSUME CountInv, nextThreadIndex <= MaxContexts
               PROVE  Mem!Counted(LAMBDA c : c.AllocationCount) - Mem!Counted(LAMBDA c : c.FreeCount) =
                        Mem!Cardinality(DOMAIN live) + shutdown.abandoned
                          + Mem!Cardinality({t \in Users : memoryPc[t] \in {"charge", "countFree"}})
    BY DEF CountsBalance, Mem!CountsBalance
  <2>1. /\ Mem!Counted(LAMBDA c : c.AllocationCount) = Allocations(contexts)
        /\ Mem!Counted(LAMBDA c : c.FreeCount) = Frees(contexts)
    BY CountedAre DEF CountInv
  <2>2. Allocations(contexts) = Frees(contexts) + Cardinality(DOMAIN live) + shutdown.abandoned
                                  + Cardinality(Freeing)
    BY DEF CountInv
  <2>3. PICK A \in Nat, F \in Nat : A = Allocations(contexts) /\ F = Frees(contexts)
    BY TableTotals DEF CountInv, CountTypes
  <2>4. PICK L \in Nat, D \in Nat, G \in Nat :
          L = Cardinality(DOMAIN live) /\ D = shutdown.abandoned /\ G = Cardinality(Freeing)
    <3>1. Cardinality(DOMAIN live) \in Nat
      BY FS_CardinalityType DEF CountInv, MemInv, MemTypes
    <3>2. Cardinality(Freeing) \in Nat
      <4>1. Freeing \in SUBSET Users
        BY DEF Freeing
      <4> QED BY <4>1, FS_Subset, FS_CardinalityType, MemoryAssumption
    <3> QED BY <3>1, <3>2 DEF CountInv
  <2>5. A = F + L + D + G
    BY <2>2, <2>3, <2>4
  <2>6. A - F = L + D + G
    BY <2>5
  <2>7. /\ Mem!Cardinality(DOMAIN live) = L
        /\ Mem!Cardinality({t \in Users : memoryPc[t] \in {"charge", "countFree"}}) = G
    BY <2>4, MemCardinality DEF Freeing
  <2> QED BY <2>1, <2>3, <2>4, <2>6, <2>7
<1> QED BY <1>1, <1>2, <1>3, PTL DEF Mem!Spec

-----------------------------------------------------------------------------
(***************************************************************************)
(* The platform primitives: the mutex with its condition for any number of *)
(* threads, and the Windows semaphore and event, whose every step is a     *)
(* step of the abstract ones.                                              *)
(***************************************************************************)

(***************************************************************************)
(* The monitor.                                                            *)
(***************************************************************************)

Places == {"outside", "inside", "asleep", "asleep for a time", "notified", "timed out"}

\* The mutex is owned by the thread inside, and nobody sleeps while the flag is up.
MonInv ==
  /\ at \in [Users -> Places]
  /\ owner = Mon!Inside
  /\ \A s, t \in Mon!Inside : s = t
  /\ Mon!NobodyStranded

\* A thread goes from one place to another, and nobody else moves.
LEMMA OneMoves ==
  ASSUME at \in [Users -> Places], NEW t \in Users, NEW place \in Places,
         at' = [at EXCEPT ![t] = place]
  PROVE  /\ at' \in [Users -> Places]
         /\ Mon!Inside' = IF place = "inside" THEN Mon!Inside \cup {t} ELSE Mon!Inside \ {t}
         /\ Mon!Asleep' = IF place \in {"asleep", "asleep for a time"}
                          THEN Mon!Asleep \cup {t} ELSE Mon!Asleep \ {t}
BY DEF Mon!Inside, Mon!Asleep, Places

LEMMA MonEnterStep ==
  ASSUME MonInv, NEW t \in Users, at[t] # "inside", Mon!Enter(t)
  PROVE  MonInv'
<1>1. at' = [at EXCEPT ![t] = "inside"] /\ owner = {} /\ owner' = {t} /\ flag' = flag
  BY DEF Mon!Enter
<1>2. at' \in [Users -> Places] /\ Mon!Inside' = Mon!Inside \cup {t} /\ Mon!Asleep' = Mon!Asleep \ {t}
  BY <1>1, OneMoves DEF MonInv, Places
<1>3. Mon!Inside' = {t}
  BY <1>1, <1>2 DEF MonInv
<1> QED BY <1>1, <1>2, <1>3 DEF MonInv, Mon!NobodyStranded

LEMMA MonSleepStep ==
  ASSUME MonInv, NEW t \in Users, NEW how \in {"asleep", "asleep for a time"}, Mon!Sleep(t, how)
  PROVE  MonInv'
<1>1. /\ at' = [at EXCEPT ![t] = how] /\ owner' = {} /\ ~flag /\ flag' = flag
      /\ t \in Mon!Inside
  BY DEF Mon!Sleep
<1>2. at' \in [Users -> Places] /\ Mon!Inside' = Mon!Inside \ {t}
  BY <1>1, OneMoves DEF MonInv, Places
<1>3. Mon!Inside' = {}
  BY <1>1, <1>2 DEF MonInv
<1> QED BY <1>1, <1>2, <1>3 DEF MonInv, Mon!NobodyStranded

\* Waking sleepers lets nobody inside.
LEMMA MonWakeStep ==
  ASSUME MonInv, NEW woken \in SUBSET Mon!Asleep, Mon!Wake(woken), owner' = owner,
         flag' \in {flag, TRUE}, flag' => flag \/ woken = Mon!Asleep
  PROVE  MonInv'
<1>1. at' = [t \in Users |-> IF t \in woken THEN "notified" ELSE at[t]]
  BY DEF Mon!Wake
<1>2. at' \in [Users -> Places] /\ Mon!Inside' = Mon!Inside /\ Mon!Asleep' = Mon!Asleep \ woken
  BY <1>1 DEF MonInv, Places, Mon!Inside, Mon!Asleep
<1>3. Mon!NobodyStranded'
  BY <1>2 DEF MonInv, Mon!NobodyStranded
<1> QED BY <1>2, <1>3 DEF MonInv

LEMMA MonInvStep ==
  ASSUME MonInv, [Mon!Next]_(Mon!vars)
  PROVE  MonInv'
<1>1. CASE UNCHANGED <<owner, at, flag>>
  BY <1>1 DEF MonInv, Mon!Inside, Mon!Asleep, Mon!NobodyStranded
<1>2. ASSUME NEW t \in Users,
             Mon!AcquireMutex(t) \/ Mon!TryAcquireMutex(t) \/ Mon!WaitReturns(t)
      PROVE  MonInv'
  BY <1>2, MonEnterStep
  DEF Mon!AcquireMutex, Mon!TryAcquireMutex, Mon!WaitReturns, Mon!Outside
<1>3. ASSUME NEW t \in Users, Mon!ReleaseMutex(t) PROVE MonInv'
  <2>1. /\ at' = [at EXCEPT ![t] = "outside"] /\ owner' = {} /\ flag' = flag
        /\ t \in Mon!Inside
    BY <1>3 DEF Mon!ReleaseMutex
  <2>2. /\ at' \in [Users -> Places] /\ Mon!Inside' = Mon!Inside \ {t}
        /\ Mon!Asleep' = Mon!Asleep \ {t}
    BY <2>1, OneMoves DEF MonInv, Places
  <2>3. Mon!Inside' = {}
    BY <2>1, <2>2 DEF MonInv
  <2> QED BY <2>1, <2>2, <2>3 DEF MonInv, Mon!NobodyStranded
<1>4. ASSUME NEW t \in Users,
             \/ Mon!WaitConditionVariable(t) \/ Mon!WaitConditionVariableForPosix(t)
             \/ Mon!WaitConditionVariableForWindows(t)
      PROVE  MonInv'
  BY <1>4, MonSleepStep
  DEF Mon!WaitConditionVariable, Mon!WaitConditionVariableForPosix,
      Mon!WaitConditionVariableForWindows
<1>5. ASSUME NEW t \in Users, Mon!TimerFires(t) \/ Mon!SpuriousWakeup(t) PROVE MonInv'
  <2>1. PICK place \in {"notified", "timed out"} : at' = [at EXCEPT ![t] = place]
    BY <1>5 DEF Mon!TimerFires, Mon!SpuriousWakeup
  <2>2. owner' = owner /\ flag' = flag /\ t \notin Mon!Inside
    BY <1>5 DEF Mon!TimerFires, Mon!SpuriousWakeup, Mon!Asleep, Mon!Inside
  <2>3. /\ at' \in [Users -> Places] /\ Mon!Inside' = Mon!Inside \ {t}
        /\ Mon!Asleep' = Mon!Asleep \ {t}
    BY <2>1, OneMoves DEF MonInv, Places
  <2> QED BY <2>2, <2>3 DEF MonInv, Mon!NobodyStranded
<1>6. ASSUME NEW t \in Users, Mon!Raise(t) PROVE MonInv'
  BY <1>6, MonWakeStep DEF Mon!Raise, Mon!NotifyAllConditionVariable
<1>7. ASSUME NEW t \in Users, Mon!Lower(t) PROVE MonInv'
  BY <1>7 DEF Mon!Lower, MonInv, Mon!Inside, Mon!Asleep, Mon!NobodyStranded
<1>8. CASE Mon!Nudge
  <2>1. CASE Mon!Asleep = {}
    BY <1>1, <1>8, <2>1 DEF Mon!Nudge, Mon!NotifyOneConditionVariable
  <2>2. CASE Mon!Asleep # {}
    <3>1. PICK t \in Mon!Asleep : Mon!Wake({t})
      BY <1>8, <2>2 DEF Mon!Nudge, Mon!NotifyOneConditionVariable
    <3>2. ~flag /\ flag' = flag /\ owner' = owner
      BY <1>8, <2>2 DEF Mon!Nudge, MonInv, Mon!NobodyStranded
    <3> QED BY <3>1, <3>2, MonWakeStep
  <2> QED BY <2>1, <2>2
<1> QED
  BY <1>1, <1>2, <1>3, <1>4, <1>5, <1>6, <1>7, <1>8
  DEF Mon!Next, Mon!vars, Mon!InitializeMutexPosix, Mon!InitializeMutexWindows,
      Mon!InitializeConditionVariablePosix, Mon!InitializeConditionVariableWindows,
      Mon!ShutdownMutex, Mon!ShutdownConditionVariable

LEMMA MonCardinality ==
  ASSUME NEW S
  PROVE  Mon!Cardinality(S) = Cardinality(S)
BY Zenon DEF Mon!Cardinality, Cardinality

\* At most one thread is between an acquisition, or a wait that has returned for
\* any reason, and a release or a wait, and nobody sleeps while what it waits for
\* is there.
THEOREM MonitorIsKept == Mon!Spec => []Mon!MonitorKept
<1>1. Mon!Init => MonInv
  BY DEF Mon!Init, MonInv, Places, Mon!Inside, Mon!NobodyStranded
<1>2. MonInv /\ [Mon!Next]_(Mon!vars) => MonInv'
  BY MonInvStep
<1>3. MonInv => Mon!MonitorKept
  <2> SUFFICES ASSUME MonInv PROVE Mon!MonitorKept
    OBVIOUS
  <2>1. Cardinality(Mon!Inside) <= 1
    <3>1. CASE Mon!Inside = {}
      BY <3>1, FS_EmptySet
    <3>2. ASSUME NEW t \in Mon!Inside PROVE Cardinality(Mon!Inside) <= 1
      <4>1. Mon!Inside = {t}
        BY DEF MonInv
      <4>2. Cardinality({t}) = 1
        BY FS_Singleton
      <4> QED BY <4>1, <4>2
    <3> QED BY <3>1, <3>2
  <2> QED BY <2>1, MonCardinality DEF MonInv, Mon!MonitorKept, Mon!Exclusive
<1> QED BY <1>1, <1>2, <1>3, PTL DEF Mon!Spec

(***************************************************************************)
(* The Windows semaphore.                                                  *)
(***************************************************************************)

Waits == {"no", "forever", "timed"}

\* Those that wait, and those of them that have a deadline.
SemWaiting == {t \in Users : semaphoreWaiting[t] # "no"}
SemTimed == {t \in Users : semaphoreWaiting[t] = "timed"}

SemTypes ==
  /\ semaphoreKernel \in [count : Nat, maximum : Nat]
  /\ semaphoreWaiting \in [Users -> Waits]
  /\ ~semaphore => SemWaiting = {}

\* A thread that did not wait begins to, for ever or for a time.
LEMMA SemBlocks ==
  ASSUME SemTypes, NEW t \in Users, semaphoreWaiting[t] = "no", NEW how \in {"forever", "timed"},
         semaphoreWaiting' = [semaphoreWaiting EXCEPT ![t] = how]
  PROVE  /\ semaphoreWaiting' \in [Users -> Waits]
         /\ t \notin SemWaiting /\ SemWaiting' = SemWaiting \cup {t}
         /\ SemTimed' \in {SemTimed, SemTimed \cup {t}}
<1>1. semaphoreWaiting' \in [Users -> Waits] /\ t \notin SemWaiting /\ SemWaiting' = SemWaiting \cup {t}
  BY DEF SemTypes, SemWaiting, Waits
<1>2. CASE how = "forever"
  <2>1. SemTimed' = SemTimed
    BY <1>2 DEF SemTypes, SemTimed
  <2> QED BY <1>1, <2>1
<1>3. CASE how = "timed"
  <2>1. SemTimed' = SemTimed \cup {t}
    BY <1>3 DEF SemTypes, SemTimed
  <2> QED BY <1>1, <2>1
<1> QED BY <1>2, <1>3

LEMMA SemReturns ==
  ASSUME SemTypes, NEW t \in Users, semaphoreWaiting[t] # "no",
         semaphoreWaiting' = [semaphoreWaiting EXCEPT ![t] = "no"]
  PROVE  /\ semaphoreWaiting' \in [Users -> Waits] /\ t \in SemWaiting
         /\ SemWaiting' = SemWaiting \ {t} /\ SemTimed' = SemTimed \ {t}
BY DEF SemTypes, SemWaiting, SemTimed, Waits

\* The unit a wait takes.
LEMMA SemTakes ==
  ASSUME SemTypes, SemW!TakeUnit
  PROVE  /\ semaphoreKernel' \in [count : Nat, maximum : Nat]
         /\ semaphoreKernel.count > 0 /\ semaphoreKernel'.count = semaphoreKernel.count - 1
         /\ semaphoreKernel'.maximum = semaphoreKernel.maximum
BY DEF SemTypes, SemW!TakeUnit

\* A LONG that is positive is the count it was made from; the kernel adds it
\* when there is room for all of it.
LEMMA SemReleaseStep ==
  ASSUME SemTypes, SemW!ReleaseSemaphore
  PROVE  SemTypes' /\ [SemW!Promise!Next]_(SemW!Promise!vars)
<1>1. PICK amount \in Releases \ {0} : SemW!NativeRelease(SemW!ToLong(amount))
  BY DEF SemW!ReleaseSemaphore
<1>2. /\ semaphore /\ semaphore' = semaphore /\ semaphoreWaiting' = semaphoreWaiting
      /\ SemWaiting' = SemWaiting /\ SemTimed' = SemTimed
  BY DEF SemW!ReleaseSemaphore, SemWaiting, SemTimed
<1>3. amount \in Nat /\ LongMax \in Nat
  BY SemaphoreAssumption
<1>4. PICK n \in Int : n = SemW!ToLong(amount)
  <2>1. SemW!ToLong(amount) \in Int
    BY <1>3 DEF SemW!ToLong
  <2> QED BY <2>1
<1>5. CASE n > 0 /\ semaphoreKernel.count + n <= semaphoreKernel.maximum
  <2>1. semaphoreKernel' = [semaphoreKernel EXCEPT !.count = semaphoreKernel.count + n]
    BY <1>1, <1>4, <1>5 DEF SemW!NativeRelease
  <2>2. /\ semaphoreKernel' \in [count : Nat, maximum : Nat]
        /\ semaphoreKernel'.count = semaphoreKernel.count + n
        /\ semaphoreKernel'.maximum = semaphoreKernel.maximum
    BY <1>4, <1>5, <2>1 DEF SemTypes
  <2>3. n \in 1..(semaphoreKernel.maximum - semaphoreKernel.count)
    BY <1>4, <1>5 DEF SemTypes
  <2>4. SemW!Promise!Release
    BY <1>2, <2>2, <2>3 DEF SemW!Promise!Release, SemWaiting, SemTimed
  <2> QED BY <1>2, <2>2, <2>4 DEF SemTypes, SemW!Promise!Next
<1>6. CASE ~(n > 0 /\ semaphoreKernel.count + n <= semaphoreKernel.maximum)
  <2>1. semaphoreKernel' = semaphoreKernel
    BY <1>1, <1>4, <1>6 DEF SemW!NativeRelease
  <2> QED BY <1>2, <2>1 DEF SemTypes, SemW!Promise!vars, SemWaiting, SemTimed
<1> QED BY <1>5, <1>6

\* Every step keeps the types and is a step of the counting semaphore, or none.
LEMMA SemStep ==
  ASSUME SemTypes, [SemW!Next]_(SemW!vars)
  PROVE  SemTypes' /\ [SemW!Promise!Next]_(SemW!Promise!vars)
<1>1. CASE UNCHANGED SemW!vars
  BY <1>1 DEF SemW!vars, SemTypes, SemWaiting, SemW!Promise!vars
<1>2. CASE SemW!InitializeSemaphore
  <2>1. PICK desc \in SemaphoreDescs :
          /\ desc[2] \in 1..LongMax /\ desc[1] <= desc[2]
          /\ semaphoreKernel' = [count |-> desc[1], maximum |-> desc[2]]
    BY <1>2 DEF SemW!InitializeSemaphore
  <2>2. desc[1] \in Nat /\ desc[2] \in Nat /\ desc[2] > 0 /\ desc[2] <= LongMax
    BY <2>1, SemaphoreAssumption
  <2>3. SemTypes'
    BY <1>2, <2>1, <2>2 DEF SemW!InitializeSemaphore, SemTypes, SemWaiting
  <2>4. SemW!Promise!Create
    BY <1>2, <2>1, <2>2 DEF SemW!InitializeSemaphore, SemW!Promise!Create
  <2> QED BY <2>3, <2>4 DEF SemW!Promise!Next
<1>3. CASE SemW!ShutdownSemaphore
  <2>1. SemTypes'
    BY <1>3 DEF SemW!ShutdownSemaphore, SemW!NoHandle, SemTypes, SemWaiting
  <2>2. SemW!Promise!Destroy
    BY <1>3 DEF SemW!ShutdownSemaphore, SemW!NoHandle, SemW!Promise!Destroy
  <2> QED BY <2>1, <2>2 DEF SemW!Promise!Next
<1>4. CASE SemW!ReleaseSemaphore
  BY <1>4, SemReleaseStep
<1>5. ASSUME NEW t \in Users, SemW!Calls(t), SemW!TakeUnit,
             UNCHANGED <<semaphore, semaphoreWaiting>>
      PROVE  SemTypes' /\ SemW!Promise!Acquire(t)
  <2>1. SemTypes'
    BY <1>5, SemTakes DEF SemTypes, SemWaiting
  <2> QED BY <1>5, <2>1, SemTakes DEF SemW!Calls, SemW!Promise!Acquire
<1>6. ASSUME NEW t \in Users, NEW how \in {"forever", "timed"}, SemW!Calls(t), SemW!Block(t, how)
      PROVE  SemTypes' /\ SemW!Promise!Wait(t)
  <2>1. /\ semaphoreWaiting' \in [Users -> Waits]
        /\ t \notin SemWaiting /\ SemWaiting' = SemWaiting \cup {t}
        /\ SemTimed' \in {SemTimed, SemTimed \cup {t}}
    BY <1>6, SemBlocks DEF SemW!Calls, SemW!Block
  <2>2. SemTypes'
    BY <1>6, <2>1 DEF SemW!Calls, SemW!Block, SemTypes
  <2> QED BY <1>6, <2>1, <2>2
          DEF SemW!Calls, SemW!Block, SemW!Promise!Wait, SemWaiting, SemTimed
<1>7. ASSUME NEW t \in Users, SemW!WaitReturns(t)
      PROVE  SemTypes' /\ (SemW!Promise!Take(t) \/ SemW!Promise!GiveUp(t))
  <2>1. /\ semaphoreWaiting' \in [Users -> Waits] /\ t \in SemWaiting
        /\ SemWaiting' = SemWaiting \ {t} /\ SemTimed' = SemTimed \ {t}
    BY <1>7, SemReturns DEF SemW!WaitReturns
  <2>2. CASE SemW!TakeUnit
    <3>1. SemTypes'
      BY <1>7, <2>1, <2>2, SemTakes DEF SemW!WaitReturns, SemTypes
    <3>2. SemW!Promise!Take(t)
      BY <1>7, <2>1, <2>2, SemTakes DEF SemW!WaitReturns, SemW!Promise!Take, SemWaiting, SemTimed
    <3> QED BY <3>1, <3>2
  <2>3. CASE semaphoreWaiting[t] = "timed" /\ semaphoreKernel.count = 0 /\ UNCHANGED semaphoreKernel
    <3>1. SemTypes'
      BY <1>7, <2>1, <2>3 DEF SemW!WaitReturns, SemTypes
    <3>2. SemW!Promise!GiveUp(t)
      BY <1>7, <2>1, <2>3 DEF SemW!WaitReturns, SemW!Promise!GiveUp, SemWaiting, SemTimed
    <3> QED BY <3>1, <3>2
  <2> QED BY <1>7, <2>2, <2>3 DEF SemW!WaitReturns
<1>8. ASSUME NEW t \in Users,
             SemW!AcquireSemaphore(t) \/ SemW!TryAcquireSemaphore(t) \/ SemW!AcquireSemaphoreFor(t)
      PROVE  SemTypes' /\ (SemW!Promise!Acquire(t) \/ SemW!Promise!Wait(t))
  BY <1>5, <1>6, <1>8
  DEF SemW!AcquireSemaphore, SemW!TryAcquireSemaphore, SemW!AcquireSemaphoreFor
<1> QED
  BY <1>1, <1>2, <1>3, <1>4, <1>7, <1>8 DEF SemW!Next, SemW!Promise!Next

\* In every execution the Windows semaphore is a counting semaphore whose maximum
\* is one it accepts: it makes up and loses no permit, also when a release does not
\* fit or does not survive its conversion to a LONG.
THEOREM WindowsSemaphoreIsSafe == SemW!Spec => SemW!Promise!Safe
<1>1. SemW!Init => SemTypes /\ SemW!Promise!Init
  BY DEF SemW!Init, SemW!NoHandle, SemTypes, SemWaiting, Waits, SemW!Promise!Init
<1>2. SemTypes /\ [SemW!Next]_(SemW!vars)
        => SemTypes' /\ [SemW!Promise!Next]_(SemW!Promise!vars)
  BY SemStep
<1> QED BY <1>1, <1>2, PTL DEF SemW!Spec, SemW!Promise!Safe

(***************************************************************************)
(* The Windows event.                                                      *)
(***************************************************************************)

EvtWaiting == {t \in Users : eventWaiting[t] # "no"}
EvtTimed == {t \in Users : eventWaiting[t] = "timed"}

\* The kernel's event is of the mode that was asked for.
EvtInv ==
  /\ eventKernel \in [manual : BOOLEAN, signaled : BOOLEAN]
  /\ eventKernel.manual = (eventMode = "Manual")
  /\ eventMode \in {"Auto", "Manual"}
  /\ eventWaiting \in [Users -> Waits]
  /\ ~eventMade => EvtWaiting = {}

LEMMA EvtBlocks ==
  ASSUME EvtInv, NEW t \in Users, eventWaiting[t] = "no", NEW how \in {"forever", "timed"},
         eventWaiting' = [eventWaiting EXCEPT ![t] = how]
  PROVE  /\ eventWaiting' \in [Users -> Waits]
         /\ t \notin EvtWaiting /\ EvtWaiting' = EvtWaiting \cup {t}
         /\ EvtTimed' \in {EvtTimed, EvtTimed \cup {t}}
<1>1. eventWaiting' \in [Users -> Waits] /\ t \notin EvtWaiting /\ EvtWaiting' = EvtWaiting \cup {t}
  BY DEF EvtInv, EvtWaiting, Waits
<1>2. CASE how = "forever"
  <2>1. EvtTimed' = EvtTimed
    BY <1>2 DEF EvtInv, EvtTimed
  <2> QED BY <1>1, <2>1
<1>3. CASE how = "timed"
  <2>1. EvtTimed' = EvtTimed \cup {t}
    BY <1>3 DEF EvtInv, EvtTimed
  <2> QED BY <1>1, <2>1
<1> QED BY <1>2, <1>3

LEMMA EvtReturns ==
  ASSUME EvtInv, NEW t \in Users, eventWaiting[t] # "no",
         eventWaiting' = [eventWaiting EXCEPT ![t] = "no"]
  PROVE  /\ eventWaiting' \in [Users -> Waits] /\ t \in EvtWaiting
         /\ EvtWaiting' = EvtWaiting \ {t} /\ EvtTimed' = EvtTimed \ {t}
BY DEF EvtInv, EvtWaiting, EvtTimed, Waits

\* What a wait that is satisfied leaves: the flag, when the event is manual.
LEMMA EvtThrough ==
  ASSUME EvtInv, EvtW!Through
  PROVE  /\ eventKernel' \in [manual : BOOLEAN, signaled : BOOLEAN]
         /\ eventKernel'.manual = eventKernel.manual
         /\ eventKernel.signaled /\ eventKernel'.signaled = (eventMode = "Manual")
BY DEF EvtInv, EvtW!Through

\* Every step keeps the invariant and is a step of the event flag, or none.
LEMMA EvtStep ==
  ASSUME EvtInv, [EvtW!Next]_(EvtW!vars)
  PROVE  EvtInv' /\ [EvtW!Promise!Next]_(EvtW!Promise!vars)
<1>1. CASE UNCHANGED EvtW!vars
  BY <1>1 DEF EvtW!vars, EvtInv, EvtWaiting, EvtW!Promise!vars
<1>2. CASE EvtW!InitializeEvent
  <2>1. PICK mode \in {"Auto", "Manual"}, initially \in BOOLEAN :
          /\ eventMode' = mode
          /\ eventKernel' = [manual |-> mode = "Manual", signaled |-> initially]
    BY <1>2 DEF EvtW!InitializeEvent
  <2>2. EvtInv'
    BY <1>2, <2>1 DEF EvtW!InitializeEvent, EvtInv, EvtWaiting
  <2>3. EvtW!Promise!Create
    BY <1>2, <2>1 DEF EvtW!InitializeEvent, EvtW!Promise!Create
  <2> QED BY <2>2, <2>3 DEF EvtW!Promise!Next
<1>3. CASE EvtW!ShutdownEvent
  <2>1. EvtInv'
    BY <1>3 DEF EvtW!ShutdownEvent, EvtW!NoHandle, EvtInv, EvtWaiting
  <2>2. EvtW!Promise!Destroy
    BY <1>3 DEF EvtW!ShutdownEvent, EvtW!NoHandle, EvtW!Promise!Destroy
  <2> QED BY <2>1, <2>2 DEF EvtW!Promise!Next
<1>4. ASSUME NEW up \in BOOLEAN, eventMade,
             eventKernel' = [eventKernel EXCEPT !.signaled = up],
             UNCHANGED <<eventMade, eventMode, eventWaiting>>
      PROVE  EvtInv' /\ eventKernel'.signaled = up
  BY <1>4 DEF EvtInv, EvtWaiting
<1>5. CASE EvtW!SignalEvent
  <2>1. EvtInv' /\ eventKernel'.signaled = TRUE
    BY <1>4, <1>5 DEF EvtW!SignalEvent
  <2>2. EvtW!Promise!Set
    BY <1>5, <2>1 DEF EvtW!SignalEvent, EvtW!Promise!Set
  <2> QED BY <2>1, <2>2 DEF EvtW!Promise!Next
<1>6. CASE EvtW!ResetEvent
  <2>1. EvtInv' /\ eventKernel'.signaled = FALSE
    BY <1>4, <1>6 DEF EvtW!ResetEvent
  <2>2. EvtW!Promise!Clear
    BY <1>6, <2>1 DEF EvtW!ResetEvent, EvtW!Promise!Clear
  <2> QED BY <2>1, <2>2 DEF EvtW!Promise!Next
<1>7. ASSUME NEW t \in Users, EvtW!Calls(t), EvtW!Through,
             UNCHANGED <<eventMade, eventMode, eventWaiting>>
      PROVE  EvtInv' /\ EvtW!Promise!Pass(t)
  <2>1. EvtInv'
    BY <1>7, EvtThrough DEF EvtInv, EvtWaiting
  <2> QED BY <1>7, <2>1, EvtThrough DEF EvtW!Calls, EvtW!Promise!Pass, EvtW!Promise!Through
<1>8. ASSUME NEW t \in Users, NEW how \in {"forever", "timed"}, EvtW!Calls(t), EvtW!Block(t, how)
      PROVE  EvtInv' /\ EvtW!Promise!Wait(t)
  <2>1. /\ eventWaiting' \in [Users -> Waits]
        /\ t \notin EvtWaiting /\ EvtWaiting' = EvtWaiting \cup {t}
        /\ EvtTimed' \in {EvtTimed, EvtTimed \cup {t}}
    BY <1>8, EvtBlocks DEF EvtW!Calls, EvtW!Block
  <2>2. EvtInv'
    BY <1>8, <2>1 DEF EvtW!Calls, EvtW!Block, EvtInv
  <2> QED BY <1>8, <2>1, <2>2
          DEF EvtW!Calls, EvtW!Block, EvtW!Promise!Wait, EvtWaiting, EvtTimed
<1>9. ASSUME NEW t \in Users, EvtW!WaitReturns(t)
      PROVE  EvtInv' /\ (EvtW!Promise!Return(t) \/ EvtW!Promise!GiveUp(t))
  <2>1. /\ eventWaiting' \in [Users -> Waits] /\ t \in EvtWaiting
        /\ EvtWaiting' = EvtWaiting \ {t} /\ EvtTimed' = EvtTimed \ {t}
    BY <1>9, EvtReturns DEF EvtW!WaitReturns
  <2>2. CASE EvtW!Through
    <3>1. EvtInv'
      BY <1>9, <2>1, <2>2, EvtThrough DEF EvtW!WaitReturns, EvtInv
    <3>2. EvtW!Promise!Return(t)
      BY <1>9, <2>1, <2>2, EvtThrough
      DEF EvtW!WaitReturns, EvtW!Promise!Return, EvtW!Promise!Through, EvtWaiting, EvtTimed
    <3> QED BY <3>1, <3>2
  <2>3. CASE eventWaiting[t] = "timed" /\ ~eventKernel.signaled /\ UNCHANGED eventKernel
    <3>1. EvtInv'
      BY <1>9, <2>1, <2>3 DEF EvtW!WaitReturns, EvtInv
    <3>2. EvtW!Promise!GiveUp(t)
      BY <1>9, <2>1, <2>3 DEF EvtW!WaitReturns, EvtW!Promise!GiveUp, EvtWaiting, EvtTimed
    <3> QED BY <3>1, <3>2
  <2> QED BY <1>9, <2>2, <2>3 DEF EvtW!WaitReturns
<1>10. ASSUME NEW t \in Users,
              EvtW!WaitEvent(t) \/ EvtW!TryWaitEvent(t) \/ EvtW!WaitEventFor(t)
       PROVE  EvtInv' /\ (EvtW!Promise!Pass(t) \/ EvtW!Promise!Wait(t))
  BY <1>7, <1>8, <1>10 DEF EvtW!WaitEvent, EvtW!TryWaitEvent, EvtW!WaitEventFor
<1> QED
  BY <1>1, <1>2, <1>3, <1>5, <1>6, <1>9, <1>10 DEF EvtW!Next, EvtW!Promise!Next

\* In every execution the Windows event is an event flag of the mode that was asked
\* for: an auto-reset event lets one thread through for each time it is set, and no
\* call waits or gives up while the flag is up.
THEOREM WindowsEventIsSafe == EvtW!Spec => EvtW!Promise!Safe
<1>1. EvtW!Init => EvtInv /\ EvtW!Promise!Init
  <2> SUFFICES ASSUME EvtW!Init PROVE EvtInv /\ EvtW!Promise!Init
    OBVIOUS
  <2>1. /\ eventKernel \in [manual : BOOLEAN, signaled : BOOLEAN]
        /\ eventKernel.manual = FALSE /\ eventKernel.signaled = FALSE
    BY DEF EvtW!Init, EvtW!NoHandle
  <2>2. eventMode = "Auto" /\ eventMode # "Manual"
    BY DEF EvtW!Init
  <2>3. eventKernel.manual = (eventMode = "Manual")
    BY <2>1, <2>2
  <2>4. EvtInv
    BY <2>1, <2>2, <2>3 DEF EvtW!Init, EvtInv, EvtWaiting, Waits
  <2>5. EvtW!Promise!Init
    BY <2>1 DEF EvtW!Init, EvtW!Promise!Init
  <2> QED BY <2>4, <2>5
<1>2. EvtInv /\ [EvtW!Next]_(EvtW!vars) => EvtInv' /\ [EvtW!Promise!Next]_(EvtW!Promise!vars)
  BY EvtStep
<1> QED BY <1>1, <1>2, PTL DEF EvtW!Spec, EvtW!Promise!Safe

\* What the platforms promise, of the components that share no state.
THEOREM PrimitivesAreKept == Mon!Spec /\ SemW!Spec /\ EvtW!Spec => PrimitivesKept
BY MonitorIsKept, WindowsSemaphoreIsSafe, WindowsEventIsSafe, PTL DEF PrimitivesKept

-----------------------------------------------------------------------------
(***************************************************************************)
(* The pool and linear allocators, for any numbers and strides of slots,   *)
(* any address space and block in it: what they hand out lies in the block *)
(* and is handed out once, as long as the pool is not spoilt and no        *)
(* request wraps an address.                                               *)
(***************************************************************************)

(***************************************************************************)
(* Slots.                                                                  *)
(***************************************************************************)

LEMMA ProductsApart ==
  ASSUME NEW i \in Nat, NEW j \in Nat, NEW k \in Nat \ {0}, i < j
  PROVE  i * k + k <= j * k
<1>1. PICK d \in Nat : j = i + 1 + d
  <2>1. j - i - 1 \in Nat /\ j = i + 1 + (j - i - 1)
    OBVIOUS
  <2> QED BY <2>1
<1>2. j * k = i * k + k + d * k /\ d * k >= 0
  BY <1>1
<1>3. i * k \in Nat
  OBVIOUS
<1> QED BY <1>2, <1>3

LEMMA SlotsApart ==
  ASSUME NEW k \in Nat \ {0}, NEW i \in Nat, NEW j \in Nat
  PROVE  /\ Pools!Slot(k, i) \in Nat /\ Pools!Slot(k, i + 1) = Pools!Slot(k, i) + k
         /\ Pools!Slot(k, i) = Pools!Slot(k, j) => i = j
<1>1. i * k \in Nat /\ j * k \in Nat /\ (i + 1) * k = i * k + k
  OBVIOUS
<1>2. i < j => i * k + k <= j * k
  BY ProductsApart
<1>3. j < i => j * k + k <= i * k
  BY ProductsApart
<1>4. i * k = j * k => i = j
  BY <1>1, <1>2, <1>3
<1> QED BY <1>1, <1>4 DEF Pools!Slot

LEMMA SlotsAre ==
  ASSUME Pools!SlotCount \in Nat, m_ObjectStride \in Nat, NEW s \in Pools!Slots
  PROVE  s \in Nat
<1>1. PICK i \in 0..(Pools!SlotCount - 1) : s = Pools!Slot(m_ObjectStride, i)
  BY DEF Pools!Slots
<1>2. PICK k \in Nat, n \in Nat : k = m_ObjectStride /\ n = i
  BY <1>1
<1>3. n * k \in Nat
  OBVIOUS
<1> QED BY <1>1, <1>2, <1>3 DEF Pools!Slot

\* A block of n slots has n slots.
LEMMA WholeQuotient ==
  ASSUME NEW n \in Nat, NEW k \in Nat \ {0}
  PROVE  (n * k) \div k = n
<1>1. PICK x \in Nat : x = n * k
  OBVIOUS
<1>2. PICK q \in Nat, r \in 0..(k - 1) : q = x \div k /\ x = k * q + r
  BY QuotientAndRemainder
<1>3. q * k \in Nat /\ x = q * k + r
  BY <1>2
<1>4. q < n => q * k + k <= n * k
  BY ProductsApart
<1>5. n < q => n * k + k <= q * k
  BY ProductsApart
<1> QED BY <1>1, <1>2, <1>3, <1>4, <1>5

\* What the checks of Free let through is the address of a slot.
LEMMA InPoolIsSlot ==
  ASSUME Pools!SlotCount \in Nat, m_ObjectStride \in Nat,
         m_Block = Pools!SlotCount * m_ObjectStride, NEW pointer, Pools!InPool(pointer)
  PROVE  pointer \in Pools!Slots
<1>1. PICK k \in Nat \ {0}, n \in Nat : k = m_ObjectStride /\ n = Pools!SlotCount
  <2>1. CASE m_ObjectStride = 0
    <3>1. m_Block = 0
      BY <2>1
    <3> QED BY <3>1 DEF Pools!InPool
  <2>2. CASE m_ObjectStride # 0
    BY <2>2
  <2> QED BY <2>1, <2>2
<1>2. n * k \in Nat
  OBVIOUS
<1>3. pointer \in Nat /\ pointer < n * k /\ pointer % k = 0
  BY <1>1, <1>2 DEF Pools!InPool
<1>4. PICK p \in Nat : p = pointer
  BY <1>3
<1>5. PICK i \in Nat : p = k * i
  <2>1. p = k * (p \div k) + (p % k) /\ p \div k \in Nat
    BY QuotientAndRemainder
  <2>2. p = k * (p \div k)
    BY <1>3, <1>4, <2>1
  <2> QED BY <2>1, <2>2
<1>6. p = i * k
  BY <1>5
<1>7. i < n
  <2> SUFFICES ASSUME n <= i PROVE FALSE
    OBVIOUS
  <2>1. n * k <= i * k
    <3>1. CASE n = i
      BY <1>2, <3>1
    <3>2. CASE n < i
      <4>1. n * k + k <= i * k
        BY <3>2, ProductsApart
      <4>2. i * k \in Nat
        OBVIOUS
      <4> QED BY <1>2, <4>1, <4>2
    <3> QED BY <3>1, <3>2
  <2> QED BY <1>2, <1>3, <1>4, <1>6, <2>1
<1> QED BY <1>1, <1>4, <1>6, <1>7 DEF Pools!Slots, Pools!Slot

(***************************************************************************)
(* The free list: a list of all free slots, each once, from its last to    *)
(* its head.                                                               *)
(***************************************************************************)

FreeOnes == Pools!Slots \ held

Listed(list, length) ==
  /\ FreeOnes = {list[i] : i \in 1..length}
  /\ \A i, j \in 1..length : list[i] = list[j] => i = j
  /\ \A i \in 1..length : next[list[i]] = IF i = 1 THEN Pools!Null ELSE list[i - 1]
  /\ m_FreeList = IF length = 0 THEN Pools!Null ELSE list[length]

SoundPool ==
  /\ Pools!SlotCount \in Nat /\ m_ObjectStride \in Nat
  /\ m_Block = Pools!SlotCount * m_ObjectStride
  /\ held \subseteq Pools!Slots /\ DOMAIN next = FreeOnes
  /\ IsFiniteSet(held) /\ m_UsedCount = Cardinality(held)
  /\ m_UsedCount \in 0..Pools!SlotCount
  /\ \E list : Listed(list, Pools!SlotCount - m_UsedCount)

\* Nothing is known of a pool that is spoilt, until it is started anew.
PoolInv == spoilt \in BOOLEAN /\ (~spoilt => SoundPool)

\* The slots the first n steps from the head reach.
Reached(list, length, n) ==
  {list[i] : i \in {i \in 1..length : i >= length - n}}
    \cup (IF n >= length THEN {Pools!Null} ELSE {})

LEMMA ReachedFirst ==
  ASSUME NEW list, NEW length \in Nat, Listed(list, length)
  PROVE  Reached(list, length, 0) = {m_FreeList}
<1>1. CASE length = 0
  BY <1>1 DEF Reached, Listed
<1>2. CASE length # 0
  <2>1. {i \in 1..length : i >= length - 0} = {length}
    BY <1>2
  <2>2. Reached(list, length, 0) = {list[length]}
    BY <1>2, <2>1 DEF Reached
  <2> QED BY <1>2, <2>2 DEF Listed
<1> QED BY <1>1, <1>2

LEMMA ReachedFurther ==
  ASSUME SoundPool, NEW list, NEW length \in Nat, Listed(list, length), NEW n \in Nat
  PROVE  Reached(list, length, n + 1) =
           Reached(list, length, n)
             \cup {next[s] : s \in Reached(list, length, n) \cap DOMAIN next}
<1> DEFINE R == Reached(list, length, n)
           S == Reached(list, length, n + 1)
           T == {next[s] : s \in R \cap DOMAIN next}
<1>1. Pools!Null \notin FreeOnes
  BY SlotsAre DEF FreeOnes, SoundPool, Pools!Null
<1>2. \A s : s \in R \cap DOMAIN next <=> \E i \in 1..length : i >= length - n /\ s = list[i]
  BY <1>1 DEF SoundPool, Reached, Listed
<1>3. ASSUME NEW x \in T PROVE x \in S
  <2>1. PICK i \in 1..length : i >= length - n /\ x = next[list[i]]
    BY <1>2
  <2>2. CASE i = 1
    BY <2>1, <2>2 DEF Listed, Reached
  <2>3. CASE i # 1
    <3>1. x = list[i - 1] /\ i - 1 \in 1..length /\ i - 1 >= length - (n + 1)
      BY <2>1, <2>3 DEF Listed
    <3> QED BY <3>1 DEF Reached
  <2> QED BY <2>2, <2>3
<1>4. R \subseteq S
  BY DEF Reached
<1>5. ASSUME NEW x \in S, x \notin R PROVE x \in T
  <2>1. CASE n + 1 >= length /\ x = Pools!Null
    <3>1. length = n + 1 /\ 1 \in 1..length
      BY <1>5, <2>1 DEF Reached
    <3>2. list[1] \in R \cap DOMAIN next
      BY <1>2, <3>1
    <3>3. next[list[1]] = x
      BY <2>1, <3>1 DEF Listed
    <3> QED BY <3>2, <3>3
  <2>2. ASSUME NEW i \in 1..length, i >= length - (n + 1), x = list[i] PROVE x \in T
    <3>1. i = length - (n + 1)
      BY <1>5, <2>2 DEF Reached
    <3>2. PICK j \in 1..length : j = i + 1
      BY <3>1
    <3>3. list[j] \in R \cap DOMAIN next
      BY <1>2, <3>1, <3>2
    <3>4. next[list[j]] = x
      <4>1. j # 1 /\ j - 1 = i
        BY <3>2
      <4> QED BY <2>2, <4>1 DEF Listed
    <3> QED BY <3>3, <3>4
  <2> QED BY <2>1, <2>2 DEF Reached
<1> QED BY <1>3, <1>4, <1>5

\* Following the list from its head, as the model does, finds all of it.
LEMMA FreeListIs ==
  ASSUME SoundPool
  PROVE  Pools!FreeList = FreeOnes \cup {Pools!Null}
<1>1. PICK length \in Nat : length = Pools!SlotCount - m_UsedCount /\ length <= Pools!SlotCount
  BY DEF SoundPool
<1>2. PICK list : Listed(list, length)
  BY <1>1 DEF SoundPool
<1>3. PICK c \in Nat : c = Pools!SlotCount
  BY DEF SoundPool
<1> DEFINE Grown(r, n) == IF n = 0 THEN {m_FreeList}
                         ELSE r[n - 1] \cup {next[s] : s \in r[n - 1] \cap DOMAIN next}
           known == [n \in 0..c |-> Reached(list, length, n)]
           found == CHOOSE r : r = [n \in 0..c |-> Grown(r, n)]
<1>4. known = [n \in 0..c |-> Grown(known, n)]
  <2>1. ASSUME NEW n \in 0..c PROVE known[n] = Grown(known, n)
    <3>1. CASE n = 0
      BY <1>2, <3>1, ReachedFirst
    <3>2. CASE n # 0
      <4>1. PICK k \in 0..c : n = k + 1 /\ n - 1 = k
        BY <3>2
      <4>2. Reached(list, length, n) =
              Reached(list, length, k) \cup {next[s] : s \in Reached(list, length, k) \cap DOMAIN next}
        BY <1>2, <4>1, ReachedFurther
      <4> QED BY <3>2, <4>1, <4>2
    <3> QED BY <3>1, <3>2
  <2> QED BY <2>1
<1>5. found = [n \in 0..c |-> Grown(found, n)]
  <2> HIDE DEF known, Grown
  <2> QED BY <1>4
<1>6. Pools!FreeList = found[c]
  BY <1>3 DEF Pools!FreeList
<1> HIDE DEF found
<1>7. found[c] = Reached(list, length, c)
  <2> DEFINE T == {n \in 0..c : found[n] # Reached(list, length, n)}
  <2> SUFFICES ASSUME T # {} PROVE FALSE
    OBVIOUS
  <2>1. T \in SUBSET Nat
    OBVIOUS
  <2>2. PICK n \in T : \A m \in T : n <= m
    <3> HIDE DEF T
    <3> QED BY <2>1, LeastNatural
  <2>3. CASE n = 0
    BY <1>2, <1>5, <2>3, ReachedFirst
  <2>4. CASE n # 0
    <3>1. PICK k \in 0..c : n = k + 1 /\ n - 1 = k /\ k \notin T
      BY <2>2, <2>4
    <3>2. found[k] = Reached(list, length, k)
      BY <3>1
    <3>3. Reached(list, length, n) =
            Reached(list, length, k) \cup {next[s] : s \in Reached(list, length, k) \cap DOMAIN next}
      BY <1>2, <3>1, ReachedFurther
    <3> QED BY <1>5, <2>4, <3>1, <3>2, <3>3
  <2> QED BY <2>3, <2>4
<1>8. Reached(list, length, c) = FreeOnes \cup {Pools!Null}
  <2>1. {i \in 1..length : i >= length - c} = 1..length /\ c >= length
    BY <1>1, <1>3
  <2> QED BY <1>2, <2>1 DEF Reached, Listed
<1> QED BY <1>6, <1>7, <1>8

(***************************************************************************)
(* The steps.                                                              *)
(***************************************************************************)

\* The block holds the slots that the loop links, unless its size has wrapped.
LEMMA InitializePoolStep ==
  ASSUME NEW count \in ObjectCounts, NEW stride \in ObjectStrides,
         Pools!Initialize(count, stride)
  PROVE  PoolInv'
<1>0. spoilt' = (stride * count >= AddressSpace)
  BY Zenon DEF Pools!Initialize
<1> SUFFICES ASSUME ~spoilt' PROVE SoundPool'
  BY <1>0 DEF PoolInv
<1>1. /\ stride \in Nat \ {0} /\ count \in Nat /\ count > 0 /\ m_UsedCount' = 0 /\ held' = {}
      /\ m_FreeList' = Pools!Slot(stride, 0) /\ m_ObjectStride' = stride
      /\ m_Block' = count * stride /\ Pools!SlotCount' = count
  <2>1. PICK a \in Nat : a = AddressSpace
    BY PoolAssumption
  <2>2. /\ stride \in Nat \ {0} /\ count \in Nat
        /\ stride * count \in Nat /\ stride * count = count * stride
    BY PoolAssumption
  <2>3. stride * count < a
    <3>1. PICK x \in Nat : x = stride * count
      BY <2>2
    <3>2. ~(x >= a)
      BY <1>0, <2>1, <3>1
    <3> QED BY <2>1, <3>1, <3>2
  <2>4. (stride * count) % a = stride * count
    BY <2>2, <2>3, SmallModulo
  <2>5. m_Block' = Pools!BlockSize(count, stride) /\ m_ObjectStride' = stride
    BY Zenon DEF Pools!Initialize
  <2>6. m_Block' = count * stride
    BY <2>1, <2>2, <2>4, <2>5 DEF Pools!BlockSize
  <2>7. Pools!SlotCount' = (count * stride) \div stride
    BY <2>2, <2>5, <2>6 DEF Pools!SlotCount
  <2>8. Pools!SlotCount' = count
    BY <2>2, <2>7, WholeQuotient
  <2>9. /\ count > 0 /\ m_UsedCount' = 0 /\ held' = {} /\ m_FreeList' = Pools!Slot(stride, 0)
    BY Zenon DEF Pools!Initialize
  <2> QED BY <2>2, <2>5, <2>6, <2>8, <2>9
<1>2. held' = {}
  BY <1>1
<1>3. Pools!Slots' = {Pools!Slot(stride, i) : i \in 0..(count - 1)} /\ FreeOnes' = Pools!Slots'
  BY <1>1, <1>2 DEF Pools!Slots, FreeOnes
<1>4. /\ DOMAIN next' = FreeOnes'
      /\ \A s \in FreeOnes' : next'[s] = IF s = Pools!Slot(stride, count - 1) THEN Pools!Null ELSE s + stride
  BY <1>1, <1>3 DEF Pools!Initialize
<1> DEFINE list == [i \in 1..count |-> Pools!Slot(stride, count - i)]
<1>5. \A i \in 1..count : count - i \in 0..(count - 1) /\ list[i] = Pools!Slot(stride, count - i)
  BY <1>1
<1>6. FreeOnes' = {list[i] : i \in 1..count}
  <2>1. ASSUME NEW i \in 0..(count - 1) PROVE \E j \in 1..count : Pools!Slot(stride, i) = list[j]
    <3>1. PICK j \in 1..count : j = count - i /\ count - j = i
      BY <1>1
    <3> QED BY <1>5, <3>1
  <2> HIDE DEF list
  <2> QED BY <1>3, <1>5, <2>1
<1>7. ASSUME NEW i \in 1..count, NEW j \in 1..count, list[i] = list[j] PROVE i = j
  <2>1. PICK a \in Nat, b \in Nat : a = count - i /\ b = count - j
    BY <1>1
  <2>2. Pools!Slot(stride, a) = Pools!Slot(stride, b)
    BY <1>7, <2>1
  <2>3. a = b
    BY <1>1, <2>2, SlotsApart
  <2> QED BY <1>1, <2>1, <2>3
<1>8. ASSUME NEW i \in 1..count
      PROVE  next'[list[i]] = IF i = 1 THEN Pools!Null ELSE list[i - 1]
  <2>1. PICK a \in Nat, last \in Nat : a = count - i /\ last = count - 1 /\ a <= last
    BY <1>1
  <2>2. list[i] = Pools!Slot(stride, a) /\ list[i] \in FreeOnes'
    BY <1>6, <2>1
  <2>3. CASE i = 1
    BY <1>4, <2>1, <2>2, <2>3
  <2>4. CASE i # 1
    <3>1. a # last /\ list[i - 1] = Pools!Slot(stride, a + 1)
      <4>1. i - 1 \in 1..count /\ count - (i - 1) = a + 1
        BY <1>1, <2>1, <2>4
      <4> QED BY <1>1, <2>1, <2>4, <4>1
    <3>2. /\ Pools!Slot(stride, a) # Pools!Slot(stride, last)
          /\ Pools!Slot(stride, a + 1) = Pools!Slot(stride, a) + stride
      <4>1. stride \in Nat \ {0} /\ a # last
        BY <1>1, <3>1
      <4> HIDE DEF list
      <4> QED BY <2>1, <4>1, SlotsApart
    <3> HIDE DEF list
    <3> QED BY <1>4, <2>1, <2>2, <2>4, <3>1, <3>2
  <2> QED BY <2>3, <2>4
<1>9. m_FreeList' = list[count] /\ count # 0
  <2>1. count \in 1..count /\ count - count = 0
    BY <1>1
  <2> QED BY <1>1, <1>5, <2>1
<1>10. Listed(list, count)'
  <2> HIDE DEF list
  <2> QED BY <1>6, <1>7, <1>8, <1>9 DEF Listed
<1>11. Pools!SlotCount' - m_UsedCount' = count
  BY <1>1
<1> QED BY <1>1, <1>2, <1>4, <1>10, <1>11, FS_EmptySet DEF SoundPool

\* A pool without a block, of whatever stride.
EmptyPool(stride) ==
  /\ m_Block = 0 /\ held = {} /\ m_UsedCount = 0 /\ m_FreeList = Pools!Null
  /\ DOMAIN next = {} /\ m_ObjectStride = stride

LEMMA NoSlots ==
  ASSUME NEW k \in Nat \ {0}
  PROVE  0 \div k = 0 /\ 0 * k = 0
<1>1. 0 * k = 0
  OBVIOUS
<1> QED BY <1>1, WholeQuotient

LEMMA NoBlock ==
  ASSUME NEW stride \in Nat
  PROVE  /\ EmptyPool(stride) => SoundPool
         /\ EmptyPool(stride)' => SoundPool'
<1>1. stride # 0 => 0 \div stride = 0 /\ 0 * stride = 0
  BY NoSlots
<1>2. ASSUME EmptyPool(stride) PROVE SoundPool
  <2>1. Pools!SlotCount = 0 /\ m_Block = Pools!SlotCount * m_ObjectStride
    BY <1>1, <1>2 DEF EmptyPool, Pools!SlotCount
  <2>2. Pools!Slots = {} /\ FreeOnes = {} /\ Pools!SlotCount - m_UsedCount = 0
    BY <1>2, <2>1 DEF EmptyPool, Pools!Slots, FreeOnes
  <2>3. Listed(<<>>, 0)
    BY <1>2, <2>2 DEF EmptyPool, Listed
  <2> QED BY <1>2, <2>1, <2>2, <2>3, FS_EmptySet DEF EmptyPool, SoundPool
<1>3. ASSUME EmptyPool(stride)' PROVE SoundPool'
  <2>1. Pools!SlotCount' = 0 /\ m_Block' = Pools!SlotCount' * m_ObjectStride'
    BY <1>1, <1>3 DEF EmptyPool, Pools!SlotCount
  <2>2. Pools!Slots' = {} /\ FreeOnes' = {} /\ Pools!SlotCount' - m_UsedCount' = 0
    BY <1>3, <2>1 DEF EmptyPool, Pools!Slots, FreeOnes
  <2>3. Listed(<<>>, 0)'
    BY <1>3, <2>2 DEF EmptyPool, Listed
  <2> QED BY <1>3, <2>1, <2>2, <2>3, FS_EmptySet DEF EmptyPool, SoundPool
<1> QED BY <1>2, <1>3

LEMMA EmptyIs ==
  ASSUME SoundPool, m_Block = 0
  PROVE  EmptyPool(m_ObjectStride)
<1>1. PICK k \in Nat, n \in Nat : k = m_ObjectStride /\ n = Pools!SlotCount
  BY DEF SoundPool
<1>2. n = 0
  <2>1. k # 0 => n = 0
    BY <1>1, NoSlots DEF Pools!SlotCount
  <2> QED BY <1>1, <2>1 DEF Pools!SlotCount
<1>3. Pools!Slots = {}
  BY <1>1, <1>2 DEF Pools!Slots
<1>4. held = {} /\ FreeOnes = {} /\ DOMAIN next = {}
  BY <1>3 DEF SoundPool, FreeOnes
<1>5. m_UsedCount = 0
  BY <1>1, <1>2 DEF SoundPool
<1>6. PICK list : Listed(list, 0)
  <2>1. Pools!SlotCount - m_UsedCount = 0
    BY <1>1, <1>2, <1>5
  <2> QED BY <2>1 DEF SoundPool
<1>7. m_FreeList = Pools!Null
  BY <1>6 DEF Listed
<1> QED BY <1>4, <1>5, <1>7 DEF EmptyPool

PoolUnchanged ==
  UNCHANGED <<m_ObjectStride, m_Block, m_UsedCount, m_FreeList, next, held>>

LEMMA PoolStays ==
  ASSUME SoundPool, PoolUnchanged
  PROVE  SoundPool'
<1>1. Pools!SlotCount' = Pools!SlotCount /\ Pools!Slots' = Pools!Slots /\ FreeOnes' = FreeOnes
  BY DEF PoolUnchanged, Pools!SlotCount, Pools!Slots, FreeOnes
<1>2. ASSUME NEW list, NEW length, Listed(list, length) PROVE Listed(list, length)'
  BY <1>1, <1>2 DEF PoolUnchanged, Listed
<1> QED BY <1>1, <1>2 DEF PoolUnchanged, SoundPool

\* The block and its list stay what they were, and so do the slots when the stride does.
LEMMA InitializeFailsPoolStep ==
  ASSUME PoolInv, NEW count \in ObjectCounts, NEW stride \in ObjectStrides,
         Pools!InitializeFails(count, stride)
  PROVE  PoolInv'
<1>1. /\ spoilt' = (spoilt \/ (m_Block # 0 /\ stride # m_ObjectStride))
      /\ UNCHANGED <<m_Block, m_UsedCount, m_FreeList, next, held>> /\ m_ObjectStride' = stride
  BY Zenon DEF Pools!InitializeFails
<1> SUFFICES ASSUME ~spoilt' PROVE SoundPool'
  BY <1>1 DEF PoolInv
<1>2. SoundPool /\ (m_Block = 0 \/ stride = m_ObjectStride)
  BY <1>1 DEF PoolInv
<1>3. CASE m_Block = 0
  <2>1. EmptyPool(m_ObjectStride)
    BY <1>2, <1>3, EmptyIs
  <2>2. EmptyPool(stride)'
    BY <1>1, <2>1 DEF EmptyPool
  <2> QED BY <2>2, NoBlock, PoolAssumption
<1>4. CASE stride = m_ObjectStride
  <2>1. PoolUnchanged
    BY <1>1, <1>4 DEF PoolUnchanged
  <2> QED BY <1>2, <2>1, PoolStays
<1> QED BY <1>2, <1>3, <1>4

LEMMA ShutdownPoolStep ==
  ASSUME Pools!Shutdown
  PROVE  PoolInv'
<1>1. EmptyPool(0)' /\ spoilt' = FALSE
  BY DEF Pools!Shutdown, EmptyPool
<1>2. SoundPool'
  BY <1>1, NoBlock
<1> QED BY <1>1, <1>2 DEF PoolInv

\* What is handed out is the head of the list, which nobody holds.
LEMMA AllocatePoolStep ==
  ASSUME SoundPool, Pools!Allocate
  PROVE  SoundPool'
<1>1. PICK c \in Nat, u \in Nat, length \in Nat :
        c = Pools!SlotCount /\ u = m_UsedCount /\ u <= c /\ length = c - u
  <2>1. Pools!SlotCount \in Nat /\ m_UsedCount \in 0..Pools!SlotCount
    BY DEF SoundPool
  <2>2. Pools!SlotCount - m_UsedCount \in Nat
    BY <2>1
  <2> QED BY <2>1, <2>2
<1>2. PICK list : Listed(list, length)
  BY <1>1 DEF SoundPool
<1>3. length # 0 /\ m_FreeList = list[length]
  BY <1>2 DEF Listed, Pools!Allocate
<1>4. PICK head : head = m_FreeList /\ head \in FreeOnes /\ head = list[length]
  BY <1>2, <1>3 DEF Listed
<1>5. /\ held' = held \cup {head} /\ m_UsedCount' = u + 1 /\ Pools!SlotCount' = c
      /\ next' = [s \in DOMAIN next \ {head} |-> next[s]] /\ m_FreeList' = next[head]
      /\ m_Block' = m_Block /\ m_ObjectStride' = m_ObjectStride
  <2>1. head \in DOMAIN next
    BY <1>4 DEF SoundPool
  <2>2. m_FreeList' \in {next[head]}
    BY <1>4, <2>1 DEF Pools!Allocate
  <2> QED BY <1>1, <1>4, <2>2 DEF Pools!Allocate, Pools!SlotCount
<1>6. Pools!Slots' = Pools!Slots /\ FreeOnes' = FreeOnes \ {head}
  BY <1>1, <1>5 DEF Pools!Slots, FreeOnes
<1>7. DOMAIN next' = FreeOnes' /\ \A s \in FreeOnes' : next'[s] = next[s]
  BY <1>5, <1>6 DEF SoundPool
<1>8. IsFiniteSet(held') /\ Cardinality(held') = u + 1
  <2>1. head \notin held
    BY <1>4 DEF FreeOnes
  <2> QED BY <1>1, <1>5, <2>1, FS_AddElement DEF SoundPool
<1>9. PICK rest \in Nat : length = rest + 1 /\ rest = c - (u + 1)
  BY <1>1, <1>3
<1>10. FreeOnes' = {list[i] : i \in 1..rest}
  <2>1. \A i \in 1..length : i \in 1..rest <=> i # length
    BY <1>9
  <2>2. \A i \in 1..length : list[i] # head <=> i # length
    BY <1>2, <1>3, <1>4, <1>9 DEF Listed
  <2>3. \A i \in 1..rest : i \in 1..length
    BY <1>9
  <2> QED BY <1>2, <1>6, <2>1, <2>2, <2>3 DEF Listed
<1>11. Listed(list, rest)'
  <2>1. \A i \in 1..rest : i \in 1..length /\ list[i] \in FreeOnes'
    BY <1>9, <1>10
  <2>2. \A i, j \in 1..rest : list[i] = list[j] => i = j
    BY <1>2, <2>1 DEF Listed
  <2>3. \A i \in 1..rest : next'[list[i]] = IF i = 1 THEN Pools!Null ELSE list[i - 1]
    BY <1>2, <1>7, <2>1 DEF Listed
  <2>4. m_FreeList' = IF rest = 0 THEN Pools!Null ELSE list[rest]
    <3>1. length \in 1..length /\ (length = 1 <=> rest = 0) /\ length - 1 = rest
      BY <1>9
    <3>2. next[list[length]] = IF length = 1 THEN Pools!Null ELSE list[length - 1]
      BY <1>2, <3>1 DEF Listed
    <3> QED BY <1>4, <1>5, <3>1, <3>2
  <2> QED BY <1>10, <2>2, <2>3, <2>4 DEF Listed
<1>12. held' \subseteq Pools!Slots'
  BY <1>4, <1>5, <1>6 DEF SoundPool, FreeOnes
<1>13. Pools!SlotCount' - m_UsedCount' = rest /\ m_UsedCount' \in 0..Pools!SlotCount' /\ Pools!SlotCount' \in Nat
  BY <1>1, <1>5, <1>9
<1>14. m_Block' = Pools!SlotCount' * m_ObjectStride' /\ m_ObjectStride' \in Nat
  BY <1>1, <1>5 DEF SoundPool
<1> QED BY <1>5, <1>7, <1>8, <1>11, <1>12, <1>13, <1>14 DEF SoundPool

\* What is freed by its holder is not on the list; it becomes its head.
LEMMA FreePoolStep ==
  ASSUME SoundPool, NEW pointer, Pools!Free(pointer), ~spoilt'
  PROVE  SoundPool'
<1>1. PICK c \in Nat, u \in Nat, length \in Nat :
        c = Pools!SlotCount /\ u = m_UsedCount /\ u <= c /\ length = c - u
  <2>1. Pools!SlotCount \in Nat /\ m_UsedCount \in 0..Pools!SlotCount
    BY DEF SoundPool
  <2>2. Pools!SlotCount - m_UsedCount \in Nat
    BY <2>1
  <2> QED BY <2>1, <2>2
<1>2. PICK list : Listed(list, length)
  BY <1>1 DEF SoundPool
<1>3. pointer \in held /\ pointer \in Pools!Slots
  <2>1. pointer \in Pools!Slots
    BY InPoolIsSlot DEF SoundPool, Pools!Free
  <2> QED BY <2>1 DEF Pools!Free
<1>4. /\ held' = held \ {pointer} /\ m_UsedCount' = u - 1 /\ Pools!SlotCount' = c
      /\ m_FreeList' = pointer
      /\ next' = [s \in DOMAIN next \cup {pointer} |-> IF s = pointer THEN m_FreeList ELSE next[s]]
      /\ m_Block' = m_Block /\ m_ObjectStride' = m_ObjectStride
  BY <1>1 DEF Pools!Free, Pools!SlotCount
<1>5. /\ Pools!Slots' = Pools!Slots /\ FreeOnes' = FreeOnes \cup {pointer}
      /\ pointer \notin FreeOnes
  BY <1>1, <1>3, <1>4 DEF Pools!Slots, FreeOnes
<1>6. DOMAIN next' = FreeOnes' /\ next'[pointer] = m_FreeList /\ \A s \in FreeOnes : next'[s] = next[s]
  BY <1>4, <1>5 DEF SoundPool
<1>7. IsFiniteSet(held') /\ Cardinality(held') = u - 1 /\ u > 0
  <2>1. IsFiniteSet(held') /\ Cardinality(held') = u - 1
    BY <1>1, <1>3, <1>4, FS_RemoveElement DEF SoundPool
  <2>2. Cardinality(held') \in Nat
    BY <2>1, FS_CardinalityType
  <2> QED BY <1>1, <2>1, <2>2
<1>8. PICK longer \in Nat : longer = length + 1 /\ longer = c - (u - 1)
  BY <1>1
<1>9. PICK longerList : longerList = [i \in 1..longer |-> IF i = longer THEN pointer ELSE list[i]]
  OBVIOUS
<1>10. /\ longer \in 1..longer /\ longerList[longer] = pointer
       /\ \A i \in 1..length : i \in 1..longer /\ i # longer /\ longerList[i] = list[i]
                                 /\ list[i] \in FreeOnes
       /\ \A i \in 1..longer : i = longer \/ i \in 1..length
  BY <1>2, <1>8, <1>9 DEF Listed
<1>11. Listed(longerList, longer)'
  <2>1. FreeOnes' = {longerList[i] : i \in 1..longer}
    BY <1>2, <1>5, <1>10 DEF Listed
  <2>2. \A i, j \in 1..longer : longerList[i] = longerList[j] => i = j
    BY <1>2, <1>5, <1>10 DEF Listed
  <2>3. ASSUME NEW i \in 1..longer
        PROVE  next'[longerList[i]] = IF i = 1 THEN Pools!Null ELSE longerList[i - 1]
    <3>1. CASE i = longer
      <4>1. (length = 0 <=> i = 1) /\ i - 1 = length /\ (length # 0 => length \in 1..length)
        BY <1>8, <3>1
      <4>2. next'[longerList[i]] = m_FreeList
        BY <1>6, <1>10, <3>1
      <4> QED BY <1>2, <1>10, <4>1, <4>2 DEF Listed
    <3>2. CASE i \in 1..length
      <4>1. next'[longerList[i]] = next[list[i]]
        BY <1>6, <1>10, <3>2
      <4>2. i # 1 => i - 1 \in 1..length
        BY <3>2
      <4> QED BY <1>2, <1>10, <3>2, <4>1, <4>2 DEF Listed
    <3> QED BY <1>10, <3>1, <3>2
  <2>4. m_FreeList' = longerList[longer] /\ longer # 0
    BY <1>4, <1>8, <1>10
  <2> QED BY <2>1, <2>2, <2>3, <2>4 DEF Listed
<1>12. held' \subseteq Pools!Slots'
  BY <1>4, <1>5 DEF SoundPool
<1>13. Pools!SlotCount' - m_UsedCount' = longer /\ m_UsedCount' \in 0..Pools!SlotCount' /\ Pools!SlotCount' \in Nat
  BY <1>1, <1>4, <1>7, <1>8
<1>14. m_Block' = Pools!SlotCount' * m_ObjectStride' /\ m_ObjectStride' \in Nat
  BY <1>1, <1>4 DEF SoundPool
<1> QED BY <1>4, <1>6, <1>7, <1>11, <1>12, <1>13, <1>14 DEF SoundPool

(***************************************************************************)
(* The linear allocator.                                                   *)
(***************************************************************************)

\* Unless an address has wrapped, what was handed out ends before the cursor.
LinearInv ==
  ~wrapped =>
    /\ Current \in LinearStart..(LinearStart + LinearSize)
    /\ \A a \in cut : a.first \in Int /\ a.first >= LinearStart /\ a.last \in Int /\ a.last < Current
    /\ \A a, b \in cut : a # b => a.last < b.first \/ b.last < a.first

LEMMA AlignsForward ==
  ASSUME NEW address \in Nat, NEW alignment \in Nat \ {0}, address + alignment <= AddressSpace
  PROVE  Pools!AlignForward(address, alignment) \in Nat
         /\ Pools!AlignForward(address, alignment) >= address
<1>1. PICK x \in Nat, m \in Nat : x = address + alignment - 1 /\ m = AddressSpace /\ x < m
  BY PoolAssumption
<1>2. x % m = x
  BY <1>1, SmallModulo
<1>3. PICK q \in Nat, r \in 0..(alignment - 1) : q = x \div alignment /\ x = alignment * q + r
  BY QuotientAndRemainder
<1>4. q * alignment \in Nat /\ alignment * q = q * alignment
  OBVIOUS
<1>5. q * alignment >= address
  BY <1>1, <1>3, <1>4
<1>6. Pools!AlignForward(address, alignment) = q * alignment
  BY <1>1, <1>2, <1>3 DEF Pools!AlignForward
<1> QED BY <1>4, <1>5, <1>6

LEMMA LinearStep ==
  ASSUME LinearInv, NEW size \in Sizes, NEW alignment \in Alignments,
         Pools!LinearAllocate(size, alignment)
  PROVE  LinearInv'
<1> SUFFICES ASSUME ~wrapped'
             PROVE  LinearInv'
  BY DEF LinearInv
<1>1. PICK start \in Nat, room \in Nat, space \in Nat :
        start = LinearStart /\ room = LinearSize /\ space = AddressSpace
  BY PoolAssumption
<1>2. /\ ~wrapped /\ ~(Current + alignment > AddressSpace)
      /\ ~(Pools!AlignForward(Current, alignment) + size >= AddressSpace)
  BY DEF Pools!LinearAllocate
<1>3. size \in Nat /\ alignment \in Nat \ {0} /\ Current \in Nat /\ Current >= start
  BY <1>1, <1>2, PoolAssumption DEF LinearInv
<1>4. Current + alignment <= AddressSpace
  BY <1>1, <1>2, <1>3
<1>5. PICK aligned \in Nat :
        aligned = Pools!AlignForward(Current, alignment) /\ aligned >= Current
  BY <1>3, <1>4, AlignsForward
<1>6. (aligned + size) % space = aligned + size
  BY <1>1, <1>2, <1>3, <1>5, SmallModulo
<1>7. /\ aligned + size <= start + room /\ Current' = aligned + size
      /\ cut' = cut \cup {[first |-> aligned, last |-> aligned + size - 1]}
  BY <1>1, <1>5, <1>6 DEF Pools!LinearAllocate
<1>8. PICK new : /\ new = [first |-> aligned, last |-> aligned + size - 1]
                 /\ new.first = aligned /\ new.last = aligned + size - 1
  <2>1. [first |-> aligned, last |-> aligned + size - 1].last = aligned + size - 1
    BY Zenon
  <2> QED BY <2>1, Zenon
<1>9. /\ Current' \in start..(start + room) /\ Current' >= aligned
      /\ new.first \in Int /\ new.first >= start /\ new.last < Current' /\ new.last \in Int
  BY <1>3, <1>5, <1>7, <1>8
<1>10. \A a \in cut : /\ a.first \in Int /\ a.first >= start
                     /\ a.last \in Int /\ a.last < Current' /\ a.last < new.first
  BY <1>1, <1>2, <1>3, <1>5, <1>8, <1>9 DEF LinearInv
<1>11. cut' = cut \cup {new}
  BY <1>7, <1>8
<1>12. \A a, b \in cut : a # b => a.last < b.first \/ b.last < a.first
  BY <1>2 DEF LinearInv
<1> QED BY <1>1, <1>9, <1>10, <1>11, <1>12 DEF LinearInv

-----------------------------------------------------------------------------

LEMMA PoolsInvStep ==
  ASSUME PoolInv, LinearInv, [Pools!Next]_(Pools!vars)
  PROVE  PoolInv' /\ LinearInv'
<1>1. ASSUME UNCHANGED Pools!pool PROVE PoolInv'
  <2>1. UNCHANGED <<m_ObjectStride, m_Block, m_UsedCount, m_FreeList, next, held, spoilt>>
    BY <1>1 DEF Pools!pool
  <2>2. PoolUnchanged
    BY <2>1 DEF PoolUnchanged
  <2> QED BY <2>1, <2>2, PoolStays DEF PoolInv
<1>2. ASSUME UNCHANGED Pools!linear PROVE LinearInv'
  BY <1>2 DEF Pools!linear, LinearInv
<1>3. CASE UNCHANGED Pools!vars
  BY <1>1, <1>2, <1>3 DEF Pools!vars
<1>4. ASSUME NEW count \in ObjectCounts, NEW stride \in ObjectStrides,
             Pools!Initialize(count, stride)
      PROVE  PoolInv' /\ LinearInv'
  BY <1>2, <1>4, InitializePoolStep DEF Pools!Initialize
<1>5. ASSUME NEW count \in ObjectCounts, NEW stride \in ObjectStrides,
             Pools!InitializeFails(count, stride)
      PROVE  PoolInv' /\ LinearInv'
  BY <1>2, <1>5, InitializeFailsPoolStep DEF Pools!InitializeFails, Pools!linear
<1>6. CASE Pools!Shutdown
  BY <1>2, <1>6, ShutdownPoolStep DEF Pools!Shutdown
<1>7. CASE Pools!Allocate
  <2>1. spoilt' = spoilt /\ UNCHANGED Pools!linear
    BY <1>7 DEF Pools!Allocate
  <2>2. ~spoilt => SoundPool'
    BY <1>7, AllocatePoolStep DEF PoolInv
  <2> QED BY <1>2, <2>1, <2>2 DEF PoolInv
<1>8. ASSUME NEW pointer, Pools!Free(pointer) PROVE PoolInv' /\ LinearInv'
  <2>1. /\ spoilt' = (spoilt \/ pointer \in Pools!Slots \ held) /\ spoilt' \in BOOLEAN
        /\ UNCHANGED Pools!linear
    BY <1>8 DEF Pools!Free
  <2>2. ~spoilt' => SoundPool'
    BY <1>8, <2>1, FreePoolStep DEF PoolInv
  <2> QED BY <1>2, <2>1, <2>2 DEF PoolInv
<1>9. ASSUME NEW size \in Sizes, NEW alignment \in Alignments,
             Pools!LinearAllocate(size, alignment)
      PROVE  PoolInv' /\ LinearInv'
  BY <1>1, <1>9, LinearStep DEF Pools!LinearAllocate
<1>10. CASE Pools!ResetLinearAllocator
  <2>1. LinearInv'
    BY <1>10, PoolAssumption DEF Pools!ResetLinearAllocator, LinearInv
  <2> QED BY <1>1, <1>10, <2>1 DEF Pools!ResetLinearAllocator
<1> QED BY <1>3, <1>4, <1>5, <1>6, <1>7, <1>8, <1>9, <1>10
        DEF Pools!Next, Pools!PoolNext, Pools!LinearNext

LEMMA PoolsCardinality ==
  ASSUME NEW S
  PROVE  Pools!Cardinality(S) = Cardinality(S)
BY Zenon DEF Pools!Cardinality, Cardinality

\* Every slot of a pool is held by one caller or on the free list, which ends: over
\* any pointers that are freed, and any Initialize that fails or comes over a pool in
\* use, as long as no slot is freed that is free already, the size of the block has
\* not wrapped and no failing Initialize has changed its stride.  What the linear
\* allocator hands out lies in its block and never overlaps, as long as no request
\* has wrapped an address.
THEOREM BlocksAreDisjoint == Pools!Spec => []BlocksDisjoint
<1>1. Pools!Init => PoolInv /\ LinearInv
  <2> SUFFICES ASSUME Pools!Init PROVE PoolInv /\ LinearInv
    OBVIOUS
  <2>1. EmptyPool(0) /\ spoilt = FALSE /\ Current = LinearStart /\ cut = {}
    BY DEF Pools!Init, EmptyPool
  <2>2. PoolInv
    BY <2>1, NoBlock DEF PoolInv
  <2> QED BY <2>1, <2>2, PoolAssumption DEF LinearInv
<1>2. PoolInv /\ LinearInv /\ [Pools!Next]_(Pools!vars) => PoolInv' /\ LinearInv'
  BY PoolsInvStep
<1>3. PoolInv /\ LinearInv => BlocksDisjoint
  <2> SUFFICES ASSUME PoolInv, LinearInv PROVE BlocksDisjoint
    OBVIOUS
  <2>1. ASSUME ~spoilt
        PROVE  /\ held \cap Pools!FreeList = {}
               /\ held \cup Pools!FreeList = Pools!Slots \cup {Pools!Null}
               /\ m_UsedCount = Pools!Cardinality(held)
    <3>1. SoundPool
      BY <2>1 DEF PoolInv
    <3>2. Pools!FreeList = FreeOnes \cup {Pools!Null} /\ Pools!Null \notin Pools!Slots
      BY <3>1, FreeListIs, SlotsAre DEF SoundPool, Pools!Null
    <3> QED BY <3>1, <3>2, PoolsCardinality DEF FreeOnes, SoundPool
  <2>2. ASSUME ~wrapped
        PROVE  /\ \A a, b \in cut : a # b => a.last < b.first \/ b.last < a.first
               /\ \A a \in cut : a.first >= LinearStart /\ a.last < LinearStart + LinearSize
    BY <2>2, PoolAssumption DEF LinearInv
  <2> QED BY <2>1, <2>2 DEF BlocksDisjoint, Pools!BlocksDisjoint
<1> QED BY <1>1, <1>2, <1>3, PTL DEF Pools!Spec

-----------------------------------------------------------------------------
(***************************************************************************)
(* The runner of test processes on Windows, for any number of calls at     *)
(* once: what a run that ended reports is what the process did, and        *)
(* nothing it wrote is missing.                                            *)
(***************************************************************************)

Statuses == {"Exited", "TimedOut", "LaunchFailed", "RunnerError"}
Good == {"Exited", "TimedOut"}
Alive == {"suspended", "running"}

WinTypes ==
  /\ step \in [Launches -> Win!Steps]
  /\ job \in [Launches -> {"none", "empty", "assigned", "closed"}]
  /\ process \in [Launches -> {"none", "suspended", "running", "ended"}]
  /\ exitCode \in [Launches -> Int]
  /\ follower \in [Launches -> {"none", "running", "ended"}]
  /\ writers \in [Launches -> SUBSET ({"runner", "process", "follower"} \X Launches)]
  /\ written \in [Launches -> Nat] /\ captured \in [Launches -> Nat]
  /\ pipeClosed \in [Launches -> BOOLEAN]
  /\ result \in [Launches -> [status : Statuses, exitCode : Int]]

\* Who holds the pipe of a launch: its runner, and processes that are there.
HoldersAre(l) ==
  \A m \in Launches :
    /\ <<"runner", m>> \in writers[l] => m = l
    /\ <<"process", m>> \in writers[l] => process[m] \in Alive
    /\ <<"follower", m>> \in writers[l] => follower[m] = "running"

\* The process and its descendant hold the pipe while they are there, the runner
\* from the creation of the pipe to the assignment of the job.
HoldersHold(l) ==
  /\ step[l] \in {"job", "create"} => <<"runner", l>> \in writers[l]
  /\ step[l] \in {"resume", "drain", "wait", "cleanup"} => <<"runner", l>> \notin writers[l]
  /\ process[l] \in Alive => <<"process", l>> \in writers[l]
  /\ follower[l] = "running" => <<"follower", l>> \in writers[l]

Launched(l) ==
  /\ step[l] \in {"idle", "pipe", "job", "create"} => process[l] = "none"
  /\ step[l] \in {"assign", "resume", "drain", "wait", "kill", "await", "cleanup"}
       => process[l] # "none"
  /\ process[l] = "none" => follower[l] = "none"

\* A pipe without a writer stays so, and nothing more comes through it.
ClosedIsRead(l) ==
  pipeClosed[l] => process[l] = "ended" /\ follower[l] # "running" /\ captured[l] = written[l]

ResultIs(l) ==
  /\ result[l].status = "Exited" => process[l] = "ended" /\ result[l].exitCode = exitCode[l]
  /\ step[l] = "returned" /\ result[l].status \in Good => pipeClosed[l] /\ job[l] = "closed"

LaunchInv(l) ==
  HoldersAre(l) /\ HoldersHold(l) /\ Launched(l) /\ ClosedIsRead(l) /\ ResultIs(l)

WinInv == WinTypes /\ \A l \in Launches : LaunchInv(l)

\* Nothing that the invariant speaks of changes.
LEMMA WinStutters ==
  ASSUME WinInv,
         UNCHANGED <<step, job, process, exitCode, follower, writers, written, captured,
                     pipeClosed, result>>
  PROVE  WinInv'
BY DEF WinInv, WinTypes, LaunchInv, HoldersAre, HoldersHold, Launched, ClosedIsRead, ResultIs

\* A step of RunProcess that changes neither pipe nor processes.
LEMMA StepOnly ==
  ASSUME WinInv, NEW l \in Launches, NEW to \in Win!Steps,
         step' = [step EXCEPT ![l] = to],
         UNCHANGED <<process, exitCode, follower, writers, written, captured, pipeClosed>>,
         result' \in [Launches -> [status : Statuses, exitCode : Int]],
         job' \in [Launches -> {"none", "empty", "assigned", "closed"}],
         \A m \in Launches : m # l => result'[m] = result[m] /\ job'[m] = job[m],
         to \in {"job", "create"} => step[l] \in {"job", "create"},
         to \in {"resume", "drain", "wait", "cleanup"} => <<"runner", l>> \notin writers[l],
         to \in {"idle", "pipe", "job", "create"} => process[l] = "none",
         to \in {"assign", "resume", "drain", "wait", "kill", "await", "cleanup"} => process[l] # "none",
         result'[l].status = "Exited" => process[l] = "ended" /\ result'[l].exitCode = exitCode[l],
         to = "returned" /\ result'[l].status \in Good => pipeClosed[l] /\ job'[l] = "closed"
  PROVE  WinInv'
<1>1. WinTypes'
  BY DEF WinInv, WinTypes
<1>2. step'[l] = to /\ \A m \in Launches : m # l => step'[m] = step[m]
  BY DEF WinInv, WinTypes
<1>3. ASSUME NEW m \in Launches PROVE LaunchInv(m)'
  <2>1. LaunchInv(m)
    BY DEF WinInv
  <2>2. HoldersAre(m)'
    BY <2>1 DEF LaunchInv, HoldersAre
  <2>3. HoldersHold(m)'
    BY <1>2, <2>1 DEF LaunchInv, HoldersHold
  <2>4. Launched(m)' /\ ClosedIsRead(m)'
    BY <1>2, <2>1 DEF LaunchInv, Launched, ClosedIsRead
  <2>5. ResultIs(m)'
    BY <1>2, <2>1 DEF LaunchInv, ResultIs
  <2> QED BY <2>2, <2>3, <2>4, <2>5 DEF LaunchInv
<1> QED BY <1>1, <1>3 DEF WinInv

\* A step of launch l leaves what belongs to the others as it is, but for what l's
\* processes hold of their pipes.
OnlyOf(l) ==
  /\ \A m \in Launches \ {l} :
       /\ step'[m] = step[m] /\ job'[m] = job[m] /\ process'[m] = process[m]
       /\ exitCode'[m] = exitCode[m] /\ follower'[m] = follower[m]
       /\ written'[m] = written[m] /\ captured'[m] = captured[m]
       /\ pipeClosed'[m] = pipeClosed[m] /\ result'[m] = result[m]
  /\ \A m \in Launches \ {l}, kind \in {"runner", "process", "follower"} :
       <<kind, m>> \in writers'[m] <=> <<kind, m>> \in writers[m]
  /\ \A m \in Launches, k \in Launches \ {l}, kind \in {"runner", "process", "follower"} :
       <<kind, k>> \in writers'[m] => <<kind, k>> \in writers[m]

\* What l's processes hold, of any pipe.
HeldBy(l) ==
  \A m \in Launches :
    /\ <<"runner", l>> \in writers[m] => m = l
    /\ <<"process", l>> \in writers[m] => process[l] \in Alive
    /\ <<"follower", l>> \in writers[m] => follower[l] = "running"

OwnInv(l) == HoldersHold(l) /\ Launched(l) /\ ClosedIsRead(l) /\ ResultIs(l)

LEMMA OneLaunchStep ==
  ASSUME WinInv, NEW l \in Launches, WinTypes', OnlyOf(l), HeldBy(l)', OwnInv(l)'
  PROVE  WinInv'
<1>1. ASSUME NEW m \in Launches PROVE HoldersAre(m)'
  <2>1. ASSUME NEW k \in Launches
        PROVE  /\ <<"runner", k>> \in writers'[m] => m = k
               /\ <<"process", k>> \in writers'[m] => process'[k] \in Alive
               /\ <<"follower", k>> \in writers'[m] => follower'[k] = "running"
    <3>1. CASE k = l
      BY <3>1 DEF HeldBy
    <3>2. CASE k # l
      <4>1. HoldersAre(m)
        BY DEF WinInv, LaunchInv
      <4>2. process'[k] = process[k] /\ follower'[k] = follower[k]
        BY <3>2 DEF OnlyOf
      <4>3. \A kind \in {"runner", "process", "follower"} :
              <<kind, k>> \in writers'[m] => <<kind, k>> \in writers[m]
        BY <3>2 DEF OnlyOf
      <4> QED BY <4>1, <4>2, <4>3 DEF HoldersAre
    <3> QED BY <3>1, <3>2
  <2> QED BY <2>1 DEF HoldersAre
<1>2. ASSUME NEW m \in Launches, m # l PROVE OwnInv(m)'
  <2>1. OwnInv(m)
    BY DEF WinInv, LaunchInv, OwnInv
  <2>2. /\ step'[m] = step[m] /\ job'[m] = job[m] /\ process'[m] = process[m]
        /\ exitCode'[m] = exitCode[m] /\ follower'[m] = follower[m]
        /\ written'[m] = written[m] /\ captured'[m] = captured[m]
        /\ pipeClosed'[m] = pipeClosed[m] /\ result'[m] = result[m]
    BY <1>2 DEF OnlyOf
  <2>3. \A kind \in {"runner", "process", "follower"} :
          <<kind, m>> \in writers'[m] <=> <<kind, m>> \in writers[m]
    BY <1>2 DEF OnlyOf
  <2>4. HoldersHold(m)'
    BY <2>1, <2>2, <2>3 DEF OwnInv, HoldersHold
  <2>5. Launched(m)' /\ ClosedIsRead(m)' /\ ResultIs(m)'
    BY <2>1, <2>2 DEF OwnInv, Launched, ClosedIsRead, ResultIs
  <2> QED BY <2>4, <2>5 DEF OwnInv
<1>3. ASSUME NEW m \in Launches PROVE LaunchInv(m)'
  <2>1. OwnInv(m)'
    BY <1>2
  <2> QED BY <1>1, <2>1 DEF OwnInv, LaunchInv
<1> QED BY <1>3 DEF WinInv

\* What is known of the launch before its step.
LEMMA LaunchIs ==
  ASSUME WinInv, NEW l \in Launches
  PROVE  WinTypes /\ HoldersAre(l) /\ HeldBy(l) /\ OwnInv(l)
<1>1. HoldersAre(l) /\ OwnInv(l)
  BY DEF WinInv, LaunchInv, OwnInv
<1>2. HeldBy(l)
  BY DEF WinInv, LaunchInv, HoldersAre, HeldBy
<1> QED BY <1>1, <1>2 DEF WinInv

LEMMA CreatePipeStep ==
  ASSUME WinInv, NEW l \in Launches, Win!CreateOutputPipe(l)
  PROVE  WinInv'
<1>0. WinTypes /\ HoldersAre(l) /\ HeldBy(l) /\ OwnInv(l)
  BY LaunchIs
<1>1. /\ step[l] = "pipe" /\ step' = [step EXCEPT ![l] = "job"]
      /\ writers' = [writers EXCEPT ![l] = {<<"runner", l>>}]
      /\ UNCHANGED <<job, process, exitCode, follower, written, captured, pipeClosed, result>>
  BY DEF Win!CreateOutputPipe, Win!Goes, Win!system
<1>2. WinTypes'
  BY <1>0, <1>1 DEF WinTypes, Win!Steps
<1>3. step'[l] = "job" /\ writers'[l] = {<<"runner", l>>}
      /\ \A m \in Launches \ {l} : step'[m] = step[m] /\ writers'[m] = writers[m]
  BY <1>0, <1>1 DEF WinTypes
<1>4. OnlyOf(l)
  BY <1>1, <1>3 DEF OnlyOf
<1>5. HeldBy(l)'
  BY <1>0, <1>1, <1>3 DEF HeldBy
<1>6. process[l] = "none" /\ follower[l] = "none"
  BY <1>0, <1>1 DEF OwnInv, Launched
<1>7. OwnInv(l)'
  BY <1>0, <1>1, <1>3, <1>6 DEF OwnInv, HoldersHold, Launched, ClosedIsRead, ResultIs, Alive
<1> QED BY <1>2, <1>4, <1>5, <1>7, OneLaunchStep

LEMMA CreateProcessStep ==
  ASSUME WinInv, NEW l \in Launches, Win!CreateSuspended(l)
  PROVE  WinInv'
<1>0. WinTypes /\ HoldersAre(l) /\ HeldBy(l) /\ OwnInv(l)
  BY LaunchIs
<1>1. /\ step[l] = "create" /\ step' = [step EXCEPT ![l] = "assign"]
      /\ process' = [process EXCEPT ![l] = "suspended"]
      /\ writers' = [m \in Launches |->
           writers[m] \cup IF <<"runner", m>> \in writers[m] THEN {<<"process", l>>} ELSE {}]
      /\ UNCHANGED <<job, exitCode, follower, written, captured, pipeClosed, result>>
  BY DEF Win!CreateSuspended, Win!Goes
<1>2. WinTypes'
  BY <1>0, <1>1 DEF WinTypes, Win!Steps
<1>3. /\ step'[l] = "assign" /\ process'[l] = "suspended"
      /\ \A m \in Launches \ {l} : step'[m] = step[m] /\ process'[m] = process[m]
      /\ \A m \in Launches : writers[m] \subseteq writers'[m] /\ writers'[m] \subseteq writers[m] \cup {<<"process", l>>}
      /\ <<"runner", l>> \in writers[l] => <<"process", l>> \in writers'[l]
  BY <1>0, <1>1 DEF WinTypes
<1>4. OnlyOf(l)
  BY <1>1, <1>3 DEF OnlyOf
<1>5. HeldBy(l)'
  BY <1>0, <1>1, <1>3 DEF HeldBy, Alive
<1>6. process[l] = "none" /\ follower[l] = "none" /\ <<"process", l>> \in writers'[l]
  BY <1>0, <1>1, <1>3 DEF OwnInv, Launched, HoldersHold
<1>7. OwnInv(l)'
  BY <1>0, <1>1, <1>3, <1>6 DEF OwnInv, HoldersHold, Launched, ClosedIsRead, ResultIs, Alive
<1> QED BY <1>2, <1>4, <1>5, <1>7, OneLaunchStep

\* A call that returns with a failure of its own.
LEMMA LaunchFailsStep ==
  ASSUME WinInv, NEW l \in Launches, Win!LaunchFails(l)
  PROVE  WinInv'
<1>0. WinTypes /\ HoldersAre(l) /\ HeldBy(l) /\ OwnInv(l)
  BY LaunchIs
<1>1. PICK failure \in [status : {"LaunchFailed", "RunnerError"}, exitCode : Int] :
        result' = [result EXCEPT ![l] = failure]
  <2>1. CASE step[l] = "create"
    <3>1. Win!Failed("LaunchFailed") \in [status : {"LaunchFailed", "RunnerError"}, exitCode : Int]
      BY DEF Win!Failed, Win!DefaultResult
    <3> QED BY <2>1, <3>1 DEF Win!LaunchFails
  <2>2. CASE step[l] # "create"
    <3>1. Win!Failed("RunnerError") \in [status : {"LaunchFailed", "RunnerError"}, exitCode : Int]
      BY DEF Win!Failed, Win!DefaultResult
    <3> QED BY <2>2, <3>1 DEF Win!LaunchFails
  <2> QED BY <2>1, <2>2
<1>2. /\ step[l] \in {"pipe", "job", "create"} /\ step' = [step EXCEPT ![l] = "returned"]
      /\ writers' = [writers EXCEPT ![l] = {}] /\ job' = [job EXCEPT ![l] = "closed"]
      /\ UNCHANGED <<process, exitCode, follower, written, captured, pipeClosed>>
  BY DEF Win!LaunchFails
<1>3. WinTypes'
  BY <1>0, <1>1, <1>2 DEF WinTypes, Win!Steps, Statuses
<1>4. /\ step'[l] = "returned" /\ writers'[l] = {} /\ result'[l].status \notin Good
      /\ \A m \in Launches \ {l} : /\ step'[m] = step[m] /\ writers'[m] = writers[m]
                                   /\ job'[m] = job[m] /\ result'[m] = result[m]
  BY <1>0, <1>1, <1>2 DEF WinTypes, Good
<1>5. OnlyOf(l)
  BY <1>2, <1>4 DEF OnlyOf
<1>6. HeldBy(l)'
  BY <1>0, <1>2, <1>4 DEF HeldBy
<1>7. process[l] = "none" /\ follower[l] = "none"
  BY <1>0, <1>2 DEF OwnInv, Launched
<1>8. OwnInv(l)'
  BY <1>0, <1>2, <1>4, <1>7
  DEF OwnInv, HoldersHold, Launched, ClosedIsRead, ResultIs, Alive, Good
<1> QED BY <1>3, <1>5, <1>6, <1>8, OneLaunchStep

\* The runner lets go of its end of the pipe, and goes on or concludes.
LEMMA RunnerLetsGo ==
  ASSUME WinInv, NEW l \in Launches, NEW to \in {"resume", "cleanup", "returned"},
         step[l] \in {"assign", "kill", "await"},
         step' = [step EXCEPT ![l] = to],
         writers' = [writers EXCEPT ![l] = @ \ {<<"runner", l>>}],
         UNCHANGED <<process, exitCode, follower, written, captured, pipeClosed>>,
         result' \in [Launches -> [status : Statuses, exitCode : Int]],
         job' \in [Launches -> {"none", "empty", "assigned", "closed"}],
         \A m \in Launches : m # l => result'[m] = result[m] /\ job'[m] = job[m],
         result'[l] = result[l] \/ result'[l].status # "Exited",
         to = "returned" => result'[l].status \notin Good
  PROVE  WinInv'
<1>0. WinTypes /\ HoldersAre(l) /\ HeldBy(l) /\ OwnInv(l)
  BY LaunchIs
<1>1. WinTypes'
  BY <1>0 DEF WinTypes, Win!Steps
<1>2. /\ step'[l] = to /\ writers'[l] = writers[l] \ {<<"runner", l>>}
      /\ \A m \in Launches \ {l} : step'[m] = step[m] /\ writers'[m] = writers[m]
  BY <1>0 DEF WinTypes
<1>3. OnlyOf(l)
  BY <1>2 DEF OnlyOf
<1>4. HeldBy(l)'
  BY <1>0, <1>2 DEF HeldBy
<1>5. HoldersHold(l)'
  BY <1>0, <1>2 DEF OwnInv, HoldersHold
<1>6. Launched(l)' /\ ClosedIsRead(l)'
  BY <1>0, <1>2 DEF OwnInv, Launched, ClosedIsRead
<1>7. ResultIs(l)'
  BY <1>0, <1>2 DEF OwnInv, ResultIs
<1> QED BY <1>1, <1>3, <1>4, <1>5, <1>6, <1>7, OneLaunchStep DEF OwnInv

\* CloseJob and DefaultResult, as types.
LEMMA ClosedJob ==
  ASSUME WinTypes, NEW l \in Launches, Win!CloseJob(l)
  PROVE  /\ job' \in [Launches -> {"none", "empty", "assigned", "closed"}] /\ job'[l] = "closed"
         /\ \A m \in Launches : m # l => job'[m] = job[m]
BY DEF WinTypes, Win!CloseJob

LEMMA ResultGiven ==
  ASSUME WinTypes, NEW l \in Launches, NEW given \in [status : Statuses, exitCode : Int],
         result' = [result EXCEPT ![l] = given]
  PROVE  /\ result' \in [Launches -> [status : Statuses, exitCode : Int]] /\ result'[l] = given
         /\ \A m \in Launches : m # l => result'[m] = result[m]
BY DEF WinTypes

LEMMA DefaultIs ==
  /\ Win!DefaultResult \in [status : Statuses, exitCode : Int]
  /\ Win!DefaultResult.status \notin Good /\ Win!DefaultResult.status # "Exited"
BY DEF Win!DefaultResult, Statuses, Good

LEMMA ConcludeStep ==
  ASSUME WinInv, NEW l \in Launches, NEW success \in BOOLEAN, Win!Conclude(l, success),
         step[l] \in {"kill", "await"},
         UNCHANGED <<process, exitCode, follower, written, captured, pipeClosed>>
  PROVE  WinInv'
<1>0. WinTypes
  BY DEF WinInv
<1>2. PICK to \in {"resume", "cleanup", "returned"} :
        /\ step' = [step EXCEPT ![l] = to]
        /\ to = "returned" => purpose[l] \in {"assign", "resume"}
  BY DEF Win!Conclude
<1>3. PICK given \in [status : Statuses, exitCode : Int] :
        /\ result' = [result EXCEPT ![l] = given]
        /\ given.status # "Exited"
        /\ purpose[l] \in {"assign", "resume"} => given.status \notin Good
  <2>1. CASE success /\ purpose[l] = "timeout"
    <3>1. [status |-> "TimedOut", exitCode |-> Win!TimeoutExitCode] \in [status : Statuses, exitCode : Int]
          /\ [status |-> "TimedOut", exitCode |-> Win!TimeoutExitCode].status # "Exited"
      BY DEF Win!TimeoutExitCode, Statuses
    <3> QED BY <2>1, <3>1 DEF Win!Conclude
  <2>2. CASE ~(success /\ purpose[l] = "timeout")
    BY <2>2, DefaultIs DEF Win!Conclude
  <2> QED BY <2>1, <2>2
<1>4. /\ result' \in [Launches -> [status : Statuses, exitCode : Int]] /\ result'[l] = given
      /\ \A m \in Launches : m # l => result'[m] = result[m]
  BY <1>0, <1>3, ResultGiven
<1>5. /\ job' \in [Launches -> {"none", "empty", "assigned", "closed"}]
      /\ \A m \in Launches : m # l => job'[m] = job[m]
  <2>1. CASE purpose[l] = "drain"
    BY <1>0, <2>1 DEF Win!Conclude, WinTypes
  <2>2. CASE purpose[l] # "drain"
    BY <1>0, <2>2, ClosedJob DEF Win!Conclude
  <2> QED BY <2>1, <2>2
<1>6. writers' = [writers EXCEPT ![l] = @ \ {<<"runner", l>>}]
  BY DEF Win!Conclude
<1> QED BY <1>2, <1>3, <1>4, <1>5, <1>6, RunnerLetsGo

\* Reading closes the pipe only when nobody holds it, with nothing left in it.
LEMMA DrainStep ==
  ASSUME WinInv, NEW l \in Launches, Win!DrainAvailableOutput(l), step[l] \in {"drain", "cleanup"}
  PROVE  /\ captured' \in [Launches -> Nat] /\ pipeClosed' \in [Launches -> BOOLEAN]
         /\ \A m \in Launches \ {l} : captured'[m] = captured[m] /\ pipeClosed'[m] = pipeClosed[m]
         /\ pipeClosed[l] => pipeClosed'[l]
         /\ pipeClosed'[l] => /\ process[l] = "ended" /\ follower[l] # "running"
                              /\ captured'[l] = written[l]
<1>0. WinTypes /\ HoldersAre(l) /\ HeldBy(l) /\ OwnInv(l)
  BY LaunchIs
<1>1. PICK w \in Nat, c \in Nat : w = written[l] /\ c = captured[l]
  BY <1>0 DEF WinTypes
<1>2. PICK d \in Nat \ {0} : d = DrainLimit
  BY ProcessAssumption
<1>3. CASE w - c >= d
  <2>1. captured' = [captured EXCEPT ![l] = c + d] /\ pipeClosed' = pipeClosed
    BY <1>1, <1>2, <1>3 DEF Win!DrainAvailableOutput
  <2>2. ~pipeClosed[l]
    BY <1>0, <1>1, <1>2, <1>3 DEF OwnInv, ClosedIsRead
  <2>3. captured' \in [Launches -> Nat] /\ \A m \in Launches \ {l} : captured'[m] = captured[m]
    BY <1>0, <1>1, <1>2, <2>1 DEF WinTypes
  <2> QED BY <1>0, <2>1, <2>2, <2>3 DEF WinTypes
<1>4. CASE ~(w - c >= d)
  <2>1. /\ captured' = [captured EXCEPT ![l] = w]
        /\ pipeClosed' = [pipeClosed EXCEPT ![l] = pipeClosed[l] \/ writers[l] = {}]
    BY <1>1, <1>2, <1>4 DEF Win!DrainAvailableOutput
  <2>2. /\ captured' \in [Launches -> Nat] /\ captured'[l] = w
        /\ \A m \in Launches \ {l} : captured'[m] = captured[m]
    BY <1>0, <2>1 DEF WinTypes
  <2>3. /\ pipeClosed' \in [Launches -> BOOLEAN] /\ (pipeClosed'[l] <=> pipeClosed[l] \/ writers[l] = {})
        /\ \A m \in Launches \ {l} : pipeClosed'[m] = pipeClosed[m]
    BY <1>0, <2>1 DEF WinTypes
  <2>4. writers[l] = {} => process[l] = "ended" /\ follower[l] # "running"
    <3>1. writers[l] = {} => process[l] \notin Alive /\ follower[l] # "running"
      BY <1>0 DEF OwnInv, HoldersHold
    <3>2. process[l] # "none" /\ process[l] \in {"none", "suspended", "running", "ended"}
      BY <1>0 DEF OwnInv, Launched, WinTypes
    <3> QED BY <3>1, <3>2 DEF Alive
  <2>5. pipeClosed[l] => process[l] = "ended" /\ follower[l] # "running"
    BY <1>0 DEF OwnInv, ClosedIsRead
  <2> QED BY <1>1, <2>2, <2>3, <2>4, <2>5
<1> QED BY <1>3, <1>4

LEMMA WatchStep ==
  ASSUME WinInv, NEW l \in Launches, Win!Drain(l)
  PROVE  WinInv'
<1>0. WinTypes /\ HoldersAre(l) /\ HeldBy(l) /\ OwnInv(l)
  BY LaunchIs
<1>1. /\ step[l] = "drain" /\ step' = [step EXCEPT ![l] = "wait"] /\ Win!DrainAvailableOutput(l)
      /\ UNCHANGED <<job, process, exitCode, follower, writers, written, result>>
  BY DEF Win!Drain, Win!Goes, Win!system
<1>2. /\ captured' \in [Launches -> Nat] /\ pipeClosed' \in [Launches -> BOOLEAN]
      /\ \A m \in Launches \ {l} : captured'[m] = captured[m] /\ pipeClosed'[m] = pipeClosed[m]
      /\ pipeClosed'[l] => /\ process[l] = "ended" /\ follower[l] # "running"
                           /\ captured'[l] = written[l]
  BY <1>1, DrainStep
<1>3. WinTypes'
  BY <1>0, <1>1, <1>2 DEF WinTypes, Win!Steps
<1>4. step'[l] = "wait" /\ \A m \in Launches \ {l} : step'[m] = step[m]
  BY <1>0, <1>1 DEF WinTypes
<1>5. OnlyOf(l)
  BY <1>1, <1>2, <1>4 DEF OnlyOf
<1>6. HeldBy(l)'
  BY <1>0, <1>1 DEF HeldBy
<1>7. OwnInv(l)'
  BY <1>0, <1>1, <1>2, <1>4 DEF OwnInv, HoldersHold, Launched, ClosedIsRead, ResultIs
<1> QED BY <1>3, <1>5, <1>6, <1>7, OneLaunchStep

LEMMA CleanupStep ==
  ASSUME WinInv, NEW l \in Launches, Win!Cleanup(l)
  PROVE  WinInv'
<1>0. WinTypes /\ HoldersAre(l) /\ HeldBy(l) /\ OwnInv(l)
  BY LaunchIs
<1>1. /\ step[l] = "cleanup" /\ Win!DrainAvailableOutput(l)
      /\ UNCHANGED <<process, exitCode, follower, writers, written, result>>
  BY DEF Win!Cleanup
<1>2. /\ captured' \in [Launches -> Nat] /\ pipeClosed' \in [Launches -> BOOLEAN]
      /\ \A m \in Launches \ {l} : captured'[m] = captured[m] /\ pipeClosed'[m] = pipeClosed[m]
      /\ pipeClosed'[l] => /\ process[l] = "ended" /\ follower[l] # "running"
                           /\ captured'[l] = written[l]
  BY <1>1, DrainStep
<1>3. HeldBy(l)'
  BY <1>0, <1>1 DEF HeldBy
<1>4. CASE pipeClosed'[l]
  <2>1. step' = [step EXCEPT ![l] = "returned"] /\ Win!CloseJob(l)
    BY <1>4 DEF Win!Cleanup
  <2>2. /\ job' \in [Launches -> {"none", "empty", "assigned", "closed"}] /\ job'[l] = "closed"
        /\ \A m \in Launches : m # l => job'[m] = job[m]
    BY <1>0, <2>1, ClosedJob
  <2>3. step'[l] = "returned" /\ \A m \in Launches \ {l} : step'[m] = step[m]
    BY <1>0, <2>1 DEF WinTypes
  <2>4. WinTypes'
    BY <1>0, <1>1, <1>2, <2>1, <2>2 DEF WinTypes, Win!Steps
  <2>5. OnlyOf(l)
    BY <1>1, <1>2, <2>2, <2>3 DEF OnlyOf
  <2>6. OwnInv(l)'
    BY <1>0, <1>1, <1>2, <1>4, <2>2, <2>3
    DEF OwnInv, HoldersHold, Launched, ClosedIsRead, ResultIs
  <2> QED BY <1>3, <2>4, <2>5, <2>6, OneLaunchStep
<1>5. CASE ~pipeClosed'[l]
  <2>1. step' = step /\ job' = job
    BY <1>5 DEF Win!Cleanup
  <2>2. WinTypes'
    BY <1>0, <1>1, <1>2, <2>1 DEF WinTypes
  <2>3. OnlyOf(l)
    BY <1>1, <1>2, <2>1 DEF OnlyOf
  <2>4. OwnInv(l)'
    BY <1>0, <1>1, <1>2, <1>5, <2>1
    DEF OwnInv, HoldersHold, Launched, ClosedIsRead, ResultIs
  <2> QED BY <1>3, <2>2, <2>3, <2>4, OneLaunchStep
<1> QED BY <1>4, <1>5

(***************************************************************************)
(* The program: what it does after the pipe is closed is nothing.          *)
(***************************************************************************)

LEMMA ResumeStep ==
  ASSUME WinInv, NEW l \in Launches, Win!Resume(l)
  PROVE  WinInv'
<1>0. WinTypes /\ HoldersAre(l) /\ HeldBy(l) /\ OwnInv(l)
  BY LaunchIs
<1>1. /\ step[l] = "resume" /\ step' = [step EXCEPT ![l] = "drain"]
      /\ process' = [process EXCEPT ![l] = IF process[l] = "suspended" THEN "running" ELSE process[l]]
      /\ UNCHANGED <<job, exitCode, follower, writers, written, captured, pipeClosed, result>>
  BY DEF Win!Resume, Win!Goes, Win!output
<1>2. WinTypes'
  BY <1>0, <1>1 DEF WinTypes, Win!Steps
<1>3. /\ step'[l] = "drain"
      /\ process'[l] \in Alive <=> process[l] \in Alive
      /\ process'[l] # "none" /\ (process[l] = "ended" => process'[l] = "ended")
      /\ \A m \in Launches \ {l} : step'[m] = step[m] /\ process'[m] = process[m]
  BY <1>0, <1>1 DEF WinTypes, Alive, OwnInv, Launched
<1>4. OnlyOf(l)
  BY <1>1, <1>3 DEF OnlyOf
<1>5. HeldBy(l)'
  BY <1>0, <1>1, <1>3 DEF HeldBy
<1>6. OwnInv(l)'
  BY <1>0, <1>1, <1>3 DEF OwnInv, HoldersHold, Launched, ClosedIsRead, ResultIs
<1> QED BY <1>2, <1>4, <1>5, <1>6, OneLaunchStep

LEMMA ProcessEndsStep ==
  ASSUME WinInv, NEW l \in Launches, Win!ProcessEnds(l)
  PROVE  WinInv'
<1>0. WinTypes /\ HoldersAre(l) /\ HeldBy(l) /\ OwnInv(l)
  BY LaunchIs
<1>1. /\ process[l] \in Alive /\ process' = [process EXCEPT ![l] = "ended"]
      /\ writers' = [m \in Launches |-> writers[m] \ {<<"process", l>>}]
      /\ UNCHANGED <<step, job, follower, written, captured, pipeClosed, result>>
  BY DEF Win!ProcessEnds, Win!Without, Win!runner, Alive
<1>2. PICK code \in Int : exitCode' = [exitCode EXCEPT ![l] = code]
  BY DEF Win!ProcessEnds, Win!TimeoutExitCode
<1>3. WinTypes'
  BY <1>0, <1>1, <1>2 DEF WinTypes
<1>4. /\ process'[l] = "ended"
      /\ \A m \in Launches \ {l} : process'[m] = process[m] /\ exitCode'[m] = exitCode[m]
      /\ \A m \in Launches : writers'[m] = writers[m] \ {<<"process", l>>}
  BY <1>0, <1>1, <1>2 DEF WinTypes
<1>5. OnlyOf(l)
  BY <1>1, <1>4 DEF OnlyOf
<1>6. HeldBy(l)'
  BY <1>0, <1>1, <1>4 DEF HeldBy
<1>7. process[l] # "ended" /\ ~pipeClosed[l] /\ result[l].status # "Exited"
  BY <1>0, <1>1 DEF Alive, OwnInv, ClosedIsRead, ResultIs
<1>8. OwnInv(l)'
  BY <1>0, <1>1, <1>4, <1>7
  DEF OwnInv, HoldersHold, Launched, ClosedIsRead, ResultIs, Alive
<1> QED BY <1>3, <1>5, <1>6, <1>8, OneLaunchStep

LEMMA SpawnStep ==
  ASSUME WinInv, NEW l \in Launches, Win!Spawn(l)
  PROVE  WinInv'
<1>0. WinTypes /\ HoldersAre(l) /\ HeldBy(l) /\ OwnInv(l)
  BY LaunchIs
<1>1. /\ process[l] = "running" /\ follower' = [follower EXCEPT ![l] = "running"]
      /\ writers' = [m \in Launches |->
           writers[m] \cup IF <<"process", l>> \in writers[m] THEN {<<"follower", l>>} ELSE {}]
      /\ UNCHANGED <<step, job, process, exitCode, written, captured, pipeClosed, result>>
  BY DEF Win!Spawn, Win!runner
<1>2. WinTypes'
  BY <1>0, <1>1 DEF WinTypes
<1>3. /\ follower'[l] = "running"
      /\ \A m \in Launches \ {l} : follower'[m] = follower[m]
      /\ \A m \in Launches : /\ writers[m] \subseteq writers'[m]
                             /\ writers'[m] \subseteq writers[m] \cup {<<"follower", l>>}
      /\ <<"process", l>> \in writers[l] => <<"follower", l>> \in writers'[l]
  BY <1>0, <1>1 DEF WinTypes
<1>4. OnlyOf(l)
  BY <1>1, <1>3 DEF OnlyOf
<1>5. HeldBy(l)'
  BY <1>0, <1>1, <1>3 DEF HeldBy
<1>6. <<"follower", l>> \in writers'[l] /\ ~pipeClosed[l]
  BY <1>0, <1>1, <1>3 DEF Alive, OwnInv, HoldersHold, ClosedIsRead
<1>7. OwnInv(l)'
  BY <1>0, <1>1, <1>3, <1>6 DEF OwnInv, HoldersHold, Launched, ClosedIsRead, ResultIs
<1> QED BY <1>2, <1>4, <1>5, <1>7, OneLaunchStep

LEMMA FollowerEndsStep ==
  ASSUME WinInv, NEW l \in Launches, Win!FollowerEnds(l)
  PROVE  WinInv'
<1>0. WinTypes /\ HoldersAre(l) /\ HeldBy(l) /\ OwnInv(l)
  BY LaunchIs
<1>1. /\ follower[l] = "running" /\ follower' = [follower EXCEPT ![l] = "ended"]
      /\ writers' = [m \in Launches |-> writers[m] \ {<<"follower", l>>}]
      /\ UNCHANGED <<step, job, process, exitCode, written, captured, pipeClosed, result>>
  BY DEF Win!FollowerEnds, Win!Without, Win!runner
<1>2. WinTypes'
  BY <1>0, <1>1 DEF WinTypes
<1>3. /\ follower'[l] = "ended"
      /\ \A m \in Launches \ {l} : follower'[m] = follower[m]
      /\ \A m \in Launches : writers'[m] = writers[m] \ {<<"follower", l>>}
  BY <1>0, <1>1 DEF WinTypes
<1>4. OnlyOf(l)
  BY <1>1, <1>3 DEF OnlyOf
<1>5. HeldBy(l)'
  BY <1>0, <1>1, <1>3 DEF HeldBy
<1>6. OwnInv(l)'
  BY <1>0, <1>1, <1>3 DEF OwnInv, HoldersHold, Launched, ClosedIsRead, ResultIs
<1> QED BY <1>2, <1>4, <1>5, <1>6, OneLaunchStep

LEMMA WriteStep ==
  ASSUME WinInv, NEW l \in Launches, Win!Write(l)
  PROVE  WinInv'
<1>0. WinTypes /\ HoldersAre(l) /\ HeldBy(l) /\ OwnInv(l)
  BY LaunchIs
<1>1. /\ process[l] = "running" \/ follower[l] = "running"
      /\ written' = [written EXCEPT ![l] = written[l] + 1]
      /\ UNCHANGED <<step, job, process, exitCode, follower, writers, captured, pipeClosed, result>>
  BY DEF Win!Write, Win!runner
<1>2. WinTypes'
  BY <1>0, <1>1 DEF WinTypes
<1>3. \A m \in Launches \ {l} : written'[m] = written[m]
  BY <1>0, <1>1 DEF WinTypes
<1>4. OnlyOf(l)
  BY <1>1, <1>3 DEF OnlyOf
<1>5. HeldBy(l)'
  BY <1>0, <1>1 DEF HeldBy
<1>6. ~pipeClosed[l]
  BY <1>0, <1>1 DEF OwnInv, ClosedIsRead
<1>7. OwnInv(l)'
  BY <1>0, <1>1, <1>6 DEF OwnInv, HoldersHold, Launched, ClosedIsRead, ResultIs
<1> QED BY <1>2, <1>4, <1>5, <1>7, OneLaunchStep

-----------------------------------------------------------------------------

LEMMA WinStepKeeps ==
  ASSUME WinInv, NEW l \in Launches,
         Win!RunnerStep(l) \/ Win!Elapse(l) \/ Win!ProgramStep(l)
  PROVE  WinInv'
<1>0. /\ LaunchInv(l) /\ WinTypes
      /\ step[l] \in Win!Steps
  BY DEF WinInv, WinTypes
<1>1. CASE Win!Call(l)
  BY <1>0, <1>1, StepOnly
  DEF Win!Call, Win!Goes, Win!system, Win!output, Win!Steps, WinTypes, LaunchInv, Launched,
      ResultIs, Good
<1>b. CASE Win!CreateJob(l)
  <2>1. /\ step[l] = "job" /\ step' = [step EXCEPT ![l] = "create"]
        /\ job' = [job EXCEPT ![l] = "empty"]
        /\ UNCHANGED <<process, exitCode, follower, writers, written, captured, pipeClosed, result>>
    BY <1>b DEF Win!CreateJob, Win!Goes, Win!output
  <2>2. /\ job' \in [Launches -> {"none", "empty", "assigned", "closed"}]
        /\ \A m \in Launches : m # l => job'[m] = job[m]
    BY <1>0, <2>1 DEF WinTypes
  <2>3. process[l] = "none" /\ "create" \in Win!Steps
    BY <1>0, <2>1 DEF LaunchInv, Launched, Win!Steps
  <2> QED BY <1>0, <2>1, <2>2, <2>3, StepOnly DEF WinTypes, LaunchInv, ResultIs
<1>a. CASE Win!StartFails(l)
  BY <1>0, <1>a, StepOnly
  DEF Win!StartFails, Win!Terminate, Win!system, Win!output, Win!Steps, WinTypes, LaunchInv,
      Launched, ResultIs, Good
<1>2. CASE Win!CreateOutputPipe(l) \/ Win!CreateSuspended(l) \/ Win!LaunchFails(l)
  BY <1>2, CreatePipeStep, CreateProcessStep, LaunchFailsStep
<1>3. CASE Win!AssignToJob(l)
  <2>1. /\ step[l] = "assign" /\ step' = [step EXCEPT ![l] = "resume"]
        /\ writers' = [writers EXCEPT ![l] = @ \ {<<"runner", l>>}]
        /\ job' = [job EXCEPT ![l] = "assigned"]
        /\ UNCHANGED <<process, exitCode, follower, written, captured, pipeClosed, result>>
    BY <1>3 DEF Win!AssignToJob, Win!Goes
  <2>2. /\ job' \in [Launches -> {"none", "empty", "assigned", "closed"}]
        /\ \A m \in Launches : m # l => job'[m] = job[m]
        /\ result' \in [Launches -> [status : Statuses, exitCode : Int]]
    BY <1>0, <2>1 DEF WinTypes
  <2> QED BY <2>1, <2>2, RunnerLetsGo
<1>4. CASE Win!Resume(l)
  BY <1>4, ResumeStep
<1>5. CASE Win!Drain(l) \/ Win!Cleanup(l)
  BY <1>5, WatchStep, CleanupStep
<1>6. CASE Win!SeesExit(l)
  <2>1. /\ step[l] = "wait" /\ process[l] = "ended" /\ step' = [step EXCEPT ![l] = "cleanup"]
        /\ Win!CloseJob(l)
        /\ UNCHANGED <<process, exitCode, follower, writers, written, captured, pipeClosed>>
    BY <1>6 DEF Win!SeesExit, Win!Goes, Win!output
  <2>2. PICK given \in [status : Statuses, exitCode : Int] :
          /\ result' = [result EXCEPT ![l] = given]
          /\ given.status = "Exited" => given.exitCode = exitCode[l]
    <3>1. [status |-> "Exited", exitCode |-> exitCode[l]] \in [status : Statuses, exitCode : Int]
      BY <1>0 DEF WinTypes, Statuses
    <3>2. [status |-> "Exited", exitCode |-> exitCode[l]].exitCode = exitCode[l]
      OBVIOUS
    <3> QED BY <1>6, <3>1, <3>2, DefaultIs DEF Win!SeesExit
  <2>3. /\ result' \in [Launches -> [status : Statuses, exitCode : Int]] /\ result'[l] = given
        /\ \A m \in Launches : m # l => result'[m] = result[m]
    BY <1>0, <2>2, ResultGiven
  <2>4. /\ job' \in [Launches -> {"none", "empty", "assigned", "closed"}]
        /\ \A m \in Launches : m # l => job'[m] = job[m]
    BY <1>0, <2>1, ClosedJob
  <2>5. <<"runner", l>> \notin writers[l] /\ "cleanup" \in Win!Steps
    BY <1>0, <2>1 DEF LaunchInv, HoldersHold, Win!Steps
  <2> QED BY <2>1, <2>2, <2>3, <2>4, <2>5, StepOnly
<1>7. CASE \/ Win!WaitAgain(l) \/ Win!TimesOut(l) \/ Win!WatchFails(l) \/ Win!Kill(l)
           \/ Win!KillRefused(l)
  BY <1>0, <1>7, StepOnly
  DEF Win!WaitAgain, Win!TimesOut, Win!WatchFails, Win!Kill, Win!KillRefused, Win!Terminate,
      Win!Goes, Win!system, Win!output, Win!Steps, WinTypes, LaunchInv, Launched, ResultIs, Good,
      HoldersHold
<1>8. CASE Win!KillFails(l) \/ Win!SeesEnd(l) \/ Win!AwaitFails(l)
  BY <1>8, ConcludeStep DEF Win!KillFails, Win!SeesEnd, Win!AwaitFails
<1>9. CASE Win!CleanupFails(l)
  <2>1. /\ step[l] = "cleanup" /\ step' = [step EXCEPT ![l] = "returned"] /\ Win!CloseJob(l)
        /\ result' = [result EXCEPT ![l] = Win!DefaultResult]
        /\ UNCHANGED <<process, exitCode, follower, writers, written, captured, pipeClosed>>
    BY <1>9 DEF Win!CleanupFails, Win!Goes, Win!output
  <2>2. /\ result' \in [Launches -> [status : Statuses, exitCode : Int]]
        /\ result'[l] = Win!DefaultResult
        /\ \A m \in Launches : m # l => result'[m] = result[m]
    BY <1>0, <2>1, ResultGiven, DefaultIs
  <2>3. /\ job' \in [Launches -> {"none", "empty", "assigned", "closed"}]
        /\ \A m \in Launches : m # l => job'[m] = job[m]
    BY <1>0, <2>1, ClosedJob
  <2>4. "returned" \in Win!Steps
    BY DEF Win!Steps
  <2> QED BY <2>1, <2>2, <2>3, <2>4, StepOnly, DefaultIs
<1>10. CASE Win!Elapse(l)
  <2>1. UNCHANGED <<step, job, process, exitCode, follower, writers, written, captured, pipeClosed,
                    result>>
    BY <1>10 DEF Win!Elapse, Win!system, Win!output
  <2> QED BY <2>1, WinStutters
<1>11. CASE Win!ProgramStep(l)
  BY <1>11, ProcessEndsStep, SpawnStep, FollowerEndsStep, WriteStep DEF Win!ProgramStep
<1> QED
  BY <1>1, <1>a, <1>b, <1>2, <1>3, <1>4, <1>5, <1>6, <1>7, <1>8, <1>9, <1>10, <1>11 DEF Win!RunnerStep

LEMMA WinSpecInvariant == Win!Spec => []WinInv
<1>1. Win!Init => WinInv
  <2> SUFFICES ASSUME Win!Init PROVE WinInv
    OBVIOUS
  <2>1. WinTypes
    BY DefaultIs DEF Win!Init, WinTypes, Win!Steps
  <2>2. ASSUME NEW l \in Launches PROVE LaunchInv(l)
    <3>1. /\ step[l] = "idle" /\ process[l] = "none" /\ follower[l] = "none" /\ writers[l] = {}
          /\ pipeClosed[l] = FALSE /\ result[l] = Win!DefaultResult
      BY DEF Win!Init
    <3> QED BY <3>1, DefaultIs
            DEF LaunchInv, HoldersAre, HoldersHold, Launched, ClosedIsRead, ResultIs, Alive
  <2> QED BY <2>1, <2>2 DEF WinInv
<1>2. WinInv /\ [Win!Next]_(Win!vars) => WinInv'
  <2> SUFFICES ASSUME WinInv, [Win!Next]_(Win!vars) PROVE WinInv'
    OBVIOUS
  <2>1. CASE UNCHANGED Win!vars
    BY <2>1, WinStutters DEF Win!vars, Win!system, Win!output
  <2> QED BY <2>1, WinStepKeeps DEF Win!Next
<1> QED BY <1>1, <1>2, PTL DEF Win!Spec

\* For any number of calls at once: a run that reports how its process ended has
\* read everything the process and its descendant wrote, reports its exit code, and
\* has closed its job.
THEOREM ResultsAreComplete == Win!Spec => []Win!JobContained
<1>1. WinInv => Win!JobContained
  <2> SUFFICES ASSUME WinInv, NEW l \in Launches,
                      step[l] = "returned", result[l].status \in Good
               PROVE  /\ process[l] = "ended" /\ job[l] = "closed"
                      /\ follower[l] = "running" => l \in doomed
                      /\ captured[l] = written[l]
                      /\ result[l].status = "Exited" => result[l].exitCode = exitCode[l]
    BY DEF Win!JobContained, Good
  <2> QED BY DEF WinInv, LaunchInv, ClosedIsRead, ResultIs
<1> QED BY <1>1, WinSpecInvariant, PTL

\* Once a launch's own processes have ended, only processes of other launches that
\* still run can hold its pipe open: those that were created between the steps of
\* its start and inherited the handle.
PipeHeldByOthers ==
  \A l \in Launches : step[l] = "cleanup" /\ Win!Ended(l) =>
    \A holder \in writers[l] :
      \E m \in Launches \ {l} : holder \in {<<"process", m>>, <<"follower", m>>} /\ ~Win!Ended(m)

LEMMA PipeHolders == WinInv => PipeHeldByOthers
<1> SUFFICES ASSUME WinInv, NEW l \in Launches, step[l] = "cleanup", Win!Ended(l),
                    NEW holder \in writers[l]
             PROVE  \E m \in Launches \ {l} :
                      holder \in {<<"process", m>>, <<"follower", m>>} /\ ~Win!Ended(m)
  BY DEF PipeHeldByOthers
<1>0. WinTypes /\ HoldersAre(l) /\ OwnInv(l)
  BY LaunchIs
<1>1. PICK kind \in {"runner", "process", "follower"}, m \in Launches : holder = <<kind, m>>
  BY <1>0 DEF WinTypes
<1>2. kind # "runner"
  BY <1>0, <1>1 DEF HoldersAre, OwnInv, HoldersHold
<1>3. kind = "process" => process[m] \in Alive
  BY <1>0, <1>1 DEF HoldersAre
<1>4. kind = "follower" => follower[m] = "running"
  BY <1>0, <1>1 DEF HoldersAre
<1>5. ~Win!Ended(m)
  BY <1>1, <1>2, <1>3, <1>4 DEF Win!Ended, Alive
<1>6. m # l
  BY <1>5
<1> QED BY <1>1, <1>2, <1>5, <1>6

THEOREM PipesAreHeldByOthers == Win!Spec => []PipeHeldByOthers
BY PipeHolders, WinSpecInvariant, PTL

\* With one worker there is no other launch, and the pipe ends with its processes.
THEOREM JobIsContained ==
  ASSUME \A l, m \in Launches : l = m
  PROVE  Win!Spec => []JobContained
<1>1. WinInv => Win!PipeEnds
  BY PipeHolders DEF PipeHeldByOthers, Win!PipeEnds, WinInv, WinTypes
<1>2. WinInv => Win!JobContained
  BY DEF WinInv, LaunchInv, ClosedIsRead, ResultIs, Win!JobContained, Good
<1> QED BY <1>1, <1>2, WinSpecInvariant, PTL DEF JobContained

-----------------------------------------------------------------------------
(***************************************************************************)
(* Times, for any units and limits that meet the assumption: what does not *)
(* fit its type ends at its limit and is never too short.                  *)
(***************************************************************************)

\* What division returns, without its symbols.
LEMMA Divided ==
  ASSUME NEW x \in Nat, NEW m \in Nat \ {0}
  PROVE  \E q \in Nat, r \in Nat :
           /\ q = x \div m /\ r = x % m /\ r < m
           /\ x = q * m + r /\ q * m \in Nat
<1>1. PICK q \in Nat, r \in 0..(m - 1) : q = x \div m /\ r = x % m /\ x = m * q + r
  BY QuotientAndRemainder
<1>2. m * q = q * m /\ q * m \in Nat
  OBVIOUS
<1> QED BY <1>1, <1>2

\* The quotient is the only number of whole units in x.
LEMMA QuotientIs ==
  ASSUME NEW m \in Nat \ {0}, NEW p \in Nat, NEW q \in Nat, NEW r \in Nat, NEW x \in Nat,
         q * m <= x, x = p * m + r, r < m
  PROVE  q <= p
<1> SUFFICES ASSUME p < q PROVE FALSE
  OBVIOUS
<1>1. p * m + m <= q * m /\ p * m \in Nat /\ q * m \in Nat
  BY ProductsApart
<1> QED BY <1>1

LEMMA ProductsGrow ==
  ASSUME NEW i \in Nat, NEW j \in Nat, NEW k \in Nat, i <= j
  PROVE  i * k <= j * k /\ i * k \in Nat /\ j * k \in Nat
<1>1. i * k \in Nat /\ j * k \in Nat
  OBVIOUS
<1>2. CASE i = j \/ k = 0
  BY <1>1, <1>2
<1>3. CASE i < j /\ k # 0
  BY <1>1, <1>3, ProductsApart
<1> QED BY <1>1, <1>2, <1>3

LEMMA SaturatedSum ==
  ASSUME NEW left \in 0..MaxUint64, NEW right \in Nat
  PROVE  /\ Time!SaturatingAddUint64(left, right) \in 0..MaxUint64
         /\ left + right <= MaxUint64 => Time!SaturatingAddUint64(left, right) = left + right
         /\ left + right > MaxUint64 => Time!SaturatingAddUint64(left, right) = MaxUint64
BY TimeAssumption DEF Time!SaturatingAddUint64

LEMMA SaturatedProduct ==
  ASSUME NEW left \in 0..MaxUint64, NEW right \in Nat
  PROVE  /\ Time!SaturatingMultiplyUint64(left, right) \in 0..MaxUint64
         /\ left * right <= MaxUint64 => Time!SaturatingMultiplyUint64(left, right) = left * right
         /\ left * right > MaxUint64 => Time!SaturatingMultiplyUint64(left, right) = MaxUint64
<1>1. PICK M \in Nat : M = MaxUint64
  BY TimeAssumption
<1>2. PICK p \in Nat : p = left * right
  <2>1. left \in Nat
    BY <1>1
  <2>2. left * right \in Nat
    BY <2>1
  <2> QED BY <2>2
<1>3. CASE left = 0 \/ right = 0
  <2>1. p = 0
    BY <1>1, <1>2, <1>3
  <2> QED BY <1>1, <1>2, <1>3, <2>1 DEF Time!SaturatingMultiplyUint64
<1>4. CASE left # 0 /\ right # 0
  <2>1. right \in Nat \ {0} /\ left \in Nat
    BY <1>1, <1>4
  <2>2. PICK q \in Nat, r \in Nat :
          q = M \div right /\ r < right /\ M = q * right + r /\ q * right \in Nat
    BY <1>1, <2>1, Divided
  <2>3. CASE left > q
    <3>1. q * right + right <= p
      BY <1>2, <2>1, <2>3, ProductsApart
    <3>2. p > M
      BY <1>1, <2>1, <2>2, <3>1
    <3> QED BY <1>1, <1>2, <1>4, <2>2, <2>3, <3>2 DEF Time!SaturatingMultiplyUint64
  <2>4. CASE left <= q
    <3>1. p <= q * right
      BY <1>2, <2>1, <2>4, ProductsGrow
    <3>2. p <= M
      BY <1>1, <2>2, <3>1
    <3> QED BY <1>1, <1>2, <1>4, <2>1, <2>2, <2>4, <3>2 DEF Time!SaturatingMultiplyUint64
  <2> QED BY <2>1, <2>2, <2>3, <2>4
<1> QED BY <1>3, <1>4

(***************************************************************************)
(* Deadlines and time-outs.                                                *)
(***************************************************************************)

Now(seconds, nanoseconds) == [seconds |-> seconds, nanoseconds |-> nanoseconds]

\* The deadline is the sum, or has the last second a time_t can hold.
LEMMA DeadlineIsSum ==
  ASSUME NEW timeout \in 0..MaxUint64, NEW seconds \in 0..MaxTimeT,
         NEW nanoseconds \in 0..(NanosecondsPerSecond - 1)
  PROVE  LET until == Time!MakeAbsoluteTimeoutFromNow(timeout, Now(seconds, nanoseconds))
             exact == seconds * NanosecondsPerSecond + nanoseconds + timeout
         IN  \/ until.seconds * NanosecondsPerSecond + until.nanoseconds = exact
             \/ until.seconds = MaxTimeT /\ exact >= MaxTimeT * NanosecondsPerSecond
<1>1. PICK k \in Nat \ {0}, M \in Nat, T \in Nat :
        k = NanosecondsPerSecond /\ M = MaxUint64 /\ T = MaxTimeT /\ T <= M
  BY TimeAssumption
<1>2. timeout \in Nat /\ seconds \in Nat /\ seconds <= T /\ nanoseconds \in Nat /\ nanoseconds < k
  BY <1>1
<1>3. PICK q \in Nat, r \in Nat :
        q = timeout \div k /\ r = timeout % k /\ r < k /\ timeout = q * k + r
  BY <1>1, <1>2, Divided
<1>4. PICK n \in Nat : n = nanoseconds + r
  BY <1>2
<1>5. PICK p \in Nat, e \in Nat : p = n \div k /\ e = n % k /\ e < k /\ n = p * k + e
  BY <1>1, Divided
<1>6. PICK s \in 0..M : /\ s = Time!SaturatingAddUint64(seconds, q)
                        /\ seconds + q <= M => s = seconds + q
                        /\ seconds + q > M => s = M
  BY <1>1, <1>2, SaturatedSum
<1>7. PICK f \in 0..M : /\ f = Time!SaturatingAddUint64(s, p)
                        /\ s + p <= M => f = s + p
                        /\ s + p > M => f = M
  BY <1>1, <1>6, SaturatedSum
<1> DEFINE until == Time!MakeAbsoluteTimeoutFromNow(timeout, Now(seconds, nanoseconds))
<1>8. until = [seconds |-> IF f > T THEN T ELSE f, nanoseconds |-> e]
  BY <1>1, <1>3, <1>4, <1>5, <1>6, <1>7 DEF Time!MakeAbsoluteTimeoutFromNow, Now
<1>9. until.seconds = (IF f > T THEN T ELSE f) /\ until.nanoseconds = e
  BY <1>8
<1> HIDE DEF until
<1>10. PICK sum \in Nat : sum = seconds + q + p
  BY <1>2
<1>11. seconds * k + nanoseconds + timeout = sum * k + e /\ sum * k \in Nat
  <2>1. sum * k = seconds * k + q * k + p * k
    BY <1>2, <1>10
  <2>2. seconds * k \in Nat /\ q * k \in Nat /\ p * k \in Nat /\ sum * k \in Nat
    BY <1>2
  <2> QED BY <1>2, <1>3, <1>4, <1>5, <2>1, <2>2
<1>12. CASE sum <= T
  <2>1. f = sum
    BY <1>1, <1>2, <1>6, <1>7, <1>10, <1>12
  <2>2. until.seconds = sum
    BY <1>1, <1>9, <1>12, <2>1
  <2> QED BY <1>1, <1>9, <1>11, <2>2 DEF until
<1>13. CASE sum > T
  <2>1. f >= T
    BY <1>1, <1>2, <1>6, <1>7, <1>10, <1>13
  <2>2. until.seconds = T
    BY <1>1, <1>9, <2>1
  <2>3. T * k <= sum * k /\ T * k \in Nat
    BY <1>13, ProductsGrow
  <2>4. seconds * k + nanoseconds + timeout >= T * k
    BY <1>11, <2>3
  <2> QED BY <1>1, <2>2, <2>4 DEF until
<1> QED BY <1>12, <1>13

\* A Windows time-out is the time rounded up, or the longest there is.
LEMMA TimeoutIsRoundedUp ==
  ASSUME NEW timeout \in 0..MaxUint64
  PROVE  LET milliseconds == Time!ToTimeoutMilliseconds(timeout) IN
           \/ milliseconds * NanosecondsPerMillisecond
                \in timeout..(timeout + NanosecondsPerMillisecond - 1)
           \/ milliseconds = MaxWaitMilliseconds
              /\ timeout > milliseconds * NanosecondsPerMillisecond
<1>1. PICK k \in Nat \ {0}, M \in Nat, W \in Nat :
        k = NanosecondsPerMillisecond /\ M = MaxUint64 /\ W = MaxWaitMilliseconds
  BY TimeAssumption
<1>2. W * k + k <= M + 1 /\ W * k \in Nat
  <2>1. (W + 1) * k = W * k + k /\ W * k \in Nat
    OBVIOUS
  <2> QED BY <1>1, <2>1, TimeAssumption
<1>3. timeout \in Nat /\ timeout <= M
  BY <1>1
<1> DEFINE milliseconds == Time!ToTimeoutMilliseconds(timeout)
<1>4. CASE timeout = 0
  <2>1. milliseconds = 0
    BY <1>4 DEF Time!ToTimeoutMilliseconds
  <2>2. 0 * k = 0 /\ 0 \in 0..(0 + k - 1)
    OBVIOUS
  <2> HIDE DEF milliseconds
  <2>3. milliseconds * NanosecondsPerMillisecond \in timeout..(timeout + NanosecondsPerMillisecond - 1)
    BY <1>1, <1>4, <2>1, <2>2
  <2> QED BY <2>3 DEF milliseconds
<1>5. CASE timeout # 0
  <2>1. PICK rounded \in 0..M :
          /\ rounded = Time!SaturatingAddUint64(timeout, k - 1)
          /\ timeout + (k - 1) <= M => rounded = timeout + (k - 1)
          /\ timeout + (k - 1) > M => rounded = M
    <3>1. k - 1 \in Nat
      OBVIOUS
    <3> QED BY <1>1, <3>1, SaturatedSum
  <2>2. PICK q \in Nat, r \in Nat :
          q = rounded \div k /\ r < k /\ rounded = q * k + r /\ q * k \in Nat
    BY Divided
  <2>3. milliseconds = IF W < q THEN W ELSE q
    BY <1>1, <1>5, <2>1, <2>2 DEF Time!ToTimeoutMilliseconds, Time!Least
  <2> HIDE DEF milliseconds
  <2>4. CASE timeout + (k - 1) <= M
    <3>1. q * k + r = timeout + k - 1
      BY <1>1, <1>3, <2>1, <2>2, <2>4
    <3>2. CASE W < q
      <4>1. W * k + k <= q * k
        BY <3>2, ProductsApart
      <4>2. timeout > W * k
        BY <1>2, <1>3, <2>2, <3>1, <4>1
      <4> QED BY <1>1, <2>3, <3>2, <4>2 DEF milliseconds
    <3>3. CASE ~(W < q)
      <4>1. q * k \in timeout..(timeout + k - 1)
        BY <1>3, <2>2, <3>1
      <4> QED BY <1>1, <2>3, <3>3, <4>1 DEF milliseconds
    <3> QED BY <3>2, <3>3
  <2>5. CASE timeout + (k - 1) > M
    <3>1. rounded = M /\ timeout > W * k
      BY <1>1, <1>2, <1>3, <2>1, <2>5
    <3>2. W <= q
      <4>1. W * k <= M
        BY <1>1, <1>2
      <4> QED BY <2>2, <3>1, <4>1, QuotientIs
    <3>3. milliseconds = W
      BY <2>3, <3>2
    <3> QED BY <1>1, <3>1, <3>3 DEF milliseconds
  <2> QED BY <1>1, <1>3, <2>4, <2>5
<1> QED BY <1>4, <1>5

\* A timed wait ends neither before its time nor more than a unit after it.
THEOREM WaitsAreLongEnough ==
  ASSUME NEW timeout \in 0..MaxUint64, NEW seconds \in 0..MaxTimeT,
         NEW nanoseconds \in 0..(NanosecondsPerSecond - 1)
  PROVE  Time!WaitsLongEnough(timeout, [seconds |-> seconds, nanoseconds |-> nanoseconds])
BY DeadlineIsSum, TimeoutIsRoundedUp DEF Time!WaitsLongEnough, Now

(***************************************************************************)
(* Clocks.                                                                 *)
(***************************************************************************)

LEMMA CountersRise ==
  ASSUME NEW a \in 0..MaxUint64, NEW b \in 0..MaxUint64, a <= b
  PROVE  Time!GetPerformanceCounter(a, 0) <= Time!GetPerformanceCounter(b, 0)
<1>1. PICK k \in Nat \ {0}, M \in Nat : k = NanosecondsPerSecond /\ M = MaxUint64
  BY TimeAssumption
<1>2. a \in Nat /\ b \in Nat /\ 0 \in Nat /\ a * k <= b * k /\ a * k \in Nat /\ b * k \in Nat
  BY <1>1, ProductsGrow
<1>3. PICK x \in 0..M : /\ x = Time!SaturatingMultiplyUint64(a, k)
                        /\ a * k <= M => x = a * k
                        /\ a * k > M => x = M
  BY <1>1, SaturatedProduct
<1>4. PICK y \in 0..M : /\ y = Time!SaturatingMultiplyUint64(b, k)
                        /\ b * k <= M => y = b * k
                        /\ b * k > M => y = M
  BY <1>1, SaturatedProduct
<1>5. x <= y
  BY <1>2, <1>3, <1>4
<1>6. Time!GetPerformanceCounter(a, 0) = x
  <2>1. x + 0 <= M /\ x + 0 = x
    BY <1>3
  <2> QED BY <1>1, <1>2, <1>3, <2>1, SaturatedSum DEF Time!GetPerformanceCounter
<1>7. Time!GetPerformanceCounter(b, 0) = y
  <2>1. y + 0 <= M /\ y + 0 = y
    BY <1>4
  <2> QED BY <1>1, <1>2, <1>4, <2>1, SaturatedSum DEF Time!GetPerformanceCounter
<1> QED BY <1>5, <1>6, <1>7

LEMMA WindowsCountersRise ==
  ASSUME NEW a \in 0..MaxUint64, NEW b \in 0..MaxUint64, a <= b, NEW frequency \in Nat
  PROVE  Time!ConvertPerformanceCounterToNanoseconds(a, frequency)
           <= Time!ConvertPerformanceCounterToNanoseconds(b, frequency)
<1>1. PICK k \in Nat \ {0}, M \in Nat : k = NanosecondsPerSecond /\ M = MaxUint64
  BY TimeAssumption
<1>2. a \in Nat /\ b \in Nat /\ a * k <= b * k /\ a * k \in Nat /\ b * k \in Nat
  BY <1>1, ProductsGrow
<1>3. CASE frequency = 0
  BY <1>3 DEF Time!ConvertPerformanceCounterToNanoseconds
<1>4. CASE frequency # 0
  <2>1. PICK p \in Nat, r \in Nat :
          /\ p = (a * k) \div frequency /\ r < frequency
          /\ a * k = p * frequency + r /\ p * frequency \in Nat
    BY <1>2, <1>4, Divided
  <2>2. PICK q \in Nat, s \in Nat :
          /\ q = (b * k) \div frequency /\ s < frequency
          /\ b * k = q * frequency + s /\ q * frequency \in Nat
    BY <1>2, <1>4, Divided
  <2>3. p <= q
    <3>1. PICK x \in Nat : x = b * k
      BY <1>2
    <3>2. p * frequency <= x /\ x = q * frequency + s
      BY <1>2, <2>1, <2>2, <3>1
    <3> QED BY <1>4, <2>1, <2>2, <3>2, QuotientIs
  <2>4. /\ Time!ConvertPerformanceCounterToNanoseconds(a, frequency) = IF M < p THEN M ELSE p
        /\ Time!ConvertPerformanceCounterToNanoseconds(b, frequency) = IF M < q THEN M ELSE q
    BY <1>1, <1>4, <2>1, <2>2 DEF Time!ConvertPerformanceCounterToNanoseconds, Time!Least
  <2> QED BY <2>3, <2>4
<1> QED BY <1>3, <1>4

\* Time does not run backwards.
THEOREM ClocksAreMonotone ==
  ASSUME NEW a \in 0..MaxUint64, NEW b \in 0..MaxUint64
  PROVE  Time!ClocksMonotone(a, b)
<1>1. PICK k \in Nat \ {0}, M \in Nat : k = NanosecondsPerMillisecond /\ M = MaxUint64
  BY TimeAssumption
<1>2. a \in Nat /\ b \in Nat /\ a <= M /\ b <= M
  BY <1>1
<1>3. ASSUME a <= b
      PROVE  Time!SaturatingAddUint64(a, Time!GetElapsedTime(a, b)) = b
  <2>1. PICK elapsed \in Nat : elapsed = Time!GetElapsedTime(a, b) /\ a + elapsed = b
    <3>1. CASE b <= a
      BY <1>2, <1>3, <3>1 DEF Time!GetElapsedTime
    <3>2. CASE ~(b <= a)
      <4>1. b - a \in Nat /\ a + (b - a) = b
        BY <1>2, <3>2
      <4> QED BY <3>2, <4>1 DEF Time!GetElapsedTime
    <3> QED BY <3>1, <3>2
  <2> QED BY <1>1, <1>2, <2>1, SaturatedSum
<1>4. Time!Minus(Time!SaturatingAddUint64(a, b), b) <= a
  <2>1. PICK s \in 0..M : /\ s = Time!SaturatingAddUint64(a, b)
                          /\ a + b <= M => s = a + b
                          /\ a + b > M => s = M
    BY <1>1, <1>2, SaturatedSum
  <2> QED BY <1>2, <2>1 DEF Time!Minus
<1>5. Time!MakeTimeDuration(a, NanosecondsPerMillisecond) \in a..MaxUint64
  <2>1. PICK p \in 0..M : /\ p = Time!SaturatingMultiplyUint64(a, k)
                          /\ a * k <= M => p = a * k
                          /\ a * k > M => p = M
    BY <1>1, SaturatedProduct
  <2>2. a <= a * k
    <3>1. k * a >= 1 * a
      BY <1>2, ProductsGrow
    <3> QED BY <1>2, <3>1
  <2>3. p \in a..M
    BY <1>2, <2>1, <2>2
  <2> QED BY <1>1, <2>1, <2>3 DEF Time!MakeTimeDuration
<1>6. \A frequency \in 0..MaxTimeT : frequency \in Nat
  BY TimeAssumption
<1> QED
  BY <1>3, <1>4, <1>5, <1>6, CountersRise, WindowsCountersRise DEF Time!ClocksMonotone

-----------------------------------------------------------------------------
(***************************************************************************)
(* The command line: what is true of the arguments parsed so far, for      *)
(* every prefix of them.                                                   *)
(***************************************************************************)

Settled ==
  [mode : {"Auto", "Fixed", "Sequential"}, requestedJobCount : Int, timeout : Int,
   maximumOutputBytes : Int, help : BOOLEAN, listOnly : BOOLEAN]

Parsing ==
  [options : Settled, testExecutables : Seq(Arguments), success : BOOLEAN,
   parseOptions : BOOLEAN, returned : BOOLEAN]

\* A value in units is its exact product, or refused.
LEMMA ScaledValue ==
  ASSUME NEW n \in Int, NEW worth \in Nat \ {0}, NEW limit \in 0..MaxUint64
  PROVE  /\ Opt!InRange(n, worth, limit) =>
              /\ Opt!TryScale(n, worth, limit) = n * worth
              /\ n * worth \in Nat
         /\ ~Opt!InRange(n, worth, limit) => Opt!TryScale(n, worth, limit) = Opt!Invalid
<1>1. PICK M \in Nat : M = MaxUint64
  BY TimeAssumption
<1>2. limit \in Nat /\ limit <= M
  BY <1>1
<1>3. CASE n \notin 1..M
  <2>1. ~Opt!InRange(n, worth, limit)
    BY <1>1, <1>2, <1>3 DEF Opt!InRange
  <2>2. Opt!TryParsePositiveInteger(n) = Opt!Invalid
    BY <1>1, <1>3 DEF Opt!TryParsePositiveInteger
  <2> QED BY <2>1, <2>2 DEF Opt!TryScale
<1>4. CASE n \in 1..M
  <2>1. Opt!TryParsePositiveInteger(n) = n /\ n # Opt!Invalid /\ n \in Nat
    BY <1>1, <1>4 DEF Opt!TryParsePositiveInteger, Opt!Invalid
  <2>2. PICK q \in Nat, r \in Nat :
          q = M \div worth /\ r < worth /\ M = q * worth + r /\ q * worth \in Nat
    BY <1>1, Divided
  <2>3. PICK p \in Nat : p = n * worth
    <3>1. n * worth \in Nat
      BY <2>1
    <3> QED BY <3>1
  <2>4. CASE n > q
    <3>1. q * worth + worth <= p
      BY <2>1, <2>2, <2>3, <2>4, ProductsApart
    <3>2. p > limit
      BY <1>2, <2>2, <3>1
    <3>3. Opt!TryScale(n, worth, limit) = Opt!Invalid
      BY <1>1, <1>2, <2>1, <2>2, <2>4 DEF Opt!TryScale, Opt!TryScaleValue, Opt!Invalid
    <3> QED BY <1>2, <2>3, <3>2, <3>3 DEF Opt!InRange
  <2>5. CASE n <= q
    <3>1. Opt!TryScaleValue(n, worth) = p
      BY <1>1, <2>1, <2>2, <2>3, <2>5 DEF Opt!TryScaleValue
    <3>2. n <= p
      <4>1. n * 1 <= n * worth
        BY <2>1, ProductsGrow
      <4> QED BY <2>1, <2>3, <4>1
    <3>3. Opt!InRange(n, worth, limit) <=> p <= limit
      BY <1>2, <1>4, <2>3, <3>2 DEF Opt!InRange
    <3>4. Opt!TryScale(n, worth, limit) = IF p > limit THEN Opt!Invalid ELSE p
      BY <2>1, <3>1 DEF Opt!TryScale
    <3> QED BY <1>2, <2>3, <3>3, <3>4
  <2> QED BY <2>1, <2>2, <2>4, <2>5
<1> QED BY <1>3, <1>4

\* What an option other than the separator and the help makes of what was parsed.
Takes(p, a, q) ==
  /\ q \in Parsing
  /\ q.testExecutables = p.testExecutables /\ q.parseOptions
  /\ ~Opt!Acceptable(a) => q.returned /\ ~q.success
  /\ Opt!Acceptable(a) =>
       /\ ~q.returned /\ (q.success <=> p.success)
       /\ q.options.timeout =
            IF a.kind = "timeout" THEN a.number * TimeUnits[a.unit] ELSE p.options.timeout
       /\ q.options.maximumOutputBytes =
            IF a.kind = "max-output" THEN a.number * ByteUnits[a.unit]
                                     ELSE p.options.maximumOutputBytes
       /\ q.options.mode = "Fixed" =>
            IF a.kind = "jobs" THEN q.options.requestedJobCount = a.number
            ELSE /\ p.options.mode = "Fixed"
                 /\ q.options.requestedJobCount = p.options.requestedJobCount

Open(p, a) ==
  /\ p \in Parsing /\ a \in Arguments /\ ~p.returned /\ p.parseOptions
  /\ a.kind \notin {"separator", "path", "help"}

LEMMA ArgumentTypes ==
  ASSUME NEW a \in Arguments
  PROVE  /\ a.kind \in {"separator", "help", "list", "sequential", "unknown", "path", "jobs",
                        "timeout", "max-output"}
         /\ a.number \in Int
BY OptionsAssumption

LEMMA WithOptions ==
  ASSUME NEW p \in Parsing, NEW o \in Settled
  PROVE  [p EXCEPT !.options = o] \in Parsing
BY DEF Parsing

LEMMA FailsIs ==
  ASSUME NEW p \in Parsing
  PROVE  /\ Opt!Fails(p) \in Parsing
         /\ Opt!Fails(p).testExecutables = p.testExecutables
         /\ Opt!Fails(p).parseOptions = p.parseOptions
         /\ Opt!Fails(p).returned /\ ~Opt!Fails(p).success
BY DEF Parsing, Opt!Fails

LEMMA Refused ==
  ASSUME NEW p, NEW a, Open(p, a), ~Opt!Acceptable(a)
  PROVE  Takes(p, a, Opt!Fails(p))
<1>1. p \in Parsing /\ p.parseOptions
  BY DEF Open
<1> QED BY <1>1, FailsIs DEF Takes

LEMMA JobsTaken ==
  ASSUME NEW p, NEW a, Open(p, a), a.kind = "jobs"
  PROVE  Takes(p, a, Opt!ParseJobs(p, a))
<1>1. p \in Parsing /\ a \in Arguments /\ ~p.returned /\ p.parseOptions /\ a.number \in Int
  BY ArgumentTypes DEF Open
<1>2. Opt!Acceptable(a) <=> (a.unit = "auto" \/ a.number \in 1..MaxUint64)
  BY DEF Opt!Acceptable
<1>3. CASE a.unit = "auto"
  <2> DEFINE q == [p EXCEPT !.options.mode = "Auto", !.options.requestedJobCount = 0]
  <2>1. Opt!ParseJobs(p, a) = q
    BY <1>3 DEF Opt!ParseJobs
  <2>2. q \in Parsing
    <3>1. p.options \in Settled
      BY <1>1 DEF Parsing
    <3>2. PICK o : o = [p.options EXCEPT !.mode = "Auto", !.requestedJobCount = 0]
      OBVIOUS
    <3>3. o \in Settled
      <4>1. PICK n \in Int : n = 0
        OBVIOUS
      <4>2. o = [p.options EXCEPT !.mode = "Auto", !.requestedJobCount = n]
        BY <3>2, <4>1
      <4> QED BY <3>1, <4>2 DEF Settled
    <3>4. q = [p EXCEPT !.options = o]
      BY <1>1, <3>2 DEF Parsing
    <3> QED BY <1>1, <3>3, <3>4, WithOptions
  <2>3. /\ q.testExecutables = p.testExecutables /\ q.parseOptions = p.parseOptions
        /\ q.returned = p.returned /\ q.success = p.success
        /\ q.options.timeout = p.options.timeout
        /\ q.options.maximumOutputBytes = p.options.maximumOutputBytes
        /\ q.options.mode = "Auto"
    BY <1>1 DEF Parsing, Settled
  <2> HIDE DEF q
  <2> QED BY <1>1, <1>2, <1>3, <2>1, <2>2, <2>3 DEF Takes
<1>4. CASE a.unit # "auto" /\ a.number \in 1..MaxUint64
  <2> DEFINE q == [p EXCEPT !.options.mode = "Fixed", !.options.requestedJobCount = a.number]
  <2>1. Opt!TryParsePositiveInteger(a.number) = a.number /\ a.number # Opt!Invalid
    BY <1>4, TimeAssumption DEF Opt!TryParsePositiveInteger, Opt!Invalid
  <2>2. Opt!ParseJobs(p, a) = q
    BY <1>4, <2>1 DEF Opt!ParseJobs
  <2>3. q \in Parsing
    <3>1. p.options \in Settled
      BY <1>1 DEF Parsing
    <3>2. PICK o : o = [p.options EXCEPT !.mode = "Fixed", !.requestedJobCount = a.number]
      OBVIOUS
    <3>3. o \in Settled
      BY <1>1, <3>1, <3>2 DEF Settled
    <3>4. q = [p EXCEPT !.options = o]
      BY <1>1, <3>2 DEF Parsing
    <3> QED BY <1>1, <3>3, <3>4, WithOptions
  <2>4. /\ q.testExecutables = p.testExecutables /\ q.parseOptions = p.parseOptions
        /\ q.returned = p.returned /\ q.success = p.success
        /\ q.options.timeout = p.options.timeout
        /\ q.options.maximumOutputBytes = p.options.maximumOutputBytes
        /\ q.options.requestedJobCount = a.number
    BY <1>1 DEF Parsing, Settled
  <2> HIDE DEF q
  <2> QED BY <1>1, <1>2, <1>4, <2>2, <2>3, <2>4 DEF Takes
<1>5. CASE a.unit # "auto" /\ a.number \notin 1..MaxUint64
  <2>1. Opt!TryParsePositiveInteger(a.number) = Opt!Invalid
    BY <1>5 DEF Opt!TryParsePositiveInteger
  <2>2. Opt!ParseJobs(p, a) = Opt!Fails(p)
    BY <1>5, <2>1 DEF Opt!ParseJobs
  <2> QED BY <1>2, <1>5, <2>2, Refused
<1> QED BY <1>3, <1>4, <1>5

LEMMA TimeoutTaken ==
  ASSUME NEW p, NEW a, Open(p, a), a.kind = "timeout"
  PROVE  Takes(p, a, Opt!ParseTimeout(p, a))
<1>1. p \in Parsing /\ a \in Arguments /\ ~p.returned /\ p.parseOptions /\ a.number \in Int
  BY ArgumentTypes DEF Open
<1>2. Opt!Acceptable(a) <=>
        /\ a.unit \in DOMAIN TimeUnits
        /\ Opt!InRange(a.number, TimeUnits[a.unit], MaximumTimeoutMilliseconds)
  BY DEF Opt!Acceptable, Opt!Units, Opt!Limit
<1>3. CASE ~Opt!Acceptable(a)
  <2>1. Opt!TryParseDuration(a.number, a.unit) = Opt!Invalid
    <3>1. CASE a.unit \notin DOMAIN TimeUnits
      BY <3>1 DEF Opt!TryParseDuration
    <3>2. CASE a.unit \in DOMAIN TimeUnits
      <4>1. PICK worth \in Nat \ {0} : worth = TimeUnits[a.unit]
        BY <3>2, OptionsAssumption
      <4>2. Opt!TryScale(a.number, worth, MaximumTimeoutMilliseconds) = Opt!Invalid
        BY <1>1, <1>2, <1>3, <3>2, <4>1, OptionsAssumption, ScaledValue
      <4> QED BY <3>2, <4>1, <4>2 DEF Opt!TryParseDuration
    <3> QED BY <3>1, <3>2
  <2>2. Opt!ParseTimeout(p, a) = Opt!Fails(p)
    BY <2>1 DEF Opt!ParseTimeout
  <2> QED BY <1>3, <2>2, Refused
<1>4. CASE Opt!Acceptable(a)
  <2>1. PICK worth \in Nat \ {0} : worth = TimeUnits[a.unit]
    BY <1>2, <1>4, OptionsAssumption
  <2>2. PICK value \in Nat :
          /\ value = a.number * worth
          /\ Opt!TryScale(a.number, worth, MaximumTimeoutMilliseconds) = value
    BY <1>1, <1>2, <1>4, <2>1, OptionsAssumption, ScaledValue
  <2>3. Opt!TryParseDuration(a.number, a.unit) = value /\ value # Opt!Invalid
    BY <1>2, <1>4, <2>1, <2>2 DEF Opt!TryParseDuration, Opt!Invalid
  <2> DEFINE q == [p EXCEPT !.options.timeout = value]
  <2>4. Opt!ParseTimeout(p, a) = q
    BY <2>3 DEF Opt!ParseTimeout
  <2>5. q \in Parsing
    <3>1. p.options \in Settled
      BY <1>1 DEF Parsing
    <3>2. PICK o : o = [p.options EXCEPT !.timeout = value]
      OBVIOUS
    <3>3. o \in Settled
      BY <1>1, <3>1, <3>2 DEF Settled
    <3>4. q = [p EXCEPT !.options = o]
      BY <1>1, <3>2 DEF Parsing
    <3> QED BY <1>1, <3>3, <3>4, WithOptions
  <2>6. /\ q.testExecutables = p.testExecutables /\ q.parseOptions = p.parseOptions
        /\ q.returned = p.returned /\ q.success = p.success
        /\ q.options.timeout = value
        /\ q.options.maximumOutputBytes = p.options.maximumOutputBytes
        /\ q.options.mode = p.options.mode
        /\ q.options.requestedJobCount = p.options.requestedJobCount
    BY <1>1 DEF Parsing, Settled
  <2>7. q.options.timeout = a.number * TimeUnits[a.unit]
    BY <2>1, <2>2, <2>6
  <2> HIDE DEF q
  <2> QED BY <1>1, <1>4, <2>4, <2>5, <2>6, <2>7 DEF Takes
<1> QED BY <1>3, <1>4

LEMMA MaxOutputTaken ==
  ASSUME NEW p, NEW a, Open(p, a), a.kind = "max-output"
  PROVE  Takes(p, a, Opt!ParseMaxOutput(p, a))
<1>1. p \in Parsing /\ a \in Arguments /\ ~p.returned /\ p.parseOptions /\ a.number \in Int
  BY ArgumentTypes DEF Open
<1>2. Opt!Acceptable(a) <=>
        /\ a.unit \in DOMAIN ByteUnits
        /\ Opt!InRange(a.number, ByteUnits[a.unit], MaximumOutputBytes)
  BY DEF Opt!Acceptable, Opt!Units, Opt!Limit
<1>3. CASE ~Opt!Acceptable(a)
  <2>1. Opt!TryParseByteSize(a.number, a.unit) = Opt!Invalid
    <3>1. CASE a.unit \notin DOMAIN ByteUnits
      BY <3>1 DEF Opt!TryParseByteSize
    <3>2. CASE a.unit \in DOMAIN ByteUnits
      <4>1. PICK worth \in Nat \ {0} : worth = ByteUnits[a.unit]
        BY <3>2, OptionsAssumption
      <4>2. Opt!TryScale(a.number, worth, MaximumOutputBytes) = Opt!Invalid
        BY <1>1, <1>2, <1>3, <3>2, <4>1, OptionsAssumption, ScaledValue
      <4> QED BY <3>2, <4>1, <4>2 DEF Opt!TryParseByteSize
    <3> QED BY <3>1, <3>2
  <2>2. Opt!ParseMaxOutput(p, a) = Opt!Fails(p)
    BY <2>1 DEF Opt!ParseMaxOutput
  <2> QED BY <1>3, <2>2, Refused
<1>4. CASE Opt!Acceptable(a)
  <2>1. PICK worth \in Nat \ {0} : worth = ByteUnits[a.unit]
    BY <1>2, <1>4, OptionsAssumption
  <2>2. PICK value \in Nat :
          /\ value = a.number * worth
          /\ Opt!TryScale(a.number, worth, MaximumOutputBytes) = value
    BY <1>1, <1>2, <1>4, <2>1, OptionsAssumption, ScaledValue
  <2>3. Opt!TryParseByteSize(a.number, a.unit) = value /\ value # Opt!Invalid
    BY <1>2, <1>4, <2>1, <2>2 DEF Opt!TryParseByteSize, Opt!Invalid
  <2> DEFINE q == [p EXCEPT !.options.maximumOutputBytes = value]
  <2>4. Opt!ParseMaxOutput(p, a) = q
    BY <2>3 DEF Opt!ParseMaxOutput
  <2>5. q \in Parsing
    <3>1. p.options \in Settled
      BY <1>1 DEF Parsing
    <3>2. PICK o : o = [p.options EXCEPT !.maximumOutputBytes = value]
      OBVIOUS
    <3>3. o \in Settled
      BY <1>1, <3>1, <3>2 DEF Settled
    <3>4. q = [p EXCEPT !.options = o]
      BY <1>1, <3>2 DEF Parsing
    <3> QED BY <1>1, <3>3, <3>4, WithOptions
  <2>6. /\ q.testExecutables = p.testExecutables /\ q.parseOptions = p.parseOptions
        /\ q.returned = p.returned /\ q.success = p.success
        /\ q.options.timeout = p.options.timeout
        /\ q.options.maximumOutputBytes = value
        /\ q.options.mode = p.options.mode
        /\ q.options.requestedJobCount = p.options.requestedJobCount
    BY <1>1 DEF Parsing, Settled
  <2>7. q.options.maximumOutputBytes = a.number * ByteUnits[a.unit]
    BY <2>1, <2>2, <2>6
  <2> HIDE DEF q
  <2> QED BY <1>1, <1>4, <2>4, <2>5, <2>6, <2>7 DEF Takes
<1> QED BY <1>3, <1>4

LEMMA OptionTaken ==
  ASSUME NEW p, NEW a, Open(p, a)
  PROVE  Takes(p, a, Opt!ParseArgument(p, a))
<1>1. p \in Parsing /\ a \in Arguments /\ ~p.returned /\ p.parseOptions
  BY DEF Open
<1>2. a.kind \in {"list", "sequential", "unknown", "jobs", "timeout", "max-output"}
  BY ArgumentTypes DEF Open
<1>3. Opt!ParseArgument(p, a) = Opt!ParseOption(p, a)
  BY <1>1, <1>2 DEF Opt!ParseArgument
<1>4. CASE a.kind = "list"
  <2> DEFINE q == [p EXCEPT !.options.listOnly = TRUE]
  <2>1. Opt!ParseOption(p, a) = q /\ Opt!Acceptable(a)
    BY <1>4 DEF Opt!ParseOption, Opt!Acceptable
  <2>2. q \in Parsing
    <3>1. p.options \in Settled
      BY <1>1 DEF Parsing
    <3>2. PICK o : o = [p.options EXCEPT !.listOnly = TRUE]
      OBVIOUS
    <3>3. o \in Settled
      BY <1>1, <3>1, <3>2 DEF Settled
    <3>4. q = [p EXCEPT !.options = o]
      BY <1>1, <3>2 DEF Parsing
    <3> QED BY <1>1, <3>3, <3>4, WithOptions
  <2>3. /\ q.testExecutables = p.testExecutables /\ q.parseOptions = p.parseOptions
        /\ q.returned = p.returned /\ q.success = p.success
        /\ q.options.timeout = p.options.timeout
        /\ q.options.maximumOutputBytes = p.options.maximumOutputBytes
        /\ q.options.mode = p.options.mode
        /\ q.options.requestedJobCount = p.options.requestedJobCount
    BY <1>1 DEF Parsing, Settled
  <2> HIDE DEF q
  <2> QED BY <1>1, <1>3, <1>4, <2>1, <2>2, <2>3 DEF Takes
<1>5. CASE a.kind = "sequential"
  <2> DEFINE q == [p EXCEPT !.options.mode = "Sequential", !.options.requestedJobCount = 1]
  <2>1. Opt!ParseOption(p, a) = q /\ Opt!Acceptable(a)
    BY <1>5 DEF Opt!ParseOption, Opt!Acceptable
  <2>2. q \in Parsing
    <3>1. p.options \in Settled
      BY <1>1 DEF Parsing
    <3>2. PICK o : o = [p.options EXCEPT !.mode = "Sequential", !.requestedJobCount = 1]
      OBVIOUS
    <3>3. o \in Settled
      <4>1. PICK n \in Int : n = 1
        OBVIOUS
      <4>2. o = [p.options EXCEPT !.mode = "Sequential", !.requestedJobCount = n]
        BY <3>2, <4>1
      <4> QED BY <3>1, <4>2 DEF Settled
    <3>4. q = [p EXCEPT !.options = o]
      BY <1>1, <3>2 DEF Parsing
    <3> QED BY <1>1, <3>3, <3>4, WithOptions
  <2>3. /\ q.testExecutables = p.testExecutables /\ q.parseOptions = p.parseOptions
        /\ q.returned = p.returned /\ q.success = p.success
        /\ q.options.timeout = p.options.timeout
        /\ q.options.maximumOutputBytes = p.options.maximumOutputBytes
        /\ q.options.mode = "Sequential"
    BY <1>1 DEF Parsing, Settled
  <2> HIDE DEF q
  <2> QED BY <1>1, <1>3, <1>5, <2>1, <2>2, <2>3 DEF Takes
<1>6. CASE a.kind = "unknown"
  <2>1. Opt!ParseOption(p, a) = Opt!Fails(p) /\ ~Opt!Acceptable(a)
    BY <1>6 DEF Opt!ParseOption, Opt!Acceptable
  <2> QED BY <1>3, <2>1, Refused
<1>7. CASE a.kind = "jobs"
  BY <1>3, <1>7, JobsTaken DEF Opt!ParseOption
<1>8. CASE a.kind = "timeout"
  BY <1>3, <1>8, TimeoutTaken DEF Opt!ParseOption
<1>9. CASE a.kind = "max-output"
  BY <1>3, <1>9, MaxOutputTaken DEF Opt!ParseOption
<1> QED BY <1>2, <1>4, <1>5, <1>6, <1>7, <1>8, <1>9

\* The arguments by place: options are before the separator, the rest are paths.
Separated(args, i) == \E j \in 1..i : args[j].kind = "separator"
IsOption(args, i) == ~Separated(args, i) /\ args[i].kind # "path"
IsPath(args, i) == args[i].kind = "path" \/ Separated(args, i - 1)
Stops(args, i) == IsOption(args, i) /\ (args[i].kind = "help" \/ ~Opt!Acceptable(args[i]))
PathsTo(args, i) == {j \in 1..i : IsPath(args, j)}
OptionsTo(args, i) == {j \in 1..i : IsOption(args, j)}
LastOf(args, kind, i) ==
  {k \in OptionsTo(args, i) : /\ args[k].kind = kind
                              /\ \A j \in OptionsTo(args, i) : args[j].kind = kind => j <= k}

\* What was parsed of the first i arguments.
PathsKept(args, i, paths) ==
  /\ paths \in Seq(Arguments) /\ Len(paths) = Cardinality(PathsTo(args, i))
  /\ \A k \in PathsTo(args, i) : paths[Cardinality(PathsTo(args, k))] = args[k]

ValuesKept(args, i, options) ==
  /\ \A k \in LastOf(args, "timeout", i) :
       options.timeout = args[k].number * TimeUnits[args[k].unit]
  /\ \A k \in LastOf(args, "max-output", i) :
       options.maximumOutputBytes = args[k].number * ByteUnits[args[k].unit]
  /\ options.mode = "Fixed" =>
       \E k \in LastOf(args, "jobs", i) : options.requestedJobCount = args[k].number

Going(args, i, p) ==
  /\ ~p.returned /\ p.success /\ (p.parseOptions <=> ~Separated(args, i))
  /\ PathsKept(args, i, p.testExecutables) /\ ValuesKept(args, i, p.options)

Ended(args, i, p) ==
  /\ p.returned
  /\ \A j \in 1..i : Stops(args, j) /\ (\A m \in 1..(j - 1) : ~Stops(args, m)) =>
       (p.success <=> args[j].kind = "help")

ParsedTo(args, i, p) ==
  /\ p \in Parsing
  /\ (\E j \in 1..i : Stops(args, j)) => Ended(args, i, p)
  /\ (\A j \in 1..i : ~Stops(args, j)) => Going(args, i, p)

-----------------------------------------------------------------------------
(* One argument more.                                                      *)

LEMMA PathsGrow ==
  ASSUME NEW args, NEW i \in Nat \ {0}
  PROVE  /\ IsFiniteSet(PathsTo(args, i - 1)) /\ IsFiniteSet(PathsTo(args, i))
         /\ Cardinality(PathsTo(args, i - 1)) \in Nat
         /\ IsPath(args, i) =>
              /\ PathsTo(args, i) = PathsTo(args, i - 1) \cup {i}
              /\ Cardinality(PathsTo(args, i)) = Cardinality(PathsTo(args, i - 1)) + 1
         /\ ~IsPath(args, i) => PathsTo(args, i) = PathsTo(args, i - 1)
<1>1. \A k \in Nat : IsFiniteSet(PathsTo(args, k)) /\ Cardinality(PathsTo(args, k)) \in Nat
  <2> SUFFICES ASSUME NEW k \in Nat
               PROVE  IsFiniteSet(PathsTo(args, k)) /\ Cardinality(PathsTo(args, k)) \in Nat
    OBVIOUS
  <2>1. IsFiniteSet(1..k) /\ PathsTo(args, k) \subseteq 1..k
    BY FS_Interval DEF PathsTo
  <2> QED BY <2>1, FS_Subset, FS_CardinalityType
<1>2. 1..i = 1..(i - 1) \cup {i} /\ i \notin 1..(i - 1) /\ i - 1 \in Nat
  OBVIOUS
<1>3. IsPath(args, i) => PathsTo(args, i) = PathsTo(args, i - 1) \cup {i}
  BY <1>2 DEF PathsTo
<1>4. ~IsPath(args, i) => PathsTo(args, i) = PathsTo(args, i - 1)
  BY <1>2 DEF PathsTo
<1>5. i \notin PathsTo(args, i - 1)
  BY <1>2 DEF PathsTo
<1>6. IsFiniteSet(PathsTo(args, i - 1)) /\ Cardinality(PathsTo(args, i - 1)) \in Nat
  BY <1>1, <1>2
<1>7. Cardinality(PathsTo(args, i - 1) \cup {i}) = Cardinality(PathsTo(args, i - 1)) + 1
  BY <1>5, <1>6, FS_AddElement
<1> QED BY <1>1, <1>3, <1>4, <1>6, <1>7

\* The place of a path among the paths.
LEMMA PathPlace ==
  ASSUME NEW args, NEW i \in Nat, NEW k \in PathsTo(args, i)
  PROVE  Cardinality(PathsTo(args, k)) \in 1..Cardinality(PathsTo(args, i))
<1>1. k \in Nat \ {0} /\ k \in 1..i /\ IsPath(args, k)
  BY DEF PathsTo
<1>2. /\ IsFiniteSet(PathsTo(args, k - 1)) /\ IsFiniteSet(PathsTo(args, k))
      /\ Cardinality(PathsTo(args, k - 1)) \in Nat
      /\ Cardinality(PathsTo(args, k)) = Cardinality(PathsTo(args, k - 1)) + 1
  BY <1>1, PathsGrow
<1>3. IsFiniteSet(PathsTo(args, i))
  <2>1. IsFiniteSet(1..i) /\ PathsTo(args, i) \subseteq 1..i
    BY FS_Interval DEF PathsTo
  <2> QED BY <2>1, FS_Subset
<1>4. PathsTo(args, k) \subseteq PathsTo(args, i)
  BY <1>1 DEF PathsTo
<1>5. /\ Cardinality(PathsTo(args, k)) <= Cardinality(PathsTo(args, i))
      /\ Cardinality(PathsTo(args, i)) \in Nat
  BY <1>3, <1>4, FS_Subset, FS_CardinalityType
<1> QED BY <1>2, <1>5

LEMMA PathTaken ==
  ASSUME NEW args, NEW i \in Nat \ {0}, NEW paths, NEW a \in Arguments,
         PathsKept(args, i - 1, paths), IsPath(args, i), a = args[i]
  PROVE  PathsKept(args, i, Append(paths, a))
<1>1. PICK c \in Nat : c = Cardinality(PathsTo(args, i - 1))
  BY PathsGrow
<1>2. /\ PathsTo(args, i) = PathsTo(args, i - 1) \cup {i}
      /\ Cardinality(PathsTo(args, i)) = c + 1
  BY <1>1, PathsGrow
<1>3. paths \in Seq(Arguments) /\ Len(paths) = c
  BY <1>1 DEF PathsKept
<1>4. /\ Append(paths, a) \in Seq(Arguments) /\ Len(Append(paths, a)) = c + 1
      /\ Append(paths, a)[c + 1] = a
      /\ \A n \in 1..c : Append(paths, a)[n] = paths[n]
  BY <1>3, AppendProperties
<1>5. ASSUME NEW k \in PathsTo(args, i)
      PROVE  Append(paths, a)[Cardinality(PathsTo(args, k))] = args[k]
  <2>1. CASE k = i
    BY <1>2, <1>4, <2>1
  <2>2. CASE k \in PathsTo(args, i - 1)
    <3>1. Cardinality(PathsTo(args, k)) \in 1..c
      BY <1>1, <2>2, PathPlace
    <3>2. paths[Cardinality(PathsTo(args, k))] = args[k]
      BY <2>2 DEF PathsKept
    <3> QED BY <1>4, <3>1, <3>2
  <2> QED BY <1>2, <2>1, <2>2
<1> QED BY <1>2, <1>4, <1>5 DEF PathsKept

LEMMA PathsSame ==
  ASSUME NEW args, NEW i \in Nat \ {0}, NEW paths,
         PathsKept(args, i - 1, paths), ~IsPath(args, i)
  PROVE  PathsKept(args, i, paths)
BY PathsGrow DEF PathsKept

LEMMA OptionsGrow ==
  ASSUME NEW args, NEW i \in Nat \ {0}
  PROVE  /\ IsOption(args, i) => OptionsTo(args, i) = OptionsTo(args, i - 1) \cup {i}
         /\ ~IsOption(args, i) => OptionsTo(args, i) = OptionsTo(args, i - 1)
         /\ \A j \in OptionsTo(args, i - 1) : j \in Nat /\ j < i
<1>1. 1..i = 1..(i - 1) \cup {i}
  OBVIOUS
<1> QED BY <1>1 DEF OptionsTo

LEMMA LastSame ==
  ASSUME NEW args, NEW i \in Nat \ {0}, NEW kind,
         ~(IsOption(args, i) /\ args[i].kind = kind)
  PROVE  LastOf(args, kind, i) = LastOf(args, kind, i - 1)
<1>1. CASE ~IsOption(args, i)
  BY <1>1, OptionsGrow DEF LastOf
<1>2. CASE IsOption(args, i)
  <2>1. OptionsTo(args, i) = OptionsTo(args, i - 1) \cup {i} /\ args[i].kind # kind
    BY <1>2, OptionsGrow
  <2> QED BY <2>1 DEF LastOf
<1> QED BY <1>1, <1>2

LEMMA LastIs ==
  ASSUME NEW args, NEW i \in Nat \ {0}, IsOption(args, i)
  PROVE  LastOf(args, args[i].kind, i) = {i}
<1>1. /\ OptionsTo(args, i) = OptionsTo(args, i - 1) \cup {i}
      /\ \A j \in OptionsTo(args, i - 1) : j \in Nat /\ j < i
  BY OptionsGrow
<1>2. i \in LastOf(args, args[i].kind, i)
  BY <1>1 DEF LastOf
<1>3. ASSUME NEW k \in LastOf(args, args[i].kind, i)
      PROVE  k = i
  <2>1. k \in OptionsTo(args, i) /\ i <= k
    BY <1>1 DEF LastOf
  <2> QED BY <1>1, <2>1
<1> QED BY <1>2, <1>3

LEMMA ValuesSame ==
  ASSUME NEW args, NEW i \in Nat \ {0}, NEW o, ValuesKept(args, i - 1, o), ~IsOption(args, i)
  PROVE  ValuesKept(args, i, o)
<1>1. \A kind : LastOf(args, kind, i) = LastOf(args, kind, i - 1)
  BY LastSame
<1> QED BY <1>1 DEF ValuesKept

LEMMA ValuesTaken ==
  ASSUME NEW args, NEW i \in Nat \ {0}, NEW p, NEW q,
         ValuesKept(args, i - 1, p.options), IsOption(args, i),
         Takes(p, args[i], q), Opt!Acceptable(args[i])
  PROVE  ValuesKept(args, i, q.options)
<1>1. \A kind : kind # args[i].kind => LastOf(args, kind, i) = LastOf(args, kind, i - 1)
  BY LastSame
<1>2. LastOf(args, args[i].kind, i) = {i}
  BY LastIs
<1>3. ASSUME NEW k \in LastOf(args, "timeout", i)
      PROVE  q.options.timeout = args[k].number * TimeUnits[args[k].unit]
  <2>1. CASE args[i].kind = "timeout"
    <3>1. k = i
      BY <1>2, <2>1
    <3> QED BY <2>1, <3>1 DEF Takes
  <2>2. CASE args[i].kind # "timeout"
    <3>1. k \in LastOf(args, "timeout", i - 1)
      BY <1>1, <2>2
    <3>2. q.options.timeout = p.options.timeout
      BY <2>2 DEF Takes
    <3> QED BY <3>1, <3>2 DEF ValuesKept
  <2> QED BY <2>1, <2>2
<1>4. ASSUME NEW k \in LastOf(args, "max-output", i)
      PROVE  q.options.maximumOutputBytes = args[k].number * ByteUnits[args[k].unit]
  <2>1. CASE args[i].kind = "max-output"
    <3>1. k = i
      BY <1>2, <2>1
    <3> QED BY <2>1, <3>1 DEF Takes
  <2>2. CASE args[i].kind # "max-output"
    <3>1. k \in LastOf(args, "max-output", i - 1)
      BY <1>1, <2>2
    <3>2. q.options.maximumOutputBytes = p.options.maximumOutputBytes
      BY <2>2 DEF Takes
    <3> QED BY <3>1, <3>2 DEF ValuesKept
  <2> QED BY <2>1, <2>2
<1>5. ASSUME q.options.mode = "Fixed"
      PROVE  \E k \in LastOf(args, "jobs", i) : q.options.requestedJobCount = args[k].number
  <2>1. CASE args[i].kind = "jobs"
    <3>1. q.options.requestedJobCount = args[i].number
      BY <1>5, <2>1 DEF Takes
    <3> QED BY <1>2, <2>1, <3>1
  <2>2. CASE args[i].kind # "jobs"
    <3>1. p.options.mode = "Fixed" /\ q.options.requestedJobCount = p.options.requestedJobCount
      BY <1>5, <2>2 DEF Takes
    <3>2. PICK k \in LastOf(args, "jobs", i - 1) : p.options.requestedJobCount = args[k].number
      BY <3>1 DEF ValuesKept
    <3> QED BY <1>1, <2>2, <3>1, <3>2
  <2> QED BY <2>1, <2>2
<1> QED BY <1>3, <1>4, <1>5 DEF ValuesKept

LEMMA SeparatedBy ==
  ASSUME NEW args, NEW i \in Nat \ {0}
  PROVE  Separated(args, i) <=> (Separated(args, i - 1) \/ args[i].kind = "separator")
<1>1. 1..i = 1..(i - 1) \cup {i}
  OBVIOUS
<1> QED BY <1>1 DEF Separated

LEMMA EndedStays ==
  ASSUME NEW args, NEW i \in Nat \ {0}, NEW p, ParsedTo(args, i - 1, p),
         NEW j \in 1..(i - 1), Stops(args, j)
  PROVE  ParsedTo(args, i, Opt!ParseArgument(p, args[i]))
<1>1. p.returned /\ p \in Parsing /\ Ended(args, i - 1, p)
  BY DEF ParsedTo, Ended
<1>2. Opt!ParseArgument(p, args[i]) = p
  BY <1>1 DEF Opt!ParseArgument
<1>3. 1..i = 1..(i - 1) \cup {i}
  OBVIOUS
<1>4. Ended(args, i, p)
  BY <1>1, <1>3 DEF Ended
<1> QED BY <1>1, <1>2, <1>3, <1>4 DEF ParsedTo

LEMMA GoingOn ==
  ASSUME NEW args, NEW i \in Nat \ {0}, NEW p,
         p \in Parsing, Going(args, i, p), ~Stops(args, i), \A j \in 1..(i - 1) : ~Stops(args, j)
  PROVE  ParsedTo(args, i, p)
<1>1. 1..i = 1..(i - 1) \cup {i}
  OBVIOUS
<1> QED BY <1>1 DEF ParsedTo

LEMMA EndsHere ==
  ASSUME NEW args, NEW i \in Nat \ {0}, NEW p,
         p \in Parsing, p.returned, p.success <=> args[i].kind = "help",
         Stops(args, i), \A j \in 1..(i - 1) : ~Stops(args, j)
  PROVE  ParsedTo(args, i, p)
<1>1. 1..i = 1..(i - 1) \cup {i} /\ i \in 1..i
  OBVIOUS
<1>2. \A j \in 1..i : Stops(args, j) => j = i
  BY <1>1
<1>3. Ended(args, i, p)
  BY <1>2 DEF Ended
<1> QED BY <1>1, <1>3 DEF ParsedTo

LEMMA ArgumentParsed ==
  ASSUME NEW args \in Seq(Arguments), NEW i \in 1..Len(args), NEW p, ParsedTo(args, i - 1, p)
  PROVE  ParsedTo(args, i, Opt!ParseArgument(p, args[i]))
<1>1. PICK a \in Arguments : a = args[i]
  <2>1. args[i] \in Arguments
    OBVIOUS
  <2> QED BY <2>1
<1>2. i \in Nat \ {0} /\ p \in Parsing
  BY DEF ParsedTo
<1>3. CASE \E j \in 1..(i - 1) : Stops(args, j)
  BY <1>2, <1>3, EndedStays
<1>4. CASE \A j \in 1..(i - 1) : ~Stops(args, j)
  <2>1. /\ Going(args, i - 1, p) /\ ~p.returned /\ p.success
        /\ (p.parseOptions <=> ~Separated(args, i - 1))
        /\ PathsKept(args, i - 1, p.testExecutables) /\ ValuesKept(args, i - 1, p.options)
    BY <1>4 DEF ParsedTo, Going
  <2>2. Separated(args, i) <=> (Separated(args, i - 1) \/ a.kind = "separator")
    BY <1>1, <1>2, SeparatedBy
  <2> DEFINE q == Opt!ParseArgument(p, a)
  <2>3. CASE IsPath(args, i)
    <3>1. q = [p EXCEPT !.testExecutables = Append(@, a)]
      BY <1>1, <2>1, <2>3 DEF Opt!ParseArgument, IsPath
    <3>2. p.testExecutables \in Seq(Arguments)
      BY <1>2 DEF Parsing
    <3>3. PICK paths \in Seq(Arguments) : paths = Append(p.testExecutables, a)
      <4>1. Append(p.testExecutables, a) \in Seq(Arguments)
        BY <3>2, AppendProperties
      <4> QED BY <4>1
    <3>4. q = [p EXCEPT !.testExecutables = paths]
      BY <3>1, <3>3
    <3>5. /\ q \in Parsing /\ q.testExecutables = paths /\ q.options = p.options
          /\ q.success = p.success /\ q.parseOptions = p.parseOptions
          /\ q.returned = p.returned
      BY <1>2, <3>4 DEF Parsing
    <3>6. ~IsOption(args, i) /\ (Separated(args, i) <=> Separated(args, i - 1))
      BY <1>1, <2>2, <2>3 DEF IsPath, IsOption
    <3>7. ~Stops(args, i)
      BY <3>6 DEF Stops
    <3>8. PathsKept(args, i, paths)
      BY <1>1, <1>2, <2>1, <2>3, <3>3, PathTaken
    <3>9. ValuesKept(args, i, p.options)
      BY <1>2, <2>1, <3>6, ValuesSame
    <3>10. Going(args, i, q)
      BY <2>1, <3>5, <3>6, <3>8, <3>9 DEF Going
    <3> HIDE DEF q
    <3>11. ParsedTo(args, i, q)
      BY <1>2, <1>4, <3>5, <3>7, <3>10, GoingOn
    <3> QED BY <1>1, <3>11 DEF q
  <2>4. CASE ~IsPath(args, i) /\ a.kind = "separator"
    <3>1. ~Separated(args, i - 1) /\ Separated(args, i) /\ ~IsOption(args, i)
      BY <1>1, <2>2, <2>4 DEF IsPath, IsOption
    <3>2. q = [p EXCEPT !.parseOptions = FALSE]
      BY <2>1, <2>4, <3>1 DEF Opt!ParseArgument, Opt!ParseOption
    <3>3. /\ q \in Parsing /\ q.testExecutables = p.testExecutables /\ q.options = p.options
          /\ q.success = p.success /\ ~q.parseOptions /\ q.returned = p.returned
      BY <1>2, <3>2 DEF Parsing
    <3>4. ~Stops(args, i)
      BY <3>1 DEF Stops
    <3>5. PathsKept(args, i, p.testExecutables) /\ ValuesKept(args, i, p.options)
      BY <1>2, <2>1, <2>4, <3>1, PathsSame, ValuesSame
    <3>6. Going(args, i, q)
      BY <2>1, <3>1, <3>3, <3>5 DEF Going
    <3> HIDE DEF q
    <3>7. ParsedTo(args, i, q)
      BY <1>2, <1>4, <3>3, <3>4, <3>6, GoingOn
    <3> QED BY <1>1, <3>7 DEF q
  <2>5. CASE ~IsPath(args, i) /\ a.kind = "help"
    <3>1. ~Separated(args, i - 1) /\ ~Separated(args, i) /\ IsOption(args, i)
      BY <1>1, <2>2, <2>5 DEF IsPath, IsOption
    <3>2. q = [p EXCEPT !.options.help = TRUE, !.returned = TRUE]
      BY <2>1, <2>5, <3>1 DEF Opt!ParseArgument, Opt!ParseOption
    <3>3. q \in Parsing /\ q.success = p.success /\ q.returned
      <4>1. p.options \in Settled
        BY <1>2 DEF Parsing
      <4>2. PICK o \in Settled : o = [p.options EXCEPT !.help = TRUE]
        <5>1. [p.options EXCEPT !.help = TRUE] \in Settled
          BY <4>1 DEF Settled
        <5> QED BY <5>1
      <4>3. q = [p EXCEPT !.options = o, !.returned = TRUE]
        BY <1>2, <3>2, <4>2 DEF Parsing
      <4> QED BY <1>2, <4>3 DEF Parsing
    <3>4. Stops(args, i)
      BY <1>1, <2>5, <3>1 DEF Stops
    <3> HIDE DEF q
    <3>5. ParsedTo(args, i, q)
      BY <1>1, <1>2, <1>4, <2>1, <2>5, <3>3, <3>4, EndsHere
    <3> QED BY <1>1, <3>5 DEF q
  <2>6. CASE ~IsPath(args, i) /\ a.kind \notin {"separator", "help"}
    <3>1. /\ ~Separated(args, i - 1) /\ ~Separated(args, i) /\ IsOption(args, i)
          /\ a.kind # "path"
      BY <1>1, <2>2, <2>6 DEF IsPath, IsOption
    <3>2. Open(p, a)
      BY <1>2, <2>1, <2>6, <3>1 DEF Open
    <3>3. Takes(p, a, q)
      BY <3>2, OptionTaken
    <3>4. q \in Parsing /\ q.testExecutables = p.testExecutables /\ q.parseOptions
      BY <3>3 DEF Takes
    <3> HIDE DEF q
    <3>5. CASE ~Opt!Acceptable(a)
      <4>1. q.returned /\ ~q.success
        BY <3>3, <3>5 DEF Takes
      <4>2. Stops(args, i)
        BY <1>1, <3>1, <3>5 DEF Stops
      <4>3. ParsedTo(args, i, q)
        BY <1>1, <1>2, <1>4, <2>6, <3>4, <4>1, <4>2, EndsHere
      <4> QED BY <1>1, <4>3 DEF q
    <3>6. CASE Opt!Acceptable(a)
      <4>1. ~q.returned /\ q.success
        BY <2>1, <3>3, <3>6 DEF Takes
      <4>2. ~Stops(args, i)
        BY <1>1, <2>6, <3>6 DEF Stops
      <4>3. PathsKept(args, i, p.testExecutables)
        BY <1>2, <2>1, <2>6, PathsSame
      <4>4. ValuesKept(args, i, q.options)
        BY <1>1, <1>2, <2>1, <3>1, <3>3, <3>6, ValuesTaken
      <4>5. Going(args, i, q)
        BY <3>1, <3>4, <4>1, <4>3, <4>4 DEF Going
      <4>6. ParsedTo(args, i, q)
        BY <1>2, <1>4, <3>4, <4>2, <4>5, GoingOn
      <4> QED BY <1>1, <4>6 DEF q
    <3> QED BY <3>5, <3>6
  <2> QED BY <2>3, <2>4, <2>5, <2>6
<1> QED BY <1>3, <1>4

LEMMA NothingParsed ==
  ASSUME NEW args
  PROVE  ParsedTo(args, 0, Opt!Parsed)
<1>1. Opt!Parsed \in Parsing
  <2>1. PICK o \in Settled : o = Opt!Options
    <3>1. PICK zero \in Int : zero = 0
      OBVIOUS
    <3>2. Opt!Options = [mode |-> "Auto", requestedJobCount |-> zero, timeout |-> zero,
                         maximumOutputBytes |-> zero, help |-> FALSE, listOnly |-> FALSE]
      BY <3>1 DEF Opt!Options
    <3>3. Opt!Options \in Settled
      BY <3>2 DEF Settled
    <3> QED BY <3>3
  <2>2. PICK none \in Seq(Arguments) : none = << >>
    BY EmptySeq
  <2> QED BY <2>1, <2>2 DEF Opt!Parsed, Parsing
<1>2. PathsTo(args, 0) = {} /\ OptionsTo(args, 0) = {}
  BY DEF PathsTo, OptionsTo
<1>3. PathsKept(args, 0, << >>)
  <2>1. << >> \in Seq(Arguments) /\ Len(<< >>) = 0
    BY EmptySeq
  <2>2. Cardinality({}) = 0
    BY FS_EmptySet
  <2> QED BY <1>2, <2>1, <2>2 DEF PathsKept
<1>4. ValuesKept(args, 0, Opt!Options)
  BY <1>2 DEF ValuesKept, LastOf, Opt!Options
<1>5. ~Separated(args, 0)
  BY DEF Separated
<1>6. Going(args, 0, Opt!Parsed)
  BY <1>3, <1>4, <1>5 DEF Going, Opt!Parsed
<1> QED BY <1>1, <1>6 DEF ParsedTo

-----------------------------------------------------------------------------
(* All of them: the function of the partial results exists, by its first   *)
(* lack, and each of its values is one argument more.                      *)

Unrolled(f, k, args) ==
  f = [i \in 0..k |-> IF i = 0 THEN Opt!Parsed ELSE Opt!ParseArgument(f[i - 1], args[i])]

Concluded(p) ==
  IF ~p.returned /\ p.testExecutables = <<>> THEN [p EXCEPT !.success = FALSE] ELSE p

LEMMA Unrolls ==
  ASSUME NEW args, NEW n \in Nat
  PROVE  \E f : Unrolled(f, n, args)
<1> DEFINE Lacks == {k \in Nat : ~\E f : Unrolled(f, k, args)}
<1>1. SUFFICES ASSUME Lacks # {}
               PROVE  FALSE
  OBVIOUS
<1>2. PICK k \in Lacks : \A m \in Lacks : k <= m
  <2>1. Lacks \in SUBSET Nat
    OBVIOUS
  <2> HIDE DEF Lacks
  <2> QED BY <1>1, <2>1, LeastNatural
<1>3. CASE k = 0
  <2>1. Unrolled([i \in 0..0 |-> Opt!Parsed], 0, args)
    BY DEF Unrolled
  <2> QED BY <1>3, <2>1
<1>4. CASE k # 0
  <2>1. k \in Nat /\ k - 1 \in Nat /\ k - 1 \notin Lacks
    BY <1>2, <1>4
  <2>2. PICK g : Unrolled(g, k - 1, args)
    BY <2>1
  <2> DEFINE f == [i \in 0..k |-> IF i = k THEN Opt!ParseArgument(g[k - 1], args[k]) ELSE g[i]]
  <2>3. ASSUME NEW i \in 0..k
        PROVE  f[i] = IF i = 0 THEN Opt!Parsed ELSE Opt!ParseArgument(f[i - 1], args[i])
    <3>1. CASE i = k
      <4>1. f[k - 1] = g[k - 1]
        BY <1>4, <2>1
      <4> QED BY <1>4, <3>1, <4>1
    <3>2. CASE i # k
      <4>1. i \in 0..(k - 1)
        BY <2>1, <3>2
      <4>2. g[i] = IF i = 0 THEN Opt!Parsed ELSE Opt!ParseArgument(g[i - 1], args[i])
        BY <2>2, <4>1 DEF Unrolled
      <4>3. i # 0 => f[i - 1] = g[i - 1]
        BY <2>1, <4>1
      <4> QED BY <3>2, <4>2, <4>3
    <3> QED BY <3>1, <3>2
  <2>4. f = [i \in 0..k |-> IF i = 0 THEN Opt!Parsed ELSE Opt!ParseArgument(f[i - 1], args[i])]
    <3>1. f = [i \in 0..k |-> f[i]]
      OBVIOUS
    <3> HIDE DEF f
    <3> QED BY <2>3, <3>1
  <2>5. Unrolled(f, k, args)
    BY <2>4 DEF Unrolled
  <2> QED BY <1>2, <2>5
<1> QED BY <1>3, <1>4

LEMMA Folded ==
  ASSUME NEW args \in Seq(Arguments)
  PROVE  \E f : /\ Unrolled(f, Len(args), args)
                /\ Opt!ParseArguments(args) = Concluded(f[Len(args)])
<1>1. PICK after : after = CHOOSE f : Unrolled(f, Len(args), args)
  OBVIOUS
<1>2. Unrolled(after, Len(args), args)
  BY <1>1, Unrolls
<1>3. Opt!ParseArguments(args) = Concluded((CHOOSE f : Unrolled(f, Len(args), args))[Len(args)])
  BY Zenon DEF Opt!ParseArguments, Concluded, Unrolled
<1> QED BY <1>1, <1>2, <1>3

LEMMA AllParsed ==
  ASSUME NEW args \in Seq(Arguments)
  PROVE  \E p : ParsedTo(args, Len(args), p) /\ Opt!ParseArguments(args) = Concluded(p)
<1>1. PICK f : Unrolled(f, Len(args), args) /\ Opt!ParseArguments(args) = Concluded(f[Len(args)])
  BY Folded
<1>2. PICK n \in Nat : n = Len(args)
  BY LenProperties
<1>3. f[0] = Opt!Parsed /\ \A i \in 1..n : f[i] = Opt!ParseArgument(f[i - 1], args[i])
  BY <1>1, <1>2 DEF Unrolled
<1> DEFINE Fails == {i \in 0..n : ~ParsedTo(args, i, f[i])}
<1>4. Fails = {}
  <2>1. SUFFICES ASSUME Fails # {}
                 PROVE  FALSE
    OBVIOUS
  <2>2. PICK k \in Fails : \A m \in Fails : k <= m
    <3>1. Fails \in SUBSET Nat
      OBVIOUS
    <3> HIDE DEF Fails
    <3> QED BY <2>1, <3>1, LeastNatural
  <2>3. k # 0
    BY <1>3, NothingParsed
  <2>4. k \in 1..n /\ k - 1 \in 0..n /\ k - 1 \notin Fails
    BY <2>2, <2>3
  <2>5. ParsedTo(args, k - 1, f[k - 1])
    BY <2>4
  <2>6. ParsedTo(args, k, f[k])
    BY <1>2, <1>3, <2>4, <2>5, ArgumentParsed
  <2> QED BY <2>2, <2>6
<1>5. ParsedTo(args, n, f[n])
  BY <1>4
<1> QED BY <1>1, <1>2, <1>5

-----------------------------------------------------------------------------
(* What is written, in the words of the property.                          *)

Before(args, kind) == {i \in 1..Len(args) : \A j \in 1..i : args[j].kind # kind}
OptionsIn(args) == {i \in Before(args, "separator") : args[i].kind # "path"}
StopsIn(args) == {i \in OptionsIn(args) : args[i].kind = "help" \/ ~Opt!Acceptable(args[i])}
PathsIn(args) ==
  {i \in 1..Len(args) : args[i].kind # "separator" /\ i \notin OptionsIn(args)}
    \cup {i \in 1..Len(args) : i \notin Before(args, "separator")
                               /\ \E j \in 1..(i - 1) : args[j].kind = "separator"}
LastIn(args, kind) ==
  {i \in OptionsIn(args) : args[i].kind = kind
     /\ \A j \in OptionsIn(args) : args[j].kind = kind => j <= i}

Ends(args, parsed) ==
  parsed.success = (args[CHOOSE i \in StopsIn(args) : \A j \in StopsIn(args) : i <= j].kind = "help")

Runs(args, parsed) ==
  /\ parsed.success = (PathsIn(args) # {})
  /\ Len(parsed.testExecutables) = Opt!Cardinality(PathsIn(args))
  /\ \A k \in PathsIn(args) :
       parsed.testExecutables[Opt!Cardinality({i \in PathsIn(args) : i <= k})] = args[k]
  /\ \A kind \in {"timeout", "max-output"} : \A i \in LastIn(args, kind) :
       (IF kind = "timeout" THEN parsed.options.timeout ELSE parsed.options.maximumOutputBytes)
         = args[i].number * Opt!Units(kind)[args[i].unit]
  /\ (parsed.options.mode = "Fixed") =>
       \E i \in LastIn(args, "jobs") : parsed.options.requestedJobCount = args[i].number

LEMMA Words ==
  ASSUME NEW args,
         StopsIn(args) # {} => Ends(args, Opt!ParseArguments(args)),
         StopsIn(args) = {} => Runs(args, Opt!ParseArguments(args))
  PROVE  Opt!ParsedAsWritten(args)
<1>1. CASE StopsIn(args) # {}
  <2>1. Ends(args, Opt!ParseArguments(args))
    BY <1>1
  <2> QED BY Zenon, <1>1, <2>1 DEF Opt!ParsedAsWritten, Ends, StopsIn, OptionsIn, Before
<1>2. CASE StopsIn(args) = {}
  <2>1. Runs(args, Opt!ParseArguments(args))
    BY <1>2
  <2> QED BY Zenon, <1>2, <2>1
      DEF Opt!ParsedAsWritten, Runs, LastIn, PathsIn, StopsIn, OptionsIn, Before
<1> QED BY <1>1, <1>2

LEMMA OptCardinality ==
  ASSUME NEW S
  PROVE  Opt!Cardinality(S) = Cardinality(S)
BY Zenon DEF Opt!Cardinality, Cardinality

LEMMA SameWords ==
  ASSUME NEW args \in Seq(Arguments)
  PROVE  /\ OptionsIn(args) = OptionsTo(args, Len(args))
         /\ StopsIn(args) = {i \in 1..Len(args) : Stops(args, i)}
         /\ PathsIn(args) = PathsTo(args, Len(args))
         /\ \A kind : LastIn(args, kind) = LastOf(args, kind, Len(args))
<1>1. PICK n \in Nat : n = Len(args)
  BY LenProperties
<1>2. OptionsIn(args) = OptionsTo(args, n)
  BY <1>1 DEF OptionsIn, OptionsTo, Before, IsOption, Separated
<1>3. StopsIn(args) = {i \in 1..n : Stops(args, i)}
  BY <1>2 DEF StopsIn, OptionsTo, Stops
<1>4. PathsIn(args) = PathsTo(args, n)
  <2>1. ASSUME NEW i \in 1..n
        PROVE  i \in PathsIn(args) <=> IsPath(args, i)
    <3>1. Separated(args, i) <=> (Separated(args, i - 1) \/ args[i].kind = "separator")
      BY SeparatedBy
    <3>2. i \in OptionsIn(args) <=> (~Separated(args, i) /\ args[i].kind # "path")
      BY <1>2 DEF OptionsTo, IsOption
    <3>3. i \in Before(args, "separator") <=> ~Separated(args, i)
      BY <1>1 DEF Before, Separated
    <3>4. (\E j \in 1..(i - 1) : args[j].kind = "separator") <=> Separated(args, i - 1)
      BY DEF Separated
    <3>5. "separator" # "path"
      OBVIOUS
    <3> QED BY <1>1, <3>1, <3>2, <3>3, <3>4, <3>5 DEF PathsIn, IsPath
  <2>2. PathsIn(args) \subseteq 1..n
    BY <1>1 DEF PathsIn
  <2> QED BY <2>1, <2>2 DEF PathsTo
<1>5. \A kind : LastIn(args, kind) = LastOf(args, kind, n)
  BY <1>2 DEF LastIn, LastOf
<1> QED BY <1>1, <1>2, <1>3, <1>4, <1>5

\* The command line means what its arguments say one by one, for every command
\* line: every number and unit, as many arguments as there are.
THEOREM OptionsAreParsed ==
  ASSUME NEW args \in Seq(Arguments)
  PROVE  Opt!ParsedAsWritten(args)
<1>1. PICK n \in Nat : n = Len(args)
  BY LenProperties
<1>2. PICK p : ParsedTo(args, n, p) /\ Opt!ParseArguments(args) = Concluded(p)
  BY <1>1, AllParsed
<1>3. p \in Parsing /\ p.success \in BOOLEAN
  BY <1>2 DEF ParsedTo, Parsing
<1>4. ASSUME StopsIn(args) # {}
      PROVE  Ends(args, Opt!ParseArguments(args))
  <2>1. StopsIn(args) = {i \in 1..n : Stops(args, i)}
    BY <1>1, SameWords
  <2>2. \E i \in StopsIn(args) : \A j \in StopsIn(args) : i <= j
    BY <1>4, <2>1, LeastNatural
  <2>3. PICK first : first = CHOOSE i \in StopsIn(args) : \A j \in StopsIn(args) : i <= j
    OBVIOUS
  <2>4. first \in StopsIn(args) /\ \A j \in StopsIn(args) : first <= j
    BY <2>2, <2>3
  <2>5. first \in 1..n /\ Stops(args, first) /\ \A m \in 1..(first - 1) : ~Stops(args, m)
    BY <2>1, <2>4
  <2>6. Ended(args, n, p)
    BY <1>2, <2>5 DEF ParsedTo
  <2>7. p.returned /\ (p.success <=> args[first].kind = "help")
    BY <2>5, <2>6 DEF Ended
  <2>8. Opt!ParseArguments(args) = p
    BY <1>2, <2>7 DEF Concluded
  <2>9. p.success = (args[first].kind = "help")
    BY <1>3, <2>7
  <2> QED BY <2>3, <2>8, <2>9 DEF Ends
<1>5. ASSUME StopsIn(args) = {}
      PROVE  Runs(args, Opt!ParseArguments(args))
  <2>1. \A i \in 1..n : ~Stops(args, i)
    BY <1>1, <1>5, SameWords
  <2>2. Going(args, n, p)
    BY <1>2, <2>1 DEF ParsedTo
  <2>3. /\ ~p.returned /\ p.success /\ PathsKept(args, n, p.testExecutables)
        /\ ValuesKept(args, n, p.options)
    BY <2>2 DEF Going
  <2>4. PICK parsed : parsed = Concluded(p)
    OBVIOUS
  <2>5. /\ parsed.testExecutables = p.testExecutables /\ parsed.options = p.options
        /\ parsed.success = (p.testExecutables # <<>>)
    BY <1>3, <2>3, <2>4 DEF Concluded, Parsing
  <2>6. PathsIn(args) = PathsTo(args, n) /\ \A kind : LastIn(args, kind) = LastOf(args, kind, n)
    BY <1>1, SameWords
  <2>7. /\ Len(p.testExecutables) = Cardinality(PathsTo(args, n))
        /\ \A k \in PathsTo(args, n) : p.testExecutables[Cardinality(PathsTo(args, k))] = args[k]
    BY <2>3 DEF PathsKept
  <2>8. p.testExecutables # <<>> <=> PathsTo(args, n) # {}
    <3>1. IsFiniteSet(PathsTo(args, n))
      <4>1. IsFiniteSet(1..n) /\ PathsTo(args, n) \subseteq 1..n
        BY FS_Interval DEF PathsTo
      <4> QED BY <4>1, FS_Subset
    <3>2. Cardinality(PathsTo(args, n)) = 0 <=> PathsTo(args, n) = {}
      BY <3>1, FS_EmptySet
    <3>3. p.testExecutables \in Seq(Arguments)
      BY <1>3 DEF Parsing
    <3>4. Len(p.testExecutables) = 0 <=> p.testExecutables = << >>
      BY <3>3, EmptySeq
    <3> QED BY <2>7, <3>2, <3>4
  <2>9. parsed.success = (PathsIn(args) # {})
    BY <2>5, <2>6, <2>8
  <2>10. Len(parsed.testExecutables) = Opt!Cardinality(PathsIn(args))
    BY <2>5, <2>6, <2>7, OptCardinality
  <2>11. ASSUME NEW k \in PathsIn(args)
         PROVE  parsed.testExecutables[Opt!Cardinality({i \in PathsIn(args) : i <= k})] = args[k]
    <3>1. {i \in PathsIn(args) : i <= k} = PathsTo(args, k)
      BY <2>6, <2>11 DEF PathsTo
    <3>2. k \in PathsTo(args, n)
      BY <2>6, <2>11
    <3> QED BY <2>5, <2>7, <3>1, <3>2, OptCardinality
  <2>12. ASSUME NEW kind \in {"timeout", "max-output"}, NEW i \in LastIn(args, kind)
         PROVE  (IF kind = "timeout" THEN parsed.options.timeout
                 ELSE parsed.options.maximumOutputBytes)
                  = args[i].number * Opt!Units(kind)[args[i].unit]
    <3>1. i \in LastOf(args, kind, n)
      BY <2>6, <2>12
    <3>2. CASE kind = "timeout"
      BY <2>3, <2>5, <3>1, <3>2 DEF ValuesKept, Opt!Units
    <3>3. CASE kind = "max-output"
      BY <2>3, <2>5, <3>1, <3>3 DEF ValuesKept, Opt!Units
    <3> QED BY <2>12, <3>2, <3>3
  <2>13. (parsed.options.mode = "Fixed") =>
           \E i \in LastIn(args, "jobs") : parsed.options.requestedJobCount = args[i].number
    BY <2>3, <2>5, <2>6 DEF ValuesKept
  <2>14. Runs(args, parsed)
    BY <2>9, <2>10, <2>11, <2>12, <2>13 DEF Runs
  <2> QED BY <1>2, <2>4, <2>14
<1> QED BY <1>4, <1>5, Words

-----------------------------------------------------------------------------
(***************************************************************************)
(* The components side by side: each behaves as if it were alone, so what  *)
(* is proved of each holds of the system.                                  *)
(***************************************************************************)

LEMMA ComponentsStart ==
  SystemInit => /\ Init /\ Log!Init /\ Mem!Init /\ Win!Init /\ Thr!InitThreads /\ Mon!Init
                /\ SemW!Init /\ EvtW!Init /\ JobInit /\ Out!Init /\ Pools!Init
<1> SUFFICES ASSUME SystemInit
             PROVE  ComponentsInit
  BY DEF ComponentsInit
<1> QED BY Zenon DEF SystemInit

\* Whose turn it is not keeps its state.
LEMMA OneComponentSteps ==
  ASSUME [SystemNext]_systemVars
  PROVE  /\ Next \/ UNCHANGED eventVars
         /\ Log!Next \/ UNCHANGED logVars
         /\ Mem!Next \/ UNCHANGED memVars
         /\ Win!Next \/ UNCHANGED winVars
         /\ Thr!Next \/ UNCHANGED thrVars
         /\ Mon!Next \/ UNCHANGED monVars
         /\ SemW!Next \/ UNCHANGED semVars
         /\ EvtW!Next \/ UNCHANGED evtVars
         /\ JobNext \/ UNCHANGED jobVars
         /\ Out!Next \/ UNCHANGED outVars
         /\ Pools!Next \/ UNCHANGED poolVars
         /\ UNCHANGED <<which, platform, inputs>>
<1>1. (SystemNext \/ UNCHANGED systemVars) /\ UNCHANGED <<which, platform, inputs>>
  BY DEF SystemNext, systemVars
<1>2. CASE UNCHANGED systemVars
  BY <1>1, <1>2 DEF systemVars, early, waiters, others
<1>3. CASE Next /\ UNCHANGED <<early, waiters, others>>
  BY <1>1, <1>3 DEF early, waiters, others
<1>4. CASE Log!Next /\ UNCHANGED <<eventVars, memVars, winVars, waiters, others>>
  BY <1>1, <1>4 DEF early, waiters, others
<1>5. CASE Mem!Next /\ UNCHANGED <<eventVars, logVars, winVars, waiters, others>>
  BY <1>1, <1>5 DEF early, waiters, others
<1>6. CASE Win!Next /\ UNCHANGED <<eventVars, logVars, memVars, waiters, others>>
  BY <1>1, <1>6 DEF early, waiters, others
<1>7. CASE Thr!Next /\ UNCHANGED <<eventVars, early, monVars, semVars, evtVars, others>>
  BY <1>1, <1>7 DEF early, waiters, others
<1>8. CASE Mon!Next /\ UNCHANGED <<eventVars, early, thrVars, semVars, evtVars, others>>
  BY <1>1, <1>8 DEF early, waiters, others
<1>9. CASE SemW!Next /\ UNCHANGED <<eventVars, early, thrVars, monVars, evtVars, others>>
  BY <1>1, <1>9 DEF early, waiters, others
<1>10. CASE EvtW!Next /\ UNCHANGED <<eventVars, early, thrVars, monVars, semVars, others>>
  BY <1>1, <1>10 DEF early, waiters, others
<1>11. CASE JobNext /\ UNCHANGED <<eventVars, early, waiters, outVars, poolVars>>
  BY <1>1, <1>11 DEF early, waiters, others
<1>12. CASE Out!Next /\ UNCHANGED <<eventVars, early, waiters, jobVars, poolVars>>
  BY <1>1, <1>12 DEF early, waiters, others
<1>13. CASE Pools!PoolNext /\ UNCHANGED <<eventVars, early, waiters, jobVars, outVars>>
  BY <1>1, <1>13 DEF early, waiters, others, Pools!Next
<1>14. CASE Pools!LinearNext /\ UNCHANGED <<eventVars, early, waiters, jobVars, outVars>>
  BY <1>1, <1>14 DEF early, waiters, others, Pools!Next
<1> QED BY <1>1, <1>2, <1>3, <1>4, <1>5, <1>6, <1>7, <1>8, <1>9, <1>10, <1>11, <1>12, <1>13,
           <1>14 DEF SystemNext, ComponentStep

LEMMA ComponentsStep ==
  ASSUME [SystemNext]_systemVars
  PROVE  /\ [Next]_vars /\ [Log!Next]_(Log!vars) /\ [Mem!Next]_(Mem!vars)
         /\ [Win!Next]_(Win!vars) /\ [Thr!Next]_(Thr!threadVars) /\ [Mon!Next]_(Mon!vars)
         /\ [SemW!Next]_(SemW!vars) /\ [EvtW!Next]_(EvtW!vars) /\ [JobNext]_jobVars
         /\ [Out!Next]_(Out!vars) /\ [Pools!Next]_(Pools!vars)
<1>1. [Next]_vars /\ [JobNext]_jobVars
  BY OneComponentSteps DEF eventVars
<1>2. [Log!Next]_(Log!vars)
  BY OneComponentSteps DEF logVars, Log!vars, Log!state, Log!ghosts
<1>3. [Mem!Next]_(Mem!vars)
  BY OneComponentSteps
  DEF memVars, Mem!vars, Mem!contextVars, Mem!reporterVars, Mem!life, Mem!books
<1>4. [Win!Next]_(Win!vars)
  BY OneComponentSteps DEF winVars, Win!vars, Win!system, Win!output
<1>5. [Thr!Next]_(Thr!threadVars)
  BY OneComponentSteps DEF thrVars, Thr!threadVars
<1>6. [Mon!Next]_(Mon!vars)
  BY OneComponentSteps DEF monVars, Mon!vars
<1>7. [SemW!Next]_(SemW!vars) /\ [EvtW!Next]_(EvtW!vars)
  BY OneComponentSteps DEF semVars, SemW!vars, evtVars, EvtW!vars
<1>8. [Out!Next]_(Out!vars) /\ [Pools!Next]_(Pools!vars)
  BY OneComponentSteps DEF outVars, Out!vars, poolVars, Pools!vars, Pools!pool, Pools!linear
<1> QED BY <1>1, <1>2, <1>3, <1>4, <1>5, <1>6, <1>7, <1>8

\* The system is its components, each with its own specification: none can tell
\* that the others are there.
THEOREM ComponentsStandAlone ==
  SystemSpec =>
    /\ Spec /\ Log!Spec /\ Mem!Spec /\ Win!Spec /\ Thr!Spec /\ Mon!Spec /\ SemW!Spec
    /\ EvtW!Spec /\ JobSpec /\ Out!Spec /\ Pools!Spec
<1>1. SystemInit => Init /\ JobInit
  BY ComponentsStart
<1>2. [SystemNext]_systemVars => [Next]_vars /\ [JobNext]_jobVars
  BY ComponentsStep
<1>3. SystemSpec => Spec /\ JobSpec
  BY <1>1, <1>2, PTL DEF SystemSpec, Spec, JobSpec
<1>4. SystemInit => Log!Init /\ Mem!Init /\ Win!Init
  BY ComponentsStart
<1>5. [SystemNext]_systemVars =>
        [Log!Next]_(Log!vars) /\ [Mem!Next]_(Mem!vars) /\ [Win!Next]_(Win!vars)
  BY ComponentsStep
<1>6. SystemSpec => Log!Spec /\ Mem!Spec /\ Win!Spec
  BY <1>4, <1>5, PTL DEF SystemSpec, Log!Spec, Mem!Spec, Win!Spec
<1>7. SystemInit => Thr!InitThreads /\ Mon!Init /\ SemW!Init /\ EvtW!Init
  BY ComponentsStart
<1>8. [SystemNext]_systemVars => /\ [Thr!Next]_(Thr!threadVars) /\ [Mon!Next]_(Mon!vars)
                                 /\ [SemW!Next]_(SemW!vars) /\ [EvtW!Next]_(EvtW!vars)
  BY ComponentsStep
<1>9. SystemSpec => Thr!Spec /\ Mon!Spec /\ SemW!Spec /\ EvtW!Spec
  BY <1>7, <1>8, PTL DEF SystemSpec, Thr!Spec, Mon!Spec, SemW!Spec, EvtW!Spec
<1>10. SystemInit => Out!Init /\ Pools!Init
  BY ComponentsStart
<1>11. [SystemNext]_systemVars => [Out!Next]_(Out!vars) /\ [Pools!Next]_(Pools!vars)
  BY ComponentsStep
<1>12. SystemSpec => Out!Spec /\ Pools!Spec
  BY <1>10, <1>11, PTL DEF SystemSpec, Out!Spec, Pools!Spec
<1> QED BY <1>3, <1>6, <1>9, <1>12, PTL

\* The inputs of the pure operators, which no step changes.
InputsInv ==
  /\ which = "times" => /\ number \in 0..MaxUint64
                        /\ clock \in 0..((MaxTimeT + 1) * NanosecondsPerSecond - 1)
  /\ which = "options" => arguments \in Seq(Arguments)

LEMMA InputsConverted ==
  ASSUME InputsInv
  PROVE  ConversionsExact
<1>1. ASSUME which = "times"
      PROVE  /\ Time!WaitsLongEnough(number, [seconds |-> clock \div NanosecondsPerSecond,
                                              nanoseconds |-> (clock % NanosecondsPerSecond)])
             /\ clock <= MaxUint64 => Time!ClocksMonotone(number, clock)
  <2>1. PICK k \in Nat \ {0}, M \in Nat, T \in Nat :
          k = NanosecondsPerSecond /\ M = MaxUint64 /\ T = MaxTimeT
    BY TimeAssumption
  <2>2. PICK n \in 0..M : n = number
    BY <1>1, <2>1 DEF InputsInv
  <2>3. PICK c \in Nat : c = clock /\ c < (T + 1) * k
    <3>1. (T + 1) * k \in Nat
      BY <2>1
    <3>2. PICK past \in Nat : past = (T + 1) * k
      BY <3>1
    <3>3. clock \in 0..(past - 1)
      BY <1>1, <2>1, <3>2 DEF InputsInv
    <3> QED BY <3>2, <3>3
  <2>4. PICK q \in Nat, r \in Nat : q = c \div k /\ r = c % k /\ r < k /\ c = q * k + r
    BY <2>1, Divided
  <2>5. q <= T
    <3> SUFFICES ASSUME T + 1 <= q PROVE FALSE
      BY <2>1, <2>4
    <3>1. (T + 1) * k <= q * k /\ (T + 1) * k \in Nat /\ q * k \in Nat
      BY <2>1, <2>4, ProductsGrow
    <3> QED BY <2>3, <2>4, <3>1
  <2>6. Time!WaitsLongEnough(n, [seconds |-> q, nanoseconds |-> r])
    BY <2>1, <2>2, <2>4, <2>5, WaitsAreLongEnough
  <2>7. c <= M => Time!ClocksMonotone(n, c)
    BY <2>1, <2>2, <2>3, ClocksAreMonotone
  <2>8. Time!WaitsLongEnough(number, [seconds |-> clock \div NanosecondsPerSecond,
                                      nanoseconds |-> (clock % NanosecondsPerSecond)])
    BY <2>1, <2>2, <2>3, <2>4, <2>6
  <2>9. clock <= MaxUint64 => Time!ClocksMonotone(number, clock)
    BY <2>1, <2>2, <2>3, <2>7
  <2> QED BY <2>8, <2>9
<1>2. ASSUME which = "options"
      PROVE  Opt!ParsedAsWritten(arguments)
  <2>1. PICK args \in Seq(Arguments) : args = arguments
    BY <1>2 DEF InputsInv
  <2>2. Opt!ParsedAsWritten(args)
    BY OptionsAreParsed
  <2> QED BY <2>1, <2>2
<1> QED BY <1>1, <1>2 DEF ConversionsExact

\* No number is wrapped on its way, whatever the time, the deadline and the command
\* line the system is asked about.
THEOREM ConversionsAreExact == SystemSpec => []ConversionsExact
<1>1. SystemInit => InputsInv
  <2> SUFFICES ASSUME SystemInit PROVE InputsInv
    OBVIOUS
  <2>1. ASSUME which = "options"
        PROVE  arguments \in Seq(Arguments)
    <3>1. PICK n \in 0..MaxArguments : arguments \in [1..n -> Arguments]
      BY <2>1 DEF SystemInit
    <3>2. n \in Nat
      BY <3>1, OptionsAssumption
    <3> QED BY <3>1, <3>2, SeqDef
  <2> QED BY <2>1 DEF SystemInit, InputsInv
<1>2. InputsInv /\ [SystemNext]_systemVars => InputsInv'
  <2> SUFFICES ASSUME InputsInv, [SystemNext]_systemVars PROVE InputsInv'
    OBVIOUS
  <2>1. UNCHANGED <<which, number, clock, arguments>>
    BY OneComponentSteps DEF inputs
  <2> QED BY <2>1 DEF InputsInv
<1>3. InputsInv => ConversionsExact
  BY InputsConverted
<1> QED BY <1>1, <1>2, <1>3, PTL DEF SystemSpec

\* Every safety property of the components that share no state holds of the system
\* they make up, with any capacity of the queue and limit of the output.
THEOREM SystemIsSafe ==
  ASSUME Capacity \in Nat \ {0}, "none" \notin Natives, Maxima \subseteq Nat, MaxChunk \in Nat,
         \A l, m \in Launches : l = m
  PROVE  SystemSpec =>
           /\ [](/\ EventsAccounted /\ LeakReportTruthful /\ CapturesReports /\ CountsBalance
                 /\ JobContained /\ ThreadsOwned /\ JobsRunInOrder /\ OutputKept
                 /\ BlocksDisjoint /\ ConversionsExact)
           /\ PrimitivesKept
<1>1. Log!Spec => []EventsAccounted
  BY LogCallsAreCounted, MemoryAssumption
<1>2. JobSpec => []JobsRunInOrder
  BY QueueIsKept
<1>3. Thr!Spec => []ThreadsOwned
  BY ThreadsAreOwned
<1>4. Out!Spec => []OutputKept
  BY OutputIsKept
<1>5. Win!Spec => []JobContained
  BY JobIsContained
<1> QED BY <1>1, <1>2, <1>3, <1>4, <1>5, LeaksAreReported, CapturesAreReports, CountsAreBalanced,
           BlocksAreDisjoint, PrimitivesAreKept, ConversionsAreExact, ComponentsStandAlone, PTL
=============================================================================
