------------------------------ MODULE Semaphore ------------------------------
(***************************************************************************)
(* The pthread semaphore of                                                *)
(* modules/BlueSystem/src/Platform/POSIX/Semaphore_POSIX.cpp: a count      *)
(* under a mutex and a condition variable that a release of one permit     *)
(* signals and a release of several broadcasts.                            *)
(***************************************************************************)
EXTENDS Integers, FiniteSets, PosixWait

CONSTANTS
  Descs,   \* the (InitialCount, MaximumCount) of SemaphoreCreateDesc
  Releases, \* the counts callers release
  Modulus  \* 2^32: the width of the counts

ASSUME ThreadsAssumption == IsFiniteSet(Threads)
ASSUME WidthAssumption == Modulus \in Nat \ {0}
ASSUME DescsAssumption == Descs \subseteq (0..(Modulus - 1)) \X (0..(Modulus - 1))
ASSUME ReleasesAssumption == Releases \subseteq 0..(Modulus - 1)

VARIABLES
  Count,
  MaximumCount

counts == <<Count, MaximumCount>>
semaphoreVars == <<Initialized, counts, waits>>

Uint(n) == n % Modulus

SemaphoreInit ==
  /\ Initialized = FALSE
  /\ Count = 0
  /\ MaximumCount = 0
  /\ WaitInit

ValidDesc(desc) == desc[2] # 0 /\ desc[1] <= desc[2]

InitializeSemaphore ==
  /\ ~Initialized
  /\ \E desc \in Descs :
       /\ ValidDesc(desc)
       /\ Count' = desc[1]
       /\ MaximumCount' = desc[2]
  /\ Initialized' = TRUE
  /\ UNCHANGED waits

\* The caller sees to it that no thread uses the semaphore any more.
ShutdownSemaphore ==
  /\ Initialized
  /\ Idle = Threads
  /\ Initialized' = FALSE
  /\ Count' = 0
  /\ MaximumCount' = 0
  /\ UNCHANGED waits

-----------------------------------------------------------------------------
(* Acquiring.                                                              *)

\* Acquire, TryAcquire and AcquireFor with a permit at hand.
AcquireSemaphore(t) ==
  /\ Initialized
  /\ t \in Idle
  /\ Count > 0
  /\ Count' = Count - 1
  /\ UNCHANGED <<Initialized, MaximumCount, waits>>

\* Acquire, or AcquireFor a time that is not zero, without one.
AcquireWaits(t) ==
  /\ Initialized
  /\ t \in Idle
  /\ Count = 0
  /\ \E d \in {"None", "Ahead"} : Sleep(t, d)
  /\ UNCHANGED <<Initialized, counts>>

\* The loop ends with Count > 0, whether the wait ended with a wakeup or with
\* the timeout.
TakeAfterWait(t) ==
  /\ t \in Contenders
  /\ Count > 0
  /\ Count' = Count - 1
  /\ Leave(t)
  /\ UNCHANGED <<Initialized, MaximumCount>>

\* Mutation of AcquireAgain: the deadline starts over.
AcquireAfresh(t) ==
  /\ pc[t] = "Awake"
  /\ Count = 0
  /\ Sleep(t, IF deadline[t] = "None" THEN "None" ELSE "Ahead")
  /\ UNCHANGED <<Initialized, counts>>

AcquireAgain(t) ==
  /\ pc[t] = "Awake"
  /\ Count = 0
  /\ SleepAgain(t)
  /\ UNCHANGED <<Initialized, counts>>

\* Mutation of AcquireGivesUp: the count is not looked at once more.
AcquireGivesUpUnseen(t) ==
  /\ pc[t] = "TimedOut"
  /\ Leave(t)
  /\ UNCHANGED <<Initialized, counts>>

AcquireGivesUp(t) ==
  /\ pc[t] = "TimedOut"
  /\ Count = 0
  /\ Leave(t)
  /\ UNCHANGED <<Initialized, counts>>

AcquireResumes(t) == TakeAfterWait(t) \/ AcquireAgain(t) \/ AcquireGivesUp(t)

-----------------------------------------------------------------------------
(* Releasing.                                                              *)

\* Mutation of Fits: the sum is compared, and it may wrap.
FitsWrapping(n) == Uint(Count + n) <= MaximumCount

Fits(n) == n <= Uint(MaximumCount - Count)

\* Mutation of NotifyReleased: a single wakeup however many permits there are.
NotifyOne(n) == Signal

NotifyReleased(n) == IF n = 1 THEN Signal ELSE Broadcast

\* The caller need not be one of Threads.  A release that does not fit returns
\* false and changes nothing.
ReleaseSemaphore(n) ==
  /\ Initialized
  /\ n # 0
  /\ Fits(n)
  /\ Count' = Uint(Count + n)
  /\ NotifyReleased(n)
  /\ UNCHANGED <<Initialized, MaximumCount>>

-----------------------------------------------------------------------------
SemaphoreNext ==
  \/ InitializeSemaphore
  \/ ShutdownSemaphore
  \/ \E n \in Releases : ReleaseSemaphore(n)
  \/ \E t \in Threads :
       \/ AcquireSemaphore(t)
       \/ AcquireWaits(t)
       \/ AcquireResumes(t)
       \/ WaitStep(t) /\ UNCHANGED <<Initialized, counts>>

SemaphoreSpec == SemaphoreInit /\ [][SemaphoreNext]_semaphoreVars

\* A thread that is awake gets the mutex, and time passes.
SemaphoreFairness ==
  \A t \in Threads :
    /\ WF_semaphoreVars(AcquireResumes(t))
    /\ WF_semaphoreVars((DeadlinePasses(t) \/ TimerFires(t))
                         /\ UNCHANGED <<Initialized, counts>>)

FairSemaphoreSpec == SemaphoreSpec /\ SemaphoreFairness

-----------------------------------------------------------------------------
(* Properties.                                                             *)

\* Types; the count stays within the maximum the semaphore was created with.
SemaphoreTypeOK ==
  /\ Initialized \in BOOLEAN
  /\ MaximumCount \in 0..(Modulus - 1)
  /\ Count \in 0..MaximumCount
  /\ WaitTypeOK

\* No wakeup is lost: while threads sleep, every permit has a thread on its way
\* to the mutex that will look for it, whoever overtook whom.
NoWakeupLost == Sleepers = {} \/ Cardinality(Contenders) >= Count

\* The inductive invariant: nobody waits on a semaphore that is shut down.
SemaphoreIInv ==
  /\ SemaphoreTypeOK
  /\ NoWakeupLost
  /\ ~Initialized => Idle = Threads

\* The semaphore keeps the promises of a counting semaphore; with it, permits
\* do not lie idle while threads wait.
Counting ==
  INSTANCE CountingSemaphore WITH
    initialized <- Initialized,
    count <- Count,
    maximum <- MaximumCount,
    waiting <- Threads \ Idle,
    timed <- {t \in Threads : deadline[t] # "None"}

ImplementsSemaphore == Counting!Spec
=============================================================================
