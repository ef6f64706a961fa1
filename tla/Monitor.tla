-------------------------------- MODULE Monitor --------------------------------
(***************************************************************************)
(* Mutex and ConditionVariable (Mutex_POSIX.cpp, Mutex_Windows.cpp,        *)
(* ConditionVariable_POSIX.cpp, ConditionVariable_Windows.cpp, Mutex.inl), *)
(* used as the tests and the event use them: a flag under the mutex, and   *)
(* threads that wait in a loop until it is up.  The native mutex and       *)
(* condition are modelled from how the code uses them: any of the threads  *)
(* that want the mutex gets it when it is free.                            *)
(***************************************************************************)
EXTENDS Naturals, FiniteSets

CONSTANT Threads

VARIABLES
  platform,    \* what the program is built for
  Initialized, \* which of the two objects are: "mutex", "condition"
  owner,       \* the native mutex's owner, a set
  at,          \* outside, inside, asleep on the condition, or back from it and
               \* in need of the mutex: notified or timed out
  flag         \* what the threads wait for

vars == <<platform, Initialized, owner, at, flag>>

Asleep == {t \in Threads : at[t] \in {"asleep", "asleep for a time"}}
Outside == {t \in Threads : at[t] = "outside"}
Inside == {t \in Threads : at[t] = "inside"}

Init ==
  /\ platform \in {"POSIX", "Windows"}
  /\ Initialized = {} /\ owner = {} /\ flag = FALSE
  /\ at = [t \in Threads |-> "outside"]

-----------------------------------------------------------------------------
(* The objects: OwnedMutex and OwnedConditionVariable.  An initialisation  *)
(* that fails leaves the object as it was.                                 *)

InitializeMutexPosix ==
  /\ platform = "POSIX" /\ Initialized' = Initialized \cup {"mutex"}
  /\ UNCHANGED <<platform, owner, at, flag>>

InitializeMutexWindows ==
  /\ platform = "Windows" /\ Initialized' = Initialized \cup {"mutex"}
  /\ UNCHANGED <<platform, owner, at, flag>>

InitializeConditionVariablePosix ==
  /\ platform = "POSIX" /\ Initialized' = Initialized \cup {"condition"}
  /\ UNCHANGED <<platform, owner, at, flag>>

InitializeConditionVariableWindows ==
  /\ platform = "Windows" /\ Initialized' = Initialized \cup {"condition"}
  /\ UNCHANGED <<platform, owner, at, flag>>

\* The caller sees to it that no thread uses the object any more.
ShutdownMutex ==
  /\ Outside = Threads /\ Initialized' = Initialized \ {"mutex"}
  /\ UNCHANGED <<platform, owner, at, flag>>

ShutdownConditionVariable ==
  /\ Outside = Threads /\ Initialized' = Initialized \ {"condition"}
  /\ UNCHANGED <<platform, owner, at, flag>>

-----------------------------------------------------------------------------
(* The mutex.  The callers go by IsValid: on a mutex that is not           *)
(* initialised Acquire and Release do nothing.                             *)

Enter(t) ==
  /\ "mutex" \in Initialized
  /\ owner = {} /\ owner' = {t}
  /\ at' = [at EXCEPT ![t] = "inside"]
  /\ UNCHANGED <<platform, Initialized, flag>>

AcquireMutex(t) == t \in Outside /\ Enter(t)
\* The lock is held, or was not free and false was returned: no change.
TryAcquireMutex(t) == t \in Outside /\ Enter(t)

ReleaseMutex(t) ==
  /\ t \in Inside
  /\ owner' = {} /\ at' = [at EXCEPT ![t] = "outside"]
  /\ UNCHANGED <<platform, Initialized, flag>>

-----------------------------------------------------------------------------
(* The condition.                                                          *)

Sleep(t, how) ==
  /\ "condition" \in Initialized /\ t \in Inside /\ ~flag
  /\ owner' = {} /\ at' = [at EXCEPT ![t] = how]
  /\ UNCHANGED <<platform, Initialized, flag>>

WaitConditionVariable(t) == Sleep(t, "asleep")

\* On POSIX it may return at once, with the mutex, when it cannot read the
\* clock: no change.
WaitConditionVariableForPosix(t) == platform = "POSIX" /\ Sleep(t, "asleep for a time")
WaitConditionVariableForWindows(t) == platform = "Windows" /\ Sleep(t, "asleep for a time")

\* Both return with the mutex, whatever they return.
WaitReturns(t) == at[t] \in {"notified", "timed out"} /\ Enter(t)

TimerFires(t) ==
  /\ at[t] = "asleep for a time" /\ at' = [at EXCEPT ![t] = "timed out"]
  /\ UNCHANGED <<platform, Initialized, owner, flag>>

SpuriousWakeup(t) ==
  /\ t \in Asleep /\ at' = [at EXCEPT ![t] = "notified"]
  /\ UNCHANGED <<platform, Initialized, owner, flag>>

Wake(woken) == at' = [t \in Threads |-> IF t \in woken THEN "notified" ELSE at[t]]

NotifyOneConditionVariable ==
  IF Asleep = {} THEN UNCHANGED at ELSE \E t \in Asleep : Wake({t})

NotifyAllConditionVariable == Wake(Asleep)

\* The tests' use: the flag goes up under the mutex and all are notified.
Raise(t) ==
  /\ t \in Inside /\ ~flag /\ flag' = TRUE
  /\ "condition" \in Initialized /\ NotifyAllConditionVariable
  /\ UNCHANGED <<platform, Initialized, owner>>

Lower(t) ==
  /\ t \in Inside /\ flag /\ flag' = FALSE
  /\ UNCHANGED <<platform, Initialized, owner, at>>

Nudge ==
  /\ "condition" \in Initialized /\ NotifyOneConditionVariable
  /\ UNCHANGED <<platform, Initialized, owner, flag>>

Next ==
  \/ InitializeMutexPosix \/ InitializeMutexWindows
  \/ InitializeConditionVariablePosix \/ InitializeConditionVariableWindows
  \/ ShutdownMutex \/ ShutdownConditionVariable \/ Nudge
  \/ \E t \in Threads :
       \/ AcquireMutex(t) \/ TryAcquireMutex(t) \/ ReleaseMutex(t)
       \/ WaitConditionVariable(t)
       \/ WaitConditionVariableForPosix(t) \/ WaitConditionVariableForWindows(t)
       \/ WaitReturns(t) \/ TimerFires(t) \/ SpuriousWakeup(t)
       \/ Raise(t) \/ Lower(t)

Spec == Init /\ [][Next]_vars

-----------------------------------------------------------------------------
(* Properties.                                                             *)

\* At most one thread is between Acquire, or a wait that has returned for any
\* reason, and Release or a wait; it owns the mutex, and when nobody is the
\* mutex is free for those that have to come back.
Exclusive == Cardinality(Inside) <= 1 /\ owner = Inside

\* Nobody sleeps while the flag is up.
NobodyStranded == flag => Asleep = {}

MonitorKept == Exclusive /\ NobodyStranded
=============================================================================
