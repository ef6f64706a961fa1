------------------------------- MODULE Event -------------------------------
(***************************************************************************)
(* The pthread event of                                                    *)
(* modules/BlueSystem/src/Platform/POSIX/Event_POSIX.cpp: a flag under a   *)
(* mutex and a condition variable, signaled for an auto-reset event and    *)
(* broadcast for a manual-reset one.                                       *)
(***************************************************************************)
EXTENDS PosixWait

VARIABLES
  ResetMode,
  Signaled

flags == <<ResetMode, Signaled>>
vars == <<Initialized, flags, waits>>

Init ==
  /\ Initialized = FALSE
  /\ ResetMode = "Auto"
  /\ Signaled = FALSE
  /\ WaitInit

InitializeEvent ==
  /\ ~Initialized
  /\ Initialized' = TRUE
  /\ ResetMode' \in {"Auto", "Manual"}
  /\ Signaled' \in BOOLEAN
  /\ UNCHANGED waits

\* The caller sees to it that no thread uses the event any more.
ShutdownEvent ==
  /\ Initialized
  /\ Idle = Threads
  /\ Initialized' = FALSE
  /\ ResetMode' = "Auto"
  /\ Signaled' = FALSE
  /\ UNCHANGED waits

-----------------------------------------------------------------------------
(* Signaling.                                                              *)

\* Mutation of Notify: nobody is woken.
NotifyNone == UNCHANGED waits

Notify == IF ResetMode = "Manual" THEN Broadcast ELSE Signal

SignalEvent ==
  /\ Initialized
  /\ Signaled' = TRUE
  /\ Notify
  /\ UNCHANGED <<Initialized, ResetMode>>

ResetEvent ==
  /\ Initialized
  /\ Signaled' = FALSE
  /\ UNCHANGED <<Initialized, ResetMode, waits>>

-----------------------------------------------------------------------------
(* Waiting.                                                                *)

\* Mutation of ConsumeAutoResetSignalIfNeeded: the flag stays up.
ConsumeNothing == UNCHANGED Signaled

ConsumeAutoResetSignalIfNeeded ==
  Signaled' = IF ResetMode = "Auto" THEN FALSE ELSE Signaled

\* Wait, TryWait and WaitFor with the flag up.
WaitPasses(t) ==
  /\ Initialized
  /\ t \in Idle
  /\ Signaled
  /\ ConsumeAutoResetSignalIfNeeded
  /\ UNCHANGED <<Initialized, ResetMode, waits>>

\* Wait, or WaitFor a time that is not zero, with the flag down.
WaitSleeps(t) ==
  /\ Initialized
  /\ t \in Idle
  /\ ~Signaled
  /\ \E d \in {"None", "Ahead"} : Sleep(t, d)
  /\ UNCHANGED <<Initialized, flags>>

\* The wait is over and the flag is up, after a wakeup or after the timeout.
WaitReturns(t) ==
  /\ t \in Contenders
  /\ Signaled
  /\ ConsumeAutoResetSignalIfNeeded
  /\ Leave(t)
  /\ UNCHANGED <<Initialized, ResetMode>>

\* Mutation of WaitAgain: the deadline starts over.
WaitAfresh(t) ==
  /\ pc[t] = "Awake"
  /\ ~Signaled
  /\ Sleep(t, IF deadline[t] = "None" THEN "None" ELSE "Ahead")
  /\ UNCHANGED <<Initialized, flags>>

WaitAgain(t) ==
  /\ pc[t] = "Awake"
  /\ ~Signaled
  /\ SleepAgain(t)
  /\ UNCHANGED <<Initialized, flags>>

GiveUp(t) ==
  /\ pc[t] = "TimedOut"
  /\ ~Signaled
  /\ Leave(t)
  /\ UNCHANGED <<Initialized, flags>>

Resume(t) == WaitReturns(t) \/ WaitAgain(t) \/ GiveUp(t)

-----------------------------------------------------------------------------
Next ==
  \/ InitializeEvent
  \/ ShutdownEvent
  \/ SignalEvent
  \/ ResetEvent
  \/ \E t \in Threads :
       \/ WaitPasses(t)
       \/ WaitSleeps(t)
       \/ Resume(t)
       \/ WaitStep(t) /\ UNCHANGED <<Initialized, flags>>

Spec == Init /\ [][Next]_vars

\* A thread that is awake gets the mutex, and time passes.
Fairness ==
  \A t \in Threads :
    /\ WF_vars(Resume(t))
    /\ WF_vars((DeadlinePasses(t) \/ TimerFires(t)) /\ UNCHANGED <<Initialized, flags>>)

FairSpec == Spec /\ Fairness

-----------------------------------------------------------------------------
(* Properties.                                                             *)

TypeOK ==
  /\ Initialized \in BOOLEAN
  /\ ResetMode \in {"Auto", "Manual"}
  /\ Signaled \in BOOLEAN
  /\ WaitTypeOK

\* No signal is lost: while the flag is up, nobody sleeps at a manual-reset
\* event, and if anybody sleeps at an auto-reset event somebody else is on the
\* way to the mutex to take the flag down.
NoSignalLost ==
  Signaled => Sleepers = {} \/ (ResetMode = "Auto" /\ Contenders # {})

\* The inductive invariant: nobody waits at an event that is shut down.
IInv ==
  /\ TypeOK
  /\ NoSignalLost
  /\ ~Initialized => Idle = Threads

\* The event keeps the promises of an event flag, with the fairness of both
\* reset modes.
Promise ==
  INSTANCE EventFlag WITH
    initialized <- Initialized,
    mode <- ResetMode,
    signaled <- Signaled,
    waiting <- Threads \ Idle,
    timed <- {t \in Threads : deadline[t] # "None"}

ImplementsEvent == Promise!Spec
=============================================================================
