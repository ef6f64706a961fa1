----------------------------- MODULE PosixWait -----------------------------
(***************************************************************************)
(* Waiting on a pthread condition variable, as Semaphore_POSIX.cpp and     *)
(* Event_POSIX.cpp do: in a loop on a predicate, under the mutex, for ever *)
(* or until a deadline computed once.  A critical section of the mutex is  *)
(* one step, and pthread_cond_wait ends one and begins another.            *)
(***************************************************************************)
CONSTANT Threads

VARIABLES
  Initialized, \* of the semaphore or the event that is waited on
  pc,      \* Idle, Asleep on the condition, or back and waiting for the mutex:
           \* Awake (the wait returned 0) or TimedOut (it returned ETIMEDOUT)
  deadline \* None for an untimed call, else Ahead or Passed

waits == <<pc, deadline>>

WaitTypeOK ==
  /\ pc \in [Threads -> {"Idle", "Asleep", "Awake", "TimedOut"}]
  /\ deadline \in [Threads -> {"None", "Ahead", "Passed"}]

Idle == {t \in Threads : pc[t] = "Idle"}
Sleepers == {t \in Threads : pc[t] = "Asleep"}
Contenders == {t \in Threads : pc[t] \in {"Awake", "TimedOut"}}

WaitInit ==
  /\ pc = [t \in Threads |-> "Idle"]
  /\ deadline = [t \in Threads |-> "None"]

\* The call starts to wait; d says whether it has a deadline.
Sleep(t, d) ==
  /\ pc' = [pc EXCEPT ![t] = "Asleep"]
  /\ deadline' = [deadline EXCEPT ![t] = d]

\* The loop waits again: with the deadline behind it, the wait is over at once.
SleepAgain(t) ==
  /\ pc' = [pc EXCEPT ![t] = IF deadline[t] = "Passed" THEN "TimedOut" ELSE "Asleep"]
  /\ UNCHANGED deadline

Leave(t) ==
  /\ pc' = [pc EXCEPT ![t] = "Idle"]
  /\ deadline' = [deadline EXCEPT ![t] = "None"]

\* pthread_cond_signal wakes one of the sleepers, if there is one.
Signal ==
  /\ IF Sleepers = {} THEN UNCHANGED pc
     ELSE \E t \in Sleepers : pc' = [pc EXCEPT ![t] = "Awake"]
  /\ UNCHANGED deadline

\* pthread_cond_broadcast wakes all of them.
Broadcast ==
  /\ pc' = [t \in Threads |-> IF t \in Sleepers THEN "Awake" ELSE pc[t]]
  /\ UNCHANGED deadline

DeadlinePasses(t) ==
  /\ deadline[t] = "Ahead"
  /\ deadline' = [deadline EXCEPT ![t] = "Passed"]
  /\ UNCHANGED pc

\* A signal may come between the deadline and this step; it then counts.
TimerFires(t) ==
  /\ pc[t] = "Asleep"
  /\ deadline[t] = "Passed"
  /\ pc' = [pc EXCEPT ![t] = "TimedOut"]
  /\ UNCHANGED deadline

SpuriousWakeup(t) ==
  /\ pc[t] = "Asleep"
  /\ pc' = [pc EXCEPT ![t] = "Awake"]
  /\ UNCHANGED deadline

WaitStep(t) == DeadlinePasses(t) \/ TimerFires(t) \/ SpuriousWakeup(t)
-----------------------------------------------------------------------------
(* Properties.                                                             *)

\* AcquireFor and WaitFor return, though others take every permit the thread is
\* woken for, or reset the event before each of its looks at it.
TimedWaitsEnd == \A t \in Threads : deadline[t] # "None" ~> deadline[t] = "None"
=============================================================================
