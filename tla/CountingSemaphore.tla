------------------------- MODULE CountingSemaphore -------------------------
(***************************************************************************)
(* What a semaphore promises: permits are neither made up nor lost, never  *)
(* exceed the maximum, a thread waits only for want of one, a timed wait   *)
(* gives up only for want of one, and permits do not lie idle while        *)
(* threads wait for them.  Semaphore implements it.                        *)
(***************************************************************************)
EXTENDS Naturals

CONSTANTS
  Threads,
  Descs  \* the pairs of an initial and a maximum count it is created with

VARIABLES
  initialized,
  count,   \* the permits available
  maximum, \* the most there can be
  waiting, \* the threads inside Acquire or AcquireFor
  timed    \* those of them that have a deadline

vars == <<initialized, count, maximum, waiting, timed>>

Init ==
  /\ initialized = FALSE
  /\ count = 0
  /\ maximum = 0
  /\ waiting = {}
  /\ timed = {}

Create ==
  /\ ~initialized
  /\ initialized' = TRUE
  /\ \E desc \in Descs :
       /\ desc[2] > 0 /\ desc[1] <= desc[2]
       /\ count' = desc[1]
       /\ maximum' = desc[2]
  /\ UNCHANGED <<waiting, timed>>

Destroy ==
  /\ initialized
  /\ waiting = {}
  /\ initialized' = FALSE
  /\ count' = 0
  /\ maximum' = 0
  /\ UNCHANGED <<waiting, timed>>

\* A thread finds a permit, or waits because there is none.
Acquire(t) ==
  /\ initialized
  /\ t \notin waiting
  /\ count > 0
  /\ count' = count - 1
  /\ UNCHANGED <<initialized, maximum, waiting, timed>>

Wait(t) ==
  /\ initialized
  /\ t \notin waiting
  /\ count = 0
  /\ waiting' = waiting \cup {t}
  /\ timed' \in {timed, timed \cup {t}}
  /\ UNCHANGED <<initialized, count, maximum>>

\* A waiting thread gets a permit.
Take(t) ==
  /\ t \in waiting
  /\ count > 0
  /\ count' = count - 1
  /\ waiting' = waiting \ {t}
  /\ timed' = timed \ {t}
  /\ UNCHANGED <<initialized, maximum>>

\* A timed wait returns false, though not with a permit at hand.
GiveUp(t) ==
  /\ t \in timed
  /\ count = 0
  /\ waiting' = waiting \ {t}
  /\ timed' = timed \ {t}
  /\ UNCHANGED <<initialized, count, maximum>>

Release ==
  /\ initialized
  /\ \E n \in 1..(maximum - count) : count' = count + n
  /\ UNCHANGED <<initialized, maximum, waiting, timed>>

Next ==
  \/ Create
  \/ Destroy
  \/ Release
  \/ \E t \in Threads : Acquire(t) \/ Wait(t) \/ Take(t) \/ GiveUp(t)

Safe == Init /\ [][Next]_vars

Spec == Safe /\ WF_vars(\E t \in Threads : Take(t))
=============================================================================
