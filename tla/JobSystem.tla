------------------------------- MODULE JobSystem -------------------------------
(***************************************************************************)
(* The job system (modules/BlueJobSystem/src/JobSystem.cpp) over the ring  *)
(* buffer of Blue/Container/RingBuffer.h.  Jobs run on the thread that     *)
(* drains the queue and may submit jobs, drain the queue and shut the      *)
(* system down themselves, so calls nest.                                  *)
(***************************************************************************)
EXTENDS Integers, Sequences

CONSTANTS
  Capacity, \* of m_Queue
  Jobs,     \* bound of the model: the jobs that can be asked for, 1..n
  MaxDepth  \* bound of the model: how deep the calls nest

VARIABLES
  m_Initialized,
  m_Items, m_Head, m_Tail, m_Count, \* the ring buffer
  calls,    \* the calls under way, outermost first: "execute" or "shutdown"
  running,  \* the jobs under way, outermost first
  accepted, \* ghosts: the jobs accepted, in order,
  started,  \* those that were started, in order,
  asked     \* and how many were asked for

ring == <<m_Items, m_Head, m_Tail, m_Count>>
history == <<accepted, started, asked>>
jobVars == <<m_Initialized, ring, calls, running, history>>

Empty == 0

JobInit ==
  /\ m_Initialized = FALSE
  /\ m_Items = [i \in 0..(Capacity - 1) |-> Empty]
  /\ m_Head = 0 /\ m_Tail = 0 /\ m_Count = 0
  /\ calls = <<>> /\ running = <<>>
  /\ accepted = <<>> /\ started = <<>> /\ asked = 0

-----------------------------------------------------------------------------
(* The ring buffer.                                                        *)

Wrapped(index) == index % Capacity

\* Mutation of Push: the test for a full buffer is off by one.
PushOver(value) ==
  /\ m_Count <= Capacity
  /\ m_Items' = [m_Items EXCEPT ![m_Tail] = value]
  /\ m_Tail' = Wrapped(m_Tail + 1)
  /\ m_Count' = m_Count + 1
  /\ UNCHANGED m_Head

Push(value) ==
  /\ m_Count # Capacity
  /\ m_Items' = [m_Items EXCEPT ![m_Tail] = value]
  /\ m_Tail' = Wrapped(m_Tail + 1)
  /\ m_Count' = m_Count + 1
  /\ UNCHANGED m_Head

\* The item stays in the buffer until it is overwritten.
Pop ==
  /\ m_Count # 0
  /\ m_Head' = Wrapped(m_Head + 1)
  /\ m_Count' = m_Count - 1
  /\ UNCHANGED <<m_Items, m_Tail>>

-----------------------------------------------------------------------------
(* The job system.  A caller may call it while no job runs, or from the    *)
(* job that runs: then a call is under way for each running job.           *)

CanCall == Len(running) = Len(calls)

\* Twice in a row: the queue is kept.
Initialize ==
  /\ CanCall
  /\ m_Initialized' = TRUE
  /\ UNCHANGED <<ring, calls, running, history>>

\* The queue may be full, or the system not initialised.
Submit ==
  /\ CanCall /\ asked + 1 \in Jobs
  /\ asked' = asked + 1
  /\ \/ m_Initialized /\ Push(asked + 1) /\ accepted' = Append(accepted, asked + 1)
     \/ (~m_Initialized \/ m_Count = Capacity) /\ UNCHANGED <<ring, accepted>>
  /\ UNCHANGED <<m_Initialized, calls, running, started>>

ExecutePendingJobsOnCurrentThread ==
  /\ CanCall /\ Len(calls) < MaxDepth
  /\ calls' = Append(calls, "execute")
  /\ UNCHANGED <<m_Initialized, ring, running, history>>

Shutdown ==
  /\ CanCall /\ Len(calls) < MaxDepth
  /\ calls' = Append(calls, "shutdown")
  /\ UNCHANGED <<m_Initialized, ring, running, history>>

\* The loop takes the next job and calls its function.
StartJob ==
  /\ Len(calls) = Len(running) + 1
  /\ Pop
  /\ running' = Append(running, m_Items[m_Head])
  /\ started' = Append(started, m_Items[m_Head])
  /\ UNCHANGED <<m_Initialized, calls, accepted, asked>>

EndJob ==
  /\ CanCall /\ running # <<>>
  /\ running' = SubSeq(running, 1, Len(running) - 1)
  /\ UNCHANGED <<m_Initialized, ring, calls, history>>

\* The queue is empty: the call ends, and with it a shutdown.
Drained ==
  /\ Len(calls) = Len(running) + 1 /\ m_Count = 0
  /\ m_Initialized' = (m_Initialized /\ calls[Len(calls)] # "shutdown")
  /\ calls' = SubSeq(calls, 1, Len(calls) - 1)
  /\ UNCHANGED <<ring, running, history>>

JobNext ==
  \/ Initialize \/ Submit \/ ExecutePendingJobsOnCurrentThread \/ Shutdown
  \/ StartJob \/ EndJob \/ Drained

JobSpec == JobInit /\ [][JobNext]_jobVars

-----------------------------------------------------------------------------
(* Properties.                                                             *)

At(i) == Wrapped(m_Head + i - 1)

Pending == [i \in 1..m_Count |-> m_Items[At(i)]]

\* Every job that was accepted is started once, in the order of acceptance, or
\* still queued, however the calls nest; and none is left behind in a system that
\* is shut down.
JobsRunInOrder ==
  /\ m_Count <= Capacity /\ accepted = started \o Pending
  /\ ~m_Initialized => m_Count = 0

\* The invariant: the counts and indices of the ring agree, and the queue holds,
\* slot by slot, what was accepted and not started.
RingTypes ==
  /\ m_Initialized \in BOOLEAN
  /\ m_Items \in [0..(Capacity - 1) -> Nat]
  /\ m_Head \in 0..(Capacity - 1) /\ m_Tail \in 0..(Capacity - 1) /\ m_Count \in 0..Capacity
  /\ accepted \in Seq(Nat) /\ started \in Seq(Nat) /\ asked \in Nat

RingOrdered ==
  /\ m_Tail = Wrapped(m_Head + m_Count)
  /\ Len(accepted) = Len(started) + m_Count
  /\ \A i \in 1..Len(started) : accepted[i] = started[i]
  /\ \A i \in 1..m_Count : accepted[Len(started) + i] = m_Items[At(i)]

JobIInv == RingTypes /\ RingOrdered /\ (~m_Initialized => m_Count = 0)
=============================================================================
