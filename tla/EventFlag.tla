----------------------------- MODULE EventFlag -----------------------------
(***************************************************************************)
(* What an event promises: a flag that opens a gate.  An auto-reset event  *)
(* lets one thread through for each time it is set, a manual-reset event   *)
(* lets all through until it is reset, a thread waits only while the flag  *)
(* is down, and a flag that stays up does not leave threads waiting.       *)
(* Event implements it.                                                    *)
(***************************************************************************)
CONSTANT Threads

VARIABLES
  initialized,
  mode,     \* "Auto" or "Manual"
  signaled, \* the flag
  waiting,  \* the threads inside Wait or WaitFor
  timed     \* those of them that have a deadline

vars == <<initialized, mode, signaled, waiting, timed>>

Init ==
  /\ initialized = FALSE
  /\ mode = "Auto"
  /\ signaled = FALSE
  /\ waiting = {}
  /\ timed = {}

Create ==
  /\ ~initialized
  /\ initialized' = TRUE
  /\ mode' \in {"Auto", "Manual"}
  /\ signaled' \in BOOLEAN
  /\ UNCHANGED <<waiting, timed>>

Destroy ==
  /\ initialized
  /\ waiting = {}
  /\ initialized' = FALSE
  /\ mode' = "Auto"
  /\ signaled' = FALSE
  /\ UNCHANGED <<waiting, timed>>

Set ==
  /\ initialized
  /\ signaled' = TRUE
  /\ UNCHANGED <<initialized, mode, waiting, timed>>

Clear ==
  /\ initialized
  /\ signaled' = FALSE
  /\ UNCHANGED <<initialized, mode, waiting, timed>>

\* Going through the gate closes an auto-reset event.
Through == signaled /\ signaled' = (mode = "Manual")

Pass(t) ==
  /\ initialized
  /\ t \notin waiting
  /\ Through
  /\ UNCHANGED <<initialized, mode, waiting, timed>>

Wait(t) ==
  /\ initialized
  /\ t \notin waiting
  /\ ~signaled
  /\ waiting' = waiting \cup {t}
  /\ timed' \in {timed, timed \cup {t}}
  /\ UNCHANGED <<initialized, mode, signaled>>

Return(t) ==
  /\ t \in waiting
  /\ Through
  /\ waiting' = waiting \ {t}
  /\ timed' = timed \ {t}
  /\ UNCHANGED <<initialized, mode>>

\* A timed wait returns false, though not with the flag up.
GiveUp(t) ==
  /\ t \in timed
  /\ ~signaled
  /\ waiting' = waiting \ {t}
  /\ timed' = timed \ {t}
  /\ UNCHANGED <<initialized, mode, signaled>>

Next ==
  \/ Create
  \/ Destroy
  \/ Set
  \/ Clear
  \/ \E t \in Threads : Pass(t) \/ Wait(t) \/ Return(t) \/ GiveUp(t)

Safe == Init /\ [][Next]_vars

\* A flag that stays up lets somebody through, and while an event is manual
\* everybody.
Spec ==
  /\ Safe
  /\ WF_vars(\E t \in Threads : Return(t))
  /\ \A t \in Threads : WF_vars(mode = "Manual" /\ Return(t))
=============================================================================
