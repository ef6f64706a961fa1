---------------------------- MODULE AllocationMap ----------------------------
(***************************************************************************)
(* What the allocation tracker promises its callers: a map from pointers   *)
(* to the records of the allocations that are live, of bounded size, and   *)
(* truthful answers.  MemoryAllocationTracker implements it.               *)
(***************************************************************************)
EXTENDS Naturals

CONSTANTS
  Pointers, \* addresses the backend can hand out
  Records,  \* what is recorded of an allocation
  Capacity, \* the most allocations the map holds
  None      \* no record

VARIABLES
  enabled,  \* tracking is switched on
  live,     \* the record of each tracked pointer, None of the others
  answer    \* the operation last returned from, its pointer and its result

vars == <<enabled, live, answer>>

Tracked == {p \in Pointers : live[p] # None}

\* Capacity different pointers are tracked.
Full ==
  \E f \in [1..Capacity -> Tracked] : \A m, n \in 1..Capacity : f[m] = f[n] => m = n

Init ==
  /\ enabled = FALSE
  /\ live = [p \in Pointers |-> None]
  /\ answer = <<"none">>

Switch(on) ==
  /\ enabled' = on
  /\ live' = [p \in Pointers |-> None]
  /\ answer' = <<"none">>

\* What becomes of the map when p is tracked, and when it is not any more.
Enter(p, r) == live' = [live EXCEPT ![p] = r]
Remove(p) == live' = [live EXCEPT ![p] = None]

Track(p, r) ==
  /\ enabled
  /\ Enter(p, r)
  /\ answer' = <<"Track", p, r>>
  /\ UNCHANGED enabled

\* Only a map that is full of other pointers turns one away.
TrackFails(p) ==
  /\ enabled
  /\ p \notin Tracked
  /\ Full
  /\ answer' = <<"Track", p, None>>
  /\ UNCHANGED <<enabled, live>>

TryFind(p) ==
  /\ answer' = <<"TryFind", p, live[p]>>
  /\ UNCHANGED <<enabled, live>>

Untrack(p) ==
  /\ Remove(p)
  /\ answer' = <<"Untrack", p, live[p]>>
  /\ UNCHANGED enabled

Next ==
  \/ \E on \in BOOLEAN : Switch(on)
  \/ \E p \in Pointers :
       \/ \E r \in Records : Track(p, r)
       \/ TrackFails(p)
       \/ TryFind(p)
       \/ Untrack(p)

Spec == Init /\ [][Next]_vars
=============================================================================
