-------------------------- MODULE MCMemoryPoolPeak --------------------------
(***************************************************************************)
(* MemoryPoolRegistry observed: the most bytes whose blocks existed at one *)
(* time, which a "peak memory usage" of the pool would report.             *)
(***************************************************************************)
EXTENDS MCMemoryPoolRegistry

VARIABLE residentPeak

Observe ==
  residentPeak' =
    LET resident == SumOver(size, Resident)' IN
    IF ~Initialized' THEN 0
    ELSE IF resident > residentPeak THEN resident ELSE residentPeak

ObservedInit == Init /\ residentPeak = 0
ObservedNext == Next /\ Observe
ObservedSpec == ObservedInit /\ [][ObservedNext]_<<vars, residentPeak>>

\* Once every call has returned, the peak is at least what the pool's blocks
\* once occupied together: docs/ALLOCATION_CONTRACT.md lists "Current and
\* peak memory usage" among what is tracked per pool.
PeakCoversResident == Quiescent => residentPeak <= PeakBytes
=============================================================================
