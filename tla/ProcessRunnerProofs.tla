-------------------------- MODULE ProcessRunnerProofs --------------------------
(***************************************************************************)
(* Proofs about RunProcess, for any number of launches side by side, any   *)
(* programs and any number of failing system calls: the launch status is   *)
(* final, a run that succeeds has contained its processes, the verdict is  *)
(* what happened, and nobody is signalled after the reaping; and about the *)
(* workers that call it: every test is reported.                           *)
(***************************************************************************)
EXTENDS TestScheduler, FiniteSetTheorems, TLAPS

(***************************************************************************)
(* Types.                                                                  *)
(***************************************************************************)

LEMMA DrainTypes ==
  ASSUME TypeOK, NEW l \in Launches, DrainOutput(l)
  PROVE  captured' \in [Launches -> Nat] /\ outputClosed' \in [Launches -> BOOLEAN]
<1>1. CASE written[l] - captured[l] >= DrainLimit
  <2>1. captured' = [captured EXCEPT ![l] = captured[l] + DrainLimit]
        /\ outputClosed' = outputClosed
    BY <1>1 DEF DrainOutput
  <2>2. captured \in [Launches -> Nat] /\ outputClosed \in [Launches -> BOOLEAN]
    BY DEF TypeOK
  <2>3. captured[l] + DrainLimit \in Nat
    BY <2>2, RunnerAssumption
  <2> QED BY <2>1, <2>2, <2>3
<1>2. CASE ~(written[l] - captured[l] >= DrainLimit)
  <2>1. captured' = [captured EXCEPT ![l] = written[l]]
    BY <1>2 DEF DrainOutput
  <2>2. outputClosed' = [outputClosed EXCEPT ![l] = outputClosed[l] \/ writers[l] = {}]
    BY <1>2 DEF DrainOutput
  <2>3. captured' \in [Launches -> Nat]
    BY <2>1 DEF TypeOK
  <2>4. outputClosed' \in [Launches -> BOOLEAN]
    BY <2>2 DEF TypeOK
  <2> QED BY <2>3, <2>4
<1> QED BY <1>1, <1>2

LEMMA ConcludeTypes ==
  ASSUME TypeOK, NEW l \in Launches, NEW success, Conclude(l, success)
  PROVE  /\ step' \in [Launches -> Steps] /\ late' \in [Launches -> BOOLEAN]
         /\ result' \in [Launches -> [status : Statuses, exitCode : Int]]
<1>1. step' \in [Launches -> Steps] /\ late' \in [Launches -> BOOLEAN]
  BY DEF TypeOK, Conclude, Steps
<1>2. ExitCodeFromStatus(endStatus[l]) \in Int
  BY DEF TypeOK, WaitStatuses, NotEnded, ExitCodeFromStatus
<1> DEFINE r ==
       IF ~success \/ purpose[l] \in {"setup", "error", "stuck"} THEN Failed("RunnerError")
       ELSE IF purpose[l] = "timeout" THEN [status |-> "TimedOut", exitCode |-> TimeoutExitCode]
       ELSE IF launchFailed[l] THEN Failed("LaunchFailed")
       ELSE [status |-> "Exited", exitCode |-> ExitCodeFromStatus(endStatus[l])]
<1>3. result' = [result EXCEPT ![l] = r]
  BY DEF Conclude
<1>4. r \in [status : Statuses, exitCode : Int]
  BY <1>2 DEF Failed, DefaultResult, Statuses, TimeoutExitCode
<1>5. result' \in [Launches -> [status : Statuses, exitCode : Int]]
  <2> HIDE DEF r
  <2> QED BY <1>3, <1>4 DEF TypeOK
<1> QED BY <1>1, <1>5

LEMMA LeavesTypes ==
  ASSUME TypeOK, NEW l \in Launches, NEW status \in WaitStatuses, Leaves(l, status)
  PROVE  TypeOK'
<1>1. /\ writers' \in [Launches -> SUBSET Holders] /\ reporters' \in [Launches -> SUBSET Holders]
  BY DEF TypeOK, Leaves, Without
<1>2. endStatus' \in [Launches -> WaitStatuses \cup {NotEnded}]
  BY DEF TypeOK, Leaves
<1>3. leader' \in [Launches -> {"none", "forked", "grouped", "failing", "running",
                               "zombie", "reaped"}]
  BY DEF TypeOK, Leaves
<1> QED BY <1>1, <1>2, <1>3 DEF TypeOK, Leaves, runner, progress

LEMMA TypeStep ==
  ASSUME TypeOK, [Next]_vars
  PROVE  TypeOK'
<1> USE RunnerAssumption
<1>1. ASSUME NEW l \in Launches, Call(l) PROVE TypeOK'
  BY <1>1 DEF TypeOK, Call, Goes, system, pipes, progress, Steps
<1>2. ASSUME NEW l \in Launches, CreatePipes(l) PROVE TypeOK'
  BY <1>2 DEF TypeOK, CreatePipes, Goes, system, progress, Steps, Holders
<1>3. ASSUME NEW l \in Launches, SetFlags(l) PROVE TypeOK'
  BY <1>3 DEF TypeOK, SetFlags, Goes, system, pipes, progress, Steps
<1>4. ASSUME NEW l \in Launches, Fork(l) PROVE TypeOK'
  BY <1>4 DEF TypeOK, Fork, Goes, Inherits, progress, Steps, Holders
<1>5. ASSUME NEW l \in Launches, LaunchFails(l) PROVE TypeOK'
  BY <1>5 DEF TypeOK, LaunchFails, Fault, system, progress, Steps, Statuses, Failed, DefaultResult
<1>6. ASSUME NEW l \in Launches, CloseWriters(l) PROVE TypeOK'
  BY <1>6 DEF TypeOK, CloseWriters, Goes, system, progress, Steps, Holders
<1>7. ASSUME NEW l \in Launches, SetGroup(l) PROVE TypeOK'
  BY <1>7 DEF TypeOK, SetGroup, Goes, pipes, progress, Steps
<1>8. ASSUME NEW l \in Launches, SetGroupFails(l) PROVE TypeOK'
  BY <1>8 DEF TypeOK, SetGroupFails, Fault, Terminate, system, pipes, progress, Steps, Purposes
<1>9. ASSUME NEW l \in Launches, Drain(l) PROVE TypeOK'
  <2>1. captured' \in [Launches -> Nat] /\ outputClosed' \in [Launches -> BOOLEAN]
    BY <1>9, DrainTypes DEF Drain
  <2> QED BY <1>9, <2>1 DEF TypeOK, Drain, Goes, system, pipes, Steps
<1>10. ASSUME NEW l \in Launches, Report(l) PROVE TypeOK'
  BY <1>10 DEF TypeOK, Report, Goes, DrainExecError, system, pipes, Steps
<1>11. ASSUME NEW l \in Launches, ObserveExit(l) PROVE TypeOK'
  BY <1>11 DEF TypeOK, ObserveExit, Goes, system, pipes, progress, Steps
<1>12. ASSUME NEW l \in Launches, Poll(l) PROVE TypeOK'
  BY <1>12 DEF TypeOK, Poll, Goes, system, pipes, progress, Steps
<1>13. ASSUME NEW l \in Launches, TimesOut(l) PROVE TypeOK'
  BY <1>13 DEF TypeOK, TimesOut, Terminate, system, pipes, progress, Steps, Purposes
<1>14. ASSUME NEW l \in Launches, WatchFails(l) PROVE TypeOK'
  BY <1>14 DEF TypeOK, WatchFails, Fault, Terminate, system, pipes, progress, Steps, Purposes
<1>15. ASSUME NEW l \in Launches, Finalize(l) PROVE TypeOK'
  BY <1>15 DEF TypeOK, Finalize, Terminate, DrainExecError, system, pipes, Steps, Purposes
<1>16. ASSUME NEW l \in Launches, FinalizeFails(l) PROVE TypeOK'
  BY <1>16 DEF TypeOK, FinalizeFails, Fault, Terminate, system, pipes, progress, Steps, Purposes
<1>17. ASSUME NEW l \in Launches, Kill(l) PROVE TypeOK'
  BY <1>17 DEF TypeOK, Kill, Goes, Group, Direct, pipes, progress, Steps
<1>18. ASSUME NEW l \in Launches, KillFails(l) PROVE TypeOK'
  BY <1>18 DEF TypeOK, KillFails, Fault, Goes, Direct, pipes, progress, Steps
<1>19. ASSUME NEW l \in Launches, Reap(l) PROVE TypeOK'
  <2>1. /\ step' \in [Launches -> Steps] /\ late' \in [Launches -> BOOLEAN]
        /\ result' \in [Launches -> [status : Statuses, exitCode : Int]]
    BY <1>19, ConcludeTypes DEF Reap
  <2> QED BY <1>19, <2>1 DEF TypeOK, Reap, Fault, system, pipes, progress
<1>20. ASSUME NEW l \in Launches, ReapFails(l) PROVE TypeOK'
  <2>1. /\ step' \in [Launches -> Steps] /\ late' \in [Launches -> BOOLEAN]
        /\ result' \in [Launches -> [status : Statuses, exitCode : Int]]
    BY <1>20, ConcludeTypes DEF ReapFails
  <2>2. faults' \in Nat
    BY <1>20 DEF TypeOK, ReapFails, Fault
  <2> QED BY <1>20, <2>1, <2>2 DEF TypeOK, ReapFails, system, pipes, progress
<1>21. ASSUME NEW l \in Launches, Cleanup(l) PROVE TypeOK'
  <2>1. captured' \in [Launches -> Nat] /\ outputClosed' \in [Launches -> BOOLEAN]
    BY <1>21, DrainTypes DEF Cleanup
  <2> QED BY <1>21, <2>1 DEF TypeOK, Cleanup, Goes, system, pipes, Steps
<1>22. ASSUME NEW l \in Launches, CleanupFails(l) PROVE TypeOK'
  BY <1>22 DEF TypeOK, CleanupFails, Fault, Goes, DefaultResult, system, pipes, progress, Steps, Statuses
<1>23. ASSUME NEW l \in Launches, Elapse(l) PROVE TypeOK'
  BY <1>23 DEF TypeOK, Elapse, system, pipes, progress
<1>24. ASSUME NEW l \in Launches, ChildJoinsGroup(l) PROVE TypeOK'
  BY <1>24 DEF TypeOK, ChildJoinsGroup, runner, progress, pipes
<1>25. ASSUME NEW l \in Launches, ChildFails(l) PROVE TypeOK'
  BY <1>25 DEF TypeOK, ChildFails, runner, progress
<1>26. ASSUME NEW l \in Launches, ChildExecs(l) PROVE TypeOK'
  BY <1>26 DEF TypeOK, ChildExecs, runner, progress, Without, Holders
<1>27. ASSUME NEW l \in Launches, LeaderEnds(l) PROVE TypeOK'
  <2>1. Programs[l].ends \subseteq WaitStatuses
    BY DEF ProgramType
  <2>2. <<"exited", 127>> \in WaitStatuses
    BY DEF WaitStatuses
  <2> QED BY <1>27, <2>1, <2>2, LeavesTypes DEF LeaderEnds
<1>28. ASSUME NEW l \in Launches, LeaderDies(l) PROVE TypeOK'
  <2>1. <<"signaled", 9>> \in WaitStatuses
    BY DEF WaitStatuses
  <2> QED BY <1>28, <2>1, LeavesTypes DEF LeaderDies
<1>29. ASSUME NEW l \in Launches, Spawn(l) PROVE TypeOK'
  BY <1>29 DEF TypeOK, Spawn, runner, progress, Holders
<1>30. ASSUME NEW l \in Launches, FollowerEnds(l) PROVE TypeOK'
  BY <1>30 DEF TypeOK, FollowerEnds, runner, progress, Without
<1>31. ASSUME NEW l \in Launches, Write(l) PROVE TypeOK'
  BY <1>31 DEF TypeOK, Write, runner, progress, system
<1>32. ASSUME NEW l \in Launches, CloseOutput(l) PROVE TypeOK'
  BY <1>32 DEF TypeOK, CloseOutput, runner, progress, system
<1>33. ASSUME NEW l \in Launches, KillRefused(l) PROVE TypeOK'
  BY <1>33 DEF TypeOK, KillRefused, Goes, system, pipes, progress, Steps
<1>34. ASSUME NEW l \in Launches, ReapRefused(l) PROVE TypeOK'
  BY <1>34 DEF TypeOK, ReapRefused, Goes, pipes, progress, Steps
<1>35. ASSUME NEW l \in Launches, KillAgain(l) PROVE TypeOK'
  <2>1. /\ step' \in [Launches -> Steps] /\ late' \in [Launches -> BOOLEAN]
        /\ result' \in [Launches -> [status : Statuses, exitCode : Int]]
    BY <1>35, ConcludeTypes DEF KillAgain
  <2>2. doomed' \subseteq {"leader", "follower"} \X Launches
    BY <1>35 DEF TypeOK, KillAgain, Group
  <2> QED BY <1>35, <2>1, <2>2 DEF TypeOK, KillAgain, pipes, progress
<1>36. ASSUME NEW l \in Launches, KillAgainFails(l) PROVE TypeOK'
  <2>1. /\ step' \in [Launches -> Steps] /\ late' \in [Launches -> BOOLEAN]
        /\ result' \in [Launches -> [status : Statuses, exitCode : Int]]
    BY <1>36, ConcludeTypes DEF KillAgainFails
  <2>2. faults' \in Nat
    BY <1>36 DEF TypeOK, KillAgainFails, Fault
  <2> QED BY <1>36, <2>1, <2>2 DEF TypeOK, KillAgainFails, system, pipes, progress
<1>37. CASE UNCHANGED vars
  BY <1>37 DEF TypeOK, vars, system, pipes, progress
<1> QED
  BY <1>1, <1>2, <1>3, <1>4, <1>5, <1>6, <1>7, <1>8, <1>9, <1>10, <1>11, <1>12, <1>13,
     <1>14, <1>15, <1>16, <1>17, <1>18, <1>19, <1>20, <1>21, <1>22, <1>23, <1>24, <1>25,
     <1>26, <1>27, <1>28, <1>29, <1>30, <1>31, <1>32, <1>33, <1>34, <1>35, <1>36, <1>37
     DEF Next, RunnerStep, ProgramStep

(***************************************************************************)
(* What a step of one launch leaves of the others.                         *)
(***************************************************************************)

\* Nothing of launch m changes.
Same(m) ==
  /\ step'[m] = step[m] /\ purpose'[m] = purpose[m] /\ leader'[m] = leader[m]
  /\ endStatus'[m] = endStatus[m] /\ follower'[m] = follower[m]
  /\ writers'[m] = writers[m] /\ reporters'[m] = reporters[m]
  /\ reported'[m] = reported[m] /\ written'[m] = written[m] /\ captured'[m] = captured[m]
  /\ outputClosed'[m] = outputClosed[m] /\ launchFailed'[m] = launchFailed[m]
  /\ cleanupFailed'[m] = cleanupFailed[m] /\ result'[m] = result[m]
  /\ m \in launchLock' <=> m \in launchLock
  /\ <<"leader", m>> \in doomed' <=> <<"leader", m>> \in doomed
  /\ <<"follower", m>> \in doomed' <=> <<"follower", m>> \in doomed

\* The invariant without the types, which TypeStep has.
Inv == OneHolder /\ \A l \in Launches : LaunchInv(l)

LEMMA Frame ==
  ASSUME NEW m \in Launches, LaunchInv(m), Same(m)
  PROVE  LaunchInv(m)'
<1>1. LockHeld(m)' /\ PipesOwned(m)'
  BY DEF LaunchInv, LockHeld, PipesOwned, Same
<1>2. ChildFollowed(m)' /\ GroupDoomed(m)'
  BY DEF LaunchInv, ChildFollowed, GroupDoomed, SeenDead, Succeeds, Same
<1>3. OutputEnds(m)'
  BY DEF LaunchInv, OutputEnds, Succeeds, Same
<1>4. StatusKnown(m)' /\ VerdictKnown(m)'
  BY DEF LaunchInv, StatusKnown, VerdictKnown, Succeeds, ExitCodeFromStatus, Same
<1> QED BY <1>1, <1>2, <1>3, <1>4 DEF LaunchInv

LEMMA OneLaunch ==
  ASSUME IInv, NEW l \in Launches, OneHolder', LaunchInv(l)',
         \A m \in Launches \ {l} : Same(m)
  PROVE  Inv'
<1>1. ASSUME NEW m \in Launches \ {l} PROVE LaunchInv(m)'
  BY <1>1, Frame DEF IInv
<1> QED BY <1>1 DEF Inv

(***************************************************************************)
(* The launch.                                                             *)
(***************************************************************************)

\* The steps that change only where RunProcess is, and why it terminates.
LEMMA MoveStep ==
  ASSUME IInv, NEW l \in Launches,
         \/ Call(l) \/ SetFlags(l) \/ SetGroupFails(l) \/ ObserveExit(l) \/ Poll(l)
         \/ TimesOut(l) \/ WatchFails(l) \/ FinalizeFails(l) \/ KillRefused(l) \/ Elapse(l)
  PROVE  Inv'
<1> DEFINE From(a, b) == step[l] = a /\ step'[l] = b /\ purpose'[l] = purpose[l]
           Ends(a, why) == step[l] = a /\ step'[l] = "kill" /\ purpose'[l] = why
<1>1. /\ UNCHANGED <<launchLock, leader, endStatus, follower, doomed, writers, reporters,
                     reported, written, captured, outputClosed, launchFailed,
                     cleanupFailed, result>>
  BY DEF Call, SetFlags, SetGroupFails, ObserveExit, Poll, TimesOut, WatchFails,
         FinalizeFails, KillRefused, Elapse, system, pipes, progress
<1>2. \A m \in Launches \ {l} : step'[m] = step[m] /\ purpose'[m] = purpose[m]
  BY DEF IInv, TypeOK, Call, SetFlags, SetGroupFails, ObserveExit, Poll, TimesOut,
         WatchFails, FinalizeFails, KillRefused, Elapse, Goes, Terminate, LeaderAlreadyExited
<1>3. \/ From("idle", "launch") \/ From("created", "configured")
      \/ From("observe", "finalize") /\ leader[l] = "zombie"
      \/ From("observe", "drain") \/ From(step[l], step[l])
      \/ From("kill", "refused") /\ Darwin /\ purpose[l] \in {"exit", "stuck"}
      \/ Ends("group", "setup") \/ Ends("observe", "timeout") \/ Ends("finalize", "stuck")
      \/ Ends("drain", "error") \/ Ends("report", "error") \/ Ends("observe", "error")
  BY DEF IInv, TypeOK, Call, SetFlags, SetGroupFails, ObserveExit, Poll, TimesOut,
         WatchFails, FinalizeFails, KillRefused, Elapse, Goes, Terminate, LeaderAlreadyExited
<1>4. \A m \in Launches \ {l} : Same(m)
  BY <1>1, <1>2 DEF Same
<1>5. LaunchInv(l)
  BY DEF IInv
<1>6. LockHeld(l)' /\ PipesOwned(l)'
  BY <1>1, <1>3, <1>5 DEF LaunchInv, LockHeld, PipesOwned
<1>7. GroupDoomed(l)'
  BY <1>1, <1>3, <1>5 DEF LaunchInv, GroupDoomed, Succeeds
<1>8. ChildFollowed(l)'
  BY <1>1, <1>3, <1>5 DEF LaunchInv, ChildFollowed, GroupDoomed, SeenDead
<1>9. OutputEnds(l)'
  BY <1>1, <1>3, <1>5 DEF LaunchInv, OutputEnds, Succeeds
<1>10. StatusKnown(l)' /\ VerdictKnown(l)'
  BY <1>1, <1>3, <1>5 DEF LaunchInv, StatusKnown, VerdictKnown, Succeeds, ExitCodeFromStatus
<1>11. OneHolder'
  BY <1>1 DEF IInv, OneHolder
<1> QED BY <1>4, <1>6, <1>7, <1>8, <1>9, <1>10, <1>11, OneLaunch DEF LaunchInv

LEMMA CreatePipesStep ==
  ASSUME IInv, NEW l \in Launches, CreatePipes(l)
  PROVE  Inv'
<1>1. /\ step[l] = "launch" /\ step'[l] = "created"
      /\ writers'[l] = {<<"runner", l>>} /\ reporters'[l] = {<<"runner", l>>}
      /\ \A m \in Launches \ {l} : /\ step'[m] = step[m]
                                   /\ writers'[m] = writers[m] /\ reporters'[m] = reporters[m]
  BY DEF IInv, TypeOK, CreatePipes, Goes
<1>2. /\ UNCHANGED <<purpose, leader, endStatus, follower, doomed, reported, written,
                     captured, outputClosed, launchFailed, cleanupFailed, result>>
      /\ launchLock = {} /\ launchLock' = {l}
  BY DEF CreatePipes, system, progress
<1>3. \A m \in Launches \ {l} : Same(m)
  BY <1>1, <1>2 DEF Same
<1>4. LaunchInv(l)
  BY DEF IInv
<1>5. LockHeld(l)' /\ PipesOwned(l)'
  BY <1>1, <1>2, <1>4 DEF LaunchInv, LockHeld, PipesOwned, ChildFollowed
<1>6. ChildFollowed(l)' /\ GroupDoomed(l)' /\ OutputEnds(l)'
  BY <1>1, <1>2, <1>4
     DEF LaunchInv, ChildFollowed, GroupDoomed, OutputEnds, SeenDead, Succeeds
<1>7. StatusKnown(l)' /\ VerdictKnown(l)'
  BY <1>1, <1>2, <1>4 DEF LaunchInv, StatusKnown, VerdictKnown, Succeeds
<1>8. OneHolder'
  BY <1>2 DEF OneHolder
<1> QED BY <1>3, <1>5, <1>6, <1>7, <1>8, OneLaunch DEF LaunchInv

\* The child inherits the ends of its own launch alone: no other runner's is open.
LEMMA ForkStep ==
  ASSUME IInv, NEW l \in Launches, Fork(l)
  PROVE  Inv'
<1>1. LaunchInv(l) /\ step[l] = "configured" /\ l \in launchLock
  BY DEF IInv, LaunchInv, LockHeld, Fork, Goes
<1>2. ASSUME NEW m \in Launches \ {l}
      PROVE  <<"runner", m>> \notin writers[m] /\ <<"runner", m>> \notin reporters[m]
  BY <1>1, <1>2 DEF IInv, OneHolder, LaunchInv, LockHeld
<1>3. \A m \in Launches \ {l} : writers'[m] = writers[m] /\ reporters'[m] = reporters[m]
  BY <1>2 DEF Fork, Inherits
<1>4. /\ writers'[l] = writers[l] \cup {<<"leader", l>>}
      /\ reporters'[l] \subseteq reporters[l] \cup {<<"leader", l>>}
      /\ reporters[l] \subseteq reporters'[l]
  BY <1>1 DEF LaunchInv, LockHeld, Fork, Inherits
<1>5. /\ step'[l] = "forked" /\ leader'[l] = "forked"
      /\ \A m \in Launches \ {l} : step'[m] = step[m] /\ leader'[m] = leader[m]
  BY DEF IInv, TypeOK, Fork, Goes
<1>6. UNCHANGED <<launchLock, purpose, endStatus, follower, doomed, reported, written,
                  captured, outputClosed, launchFailed, cleanupFailed, result>>
  BY DEF Fork, progress
<1>7. \A m \in Launches \ {l} : Same(m)
  BY <1>3, <1>5, <1>6 DEF Same
<1>8. LockHeld(l)' /\ PipesOwned(l)'
  BY <1>1, <1>4, <1>5, <1>6 DEF LaunchInv, LockHeld, PipesOwned, ChildFollowed
<1>9. ChildFollowed(l)' /\ GroupDoomed(l)' /\ OutputEnds(l)'
  BY <1>1, <1>5, <1>6
     DEF LaunchInv, ChildFollowed, GroupDoomed, OutputEnds, SeenDead, Succeeds
<1>10. StatusKnown(l)' /\ VerdictKnown(l)'
  BY <1>1, <1>5, <1>6 DEF LaunchInv, ChildFollowed, StatusKnown, VerdictKnown, Succeeds
<1>11. OneHolder'
  BY <1>6 DEF IInv, OneHolder
<1> QED BY <1>7, <1>8, <1>9, <1>10, <1>11, OneLaunch DEF LaunchInv

LEMMA LaunchFailsStep ==
  ASSUME IInv, NEW l \in Launches, LaunchFails(l)
  PROVE  Inv'
<1>1. /\ step[l] \in {"launch", "created", "configured"} /\ step'[l] = "returned"
      /\ writers'[l] = {} /\ reporters'[l] = {}
      /\ result'[l].status \in {"LaunchFailed", "RunnerError"}
      /\ \A m \in Launches \ {l} :
           /\ step'[m] = step[m] /\ result'[m] = result[m]
           /\ writers'[m] = writers[m] /\ reporters'[m] = reporters[m]
  BY DEF IInv, TypeOK, LaunchFails, Failed, DefaultResult
<1>2. /\ UNCHANGED <<purpose, leader, endStatus, follower, doomed, reported, written,
                     captured, outputClosed, launchFailed, cleanupFailed>>
      /\ launchLock' = launchLock \ {l}
  BY DEF LaunchFails, system, progress
<1>3. \A m \in Launches \ {l} : Same(m)
  BY <1>1, <1>2 DEF Same
<1>4. LaunchInv(l)
  BY DEF IInv
<1>5. LockHeld(l)' /\ PipesOwned(l)'
  BY <1>1, <1>2, <1>4 DEF LaunchInv, LockHeld, PipesOwned, ChildFollowed
<1>6. ChildFollowed(l)' /\ GroupDoomed(l)' /\ OutputEnds(l)'
  BY <1>1, <1>2, <1>4
     DEF LaunchInv, ChildFollowed, GroupDoomed, OutputEnds, SeenDead, Succeeds
<1>7. StatusKnown(l)' /\ VerdictKnown(l)'
  BY <1>1, <1>2, <1>4 DEF LaunchInv, ChildFollowed, StatusKnown, VerdictKnown, Succeeds
<1>8. OneHolder'
  BY <1>2 DEF IInv, OneHolder
<1> QED BY <1>3, <1>5, <1>6, <1>7, <1>8, OneLaunch DEF LaunchInv

LEMMA CloseWritersStep ==
  ASSUME IInv, NEW l \in Launches, CloseWriters(l)
  PROVE  Inv'
<1>1. /\ step[l] = "forked" /\ step'[l] = "group"
      /\ writers'[l] = writers[l] \ {<<"runner", l>>}
      /\ reporters'[l] = reporters[l] \ {<<"runner", l>>}
      /\ \A m \in Launches \ {l} : /\ step'[m] = step[m]
                                   /\ writers'[m] = writers[m] /\ reporters'[m] = reporters[m]
  BY DEF IInv, TypeOK, CloseWriters, Goes
<1>2. /\ UNCHANGED <<purpose, leader, endStatus, follower, doomed, reported, written,
                     captured, outputClosed, launchFailed, cleanupFailed, result>>
      /\ launchLock' = launchLock \ {l}
  BY DEF CloseWriters, system, progress
<1>3. \A m \in Launches \ {l} : Same(m)
  BY <1>1, <1>2 DEF Same
<1>4. LaunchInv(l)
  BY DEF IInv
<1>5. LockHeld(l)' /\ PipesOwned(l)'
  BY <1>1, <1>2, <1>4 DEF LaunchInv, LockHeld, PipesOwned
<1>6. ChildFollowed(l)' /\ GroupDoomed(l)' /\ OutputEnds(l)'
  BY <1>1, <1>2, <1>4
     DEF LaunchInv, ChildFollowed, GroupDoomed, OutputEnds, SeenDead, Succeeds
<1>7. StatusKnown(l)' /\ VerdictKnown(l)'
  BY <1>1, <1>2, <1>4 DEF LaunchInv, StatusKnown, VerdictKnown, Succeeds
<1>8. OneHolder'
  BY <1>2 DEF IInv, OneHolder
<1> QED BY <1>3, <1>5, <1>6, <1>7, <1>8, OneLaunch DEF LaunchInv

LEMMA SetGroupStep ==
  ASSUME IInv, NEW l \in Launches, SetGroup(l)
  PROVE  Inv'
<1>1. /\ step[l] = "group" /\ step'[l] = "drain"
      /\ leader'[l] = IF leader[l] = "forked" THEN "grouped" ELSE leader[l]
      /\ \A m \in Launches \ {l} : step'[m] = step[m] /\ leader'[m] = leader[m]
  BY DEF IInv, TypeOK, SetGroup, Goes
<1>2. UNCHANGED <<launchLock, purpose, endStatus, follower, doomed, writers, reporters,
                  reported, written, captured, outputClosed, launchFailed,
                  cleanupFailed, result>>
  BY DEF SetGroup, pipes, progress
<1>3. \A m \in Launches \ {l} : Same(m)
  BY <1>1, <1>2 DEF Same
<1>4. LaunchInv(l)
  BY DEF IInv
<1>5. LockHeld(l)' /\ PipesOwned(l)'
  BY <1>1, <1>2, <1>4 DEF LaunchInv, LockHeld, PipesOwned
<1>6. ChildFollowed(l)' /\ GroupDoomed(l)' /\ OutputEnds(l)'
  BY <1>1, <1>2, <1>4
     DEF LaunchInv, ChildFollowed, GroupDoomed, OutputEnds, SeenDead, Succeeds
<1>7. StatusKnown(l)' /\ VerdictKnown(l)'
  BY <1>1, <1>2, <1>4 DEF LaunchInv, StatusKnown, VerdictKnown, Succeeds
<1>8. OneHolder'
  BY <1>2 DEF IInv, OneHolder
<1> QED BY <1>3, <1>5, <1>6, <1>7, <1>8, OneLaunch DEF LaunchInv

(***************************************************************************)
(* Watching and terminating.                                               *)
(***************************************************************************)

\* The end of the output is seen when all that was written has been read.
LEMMA DrainSeesEnd ==
  ASSUME IInv, NEW l \in Launches, DrainOutput(l)
  PROVE  /\ outputClosed'[l] => writers[l] = {} /\ captured'[l] = written[l]
         /\ outputClosed[l] => outputClosed'[l]
         /\ \A m \in Launches \ {l} :
              captured'[m] = captured[m] /\ outputClosed'[m] = outputClosed[m]
<1>1. /\ written[l] \in Nat /\ captured[l] \in Nat /\ DrainLimit \in Nat \ {0}
      /\ captured \in [Launches -> Nat] /\ outputClosed \in [Launches -> BOOLEAN]
  BY RunnerAssumption DEF IInv, TypeOK
<1>2. outputClosed[l] => writers[l] = {} /\ captured[l] = written[l]
  BY DEF IInv, LaunchInv, OutputEnds
<1>3. CASE written[l] - captured[l] >= DrainLimit
  <2>1. ~outputClosed[l]
    BY <1>1, <1>2, <1>3
  <2> QED BY <1>1, <1>3, <2>1 DEF DrainOutput
<1>4. CASE ~(written[l] - captured[l] >= DrainLimit)
  BY <1>1, <1>2, <1>4 DEF DrainOutput
<1> QED BY <1>3, <1>4

LEMMA DrainStep ==
  ASSUME IInv, NEW l \in Launches, Drain(l)
  PROVE  Inv'
<1>1. /\ step[l] = "drain" /\ step'[l] = "report"
      /\ \A m \in Launches \ {l} : step'[m] = step[m]
  BY DEF IInv, TypeOK, Drain, Goes
<1>2. UNCHANGED <<launchLock, purpose, leader, endStatus, follower, doomed, writers,
                  reporters, reported, written, launchFailed, cleanupFailed, result>>
  BY DEF Drain, system, pipes
<1>3. /\ outputClosed'[l] => writers[l] = {} /\ captured'[l] = written[l]
      /\ \A m \in Launches \ {l} :
           captured'[m] = captured[m] /\ outputClosed'[m] = outputClosed[m]
  BY DrainSeesEnd DEF Drain
<1>4. \A m \in Launches \ {l} : Same(m)
  BY <1>1, <1>2, <1>3 DEF Same
<1>5. LaunchInv(l)
  BY DEF IInv
<1>6. LockHeld(l)' /\ PipesOwned(l)'
  BY <1>1, <1>2, <1>5 DEF LaunchInv, LockHeld, PipesOwned
<1>7. ChildFollowed(l)' /\ GroupDoomed(l)' /\ OutputEnds(l)'
  BY <1>1, <1>2, <1>3, <1>5
     DEF LaunchInv, ChildFollowed, GroupDoomed, OutputEnds, SeenDead, Succeeds
<1>8. StatusKnown(l)' /\ VerdictKnown(l)'
  BY <1>1, <1>2, <1>5 DEF LaunchInv, StatusKnown, VerdictKnown, Succeeds
<1>9. OneHolder'
  BY <1>2 DEF IInv, OneHolder
<1> QED BY <1>4, <1>6, <1>7, <1>8, <1>9, OneLaunch DEF LaunchInv

\* The launch status that is read is what the child reported.
LEMMA StatusRead ==
  ASSUME IInv, NEW l \in Launches, DrainExecError(l)
  PROVE  /\ launchFailed'[l] <=> reported[l]
         /\ \A m \in Launches \ {l} : launchFailed'[m] = launchFailed[m]
<1>1. launchFailed \in [Launches -> BOOLEAN] /\ (launchFailed[l] => reported[l])
  BY DEF IInv, TypeOK, LaunchInv, StatusKnown
<1> QED BY <1>1 DEF DrainExecError

LEMMA StatusReadStep ==
  ASSUME IInv, NEW l \in Launches, Report(l) \/ Finalize(l)
  PROVE  Inv'
<1>1. /\ \/ step[l] = "report" /\ step'[l] = "observe" /\ purpose'[l] = purpose[l]
         \/ step[l] = "finalize" /\ step'[l] = "kill" /\ purpose'[l] \in {"exit", "stuck"}
      /\ \A m \in Launches \ {l} : step'[m] = step[m] /\ purpose'[m] = purpose[m]
  BY DEF IInv, TypeOK, Report, Finalize, Goes, Terminate
<1>2. UNCHANGED <<launchLock, leader, endStatus, follower, doomed, writers, reporters,
                  reported, written, captured, outputClosed, cleanupFailed, result>>
  BY DEF Report, Finalize, system, pipes
<1>3. /\ launchFailed'[l] <=> reported[l]
      /\ \A m \in Launches \ {l} : launchFailed'[m] = launchFailed[m]
  BY StatusRead DEF Report, Finalize
<1>4. \A m \in Launches \ {l} : Same(m)
  BY <1>1, <1>2, <1>3 DEF Same
<1>5. LaunchInv(l)
  BY DEF IInv
<1>6. LockHeld(l)' /\ PipesOwned(l)'
  BY <1>1, <1>2, <1>5 DEF LaunchInv, LockHeld, PipesOwned
<1>7. ChildFollowed(l)' /\ GroupDoomed(l)' /\ OutputEnds(l)'
  BY <1>1, <1>2, <1>5
     DEF LaunchInv, ChildFollowed, GroupDoomed, OutputEnds, SeenDead, Succeeds
<1>8. StatusKnown(l)' /\ VerdictKnown(l)'
  BY <1>1, <1>2, <1>3, <1>5 DEF LaunchInv, StatusKnown, VerdictKnown, Succeeds
<1>9. OneHolder'
  BY <1>2 DEF IInv, OneHolder
<1> QED BY <1>4, <1>6, <1>7, <1>8, <1>9, OneLaunch DEF LaunchInv

\* The signal reaches all that are in the group, and the child wherever it is.
LEMMA KillStep ==
  ASSUME IInv, NEW l \in Launches, Kill(l) \/ KillFails(l)
  PROVE  Inv'
<1>1. /\ step[l] = "kill" /\ step'[l] = "reap"
      /\ \A m \in Launches \ {l} : step'[m] = step[m]
  BY DEF IInv, TypeOK, Kill, KillFails, Goes
<1>2. UNCHANGED <<launchLock, purpose, leader, endStatus, follower, writers, reporters,
                  reported, written, captured, outputClosed, launchFailed, result>>
  BY DEF Kill, KillFails, pipes, progress
<1>3. /\ \/ doomed' = doomed \cup Group(l) \cup Direct(l)
         \/ doomed' = doomed \cup Direct(l) /\ cleanupFailed'[l]
      /\ \A m \in Launches \ {l} : cleanupFailed'[m] = cleanupFailed[m]
  BY DEF IInv, TypeOK, Kill, KillFails
<1>4. \A m \in Launches \ {l} : Same(m)
  BY <1>1, <1>2, <1>3 DEF Same, Group, Direct
<1>5. LaunchInv(l)
  BY DEF IInv
<1>6. LockHeld(l)' /\ PipesOwned(l)'
  BY <1>1, <1>2, <1>5 DEF LaunchInv, LockHeld, PipesOwned
<1>7. ChildFollowed(l)'
  BY <1>1, <1>2, <1>3, <1>5
     DEF LaunchInv, ChildFollowed, SeenDead, Group, Direct, LeaderLives, LeaderAlreadyExited
<1>8. GroupDoomed(l)'
  BY <1>1, <1>2, <1>3, <1>5
     DEF LaunchInv, ChildFollowed, SeenDead, GroupDoomed, Succeeds, Group, Direct,
         LeaderLives, LeaderAlreadyExited
<1>9. OutputEnds(l)' /\ VerdictKnown(l)'
  BY <1>1, <1>2, <1>5 DEF LaunchInv, OutputEnds, VerdictKnown, Succeeds
<1>10. StatusKnown(l)'
  BY <1>1, <1>2, <1>3, <1>5 DEF LaunchInv, StatusKnown
<1>11. OneHolder'
  BY <1>2 DEF IInv, OneHolder
<1> QED BY <1>4, <1>6, <1>7, <1>8, <1>9, <1>10, <1>11, OneLaunch DEF LaunchInv

\* What the result says of the way there.
LEMMA Concluded ==
  ASSUME IInv, NEW l \in Launches, NEW success \in BOOLEAN, Conclude(l, success)
  PROVE  /\ step'[l] \in {"cleanup", "returned"}
         /\ step'[l] = "returned" => purpose[l] = "setup" \/ outputClosed[l]
         /\ result'[l].status # "RunnerError" =>
              success /\ purpose[l] \notin {"setup", "error", "stuck"}
         /\ result'[l].status = "LaunchFailed" => launchFailed[l]
         /\ result'[l].status = "Exited" =>
              /\ purpose[l] \in {"none", "exit"} /\ ~launchFailed[l]
              /\ result'[l].exitCode = ExitCodeFromStatus(endStatus[l])
         /\ \A m \in Launches \ {l} : step'[m] = step[m] /\ result'[m] = result[m]
<1>1. /\ step \in [Launches -> Steps] /\ purpose[l] \in Purposes
      /\ result \in [Launches -> [status : Statuses, exitCode : Int]]
  BY DEF IInv, TypeOK
<1>2. /\ step'[l] \in {"cleanup", "returned"}
      /\ step'[l] = "returned" => purpose[l] = "setup" \/ outputClosed[l]
      /\ \A m \in Launches \ {l} : step'[m] = step[m] /\ result'[m] = result[m]
  BY <1>1 DEF Conclude
<1>3. result'[l] =
       IF ~success \/ purpose[l] \in {"setup", "error", "stuck"} THEN Failed("RunnerError")
       ELSE IF purpose[l] = "timeout" THEN [status |-> "TimedOut", exitCode |-> TimeoutExitCode]
       ELSE IF launchFailed[l] THEN Failed("LaunchFailed")
       ELSE [status |-> "Exited", exitCode |-> ExitCodeFromStatus(endStatus[l])]
  BY <1>1 DEF Conclude
<1>4. CASE ~success \/ purpose[l] \in {"setup", "error", "stuck"}
  <2>1. result'[l] = Failed("RunnerError")
    BY <1>3, <1>4
  <2>2. result'[l].status = "RunnerError"
    BY <2>1 DEF Failed, DefaultResult
  <2> QED BY <1>2, <2>2
<1>5. CASE success /\ purpose[l] = "timeout"
  BY <1>2, <1>3, <1>5 DEF Failed, DefaultResult
<1>6. CASE success /\ purpose[l] \in {"none", "exit"}
  BY <1>2, <1>3, <1>6 DEF Failed, DefaultResult
<1> QED BY <1>1, <1>4, <1>5, <1>6 DEF Purposes

LEMMA ReapStep ==
  ASSUME IInv, NEW l \in Launches, Reap(l)
  PROVE  Inv'
<1>1. step[l] = "reap" /\ leader[l] = "zombie" /\ Conclude(l, ~cleanupFailed[l])
  BY DEF Reap
<1>2. /\ leader'[l] = "reaped"
      /\ \A m \in Launches \ {l} : leader'[m] = leader[m]
  BY DEF IInv, TypeOK, Reap
<1>3. UNCHANGED <<launchLock, purpose, endStatus, follower, doomed, writers, reporters,
                  reported, written, captured, outputClosed, launchFailed, cleanupFailed>>
  BY DEF Reap, pipes, progress
<1>4. /\ step'[l] \in {"cleanup", "returned"}
      /\ step'[l] = "returned" => purpose[l] = "setup" \/ outputClosed[l]
      /\ result'[l].status # "RunnerError" =>
           ~cleanupFailed[l] /\ purpose[l] \notin {"setup", "error", "stuck"}
      /\ result'[l].status = "LaunchFailed" => launchFailed[l]
      /\ result'[l].status = "Exited" =>
           /\ purpose[l] \in {"none", "exit"} /\ ~launchFailed[l]
           /\ result'[l].exitCode = ExitCodeFromStatus(endStatus[l])
      /\ \A m \in Launches \ {l} : step'[m] = step[m] /\ result'[m] = result[m]
  BY <1>1, Concluded DEF IInv, TypeOK
<1>5. \A m \in Launches \ {l} : Same(m)
  BY <1>2, <1>3, <1>4 DEF Same
<1>6. LaunchInv(l)
  BY DEF IInv
<1>7. LockHeld(l)' /\ PipesOwned(l)'
  BY <1>1, <1>2, <1>3, <1>4, <1>6 DEF LaunchInv, LockHeld, PipesOwned
<1>8. ChildFollowed(l)' /\ GroupDoomed(l)' /\ OutputEnds(l)'
  BY <1>1, <1>2, <1>3, <1>4, <1>6
     DEF LaunchInv, ChildFollowed, GroupDoomed, OutputEnds, SeenDead, Succeeds
<1>9. StatusKnown(l)'
  BY <1>1, <1>2, <1>3, <1>4, <1>6 DEF LaunchInv, StatusKnown
<1>10. VerdictKnown(l)'
  BY <1>1, <1>2, <1>3, <1>4, <1>6
     DEF LaunchInv, ChildFollowed, SeenDead, StatusKnown, VerdictKnown, Succeeds,
         ExitCodeFromStatus
<1>11. OneHolder'
  BY <1>3 DEF IInv, OneHolder
<1> QED BY <1>5, <1>7, <1>8, <1>9, <1>10, <1>11, OneLaunch DEF LaunchInv

\* On Darwin the child may be reaped before its group is signalled.
LEMMA ReapRefusedStep ==
  ASSUME IInv, NEW l \in Launches, ReapRefused(l)
  PROVE  Inv'
<1>1. /\ step[l] = "refused" /\ step'[l] = "again"
      /\ leader[l] = "zombie" /\ leader'[l] = "reaped"
      /\ \A m \in Launches \ {l} : step'[m] = step[m] /\ leader'[m] = leader[m]
  BY DEF IInv, TypeOK, ReapRefused, Goes
<1>2. UNCHANGED <<launchLock, purpose, endStatus, follower, doomed, writers, reporters, reported,
                  written, captured, outputClosed, launchFailed, cleanupFailed, result>>
  BY DEF ReapRefused, pipes, progress
<1>3. \A m \in Launches \ {l} : Same(m)
  BY <1>1, <1>2 DEF Same
<1>4. LaunchInv(l)
  BY DEF IInv
<1>5. LockHeld(l)' /\ PipesOwned(l)'
  BY <1>1, <1>2, <1>4 DEF LaunchInv, LockHeld, PipesOwned
<1>6. ChildFollowed(l)' /\ GroupDoomed(l)' /\ OutputEnds(l)'
  BY <1>1, <1>2, <1>4
     DEF LaunchInv, ChildFollowed, GroupDoomed, OutputEnds, SeenDead, Succeeds
<1>7. StatusKnown(l)' /\ VerdictKnown(l)'
  BY <1>1, <1>2, <1>4 DEF LaunchInv, StatusKnown, VerdictKnown, Succeeds
<1>8. OneHolder'
  BY <1>2 DEF IInv, OneHolder
<1> QED BY <1>3, <1>5, <1>6, <1>7, <1>8, OneLaunch DEF LaunchInv

\* The retry reaches what is left of the group.
LEMMA KillAgainStep ==
  ASSUME IInv, NEW l \in Launches, KillAgain(l)
  PROVE  Inv'
<1>1. /\ step[l] = "again" /\ Conclude(l, TRUE)
      /\ doomed' = doomed \cup Group(l)
  BY DEF KillAgain
<1>2. UNCHANGED <<launchLock, purpose, leader, endStatus, follower, writers, reporters, reported,
                  written, captured, outputClosed, launchFailed, cleanupFailed>>
  BY DEF KillAgain, pipes, progress
<1>3. /\ step'[l] \in {"cleanup", "returned"}
      /\ step'[l] = "returned" => purpose[l] = "setup" \/ outputClosed[l]
      /\ result'[l].status # "RunnerError" => purpose[l] \notin {"setup", "error", "stuck"}
      /\ result'[l].status = "LaunchFailed" => launchFailed[l]
      /\ result'[l].status = "Exited" =>
           /\ purpose[l] \in {"none", "exit"} /\ ~launchFailed[l]
           /\ result'[l].exitCode = ExitCodeFromStatus(endStatus[l])
      /\ \A m \in Launches \ {l} : step'[m] = step[m] /\ result'[m] = result[m]
  BY <1>1, Concluded
<1>4. LaunchInv(l) /\ leader[l] = "reaped" /\ purpose[l] \in {"exit", "stuck"}
  BY <1>1 DEF IInv, LaunchInv, ChildFollowed
<1>5. /\ <<"leader", l>> \in doomed' <=> <<"leader", l>> \in doomed
      /\ follower[l] = "grouped" => <<"follower", l>> \in doomed'
      /\ \A m \in Launches \ {l} : /\ <<"leader", m>> \in doomed' <=> <<"leader", m>> \in doomed
                                   /\ <<"follower", m>> \in doomed' <=> <<"follower", m>> \in doomed
  BY <1>1, <1>4 DEF Group
<1>6. \A m \in Launches \ {l} : Same(m)
  BY <1>2, <1>3, <1>5 DEF Same
<1>7. LockHeld(l)' /\ PipesOwned(l)'
  BY <1>1, <1>2, <1>3, <1>4 DEF LaunchInv, LockHeld, PipesOwned
<1>8. ChildFollowed(l)'
  BY <1>1, <1>2, <1>3, <1>4, <1>5 DEF LaunchInv, ChildFollowed, SeenDead
<1>9. GroupDoomed(l)'
  BY <1>1, <1>2, <1>3, <1>4, <1>5 DEF LaunchInv, GroupDoomed, Succeeds
<1>10. OutputEnds(l)'
  BY <1>1, <1>2, <1>3, <1>4 DEF LaunchInv, OutputEnds, Succeeds
<1>11. StatusKnown(l)'
  BY <1>1, <1>2, <1>3, <1>4, <1>5 DEF LaunchInv, StatusKnown
<1>12. VerdictKnown(l)'
  <2>1. <<"leader", l>> \notin doomed
    BY <1>1, <1>4 DEF LaunchInv, GroupDoomed
  <2> QED BY <1>1, <1>2, <1>3, <1>4, <2>1
          DEF LaunchInv, StatusKnown, VerdictKnown, Succeeds, ExitCodeFromStatus
<1>13. OneHolder'
  BY <1>2 DEF IInv, OneHolder
<1> QED BY <1>6, <1>7, <1>8, <1>9, <1>10, <1>11, <1>12, <1>13, OneLaunch DEF LaunchInv

\* A run that failed promises nothing.
LEMMA ReapFailsStep ==
  ASSUME IInv, NEW l \in Launches, ReapFails(l) \/ KillAgainFails(l)
  PROVE  Inv'
<1>1. step[l] \in {"reap", "refused", "again"} /\ Conclude(l, FALSE)
  BY DEF ReapFails, KillAgainFails
<1>2. UNCHANGED <<launchLock, purpose, leader, endStatus, follower, doomed, writers,
                  reporters, reported, written, captured, outputClosed, launchFailed>>
  BY DEF ReapFails, KillAgainFails, system, pipes, progress
<1>3. /\ step'[l] \in {"cleanup", "returned"} /\ result'[l].status = "RunnerError"
      /\ \A m \in Launches \ {l} : step'[m] = step[m] /\ result'[m] = result[m]
  BY <1>1, Concluded
<1>4. \A m \in Launches \ {l} : cleanupFailed'[m] = cleanupFailed[m]
  BY DEF IInv, TypeOK, ReapFails, KillAgainFails
<1>5. \A m \in Launches \ {l} : Same(m)
  BY <1>2, <1>3, <1>4 DEF Same
<1>6. LaunchInv(l)
  BY DEF IInv
<1>7. LockHeld(l)' /\ PipesOwned(l)'
  BY <1>1, <1>2, <1>3, <1>6 DEF LaunchInv, LockHeld, PipesOwned
<1>8. ChildFollowed(l)' /\ GroupDoomed(l)' /\ OutputEnds(l)'
  BY <1>1, <1>2, <1>3, <1>6
     DEF LaunchInv, ChildFollowed, GroupDoomed, OutputEnds, SeenDead, Succeeds
<1>9. StatusKnown(l)' /\ VerdictKnown(l)'
  BY <1>1, <1>2, <1>3, <1>6 DEF LaunchInv, StatusKnown, VerdictKnown, Succeeds
<1>10. OneHolder'
  BY <1>2 DEF IInv, OneHolder
<1> QED BY <1>5, <1>7, <1>8, <1>9, <1>10, OneLaunch DEF LaunchInv

LEMMA CleanupStep ==
  ASSUME IInv, NEW l \in Launches, Cleanup(l)
  PROVE  Inv'
<1>1. /\ step[l] = "cleanup"
      /\ step'[l] = "cleanup" \/ (step'[l] = "returned" /\ outputClosed'[l])
      /\ \A m \in Launches \ {l} : step'[m] = step[m]
  BY DEF IInv, TypeOK, Cleanup
<1>2. UNCHANGED <<launchLock, purpose, leader, endStatus, follower, doomed, writers,
                  reporters, reported, written, launchFailed, cleanupFailed, result>>
  BY DEF Cleanup, system, pipes
<1>3. /\ outputClosed'[l] => writers[l] = {} /\ captured'[l] = written[l]
      /\ \A m \in Launches \ {l} :
           captured'[m] = captured[m] /\ outputClosed'[m] = outputClosed[m]
  BY DrainSeesEnd DEF Cleanup
<1>4. \A m \in Launches \ {l} : Same(m)
  BY <1>1, <1>2, <1>3 DEF Same
<1>5. LaunchInv(l)
  BY DEF IInv
<1>6. LockHeld(l)' /\ PipesOwned(l)'
  BY <1>1, <1>2, <1>5 DEF LaunchInv, LockHeld, PipesOwned
<1>7. ChildFollowed(l)' /\ GroupDoomed(l)' /\ OutputEnds(l)'
  BY <1>1, <1>2, <1>3, <1>5
     DEF LaunchInv, ChildFollowed, GroupDoomed, OutputEnds, SeenDead, Succeeds
<1>8. StatusKnown(l)' /\ VerdictKnown(l)'
  BY <1>1, <1>2, <1>5
     DEF LaunchInv, StatusKnown, VerdictKnown, Succeeds, ExitCodeFromStatus
<1>9. OneHolder'
  BY <1>2 DEF IInv, OneHolder
<1> QED BY <1>4, <1>6, <1>7, <1>8, <1>9, OneLaunch DEF LaunchInv

LEMMA CleanupFailsStep ==
  ASSUME IInv, NEW l \in Launches, CleanupFails(l)
  PROVE  Inv'
<1>1. /\ step[l] = "cleanup" /\ step'[l] = "returned" /\ result'[l].status = "RunnerError"
      /\ \A m \in Launches \ {l} : step'[m] = step[m] /\ result'[m] = result[m]
  BY DEF IInv, TypeOK, CleanupFails, Goes, DefaultResult
<1>2. UNCHANGED <<launchLock, purpose, leader, endStatus, follower, doomed, writers,
                  reporters, reported, written, captured, outputClosed, launchFailed,
                  cleanupFailed>>
  BY DEF CleanupFails, system, pipes, progress
<1>3. \A m \in Launches \ {l} : Same(m)
  BY <1>1, <1>2 DEF Same
<1>4. LaunchInv(l)
  BY DEF IInv
<1>5. LockHeld(l)' /\ PipesOwned(l)'
  BY <1>1, <1>2, <1>4 DEF LaunchInv, LockHeld, PipesOwned
<1>6. ChildFollowed(l)' /\ GroupDoomed(l)' /\ OutputEnds(l)'
  BY <1>1, <1>2, <1>4
     DEF LaunchInv, ChildFollowed, GroupDoomed, OutputEnds, SeenDead, Succeeds
<1>7. StatusKnown(l)' /\ VerdictKnown(l)'
  BY <1>1, <1>2, <1>4 DEF LaunchInv, StatusKnown, VerdictKnown, Succeeds
<1>8. OneHolder'
  BY <1>2 DEF IInv, OneHolder
<1> QED BY <1>3, <1>5, <1>6, <1>7, <1>8, OneLaunch DEF LaunchInv

(***************************************************************************)
(* The child and its descendant.                                           *)
(***************************************************************************)

LEMMA ChildStarts ==
  ASSUME IInv, NEW l \in Launches, ChildJoinsGroup(l) \/ ChildFails(l)
  PROVE  Inv'
<1>1. /\ leader[l] \in {"forked", "grouped"} /\ <<"leader", l>> \notin doomed
      /\ \/ leader'[l] = "grouped" /\ reported'[l] = reported[l]
         \/ leader'[l] = "failing" /\ reported'[l]
      /\ \A m \in Launches \ {l} : leader'[m] = leader[m] /\ reported'[m] = reported[m]
  BY DEF IInv, TypeOK, ChildJoinsGroup, ChildFails, Awake, pipes
<1>2. UNCHANGED <<launchLock, step, purpose, captured, outputClosed, launchFailed,
                  cleanupFailed, result, doomed, endStatus, follower, writers, reporters,
                  written>>
  BY DEF ChildJoinsGroup, ChildFails, runner, progress, pipes
<1>3. \A m \in Launches \ {l} : Same(m)
  BY <1>1, <1>2 DEF Same
<1>4. LaunchInv(l)
  BY DEF IInv
<1>5. LockHeld(l)' /\ PipesOwned(l)'
  BY <1>1, <1>2, <1>4 DEF LaunchInv, LockHeld, PipesOwned
<1>6. ChildFollowed(l)' /\ GroupDoomed(l)' /\ OutputEnds(l)'
  BY <1>1, <1>2, <1>4
     DEF LaunchInv, ChildFollowed, GroupDoomed, OutputEnds, SeenDead, Succeeds
<1>7. StatusKnown(l)' /\ VerdictKnown(l)'
  BY <1>1, <1>2, <1>4
     DEF LaunchInv, ChildFollowed, SeenDead, StatusKnown, VerdictKnown, Succeeds
<1>8. OneHolder'
  BY <1>2 DEF IInv, OneHolder
<1> QED BY <1>3, <1>5, <1>6, <1>7, <1>8, OneLaunch DEF LaunchInv

\* No process of one launch holds another's pipe.
LEMMA ForeignPipes ==
  ASSUME IInv, NEW l \in Launches, NEW m \in Launches \ {l}, NEW kind
  PROVE  <<kind, l>> \notin writers[m] /\ <<kind, l>> \notin reporters[m]
BY DEF IInv, LaunchInv, PipesOwned

LEMMA ChildExecsStep ==
  ASSUME IInv, NEW l \in Launches, ChildExecs(l)
  PROVE  Inv'
<1>1. /\ leader[l] = "grouped" /\ <<"leader", l>> \notin doomed /\ leader'[l] = "running"
      /\ \A m \in Launches \ {l} : leader'[m] = leader[m]
  BY DEF IInv, TypeOK, ChildExecs, Awake
<1>2. UNCHANGED <<launchLock, step, purpose, captured, outputClosed, launchFailed,
                  cleanupFailed, result, doomed, endStatus, follower, reported, written>>
  BY DEF ChildExecs, runner, progress
<1>3. /\ writers'[l] = (writers[l] \ {<<"leader", l>>}) \cup {<<"program", l>>}
      /\ reporters'[l] = reporters[l] \ {<<"leader", l>>}
  BY DEF ChildExecs, Without
<1>4. ASSUME NEW m \in Launches \ {l}
      PROVE  writers'[m] = writers[m] /\ reporters'[m] = reporters[m]
  <2>1. <<"leader", l>> \notin writers[m] /\ <<"leader", l>> \notin reporters[m]
    BY ForeignPipes
  <2> QED BY <2>1 DEF ChildExecs, Without
<1>5. \A m \in Launches \ {l} : Same(m)
  BY <1>1, <1>2, <1>4 DEF Same
<1>6. LaunchInv(l)
  BY DEF IInv
<1>7. LockHeld(l)' /\ PipesOwned(l)'
  BY <1>1, <1>2, <1>3, <1>6 DEF LaunchInv, LockHeld, PipesOwned
<1>8. ChildFollowed(l)' /\ GroupDoomed(l)'
  BY <1>1, <1>2, <1>6 DEF LaunchInv, ChildFollowed, GroupDoomed, SeenDead, Succeeds
<1>9. OutputEnds(l)'
  BY <1>1, <1>2, <1>6 DEF LaunchInv, PipesOwned, OutputEnds, Succeeds
<1>10. StatusKnown(l)' /\ VerdictKnown(l)'
  BY <1>1, <1>2, <1>6 DEF LaunchInv, StatusKnown, VerdictKnown, Succeeds
<1>11. OneHolder'
  BY <1>2 DEF IInv, OneHolder
<1> QED BY <1>5, <1>7, <1>8, <1>9, <1>10, <1>11, OneLaunch DEF LaunchInv

LEMMA LeavesStep ==
  ASSUME IInv, NEW l \in Launches, NEW status, Leaves(l, status),
         leader[l] \in {"forked", "grouped", "failing", "running"},
         reported[l] \/ <<"leader", l>> \in doomed \/ status \in Programs[l].ends
  PROVE  Inv'
<1>1. /\ leader'[l] = "zombie" /\ endStatus'[l] = status
      /\ \A m \in Launches \ {l} : leader'[m] = leader[m] /\ endStatus'[m] = endStatus[m]
  BY DEF IInv, TypeOK, Leaves
<1>2. UNCHANGED <<launchLock, step, purpose, captured, outputClosed, launchFailed,
                  cleanupFailed, result, doomed, follower, reported, written>>
  BY DEF Leaves, runner, progress
<1>3. /\ writers'[l] = writers[l] \ {<<"leader", l>>, <<"program", l>>}
      /\ reporters'[l] = reporters[l] \ {<<"leader", l>>, <<"program", l>>}
  BY DEF Leaves, Without
<1>4. ASSUME NEW m \in Launches \ {l}
      PROVE  writers'[m] = writers[m] /\ reporters'[m] = reporters[m]
  <2>1. /\ <<"leader", l>> \notin writers[m] /\ <<"leader", l>> \notin reporters[m]
        /\ <<"program", l>> \notin writers[m] /\ <<"program", l>> \notin reporters[m]
    BY ForeignPipes
  <2> QED BY <2>1 DEF Leaves, Without
<1>5. \A m \in Launches \ {l} : Same(m)
  BY <1>1, <1>2, <1>4 DEF Same
<1>6. LaunchInv(l)
  BY DEF IInv
<1>7. LockHeld(l)' /\ PipesOwned(l)'
  BY <1>1, <1>2, <1>3, <1>6 DEF LaunchInv, LockHeld, PipesOwned
<1>8. ChildFollowed(l)' /\ GroupDoomed(l)'
  BY <1>1, <1>2, <1>6 DEF LaunchInv, ChildFollowed, GroupDoomed, SeenDead, Succeeds
<1>9. OutputEnds(l)'
  BY <1>1, <1>2, <1>3, <1>6 DEF LaunchInv, OutputEnds, GroupDoomed, Succeeds
<1>10. StatusKnown(l)' /\ VerdictKnown(l)'
  BY <1>1, <1>2, <1>6
     DEF LaunchInv, StatusKnown, VerdictKnown, Succeeds, GroupDoomed, ChildFollowed
<1>11. OneHolder'
  BY <1>2 DEF IInv, OneHolder
<1> QED BY <1>5, <1>7, <1>8, <1>9, <1>10, <1>11, OneLaunch DEF LaunchInv

LEMMA LeaderEndsStep ==
  ASSUME IInv, NEW l \in Launches, LeaderEnds(l) \/ LeaderDies(l)
  PROVE  Inv'
<1>1. CASE LeaderDies(l)
  BY <1>1, LeavesStep DEF LeaderDies, LeaderLives
<1>2. CASE LeaderEnds(l)
  <2>1. leader[l] = "failing" => reported[l]
    BY DEF IInv, LaunchInv, StatusKnown
  <2> QED BY <1>2, <2>1, LeavesStep DEF LeaderEnds
<1> QED BY <1>1, <1>2

\* Only a program that was not killed starts a descendant.
LEMMA SpawnStep ==
  ASSUME IInv, NEW l \in Launches, Spawn(l)
  PROVE  Inv'
<1>1. /\ leader[l] = "running" /\ <<"leader", l>> \notin doomed
      /\ \A m \in Launches \ {l} : follower'[m] = follower[m]
  BY DEF IInv, TypeOK, Spawn, Awake
<1>2. UNCHANGED <<launchLock, step, purpose, captured, outputClosed, launchFailed,
                  cleanupFailed, result, doomed, leader, endStatus, reporters, reported,
                  written>>
  BY DEF Spawn, runner, progress
<1>3. /\ writers[l] = {} => writers'[l] = {}
      /\ writers[l] \subseteq writers'[l]
      /\ writers'[l] \subseteq writers[l] \cup {<<"follower", l>>}
  BY DEF Spawn
<1>4. ASSUME NEW m \in Launches \ {l} PROVE writers'[m] = writers[m]
  <2>1. <<"program", l>> \notin writers[m]
    BY ForeignPipes
  <2> QED BY <2>1 DEF Spawn
<1>5. \A m \in Launches \ {l} : Same(m)
  BY <1>1, <1>2, <1>4 DEF Same
<1>6. LaunchInv(l)
  BY DEF IInv
<1>7. LockHeld(l)' /\ PipesOwned(l)'
  BY <1>1, <1>2, <1>3, <1>6 DEF LaunchInv, LockHeld, PipesOwned
<1>8. ChildFollowed(l)' /\ GroupDoomed(l)' /\ OutputEnds(l)'
  BY <1>1, <1>2, <1>3, <1>6
     DEF LaunchInv, ChildFollowed, GroupDoomed, OutputEnds, SeenDead, Succeeds
<1>9. StatusKnown(l)' /\ VerdictKnown(l)'
  BY <1>2, <1>6
     DEF LaunchInv, StatusKnown, VerdictKnown, Succeeds, ExitCodeFromStatus
<1>10. OneHolder'
  BY <1>2 DEF IInv, OneHolder
<1> QED BY <1>5, <1>7, <1>8, <1>9, <1>10, OneLaunch DEF LaunchInv

LEMMA FollowerStep ==
  ASSUME IInv, NEW l \in Launches, FollowerEnds(l) \/ Write(l) \/ CloseOutput(l)
  PROVE  Inv'
<1>1. /\ follower'[l] \in {follower[l], "gone"}
      /\ \A m \in Launches \ {l} : follower'[m] = follower[m] /\ written'[m] = written[m]
  BY DEF IInv, TypeOK, FollowerEnds, Write, CloseOutput, system
<1>2. UNCHANGED <<launchLock, step, purpose, captured, outputClosed, launchFailed,
                  cleanupFailed, result, doomed, leader, endStatus, reporters, reported>>
  BY DEF FollowerEnds, Write, CloseOutput, runner, progress, system
<1>3. /\ writers'[l] \subseteq writers[l]
      /\ writers[l] \ {<<"program", l>>, <<"follower", l>>} \subseteq writers'[l]
      /\ writers[l] = {} => written'[l] = written[l]
  BY DEF IInv, TypeOK, FollowerEnds, Write, CloseOutput, Without
<1>4. ASSUME NEW m \in Launches \ {l} PROVE writers'[m] = writers[m]
  <2>1. <<"follower", l>> \notin writers[m]
    BY ForeignPipes
  <2>2. writers[m] \ {<<"follower", l>>} = writers[m]
    BY <2>1
  <2>3. CASE FollowerEnds(l)
    BY <2>2, <2>3 DEF FollowerEnds, Without
  <2>4. CASE Write(l)
    BY <2>4 DEF Write
  <2>5. CASE CloseOutput(l)
    BY <2>5 DEF IInv, TypeOK, CloseOutput
  <2> QED BY <2>3, <2>4, <2>5
<1>5. \A m \in Launches \ {l} : Same(m)
  BY <1>1, <1>2, <1>4 DEF Same
<1>6. LaunchInv(l)
  BY DEF IInv
<1>7. LockHeld(l)' /\ PipesOwned(l)'
  BY <1>2, <1>3, <1>6 DEF LaunchInv, LockHeld, PipesOwned
<1>8. ChildFollowed(l)' /\ GroupDoomed(l)' /\ OutputEnds(l)'
  BY <1>1, <1>2, <1>3, <1>6
     DEF LaunchInv, ChildFollowed, GroupDoomed, OutputEnds, SeenDead, Succeeds
<1>9. StatusKnown(l)' /\ VerdictKnown(l)'
  BY <1>2, <1>6
     DEF LaunchInv, StatusKnown, VerdictKnown, Succeeds, ExitCodeFromStatus
<1>10. OneHolder'
  BY <1>2 DEF IInv, OneHolder
<1> QED BY <1>5, <1>7, <1>8, <1>9, <1>10, OneLaunch DEF LaunchInv

(***************************************************************************)
(* The theorems.                                                           *)
(***************************************************************************)

LEMMA InitInvariant == Init => IInv
<1> SUFFICES ASSUME Init PROVE IInv
  OBVIOUS
<1>1. TypeOK
  BY DEF Init, TypeOK, Steps, Purposes, DefaultResult, Statuses
<1>2. OneHolder
  BY DEF Init, OneHolder
<1>3. ASSUME NEW l \in Launches PROVE LaunchInv(l)
  <2>1. LockHeld(l) /\ PipesOwned(l)
    BY DEF Init, LockHeld, PipesOwned
  <2>2. ChildFollowed(l) /\ GroupDoomed(l) /\ OutputEnds(l)
    BY DEF Init, ChildFollowed, GroupDoomed, OutputEnds, SeenDead, Succeeds
  <2>3. StatusKnown(l) /\ VerdictKnown(l)
    BY DEF Init, StatusKnown, VerdictKnown, Succeeds
  <2> QED BY <2>1, <2>2, <2>3 DEF LaunchInv
<1> QED BY <1>1, <1>2, <1>3 DEF IInv

LEMMA InvariantStep ==
  ASSUME IInv, [Next]_vars
  PROVE  IInv'
<1>1. TypeOK'
  BY TypeStep DEF IInv
<1>2. CASE UNCHANGED vars
  <2>1. \A m \in Launches : Same(m)
    BY <1>2 DEF vars, system, pipes, progress, Same
  <2>2. \A m \in Launches : LaunchInv(m)'
    BY <2>1, Frame DEF IInv
  <2>3. OneHolder'
    BY <1>2 DEF IInv, OneHolder, vars
  <2> QED BY <1>1, <2>2, <2>3 DEF IInv
<1>3. ASSUME NEW l \in Launches, Call(l) \/ RunnerStep(l) \/ Elapse(l) \/ ProgramStep(l)
      PROVE  Inv'
  <2>1. CASE Call(l) \/ Elapse(l)
    BY <2>1, MoveStep
  <2>2. CASE RunnerStep(l)
    BY <2>2, MoveStep, CreatePipesStep, ForkStep, LaunchFailsStep, CloseWritersStep,
       SetGroupStep, DrainStep, StatusReadStep, KillStep, ReapStep, ReapFailsStep,
       ReapRefusedStep, KillAgainStep, CleanupStep, CleanupFailsStep DEF RunnerStep
  <2>3. CASE ProgramStep(l)
    BY <2>3, ChildStarts, ChildExecsStep, LeaderEndsStep, SpawnStep, FollowerStep
       DEF ProgramStep
  <2> QED BY <1>3, <2>1, <2>2, <2>3
<1> QED BY <1>1, <1>2, <1>3 DEF IInv, Inv, Next

\* The invariant of RunProcess, for any number of launches.
THEOREM InvariantHolds == Spec => []IInv
<1>1. Init => IInv
  BY InitInvariant
<1>2. IInv /\ [Next]_vars => IInv'
  BY InvariantStep
<1> QED BY <1>1, <1>2, PTL DEF Spec

\* What the invariant says of every launch.
LEMMA LaunchesAreSafe ==
  ASSUME IInv
  PROVE  LaunchStatusFinal /\ Contained /\ VerdictTruthful
<1>1. ASSUME NEW l \in Launches, step[l] = "finalize"
      PROVE  reporters[l] = {}
  <2>1. LaunchInv(l)
    BY DEF IInv
  <2>2. <<"runner", l>> \notin reporters[l] /\ <<"leader", l>> \notin reporters[l]
    BY <1>1, <2>1 DEF LaunchInv, LockHeld, PipesOwned, ChildFollowed, SeenDead
  <2> QED BY <2>1, <2>2 DEF LaunchInv, PipesOwned
<1>2. ASSUME NEW l \in Launches, step[l] = "returned",
             result[l].status # "RunnerError", leader[l] # "none"
      PROVE  /\ leader[l] = "reaped" /\ Group(l) \subseteq doomed
             /\ writers[l] = {} /\ captured[l] = written[l]
  BY <1>2 DEF IInv, LaunchInv, GroupDoomed, OutputEnds, Succeeds, Group
<1>3. ASSUME NEW l \in Launches, step[l] = "returned"
      PROVE  /\ result[l].status = "Exited" =>
                  /\ ~reported[l] /\ endStatus[l] \in Programs[l].ends
                  /\ result[l].exitCode = ExitCodeFromStatus(endStatus[l])
             /\ result[l].status = "LaunchFailed" => reported[l] \/ leader[l] = "none"
  BY <1>3 DEF IInv, LaunchInv, VerdictKnown, Succeeds
<1>4. LaunchStatusFinal
  BY <1>1 DEF LaunchStatusFinal
<1>5. Contained
  BY <1>2 DEF Contained
<1>6. VerdictTruthful
  BY <1>3 DEF VerdictTruthful
<1> QED BY <1>4, <1>5, <1>6

\* The launch lock does what the comment at its declaration says: by the time the
\* child's exit is seen nobody holds the exec-error pipe of the launch.
THEOREM LaunchStatusIsFinal == Spec => []LaunchStatusFinal
<1>1. IInv => LaunchStatusFinal
  BY LaunchesAreSafe
<1> QED BY <1>1, InvariantHolds, PTL

\* Whatever the programs do, a run that does not fail has reaped its child, has
\* left nobody of the group unsignalled and has read all of the output.
THEOREM RunsAreContained == Spec => []Contained
<1>1. IInv => Contained
  BY LaunchesAreSafe
<1> QED BY <1>1, InvariantHolds, PTL

\* The verdict is what happened to the program.
THEOREM VerdictsAreTruthful == Spec => []VerdictTruthful
<1>1. IInv => VerdictTruthful
  BY LaunchesAreSafe
<1> QED BY <1>1, InvariantHolds, PTL

\* A child that is reaped is behind Kill and KillFails; the retry of Darwin signals its
\* group only, and that is all that signals.
THEOREM ReapedIsNotSignalled == Spec => NoSignalAfterReap
<1>1. ASSUME IInv, [Next]_vars, NEW l \in Launches, leader[l] = "reaped"
      PROVE  /\ step[l] # "kill" /\ (step[l] = "again" => Darwin)
             /\ \A kind \in {"leader", "follower"} :
                  <<kind, l>> \in doomed' \ doomed => kind = "follower" /\ step[l] = "again"
  <2>1. step[l] # "kill" /\ (step[l] = "again" => Darwin)
    BY <1>1 DEF IInv, LaunchInv, ChildFollowed
  <2>2. ASSUME NEW m \in Launches, Kill(m) \/ KillFails(m)
        PROVE  /\ m # l
               /\ \/ doomed' = doomed \cup Group(m) \cup Direct(m)
                  \/ doomed' = doomed \cup Direct(m)
    BY <2>1, <2>2 DEF Kill, KillFails, Goes
  <2>3. \/ doomed' = doomed
        \/ \E m \in Launches : Kill(m) \/ KillFails(m) \/ KillAgain(m)
    <3>1. ASSUME NEW m \in Launches,
                 \/ Call(m) \/ CreatePipes(m) \/ SetFlags(m) \/ Fork(m) \/ LaunchFails(m)
                 \/ CloseWriters(m) \/ SetGroup(m) \/ SetGroupFails(m)
          PROVE  doomed' = doomed
      BY <3>1 DEF system, Call, CreatePipes, SetFlags, Fork, LaunchFails, CloseWriters,
         SetGroup, SetGroupFails
    <3>2. ASSUME NEW m \in Launches,
                 \/ Drain(m) \/ Report(m) \/ ObserveExit(m) \/ Poll(m) \/ TimesOut(m)
                 \/ WatchFails(m) \/ Finalize(m) \/ FinalizeFails(m) \/ KillRefused(m)
                 \/ Reap(m) \/ ReapFails(m) \/ ReapRefused(m) \/ KillAgainFails(m)
                 \/ Cleanup(m) \/ CleanupFails(m) \/ Elapse(m)
          PROVE  doomed' = doomed
      BY <3>2 DEF system, Drain, Report, ObserveExit, Poll, TimesOut, WatchFails, Finalize,
         FinalizeFails, KillRefused, Reap, ReapFails, ReapRefused, KillAgainFails, Cleanup,
         CleanupFails, Elapse
    <3>3. ASSUME NEW m \in Launches, ProgramStep(m) PROVE doomed' = doomed
      BY <3>3 DEF ProgramStep, system, ChildJoinsGroup, ChildFails, ChildExecs,
         LeaderEnds, LeaderDies, Leaves, Spawn, FollowerEnds, Write, CloseOutput
    <3>4. UNCHANGED vars => doomed' = doomed
      BY DEF vars, system
    <3> QED BY <1>1, <3>1, <3>2, <3>3, <3>4 DEF Next, RunnerStep
  <2>4. ASSUME NEW m \in Launches, KillAgain(m),
               NEW kind \in {"leader", "follower"}, <<kind, l>> \in doomed' \ doomed
        PROVE  kind = "follower" /\ step[l] = "again"
    <3>1. step[m] = "again" /\ <<kind, l>> \in Group(m)
      BY <2>4 DEF KillAgain
    <3> QED BY <1>1, <3>1 DEF Group
  <2>5. ASSUME NEW kind \in {"leader", "follower"}, <<kind, l>> \in doomed' \ doomed
        PROVE  kind = "follower" /\ step[l] = "again"
    BY <2>2, <2>3, <2>4, <2>5 DEF Group, Direct
  <2> QED BY <2>1, <2>5
<1>2. IInv /\ [Next]_vars =>
        [\A l \in Launches : leader[l] = "reaped" =>
           /\ step[l] # "kill" /\ (step[l] = "again" => Darwin)
           /\ \A kind \in {"leader", "follower"} :
                <<kind, l>> \in doomed' \ doomed => kind = "follower" /\ step[l] = "again"]_vars
  BY <1>1
<1> QED BY <1>2, InvariantHolds, PTL DEF Spec, NoSignalAfterReap

(***************************************************************************)
(* The workers.                                                            *)
(***************************************************************************)

TestStatuses == Statuses \cup {"Passed", "Failed", "Missing"}

SchedulerTypes ==
  /\ tests \in TestLists /\ workerCount \in Nat /\ nextIndex \in Nat \ {0}
  /\ job \in [Workers -> Nat] /\ ended \subseteq Active
  /\ results \in [DOMAIN tests -> TestStatuses]

\* A worker with a test took it from the shared index, and no other has it.
JobsTaken ==
  /\ \A w \in Workers :
       job[w] # 0 => job[w] \in DOMAIN tests /\ job[w] < nextIndex /\ w \in Active \ ended
  /\ \A v, w \in Workers : v # w /\ job[v] # 0 => job[v] # job[w]

\* What stands at an index is what came of its test.
Reported(i) ==
  IF tests[i] \in Missing THEN results[i] \in {"Missing", "RunnerError"}
  ELSE \/ step[tests[i]] = "returned" /\ results[i] = ResolveTestStatus(result[tests[i]])
       \/ step[tests[i]] = "idle" /\ results[i] = "RunnerError" /\ faults > 0

\* Below the shared index every test is reported, or in work.
IndexesTaken ==
  \A i \in DOMAIN tests : i < nextIndex => Reported(i) \/ \E w \in Workers : job[w] = i

MissingIdle == \A l \in Launches \cap Missing : step[l] = "idle"

SchedulerInv ==
  /\ IInv /\ SchedulerTypes /\ JobsTaken /\ IndexesTaken /\ MissingIdle
  /\ ended # {} => nextIndex > Len(tests)

\* A test is a launch, of this index only.
LEMMA TestIsLaunch ==
  ASSUME SchedulerTypes
  PROVE  /\ tests \in Seq(Launches) /\ DOMAIN tests = 1..Len(tests) /\ Len(tests) \in Nat
         /\ \A i \in DOMAIN tests : tests[i] \in Launches
         /\ \A i, j \in DOMAIN tests : tests[i] = tests[j] => i = j
BY TestListsAssumption DEF SchedulerTypes

\* A step of a runner is of a launch that runs, and leaves the others alone.
LEMMA RunnerLeavesOthers ==
  ASSUME TypeOK, NEW l \in Launches, RunnerStep(l)
  PROVE  /\ step[l] # "idle" /\ step[l] # "returned"
         /\ \A m \in Launches \ {l} : step'[m] = step[m] /\ result'[m] = result[m]
         /\ faults' \in Nat /\ faults' >= faults
<1>1. step[l] # "idle" /\ step[l] # "returned"
  BY DEF RunnerStep, Goes, CreatePipes, SetFlags, Fork, LaunchFails, CloseWriters, SetGroup,
     SetGroupFails, Drain, Report, ObserveExit, Poll, TimesOut, WatchFails, Finalize,
     FinalizeFails, Kill, KillFails, KillRefused, Reap, ReapFails, ReapRefused, KillAgain,
     KillAgainFails, Cleanup, CleanupFails
<1>2. \A m \in Launches \ {l} : step'[m] = step[m]
  BY DEF TypeOK, RunnerStep, Goes, Terminate, Conclude, CreatePipes, SetFlags, Fork,
     LaunchFails, CloseWriters, SetGroup, SetGroupFails, Drain, Report, ObserveExit, Poll,
     TimesOut, WatchFails, Finalize, FinalizeFails, Kill, KillFails, KillRefused, Reap,
     ReapFails, ReapRefused, KillAgain, KillAgainFails, Cleanup, CleanupFails
<1>3. \A m \in Launches \ {l} : result'[m] = result[m]
  BY DEF TypeOK, RunnerStep, Conclude, CreatePipes, SetFlags, Fork,
     LaunchFails, CloseWriters, SetGroup, SetGroupFails, Drain, Report, ObserveExit, Poll,
     TimesOut, WatchFails, Finalize, FinalizeFails, Kill, KillFails, KillRefused, Reap,
     ReapFails, ReapRefused, KillAgain, KillAgainFails, Cleanup, CleanupFails
<1>4. faults' = faults \/ faults' = faults + 1
  BY DEF RunnerStep, Fault, CreatePipes, SetFlags, Fork,
     LaunchFails, CloseWriters, SetGroup, SetGroupFails, Drain, Report, ObserveExit, Poll,
     TimesOut, WatchFails, Finalize, FinalizeFails, Kill, KillFails, KillRefused, Reap,
     ReapFails, ReapRefused, KillAgain, KillAgainFails, Cleanup, CleanupFails
<1>5. faults \in Nat
  BY DEF TypeOK
<1> QED BY <1>1, <1>2, <1>3, <1>4, <1>5

\* Programs and the clock do not move the runner.
LEMMA ProgramsLeaveRunner ==
  ASSUME NEW l \in Launches, Elapse(l) \/ ProgramStep(l)
  PROVE  UNCHANGED <<step, result, faults>>
BY DEF Elapse, ProgramStep, runner, ChildJoinsGroup, ChildFails, ChildExecs, LeaderEnds,
   LeaderDies, Leaves, Spawn, FollowerEnds, Write, CloseOutput

\* A lookup that fails only counts as a fault.
LEMMA FaultKeeps ==
  ASSUME IInv, faults' \in Nat,
         UNCHANGED <<launchLock, step, purpose, system, pipes, progress, cleanupFailed,
                     late, result>>
  PROVE  IInv'
<1>1. \A m \in Launches : Same(m)
  BY DEF system, pipes, progress, Same
<1>2. \A m \in Launches : LaunchInv(m)'
  BY <1>1, Frame DEF IInv
<1>3. OneHolder'
  BY DEF IInv, OneHolder
<1>4. TypeOK'
  BY DEF IInv, TypeOK, system, pipes, progress
<1> QED BY <1>2, <1>3, <1>4 DEF IInv

\* What is reported stays so while its launch and its entry are left alone.
LEMMA ReportedStays ==
  ASSUME SchedulerTypes, NEW i \in DOMAIN tests, Reported(i),
         tests' = tests, results'[i] = results[i],
         step'[tests[i]] = step[tests[i]], result'[tests[i]] = result[tests[i]],
         faults \in Nat, faults' \in Nat, faults' >= faults
  PROVE  Reported(i)'
<1>1. faults > 0 => faults' > 0
  OBVIOUS
<1> QED BY <1>1 DEF Reported, ResolveTestStatus

\* A step inside a launch that a worker has, or outside all of them.
LEMMA LaunchMoves ==
  ASSUME SchedulerInv, UNCHANGED schedulerVars, IInv',
         NEW K \in SUBSET Launches,
         \A l \in Launches \ K : step'[l] = step[l] /\ result'[l] = result[l],
         \A l \in K : l \notin Missing /\ \E w \in Workers : job[w] # 0 /\ tests[job[w]] = l,
         faults' \in Nat, faults' >= faults
  PROVE  SchedulerInv'
<1>0. UNCHANGED <<tests, workerCount, nextIndex, job, ended, results>>
  BY DEF schedulerVars
<1>1. SchedulerTypes' /\ JobsTaken' /\ (ended # {} => nextIndex > Len(tests))'
  BY <1>0 DEF SchedulerInv, SchedulerTypes, JobsTaken, Active
<1>2. MissingIdle'
  BY DEF SchedulerInv, MissingIdle
<1>3. faults \in Nat /\ SchedulerTypes
  BY DEF SchedulerInv, IInv, TypeOK
<1>4. ASSUME NEW i \in DOMAIN tests, i < nextIndex, ~\E w \in Workers : job[w] = i
      PROVE  Reported(i)'
  <2>1. Reported(i)
    BY <1>4 DEF SchedulerInv, IndexesTaken
  <2>2. tests[i] \in Launches \ K
    <3>1. ASSUME tests[i] \in K PROVE FALSE
      <4>1. PICK w \in Workers : job[w] # 0 /\ tests[job[w]] = tests[i]
        BY <3>1
      <4>2. job[w] \in DOMAIN tests
        BY <4>1 DEF SchedulerInv, JobsTaken
      <4>3. job[w] = i
        BY <1>3, <4>1, <4>2, TestIsLaunch
      <4> QED BY <1>4, <4>3
    <3> QED BY <1>3, <3>1, TestIsLaunch
  <2>3. step'[tests[i]] = step[tests[i]] /\ result'[tests[i]] = result[tests[i]]
    BY <2>2
  <2> QED BY <1>0, <1>3, <2>1, <2>3, ReportedStays
<1>5. IndexesTaken'
  <2> SUFFICES ASSUME NEW i \in DOMAIN tests, i < nextIndex
               PROVE  Reported(i)' \/ \E w \in Workers : job[w] = i
    BY <1>0 DEF IndexesTaken
  <2> QED BY <1>4
<1> QED BY <1>1, <1>2, <1>5 DEF SchedulerInv

LEMMA TakeTestKeeps ==
  ASSUME SchedulerInv, NEW w \in Workers, TakeTest(w)
  PROVE  SchedulerInv'
<1>1. /\ w \in Active \ ended /\ job[w] = 0 /\ nextIndex' = nextIndex + 1
      /\ UNCHANGED <<launchLock, step, purpose, system, pipes, progress, cleanupFailed,
                     late, result, faults>>
      /\ UNCHANGED <<tests, workerCount, results>>
  BY DEF TakeTest, vars
<1>2. \/ nextIndex > Len(tests) /\ ended' = ended \cup {w} /\ job' = job
      \/ nextIndex <= Len(tests) /\ ended' = ended /\ job' = [job EXCEPT ![w] = nextIndex]
  <2>1. nextIndex \in Nat /\ Len(tests) \in Nat
    BY TestIsLaunch DEF SchedulerInv, SchedulerTypes
  <2> QED BY <2>1 DEF TakeTest
<1>3. /\ SchedulerTypes /\ JobsTaken /\ IndexesTaken /\ MissingIdle /\ IInv
      /\ ended # {} => nextIndex > Len(tests)
  BY DEF SchedulerInv
<1>4. nextIndex \in Nat \ {0} /\ Len(tests) \in Nat /\ DOMAIN tests = 1..Len(tests)
  BY <1>3, TestIsLaunch DEF SchedulerTypes
<1>5. IInv'
  <2>1. faults' \in Nat
    BY <1>1, <1>3 DEF IInv, TypeOK
  <2> QED BY <1>1, <1>3, <2>1, FaultKeeps
<1>6. Active' = Active
  BY <1>1 DEF Active
<1>7. SchedulerTypes'
  BY <1>1, <1>2, <1>3, <1>4, <1>6 DEF SchedulerTypes
<1>8. JobsTaken'
  <2>1. CASE nextIndex > Len(tests) /\ ended' = ended \cup {w} /\ job' = job
    BY <1>1, <1>3, <1>4, <1>6, <2>1 DEF JobsTaken, SchedulerTypes
  <2>2. CASE nextIndex <= Len(tests) /\ ended' = ended /\ job' = [job EXCEPT ![w] = nextIndex]
    <3>1. \A v \in Workers : job'[v] = IF v = w THEN nextIndex ELSE job[v]
      BY <1>3, <2>2 DEF SchedulerTypes
    <3>2. nextIndex \in DOMAIN tests /\ nextIndex < nextIndex'
      BY <1>1, <1>4, <2>2
    <3>3. \A v \in Workers : job[v] # 0 =>
            job[v] \in DOMAIN tests /\ job[v] < nextIndex /\ job[v] < nextIndex' /\ v \in Active \ ended
      BY <1>1, <1>3, <1>4 DEF JobsTaken
    <3>4. \A v \in Workers : job[v] # nextIndex
      BY <1>4, <3>3
    <3>5. \A u, v \in Workers : u # v /\ job[u] # 0 => job[u] # job[v]
      BY <1>3 DEF JobsTaken
    <3>6. \A u, v \in Workers : u # v /\ job'[u] # 0 => job'[u] # job'[v]
      BY <3>1, <3>4, <3>5
    <3>7. \A v \in Workers :
            job'[v] # 0 => job'[v] \in DOMAIN tests /\ job'[v] < nextIndex' /\ v \in Active \ ended
      BY <1>1, <3>1, <3>2, <3>3
    <3> QED BY <1>1, <1>6, <2>2, <3>6, <3>7 DEF JobsTaken
  <2> QED BY <1>2, <2>1, <2>2
<1>9. \A i \in DOMAIN tests : Reported(i)' <=> Reported(i)
  BY <1>1 DEF Reported, ResolveTestStatus
<1>10. IndexesTaken'
  <2> SUFFICES ASSUME NEW i \in DOMAIN tests, i < nextIndex + 1
               PROVE  Reported(i)' \/ \E v \in Workers : job'[v] = i
    BY <1>1 DEF IndexesTaken
  <2>1. i \in 1..Len(tests)
    BY <1>4
  <2>2. CASE i < nextIndex
    <3>1. Reported(i) \/ \E v \in Workers : job[v] = i
      BY <1>3, <2>2 DEF IndexesTaken
    <3>2. ASSUME NEW v \in Workers, job[v] = i PROVE job'[v] = i
      BY <1>1, <1>2, <1>3, <2>1, <3>2 DEF SchedulerTypes
    <3> QED BY <1>9, <3>1, <3>2
  <2>3. CASE i = nextIndex
    <3>1. nextIndex <= Len(tests)
      BY <1>4, <2>1, <2>3
    <3>2. job' = [job EXCEPT ![w] = nextIndex]
      BY <1>2, <1>4, <3>1
    <3> QED BY <1>3, <2>3, <3>2 DEF SchedulerTypes
  <2> QED BY <1>4, <2>1, <2>2, <2>3
<1>11. MissingIdle'
  BY <1>1, <1>3 DEF MissingIdle
<1>12. (ended # {} => nextIndex > Len(tests))'
  BY <1>1, <1>2, <1>3, <1>4
<1> QED BY <1>5, <1>7, <1>8, <1>10, <1>11, <1>12 DEF SchedulerInv

\* A worker stores what came of its test.
LEMMA StoreKeeps ==
  ASSUME SchedulerInv, NEW w \in Workers, job[w] # 0, NEW status \in TestStatuses,
         StoreResult(w, status),
         UNCHANGED <<launchLock, step, purpose, system, pipes, progress, cleanupFailed,
                     late, result>>,
         faults' \in Nat, faults' >= faults,
         LET l == tests[job[w]] IN
           IF l \in Missing THEN status \in {"Missing", "RunnerError"}
           ELSE \/ step[l] = "returned" /\ status = ResolveTestStatus(result[l])
                \/ step[l] = "idle" /\ status = "RunnerError" /\ faults' > 0
  PROVE  SchedulerInv'
<1>1. /\ results' = [results EXCEPT ![job[w]] = status]
      /\ job' = [job EXCEPT ![w] = 0]
      /\ UNCHANGED <<tests, workerCount, nextIndex, ended>>
  BY DEF StoreResult
<1>2. /\ SchedulerTypes /\ JobsTaken /\ IndexesTaken /\ MissingIdle /\ IInv /\ faults \in Nat
      /\ ended # {} => nextIndex > Len(tests)
  BY DEF SchedulerInv, IInv, TypeOK
<1>3. IInv'
  BY <1>2, FaultKeeps
<1>4. Active' = Active
  BY <1>1 DEF Active
<1>5. job[w] \in DOMAIN tests
  BY <1>2 DEF JobsTaken
<1>6. SchedulerTypes'
  BY <1>1, <1>2, <1>4, <1>5 DEF SchedulerTypes
<1>7. \A v \in Workers : job'[v] = IF v = w THEN 0 ELSE job[v]
  BY <1>1, <1>2 DEF SchedulerTypes
<1>8. JobsTaken'
  <2>1. /\ \A v \in Workers :
             job[v] # 0 => job[v] \in DOMAIN tests /\ job[v] < nextIndex /\ v \in Active \ ended
        /\ \A u, v \in Workers : u # v /\ job[u] # 0 => job[u] # job[v]
    BY <1>2 DEF JobsTaken
  <2>2. \A u, v \in Workers : u # v /\ job'[u] # 0 => job'[u] # job'[v]
    BY <1>7, <2>1
  <2>3. \A v \in Workers :
          job'[v] # 0 => job'[v] \in DOMAIN tests /\ job'[v] < nextIndex /\ v \in Active \ ended
    BY <1>7, <2>1
  <2> QED BY <1>1, <1>4, <2>2, <2>3 DEF JobsTaken
<1>9. IndexesTaken'
  <2> SUFFICES ASSUME NEW i \in DOMAIN tests, i < nextIndex
               PROVE  Reported(i)' \/ \E v \in Workers : job'[v] = i
    BY <1>1 DEF IndexesTaken
  <2>1. CASE i = job[w]
    <3>1. results'[i] = status
      BY <1>1, <1>2, <1>5, <2>1 DEF SchedulerTypes
    <3>2. tests'[i] = tests[job[w]] /\ step' = step /\ result' = result
      BY <1>1, <2>1
    <3>3. Reported(i)'
      BY <3>1, <3>2 DEF Reported, ResolveTestStatus
    <3> QED BY <3>3
  <2>2. CASE i # job[w] /\ \E v \in Workers : job[v] = i
    BY <1>7, <2>2
  <2>3. CASE i # job[w] /\ ~\E v \in Workers : job[v] = i
    <3>1. Reported(i)
      BY <1>2, <2>3 DEF IndexesTaken
    <3>2. results'[i] = results[i]
      BY <1>1, <1>2, <2>3 DEF SchedulerTypes
    <3> QED BY <1>1, <1>2, <3>1, <3>2, ReportedStays
  <2> QED BY <2>1, <2>2, <2>3
<1>10. MissingIdle'
  BY <1>2 DEF MissingIdle
<1>11. (ended # {} => nextIndex > Len(tests))'
  BY <1>1, <1>2
<1> QED BY <1>3, <1>6, <1>8, <1>9, <1>10, <1>11 DEF SchedulerInv

\* What a worker does with its test.
LEMMA TestKeeps ==
  ASSUME SchedulerInv, NEW w \in Workers, job[w] # 0,
         \/ StartTest(w) \/ RejectTest(w) \/ FinishTest(w)
         \/ RunnerStep(tests[job[w]]) /\ UNCHANGED schedulerVars
  PROVE  SchedulerInv'
<1>1. PICK l : l = tests[job[w]]
  OBVIOUS
<1>2. /\ SchedulerTypes /\ JobsTaken /\ MissingIdle /\ IInv /\ TypeOK /\ faults \in Nat
      /\ job[w] \in DOMAIN tests
  BY DEF SchedulerInv, IInv, TypeOK, JobsTaken
<1>3. l \in Launches
  BY <1>1, <1>2, TestIsLaunch
<1>4. PICK K \in SUBSET Launches : K = {l}
  BY <1>3
<1>5. CASE StartTest(w)
  <2>1. l \notin Missing /\ Call(l) /\ UNCHANGED schedulerVars
    BY <1>1, <1>5 DEF StartTest
  <2>2. IInv'
    <3>1. [Next]_vars
      BY <1>3, <2>1 DEF Next
    <3> QED BY <1>2, <3>1, InvariantStep
  <2>3. /\ \A m \in Launches \ K : step'[m] = step[m] /\ result'[m] = result[m]
        /\ faults' \in Nat /\ faults' >= faults
    BY <1>2, <1>3, <1>4, <2>1 DEF Call, Goes, TypeOK
  <2>4. \A m \in K : m \notin Missing /\ \E v \in Workers : job[v] # 0 /\ tests[job[v]] = m
    BY <1>1, <1>4, <2>1
  <2> QED BY <2>1, <2>2, <2>3, <2>4, LaunchMoves
<1>6. CASE RunnerStep(l) /\ UNCHANGED schedulerVars
  <2>1. IInv'
    <3>1. [Next]_vars
      BY <1>3, <1>6 DEF Next
    <3> QED BY <1>2, <3>1, InvariantStep
  <2>2. /\ step[l] # "idle"
        /\ \A m \in Launches \ {l} : step'[m] = step[m] /\ result'[m] = result[m]
        /\ faults' \in Nat /\ faults' >= faults
    BY <1>2, <1>3, <1>6, RunnerLeavesOthers
  <2>3. l \notin Missing
    BY <1>2, <1>3, <2>2 DEF MissingIdle
  <2>4. \A m \in K : m \notin Missing /\ \E v \in Workers : job[v] # 0 /\ tests[job[v]] = m
    BY <1>1, <1>4, <2>3
  <2> QED BY <1>4, <1>6, <2>1, <2>2, <2>4, LaunchMoves
<1>7. CASE RejectTest(w)
  <2>1. CASE l \in Missing /\ StoreResult(w, "Missing") /\ UNCHANGED vars
    BY <1>1, <1>2, <2>1, StoreKeeps DEF vars, TestStatuses
  <2>2. CASE /\ step[l] = "idle" /\ Fault(l) /\ StoreResult(w, "RunnerError")
             /\ UNCHANGED <<launchLock, step, purpose, system, pipes, progress, cleanupFailed,
                            late, result>>
    <3>1. faults' \in Nat /\ faults' >= faults /\ faults' > 0
      BY <1>2, <2>2 DEF Fault
    <3>2. "RunnerError" \in TestStatuses
      BY DEF TestStatuses, Statuses
    <3> QED BY <1>1, <2>2, <3>1, <3>2, StoreKeeps
  <2> QED BY <1>1, <1>7, <2>1, <2>2 DEF RejectTest
<1>8. CASE FinishTest(w)
  <2>1. step[l] = "returned" /\ StoreResult(w, ResolveTestStatus(result[l])) /\ UNCHANGED vars
    BY <1>1, <1>8 DEF FinishTest
  <2>2. ResolveTestStatus(result[l]) \in TestStatuses
    <3>1. result[l] \in [status : Statuses, exitCode : Int]
      BY <1>2, <1>3 DEF TypeOK
    <3> QED BY <3>1 DEF ResolveTestStatus, TestStatuses
  <2>3. l \notin Missing
    BY <1>2, <1>3, <2>1 DEF MissingIdle
  <2>4. PICK status \in TestStatuses : status = ResolveTestStatus(result[l])
    BY <2>2
  <2>5. /\ UNCHANGED <<launchLock, step, purpose, system, pipes, progress, cleanupFailed,
                       late, result>>
        /\ faults' \in Nat /\ faults' >= faults
    BY <1>2, <2>1 DEF vars
  <2>6. StoreResult(w, status)
    BY <2>1, <2>4
  <2> QED BY <1>1, <2>1, <2>3, <2>4, <2>5, <2>6, StoreKeeps
<1> QED BY <1>1, <1>5, <1>6, <1>7, <1>8

\* Programs and clocks move, or nothing does.
LEMMA WorldKeeps ==
  ASSUME SchedulerInv,
         \/ \E l \in Launches : (Elapse(l) \/ ProgramStep(l)) /\ UNCHANGED schedulerVars
         \/ UNCHANGED allVars
  PROVE  SchedulerInv'
<1>1. IInv /\ faults \in Nat
  BY DEF SchedulerInv, IInv, TypeOK
<1>2. UNCHANGED <<step, result, faults>> /\ UNCHANGED schedulerVars
  <2>1. CASE UNCHANGED allVars
    BY <2>1 DEF allVars, vars
  <2>2. CASE \E l \in Launches : (Elapse(l) \/ ProgramStep(l)) /\ UNCHANGED schedulerVars
    BY <2>2, ProgramsLeaveRunner
  <2> QED BY <2>1, <2>2
<1>3. IInv'
  <2>1. [Next]_vars
    BY DEF Next, allVars
  <2> QED BY <1>1, <2>1, InvariantStep
<1>4. PICK K \in SUBSET Launches : K = {}
  OBVIOUS
<1>5. /\ \A l \in Launches \ K : step'[l] = step[l] /\ result'[l] = result[l]
      /\ \A l \in K : l \notin Missing /\ \E w \in Workers : job[w] # 0 /\ tests[job[w]] = l
      /\ faults' \in Nat /\ faults' >= faults
  BY <1>1, <1>2, <1>4
<1> QED BY <1>2, <1>3, <1>5, LaunchMoves

LEMMA WorkersAreCounted ==
  ASSUME NEW options \in OptionSets, NEW n \in Nat
  PROVE  ResolveWorkerCount(options, n) \in Nat
BY JobCountsAssumption DEF ResolveWorkerCount, Least, Greatest, DefaultMaximumAutoJobCount

LEMMA SchedulerStarts == RunTests => SchedulerInv
<1> SUFFICES ASSUME RunTests PROVE SchedulerInv
  OBVIOUS
<1>1. IInv
  BY InitInvariant DEF RunTests
<1>2. tests \in TestLists /\ tests \in Seq(Launches) /\ Len(tests) \in Nat
  BY TestListsAssumption DEF RunTests
<1>3. workerCount \in Nat
  BY <1>2, WorkersAreCounted DEF RunTests
<1>4. SchedulerTypes
  BY <1>2, <1>3 DEF RunTests, SchedulerTypes, TestStatuses, Statuses
<1>5. JobsTaken /\ (ended # {} => nextIndex > Len(tests))
  BY DEF RunTests, JobsTaken
<1>6. IndexesTaken
  BY <1>2 DEF RunTests, IndexesTaken
<1>7. MissingIdle
  BY DEF RunTests, Init, MissingIdle
<1> QED BY <1>1, <1>4, <1>5, <1>6, <1>7 DEF SchedulerInv

LEMMA SchedulerStep ==
  ASSUME SchedulerInv, [RunTestsNext]_allVars
  PROVE  SchedulerInv'
<1>1. CASE \E w \in Workers : WorkerStep(w)
  <2>1. PICK w \in Workers : WorkerStep(w)
    BY <1>1
  <2>2. CASE TakeTest(w)
    BY <2>2, TakeTestKeeps
  <2>3. CASE /\ job[w] # 0
             /\ \/ StartTest(w) \/ RejectTest(w) \/ FinishTest(w)
                \/ RunnerStep(tests[job[w]]) /\ UNCHANGED schedulerVars
    BY <2>3, TestKeeps
  <2> QED BY <2>1, <2>2, <2>3 DEF WorkerStep, StartTest, RejectTest, FinishTest
<1>2. CASE \/ \E l \in Launches : (Elapse(l) \/ ProgramStep(l)) /\ UNCHANGED schedulerVars
           \/ UNCHANGED allVars
  BY <1>2, WorldKeeps
<1> QED BY <1>1, <1>2 DEF RunTestsNext, Finished

\* The invariant of RunTests, for any lists of tests and any number of workers.
THEOREM SchedulerHolds == RunTestsSpec => []SchedulerInv
<1>1. RunTests => SchedulerInv
  BY SchedulerStarts
<1>2. SchedulerInv /\ [RunTestsNext]_allVars => SchedulerInv'
  BY SchedulerStep
<1> QED BY <1>1, <1>2, PTL DEF RunTestsSpec

\* However the workers race for the shared index, and whatever fails: when they are
\* joined every test has been run once, in a launch of its own, its result stands at
\* its own index, and the exit code is 0 only if every program returned 0.
THEOREM TestsAreReported == RunTestsSpec => []AllReported
<1>1. ASSUME SchedulerInv PROVE AllReported
  <2> SUFFICES ASSUME Joined
               PROVE  /\ \A i \in DOMAIN tests : Reported(i)
                      /\ ExitCode = 0 =>
                           \A i \in DOMAIN tests : endStatus[tests[i]] = <<"exited", 0>>
    BY DEF AllReported, Reported
  <2>1. SchedulerTypes /\ JobsTaken /\ IndexesTaken /\ IInv
    BY <1>1 DEF SchedulerInv
  <2>2. /\ tests \in Seq(Launches) /\ DOMAIN tests = 1..Len(tests) /\ Len(tests) \in Nat
        /\ \A i \in DOMAIN tests : tests[i] \in Launches
    BY <2>1, TestIsLaunch
  <2>3. nextIndex > Len(tests)
    <3>1. 1 \in Active
      BY <2>1 DEF Active, SchedulerTypes
    <3> QED BY <1>1, <3>1 DEF Joined, SchedulerInv
  <2>4. \A w \in Workers : job[w] = 0
    BY <2>1 DEF Joined, JobsTaken
  <2>5. ASSUME NEW i \in DOMAIN tests PROVE Reported(i)
    <3>1. i < nextIndex /\ i # 0
      BY <2>1, <2>2, <2>3 DEF SchedulerTypes
    <3> QED BY <2>1, <2>4, <3>1 DEF IndexesTaken
  <2>6. ASSUME ExitCode = 0, NEW i \in DOMAIN tests
        PROVE  endStatus[tests[i]] = <<"exited", 0>>
    <3> DEFINE bad == {k \in DOMAIN results : results[k] # "Passed"}
    <3>1. DOMAIN results = 1..Len(tests)
      BY <2>1, <2>2 DEF SchedulerTypes
    <3>2. IsFiniteSet(bad)
      <4>1. IsFiniteSet(1..Len(tests))
        BY <2>2, FS_Interval
      <4> QED BY <3>1, <4>1, FS_Subset
    <3>3. Cardinality(bad) = 0
      BY <2>6 DEF ExitCode, CountUnsuccessfulTests
    <3>4. bad = {}
      BY <3>2, <3>3, FS_EmptySet
    <3>5. results[i] = "Passed"
      BY <2>2, <3>1, <3>4
    <3>6. /\ step[tests[i]] = "returned"
          /\ ResolveTestStatus(result[tests[i]]) = "Passed"
      BY <2>5, <3>5 DEF Reported
    <3>7. tests[i] \in Launches /\ result[tests[i]] \in [status : Statuses, exitCode : Int]
      BY <2>1, <2>2 DEF IInv, TypeOK
    <3>8. result[tests[i]].status = "Exited" /\ result[tests[i]].exitCode = 0
      BY <3>6, <3>7 DEF ResolveTestStatus, Statuses
    <3>9. /\ endStatus[tests[i]] \in Programs[tests[i]].ends
          /\ ExitCodeFromStatus(endStatus[tests[i]]) = 0
      BY <2>1, <3>6, <3>7, <3>8 DEF IInv, LaunchInv, VerdictKnown, Succeeds
    <3>10. endStatus[tests[i]] \in WaitStatuses
      BY <3>7, <3>9, RunnerAssumption DEF ProgramType
    <3> QED BY <3>9, <3>10 DEF WaitStatuses, ExitCodeFromStatus
  <2> QED BY <2>5, <2>6
<1> QED BY <1>1, SchedulerHolds, PTL

\* What holds of each launch holds of those the workers make.
THEOREM WorkersAreSafe == RunTestsSpec => [](LaunchStatusFinal /\ Contained /\ VerdictTruthful)
<1>1. IInv => LaunchStatusFinal /\ Contained /\ VerdictTruthful
  BY LaunchesAreSafe
<1>2. SchedulerInv => IInv
  BY DEF SchedulerInv
<1> QED BY <1>1, <1>2, SchedulerHolds, PTL
=============================================================================
