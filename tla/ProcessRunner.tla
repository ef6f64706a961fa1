----------------------------- MODULE ProcessRunner -----------------------------
(***************************************************************************)
(* RunProcess of tools/BlueTestRunner/ProcessRunner_Posix.cpp: a worker    *)
(* starts a test program in a process group of its own, reads its output   *)
(* and its launch status through two pipes, and contains it at the end or  *)
(* at the deadline.  The programs, their descendants and the kernel move   *)
(* between any two steps of the runner.                                    *)
(*                                                                         *)
(* The write ends of the pipes are kept as the sets of their holders.  A   *)
(* holder is a pair: <<"runner", l>> is the runner's own end of launch l,  *)
(* <<"leader", l>> the child of l before execv, whose ends close on exec,  *)
(* <<"program", l>> what that child keeps after execv, <<"follower", l>> a *)
(* descendant of it.                                                       *)
(***************************************************************************)
EXTENDS Integers, FiniteSets

CONSTANTS
  Launches,     \* the calls of RunProcess
  Programs,     \* what the program of each launch may do (see ProgramType)
  DrainLimit,   \* MaximumDrainBytesPerIteration, in chunks
  Darwin,       \* __APPLE__ is defined
  MaxFaults     \* bound: system calls that fail

VARIABLES
  launchLock,   \* the holders of ProcessLaunchMutex
  step,         \* where RunProcess is
  purpose,      \* why it terminates the processes
  leader,       \* the child: none, forked, grouped, failing, running, zombie or reaped
  endStatus,    \* the status the child ended with, for waitpid
  follower,     \* its descendant: none, grouped, escaped or gone
  doomed,       \* processes that were sent SIGKILL
  writers,      \* the holders of the write end of the output pipe
  reporters,    \* the holders of the write end of the exec-error pipe
  reported,     \* the child wrote errno to the exec-error pipe
  written,      \* chunks written to the output pipe
  captured,     \* chunks the runner has read
  outputClosed, execErrorClosed, launchFailed,
  cleanupFailed, \* a signal or the reaping failed
  late,         \* the deadline in force has passed
  result,       \* ProcessResult: status and exit code
  faults        \* system calls that have failed

system   == <<leader, endStatus, follower, doomed>>
pipes    == <<writers, reporters, reported, written>>
progress == <<captured, outputClosed, execErrorClosed, launchFailed>>
vars == <<launchLock, step, purpose, system, pipes, progress, cleanupFailed,
          late, result, faults>>

Steps == {"idle", "launch", "created", "configured", "forked", "group", "drain",
          "report", "observe", "finalize", "kill", "refused", "again", "reap", "cleanup",
          "returned"}
Purposes == {"none", "setup", "error", "stuck", "timeout", "exit"}
Holders == {"runner", "leader", "program", "follower"} \X Launches
Statuses == {"Exited", "TimedOut", "LaunchFailed", "RunnerError"}
WaitStatuses == ({"exited"} \X {0, 1, 127}) \cup ({"signaled"} \X {6, 9})
ProgramType == [writes : Nat,      \* bound: chunks of output
                spawns : BOOLEAN,  \* starts a descendant
                closes : BOOLEAN,  \* closes its output before it ends
                ends : SUBSET WaitStatuses,
                fails : SUBSET Steps]  \* steps of the runner at which a system call may fail
NotEnded == <<"exited", -1>>

ASSUME RunnerAssumption ==
  /\ Programs \in [Launches -> ProgramType]
  /\ DrainLimit \in Nat \ {0} /\ MaxFaults \in Nat /\ Darwin \in BOOLEAN

TimeoutExitCode == 124
ExitCodeFromStatus(status) ==
  IF status[1] = "exited" THEN status[2] ELSE 128 + status[2]

DefaultResult == [status |-> "RunnerError", exitCode |-> 1]
Failed(kind)  == [DefaultResult EXCEPT !.status = kind]

TypeOK ==
  /\ launchLock \subseteq Launches
  /\ step \in [Launches -> Steps] /\ purpose \in [Launches -> Purposes]
  /\ leader \in [Launches -> {"none", "forked", "grouped", "failing", "running",
                              "zombie", "reaped"}]
  /\ endStatus \in [Launches -> WaitStatuses \cup {NotEnded}]
  /\ follower \in [Launches -> {"none", "grouped", "escaped", "gone"}]
  /\ doomed \subseteq {"leader", "follower"} \X Launches
  /\ writers \in [Launches -> SUBSET Holders]
  /\ reporters \in [Launches -> SUBSET Holders]
  /\ written \in [Launches -> Nat] /\ captured \in [Launches -> Nat]
  /\ reported \in [Launches -> BOOLEAN] /\ launchFailed \in [Launches -> BOOLEAN]
  /\ outputClosed \in [Launches -> BOOLEAN] /\ execErrorClosed \in [Launches -> BOOLEAN]
  /\ cleanupFailed \in [Launches -> BOOLEAN] /\ late \in [Launches -> BOOLEAN]
  /\ result \in [Launches -> [status : Statuses, exitCode : Int]]
  /\ faults \in Nat

Init ==
  /\ launchLock = {} /\ doomed = {} /\ faults = 0
  /\ step = [l \in Launches |-> "idle"] /\ purpose = [l \in Launches |-> "none"]
  /\ leader = [l \in Launches |-> "none"] /\ follower = [l \in Launches |-> "none"]
  /\ endStatus = [l \in Launches |-> NotEnded]
  /\ writers = [l \in Launches |-> {}] /\ reporters = [l \in Launches |-> {}]
  /\ written = [l \in Launches |-> 0] /\ captured = [l \in Launches |-> 0]
  /\ reported = [l \in Launches |-> FALSE] /\ launchFailed = [l \in Launches |-> FALSE]
  /\ outputClosed = [l \in Launches |-> FALSE]
  /\ execErrorClosed = [l \in Launches |-> FALSE]
  /\ cleanupFailed = [l \in Launches |-> FALSE] /\ late = [l \in Launches |-> FALSE]
  /\ result = [l \in Launches |-> DefaultResult]

Goes(l, from, to) == step[l] = from /\ step' = [step EXCEPT ![l] = to]
Fault(l) == step[l] \in Programs[l].fails /\ faults < MaxFaults /\ faults' = faults + 1

\* All descriptors the process p holds are closed, in every launch's pipe.
Without(pipe, gone) == [l \in Launches |-> pipe[l] \ gone]

-----------------------------------------------------------------------------
(***************************************************************************)
(* The launch, under ProcessLaunchMutex until the runner's writers close.  *)
(***************************************************************************)

Call(l) ==
  /\ Goes(l, "idle", "launch")
  /\ UNCHANGED <<launchLock, purpose, system, pipes, progress, cleanupFailed, late, result, faults>>

CreatePipes(l) ==
  /\ launchLock = {} /\ launchLock' = {l}
  /\ Goes(l, "launch", "created")
  /\ writers' = [writers EXCEPT ![l] = {<<"runner", l>>}]
  /\ reporters' = [reporters EXCEPT ![l] = {<<"runner", l>>}]
  /\ UNCHANGED <<purpose, system, reported, written, progress, cleanupFailed, late, result, faults>>

SetFlags(l) ==
  /\ Goes(l, "created", "configured")
  /\ UNCHANGED <<launchLock, purpose, system, pipes, progress, cleanupFailed, late, result, faults>>

\* The child inherits every descriptor that is open in the runner; those that
\* do not yet close on exec stay with its program.
Inherits(pipe, l) ==
  [m \in Launches |->
     pipe[m] \cup IF <<"runner", m>> \notin pipe[m] THEN {}
                  ELSE IF step[m] = "created" THEN {<<"program", l>>}
                       ELSE {<<"leader", l>>}]


\* Mutation: the launch lock is given up before the runner's writers are closed.
ForkUnlocked(l) ==
  /\ Goes(l, "configured", "forked")
  /\ leader' = [leader EXCEPT ![l] = "forked"]
  /\ writers' = Inherits(writers, l) /\ reporters' = Inherits(reporters, l)
  /\ launchLock' = launchLock \ {l}
  /\ UNCHANGED <<purpose, endStatus, follower, doomed, reported, written,
                 progress, cleanupFailed, late, result, faults>>

Fork(l) ==
  /\ Goes(l, "configured", "forked")
  /\ leader' = [leader EXCEPT ![l] = "forked"]
  /\ writers' = Inherits(writers, l) /\ reporters' = Inherits(reporters, l)
  /\ UNCHANGED <<launchLock, purpose, endStatus, follower, doomed, reported, written,
                 progress, cleanupFailed, late, result, faults>>

\* A call before or at fork fails: the destructors close the pipes and unlock.
LaunchFails(l) ==
  /\ Fault(l)
  /\ \/ step[l] = "launch" /\ launchLock = {} \* pipe
     \/ step[l] \in {"created", "configured"}  \* fcntl, fork
  /\ step' = [step EXCEPT ![l] = "returned"]
  /\ launchLock' = launchLock \ {l}
  /\ writers' = [writers EXCEPT ![l] = {}] /\ reporters' = [reporters EXCEPT ![l] = {}]
  /\ result' = [result EXCEPT ![l] =
       Failed(IF step[l] = "configured" THEN "LaunchFailed" ELSE "RunnerError")]
  /\ UNCHANGED <<purpose, system, reported, written, progress, cleanupFailed, late>>

CloseWriters(l) ==
  /\ Goes(l, "forked", "group")
  /\ launchLock' = launchLock \ {l}
  /\ writers' = [writers EXCEPT ![l] = @ \ {<<"runner", l>>}]
  /\ reporters' = [reporters EXCEPT ![l] = @ \ {<<"runner", l>>}]
  /\ UNCHANGED <<purpose, system, reported, written, progress, cleanupFailed, late, result, faults>>

SetGroup(l) ==
  /\ Goes(l, "group", "drain")
  /\ leader' = [leader EXCEPT ![l] = IF @ = "forked" THEN "grouped" ELSE @]
  /\ UNCHANGED <<launchLock, purpose, endStatus, follower, doomed, pipes, progress,
                 cleanupFailed, late, result, faults>>

Terminate(l, why) ==
  /\ step' = [step EXCEPT ![l] = "kill"]
  /\ purpose' = [purpose EXCEPT ![l] = why]

SetGroupFails(l) ==
  /\ step[l] = "group" /\ Fault(l) /\ Terminate(l, "setup")
  /\ UNCHANGED <<launchLock, system, pipes, progress, cleanupFailed, late, result>>

-----------------------------------------------------------------------------
(***************************************************************************)
(* Watching the child: drain its output, look for its launch status, look  *)
(* whether it has exited or its time is up.                                *)
(***************************************************************************)

\* Reads until the pipe is empty, its end is seen, or the limit is reached.
DrainOutput(l) ==
  LET available == written[l] - captured[l] IN
    IF available >= DrainLimit
      THEN /\ captured' = [captured EXCEPT ![l] = @ + DrainLimit]
           /\ UNCHANGED outputClosed
      ELSE /\ captured' = [captured EXCEPT ![l] = written[l]]
           /\ outputClosed' = [outputClosed EXCEPT ![l] = @ \/ writers[l] = {}]

Drain(l) ==
  /\ Goes(l, "drain", "report")
  /\ DrainOutput(l)
  /\ UNCHANGED <<launchLock, purpose, system, pipes, execErrorClosed, launchFailed,
                 cleanupFailed, late, result, faults>>

\* The errno of a failed launch is written at once, so it is never read in part.
DrainExecError(l) ==
  /\ launchFailed' = [launchFailed EXCEPT ![l] = @ \/ reported[l]]
  /\ execErrorClosed' = [execErrorClosed EXCEPT ![l] = @ \/ reported[l] \/ reporters[l] = {}]

Report(l) ==
  /\ Goes(l, "report", "observe")
  /\ DrainExecError(l)
  /\ UNCHANGED <<launchLock, purpose, system, pipes, captured, outputClosed,
                 cleanupFailed, late, result, faults>>


\* Mutation: waitid without WNOWAIT, which reaps.
ObserveReaping(l) ==
  /\ leader[l] = "zombie" /\ Goes(l, "observe", "finalize")
  /\ leader' = [leader EXCEPT ![l] = "reaped"]
  /\ UNCHANGED <<launchLock, purpose, endStatus, follower, doomed, pipes, progress,
                 cleanupFailed, late, result, faults>>

\* ObserveProcessExit leaves the child a zombie.
ObserveExit(l) ==
  /\ leader[l] = "zombie" /\ Goes(l, "observe", "finalize")
  /\ UNCHANGED <<launchLock, purpose, system, pipes, progress, cleanupFailed, late, result, faults>>

Poll(l) ==
  /\ leader[l] # "zombie" /\ ~late[l] /\ Goes(l, "observe", "drain")
  /\ UNCHANGED <<launchLock, purpose, system, pipes, progress, cleanupFailed, late, result, faults>>

TimesOut(l) ==
  /\ step[l] = "observe" /\ leader[l] # "zombie" /\ late[l]
  /\ Terminate(l, "timeout")
  /\ UNCHANGED <<launchLock, system, pipes, progress, cleanupFailed, late, result, faults>>

\* read, waitid or poll fails.
WatchFails(l) ==
  /\ \/ step[l] = "drain" /\ ~outputClosed[l]
     \/ step[l] = "report" /\ ~execErrorClosed[l]
     \/ step[l] = "observe"
  /\ Fault(l) /\ Terminate(l, "error")
  /\ UNCHANGED <<launchLock, system, pipes, progress, cleanupFailed, late, result>>


\* Mutation: the launch status is what the last read before the exit found.
FinalizeUnread(l) ==
  /\ step[l] = "finalize" /\ Terminate(l, "exit")
  /\ UNCHANGED <<launchLock, system, pipes, progress, cleanupFailed, late, result, faults>>

\* The child may have reported and exited since the exec-error pipe was read.
Finalize(l) ==
  /\ step[l] = "finalize"
  /\ DrainExecError(l)
  /\ Terminate(l, IF execErrorClosed'[l] THEN "exit" ELSE "stuck")
  /\ UNCHANGED <<launchLock, system, pipes, captured, outputClosed, cleanupFailed,
                 late, result, faults>>

FinalizeFails(l) ==
  /\ step[l] = "finalize" /\ ~execErrorClosed[l] /\ Fault(l) /\ Terminate(l, "stuck")
  /\ UNCHANGED <<launchLock, system, pipes, progress, cleanupFailed, late, result>>

-----------------------------------------------------------------------------
(***************************************************************************)
(* TerminateAndReap, and what RunProcess makes of it.                      *)
(***************************************************************************)

LeaderAlreadyExited(l) == purpose[l] \in {"exit", "stuck"}
LeaderLives(l) == leader[l] \in {"forked", "grouped", "failing", "running"}

Group(l)  == (IF follower[l] = "grouped" THEN {<<"follower", l>>} ELSE {})
             \cup IF leader[l] \in {"grouped", "running"} THEN {<<"leader", l>>} ELSE {}
Direct(l) == IF LeaderLives(l) /\ ~LeaderAlreadyExited(l) THEN {<<"leader", l>>} ELSE {}


\* Mutation: only the child is killed, not its group.
KillChild(l) ==
  /\ Goes(l, "kill", "reap")
  /\ doomed' = doomed \cup Direct(l)
  /\ late' = [late EXCEPT ![l] = FALSE]
  /\ UNCHANGED <<launchLock, purpose, leader, endStatus, follower, pipes, progress,
                 cleanupFailed, result, faults>>

\* kill(-pid), and kill(pid) unless the child was seen to have exited.
Kill(l) ==
  /\ Goes(l, "kill", "reap")
  /\ doomed' = doomed \cup Group(l) \cup Direct(l)
  /\ late' = [late EXCEPT ![l] = FALSE]
  /\ UNCHANGED <<launchLock, purpose, leader, endStatus, follower, pipes, progress,
                 cleanupFailed, result, faults>>

KillFails(l) ==
  /\ Fault(l) /\ Goes(l, "kill", "reap")
  /\ doomed' = doomed \cup Direct(l)
  /\ cleanupFailed' = [cleanupFailed EXCEPT ![l] = TRUE]
  /\ late' = [late EXCEPT ![l] = FALSE]
  /\ UNCHANGED <<launchLock, purpose, leader, endStatus, follower, pipes, progress, result>>

\* On Darwin kill(-pid) may give EPERM while the child is a zombie: nobody is signalled.
KillRefused(l) ==
  /\ Darwin /\ LeaderAlreadyExited(l)
  /\ Goes(l, "kill", "refused")
  /\ late' = [late EXCEPT ![l] = FALSE]
  /\ UNCHANGED <<launchLock, purpose, system, pipes, progress, cleanupFailed, result, faults>>

\* What the caller of TerminateAndReap does next: after a failed setpgid it
\* returns, otherwise the rest of the output is read unless its end was seen.
Conclude(l, success) ==
  /\ step' = [step EXCEPT ![l] =
       IF purpose[l] = "setup" \/ outputClosed[l] THEN "returned" ELSE "cleanup"]
  /\ result' = [result EXCEPT ![l] =
       IF ~success \/ purpose[l] \in {"setup", "error", "stuck"} THEN Failed("RunnerError")
       ELSE IF purpose[l] = "timeout" THEN [status |-> "TimedOut", exitCode |-> TimeoutExitCode]
       ELSE IF launchFailed[l] THEN Failed("LaunchFailed")
       ELSE [status |-> "Exited", exitCode |-> ExitCodeFromStatus(endStatus[l])]]
  /\ late' = [late EXCEPT ![l] = FALSE]

Reap(l) ==
  /\ step[l] = "reap" /\ leader[l] = "zombie"
  /\ leader' = [leader EXCEPT ![l] = "reaped"]
  /\ Conclude(l, ~cleanupFailed[l])
  /\ UNCHANGED <<launchLock, purpose, endStatus, follower, doomed, pipes, progress,
                 cleanupFailed, faults>>

\* The deadline of ReapProcessUntil passes, or waitpid fails.
ReapFails(l) ==
  /\ \/ step[l] = "reap" /\ late[l] /\ leader[l] # "zombie" /\ UNCHANGED faults
     \/ step[l] \in {"reap", "refused"} /\ Fault(l)
  /\ cleanupFailed' = [cleanupFailed EXCEPT ![l] = TRUE]
  /\ Conclude(l, FALSE)
  /\ UNCHANGED <<launchLock, purpose, system, pipes, progress>>

\* After the EPERM: the child, known to have exited, is reaped before its group is
\* signalled.
ReapRefused(l) ==
  /\ Goes(l, "refused", "again") /\ leader[l] = "zombie"
  /\ leader' = [leader EXCEPT ![l] = "reaped"]
  /\ UNCHANGED <<launchLock, purpose, endStatus, follower, doomed, pipes, progress,
                 cleanupFailed, late, result, faults>>

\* Line 240: kill(-pid) once more, of a number that is nobody's child any longer.
KillAgain(l) ==
  /\ step[l] = "again"
  /\ doomed' = doomed \cup Group(l)
  /\ Conclude(l, TRUE)
  /\ UNCHANGED <<launchLock, purpose, leader, endStatus, follower, pipes, progress,
                 cleanupFailed, faults>>

KillAgainFails(l) ==
  /\ step[l] = "again" /\ Fault(l)
  /\ cleanupFailed' = [cleanupFailed EXCEPT ![l] = TRUE]
  /\ Conclude(l, FALSE)
  /\ UNCHANGED <<launchLock, purpose, system, pipes, progress>>

\* DrainAfterTermination: read to the end of the output, for a second at most.
Cleanup(l) ==
  /\ step[l] = "cleanup" /\ ~late[l]
  /\ DrainOutput(l)
  /\ step' = [step EXCEPT ![l] = IF outputClosed'[l] THEN "returned" ELSE @]
  /\ UNCHANGED <<launchLock, purpose, system, pipes, execErrorClosed, launchFailed,
                 cleanupFailed, late, result, faults>>


\* Mutation: the rest of the output is awaited without a deadline.
CleanupWaits(l) ==
  /\ Goes(l, "cleanup", "returned") /\ Fault(l)
  /\ result' = [result EXCEPT ![l] = DefaultResult]
  /\ UNCHANGED <<launchLock, purpose, system, pipes, progress, cleanupFailed, late>>

CleanupFails(l) ==
  /\ Goes(l, "cleanup", "returned")
  /\ (late[l] /\ UNCHANGED faults) \/ Fault(l)
  /\ result' = [result EXCEPT ![l] = DefaultResult]
  /\ UNCHANGED <<launchLock, purpose, system, pipes, progress, cleanupFailed, late>>

\* The clock is next read after the deadline in force.
Elapse(l) ==
  /\ step[l] \in {"observe", "reap", "cleanup"} /\ ~late[l]
  /\ late' = [late EXCEPT ![l] = TRUE]
  /\ UNCHANGED <<launchLock, step, purpose, system, pipes, progress, cleanupFailed, result, faults>>

-----------------------------------------------------------------------------
(***************************************************************************)
(* The child up to execv, and the test program and its descendant, which   *)
(* may do anything: write, close their output, leave the group, stay.      *)
(***************************************************************************)

runner == <<launchLock, step, purpose, progress, cleanupFailed, late, result, faults>>
Awake(p) == p \notin doomed

ChildJoinsGroup(l) ==
  /\ leader[l] = "forked" /\ Awake(<<"leader", l>>)
  /\ leader' = [leader EXCEPT ![l] = "grouped"]
  /\ UNCHANGED <<runner, endStatus, follower, doomed, pipes>>

\* setpgid, dup2 or execv fails: ReportChildLaunchFailure.
ChildFails(l) ==
  /\ leader[l] \in {"forked", "grouped"} /\ Awake(<<"leader", l>>)
  /\ leader' = [leader EXCEPT ![l] = "failing"]
  /\ reported' = [reported EXCEPT ![l] = TRUE]
  /\ UNCHANGED <<runner, endStatus, follower, doomed, writers, reporters, written>>

\* The program starts with the output pipe as its standard streams.
ChildExecs(l) ==
  /\ leader[l] = "grouped" /\ Awake(<<"leader", l>>)
  /\ leader' = [leader EXCEPT ![l] = "running"]
  /\ writers' = [Without(writers, {<<"leader", l>>}) EXCEPT ![l] = @ \cup {<<"program", l>>}]
  /\ reporters' = Without(reporters, {<<"leader", l>>})
  /\ UNCHANGED <<runner, endStatus, follower, doomed, reported, written>>

Leaves(l, status) ==
  /\ leader' = [leader EXCEPT ![l] = "zombie"]
  /\ endStatus' = [endStatus EXCEPT ![l] = status]
  /\ writers' = Without(writers, {<<"leader", l>>, <<"program", l>>})
  /\ reporters' = Without(reporters, {<<"leader", l>>, <<"program", l>>})
  /\ UNCHANGED <<runner, follower, doomed, reported, written>>

LeaderEnds(l) ==
  \/ leader[l] = "failing" /\ Leaves(l, <<"exited", 127>>)
  \/ leader[l] = "running" /\ Awake(<<"leader", l>>)
     /\ \E status \in Programs[l].ends : Leaves(l, status)

LeaderDies(l) ==
  /\ <<"leader", l>> \in doomed /\ LeaderLives(l)
  /\ Leaves(l, <<"signaled", 9>>)

\* The descendant inherits the output, and the group unless it calls setsid.
Spawn(l) ==
  /\ Programs[l].spawns /\ leader[l] = "running" /\ follower[l] = "none"
  /\ Awake(<<"leader", l>>)
  /\ \E kind \in {"grouped", "escaped"} : follower' = [follower EXCEPT ![l] = kind]
  /\ writers' = [m \in Launches |->
       writers[m] \cup IF <<"program", l>> \in writers[m] THEN {<<"follower", l>>} ELSE {}]
  /\ UNCHANGED <<runner, leader, endStatus, doomed, reporters, reported, written>>

FollowerEnds(l) ==
  /\ follower[l] \in {"grouped", "escaped"}
  /\ follower' = [follower EXCEPT ![l] = "gone"]
  /\ writers' = Without(writers, {<<"follower", l>>})
  /\ UNCHANGED <<runner, leader, endStatus, doomed, reporters, reported, written>>

Write(l) ==
  /\ {<<"program", l>>, <<"follower", l>>} \cap writers[l] # {}
  /\ written[l] < Programs[l].writes
  /\ written' = [written EXCEPT ![l] = @ + 1]
  /\ UNCHANGED <<runner, system, writers, reporters, reported>>

CloseOutput(l) ==
  /\ Programs[l].closes
  /\ \E p \in {<<"program", l>>, <<"follower", l>>} \cap writers[l] :
       writers' = [writers EXCEPT ![l] = @ \ {p}]
  /\ UNCHANGED <<runner, system, reporters, reported, written>>

-----------------------------------------------------------------------------

RunnerStep(l) ==
  \/ CreatePipes(l) \/ SetFlags(l) \/ Fork(l) \/ LaunchFails(l) \/ CloseWriters(l)
  \/ SetGroup(l) \/ SetGroupFails(l) \/ Drain(l) \/ Report(l) \/ ObserveExit(l)
  \/ Poll(l) \/ TimesOut(l) \/ WatchFails(l) \/ Finalize(l) \/ FinalizeFails(l)
  \/ Kill(l) \/ KillFails(l) \/ KillRefused(l) \/ Reap(l) \/ ReapFails(l)
  \/ ReapRefused(l) \/ KillAgain(l) \/ KillAgainFails(l) \/ Cleanup(l) \/ CleanupFails(l)

ProgramStep(l) ==
  \/ ChildJoinsGroup(l) \/ ChildFails(l) \/ ChildExecs(l) \/ LeaderEnds(l)
  \/ LeaderDies(l) \/ Spawn(l) \/ FollowerEnds(l) \/ Write(l) \/ CloseOutput(l)

Next == \E l \in Launches : Call(l) \/ RunnerStep(l) \/ Elapse(l) \/ ProgramStep(l)

Spec == Init /\ [][Next]_vars

-----------------------------------------------------------------------------
(***************************************************************************)
(* The invariant, launch by launch.                                        *)
(***************************************************************************)

\* The launch lock is held by one launch, from pipe() to the closing of the runner's
\* writers, and only its writers are open in the runner.
OneHolder == \A l, m \in launchLock : l = m

LockHeld(l) ==
  /\ l \in launchLock <=> step[l] \in {"created", "configured", "forked"}
  /\ <<"runner", l>> \in reporters[l] => l \in launchLock
  /\ <<"runner", l>> \in writers[l] <=> l \in launchLock

\* Only the processes of a launch hold its pipes, the child both until it execs.
PipesOwned(l) ==
  /\ reporters[l] \subseteq {<<"runner", l>>, <<"leader", l>>}
  /\ writers[l] \subseteq {<<"runner", l>>, <<"leader", l>>, <<"program", l>>, <<"follower", l>>}
  /\ <<"leader", l>> \in reporters[l] => leader[l] \in {"forked", "grouped", "failing"}
  /\ <<"leader", l>> \in writers[l] <=> leader[l] \in {"forked", "grouped", "failing"}
  /\ <<"program", l>> \in writers[l] => leader[l] = "running"

\* The child is there between fork and reaping, and dead when it was seen to be.
SeenDead(l) ==
  \/ step[l] = "finalize"
  \/ step[l] \in {"kill", "refused", "reap"} /\ purpose[l] \in {"exit", "stuck"}

ChildFollowed(l) ==
  /\ step[l] \in {"idle", "launch", "created", "configured"} => leader[l] = "none"
  /\ leader[l] = "reaped" => step[l] \in {"again", "cleanup", "returned"}
  /\ step[l] \in {"kill", "reap"} => purpose[l] # "none"
  /\ step[l] \in {"refused", "again"} => Darwin /\ purpose[l] \in {"exit", "stuck"}
  /\ step[l] = "again" => leader[l] = "reaped"
  /\ SeenDead(l) => leader[l] = "zombie" /\ <<"leader", l>> \notin doomed

Succeeds(l) == step[l] \in {"cleanup", "returned"} /\ result[l].status # "RunnerError"

\* Once killed, all of the group are doomed or gone, and nobody joins it.
GroupDoomed(l) ==
  /\ (<<"leader", l>> \in doomed \/ <<"follower", l>> \in doomed) =>
       step[l] \in {"reap", "cleanup", "returned"}
  /\ step[l] = "reap" /\ ~cleanupFailed[l] =>
       /\ leader[l] \in {"forked", "grouped", "failing", "running"} => <<"leader", l>> \in doomed
       /\ follower[l] = "grouped" => <<"follower", l>> \in doomed
  /\ Succeeds(l) /\ leader[l] # "none" =>
       /\ leader[l] = "reaped"
       /\ follower[l] = "grouped" => <<"follower", l>> \in doomed

\* The end of the output, once seen, is the end of all that was written.
OutputEnds(l) ==
  /\ outputClosed[l] =>
       /\ writers[l] = {} /\ captured[l] = written[l]
       /\ step[l] \notin {"idle", "launch", "created", "configured", "forked", "group"}
  /\ Succeeds(l) /\ step[l] = "returned" /\ leader[l] # "none" => outputClosed[l]

\* What is known of the launch and of the end is what happened.
StatusKnown(l) ==
  /\ launchFailed[l] => reported[l]
  /\ leader[l] = "failing" => reported[l]
  /\ reported[l] => leader[l] \in {"failing", "zombie", "reaped"}
  /\ step[l] \in {"kill", "refused", "again", "reap"} /\ purpose[l] = "exit" /\ reported[l] =>
       launchFailed[l]
  /\ leader[l] \in {"zombie", "reaped"} /\ ~reported[l] /\ <<"leader", l>> \notin doomed =>
       endStatus[l] \in Programs[l].ends

VerdictKnown(l) ==
  /\ Succeeds(l) /\ result[l].status = "Exited" =>
       /\ leader[l] = "reaped" /\ ~reported[l] /\ endStatus[l] \in Programs[l].ends
       /\ result[l].exitCode = ExitCodeFromStatus(endStatus[l])
  /\ Succeeds(l) /\ result[l].status = "LaunchFailed" => reported[l] \/ leader[l] = "none"

LaunchInv(l) ==
  /\ LockHeld(l) /\ PipesOwned(l) /\ ChildFollowed(l) /\ GroupDoomed(l)
  /\ OutputEnds(l) /\ StatusKnown(l) /\ VerdictKnown(l)

IInv == TypeOK /\ OneHolder /\ \A l \in Launches : LaunchInv(l)

-----------------------------------------------------------------------------

\* Lines 593-595 and 605-609: once the child has exited nobody holds the write
\* end of its exec-error pipe, so the runner always learns how the launch went;
\* no other worker's child, forked at any moment, keeps it open.
LaunchStatusFinal ==
  \A l \in Launches : step[l] = "finalize" => reporters[l] = {}

\* Lines 620-622: a run that reports anything but a failure of its own has reaped
\* the child, left nobody of the group alive and unsignalled, and read everything
\* that was ever written, to the end of the pipe.
Contained ==
  \A l \in Launches :
    step[l] = "returned" /\ result[l].status # "RunnerError" /\ leader[l] # "none" =>
      /\ leader[l] = "reaped"
      /\ Group(l) \subseteq doomed
      /\ writers[l] = {} /\ captured[l] = written[l]

\* The verdict is what happened, whatever the order in which report, exit, death
\* and deadline were seen: a program that is said to have exited ran and ended by
\* itself with that code, one that failed to launch never ran.
VerdictTruthful ==
  \A l \in Launches :
    step[l] = "returned" =>
      /\ result[l].status = "Exited" =>
           /\ ~reported[l] /\ endStatus[l] \in Programs[l].ends
           /\ result[l].exitCode = ExitCodeFromStatus(endStatus[l])
      /\ result[l].status = "LaunchFailed" => reported[l] \/ leader[l] = "none"

\* No process of the number of a child that was reaped is signalled, nor its group,
\* except by the retry of line 240 on Darwin, which signals the group alone; lines 620-622
\* promise the group's end before the child is reaped, which that branch turns round.
NoSignalAfterReap ==
  [][\A l \in Launches : leader[l] = "reaped" =>
       /\ step[l] # "kill" /\ (step[l] = "again" => Darwin)
       /\ \A kind \in {"leader", "follower"} :
            <<kind, l>> \in doomed' \ doomed => kind = "follower" /\ step[l] = "again"]_vars
=============================================================================
