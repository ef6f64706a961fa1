-------------------------- MODULE ProcessRunnerWindows --------------------------
(***************************************************************************)
(* RunProcess of tools/BlueTestRunner/ProcessRunner_Windows.cpp: the test  *)
(* program is created suspended, put into a job object that kills its      *)
(* processes when it is closed, and resumed.  Holders of the write end of  *)
(* the output pipe are pairs, as in ProcessRunner; every process inherits  *)
(* all the handles that are inheritable when it is created, and keeps them.*)
(***************************************************************************)
EXTENDS Integers

CONSTANTS
  Launches,     \* the calls of RunProcess
  MaxWrites,    \* bound: chunks of output of a launch
  DrainLimit,   \* MaximumDrainBytesPerIteration, in chunks
  MaxFaults     \* bound: system calls that fail

VARIABLES
  step,         \* where RunProcess is
  purpose,      \* why it terminates the processes
  job,          \* the job object: none, empty, assigned or closed
  process,      \* none, suspended, running or ended
  exitCode,     \* of the ended process
  follower,     \* its descendant, in its job: none, running or ended
  doomed,       \* launches whose processes were terminated
  writers,      \* the holders of the write end of the output pipe
  written, captured, pipeClosed,
  late,         \* the deadline in force has passed
  result,       \* ProcessResult: status and exit code
  faults        \* system calls that have failed

system   == <<job, process, exitCode, follower, doomed>>
output   == <<writers, written, captured, pipeClosed>>
vars == <<step, purpose, system, output, late, result, faults>>

Steps == {"idle", "pipe", "job", "create", "assign", "resume", "drain", "wait",
          "kill", "await", "cleanup", "returned"}
Purposes == {"none", "assign", "resume", "drain", "wait", "timeout"}
TimeoutExitCode == 124
DefaultResult == [status |-> "RunnerError", exitCode |-> 1]
Failed(kind) == [DefaultResult EXCEPT !.status = kind]

TypeOK ==
  /\ step \in [Launches -> Steps] /\ purpose \in [Launches -> Purposes]
  /\ job \in [Launches -> {"none", "empty", "assigned", "closed"}]
  /\ process \in [Launches -> {"none", "suspended", "running", "ended"}]
  /\ follower \in [Launches -> {"none", "running", "ended"}]
  /\ exitCode \in [Launches -> {-1, 0, 1, TimeoutExitCode}]
  /\ doomed \subseteq Launches
  /\ writers \in [Launches -> SUBSET ({"runner", "process", "follower"} \X Launches)]
  /\ written \in [Launches -> 0..MaxWrites] /\ captured \in [Launches -> 0..MaxWrites]
  /\ pipeClosed \in [Launches -> BOOLEAN] /\ late \in [Launches -> BOOLEAN]
  /\ \A l \in Launches :
       result[l].status \in {"Exited", "TimedOut", "LaunchFailed", "RunnerError"}
  /\ faults \in 0..MaxFaults

Init ==
  /\ step = [l \in Launches |-> "idle"] /\ purpose = [l \in Launches |-> "none"]
  /\ job = [l \in Launches |-> "none"] /\ process = [l \in Launches |-> "none"]
  /\ exitCode = [l \in Launches |-> -1] /\ follower = [l \in Launches |-> "none"]
  /\ doomed = {} /\ writers = [l \in Launches |-> {}]
  /\ written = [l \in Launches |-> 0] /\ captured = [l \in Launches |-> 0]
  /\ pipeClosed = [l \in Launches |-> FALSE] /\ late = [l \in Launches |-> FALSE]
  /\ result = [l \in Launches |-> DefaultResult] /\ faults = 0

Goes(l, from, to) == step[l] = from /\ step' = [step EXCEPT ![l] = to]
Fault == faults < MaxFaults /\ faults' = faults + 1
Terminate(l, why) ==
  /\ step' = [step EXCEPT ![l] = "kill"] /\ purpose' = [purpose EXCEPT ![l] = why]

-----------------------------------------------------------------------------
(***************************************************************************)
(* The launch.  No lock: other workers create processes between its steps. *)
(***************************************************************************)

Call(l) ==
  /\ Goes(l, "idle", "pipe")
  /\ UNCHANGED <<purpose, system, output, late, result, faults>>

CreateOutputPipe(l) ==
  /\ Goes(l, "pipe", "job")
  /\ writers' = [writers EXCEPT ![l] = {<<"runner", l>>}]
  /\ UNCHANGED <<purpose, system, written, captured, pipeClosed, late, result, faults>>

CreateJob(l) ==
  /\ Goes(l, "job", "create")
  /\ job' = [job EXCEPT ![l] = "empty"]
  /\ UNCHANGED <<purpose, process, exitCode, follower, doomed, output, late, result, faults>>

CreateSuspended(l) ==
  /\ Goes(l, "create", "assign")
  /\ process' = [process EXCEPT ![l] = "suspended"]
  /\ writers' = [m \in Launches |->
       writers[m] \cup IF <<"runner", m>> \in writers[m] THEN {<<"process", l>>} ELSE {}]
  /\ UNCHANGED <<purpose, job, exitCode, follower, doomed, written, captured, pipeClosed,
                 late, result, faults>>

\* CreatePipe, SetHandleInformation, the job or CreateProcessW fails.
LaunchFails(l) ==
  /\ step[l] \in {"pipe", "job", "create"} /\ Fault
  /\ step' = [step EXCEPT ![l] = "returned"]
  /\ writers' = [writers EXCEPT ![l] = {}]
  /\ job' = [job EXCEPT ![l] = "closed"]
  /\ result' = [result EXCEPT ![l] =
       Failed(IF step[l] = "create" THEN "LaunchFailed" ELSE "RunnerError")]
  /\ UNCHANGED <<purpose, process, exitCode, follower, doomed, written, captured, pipeClosed, late>>

\* Mutation of AssignToJob: the runner keeps its write end of the pipe.
AssignKeepingWriter(l) ==
  /\ Goes(l, "assign", "resume")
  /\ job' = [job EXCEPT ![l] = "assigned"]
  /\ UNCHANGED <<purpose, process, exitCode, follower, doomed, output, late, result, faults>>

AssignToJob(l) ==
  /\ Goes(l, "assign", "resume")
  /\ job' = [job EXCEPT ![l] = "assigned"]
  /\ writers' = [writers EXCEPT ![l] = @ \ {<<"runner", l>>}]
  /\ UNCHANGED <<purpose, process, exitCode, follower, doomed, written, captured, pipeClosed,
                 late, result, faults>>

Resume(l) ==
  /\ Goes(l, "resume", "drain")
  /\ process' = [process EXCEPT ![l] = IF @ = "suspended" THEN "running" ELSE @]
  /\ UNCHANGED <<purpose, job, exitCode, follower, doomed, output, late, result, faults>>

StartFails(l) ==
  /\ step[l] \in {"assign", "resume"} /\ Fault /\ Terminate(l, step[l])
  /\ UNCHANGED <<system, output, late, result>>

-----------------------------------------------------------------------------
(***************************************************************************)
(* Watching the process, terminating it and reading the rest.              *)
(***************************************************************************)

DrainAvailableOutput(l) ==
  LET available == written[l] - captured[l] IN
    IF available >= DrainLimit
      THEN /\ captured' = [captured EXCEPT ![l] = @ + DrainLimit]
           /\ UNCHANGED pipeClosed
      ELSE /\ captured' = [captured EXCEPT ![l] = written[l]]
           /\ pipeClosed' = [pipeClosed EXCEPT ![l] = @ \/ writers[l] = {}]

Drain(l) ==
  /\ Goes(l, "drain", "wait")
  /\ DrainAvailableOutput(l)
  /\ UNCHANGED <<purpose, system, writers, written, late, result, faults>>

\* Closing the job terminates the processes that are still in it.
CloseJob(l) ==
  /\ job' = [job EXCEPT ![l] = "closed"]
  /\ doomed' = IF job[l] = "assigned" THEN doomed \cup {l} ELSE doomed

\* The process is signalled; GetExitCodeProcess may fail.
SeesExit(l) ==
  /\ process[l] = "ended" /\ Goes(l, "wait", "cleanup")
  /\ CloseJob(l)
  /\ \/ result' = [result EXCEPT ![l] = [status |-> "Exited", exitCode |-> exitCode[l]]]
        /\ UNCHANGED faults
     \/ Fault /\ result' = [result EXCEPT ![l] = DefaultResult]
  /\ late' = [late EXCEPT ![l] = FALSE]
  /\ UNCHANGED <<purpose, process, exitCode, follower, output>>

WaitAgain(l) ==
  /\ process[l] # "ended" /\ ~late[l] /\ Goes(l, "wait", "drain")
  /\ UNCHANGED <<purpose, system, output, late, result, faults>>

TimesOut(l) ==
  /\ step[l] = "wait" /\ process[l] # "ended" /\ late[l] /\ Terminate(l, "timeout")
  /\ UNCHANGED <<system, output, late, result, faults>>

WatchFails(l) ==
  /\ step[l] \in {"drain", "wait"} /\ Fault /\ Terminate(l, step[l])
  /\ UNCHANGED <<system, output, late, result>>

\* After a failed start the destructors close job and pipe; after a failed read
\* the job stays open until RunProcess returns.
Conclude(l, success) ==
  LET starting == purpose[l] \in {"assign", "resume"} IN
    /\ step' = [step EXCEPT ![l] = IF starting THEN "returned" ELSE "cleanup"]
    /\ result' = [result EXCEPT ![l] =
         IF success /\ purpose[l] = "timeout"
           THEN [status |-> "TimedOut", exitCode |-> TimeoutExitCode] ELSE DefaultResult]
    /\ writers' = [writers EXCEPT ![l] = @ \ {<<"runner", l>>}]
    /\ late' = [late EXCEPT ![l] = FALSE]
    /\ IF purpose[l] = "drain" THEN UNCHANGED <<job, doomed>> ELSE CloseJob(l)

\* TerminateProcess when the job could not be assigned, else TerminateJobObject.
Kill(l) ==
  /\ Goes(l, "kill", "await")
  /\ doomed' = doomed \cup {l}
  /\ late' = [late EXCEPT ![l] = FALSE]
  /\ UNCHANGED <<purpose, job, process, exitCode, follower, output, result, faults>>

KillFails(l) ==
  /\ step[l] = "kill" /\ process[l] # "ended" /\ Fault
  /\ Conclude(l, FALSE)
  /\ UNCHANGED <<purpose, process, exitCode, follower, written, captured, pipeClosed>>

\* The process had ended: the failure is passed over.
KillRefused(l) ==
  /\ Goes(l, "kill", "await") /\ process[l] = "ended" /\ Fault
  /\ late' = [late EXCEPT ![l] = FALSE]
  /\ UNCHANGED <<purpose, system, output, result>>

SeesEnd(l) ==
  /\ step[l] = "await" /\ process[l] = "ended"
  /\ Conclude(l, TRUE)
  /\ UNCHANGED <<purpose, process, exitCode, follower, written, captured, pipeClosed, faults>>

AwaitFails(l) ==
  /\ step[l] = "await"
  /\ (process[l] # "ended" /\ late[l] /\ UNCHANGED faults) \/ Fault
  /\ Conclude(l, FALSE)
  /\ UNCHANGED <<purpose, process, exitCode, follower, written, captured, pipeClosed>>

Cleanup(l) ==
  /\ step[l] = "cleanup" /\ ~late[l]
  /\ DrainAvailableOutput(l)
  /\ IF pipeClosed'[l] THEN step' = [step EXCEPT ![l] = "returned"] /\ CloseJob(l)
     ELSE UNCHANGED <<step, job, doomed>>
  /\ UNCHANGED <<purpose, process, exitCode, follower, writers, written, late, result, faults>>

CleanupFails(l) ==
  /\ Goes(l, "cleanup", "returned") /\ ~pipeClosed[l]
  /\ (late[l] /\ UNCHANGED faults) \/ Fault
  /\ result' = [result EXCEPT ![l] = DefaultResult] /\ CloseJob(l)
  /\ UNCHANGED <<purpose, process, exitCode, follower, output, late>>

Elapse(l) ==
  /\ step[l] \in {"wait", "await", "cleanup"} /\ ~late[l]
  /\ late' = [late EXCEPT ![l] = TRUE]
  /\ UNCHANGED <<step, purpose, system, output, result, faults>>

-----------------------------------------------------------------------------
\* The program and its descendant, which inherits all its handles and its job.

runner == <<step, purpose, job, doomed, captured, pipeClosed, late, result, faults>>
Without(holder) == [m \in Launches |-> writers[m] \ {holder}]

ProcessEnds(l) ==
  /\ \/ process[l] = "running" /\ \E code \in {0, 1} : exitCode' = [exitCode EXCEPT ![l] = code]
     \/ process[l] \in {"suspended", "running"} /\ l \in doomed
        /\ exitCode' = [exitCode EXCEPT ![l] = TimeoutExitCode]
  /\ process' = [process EXCEPT ![l] = "ended"]
  /\ writers' = Without(<<"process", l>>)
  /\ UNCHANGED <<runner, follower, written>>

Spawn(l) ==
  /\ process[l] = "running" /\ l \notin doomed /\ follower[l] = "none"
  /\ follower' = [follower EXCEPT ![l] = "running"]
  /\ writers' = [m \in Launches |->
       writers[m] \cup IF <<"process", l>> \in writers[m] THEN {<<"follower", l>>} ELSE {}]
  /\ UNCHANGED <<runner, process, exitCode, written>>

FollowerEnds(l) ==
  /\ follower[l] = "running"
  /\ follower' = [follower EXCEPT ![l] = "ended"]
  /\ writers' = Without(<<"follower", l>>)
  /\ UNCHANGED <<runner, process, exitCode, written>>

Write(l) ==
  /\ "running" \in {process[l], follower[l]} /\ written[l] < MaxWrites
  /\ written' = [written EXCEPT ![l] = @ + 1]
  /\ UNCHANGED <<runner, process, exitCode, follower, writers>>

-----------------------------------------------------------------------------

RunnerStep(l) ==
  \/ Call(l) \/ CreateOutputPipe(l) \/ CreateJob(l) \/ CreateSuspended(l) \/ LaunchFails(l)
  \/ AssignToJob(l) \/ Resume(l) \/ StartFails(l) \/ Drain(l) \/ SeesExit(l)
  \/ WaitAgain(l) \/ TimesOut(l) \/ WatchFails(l) \/ Kill(l) \/ KillFails(l)
  \/ KillRefused(l) \/ SeesEnd(l) \/ AwaitFails(l) \/ Cleanup(l) \/ CleanupFails(l)

ProgramStep(l) == ProcessEnds(l) \/ Spawn(l) \/ FollowerEnds(l) \/ Write(l)

Next == \E l \in Launches : RunnerStep(l) \/ Elapse(l) \/ ProgramStep(l)

Spec == Init /\ [][Next]_vars

-----------------------------------------------------------------------------

Ended(l) == process[l] = "ended" /\ follower[l] # "running"

\* Lines 499-501 and 277: a run that reports anything but a failure of its own has
\* seen its process end, has terminated every descendant and has read everything
\* that was ever written.
JobContained ==
  \A l \in Launches :
    step[l] = "returned" /\ result[l].status \in {"Exited", "TimedOut"} =>
      /\ process[l] = "ended" /\ job[l] = "closed"
      /\ follower[l] = "running" => l \in doomed
      /\ captured[l] = written[l]
      /\ result[l].status = "Exited" => result[l].exitCode = exitCode[l]

\* The comment at lines 499-500: once the process has exited and its job is closed
\* nobody of the launch holds the output pipe open.  With the test's own processes
\* ended the pipe has no writer, so the rest of the output is read to its end.
PipeEnds ==
  \A l \in Launches : step[l] = "cleanup" /\ Ended(l) => writers[l] = {}
=============================================================================
