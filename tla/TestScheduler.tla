----------------------------- MODULE TestScheduler -----------------------------
(***************************************************************************)
(* RunTests of tools/BlueTestRunner/TestScheduler.cpp and the exit code of *)
(* main: workers take the next test from a shared index, run it in a       *)
(* process of its own (ProcessRunner) and store its result.                *)
(***************************************************************************)
EXTENDS ProcessRunner, Sequences

CONSTANTS
  TestLists,    \* the lists of test executables, sequences of launches
  OptionSets,   \* the parsed options: job mode and requested job count
  HardwareThreads,
  Workers,      \* 1..n for some n
  Missing       \* the executables that do not exist

\* Each entry of a list is run in a launch of its own.
ASSUME TestListsAssumption ==
  /\ TestLists \subseteq Seq(Launches)
  /\ \A list \in TestLists : \A i, j \in DOMAIN list : list[i] = list[j] => i = j
ASSUME JobCountsAssumption ==
  HardwareThreads \in Nat /\ \A options \in OptionSets : options.requestedJobCount \in Nat

VARIABLES
  tests,        \* testExecutables
  workerCount,
  nextIndex,    \* nextIndex of RunParallel, the loop index of RunSequential
  job,          \* the index of the test a worker runs, 0 for none
  ended,        \* the workers that have left their loop
  results       \* the TestStatus of each index

schedulerVars == <<tests, workerCount, nextIndex, job, ended, results>>
allVars == <<vars, schedulerVars>>

Least(a, b) == IF a < b THEN a ELSE b
Greatest(a, b) == IF a > b THEN a ELSE b

DefaultMaximumAutoJobCount == 8

ResolveWorkerCount(options, testCount) ==
  LET hardware == IF HardwareThreads = 0 THEN 2 ELSE HardwareThreads IN
    CASE testCount = 0 -> 0
      [] testCount # 0 /\ options.mode = "Sequential" -> 1
      [] testCount # 0 /\ options.mode = "Fixed" ->
           Greatest(1, Least(options.requestedJobCount, testCount))
      [] OTHER -> Greatest(1, Least(testCount, Least(hardware, DefaultMaximumAutoJobCount)))

ResolveTestStatus(r) ==
  IF r.status = "Exited" THEN IF r.exitCode = 0 THEN "Passed" ELSE "Failed"
  ELSE r.status

RunTests ==
  /\ Init
  /\ tests \in TestLists
  /\ \E options \in OptionSets : workerCount = ResolveWorkerCount(options, Len(tests))
  /\ nextIndex = 1
  /\ job = [w \in Workers |-> 0] /\ ended = {}
  /\ results = [i \in DOMAIN tests |-> "RunnerError"]

\* Without parallelism the calling thread runs the tests in order.
Active == IF workerCount <= 1 \/ Len(tests) <= 1 THEN {1} ELSE 1..workerCount

\* Mutation: the worker leaves before the last index.
TakeTestShort(w) ==
  /\ w \in Active \ ended /\ job[w] = 0
  /\ nextIndex' = nextIndex + 1
  /\ IF nextIndex >= Len(tests)
       THEN ended' = ended \cup {w} /\ UNCHANGED job
       ELSE job' = [job EXCEPT ![w] = nextIndex] /\ UNCHANGED ended
  /\ UNCHANGED <<vars, tests, workerCount, results>>

TakeTest(w) ==
  /\ w \in Active \ ended /\ job[w] = 0
  /\ nextIndex' = nextIndex + 1
  /\ IF nextIndex > Len(tests)
       THEN ended' = ended \cup {w} /\ UNCHANGED job
       ELSE job' = [job EXCEPT ![w] = nextIndex] /\ UNCHANGED ended
  /\ UNCHANGED <<vars, tests, workerCount, results>>

StoreResult(w, status) ==
  /\ results' = [results EXCEPT ![job[w]] = status]
  /\ job' = [job EXCEPT ![w] = 0]
  /\ UNCHANGED <<tests, workerCount, nextIndex, ended>>

StartTest(w) ==
  /\ job[w] # 0 /\ tests[job[w]] \notin Missing
  /\ Call(tests[job[w]])
  /\ UNCHANGED schedulerVars

\* The file does not exist, or it could not be looked for.
RejectTest(w) ==
  /\ job[w] # 0 /\ step[tests[job[w]]] = "idle"
  /\ \/ tests[job[w]] \in Missing /\ StoreResult(w, "Missing") /\ UNCHANGED vars
     \/ Fault(tests[job[w]]) /\ StoreResult(w, "RunnerError")
        /\ UNCHANGED <<launchLock, step, purpose, system, pipes, progress, cleanupFailed, late, result>>

FinishTest(w) ==
  /\ job[w] # 0 /\ step[tests[job[w]]] = "returned"
  /\ StoreResult(w, ResolveTestStatus(result[tests[job[w]]]))
  /\ UNCHANGED vars

Joined == ended = Active
CountUnsuccessfulTests == Cardinality({i \in DOMAIN results : results[i] # "Passed"})
ExitCode == IF CountUnsuccessfulTests = 0 THEN 0 ELSE 1

Finished == Joined /\ UNCHANGED allVars

WorkerStep(w) ==
  \/ TakeTest(w) \/ StartTest(w) \/ RejectTest(w) \/ FinishTest(w)
  \/ job[w] # 0 /\ RunnerStep(tests[job[w]]) /\ UNCHANGED schedulerVars

RunTestsNext ==
  \/ \E w \in Workers : WorkerStep(w)
  \/ \E l \in Launches : (Elapse(l) \/ ProgramStep(l)) /\ UNCHANGED schedulerVars
  \/ Finished

\* The workers' threads run, and a loop that reads the clock again and again reads
\* a late time at last.  Nothing is assumed of a program.
Fairness ==
  /\ \A w \in Workers : WF_allVars(WorkerStep(w))
  /\ SF_allVars(\E l \in Launches : Elapse(l) /\ UNCHANGED schedulerVars)

RunTestsSpec == RunTests /\ [][RunTestsNext]_allVars /\ Fairness

-----------------------------------------------------------------------------

\* When the workers are joined every listed test has been run once and its result
\* stands at its own index; the exit code is 0 only if every program ran to its
\* end and returned 0.
AllReported ==
  Joined =>
    /\ \A i \in DOMAIN tests :
         IF tests[i] \in Missing THEN results[i] \in {"Missing", "RunnerError"}
         ELSE \/ step[tests[i]] = "returned" /\ results[i] = ResolveTestStatus(result[tests[i]])
              \/ step[tests[i]] = "idle" /\ results[i] = "RunnerError" /\ faults > 0
    /\ ExitCode = 0 =>
         \A i \in DOMAIN tests : endStatus[tests[i]] = <<"exited", 0>>

\* The runner comes to its end whatever the programs do: hang, write for ever,
\* refuse to die, or leave descendants that hold the pipe.
RunnerEnds == <>Joined
=============================================================================
