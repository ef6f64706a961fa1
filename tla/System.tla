--------------------------------- MODULE System ---------------------------------
(***************************************************************************)
(* The components that share no state, side by side: one of them runs, the *)
(* others stay as they are.  The event and the job system are extended,    *)
(* the others are instances; what has a name that another has is renamed.  *)
(***************************************************************************)
EXTENDS Event, JobSystem, Integers, Sequences, FiniteSets

CONSTANTS
  Users,  \* the threads of all but the event
  LogSinks, LogEvents, MaxLogSinkCount, MaxEvents, MaxSwitches,
  Main, Blocks, Budget, MemoryDescs, Requests, ReportCapacity,
  MaxContexts, TrackerCapacity, MaxCalls, MaxStarts,
  Launches, MaxWrites, DrainLimit, MaxFaults,
  Objects, Natives, Infos,
  LongMax, Releases, SemaphoreDescs,
  Maxima, MaxChunk, MaxProduced,
  ObjectCounts, ObjectStrides, AddressSpace, LinearStart, LinearSize, Sizes, Alignments,
  MaxUsed, MaxLinear,
  MaxUint64, NanosecondsPerSecond, NanosecondsPerMillisecond, MaxTimeT, MaxWaitMilliseconds,
  MaximumTimeoutMilliseconds, MaximumOutputBytes, TimeUnits, ByteUnits,
  Arguments,    \* of the command line
  MaxArguments  \* bound of the model: the most of them

\* What the proofs about the memory system need: a valid request is not empty
\* (ValidateAllocationRequest) and a buffer of reports has a slot
\* (ConfigureOomReporter takes its own for one that has none).
ASSUME MemoryAssumption ==
  /\ IsFiniteSet(Users) /\ Main \in Users
  /\ "no block" \notin Blocks
  /\ Requests \subseteq
       [size : Nat, valid : BOOLEAN, tracked : BOOLEAN,
        policy : {"try", "ReturnNull", "Abort", "CallHandlerThenAbort"}]
  /\ \A r \in Requests : r.valid => r.size > 0
  /\ MemoryDescs \subseteq [tracking : BOOLEAN, leaks : BOOLEAN, budgets : BOOLEAN,
                           buffer : DOMAIN ReportCapacity,
                           policy : {"ReturnNull", "ReportAndReturnNull", "Fatal", "Callback"}]
  /\ "default" \in DOMAIN ReportCapacity
  /\ \A buffer \in DOMAIN ReportCapacity : ReportCapacity[buffer] \in Nat \ {0}
  /\ MaxContexts \in Nat

\* The counts of a semaphore are Uint32, the kernel's a LONG.
ASSUME SemaphoreAssumption ==
  SemaphoreDescs \subseteq Nat \X Nat /\ Releases \subseteq Nat /\ LongMax \in Nat

\* A slot holds at least a pointer, and an alignment is a power of two; the block of
\* the linear allocator lies in the address space, whatever is asked of it.
ASSUME PoolAssumption ==
  /\ ObjectCounts \subseteq Nat /\ ObjectStrides \subseteq Nat \ {0} /\ MaxUsed \in Nat
  /\ AddressSpace \in Nat \ {0} /\ LinearStart \in Nat /\ LinearSize \in Nat
  /\ LinearStart + LinearSize < AddressSpace
  /\ Sizes \subseteq Nat /\ Alignments \subseteq Nat \ {0}

\* Times are Uint64: a time_t fits, and so does the longest time-out in nanoseconds,
\* rounded up (Time.inl, Windows_Synchronization.h).
ASSUME TimeAssumption ==
  /\ NanosecondsPerSecond \in Nat \ {0} /\ NanosecondsPerMillisecond \in Nat \ {0}
  /\ MaxUint64 \in Nat /\ MaxTimeT \in 0..MaxUint64 /\ MaxWaitMilliseconds \in Nat
  /\ (MaxWaitMilliseconds + 1) * NanosecondsPerMillisecond <= MaxUint64 + 1

\* The limits of the command line are Uint64, and a unit is worth something.
ASSUME OptionsAssumption ==
  /\ MaximumTimeoutMilliseconds \in 0..MaxUint64 /\ MaximumOutputBytes \in 0..MaxUint64
  /\ \A unit \in DOMAIN TimeUnits : TimeUnits[unit] \in Nat \ {0}
  /\ \A unit \in DOMAIN ByteUnits : ByteUnits[unit] \in Nat \ {0}
  /\ MaxArguments \in Nat
  /\ Arguments \subseteq
       [kind : {"separator", "help", "list", "sequential", "unknown", "path", "jobs", "timeout",
                "max-output"},
        number : Int, unit : {"none", "auto"} \cup DOMAIN TimeUnits \cup DOMAIN ByteUnits]

\* What is read at a time is more than nothing.
ASSUME ProcessAssumption == DrainLimit \in Nat \ {0}

VARIABLES
  which,     \* the component that runs
  platform,
  \* Logger
  logging, Sinks, NextSequence, WrittenEventCount, DroppedEventCount, logPc, event,
  copies, writtenSinkCount, taken, filtered, eventCount, switches,
  \* MemorySystem, with MemoryThreadContext and OomReporter
  contexts, nextThreadIndex, context, s_Reports, slots, s_ReportSequence, drawn,
  memory, Desc, shutdown, starts, CurrentBytes, tracking, tracker, live,
  memoryPc, request, block, aborted, requests,
  \* ProcessRunnerWindows
  step, purpose, job, process, exitCode, follower, doomed, writers, written, captured,
  pipeClosed, late, result, faults,
  \* Threads, Monitor, SemaphoreWindows and EventWindows
  object, native,
  objects, owner, at, flag,
  semaphore, semaphoreKernel, semaphoreWaiting,
  eventMade, eventMode, eventKernel, eventWaiting,
  \* OutputBuffer
  m_maximumBytes, m_head, m_tail, m_tailStart, m_tailSize, m_producedByteCount,
  \* FixedPools
  m_Capacity, m_ObjectStride, m_Block, m_UsedCount, m_FreeList, next, held, spoilt,
  Current, cut, wrapped,
  \* TimeConversions and RunnerOptions: what the pure operators are applied to
  number, clock, arguments

-----------------------------------------------------------------------------
(* The instances.                                                          *)

Log == INSTANCE Logger WITH Threads <- Users, Initialized <- logging, pc <- logPc

Mem == INSTANCE MemorySystem WITH
  Threads <- Users, Descs <- MemoryDescs,
  Initialized <- memory, pc <- memoryPc, calls <- requests

Win == INSTANCE ProcessRunnerWindows

Thr == INSTANCE Threads

Mon == INSTANCE Monitor WITH Threads <- Users, Initialized <- objects

SemW == INSTANCE SemaphoreWindows WITH
  Threads <- Users, Descs <- SemaphoreDescs,
  Initialized <- semaphore, Kernel <- semaphoreKernel, waiting <- semaphoreWaiting

EvtW == INSTANCE EventWindows WITH
  Threads <- Users, Initialized <- eventMade, ResetMode <- eventMode,
  Kernel <- eventKernel, waiting <- eventWaiting

Out == INSTANCE OutputBuffer

Pools == INSTANCE FixedPools

Time == INSTANCE TimeConversions

Opt == INSTANCE RunnerOptions

-----------------------------------------------------------------------------
(* The state of each component, and the steps.                             *)

eventVars == vars
logVars == <<logging, Sinks, NextSequence, WrittenEventCount, DroppedEventCount, logPc, event,
             copies, writtenSinkCount, taken, filtered, eventCount, switches>>
memVars == <<contexts, nextThreadIndex, context, s_Reports, slots, s_ReportSequence, drawn,
             memory, Desc, shutdown, starts, CurrentBytes, tracking, tracker, live,
             memoryPc, request, block, aborted, requests>>
winVars == <<step, purpose, job, process, exitCode, follower, doomed, writers, written,
             captured, pipeClosed, late, result, faults>>
thrVars == <<object, native>>
monVars == <<objects, owner, at, flag>>
semVars == <<semaphore, semaphoreKernel, semaphoreWaiting>>
evtVars == <<eventMade, eventMode, eventKernel, eventWaiting>>
outVars == <<m_maximumBytes, m_head, m_tail, m_tailStart, m_tailSize, m_producedByteCount>>
poolVars == <<m_Capacity, m_ObjectStride, m_Block, m_UsedCount, m_FreeList, next, held, spoilt,
              Current, cut, wrapped>>

early == <<logVars, memVars, winVars>>
waiters == <<thrVars, monVars, semVars, evtVars>>
others == <<jobVars, outVars, poolVars>>
inputs == <<number, clock, arguments>>
systemVars == <<which, platform, eventVars, early, waiters, others, inputs>>

ComponentsInit ==
  /\ Init /\ Log!Init /\ Mem!Init /\ Win!Init /\ Thr!InitThreads /\ Mon!Init /\ SemW!Init
  /\ EvtW!Init /\ JobInit /\ Out!Init /\ Pools!Init

ComponentStep ==
  \/ which = "event" /\ Next /\ UNCHANGED <<early, waiters, others>>
  \/ which = "logger" /\ Log!Next
     /\ UNCHANGED <<eventVars, memVars, winVars, waiters, others>>
  \/ which = "memory" /\ Mem!Next
     /\ UNCHANGED <<eventVars, logVars, winVars, waiters, others>>
  \/ which = "process" /\ Win!Next
     /\ UNCHANGED <<eventVars, logVars, memVars, waiters, others>>
  \/ which = "threads" /\ Thr!Next
     /\ UNCHANGED <<eventVars, early, monVars, semVars, evtVars, others>>
  \/ which = "monitor" /\ Mon!Next
     /\ UNCHANGED <<eventVars, early, thrVars, semVars, evtVars, others>>
  \/ which = "semaphore" /\ SemW!Next
     /\ UNCHANGED <<eventVars, early, thrVars, monVars, evtVars, others>>
  \/ which = "windows event" /\ EvtW!Next
     /\ UNCHANGED <<eventVars, early, thrVars, monVars, semVars, others>>
  \/ which = "jobs" /\ JobNext /\ UNCHANGED <<eventVars, early, waiters, outVars, poolVars>>
  \/ which = "output" /\ Out!Next /\ UNCHANGED <<eventVars, early, waiters, jobVars, poolVars>>
  \/ which = "pool" /\ Pools!PoolNext
     /\ UNCHANGED <<eventVars, early, waiters, jobVars, outVars>>
  \/ which = "linear" /\ Pools!LinearNext
     /\ UNCHANGED <<eventVars, early, waiters, jobVars, outVars>>

SystemNext == ComponentStep /\ UNCHANGED <<which, platform, inputs>>

\* One component, or inputs of the pure operators.
SystemInit ==
  /\ which \in {"event", "logger", "memory", "process", "threads", "monitor", "semaphore",
                "windows event", "jobs", "output", "pool", "linear", "times", "options"}
  /\ platform \in IF which \in {"threads", "monitor"} THEN {"POSIX", "Windows"} ELSE {"POSIX"}
  /\ m_maximumBytes \in IF which = "output" THEN Maxima ELSE {0}
  /\ ComponentsInit
  /\ number \in IF which = "times" THEN 0..MaxUint64 ELSE {0}
  /\ clock \in IF which = "times" THEN 0..((MaxTimeT + 1) * NanosecondsPerSecond - 1) ELSE {0}
  /\ arguments \in IF which = "options"
                     THEN UNION {[1..n -> Arguments] : n \in 0..MaxArguments} ELSE {<<>>}

\* The fairness of the event alone; nothing is assumed of the others.
SystemSpec == SystemInit /\ [][SystemNext]_systemVars /\ Fairness

-----------------------------------------------------------------------------
(* Properties of the instances, by the names the runs use.                 *)

\* See Logger.
EventsAccounted == Log!EventsAccounted

\* See MemorySystem.
LeakReportTruthful == Mem!LeakReportTruthful
CapturesReports == Mem!CapturesReports
CountsBalance == Mem!CountsBalance

\* Of one worker alone, whose pipe no other process inherits: see
\* ProcessRunnerWindows, also for what it shows of several.
JobContained == Win!JobContained /\ Win!PipeEnds

\* See Threads.
ThreadsOwned == Thr!ThreadsOwned

\* The platform primitives keep their promises: the mutex and the condition, as
\* Monitor states them, and the Windows semaphore and event, which implement
\* the abstract ones the POSIX ones implement.
PrimitivesKept == []Mon!MonitorKept /\ SemW!Promise!Safe /\ EvtW!Promise!Safe

\* See OutputBuffer.
OutputKept == Out!OutputKept

\* See FixedPools.
BlocksDisjoint == Pools!BlocksDisjoint

\* No number is wrapped on its way: times, deadlines and time-outs are exact or
\* at their limit, and the values of the command line exact or refused.
ConversionsExact ==
  /\ which = "times" =>
       /\ Time!WaitsLongEnough(number, [seconds |-> clock \div NanosecondsPerSecond,
                                        nanoseconds |-> clock % NanosecondsPerSecond])
       /\ clock <= MaxUint64 => Time!ClocksMonotone(number, clock)
  /\ which = "options" => Opt!ParsedAsWritten(arguments)
=============================================================================
