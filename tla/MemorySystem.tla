------------------------------ MODULE MemorySystem ------------------------------
(***************************************************************************)
(* The life cycle of BlueMemory (modules/BlueMemory/src/MemorySystem.cpp)  *)
(* around allocations that succeed, fail and are reported                  *)
(* (RuntimeAllocationInvoker.cpp, AllocatorProxy.h, AllocationFailure.cpp) *)
(* with the per-thread metrics and the ring of failure reports.  The pool  *)
(* registry and the tracker appear as what MemoryPoolRegistry.tla and      *)
(* AllocationMap.tla promise of them: a charge, and a set of records.      *)
(***************************************************************************)
EXTENDS OomReporter

CONSTANTS
  Main,            \* the thread that starts and stops the system
  Descs,           \* MemorySystemDesc, with the settings it carries
  Requests,        \* the calls of BlueTryAllocate, BlueAllocate and BlueNew
  Blocks,          \* the addresses the backend hands out
  Budget,          \* of the pool
  TrackerCapacity, \* slots of the tracker's table
  MaxCalls,        \* bound of the model: allocations asked for
  MaxStarts        \* bound of the model: calls of InitializeMemorySystem

VARIABLES
  Initialized, Desc,    \* s_Memory
  CurrentBytes,         \* of the pool
  tracking,             \* the tracker is enabled
  tracker,              \* the addresses it has records of
  live,                 \* the blocks callers hold, a function to their sizes
  pc, request, block,   \* of each thread's call
  aborted,              \* abort() has been called
  shutdown,             \* of the last shutdown: whether it looked for leaks and
                        \* reported one, with or without a tracker, and the
                        \* blocks that were out, all and tracked ones; how
                        \* many all shutdowns have left out
  calls, starts         \* counts for the bounds

life == <<Initialized, Desc, shutdown, starts>>
books == <<CurrentBytes, tracking, tracker, live>>
vars == <<contextVars, reporterVars, life, books, pc, request, block, aborted, calls>>

NoBlock == "no block"
NoRequest == [size |-> 0, valid |-> FALSE, tracked |-> FALSE, policy |-> "none"]
NoDesc == [tracking |-> FALSE, leaks |-> FALSE, budgets |-> FALSE,
           buffer |-> "default", policy |-> "ReportAndReturnNull"]

Init ==
  /\ InitContexts /\ InitReporter
  /\ Initialized = FALSE /\ Desc = NoDesc
  /\ CurrentBytes = 0 /\ tracking = FALSE /\ tracker = {} /\ live = <<>>
  /\ pc = [t \in Threads |-> "idle"]
  /\ request = [t \in Threads |-> NoRequest] /\ block = [t \in Threads |-> NoBlock]
  /\ aborted = FALSE
  /\ shutdown = [looked |-> FALSE, tracking |-> FALSE, reported |-> FALSE,
                 left |-> {}, tracked |-> {}, abandoned |-> 0]
  /\ calls = 0 /\ starts = 0

Go(t, from, to) == pc[t] = from /\ pc' = [pc EXCEPT ![t] = to]

-----------------------------------------------------------------------------
(* Starting and stopping.  The system is stopped when no call runs: "one   *)
(* of the last to shut down" (docs/USAGE.md).                              *)

Idle == \A t \in Threads : pc[t] = "idle"

\* The tracker's table is the only part that can fail to start.
InitializeMemorySystem(desc, trackerStarts) ==
  /\ Idle /\ starts < MaxStarts
  /\ starts' = starts + 1
  /\ IF Initialized THEN
       UNCHANGED <<contextVars, reporterVars, Initialized, Desc, CurrentBytes, tracking, tracker>>
     ELSE
       /\ ConfigureOomReporter(desc.buffer)
       /\ CurrentBytes' = 0
       /\ IF desc.tracking /\ ~trackerStarts THEN
            UNCHANGED <<contextVars, Initialized, Desc, tracking, tracker>>
          ELSE
            /\ tracking' = desc.tracking /\ tracker' = {}
            /\ RegisterMemoryThread(Main)
            /\ Initialized' = TRUE /\ Desc' = desc
  /\ UNCHANGED <<live, pc, request, block, aborted, shutdown, calls>>

\* RunShutdownLeakDetection: by the tracker's records if there is a tracker.
LeakDetected ==
  /\ Desc.leaks
  /\ IF tracking THEN tracker # {} ELSE CurrentBytes # 0

ShutdownMemorySystem ==
  /\ Idle /\ Initialized
  /\ shutdown' = [looked |-> Desc.leaks, tracking |-> tracking, reported |-> LeakDetected,
                  left |-> DOMAIN live, tracked |-> DOMAIN live \cap tracker,
                  abandoned |-> shutdown.abandoned + Cardinality(DOMAIN live)]
  /\ live' = <<>> \* no block is freed after its system
  /\ tracking' = FALSE /\ tracker' = {} /\ CurrentBytes' = 0
  /\ UNCHANGED <<s_Reports, drawn>> /\ ClearOomReports
  /\ UnregisterMemoryThread(Main)
  /\ Initialized' = FALSE /\ Desc' = NoDesc
  /\ UNCHANGED <<pc, request, block, aborted, calls, starts>>

-----------------------------------------------------------------------------
(* An allocation.                                                          *)

Ask(t, r) ==
  /\ Initialized /\ calls < MaxCalls /\ calls' = calls + 1
  /\ Go(t, "idle", IF r.valid THEN "reserve" ELSE "report")
  /\ request' = [request EXCEPT ![t] = r]
  /\ UNCHANGED <<contextVars, reporterVars, life, books, block, aborted>>

OverBudget(size) == Desc.budgets /\ CurrentBytes + size > Budget

Reserve(t) ==
  /\ IF OverBudget(request[t].size)
       THEN Go(t, "reserve", "fail") /\ UNCHANGED CurrentBytes
       ELSE Go(t, "reserve", "obtain") /\ CurrentBytes' = CurrentBytes + request[t].size
  /\ UNCHANGED <<contextVars, reporterVars, life, tracking, tracker, live,
                 request, block, aborted, calls>>

Unused == Blocks \ (DOMAIN live \cup {block[t] : t \in Threads})

Obtain(t, b) ==
  /\ Go(t, "obtain", "track") /\ b \in Unused
  /\ block' = [block EXCEPT ![t] = b]
  /\ UNCHANGED <<contextVars, reporterVars, life, books, request, aborted,
                 calls>>

\* Mutation: the reservation stays.
ObtainFailsKeeping(t) ==
  /\ Go(t, "obtain", "fail")
  /\ UNCHANGED <<contextVars, reporterVars, life, books, request, block,
                 aborted, calls>>

\* The backend refuses: the reservation is cancelled.
ObtainFails(t) ==
  /\ Go(t, "obtain", "fail")
  /\ CurrentBytes' = CurrentBytes - request[t].size
  /\ UNCHANGED <<contextVars, reporterVars, life, tracking, tracker, live,
                 request, block, aborted, calls>>

\* A full table leaves the block untracked.
Track(t) ==
  /\ Go(t, "track", "count")
  /\ tracker' = IF /\ tracking /\ request[t].tracked
                   /\ Cardinality(tracker) < TrackerCapacity
                THEN tracker \cup {block[t]} ELSE tracker
  /\ UNCHANGED <<contextVars, reporterVars, life, CurrentBytes, tracking,
                 live, request, block, aborted, calls>>

\* CommitAllocation and the thread's metrics; the caller has the block.
Count(t) ==
  /\ Go(t, "count", "idle")
  /\ RecordThreadMemoryAllocation(t, request[t].size)
  /\ live' = [b \in DOMAIN live \cup {block[t]} |->
                IF b = block[t] THEN request[t].size ELSE live[b]]
  /\ block' = [block EXCEPT ![t] = NoBlock]
  /\ request' = [request EXCEPT ![t] = NoRequest]
  /\ UNCHANGED <<reporterVars, life, CurrentBytes, tracking, tracker,
                 aborted, calls>>

-----------------------------------------------------------------------------
(* A failure.                                                              *)

\* RecordFailure of the registry and of the thread's metrics.
Fail(t) ==
  /\ Go(t, "fail", "report")
  /\ RecordThreadMemoryFailure(t)
  /\ UNCHANGED <<reporterVars, life, books, request, block, aborted, calls>>

ShouldRecordOomReport == Desc.policy \in {"ReportAndReturnNull", "Callback", "Fatal"}

\* ReportAllocationFailure; the callback of the settings changes nothing here.
ReportAllocationFailure(t) ==
  /\ IF ShouldRecordOomReport
       THEN Go(t, "report", "store") /\ DrawSequence(t)
       ELSE Go(t, "report", "handle") /\ UNCHANGED reporterVars
  /\ UNCHANGED <<contextVars, life, books, request, block, aborted, calls>>

RecordOomReport(t) ==
  /\ Go(t, "store", "handle")
  /\ StoreReport(t, request[t].size)
  /\ UNCHANGED <<life, books, request, block, aborted, calls>>

ShouldAbortAllocationFailure(policy) ==
  policy \in {"Abort", "CallHandlerThenAbort"} \/ Desc.policy = "Fatal"

\* HandleAllocationFailure: BlueTryAllocate returns without it, the others
\* call it with the failure policy of the request.
HandleAllocationFailure(t) ==
  /\ Go(t, "handle", "idle")
  /\ aborted' = (request[t].policy # "try" /\ ShouldAbortAllocationFailure(request[t].policy))
  /\ request' = [request EXCEPT ![t] = NoRequest]
  /\ UNCHANGED <<contextVars, reporterVars, life, books, block, calls>>

-----------------------------------------------------------------------------
(* A free, by any thread.                                                  *)

Free(t, b) ==
  /\ b \in DOMAIN live
  /\ Go(t, "idle", "charge")
  /\ block' = [block EXCEPT ![t] = b]
  /\ request' = [request EXCEPT ![t].size = live[b]]
  /\ live' = [c \in DOMAIN live \ {b} |-> live[c]]
  /\ tracker' = tracker \ {b}
  /\ UNCHANGED <<contextVars, reporterVars, life, CurrentBytes, tracking,
                 aborted, calls>>

\* The backend has the block back; the registry is told.
Charge(t) ==
  /\ Go(t, "charge", "countFree")
  /\ block' = [block EXCEPT ![t] = NoBlock]
  /\ CurrentBytes' = CurrentBytes - request[t].size
  /\ UNCHANGED <<contextVars, reporterVars, life, tracking, tracker, live,
                 request, aborted, calls>>

CountFree(t) ==
  /\ Go(t, "countFree", "idle")
  /\ RecordThreadMemoryFree(t, request[t].size)
  /\ request' = [request EXCEPT ![t] = NoRequest]
  /\ UNCHANGED <<reporterVars, life, books, block, aborted, calls>>

-----------------------------------------------------------------------------
Call(t) ==
  \/ \E r \in Requests : Ask(t, r)
  \/ Reserve(t) \/ ObtainFails(t) \/ Track(t) \/ Count(t)
  \/ \E b \in Blocks : Obtain(t, b) \/ Free(t, b)
  \/ Fail(t) \/ ReportAllocationFailure(t) \/ RecordOomReport(t)
  \/ HandleAllocationFailure(t)
  \/ Charge(t) \/ CountFree(t)

Next ==
  /\ ~aborted
  /\ \/ \E desc \in Descs, trackerStarts \in BOOLEAN :
          InitializeMemorySystem(desc, trackerStarts)
     \/ ShutdownMemorySystem
     \/ \E t \in Threads : Call(t)

Spec == Init /\ [][Next]_vars

-----------------------------------------------------------------------------
(* Correctness.                                                            *)

\* The verdict of the last shutdown: with leak detection on, a leak is
\* reported if and only if a block was left over that the report is about,
\* one of the tracker's when there was a tracker, any block when there was not.
LeakReportTruthful ==
  shutdown.looked =>
    (shutdown.reported <=> (IF shutdown.tracking THEN shutdown.tracked ELSE shutdown.left) # {})

\* What CaptureOomReports returns while no report is being stored: reports and
\* never empty slots, no two with one number, each one in its slot.
CapturesReports ==
  (\A t \in Threads : drawn[t] = NotDrawn) =>
    LET output == CaptureOomReports(ReportCapacity[s_Reports]) IN
      \A i \in DOMAIN output :
        /\ output[i].SequenceId \in 1..s_ReportSequence
        /\ (output[i].SequenceId - 1) % ReportCapacity[s_Reports] = i

\* The table accounts for every block, whichever threads allocated and freed
\* it, over starts and stops of the system, as long as it has had a slot for
\* every registration: allocations less frees are the blocks still out.
Counted(f(_)) ==
  LET captured == CaptureMemoryThreadContexts(MaxContexts)
      sum[i \in 0..Len(captured)] == IF i = 0 THEN 0 ELSE sum[i - 1] + f(captured[i])
  IN  sum[Len(captured)]

CountsBalance ==
  nextThreadIndex <= MaxContexts =>
    Counted(LAMBDA c : c.AllocationCount) - Counted(LAMBDA c : c.FreeCount) =
      Cardinality(DOMAIN live) + shutdown.abandoned
        + Cardinality({t \in Threads : pc[t] \in {"charge", "countFree"}})
=============================================================================
