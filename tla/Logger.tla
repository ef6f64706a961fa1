--------------------------------- MODULE Logger ---------------------------------
(***************************************************************************)
(* The logger (modules/BlueSystem/src/Log/Logger.cpp): threads write       *)
(* events to sinks that others register and clear meanwhile.  WriteLog     *)
(* copies the sinks under the spin lock and calls the copies without it,   *)
(* so a sink may be called after it was cleared, and may itself log.       *)
(***************************************************************************)
EXTENDS Integers, Sequences, FiniteSets

CONSTANTS
  Threads,
  LogSinks,        \* sinks that may be registered: their minimum level, and
                   \* whether their Write logs an event of its own
  LogEvents,       \* level, and the minimum level of their category
  MaxLogSinkCount,
  MaxEvents,       \* bound of the model: calls of WriteLog
  MaxSwitches      \* bound of the model: calls of InitializeLogger

VARIABLES
  Initialized, Sinks,       \* LoggerState
  NextSequence, WrittenEventCount, DroppedEventCount,
  pc,
  event,                    \* the event of each thread's WriteLog
  copies, writtenSinkCount, \* its copy of the sinks it has still to call, and
                            \* how many it has called
  taken, filtered,          \* ghosts: calls of WriteLog since InitializeLogger,
                            \* and those of them filtered
  eventCount, switches      \* counts for the bounds

state == <<Initialized, Sinks, NextSequence, WrittenEventCount, DroppedEventCount>>
ghosts == <<taken, filtered, eventCount, switches>>
vars == <<state, pc, event, copies, writtenSinkCount, ghosts>>

NoEvent == [level |-> 0, categoryMinimum |-> 0]

Init ==
  /\ Initialized = FALSE /\ Sinks = <<>>
  /\ NextSequence = 0 /\ WrittenEventCount = 0 /\ DroppedEventCount = 0
  /\ pc = [t \in Threads |-> "idle"]
  /\ event = [t \in Threads |-> NoEvent]
  /\ copies = [t \in Threads |-> <<>>]
  /\ writtenSinkCount = [t \in Threads |-> 0]
  /\ taken = 0 /\ filtered = 0 /\ eventCount = 0 /\ switches = 0

\* The threads inside WriteLog.
Writing == {t \in Threads : pc[t] \in {"enter", "sequence", "copy", "call"}}

Go(t, from, to) == pc[t] = from /\ pc' = [pc EXCEPT ![t] = to]

-----------------------------------------------------------------------------
(* The operations on the set of sinks, each one step under the lock.       *)

\* Resets the counters one by one, and no thread increments them under the
\* lock: what it does to a call under way is left out.
InitializeLogger(t) ==
  /\ pc[t] = "idle" /\ Writing = {} /\ switches < MaxSwitches
  /\ Initialized' = TRUE /\ Sinks' = <<>>
  /\ NextSequence' = 0 /\ WrittenEventCount' = 0 /\ DroppedEventCount' = 0
  /\ taken' = 0 /\ filtered' = 0 /\ switches' = switches + 1
  /\ UNCHANGED <<pc, event, copies, writtenSinkCount, eventCount>>

RegisterLogSink(t, sink) ==
  /\ pc[t] = "idle" /\ Len(Sinks) < MaxLogSinkCount
  /\ Sinks' = Append(Sinks, sink)
  /\ UNCHANGED <<Initialized, NextSequence, WrittenEventCount, DroppedEventCount,
                 pc, event, copies, writtenSinkCount, ghosts>>

ClearLogSinks(t) ==
  /\ pc[t] = "idle" /\ Sinks' = <<>>
  /\ UNCHANGED <<Initialized, NextSequence, WrittenEventCount, DroppedEventCount,
                 pc, event, copies, writtenSinkCount, ghosts>>

\* FlushLogger, which changes nothing here, and then the lock is taken.
ShutdownLogger(t) ==
  /\ Go(t, "idle", "shutdown")
  /\ UNCHANGED <<state, event, copies, writtenSinkCount, ghosts>>

ShutdownClears(t) ==
  /\ Go(t, "shutdown", "idle")
  /\ Sinks' = <<>> /\ Initialized' = FALSE
  /\ UNCHANGED <<NextSequence, WrittenEventCount, DroppedEventCount, event,
                 copies, writtenSinkCount, ghosts>>

-----------------------------------------------------------------------------
(* WriteLog.                                                               *)

WriteLog(t, e) ==
  /\ Go(t, "idle", "enter")
  /\ eventCount < MaxEvents /\ eventCount' = eventCount + 1
  /\ taken' = taken + 1
  /\ event' = [event EXCEPT ![t] = e]
  /\ UNCHANGED <<state, copies, writtenSinkCount, filtered, switches>>

Drop == DroppedEventCount' = DroppedEventCount + 1

ShouldLog(e) == e.level >= e.categoryMinimum

\* The checks on the way in: the logger runs, the category wants the event.
\* A thread that is inside a sink never gets here (see CallSink).
EnterWriteLog(t) ==
  /\ IF ~Initialized THEN
       Go(t, "enter", "idle") /\ Drop /\ UNCHANGED filtered
     ELSE IF ~ShouldLog(event[t]) THEN
       Go(t, "enter", "idle") /\ filtered' = filtered + 1 /\ UNCHANGED DroppedEventCount
     ELSE
       Go(t, "enter", "sequence") /\ UNCHANGED <<DroppedEventCount, filtered>>
  /\ UNCHANGED <<Initialized, Sinks, NextSequence, WrittenEventCount, event,
                 copies, writtenSinkCount, taken, eventCount, switches>>

DrawSequence(t) ==
  /\ Go(t, "sequence", "copy")
  /\ NextSequence' = NextSequence + 1
  /\ UNCHANGED <<Initialized, Sinks, WrittenEventCount, DroppedEventCount, event,
                 copies, writtenSinkCount, ghosts>>

\* Mutation: the event of a logger that has lost its sinks is forgotten.
CopySinksSilently(t) ==
  /\ Go(t, "copy", IF Sinks = <<>> THEN "idle" ELSE "call")
  /\ copies' = [copies EXCEPT ![t] = Sinks]
  /\ writtenSinkCount' = [writtenSinkCount EXCEPT ![t] = 0]
  /\ UNCHANGED <<state, event, ghosts>>

CopySinks(t) ==
  /\ IF Sinks = <<>>
       THEN Go(t, "copy", "idle") /\ Drop
       ELSE Go(t, "copy", "call") /\ UNCHANGED DroppedEventCount
  /\ copies' = [copies EXCEPT ![t] = Sinks]
  /\ writtenSinkCount' = [writtenSinkCount EXCEPT ![t] = 0]
  /\ UNCHANGED <<Initialized, Sinks, NextSequence, WrittenEventCount, event, ghosts>>

\* The next sink, if it wants the event.  An event its Write logs finds
\* g_IsInsideLogWrite set, or the logger shut down, and is dropped.
CallSink(t) ==
  /\ pc[t] = "call" /\ copies[t] # <<>>
  /\ LET sink == Head(copies[t])
         called == event[t].level >= sink.minimum
         nested == called /\ sink.logs
     IN  /\ writtenSinkCount' = [writtenSinkCount EXCEPT ![t] = IF called THEN @ + 1 ELSE @]
         /\ DroppedEventCount' = DroppedEventCount + IF nested THEN 1 ELSE 0
         /\ taken' = taken + IF nested THEN 1 ELSE 0
  /\ copies' = [copies EXCEPT ![t] = Tail(@)]
  /\ UNCHANGED <<Initialized, Sinks, NextSequence, WrittenEventCount, pc, event,
                 filtered, eventCount, switches>>

CountEvent(t) ==
  /\ copies[t] = <<>> /\ Go(t, "call", "idle")
  /\ IF writtenSinkCount[t] > 0
       THEN WrittenEventCount' = WrittenEventCount + 1 /\ UNCHANGED DroppedEventCount
       ELSE Drop /\ UNCHANGED WrittenEventCount
  /\ event' = [event EXCEPT ![t] = NoEvent]
  /\ writtenSinkCount' = [writtenSinkCount EXCEPT ![t] = 0]
  /\ UNCHANGED <<Initialized, Sinks, NextSequence, copies, ghosts>>

Next ==
  \E t \in Threads :
    \/ InitializeLogger(t) \/ ClearLogSinks(t) \/ ShutdownLogger(t) \/ ShutdownClears(t)
    \/ \E sink \in LogSinks : RegisterLogSink(t, sink)
    \/ \E e \in LogEvents : WriteLog(t, e)
    \/ EnterWriteLog(t) \/ DrawSequence(t) \/ CopySinks(t) \/ CallSink(t) \/ CountEvent(t)

Spec == Init /\ [][Next]_vars

-----------------------------------------------------------------------------
(* Correctness.                                                            *)

\* The counters account for every call of WriteLog, one from inside a sink
\* included: it is counted as written, dropped, or filtered by its category,
\* or it has not returned; whatever is registered, cleared, shut down and
\* initialised meanwhile.
EventsAccounted ==
  WrittenEventCount + DroppedEventCount + filtered + Cardinality(Writing) = taken
=============================================================================
