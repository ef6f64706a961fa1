------------------------------ MODULE OomReporter ------------------------------
(***************************************************************************)
(* The ring of out-of-memory reports                                       *)
(* (modules/BlueMemory/src/Oom/OomReporter.cpp).  Recording is lock-free:  *)
(* the sequence number is drawn in one step and the slot is written in     *)
(* another.                                                                *)
(***************************************************************************)
EXTENDS MemoryThreadContext

CONSTANTS
  ReportCapacity   \* the capacity of each buffer, the default one included

VARIABLES
  s_Reports,       \* the buffer in use
  slots,           \* the reports of each buffer
  s_ReportSequence,
  drawn            \* the local `sequence` of each thread in RecordOomReport

reporterVars == <<s_Reports, slots, s_ReportSequence, drawn>>

Buffers == DOMAIN ReportCapacity
NoReport == [SequenceId |-> 0]
NotDrawn == -1

Cleared(buffer) == [i \in 0..(ReportCapacity[buffer] - 1) |-> NoReport]

InitReporter ==
  /\ s_Reports = "default"
  /\ slots = [b \in Buffers |-> Cleared(b)]
  /\ s_ReportSequence = 0
  /\ drawn = [t \in Threads |-> NotDrawn]

\* Mutation: the slots are cleared and the sequence goes on.
ClearSlotsOnly ==
  /\ slots' = [slots EXCEPT ![s_Reports'] = Cleared(s_Reports')]
  /\ UNCHANGED s_ReportSequence

ClearOomReports ==
  /\ slots' = [slots EXCEPT ![s_Reports'] = Cleared(s_Reports')]
  /\ s_ReportSequence' = 0

\* A buffer of the caller's, or "default" when it gives none.
ConfigureOomReporter(buffer) == s_Reports' = buffer /\ ClearOomReports /\ UNCHANGED drawn

\* RecordOomReport: the sequence number is drawn...
DrawSequence(t) ==
  /\ drawn' = [drawn EXCEPT ![t] = s_ReportSequence]
  /\ s_ReportSequence' = s_ReportSequence + 1
  /\ UNCHANGED <<s_Reports, slots>>

\* ... and the report is made, which acquires a context, and stored.
StoreReport(t, info) ==
  LET index == drawn[t] % ReportCapacity[s_Reports] IN
    /\ RegisterMemoryThread(t)
    /\ slots' = [slots EXCEPT ![s_Reports][index] =
                   [SequenceId |-> drawn[t] + 1, ThreadIndex |-> context'[t], info |-> info]]
    /\ drawn' = [drawn EXCEPT ![t] = NotDrawn]
    /\ UNCHANGED <<s_Reports, s_ReportSequence>>

CaptureOomReports(capacity) ==
  LET least(a, b) == IF a < b THEN a ELSE b
      available == least(s_ReportSequence, ReportCapacity[s_Reports])
  IN  [i \in 0..(least(available, capacity) - 1) |-> slots[s_Reports][i]]

=============================================================================
