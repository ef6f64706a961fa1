-------------------------- MODULE MemoryThreadContext --------------------------
(***************************************************************************)
(* The table of per-thread metrics                                         *)
(* (modules/BlueMemory/src/Metrics/MemoryThreadContext.cpp), for one pool. *)
(* A thread takes the next slot of the table at its first use and again    *)
(* after it has unregistered; slots are never given back, and a thread     *)
(* that comes when the table is used up goes uncounted.                    *)
(***************************************************************************)
EXTENDS Integers, Sequences, FiniteSets

CONSTANTS
  Threads,
  MaxContexts      \* BlueMemoryMaxTrackedThreads

VARIABLES
  contexts,        \* s_Contexts, the slots handed out so far
  nextThreadIndex, \* s_NextThreadIndex: 0-based, goes on past the table
  context          \* t_Context: a position of contexts, 0 for none

contextVars == <<contexts, nextThreadIndex, context>>

InitContexts ==
  /\ contexts = <<>>
  /\ nextThreadIndex = 0
  /\ context = [t \in Threads |-> 0]

Fresh(t) ==
  [Thread |-> t, Active |-> TRUE, CurrentBytes |-> 0, PeakBytes |-> 0,
   AllocationCount |-> 0, FreeCount |-> 0, FailedAllocationCount |-> 0]

\* Mutation: a slot whose thread has unregistered is taken again.
AcquireReusing(t) ==
  LET free == {i \in DOMAIN contexts : ~contexts[i].Active}
      slot == IF context[t] # 0 THEN context[t]
              ELSE IF free # {} THEN CHOOSE i \in free : TRUE
              ELSE Len(contexts) + 1
  IN  [table |-> IF context[t] # 0 THEN contexts
                 ELSE [i \in DOMAIN contexts \cup {slot} |->
                         IF i = slot THEN Fresh(t) ELSE contexts[i]],
       slot |-> slot, next |-> Len(contexts)]

\* What the thread finds: the table, its slot of it and the next index.
AcquireThreadContext(t) ==
  IF context[t] # 0 THEN
    [table |-> contexts, slot |-> context[t], next |-> nextThreadIndex]
  ELSE IF nextThreadIndex >= MaxContexts THEN
    [table |-> contexts, slot |-> 0, next |-> nextThreadIndex + 1]
  ELSE
    [table |-> Append(contexts, Fresh(t)), slot |-> nextThreadIndex + 1,
     next |-> nextThreadIndex + 1]

\* The thread acquires its context and changes its metrics, if it has one.
Record(t, update(_)) ==
  LET own == AcquireThreadContext(t) IN
    /\ nextThreadIndex' = own.next
    /\ context' = [context EXCEPT ![t] = own.slot]
    /\ contexts' = IF own.slot = 0 THEN own.table
                   ELSE [own.table EXCEPT ![own.slot] = update(own.table[own.slot])]

RegisterMemoryThread(t) == Record(t, LAMBDA metrics : metrics)

UnregisterMemoryThread(t) ==
  /\ contexts' = IF context[t] = 0 THEN contexts
                 ELSE [contexts EXCEPT ![context[t]].Active = FALSE]
  /\ context' = [context EXCEPT ![t] = 0]
  /\ UNCHANGED nextThreadIndex

RecordThreadMemoryAllocation(t, size) ==
  Record(t, LAMBDA metrics :
    LET current == metrics.CurrentBytes + size IN
      [metrics EXCEPT !.CurrentBytes = current, !.AllocationCount = @ + 1,
                      !.PeakBytes = IF current > @ THEN current ELSE @])

\* The block may have been counted by another thread.
RecordThreadMemoryFree(t, size) ==
  Record(t, LAMBDA metrics :
    [metrics EXCEPT !.FreeCount = @ + 1,
                    !.CurrentBytes = IF @ >= size THEN @ - size ELSE 0])

RecordThreadMemoryFailure(t) ==
  Record(t, LAMBDA metrics : [metrics EXCEPT !.FailedAllocationCount = @ + 1])

\* The caller's buffer is no larger than the table, which is not checked.
CaptureMemoryThreadContexts(capacity) ==
  SubSeq(contexts, 1, IF nextThreadIndex < capacity THEN nextThreadIndex ELSE capacity)

=============================================================================
