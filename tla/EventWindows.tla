------------------------------ MODULE EventWindows ------------------------------
(***************************************************************************)
(* The event of modules/BlueSystem/src/Platform/Windows/Event_Windows.cpp, *)
(* a kernel event.  The kernel's part is modelled from how the code uses   *)
(* it: a wait that is satisfied takes an auto-reset event down.            *)
(***************************************************************************)
CONSTANT Threads

VARIABLES
  Initialized,
  ResetMode, \* what the caller asked for
  Kernel,    \* the kernel object: manual or not, and its flag
  waiting    \* how each thread waits: not at all, for ever, or for a time

vars == <<Initialized, ResetMode, Kernel, waiting>>

NoHandle == [manual |-> FALSE, signaled |-> FALSE]

Init ==
  /\ Initialized = FALSE /\ ResetMode = "Auto" /\ Kernel = NoHandle
  /\ waiting = [t \in Threads |-> "no"]

\* Mutation of InitializeEvent: the arguments of CreateEventW are swapped.
InitializeSwapped ==
  /\ ~Initialized
  /\ \E mode \in {"Auto", "Manual"}, initially \in BOOLEAN :
       /\ ResetMode' = mode
       /\ Kernel' = [manual |-> initially, signaled |-> mode = "Manual"]
  /\ Initialized' = TRUE
  /\ UNCHANGED waiting

InitializeEvent ==
  /\ ~Initialized
  /\ \E mode \in {"Auto", "Manual"}, initially \in BOOLEAN :
       /\ ResetMode' = mode
       /\ Kernel' = [manual |-> mode = "Manual", signaled |-> initially]
  /\ Initialized' = TRUE
  /\ UNCHANGED waiting

\* The caller sees to it that no thread uses the event any more.
ShutdownEvent ==
  /\ Initialized /\ \A t \in Threads : waiting[t] = "no"
  /\ Initialized' = FALSE /\ ResetMode' = "Auto" /\ Kernel' = NoHandle
  /\ UNCHANGED waiting

SignalEvent ==
  /\ Initialized
  /\ Kernel' = [Kernel EXCEPT !.signaled = TRUE]
  /\ UNCHANGED <<Initialized, ResetMode, waiting>>

ResetEvent ==
  /\ Initialized
  /\ Kernel' = [Kernel EXCEPT !.signaled = FALSE]
  /\ UNCHANGED <<Initialized, ResetMode, waiting>>

-----------------------------------------------------------------------------
(* Waiting.  WAIT_OBJECT_0 takes an auto-reset event down; WAIT_TIMEOUT    *)
(* leaves it.                                                              *)

Through == Kernel.signaled /\ Kernel' = [Kernel EXCEPT !.signaled = Kernel.manual]

Calls(t) == Initialized /\ waiting[t] = "no"

Block(t, how) ==
  /\ ~Kernel.signaled
  /\ waiting' = [waiting EXCEPT ![t] = how]
  /\ UNCHANGED <<Initialized, ResetMode, Kernel>>

WaitEvent(t) ==
  /\ Calls(t)
  /\ \/ Through /\ UNCHANGED <<Initialized, ResetMode, waiting>>
     \/ Block(t, "forever")

TryWaitEvent(t) ==
  /\ Calls(t)
  /\ Through /\ UNCHANGED <<Initialized, ResetMode, waiting>>

\* A time of zero makes the call TryWaitEvent.
WaitEventFor(t) ==
  /\ Calls(t)
  /\ \/ Through /\ UNCHANGED <<Initialized, ResetMode, waiting>>
     \/ Block(t, "timed")

WaitReturns(t) ==
  /\ waiting[t] # "no"
  /\ \/ Through
     \/ waiting[t] = "timed" /\ ~Kernel.signaled /\ UNCHANGED Kernel
  /\ waiting' = [waiting EXCEPT ![t] = "no"]
  /\ UNCHANGED <<Initialized, ResetMode>>

Next ==
  \/ InitializeEvent \/ ShutdownEvent \/ SignalEvent \/ ResetEvent
  \/ \E t \in Threads :
       \/ WaitEvent(t) \/ TryWaitEvent(t) \/ WaitEventFor(t) \/ WaitReturns(t)

Spec == Init /\ [][Next]_vars

-----------------------------------------------------------------------------
(* Properties.                                                             *)

\* The event keeps the promises of an event flag of the mode that was asked
\* for.
Promise ==
  INSTANCE EventFlag WITH
    initialized <- Initialized,
    mode <- ResetMode,
    signaled <- Kernel.signaled,
    waiting <- {t \in Threads : waiting[t] # "no"},
    timed <- {t \in Threads : waiting[t] = "timed"}
=============================================================================
