---------------------------- MODULE SemaphoreWindows ----------------------------
(***************************************************************************)
(* The semaphore of                                                        *)
(* modules/BlueSystem/src/Platform/Windows/Semaphore_Windows.cpp, a kernel *)
(* semaphore.  The kernel's part is modelled from how the code uses it:    *)
(* it lets one of the waiting threads through for each unit.               *)
(***************************************************************************)
EXTENDS Integers

CONSTANTS
  Threads,
  Descs,    \* SemaphoreCreateDesc, <<InitialCount, MaximumCount>>
  Releases, \* the counts passed to ReleaseSemaphore
  LongMax   \* the largest LONG

VARIABLES
  Initialized,
  Kernel,   \* the kernel object: its count and its limit
  waiting   \* how each thread waits: not at all, for ever, or for a time

vars == <<Initialized, Kernel, waiting>>

NoHandle == [count |-> 0, maximum |-> 0]

Init ==
  /\ Initialized = FALSE /\ Kernel = NoHandle
  /\ waiting = [t \in Threads |-> "no"]

InitializeSemaphore ==
  /\ ~Initialized
  /\ \E desc \in Descs :
       /\ desc[2] \in 1..LongMax /\ desc[1] <= desc[2]
       /\ Kernel' = [count |-> desc[1], maximum |-> desc[2]]
  /\ Initialized' = TRUE
  /\ UNCHANGED waiting

\* The caller sees to it that no thread uses the semaphore any more.
ShutdownSemaphore ==
  /\ Initialized /\ \A t \in Threads : waiting[t] = "no"
  /\ Initialized' = FALSE /\ Kernel' = NoHandle
  /\ UNCHANGED waiting

\* The kernel's ReleaseSemaphore of a LONG: all of it or nothing.
NativeRelease(count) ==
  IF count > 0 /\ Kernel.count + count <= Kernel.maximum
  THEN Kernel' = [Kernel EXCEPT !.count = @ + count]
  ELSE UNCHANGED Kernel

\* Static_cast< LONG >.
ToLong(count) == IF count > LongMax THEN count - 2 * (LongMax + 1) ELSE count

ReleaseSemaphore ==
  /\ Initialized
  /\ \E count \in Releases \ {0} : NativeRelease(ToLong(count))
  /\ UNCHANGED <<Initialized, waiting>>

-----------------------------------------------------------------------------
(* Waiting.  WAIT_OBJECT_0 takes a unit; WAIT_TIMEOUT does not.            *)

TakeUnit == Kernel.count > 0 /\ Kernel' = [Kernel EXCEPT !.count = @ - 1]

Calls(t) == Initialized /\ waiting[t] = "no"

Block(t, how) ==
  /\ Kernel.count = 0
  /\ waiting' = [waiting EXCEPT ![t] = how]
  /\ UNCHANGED <<Initialized, Kernel>>

AcquireSemaphore(t) ==
  /\ Calls(t)
  /\ \/ TakeUnit /\ UNCHANGED <<Initialized, waiting>>
     \/ Block(t, "forever")

TryAcquireSemaphore(t) ==
  /\ Calls(t)
  /\ TakeUnit /\ UNCHANGED <<Initialized, waiting>>

\* A time of zero makes the call TryAcquireSemaphore.
AcquireSemaphoreFor(t) ==
  /\ Calls(t)
  /\ \/ TakeUnit /\ UNCHANGED <<Initialized, waiting>>
     \/ Block(t, "timed")

WaitReturns(t) ==
  /\ waiting[t] # "no"
  /\ \/ TakeUnit
     \/ waiting[t] = "timed" /\ Kernel.count = 0 /\ UNCHANGED Kernel
  /\ waiting' = [waiting EXCEPT ![t] = "no"]
  /\ UNCHANGED Initialized

Next ==
  \/ InitializeSemaphore \/ ShutdownSemaphore \/ ReleaseSemaphore
  \/ \E t \in Threads :
       \/ AcquireSemaphore(t) \/ TryAcquireSemaphore(t) \/ AcquireSemaphoreFor(t)
       \/ WaitReturns(t)

Spec == Init /\ [][Next]_vars

-----------------------------------------------------------------------------
(* Properties.                                                             *)

\* The semaphore keeps the promises of a counting semaphore whose maximum is
\* one it accepts.
Promise ==
  INSTANCE CountingSemaphore WITH
    Descs <- {desc \in Descs : desc[2] <= LongMax},
    initialized <- Initialized,
    count <- Kernel.count,
    maximum <- Kernel.maximum,
    waiting <- {t \in Threads : waiting[t] # "no"},
    timed <- {t \in Threads : waiting[t] = "timed"}
=============================================================================
