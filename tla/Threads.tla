-------------------------------- MODULE Threads --------------------------------
(***************************************************************************)
(* Threads: OwnedThread (Thread.inl) over CreateThread, JoinThread and     *)
(* DetachThread of Thread_POSIX.cpp with Thread_Linux.cpp, and of          *)
(* Thread_Windows.cpp.  A start context goes from the creator to the new   *)
(* thread, which runs from the moment the system has made it, before the   *)
(* creator has stored its handle.                                          *)
(***************************************************************************)
EXTENDS Integers, FiniteSets

CONSTANTS
  Objects,  \* the OwnedThread objects, each used by one thread
  Natives,  \* the threads the system can make
  Infos     \* ThreadCreateInfo: stack, and the policies asked for

VARIABLES
  platform, \* what the program is built for
  object,   \* where its call is, and m_Thread
  native    \* where it is, what it was created with, the start contexts made
            \* for it and freed, the policies tried, the joins and detaches

threadVars == <<platform, object, native>>

NoThread == [at |-> "idle", Joinable |-> FALSE, Handle |-> "none"]

Unmade == [at |-> "unmade", info |-> "none", contexts |-> 0, frees |-> 0,
           tried |-> {}, closed |-> 0]

InitThreads ==
  /\ platform \in {"POSIX", "Windows"}
  /\ object = [o \in Objects |-> NoThread]
  /\ native = [n \in Natives |-> Unmade]

SetNative(n, changes) ==
  native' = [native EXCEPT ![n] =
    [f \in DOMAIN @ |-> IF f \in DOMAIN changes THEN changes[f] ELSE @[f]]]

-----------------------------------------------------------------------------
(* Creating.                                                               *)

\* Malloc of a start context for a thread to be.
Prepare(o, n, info) ==
  /\ native[n].at = "unmade"
  /\ SetNative(n, [at |-> "prepared", info |-> info, contexts |-> 1])
  /\ object' = [object EXCEPT ![o] = [NoThread EXCEPT !.at = "creating", !.Handle = n]]
  /\ UNCHANGED platform

\* Mutation of Create: an object that owns a thread may be given another.
CreateAgain(o) ==
  /\ object[o].at = "idle"
  /\ \E n \in Natives, info \in Infos : Prepare(o, n, info)

Create(o) ==
  /\ object[o].at = "idle" /\ ~object[o].Joinable
  /\ \E n \in Natives, info \in Infos :
       /\ platform = "Windows" => info.stack # "beyond 32 bits"
       /\ Prepare(o, n, info)

\* Pthread_attr_init, pthread_attr_setstacksize or pthread_create fails, or
\* _beginthreadex does: the creator frees the context.
StartFails(o) ==
  LET n == object[o].Handle IN
  /\ object[o].at = "creating" /\ native[n].at = "prepared"
  /\ SetNative(n, [at |-> "failed", frees |-> native[n].frees + 1])
  /\ object' = [object EXCEPT ![o] = NoThread]
  /\ UNCHANGED platform

Start(o) ==
  LET n == object[o].Handle IN
  /\ object[o].at = "creating" /\ native[n].at = "prepared"
  /\ platform = "POSIX" => native[n].info.stack = "default"
  /\ SetNative(n, [at |-> "started"])
  /\ UNCHANGED <<platform, object>>

Stored(o) == [object[o] EXCEPT !.at = "idle", !.Joinable = TRUE]

\* Pthread_create has returned.
StorePosix(o) ==
  /\ platform = "POSIX"
  /\ object[o].at = "creating" /\ native[object[o].Handle].at # "prepared"
  /\ object' = [object EXCEPT ![o] = Stored(o)]
  /\ UNCHANGED <<platform, native>>

\* SetThreadPriority, and SetThreadAffinity when a mask was given.
StoredPoliciesWindows(n) == native[n].info.policies \ {"name"}

\* _beginthreadex has returned, and the creator sets the priority and the
\* affinity through the handle, of a thread that may have ended.
StoreWindows(o) ==
  LET n == object[o].Handle IN
  /\ platform = "Windows"
  /\ object[o].at = "creating" /\ native[n].at # "prepared"
  /\ object' = [object EXCEPT ![o] = Stored(o)]
  /\ SetNative(n, [tried |-> native[n].tried \cup StoredPoliciesWindows(n)])
  /\ UNCHANGED platform

-----------------------------------------------------------------------------
(* The new thread.                                                         *)

\* ApplyCurrentThreadStartupPolicy: what fails is ignored.
StartPolicyPosix(n) == native[n].info.policies
StartPolicyWindows(n) == native[n].info.policies \cap {"name"}

ApplyCurrentThreadStartupPolicy(n) ==
  /\ native[n].at = "started"
  /\ SetNative(n, [at |-> "named",
                   tried |-> IF platform = "POSIX" THEN StartPolicyPosix(n)
                             ELSE native[n].tried \cup StartPolicyWindows(n)])
  /\ UNCHANGED <<platform, object>>

\* The thread frees the context it has copied and calls the entry function.
EnterPosix(n) ==
  /\ platform = "POSIX" /\ native[n].at = "named"
  /\ SetNative(n, [at |-> "running", frees |-> native[n].frees + 1])
  /\ UNCHANGED <<platform, object>>

EnterWindows(n) ==
  /\ platform = "Windows" /\ native[n].at = "named"
  /\ SetNative(n, [at |-> "running", frees |-> native[n].frees + 1])
  /\ UNCHANGED <<platform, object>>

Exit(n) ==
  /\ native[n].at = "running"
  /\ SetNative(n, [at |-> "exited"])
  /\ UNCHANGED <<platform, object>>

-----------------------------------------------------------------------------
(* Joining and detaching.                                                  *)

GiveUpHandle(o) ==
  LET n == object[o].Handle IN
  /\ object[o].at = "idle" /\ object[o].Joinable
  /\ object' = [object EXCEPT ![o] = NoThread]
  /\ SetNative(n, [closed |-> native[n].closed + 1])
  /\ UNCHANGED platform

\* Pthread_join returns, or WaitForSingleObject and CloseHandle do.
JoinPosix(o) ==
  /\ platform = "POSIX"
  /\ object[o].Joinable /\ native[object[o].Handle].at = "exited"
  /\ GiveUpHandle(o)

JoinWindows(o) ==
  /\ platform = "Windows"
  /\ object[o].Joinable /\ native[object[o].Handle].at = "exited"
  /\ GiveUpHandle(o)

\* OwnedThread::Detach, and the destructor, which detaches.
DetachPosix(o) == platform = "POSIX" /\ GiveUpHandle(o)
DetachWindows(o) == platform = "Windows" /\ GiveUpHandle(o)

-----------------------------------------------------------------------------
Next ==
  \/ \E o \in Objects :
       \/ Create(o) \/ StartFails(o) \/ Start(o)
       \/ StorePosix(o) \/ StoreWindows(o)
       \/ JoinPosix(o) \/ JoinWindows(o)
       \/ DetachPosix(o) \/ DetachWindows(o)
  \/ \E n \in Natives :
       \/ ApplyCurrentThreadStartupPolicy(n)
       \/ EnterPosix(n) \/ EnterWindows(n)
       \/ Exit(n)

Spec == InitThreads /\ [][Next]_threadVars

-----------------------------------------------------------------------------
(* Properties.                                                             *)

Made == {n \in Natives : native[n].at \notin {"unmade", "prepared", "failed"}}

\* A start context is freed exactly once, by the thread or by the creator it
\* never got to.
ContextFreedOnce ==
  \A n \in Natives :
    native[n].frees =
      IF native[n].at \in {"failed", "running", "exited"} THEN native[n].contexts ELSE 0

\* Every thread that was made is owned by exactly one object until it is
\* joined or detached, once, and a joined thread has ended: no thread is left
\* unjoined and unowned, none is joined twice.
OneOwner ==
  \A n \in Made :
    Cardinality({o \in Objects : object[o].Handle = n}) = 1 - native[n].closed

\* The policies a thread was created with have been tried by the time its
\* creator knows of it and it runs.
PoliciesTried ==
  \A n \in Made :
    (native[n].at \in {"running", "exited"}
     /\ \A o \in Objects : object[o].Handle = n => object[o].at = "idle")
      => native[n].tried = native[n].info.policies

ThreadsOwned == ContextFreedOnce /\ OneOwner /\ PoliciesTried
=============================================================================
