------------------------ MODULE SmallBlockAllocator ------------------------
(***************************************************************************)
(* The small block allocator                                               *)
(* (modules/BlueMemory/src/Allocator/SmallBlockAllocator.cpp): slabs split *)
(* into blocks of one size class, free lists per thread threaded through   *)
(* the blocks themselves, a shared table of slabs filled without a lock,   *)
(* and a generation that makes stale thread caches recognisable.           *)
(*                                                                         *)
(* A call works on its own thread's cache and is one step, except for the  *)
(* refill, whose accesses to the backend, to s_SlabCount and to s_Slabs    *)
(* are a step each.  Initialize and Shutdown run while no call is in       *)
(* progress, and blocks still held then are not freed later: the code      *)
(* guards against neither.                                                 *)
(***************************************************************************)
EXTENDS Integers, FiniteSets

CONSTANTS
  Threads,
  Classes,   \* the size classes
  Slabs,     \* memory the backend can hand out, a slab at a time
  BlocksIn,  \* BlocksIn[c] is BlueSmallBlockSlabSize / classSize
  MaxSlabs,  \* MaxSmallBlockSlabs
  Modulus,   \* 2^32: the width of the generation
  MaxStarts, \* bounds the Initialize and Shutdown calls of one program
  Null,
  Garbage    \* what the holder of a block leaves in its first word

ASSUME FiniteAssumption == IsFiniteSet(Threads) /\ IsFiniteSet(Classes) /\ IsFiniteSet(Slabs)
ASSUME BlocksInAssumption == BlocksIn \in [Classes -> Nat \ {0}]
ASSUME MaxSlabsAssumption == MaxSlabs \in Nat
ASSUME GenerationAssumption == Modulus \in Nat /\ MaxStarts \in Nat /\ MaxStarts + 1 < Modulus

\* A block is named by its slab and its place in it.
Split(s, c) == {s} \X (1..BlocksIn[c])
Blocks == UNION {Split(s, c) : s \in Slabs, c \in Classes}

ASSUME NullAssumption ==
  {Null, Garbage} \cap (Blocks \cup Slabs) = {} /\ Null # Garbage /\ Null \notin Classes

VARIABLES
  Initialized, \* s_Initialized
  Generation,  \* s_Generation
  SlabCount,   \* s_SlabCount
  Base,        \* s_Slabs[ index ].Base
  ClassOf,     \* s_Slabs[ index ].ClassSize, as the class
  taken,       \* slabs the backend has handed out
  FreeLists,   \* t_Cache.FreeLists: the head of each list of each thread
  CacheGeneration, \* t_Cache.Generation
  word,        \* the first word of each block
  held,        \* the class of each block a caller holds, Null of the others
  stranded,    \* history: blocks left in the cache of a thread that ended
  starts,      \* history: Initialize and Shutdown calls so far
  pc,          \* where each thread is in AllocateSmallBlock
  class,       \* the class it allocates
  slab,        \* the slab it refills from
  index        \* the index RegisterSlab got

globals == <<Initialized, Generation, starts>>
table == <<SlabCount, Base, ClassOf>>
caches == <<FreeLists, CacheGeneration, word, held, stranded>>
locals == <<pc, class, slab, index>>
vars == <<globals, table, taken, caches, locals>>

Indices == 0..(MaxSlabs - 1)
Pcs == {"Idle", "Backend", "Register", "Write", "Unregister", "Return"}
EmptyLists == [c \in Classes |-> Null]

Init ==
  /\ Initialized = FALSE
  /\ Generation = 1
  /\ SlabCount = 0
  /\ Base = [i \in Indices |-> Null]
  /\ ClassOf = [i \in Indices |-> Null]
  /\ taken = {}
  /\ FreeLists = [t \in Threads |-> EmptyLists]
  /\ CacheGeneration = [t \in Threads |-> 0]
  /\ word = [b \in Blocks |-> Garbage]
  /\ held = [b \in Blocks |-> Null]
  /\ stranded = {}
  /\ starts = 0
  /\ pc = [t \in Threads |-> "Idle"]
  /\ class = [t \in Threads |-> Null]
  /\ slab = [t \in Threads |-> Null]
  /\ index = [t \in Threads |-> 0]

-----------------------------------------------------------------------------
(* Starting and stopping.                                                  *)

Quiescent == \A t \in Threads : pc[t] = "Idle"

NextGeneration == (Generation + 1) % Modulus

Registered == {i \in Indices : i < SlabCount /\ Base[i] # Null}

\* ShutdownSmallBlockAllocator, which InitializeSmallBlockAllocator runs first.
\* The thread caches stay as they are, their memory is the backend's again.
Release(on) ==
  /\ Quiescent
  /\ starts < MaxStarts
  /\ starts' = starts + 1
  /\ taken' = taken \ {Base[i] : i \in Registered}
  /\ Base' = [i \in Indices |-> IF i \in Registered THEN Null ELSE Base[i]]
  /\ ClassOf' = [i \in Indices |-> IF i \in Registered THEN Null ELSE ClassOf[i]]
  /\ SlabCount' = 0
  /\ Generation' = NextGeneration
  /\ Initialized' = on
  /\ word' = [b \in Blocks |-> Garbage]
  /\ held' = [b \in Blocks |-> Null]
  /\ stranded' = {}
  /\ UNCHANGED <<FreeLists, CacheGeneration, locals>>

Initialize == Release(TRUE)
Shutdown == Release(FALSE)

-----------------------------------------------------------------------------
(* The thread caches.                                                      *)

\* The lists of thread t after ResetThreadCacheIfNeeded.
Lists(t) == IF CacheGeneration[t] = Generation THEN FreeLists[t] ELSE EmptyLists

\* AllocateSmallBlock with a block in the cache: PopBlock.
AllocateCached(t, c) ==
  /\ pc[t] = "Idle"
  /\ Initialized
  /\ Lists(t)[c] # Null
  /\ LET pointer == Lists(t)[c]
     IN /\ FreeLists' = [FreeLists EXCEPT ![t] = [Lists(t) EXCEPT ![c] = word[pointer]]]
        /\ held' = [held EXCEPT ![pointer] = c]
        /\ word' = [word EXCEPT ![pointer] = Garbage]
  /\ CacheGeneration' = [CacheGeneration EXCEPT ![t] = Generation]
  /\ UNCHANGED <<globals, table, taken, stranded, locals>>

\* AllocateSmallBlock with no block in the cache: the refill begins.
AllocateRefill(t, c) ==
  /\ pc[t] = "Idle"
  /\ Initialized
  /\ Lists(t)[c] = Null
  /\ FreeLists' = [FreeLists EXCEPT ![t] = Lists(t)]
  /\ CacheGeneration' = [CacheGeneration EXCEPT ![t] = Generation]
  /\ pc' = [pc EXCEPT ![t] = "Backend"]
  /\ class' = [class EXCEPT ![t] = c]
  /\ UNCHANGED <<globals, table, taken, word, held, stranded, slab, index>>

\* Mutation of FreeSmallBlock: the rest of the list is dropped.
FreeUnlinked(t, b) ==
  /\ pc[t] = "Idle"
  /\ held[b] # Null
  /\ word' = [word EXCEPT ![b] = Null]
  /\ FreeLists' = [FreeLists EXCEPT ![t] = [Lists(t) EXCEPT ![held[b]] = b]]
  /\ held' = [held EXCEPT ![b] = Null]
  /\ CacheGeneration' = [CacheGeneration EXCEPT ![t] = Generation]
  /\ UNCHANGED <<globals, table, taken, stranded, locals>>

\* Mutation of FreeSmallBlock: a stale cache is not reset.
FreeStale(t, b) ==
  /\ pc[t] = "Idle"
  /\ held[b] # Null
  /\ word' = [word EXCEPT ![b] = FreeLists[t][held[b]]]
  /\ FreeLists' = [FreeLists EXCEPT ![t] = [@ EXCEPT ![held[b]] = b]]
  /\ held' = [held EXCEPT ![b] = Null]
  /\ CacheGeneration' = [CacheGeneration EXCEPT ![t] = Generation]
  /\ UNCHANGED <<globals, table, taken, stranded, locals>>

\* FreeSmallBlock, by any thread, of a block somebody holds: PushBlock.
FreeSmallBlock(t, b) ==
  /\ pc[t] = "Idle"
  /\ held[b] # Null
  /\ word' = [word EXCEPT ![b] = Lists(t)[held[b]]]
  /\ FreeLists' = [FreeLists EXCEPT ![t] = [Lists(t) EXCEPT ![held[b]] = b]]
  /\ held' = [held EXCEPT ![b] = Null]
  /\ CacheGeneration' = [CacheGeneration EXCEPT ![t] = Generation]
  /\ UNCHANGED <<globals, table, taken, stranded, locals>>

\* The blocks on the list that starts at head: Chain of any length the list
\* can have, stopped at the first word that is no block.
Follow(links, head) ==
  LET at[n \in 0..Cardinality(Blocks)] ==
        IF n = 0 THEN head
        ELSE LET before == at[n - 1]
             IN IF before \in Blocks THEN links[before] ELSE before
  IN {at[n] : n \in 0..Cardinality(Blocks)}

OnList(t, c) == Follow(word, Lists(t)[c]) \cap Blocks
Cached(t) == UNION {OnList(t, c) : c \in Classes}

\* A thread that ends takes its t_Cache along; another takes its place.
ThreadEnds(t) ==
  /\ pc[t] = "Idle"
  /\ CacheGeneration[t] # 0
  /\ stranded' = stranded \cup Cached(t)
  /\ FreeLists' = [FreeLists EXCEPT ![t] = EmptyLists]
  /\ CacheGeneration' = [CacheGeneration EXCEPT ![t] = 0]
  /\ UNCHANGED <<globals, table, taken, word, held, locals>>

-----------------------------------------------------------------------------
(* RefillThreadCache.                                                      *)

Goto(t, to) == pc' = [pc EXCEPT ![t] = to]

Return(t) ==
  /\ Goto(t, "Idle")
  /\ class' = [class EXCEPT ![t] = Null]
  /\ slab' = [slab EXCEPT ![t] = Null]
  /\ index' = [index EXCEPT ![t] = 0]

BackendAllocates(t, s) ==
  /\ pc[t] = "Backend"
  /\ s \notin taken
  /\ taken' = taken \cup {s}
  /\ slab' = [slab EXCEPT ![t] = s]
  /\ Goto(t, "Register")
  /\ UNCHANGED <<globals, table, caches, class, index>>

\* The backend is out of memory: AllocateSmallBlock returns nullptr.
BackendFails(t) ==
  /\ pc[t] = "Backend"
  /\ Return(t)
  /\ UNCHANGED <<globals, table, taken, caches>>

TableFull(i) == i >= MaxSlabs

\* RegisterSlab: the FetchAdd.
RegisterSlab(t) ==
  /\ pc[t] = "Register"
  /\ index' = [index EXCEPT ![t] = SlabCount]
  /\ SlabCount' = SlabCount + 1
  /\ Goto(t, IF TableFull(SlabCount) THEN "Unregister" ELSE "Write")
  /\ UNCHANGED <<globals, Base, ClassOf, taken, caches, class, slab>>

\* Mutation of Unregister: the count is left raised.
UnregisterNot(t) ==
  /\ pc[t] = "Unregister"
  /\ Goto(t, "Return")
  /\ UNCHANGED <<globals, table, taken, caches, class, slab, index>>

\* RegisterSlab: the FetchSub of a full table.
Unregister(t) ==
  /\ pc[t] = "Unregister"
  /\ SlabCount' = SlabCount - 1
  /\ Goto(t, "Return")
  /\ UNCHANGED <<globals, Base, ClassOf, taken, caches, class, slab, index>>

\* The slab that found no place goes back; AllocateSmallBlock returns nullptr.
ReturnSlab(t) ==
  /\ pc[t] = "Return"
  /\ taken' = taken \ {slab[t]}
  /\ Return(t)
  /\ UNCHANGED <<globals, table, caches>>

\* The slab is entered at its index, split, every block of it pushed in order
\* onto the list, which was empty, and the last one popped for the caller.
RefillThreadCache(t) ==
  /\ pc[t] = "Write"
  /\ Base' = [Base EXCEPT ![index[t]] = slab[t]]
  /\ ClassOf' = [ClassOf EXCEPT ![index[t]] = class[t]]
  /\ LET count == BlocksIn[class[t]]
         below(n) == IF n = 1 THEN Null ELSE <<slab[t], n - 1>>
     IN /\ word' = [b \in Blocks |->
                      IF b \notin Split(slab[t], class[t]) THEN word[b]
                      ELSE IF b[2] = count THEN Garbage
                      ELSE below(b[2])]
        /\ FreeLists' = [FreeLists EXCEPT ![t][class[t]] = below(count)]
        /\ held' = [held EXCEPT ![<<slab[t], count>>] = class[t]]
  /\ Return(t)
  /\ UNCHANGED <<globals, SlabCount, taken, CacheGeneration, stranded>>

-----------------------------------------------------------------------------
Refill(t) ==
  \/ \E s \in Slabs : BackendAllocates(t, s)
  \/ BackendFails(t)
  \/ RegisterSlab(t)
  \/ Unregister(t)
  \/ ReturnSlab(t)
  \/ RefillThreadCache(t)

Next ==
  \/ Initialize
  \/ Shutdown
  \/ \E t \in Threads :
       \/ \E c \in Classes : AllocateCached(t, c) \/ AllocateRefill(t, c)
       \/ \E b \in Blocks : FreeSmallBlock(t, b)
       \/ ThreadEnds(t)
       \/ Refill(t)

Spec == Init /\ [][Next]_vars

-----------------------------------------------------------------------------
(* Properties.                                                             *)

\* Types; and a registered index lies within s_Slabs.
TypeOK ==
  /\ Initialized \in BOOLEAN
  /\ Generation \in 0..(Modulus - 1)
  /\ SlabCount \in 0..(MaxSlabs + Cardinality(Threads))
  /\ Base \in [Indices -> Slabs \cup {Null}]
  /\ ClassOf \in [Indices -> Classes \cup {Null}]
  /\ taken \subseteq Slabs
  /\ FreeLists \in [Threads -> [Classes -> Blocks \cup {Null}]]
  /\ CacheGeneration \in [Threads -> 0..(Modulus - 1)]
  /\ word \in [Blocks -> Blocks \cup {Null, Garbage}]
  /\ held \in [Blocks -> Classes \cup {Null}]
  /\ stranded \subseteq Blocks
  /\ starts \in 0..MaxStarts
  /\ pc \in [Threads -> Pcs]
  /\ class \in [Threads -> Classes \cup {Null}]
  /\ slab \in [Threads -> Slabs \cup {Null}]
  /\ index \in [Threads -> Nat]
  /\ \A t \in Threads : pc[t] = "Write" => index[t] \in Indices

\* A block the next AllocateSmallBlock can return is held by nobody and on no
\* other list, although its link lives in memory its last holder wrote to.
HandedOutOnce ==
  LET chain == [l \in Threads \X Classes |-> Follow(word, Lists(l[1])[l[2]])]
  IN \A l \in Threads \X Classes :
       /\ \A b \in chain[l] \cap Blocks : held[b] = Null
       /\ \A k \in Threads \X Classes : k # l => chain[k] \cap chain[l] \cap Blocks = {}
       /\ Null \in chain[l]

\* A block is never lost while its thread lives: it is held, cached, or was
\* in the cache of a thread that ended.
NoBlockLost ==
  \A i \in Registered : \A b \in Split(Base[i], ClassOf[i]) :
    held[b] # Null \/ b \in stranded \/ \E t \in Threads : b \in Cached(t)

\* Between calls the slab table holds exactly the slabs taken from the
\* backend and SlabCount counts them, also after refills that found the table
\* full: Shutdown returns every slab.
SlabsAccounted ==
  Quiescent =>
    /\ SlabCount = Cardinality(Registered)
    /\ taken = {Base[i] : i \in Registered}
    /\ \A i, j \in Registered : Base[i] = Base[j] => i = j
-----------------------------------------------------------------------------
(* The inductive invariant.                                                *)

\* A cache that is not of this generation is not taken for one, and a thread
\* that refills has one that is, with no block of the class it allocates.
GenerationsKept ==
  /\ Generation = starts + 1
  /\ \A t \in Threads : CacheGeneration[t] <= Generation
  /\ \A t \in Threads :
       pc[t] # "Idle" =>
         CacheGeneration[t] = Generation /\ class[t] \in Classes /\ FreeLists[t][class[t]] = Null

Writing == {t \in Threads : pc[t] = "Write"}
Unregistering == {t \in Threads : pc[t] = "Unregister"}
Refilling == {t \in Threads : pc[t] \in {"Register", "Write", "Unregister", "Return"}}

\* The indices that are given away: SlabCount, but for those who found the table
\* full and have not yet lowered it again.
Reserved == SlabCount - Cardinality(Unregistering)

\* Each index below is a slab's or a writing thread's, which has it to itself.
TableKept ==
  /\ Reserved \in 0..MaxSlabs
  /\ Unregistering # {} => Reserved = MaxSlabs
  /\ \A i \in Indices : Base[i] # Null => i < Reserved /\ ClassOf[i] \in Classes
  /\ \A i \in Indices : i < Reserved /\ Base[i] = Null => \E t \in Writing : index[t] = i
  /\ \A t \in Writing : index[t] \in Indices /\ index[t] < Reserved /\ Base[index[t]] = Null
  /\ \A t, u \in Writing : index[t] = index[u] => t = u

Entered == {i \in Indices : Base[i] # Null}

\* A slab is in the table or in the hands of one thread.
SlabsKept ==
  /\ taken = {Base[i] : i \in Entered} \cup {slab[t] : t \in Refilling}
  /\ \A i, j \in Entered : Base[i] = Base[j] => i = j
  /\ \A t \in Refilling : slab[t] \in Slabs /\ \A i \in Indices : Base[i] # slab[t]
  /\ \A t, u \in Refilling : slab[t] = slab[u] => t = u

\* The free lists.
Lanes == Threads \X Classes
NoLane == <<>>
Top(l) == Lists(l[1])[l[2]]

\* A block on a list: the next one is on it, too, and one nearer to its end.
Linked(owner, rank, b) ==
  LET top == Top(owner[b]) IN
  /\ held[b] = Null
  /\ top # Null /\ rank[b] <= rank[top]
  /\ IF rank[b] = 0 THEN word[b] = Null
     ELSE word[b] \in Blocks /\ owner[word[b]] = owner[b] /\ rank[word[b]] = rank[b] - 1

\* The words make lists of the blocks: owner says on which one a block is, and
\* rank how many are behind it.
Threaded(owner, rank) ==
  /\ \A l \in Lanes : Top(l) # Null => owner[Top(l)] = l
  /\ \A b \in Blocks : owner[b] # NoLane => Linked(owner, rank, b)
  /\ \A a, b \in Blocks :
       owner[a] # NoLane /\ owner[a] = owner[b] /\ rank[a] = rank[b] => a = b

\* A block in use or on a list is of a slab in the table, and each block of such a
\* slab is one or the other, or stranded.
AllThere(owner) ==
  /\ \A b \in Blocks :
       held[b] # Null \/ owner[b] # NoLane => \E i \in Indices : Base[i] = b[1]
  /\ \A i \in Entered : \A b \in Split(Base[i], ClassOf[i]) :
       held[b] # Null \/ b \in stranded \/ owner[b] # NoLane

IInv ==
  /\ TypeOK
  /\ GenerationsKept
  /\ TableKept
  /\ SlabsKept
  /\ \E owner \in [Blocks -> Lanes \cup {NoLane}], rank \in [Blocks -> Nat] :
       Threaded(owner, rank) /\ AllThere(owner)
=============================================================================
