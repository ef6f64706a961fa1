---------------------- MODULE SmallBlockAllocatorProofs ----------------------
(***************************************************************************)
(* Proofs about the small block allocator, for any finite sets of threads, *)
(* classes and slabs, any number of blocks in a slab and any size of the   *)
(* table: a block is handed out to one caller and never lost, the lists    *)
(* threaded through the blocks stay lists, and every slab is accounted     *)
(* for.  FollowList says what the recursive walk along a list meets; the   *)
(* rest speaks of owner and rank, where each block is on the lists.        *)
(***************************************************************************)
EXTENDS SmallBlockAllocator, CountingTheorems


LEMMA BlocksFinite == IsFiniteSet(Blocks) /\ Null \notin Blocks
<1>1. \A s \in Slabs, c \in Classes : IsFiniteSet(Split(s, c))
  <2> SUFFICES ASSUME NEW s \in Slabs, NEW c \in Classes PROVE IsFiniteSet(Split(s, c))
    OBVIOUS
  <2>1. IsFiniteSet({s})
    BY FS_Singleton
  <2>2. BlocksIn[c] \in Int
    BY BlocksInAssumption
  <2>3. IsFiniteSet(1..BlocksIn[c])
    BY <2>2, FS_Interval
  <2> QED BY <2>1, <2>3, FS_Product DEF Split
<1> DEFINE Pairs == Slabs \X Classes
<1> DEFINE Parts == {Split(p[1], p[2]) : p \in Pairs}
<1>2. IsFiniteSet(Pairs)
  BY FiniteAssumption, FS_Product
<1>3. IsFiniteSet(Parts)
  <2> DEFINE f == [p \in Pairs |-> Split(p[1], p[2])]
  <2>1. f \in Surjection(Pairs, Parts)
    BY DEF Surjection
  <2> QED BY <1>2, <2>1, FS_Surjection
<1>4. \A s \in Slabs, c \in Classes : Split(s, c) \in Parts
  <2>1. \A s \in Slabs, c \in Classes : <<s, c>> \in Pairs /\ <<s, c>>[1] = s /\ <<s, c>>[2] = c
    OBVIOUS
  <2> HIDE DEF Pairs
  <2> QED BY <2>1, Zenon
<1>5. \A T \in Parts : IsFiniteSet(T)
  <2>1. \A p \in Pairs : p[1] \in Slabs /\ p[2] \in Classes
    OBVIOUS
  <2> QED BY <1>1, <2>1
<1>6. IsFiniteSet(UNION Parts)
  <2> HIDE DEF Parts
  <2> QED BY <1>3, <1>5, FS_UNION
<1>7. Blocks \subseteq UNION Parts
  <2> HIDE DEF Parts
  <2> QED BY <1>4 DEF Blocks
<1>8. IsFiniteSet(Blocks)
  <2> HIDE DEF Parts
  <2> QED BY <1>6, <1>7, FS_Subset
<1> QED BY <1>8, NullAssumption

LEMMA SplitInBlocks ==
  ASSUME NEW s \in Slabs, NEW c \in Classes
  PROVE  Split(s, c) \subseteq Blocks /\ \A n \in 1..BlocksIn[c] : <<s, n>> \in Blocks
<1>1. Split(s, c) \subseteq Blocks
  BY DEF Blocks
<1>2. \A n \in 1..BlocksIn[c] : <<s, n>> \in Split(s, c)
  BY DEF Split
<1> QED BY <1>1, <1>2

\* A list, given by its blocks and how far each is from the end, is what is met
\* on the way from its head, and the way ends with Null.
LEMMA FollowList ==
  ASSUME NEW links, NEW head \in Blocks \cup {Null}, NEW S \in SUBSET Blocks,
         NEW rank \in [Blocks -> Nat],
         head # Null => head \in S,
         \A b \in S :
           /\ head # Null /\ rank[b] <= rank[head]
           /\ IF rank[b] = 0 THEN links[b] = Null
              ELSE links[b] \in S /\ rank[links[b]] = rank[b] - 1,
         \A a, b \in S : rank[a] = rank[b] => a = b
  PROVE  Follow(links, head) = S \cup {Null}
<1> DEFINE K == Cardinality(Blocks)
           Step(f, n) == IF n = 0 THEN head
                         ELSE IF f[n - 1] \in Blocks THEN links[f[n - 1]] ELSE f[n - 1]
           IsWalk(f) == f = [n \in 0..K |-> Step(f, n)]
           length == IF head = Null THEN 0 ELSE rank[head] + 1
           Node(n) == CHOOSE b \in S : rank[b] = length - 1 - n
           walk == CHOOSE f : IsWalk(f)
<1>1. Follow(links, head) = {walk[n] : n \in 0..K}
  BY DEF Follow
<1>2. length \in Nat /\ (head = Null => S = {}) /\ K \in Nat /\ Null \notin Blocks
  BY BlocksFinite, FS_CardinalityType
\* Each distance from the head has its block.
<1>3. \A n \in 0..(length - 1) : \E b \in S : rank[b] = length - 1 - n
  <2> DEFINE T == {n \in 0..(length - 1) : ~\E b \in S : rank[b] = length - 1 - n}
  <2> SUFFICES ASSUME T # {} PROVE FALSE
    OBVIOUS
  <2>0. T \in SUBSET Nat
    BY <1>2
  <2>1. PICK n \in T : \A m \in T : n <= m
    <3> HIDE DEF T
    <3> QED BY <2>0, LeastNatural
  <2>2. n # 0
    BY <1>2
  <2>3. n - 1 \in 0..(length - 1) /\ n - 1 \notin T
    BY <1>2, <2>1, <2>2
  <2>4. PICK b \in S : rank[b] = length - 1 - (n - 1)
    BY <2>3
  <2>5. rank[b] # 0 /\ rank[links[b]] = rank[b] - 1 /\ links[b] \in S
    BY <1>2, <2>4
  <2> QED BY <1>2, <2>1, <2>4, <2>5
<1>4. \A n \in 0..(length - 1) : Node(n) \in S /\ rank[Node(n)] = length - 1 - n
  BY <1>3
<1> HIDE DEF Node
<1>5. length <= K
  <2> DEFINE f == [n \in 0..(length - 1) |-> Node(n)]
  <2>1. f \in Injection(0..(length - 1), Blocks)
    <3>1. f \in [0..(length - 1) -> Blocks]
      BY <1>4
    <3>2. ASSUME NEW m \in 0..(length - 1), NEW n \in 0..(length - 1), f[m] = f[n]
          PROVE  m = n
      <4>1. rank[Node(m)] = length - 1 - m /\ rank[Node(n)] = length - 1 - n
        BY <1>4
      <4> QED BY <1>2, <3>2, <4>1
    <3> QED BY <3>1, <3>2 DEF Injection, IsInjective
  <2>2. Cardinality(0..(length - 1)) = length
    <3>1. length \in Nat
      BY <1>2
    <3> HIDE DEF length
    <3> QED BY <3>1, FirstNumbers
  <2> QED BY <2>1, <2>2, BlocksFinite, FS_Injection
<1>6. IsWalk(walk)
  <2> DEFINE g == [n \in 0..K |-> IF n < length THEN Node(n) ELSE Null]
  <2>1. ASSUME NEW n \in 0..K PROVE g[n] = Step(g, n)
    <3>1. CASE n = 0 /\ head = Null
      BY <3>1, <1>2
    <3>2. CASE n = 0 /\ head # Null
      <4>1. Node(0) \in S /\ rank[Node(0)] = rank[head]
        BY <1>2, <1>4, <3>2
      <4> QED BY <3>2, <4>1, <1>2
    <3>3. CASE n # 0 /\ n < length
      <4>1. n - 1 \in 0..(length - 1) /\ n \in 0..(length - 1) /\ n - 1 \in 0..K
        BY <1>2, <3>3
      <4>2. /\ Node(n) \in S /\ rank[Node(n)] = length - 1 - n
            /\ Node(n - 1) \in S /\ rank[Node(n - 1)] = length - 1 - (n - 1)
        BY <1>4, <4>1
      <4>3. rank[Node(n - 1)] # 0
        BY <1>2, <3>3, <4>2
      <4>4. links[Node(n - 1)] = Node(n)
        BY <1>2, <4>2, <4>3
      <4>5. g[n - 1] = Node(n - 1) /\ g[n] = Node(n)
        BY <1>2, <3>3, <4>1
      <4> QED BY <3>3, <4>2, <4>4, <4>5
    <3>4. CASE n # 0 /\ n = length
      <4>1. n - 1 \in 0..(length - 1) /\ n - 1 \in 0..K
        BY <1>2, <3>4
      <4>2. Node(n - 1) \in S /\ rank[Node(n - 1)] = 0
        BY <1>2, <1>4, <3>4, <4>1
      <4>3. g[n - 1] = Node(n - 1) /\ g[n] = Null
        BY <1>2, <3>4, <4>1
      <4> QED BY <3>4, <4>2, <4>3
    <3>5. CASE n # 0 /\ n > length
      <4>1. n - 1 \in 0..K /\ g[n - 1] = Null /\ g[n] = Null
        BY <1>2, <3>5
      <4> QED BY <1>2, <3>5, <4>1
    <3> QED BY <1>2, <3>1, <3>2, <3>3, <3>4, <3>5
  <2>2. IsWalk(g)
    BY <2>1
  <2> HIDE DEF g, IsWalk
  <2> QED BY <2>2
<1>7. \A n \in 0..K : walk[n] = Step(walk, n)
  BY <1>6
<1> HIDE DEF walk
<1>8. \A n \in 0..K : walk[n] = IF n < length THEN Node(n) ELSE Null
  <2> DEFINE T == {n \in 0..K : walk[n] # IF n < length THEN Node(n) ELSE Null}
  <2> SUFFICES ASSUME T # {} PROVE FALSE
    OBVIOUS
  <2>0. T \in SUBSET Nat
    BY <1>2
  <2>1. PICK n \in T : \A m \in T : n <= m
    <3> HIDE DEF T
    <3> QED BY <2>0, LeastNatural
  <2>2. walk[n] = Step(walk, n) /\ n \in 0..K
    BY <1>7
  <2>3. CASE n = 0
    <3>1. CASE head = Null
      BY <1>2, <2>2, <2>3, <3>1
    <3>2. CASE head # Null
      <4>1. Node(0) \in S /\ rank[Node(0)] = rank[head]
        BY <1>2, <1>4, <3>2
      <4>2. Node(0) = head
        BY <3>2, <4>1
      <4> QED BY <1>2, <2>2, <2>3, <3>2, <4>2
    <3> QED BY <3>1, <3>2
  <2>4. CASE n # 0
    <3>1. n - 1 \in 0..K /\ n - 1 \notin T
      BY <1>2, <2>1, <2>4
    <3>2. walk[n - 1] = IF n - 1 < length THEN Node(n - 1) ELSE Null
      BY <3>1
    <3>3. CASE n - 1 < length
      <4>1. n - 1 \in 0..(length - 1)
        BY <1>2, <2>2, <2>4, <3>3
      <4>2. Node(n - 1) \in S /\ rank[Node(n - 1)] = length - n
        BY <1>2, <1>4, <4>1
      <4>3. walk[n] = links[Node(n - 1)]
        BY <2>2, <2>4, <3>2, <3>3, <4>2
      <4>4. CASE n = length
        BY <1>2, <4>2, <4>3, <4>4
      <4>5. CASE n < length
        <5>1. Node(n) \in S /\ rank[Node(n)] = length - 1 - n
          BY <1>2, <1>4, <2>2, <4>5
        <5>2. links[Node(n - 1)] = Node(n)
          BY <1>2, <4>2, <4>5, <5>1
        <5> QED BY <4>3, <4>5, <5>2
      <4> QED BY <1>2, <3>3, <4>4, <4>5
    <3>4. CASE n - 1 >= length
      BY <1>2, <2>2, <2>4, <3>2, <3>4
    <3> QED BY <1>2, <3>3, <3>4
  <2> QED BY <2>3, <2>4
<1>9. Follow(links, head) \subseteq S \cup {Null}
  BY <1>1, <1>4, <1>8, <1>2
<1>10. Null \in Follow(links, head)
  <2>1. walk[length] = Null /\ length \in 0..K
    BY <1>2, <1>5, <1>8
  <2> QED BY <1>1, <2>1
<1>11. ASSUME NEW b \in S PROVE b \in Follow(links, head)
  <2> DEFINE n == length - 1 - rank[b]
  <2>1. head # Null /\ rank[b] <= rank[head] /\ rank[b] \in Nat
    OBVIOUS
  <2>2. n \in 0..(length - 1) /\ n \in 0..K /\ n < length
    BY <1>2, <1>5, <2>1
  <2>3. Node(n) = b
    <3>1. Node(n) \in S /\ rank[Node(n)] = rank[b]
      BY <1>2, <1>4, <2>1, <2>2
    <3> QED BY <3>1
  <2>4. walk[n] = b
    BY <1>8, <2>2, <2>3
  <2> HIDE DEF n
  <2> QED BY <1>1, <2>2, <2>4
<1> QED BY <1>9, <1>10, <1>11
-----------------------------------------------------------------------------
(* Types.                                                                  *)

\* TypeOK but for the bound of SlabCount, which TableKept gives.
Types ==
  /\ Initialized \in BOOLEAN
  /\ Generation \in 0..(Modulus - 1)
  /\ SlabCount \in Int
  /\ Base \in [Indices -> Slabs \cup {Null}]
  /\ ClassOf \in [Indices -> Classes \cup {Null}]
  /\ taken \subseteq Slabs
  /\ FreeLists \in [Threads -> [Classes -> Blocks \cup {Null}]]
  /\ CacheGeneration \in [Threads -> 0..(Modulus - 1)]
  /\ word \in [Blocks -> Blocks \cup {Null, Garbage}]
  /\ held \in [Blocks -> Classes \cup {Null}]
  /\ stranded \subseteq Blocks
  /\ starts \in 0..MaxStarts
  /\ pc \in [Threads -> Pcs]
  /\ class \in [Threads -> Classes \cup {Null}]
  /\ slab \in [Threads -> Slabs \cup {Null}]
  /\ index \in [Threads -> Nat]

\* The invariant but for the free lists.
Facts == Types /\ GenerationsKept /\ TableKept /\ SlabsKept

\* The lists of a thread, whichever generation they are of.
LEMMA ListsType ==
  ASSUME Types, NEW t \in Threads
  PROVE  Lists(t) \in [Classes -> Blocks \cup {Null}]
BY DEF Types, Lists, EmptyLists

LEMMA TypesInit == Init => Types
<1> SUFFICES ASSUME Init PROVE Types
  OBVIOUS
<1>1. Modulus \in Nat /\ 1 < Modulus /\ 0 \in 0..MaxStarts
  BY GenerationAssumption
<1>2. FreeLists \in [Threads -> [Classes -> Blocks \cup {Null}]]
  BY DEF Init, EmptyLists
<1>3. CacheGeneration \in [Threads -> 0..(Modulus - 1)] /\ Generation \in 0..(Modulus - 1)
  BY <1>1 DEF Init
<1>4. /\ Base \in [Indices -> Slabs \cup {Null}] /\ ClassOf \in [Indices -> Classes \cup {Null}]
      /\ word \in [Blocks -> Blocks \cup {Null, Garbage}]
      /\ held \in [Blocks -> Classes \cup {Null}]
  BY DEF Init
<1>5. /\ pc \in [Threads -> Pcs] /\ class \in [Threads -> Classes \cup {Null}]
      /\ slab \in [Threads -> Slabs \cup {Null}] /\ index \in [Threads -> Nat]
  BY DEF Init, Pcs
<1>7. Initialized \in BOOLEAN
  BY DEF Init
<1>6. /\ SlabCount \in Int /\ starts \in 0..MaxStarts
      /\ taken \subseteq Slabs /\ stranded \subseteq Blocks
  BY <1>1 DEF Init
<1> QED BY <1>2, <1>3, <1>4, <1>5, <1>6, <1>7 DEF Types

\* The words of listed blocks are links.
LEMMA TypesStep ==
  ASSUME Facts, [Next]_vars,
         \A b \in Blocks, t \in Threads, c \in Classes :
           Lists(t)[c] = b => word[b] \in Blocks \cup {Null}
  PROVE  Types'
<1> USE DEF Facts
<1>a. CASE Initialize \/ Shutdown
  <2>1. PICK on \in BOOLEAN : Release(on)
    BY <1>a DEF Initialize, Shutdown
  <2>2. starts' \in 0..MaxStarts /\ Generation' \in 0..(Modulus - 1)
    BY <2>1, GenerationAssumption DEF Release, Types, NextGeneration
  <2> QED BY <2>1, <2>2 DEF Release, Types, locals
<1>b. ASSUME NEW t \in Threads, NEW c \in Classes, AllocateCached(t, c) PROVE Types'
  <2>1. Lists(t)[c] \in Blocks /\ word[Lists(t)[c]] \in Blocks \cup {Null}
    BY <1>b, ListsType DEF AllocateCached
  <2>2. [Lists(t) EXCEPT ![c] = word[Lists(t)[c]]] \in [Classes -> Blocks \cup {Null}]
    BY <2>1, ListsType
  <2> QED BY <1>b, <2>1, <2>2 DEF AllocateCached, Types, globals, table, locals
<1>c. ASSUME NEW t \in Threads, NEW c \in Classes, AllocateRefill(t, c) PROVE Types'
  BY <1>c, ListsType DEF AllocateRefill, Types, globals, table, Pcs
<1>d. ASSUME NEW t \in Threads, NEW b \in Blocks, FreeSmallBlock(t, b) PROVE Types'
  <2>1. held[b] \in Classes
    BY <1>d DEF FreeSmallBlock, Types
  <2>2. [Lists(t) EXCEPT ![held[b]] = b] \in [Classes -> Blocks \cup {Null}]
    BY <2>1, ListsType
  <2>3. Lists(t)[held[b]] \in Blocks \cup {Null}
    BY <2>1, ListsType
  <2> QED BY <1>d, <2>1, <2>2, <2>3 DEF FreeSmallBlock, Types, globals, table, locals
<1>e. ASSUME NEW t \in Threads, ThreadEnds(t) PROVE Types'
  <2>1. Cached(t) \subseteq Blocks
    BY DEF Cached, OnList
  <2>2. EmptyLists \in [Classes -> Blocks \cup {Null}] /\ 0 \in 0..(Modulus - 1)
    BY GenerationAssumption DEF EmptyLists
  <2> QED BY <1>e, <2>1, <2>2 DEF ThreadEnds, Types, globals, table, locals
<1>f. ASSUME NEW t \in Threads, NEW s \in Slabs, BackendAllocates(t, s) PROVE Types'
  BY <1>f DEF BackendAllocates, Types, Goto, Pcs, globals, table, caches
<1>g. ASSUME NEW t \in Threads, BackendFails(t) PROVE Types'
  BY <1>g DEF BackendFails, Return, Types, Goto, Pcs, globals, table, caches
<1>h. ASSUME NEW t \in Threads, RegisterSlab(t) PROVE Types'
  <2>1. SlabCount \in Nat
    <3>1. IsFiniteSet(Unregistering)
      BY FiniteAssumption, FS_Subset DEF Unregistering
    <3>2. Cardinality(Unregistering) \in Nat
      BY <3>1, FS_CardinalityType
    <3> QED BY <3>2, MaxSlabsAssumption DEF TableKept, Reserved, Types
  <2> QED BY <1>h, <2>1 DEF RegisterSlab, Types, Goto, Pcs, globals, caches
<1>i. ASSUME NEW t \in Threads, Unregister(t) PROVE Types'
  BY <1>i DEF Unregister, Types, Goto, Pcs, globals, caches
<1>j. ASSUME NEW t \in Threads, ReturnSlab(t) PROVE Types'
  BY <1>j DEF ReturnSlab, Return, Types, Goto, Pcs, globals, table, caches
<1>k. ASSUME NEW t \in Threads, RefillThreadCache(t) PROVE Types'
  <2> DEFINE count == BlocksIn[class[t]]
             below(n) == IF n = 1 THEN Null ELSE <<slab[t], n - 1>>
  <2>1. /\ slab[t] \in Slabs /\ class[t] \in Classes /\ count \in Nat \ {0}
        /\ index[t] \in Indices
    BY <1>k, BlocksInAssumption DEF RefillThreadCache, SlabsKept, GenerationsKept, TableKept,
       Refilling, Writing
  <2>2. \A n \in 1..count : <<slab[t], n>> \in Blocks
    BY <2>1, SplitInBlocks
  <2>3. \A n \in 1..count : below(n) \in Blocks \cup {Null}
    BY <2>1, <2>2
  <2>4. /\ Base' = [Base EXCEPT ![index[t]] = slab[t]]
        /\ ClassOf' = [ClassOf EXCEPT ![index[t]] = class[t]]
        /\ word' = [b \in Blocks |->
                      IF b \notin Split(slab[t], class[t]) THEN word[b]
                      ELSE IF b[2] = count THEN Garbage
                      ELSE below(b[2])]
        /\ FreeLists' = [FreeLists EXCEPT ![t][class[t]] = below(count)]
        /\ held' = [held EXCEPT ![<<slab[t], count>>] = class[t]]
    BY <1>k DEF RefillThreadCache
  <2>5. \A b \in Split(slab[t], class[t]) : b[2] \in 1..count
    BY DEF Split
  <2>6. word' \in [Blocks -> Blocks \cup {Null, Garbage}]
    <3> HIDE DEF below, count
    <3> QED BY <2>3, <2>4, <2>5 DEF Types
  <2>7. FreeLists' \in [Threads -> [Classes -> Blocks \cup {Null}]]
    <3>1. below(count) \in Blocks \cup {Null}
      BY <2>1, <2>3
    <3> HIDE DEF below, count
    <3> QED BY <2>1, <2>4, <3>1 DEF Types
  <2>8. held' \in [Blocks -> Classes \cup {Null}]
    BY <2>1, <2>2, <2>4 DEF Types
  <2>9. UNCHANGED <<globals, SlabCount, taken, CacheGeneration, stranded>> /\ Return(t)
    BY <1>k DEF RefillThreadCache
  <2> HIDE DEF count, below
  <2> QED BY <2>1, <2>4, <2>6, <2>7, <2>8, <2>9 DEF Types, Return, Goto, Pcs, globals
<1>l. CASE UNCHANGED vars
  BY <1>l DEF vars, globals, table, caches, locals, Types
<1> QED BY <1>a, <1>b, <1>c, <1>d, <1>e, <1>f, <1>g, <1>h, <1>i, <1>j, <1>k, <1>l DEF Next, Refill

-----------------------------------------------------------------------------
(* Generations.                                                            *)

LEMMA GenerationsStep ==
  ASSUME Types, GenerationsKept, [Next]_vars
  PROVE  GenerationsKept'
<1> USE DEF GenerationsKept, Types
<1>a. CASE Initialize \/ Shutdown
  <2>1. PICK on \in BOOLEAN : Release(on)
    BY <1>a DEF Initialize, Shutdown
  <2>2. Generation' = Generation + 1 /\ starts' = starts + 1
    <3>1. /\ starts < MaxStarts /\ starts' = starts + 1
          /\ Generation' = (Generation + 1) % Modulus
      BY <2>1 DEF Release, NextGeneration
    <3>2. Generation + 1 \in 0..(Modulus - 1) /\ Modulus \in Nat \ {0}
      BY <3>1, GenerationAssumption
    <3>3. (Generation + 1) % Modulus = Generation + 1
      <4>1. Modulus \in Nat /\ Generation + 1 \in Nat /\ Generation + 1 < Modulus
        BY <3>2
      <4> QED BY <4>1, SmallModulo
    <3> QED BY <3>1, <3>3
  <2>3. Quiescent
    BY <2>1 DEF Release
  <2> QED BY <2>1, <2>2, <2>3 DEF Release, locals, Quiescent
<1>b. ASSUME NEW t \in Threads, NEW c \in Classes, AllocateCached(t, c) PROVE GenerationsKept'
  BY <1>b DEF AllocateCached, globals, locals
<1>c. ASSUME NEW t \in Threads, NEW c \in Classes, AllocateRefill(t, c) PROVE GenerationsKept'
  <2>1. Lists(t)[c] = Null
    BY <1>c DEF AllocateRefill
  <2> QED BY <1>c, <2>1 DEF AllocateRefill, globals
<1>d. ASSUME NEW t \in Threads, NEW b \in Blocks, FreeSmallBlock(t, b) PROVE GenerationsKept'
  BY <1>d DEF FreeSmallBlock, globals, locals
<1>e. ASSUME NEW t \in Threads, ThreadEnds(t) PROVE GenerationsKept'
  BY <1>e DEF ThreadEnds, globals, locals
<1>f. ASSUME NEW t \in Threads, NEW s \in Slabs, BackendAllocates(t, s) PROVE GenerationsKept'
  BY <1>f DEF BackendAllocates, Goto, globals, caches
<1>g. ASSUME NEW t \in Threads, BackendFails(t) PROVE GenerationsKept'
  BY <1>g DEF BackendFails, Return, Goto, globals, caches
<1>h. ASSUME NEW t \in Threads, RegisterSlab(t) PROVE GenerationsKept'
  BY <1>h DEF RegisterSlab, Goto, globals, caches
<1>i. ASSUME NEW t \in Threads, Unregister(t) PROVE GenerationsKept'
  BY <1>i DEF Unregister, Goto, globals, caches
<1>j. ASSUME NEW t \in Threads, ReturnSlab(t) PROVE GenerationsKept'
  BY <1>j DEF ReturnSlab, Return, Goto, globals, caches
<1>k. ASSUME NEW t \in Threads, RefillThreadCache(t) PROVE GenerationsKept'
  <2>1. /\ pc' = [pc EXCEPT ![t] = "Idle"] /\ class' = [class EXCEPT ![t] = Null]
        /\ UNCHANGED <<globals, CacheGeneration>>
        /\ \A u \in Threads : u # t => FreeLists'[u] = FreeLists[u]
    BY <1>k DEF RefillThreadCache, Return, Goto
  <2> QED BY <2>1 DEF globals
<1>l. CASE UNCHANGED vars
  BY <1>l DEF vars, globals, caches, locals
<1> QED BY <1>a, <1>b, <1>c, <1>d, <1>e, <1>f, <1>g, <1>h, <1>i, <1>j, <1>k, <1>l DEF Next, Refill

-----------------------------------------------------------------------------
(* The table of slabs.                                                     *)

LEMMA UnregisteringFinite ==
  IsFiniteSet(Unregistering) /\ Cardinality(Unregistering) \in Nat
  /\ Cardinality(Unregistering) <= Cardinality(Threads)
<1>1. IsFiniteSet(Unregistering) /\ Cardinality(Unregistering) <= Cardinality(Threads)
  BY FiniteAssumption, FS_Subset DEF Unregistering
<1> QED BY <1>1, FS_CardinalityType

\* While no call runs, every index that is given away has its slab.
LEMMA QuiescentTable ==
  ASSUME Facts, Quiescent
  PROVE  /\ Reserved = SlabCount /\ Registered = Entered
         /\ Refilling = {} /\ Writing = {} /\ Unregistering = {}
         /\ SlabCount \in 0..MaxSlabs /\ Entered = 0..(SlabCount - 1)
<1>1. Refilling = {} /\ Writing = {} /\ Unregistering = {}
  BY DEF Quiescent, Refilling, Writing, Unregistering
<1>2. Reserved = SlabCount
  BY <1>1, FS_EmptySet DEF Reserved, Facts, Types
<1> QED BY <1>1, <1>2, MaxSlabsAssumption DEF Facts, Types, TableKept, Registered, Entered, Indices

\* Steps that touch neither the table nor who writes into it.
LEMMA TableFrame ==
  ASSUME Facts, UNCHANGED table, Writing' = Writing, Unregistering' = Unregistering,
         \A t \in Writing : index'[t] = index[t]
  PROVE  TableKept'
<1>1. Reserved' = Reserved /\ UNCHANGED <<Base, ClassOf>>
  BY DEF Reserved, table
<1> QED BY <1>1 DEF Facts, TableKept

LEMMA TableStep ==
  ASSUME Facts, [Next]_vars
  PROVE  TableKept'
<1> USE DEF Facts
<1>0. IsFiniteSet(Unregistering) /\ Cardinality(Unregistering) \in Nat /\ MaxSlabs \in Nat
  BY UnregisteringFinite, MaxSlabsAssumption
<1>a. CASE Initialize \/ Shutdown
  <2>1. PICK on \in BOOLEAN : Release(on)
    BY <1>a DEF Initialize, Shutdown
  <2>2. Quiescent /\ UNCHANGED locals
    BY <2>1 DEF Release
  <2>3. Writing' = {} /\ Unregistering' = {}
    BY <2>2 DEF Quiescent, Writing, Unregistering, locals
  <2>4. \A i \in Indices : Base'[i] = Null
    <3>1. Base' = [i \in Indices |-> IF i \in Registered THEN Null ELSE Base[i]]
      BY <2>1 DEF Release
    <3>2. Registered = Entered
      BY <2>2, QuiescentTable
    <3> QED BY <3>1, <3>2 DEF Entered
  <2>5. SlabCount' = 0 /\ Reserved' = 0
    BY <2>1, <2>3, FS_EmptySet DEF Release, Reserved
  <2>6. Reserved' \in 0..MaxSlabs /\ \A i \in Indices : ~(i < Reserved')
    BY <1>0, <2>5 DEF Indices
  <2> QED BY <2>3, <2>4, <2>6 DEF TableKept
<1>b. ASSUME NEW t \in Threads, NEW c \in Classes, AllocateCached(t, c) PROVE TableKept'
  BY <1>b, TableFrame DEF AllocateCached, locals, Writing, Unregistering
<1>c. ASSUME NEW t \in Threads, NEW c \in Classes, AllocateRefill(t, c) PROVE TableKept'
  <2>1. Writing' = Writing /\ Unregistering' = Unregistering
    BY <1>c DEF AllocateRefill, Writing, Unregistering, Types
  <2> QED BY <1>c, <2>1, TableFrame DEF AllocateRefill
<1>d. ASSUME NEW t \in Threads, NEW b \in Blocks, FreeSmallBlock(t, b) PROVE TableKept'
  BY <1>d, TableFrame DEF FreeSmallBlock, locals, Writing, Unregistering
<1>e. ASSUME NEW t \in Threads, ThreadEnds(t) PROVE TableKept'
  BY <1>e, TableFrame DEF ThreadEnds, locals, Writing, Unregistering
<1>f. ASSUME NEW t \in Threads, NEW s \in Slabs, BackendAllocates(t, s) PROVE TableKept'
  <2>1. Writing' = Writing /\ Unregistering' = Unregistering
    BY <1>f DEF BackendAllocates, Goto, Writing, Unregistering, Types
  <2> QED BY <1>f, <2>1, TableFrame DEF BackendAllocates
<1>g. ASSUME NEW t \in Threads, BackendFails(t) \/ ReturnSlab(t) PROVE TableKept'
  <2>1. /\ Writing' = Writing /\ Unregistering' = Unregistering /\ t \notin Writing
        /\ UNCHANGED table /\ index' = [index EXCEPT ![t] = 0]
    BY <1>g DEF BackendFails, ReturnSlab, Return, Goto, Writing, Unregistering, Types
  <2>2. \A u \in Writing : index'[u] = index[u]
    BY <2>1 DEF Writing, Types
  <2> QED BY <2>1, <2>2, TableFrame
<1>h. ASSUME NEW t \in Threads, RegisterSlab(t) PROVE TableKept'
  <2>1. /\ pc[t] = "Register" /\ index' = [index EXCEPT ![t] = SlabCount]
        /\ SlabCount' = SlabCount + 1 /\ UNCHANGED <<Base, ClassOf>>
        /\ pc' = [pc EXCEPT ![t] = IF TableFull(SlabCount) THEN "Unregister" ELSE "Write"]
    BY <1>h DEF RegisterSlab, Goto
  <2>2. t \notin Unregistering /\ t \notin Writing
    BY <2>1 DEF Unregistering, Writing
  <2>3. CASE SlabCount >= MaxSlabs
    <3>1. Writing' = Writing /\ Unregistering' = Unregistering \cup {t}
      BY <2>1, <2>3 DEF Writing, Unregistering, TableFull, Types
    <3>2. Cardinality(Unregistering') = Cardinality(Unregistering) + 1
      BY <1>0, <2>2, <3>1, FS_AddElement
    <3>3. Reserved' = Reserved
      BY <1>0, <2>1, <3>2 DEF Reserved, Types
    <3>4. Reserved = MaxSlabs
      <4>1. CASE Unregistering = {}
        <5>1. Reserved = SlabCount
          BY <4>1, FS_EmptySet DEF Reserved, Types
        <5> QED BY <1>0, <2>3, <5>1 DEF TableKept, Types
      <4>2. CASE Unregistering # {}
        BY <4>2 DEF TableKept
      <4> QED BY <4>1, <4>2
    <3>5. \A u \in Writing : index'[u] = index[u]
      BY <2>1, <2>2 DEF Writing, Types
    <3> QED BY <2>1, <3>1, <3>3, <3>4, <3>5 DEF TableKept
  <2>4. CASE SlabCount < MaxSlabs
    <3>1. Writing' = Writing \cup {t} /\ Unregistering' = Unregistering
      BY <1>0, <2>1, <2>2, <2>4 DEF Writing, Unregistering, TableFull, Types
    <3>2. Unregistering = {}
      BY <1>0, <2>4 DEF TableKept, Reserved, Types
    <3>3. Reserved = SlabCount /\ Reserved' = SlabCount + 1 /\ SlabCount \in Nat
      BY <2>1, <3>1, <3>2, FS_EmptySet DEF Reserved, Types, TableKept
    <3>4. index'[t] = SlabCount /\ \A u \in Writing : index'[u] = index[u]
      BY <2>1, <2>2 DEF Writing, Types
    <3>5. SlabCount \in Indices /\ Base[SlabCount] = Null
      BY <1>0, <2>4, <3>3 DEF TableKept, Indices
    <3>6. \A u \in Writing : index[u] # SlabCount
      BY <3>3 DEF TableKept
    <3>7. \A i \in Indices : i < Reserved' /\ Base'[i] = Null => \E u \in Writing' : index'[u] = i
      <4> SUFFICES ASSUME NEW i \in Indices, i < SlabCount + 1, Base[i] = Null
                   PROVE  \E u \in Writing' : index'[u] = i
        BY <2>1, <3>3
      <4>1. CASE i = SlabCount
        BY <3>1, <3>4, <4>1
      <4>2. CASE i < Reserved
        BY <3>1, <3>4, <4>2 DEF TableKept
      <4> QED BY <1>0, <3>3, <4>1, <4>2 DEF Indices
    <3>8. \A u \in Writing' : index'[u] \in Indices /\ index'[u] < Reserved' /\ Base'[index'[u]] = Null
      BY <2>1, <3>1, <3>3, <3>4, <3>5, <1>0 DEF TableKept, Indices
    <3>9. \A u, v \in Writing' : index'[u] = index'[v] => u = v
      BY <3>1, <3>4, <3>6 DEF TableKept
    <3>10. \A i \in Indices : Base'[i] # Null => i < Reserved' /\ ClassOf'[i] \in Classes
      BY <1>0, <2>1, <3>3 DEF TableKept, Indices
    <3>11. Reserved' \in 0..MaxSlabs /\ Unregistering' = {}
      BY <1>0, <2>4, <3>1, <3>2, <3>3
    <3> QED BY <3>7, <3>8, <3>9, <3>10, <3>11 DEF TableKept
  <2> QED BY <1>0, <2>3, <2>4 DEF Types
<1>i. ASSUME NEW t \in Threads, Unregister(t) PROVE TableKept'
  <2>1. t \in Unregistering /\ Unregistering' = Unregistering \ {t} /\ Writing' = Writing
        /\ UNCHANGED <<Base, ClassOf, index>> /\ SlabCount' = SlabCount - 1
    BY <1>i DEF Unregister, Goto, Writing, Unregistering, Types
  <2>2. Cardinality(Unregistering') = Cardinality(Unregistering) - 1
    BY <1>0, <2>1, FS_RemoveElement
  <2>3. Reserved' = Reserved /\ Reserved = MaxSlabs
    <3>1. Reserved' = Reserved
      BY <1>0, <2>1, <2>2 DEF Reserved, Types
    <3> QED BY <2>1, <3>1 DEF TableKept
  <2> QED BY <2>1, <2>3 DEF TableKept
<1>k. ASSUME NEW t \in Threads, RefillThreadCache(t) PROVE TableKept'
  <2>1. /\ t \in Writing /\ Writing' = Writing \ {t} /\ Unregistering' = Unregistering
        /\ Base' = [Base EXCEPT ![index[t]] = slab[t]]
        /\ ClassOf' = [ClassOf EXCEPT ![index[t]] = class[t]]
        /\ UNCHANGED SlabCount /\ index' = [index EXCEPT ![t] = 0]
    BY <1>k DEF RefillThreadCache, Return, Goto, Writing, Unregistering, Types
  <2>2. Reserved' = Reserved
    BY <2>1 DEF Reserved
  <2>3. slab[t] # Null /\ class[t] \in Classes /\ index[t] \in Indices /\ index[t] < Reserved
    <3>1. t \in Threads /\ pc[t] = "Write" /\ slab[t] \in Slabs
      BY <2>1 DEF Writing, SlabsKept, Refilling
    <3> QED BY <2>1, <3>1, NullAssumption DEF TableKept, GenerationsKept
  <2>4. \A u \in Writing' : index'[u] = index[u] /\ index[u] # index[t]
    BY <2>1 DEF TableKept, Writing, Types
  <2>5. /\ Base'[index[t]] = slab[t] /\ ClassOf'[index[t]] = class[t]
        /\ \A i \in Indices : i # index[t] => Base'[i] = Base[i] /\ ClassOf'[i] = ClassOf[i]
    BY <2>1, <2>3 DEF Types
  <2>6. \A i \in Indices : i < Reserved' /\ Base'[i] = Null => \E u \in Writing' : index'[u] = i
    <3> SUFFICES ASSUME NEW i \in Indices, i < Reserved, Base'[i] = Null
                 PROVE  \E u \in Writing' : index'[u] = i
      BY <2>2
    <3>1. i # index[t] /\ Base[i] = Null
      BY <2>3, <2>5
    <3>2. PICK u \in Writing : index[u] = i
      BY <3>1 DEF TableKept
    <3> QED BY <2>1, <2>4, <3>1, <3>2
  <2> QED BY <2>1, <2>2, <2>3, <2>4, <2>5, <2>6 DEF TableKept
<1>l. CASE UNCHANGED vars
  BY <1>l, TableFrame DEF vars, locals, Writing, Unregistering
<1> QED BY <1>a, <1>b, <1>c, <1>d, <1>e, <1>f, <1>g, <1>h, <1>i, <1>k, <1>l DEF Next, Refill

-----------------------------------------------------------------------------
(* Whose the slabs are.                                                    *)

LEMMA SlabsFrame ==
  ASSUME SlabsKept, UNCHANGED <<Base, taken>>, Refilling' = Refilling,
         \A t \in Refilling : slab'[t] = slab[t]
  PROVE  SlabsKept'
<1>1. Entered' = Entered
  BY DEF Entered
<1>2. {slab'[t] : t \in Refilling'} = {slab[t] : t \in Refilling}
  OBVIOUS
<1> QED BY <1>1, <1>2 DEF SlabsKept

LEMMA SlabsStep ==
  ASSUME Facts, [Next]_vars
  PROVE  SlabsKept'
<1> USE DEF Facts
<1>a. CASE Initialize \/ Shutdown
  <2>1. PICK on \in BOOLEAN : Release(on)
    BY <1>a DEF Initialize, Shutdown
  <2>2. Quiescent /\ UNCHANGED locals /\ taken' = taken \ {Base[i] : i \in Registered}
        /\ Base' = [i \in Indices |-> IF i \in Registered THEN Null ELSE Base[i]]
    BY <2>1 DEF Release
  <2>3. Refilling = {} /\ Registered = Entered
    BY <2>2, QuiescentTable
  <2>4. Refilling' = {}
    BY <2>2, <2>3 DEF Refilling, locals
  <2>5. Entered' = {}
    BY <2>2, <2>3 DEF Entered
  <2>6. taken' = {}
    BY <2>2, <2>3 DEF SlabsKept
  <2> QED BY <2>4, <2>5, <2>6 DEF SlabsKept
<1>b. ASSUME NEW t \in Threads, NEW c \in Classes, AllocateCached(t, c) PROVE SlabsKept'
  BY <1>b, SlabsFrame DEF AllocateCached, locals, table, Refilling
<1>c. ASSUME NEW t \in Threads, NEW c \in Classes, AllocateRefill(t, c) PROVE SlabsKept'
  <2>1. Refilling' = Refilling
    BY <1>c DEF AllocateRefill, Refilling, Types
  <2> QED BY <1>c, <2>1, SlabsFrame DEF AllocateRefill, table
<1>d. ASSUME NEW t \in Threads, NEW b \in Blocks, FreeSmallBlock(t, b) PROVE SlabsKept'
  BY <1>d, SlabsFrame DEF FreeSmallBlock, locals, table, Refilling
<1>e. ASSUME NEW t \in Threads, ThreadEnds(t) PROVE SlabsKept'
  BY <1>e, SlabsFrame DEF ThreadEnds, locals, table, Refilling
<1>f. ASSUME NEW t \in Threads, NEW s \in Slabs, BackendAllocates(t, s) PROVE SlabsKept'
  <2>1. /\ s \notin taken /\ taken' = taken \cup {s} /\ UNCHANGED Base
        /\ t \notin Refilling /\ Refilling' = Refilling \cup {t}
    BY <1>f DEF BackendAllocates, Goto, Refilling, Types, table
  <2>2. slab'[t] = s /\ \A u \in Refilling : slab'[u] = slab[u]
    BY <1>f, <2>1 DEF BackendAllocates, Refilling, Types
  <2>3. Entered' = Entered
    BY <2>1 DEF Entered
  <2>4. \A i \in Indices : Base[i] # s
    BY <2>1, NullAssumption DEF SlabsKept, Entered
  <2>5. {slab'[u] : u \in Refilling'} = {slab[u] : u \in Refilling} \cup {s}
    BY <2>1, <2>2
  <2>6. \A u \in Refilling : slab[u] # s
    BY <2>1 DEF SlabsKept
  <2> QED BY <2>1, <2>2, <2>3, <2>4, <2>5, <2>6 DEF SlabsKept
<1>g. ASSUME NEW t \in Threads, BackendFails(t) PROVE SlabsKept'
  <2>1. Refilling' = Refilling /\ t \notin Refilling
    BY <1>g DEF BackendFails, Return, Goto, Refilling, Types
  <2>2. \A u \in Refilling : slab'[u] = slab[u]
    BY <1>g, <2>1 DEF BackendFails, Return, Refilling, Types
  <2> QED BY <1>g, <2>1, <2>2, SlabsFrame DEF BackendFails, table
<1>h. ASSUME NEW t \in Threads, RegisterSlab(t) \/ Unregister(t) PROVE SlabsKept'
  <2>1. Refilling' = Refilling /\ UNCHANGED <<slab, Base, taken>>
    BY <1>h DEF RegisterSlab, Unregister, Goto, Refilling, Types
  <2> QED BY <2>1, SlabsFrame
<1>j. ASSUME NEW t \in Threads, ReturnSlab(t) PROVE SlabsKept'
  <2>1. /\ taken' = taken \ {slab[t]} /\ UNCHANGED Base
        /\ t \in Refilling /\ Refilling' = Refilling \ {t}
    BY <1>j DEF ReturnSlab, Return, Goto, Refilling, Types, table
  <2>2. \A u \in Refilling' : slab'[u] = slab[u] /\ slab[u] # slab[t]
    BY <1>j, <2>1 DEF ReturnSlab, Return, Refilling, Types, SlabsKept
  <2>3. Entered' = Entered
    BY <2>1 DEF Entered
  <2>4. {slab'[u] : u \in Refilling'} = {slab[u] : u \in Refilling} \ {slab[t]}
    BY <2>1, <2>2
  <2>5. \A i \in Entered : Base[i] # slab[t]
    BY <2>1 DEF SlabsKept, Entered
  <2>6. taken' = {Base[i] : i \in Entered} \cup ({slab[u] : u \in Refilling} \ {slab[t]})
    BY <2>1, <2>5 DEF SlabsKept
  <2> QED BY <2>1, <2>2, <2>3, <2>4, <2>6 DEF SlabsKept
<1>k. ASSUME NEW t \in Threads, RefillThreadCache(t) PROVE SlabsKept'
  <2>1. /\ t \in Writing /\ t \in Refilling /\ Refilling' = Refilling \ {t}
        /\ Base' = [Base EXCEPT ![index[t]] = slab[t]]
        /\ slab' = [slab EXCEPT ![t] = Null] /\ UNCHANGED taken
    BY <1>k DEF RefillThreadCache, Return, Goto, Writing, Refilling, Types
  <2>2. index[t] \in Indices /\ Base[index[t]] = Null /\ slab[t] \in Slabs /\ slab[t] # Null
    BY <2>1, NullAssumption DEF TableKept, SlabsKept
  <2>3. /\ Base'[index[t]] = slab[t]
        /\ \A i \in Indices : i # index[t] => Base'[i] = Base[i]
    BY <2>1, <2>2 DEF Types
  <2>4. Entered' = Entered \cup {index[t]} /\ index[t] \notin Entered
    BY <2>2, <2>3 DEF Entered
  <2>5. \A u \in Refilling' : slab'[u] = slab[u] /\ slab[u] # slab[t]
    BY <2>1 DEF SlabsKept, Refilling, Types
  <2>6. {Base'[i] : i \in Entered'} = {Base[i] : i \in Entered} \cup {slab[t]}
    BY <2>2, <2>3, <2>4 DEF Entered
  <2>7. {slab[u] : u \in Refilling} = {slab'[u] : u \in Refilling'} \cup {slab[t]}
    BY <2>1, <2>5
  <2>8. taken' = {Base'[i] : i \in Entered'} \cup {slab'[u] : u \in Refilling'}
    BY <2>1, <2>6, <2>7 DEF SlabsKept
  <2>9. \A i, j \in Entered' : Base'[i] = Base'[j] => i = j
    <3>1. \A i \in Entered : Base'[i] = Base[i] /\ Base[i] # slab[t] /\ i \in Indices
      BY <2>1, <2>3, <2>4 DEF SlabsKept, Entered
    <3> QED BY <2>3, <2>4, <3>1 DEF SlabsKept
  <2>10. \A u \in Refilling' : slab'[u] \in Slabs /\ \A i \in Indices : Base'[i] # slab'[u]
    BY <2>1, <2>3, <2>5 DEF SlabsKept
  <2>11. \A u, v \in Refilling' : slab'[u] = slab'[v] => u = v
    BY <2>1, <2>5 DEF SlabsKept
  <2> QED BY <2>8, <2>9, <2>10, <2>11 DEF SlabsKept
<1>l. CASE UNCHANGED vars
  BY <1>l, SlabsFrame DEF vars, table, locals, Refilling
<1> QED BY <1>a, <1>b, <1>c, <1>d, <1>e, <1>f, <1>g, <1>h, <1>j, <1>k, <1>l DEF Next, Refill

-----------------------------------------------------------------------------
(* The lists, as the words make them.                                      *)

LEMMA LanesOfLists ==
  ASSUME Types
  PROVE  /\ NoLane \notin Lanes /\ Null \notin Blocks /\ Null \notin Classes
         /\ \A l \in Lanes : Top(l) \in Blocks \cup {Null}
<1>1. NoLane \notin Lanes
  BY DEF NoLane, Lanes
<1>2. \A l \in Lanes : l[1] \in Threads /\ l[2] \in Classes
  BY DEF Lanes
<1>3. \A l \in Lanes : Top(l) \in Blocks \cup {Null}
  BY <1>2, ListsType DEF Top
<1> QED BY <1>1, <1>3, BlocksFinite, NullAssumption

\* The lists of a thread change, its cache is of this generation then.
LEMMA NewLists ==
  ASSUME Types, NEW t \in Threads, UNCHANGED Generation,
         CacheGeneration' = [CacheGeneration EXCEPT ![t] = Generation],
         \A u \in Threads : u # t => FreeLists'[u] = FreeLists[u]
  PROVE  Lists(t)' = FreeLists'[t] /\ \A u \in Threads : u # t => Lists(u)' = Lists(u)
BY DEF Lists, Types

LEMMA ThreadedFrame ==
  ASSUME NEW owner, NEW rank, Threaded(owner, rank), UNCHANGED <<word, held>>,
         \A l \in Lanes : Top(l)' = Top(l),
         \A b \in Blocks : owner[b] # NoLane => owner[b] \in Lanes
  PROVE  Threaded(owner, rank)'
BY DEF Threaded, Linked

\* PopBlock.
LEMMA PopKeeps ==
  ASSUME Types, NEW owner \in [Blocks -> Lanes \cup {NoLane}], NEW rank \in [Blocks -> Nat],
         Threaded(owner, rank), NEW l \in Lanes, Top(l) # Null,
         Top(l)' = word[Top(l)], \A k \in Lanes : k # l => Top(k)' = Top(k),
         word' = [word EXCEPT ![Top(l)] = Garbage],
         held' = [held EXCEPT ![Top(l)] = l[2]],
         NEW left, left = [owner EXCEPT ![Top(l)] = NoLane]
  PROVE  /\ Threaded(left, rank)'
         /\ \A b \in Blocks : left[b] # NoLane => owner[b] # NoLane
<1> DEFINE p == Top(l)
<1>1. p \in Blocks /\ owner[p] = l /\ NoLane \notin Lanes /\ Null \notin Blocks
  BY LanesOfLists DEF Threaded
<1>2. Linked(owner, rank, p)
  BY <1>1 DEF Threaded
<1>3. /\ left[p] = NoLane
      /\ \A b \in Blocks : b # p => left[b] = owner[b] /\ word'[b] = word[b] /\ held'[b] = held[b]
  BY <1>1 DEF Types
<1>4. ASSUME NEW b \in Blocks, left[b] # NoLane
      PROVE  b # p /\ owner[b] = left[b] /\ left[b] \in Lanes /\ Linked(owner, rank, b)
  BY <1>3, <1>4 DEF Threaded
<1> HIDE DEF p
<1>5. ASSUME NEW b \in Blocks, left[b] = l
      PROVE  rank[b] < rank[p] /\ rank[p] # 0
  <2>1. b # p /\ owner[b] = l /\ rank[b] <= rank[p]
    BY <1>1, <1>4, <1>5 DEF Linked, p
  <2>2. rank[b] # rank[p]
    BY <1>1, <2>1 DEF Threaded
  <2> QED BY <1>1, <2>1, <2>2
<1>6. rank[p] # 0 => /\ word[p] \in Blocks /\ owner[word[p]] = l
                     /\ rank[word[p]] = rank[p] - 1 /\ word[p] # p /\ left[word[p]] = l
  BY <1>1, <1>2, <1>3 DEF Linked
<1>7. rank[p] = 0 => word[p] = Null
  BY <1>2 DEF Linked
<1>8. \A k \in Lanes : Top(k)' # Null => left[Top(k)'] = k
  <2> SUFFICES ASSUME NEW k \in Lanes, Top(k)' # Null PROVE left[Top(k)'] = k
    OBVIOUS
  <2>1. CASE k = l
    BY <1>6, <1>7, <2>1 DEF p
  <2>2. CASE k # l
    <3>1. Top(k)' = Top(k) /\ Top(k) \in Blocks /\ owner[Top(k)] = k
      BY <2>2, LanesOfLists DEF Threaded
    <3> QED BY <1>1, <1>3, <2>2, <3>1
  <2> QED BY <2>1, <2>2
<1>9. ASSUME NEW b \in Blocks, left[b] # NoLane PROVE Linked(left, rank, b)'
  <2>1. b # p /\ owner[b] = left[b] /\ left[b] \in Lanes /\ Linked(owner, rank, b)
    BY <1>4, <1>9
  <2>2. word'[b] = word[b] /\ held'[b] = held[b]
    BY <1>3, <2>1
  <2>3. rank[b] # 0 => word[b] \in Blocks /\ left[word[b]] = left[b] /\ rank[word[b]] = rank[b] - 1
    <3> SUFFICES ASSUME rank[b] # 0
                 PROVE  word[b] \in Blocks /\ left[word[b]] = left[b] /\ rank[word[b]] = rank[b] - 1
      OBVIOUS
    <3>1. word[b] \in Blocks /\ owner[word[b]] = owner[b] /\ rank[word[b]] = rank[b] - 1
      BY <2>1 DEF Linked
    <3>2. word[b] # p
      <4> SUFFICES ASSUME word[b] = p PROVE FALSE
        OBVIOUS
      <4>1. left[b] = l /\ rank[p] = rank[b] - 1
        BY <1>1, <2>1, <3>1
      <4> QED BY <1>1, <1>5, <4>1
    <3> QED BY <1>3, <2>1, <3>1, <3>2
  <2>4. Top(left[b])' # Null /\ rank[b] <= rank[Top(left[b])']
    <3>1. CASE left[b] = l
      <4>1. rank[b] < rank[p] /\ rank[p] # 0
        BY <1>5, <3>1
      <4>2. Top(left[b])' = word[p] /\ word[p] \in Blocks /\ rank[word[p]] = rank[p] - 1
        BY <1>6, <3>1, <4>1 DEF p
      <4> QED BY <1>1, <4>1, <4>2
    <3>2. CASE left[b] # l
      BY <2>1, <3>2 DEF Linked
    <3> QED BY <3>1, <3>2
  <2> QED BY <2>1, <2>2, <2>3, <2>4 DEF Linked
<1>10. \A a, b \in Blocks :
         left[a] # NoLane /\ left[a] = left[b] /\ rank[a] = rank[b] => a = b
  BY <1>4 DEF Threaded
<1> QED BY <1>4, <1>1, <1>8, <1>9, <1>10 DEF Threaded

\* PushBlock.
LEMMA PushKeeps ==
  ASSUME Types, NEW owner \in [Blocks -> Lanes \cup {NoLane}], NEW rank \in [Blocks -> Nat],
         Threaded(owner, rank), NEW l \in Lanes, NEW p \in Blocks, held[p] # Null,
         Top(l)' = p, \A k \in Lanes : k # l => Top(k)' = Top(k),
         word' = [word EXCEPT ![p] = Top(l)],
         held' = [held EXCEPT ![p] = Null],
         NEW joined, joined = [owner EXCEPT ![p] = l],
         NEW place, place = [rank EXCEPT ![p] = IF Top(l) = Null THEN 0 ELSE rank[Top(l)] + 1]
  PROVE  Threaded(joined, place)' /\ place \in [Blocks -> Nat]
<1>1. /\ NoLane \notin Lanes /\ Null \notin Blocks
      /\ \A k \in Lanes : Top(k) \in Blocks \cup {Null}
  BY LanesOfLists
<1>2. owner[p] = NoLane
  BY DEF Threaded, Linked
<1>3. /\ joined[p] = l
      /\ \A b \in Blocks : b # p => joined[b] = owner[b] /\ place[b] = rank[b]
                                    /\ word'[b] = word[b] /\ held'[b] = held[b]
  BY DEF Types
<1>4. /\ word'[p] = Top(l) /\ held'[p] = Null
      /\ place[p] = IF Top(l) = Null THEN 0 ELSE rank[Top(l)] + 1
  BY DEF Types
<1>5. place \in [Blocks -> Nat]
  BY <1>1
<1>6. \A k \in Lanes : Top(k) # Null => /\ owner[Top(k)] = k /\ Top(k) # p
                                        /\ joined[Top(k)] = k /\ place[Top(k)] = rank[Top(k)]
  BY <1>1, <1>2, <1>3 DEF Threaded
<1>7. \A k \in Lanes : Top(k)' # Null => joined[Top(k)'] = k
  BY <1>3, <1>6
<1>8. ASSUME NEW b \in Blocks, b # p, owner[b] # NoLane
      PROVE  /\ joined[b] = owner[b] /\ owner[b] \in Lanes /\ place[b] = rank[b]
             /\ Linked(owner, rank, b) /\ Top(owner[b]) \in Blocks
             /\ owner[b] = l => place[b] < place[p]
  <2>1. /\ joined[b] = owner[b] /\ owner[b] \in Lanes /\ place[b] = rank[b]
        /\ Linked(owner, rank, b)
    BY <1>3, <1>8 DEF Threaded
  <2>2. Top(owner[b]) \in Blocks /\ Top(owner[b]) # Null /\ rank[b] <= rank[Top(owner[b])]
    BY <1>1, <2>1 DEF Linked
  <2> QED BY <1>4, <2>1, <2>2
<1>9. ASSUME NEW b \in Blocks, joined[b] # NoLane PROVE Linked(joined, place, b)'
  <2>1. CASE b = p
    <3>1. Top(joined[b])' = p /\ p # Null
      BY <1>1, <1>3, <2>1
    <3>2. CASE Top(l) = Null
      BY <1>4, <1>5, <2>1, <3>1, <3>2 DEF Linked
    <3>3. CASE Top(l) # Null
      <4>1. Top(l) \in Blocks /\ joined[Top(l)] = l /\ place[Top(l)] = rank[Top(l)]
        BY <1>1, <1>6, <3>3
      <4>2. place[p] # 0 /\ place[Top(l)] = place[p] - 1
        BY <1>4, <3>3, <4>1
      <4> QED BY <1>3, <1>4, <1>5, <2>1, <3>1, <4>1, <4>2 DEF Linked
    <3> QED BY <3>2, <3>3
  <2>2. CASE b # p
    <3>1. owner[b] # NoLane
      BY <1>3, <1>9, <2>2
    <3>2. /\ joined[b] = owner[b] /\ owner[b] \in Lanes /\ place[b] = rank[b]
          /\ Linked(owner, rank, b) /\ Top(owner[b]) \in Blocks
          /\ owner[b] = l => place[b] < place[p]
      BY <1>8, <2>2, <3>1
    <3>3. word'[b] = word[b] /\ held'[b] = Null
      BY <1>3, <2>2, <3>2 DEF Linked
    <3>4. Top(joined[b])' # Null /\ place[b] <= place[Top(joined[b])']
      <4>1. CASE owner[b] = l
        BY <1>1, <1>5, <3>2, <4>1
      <4>2. CASE owner[b] # l
        <5>1. Top(joined[b])' = Top(owner[b]) /\ Top(owner[b]) # Null
              /\ rank[b] <= rank[Top(owner[b])]
          BY <3>2, <4>2 DEF Linked
        <5> QED BY <1>6, <3>2, <5>1
      <4> QED BY <4>1, <4>2
    <3>5. place[b] = 0 => word'[b] = Null
      BY <3>2, <3>3 DEF Linked
    <3>6. place[b] # 0 => /\ word'[b] \in Blocks /\ joined[word'[b]] = joined[b]
                          /\ place[word'[b]] = place[b] - 1
      <4> SUFFICES ASSUME place[b] # 0
                   PROVE  /\ word'[b] \in Blocks /\ joined[word'[b]] = joined[b]
                          /\ place[word'[b]] = place[b] - 1
        OBVIOUS
      <4>1. word[b] \in Blocks /\ owner[word[b]] = owner[b] /\ rank[word[b]] = rank[b] - 1
        BY <3>2 DEF Linked
      <4>2. word[b] # p
        BY <1>2, <3>1, <4>1
      <4> QED BY <1>3, <3>2, <3>3, <4>1, <4>2
    <3> QED BY <3>3, <3>4, <3>5, <3>6 DEF Linked
  <2> QED BY <2>1, <2>2
<1>10. ASSUME NEW a \in Blocks, NEW b \in Blocks, joined[a] # NoLane, joined[a] = joined[b],
              place[a] = place[b]
       PROVE  a = b
  <2>1. CASE a # p /\ b # p
    BY <1>3, <1>10, <2>1 DEF Threaded
  <2>2. CASE a = p /\ b # p
    BY <1>3, <1>5, <1>8, <1>10, <2>2
  <2>3. CASE b = p /\ a # p
    BY <1>3, <1>5, <1>8, <1>10, <2>3
  <2> QED BY <2>1, <2>2, <2>3
<1> QED BY <1>5, <1>7, <1>9, <1>10 DEF Threaded

\* The lists of a thread are emptied.
LEMMA DropKeeps ==
  ASSUME Types, NEW owner \in [Blocks -> Lanes \cup {NoLane}], NEW rank \in [Blocks -> Nat],
         Threaded(owner, rank), UNCHANGED <<word, held>>,
         NEW Dropped \in SUBSET Lanes,
         \A l \in Lanes : Top(l)' = IF l \in Dropped THEN Null ELSE Top(l),
         NEW left, left = [b \in Blocks |-> IF owner[b] \in Dropped THEN NoLane ELSE owner[b]]
  PROVE  Threaded(left, rank)'
<1>1. NoLane \notin Lanes /\ Null \notin Blocks
  BY LanesOfLists
<1>2. \A b \in Blocks : left[b] # NoLane =>
        left[b] = owner[b] /\ owner[b] \notin Dropped /\ owner[b] \in Lanes
  OBVIOUS
<1>3. \A l \in Lanes : Top(l)' # Null => left[Top(l)'] = l
  <2> SUFFICES ASSUME NEW l \in Lanes, Top(l)' # Null PROVE left[Top(l)'] = l
    OBVIOUS
  <2>1. l \notin Dropped /\ Top(l)' = Top(l)
    OBVIOUS
  <2>2. Top(l) \in Blocks /\ owner[Top(l)] = l
    BY <2>1, LanesOfLists DEF Threaded
  <2> QED BY <2>1, <2>2
<1>4. ASSUME NEW b \in Blocks, left[b] # NoLane PROVE Linked(left, rank, b)'
  <2>1. left[b] = owner[b] /\ owner[b] \notin Dropped /\ owner[b] \in Lanes
    BY <1>2, <1>4
  <2>2. Linked(owner, rank, b)
    BY <1>4, <2>1 DEF Threaded
  <2>3. Top(left[b])' = Top(owner[b])
    BY <2>1
  <2>4. word[b] \in Blocks /\ owner[word[b]] = owner[b] => left[word[b]] = left[b]
    BY <2>1
  <2> QED BY <2>1, <2>2, <2>3, <2>4 DEF Linked
<1>5. \A a, b \in Blocks :
        left[a] # NoLane /\ left[a] = left[b] /\ rank[a] = rank[b] => a = b
  BY <1>2 DEF Threaded
<1> QED BY <1>3, <1>4, <1>5 DEF Threaded

\* The list a new slab is made into: the words, and where each block comes to be.
Links(s, c, n) == [b \in Blocks |->
  IF b \notin Split(s, c) THEN word[b]
  ELSE IF b[2] = n THEN Garbage
  ELSE IF b[2] = 1 THEN Null ELSE <<s, b[2] - 1>>]
Joined(owner, lane, s, c, n) ==
  [b \in Blocks |-> IF b \in Split(s, c) /\ b[2] # n THEN lane ELSE owner[b]]
Placed(rank, s, c, n) ==
  [b \in Blocks |-> IF b \in Split(s, c) /\ b[2] # n THEN b[2] - 1 ELSE rank[b]]

LEMMA BelowLast ==
  ASSUME NEW n \in Nat, NEW k \in 1..n, k # n
  PROVE  k \in 1..(n - 1)
OBVIOUS

LEMMA RefillKeeps ==
  ASSUME Types, NEW owner \in [Blocks -> Lanes \cup {NoLane}], NEW rank \in [Blocks -> Nat],
         Threaded(owner, rank), NEW l \in Lanes, Top(l) = Null,
         NEW s \in Slabs, NEW c \in Classes,
         \A b \in Split(s, c) : held[b] = Null /\ owner[b] = NoLane,
         NEW count, count = BlocksIn[c],
         Top(l)' = IF count = 1 THEN Null ELSE <<s, count - 1>>,
         \A k \in Lanes : k # l => Top(k)' = Top(k),
         word' = Links(s, c, count),
         held' = [held EXCEPT ![<<s, count>>] = c],
         NEW joined, joined = Joined(owner, l, s, c, count),
         NEW place, place = Placed(rank, s, c, count)
  PROVE  /\ joined \in [Blocks -> Lanes \cup {NoLane}] /\ place \in [Blocks -> Nat]
         /\ Threaded(joined, place)'
<1> USE DEF Links, Joined, Placed
<1>1. /\ NoLane \notin Lanes /\ Null \notin Blocks /\ count \in Nat \ {0}
      /\ \A k \in Lanes : Top(k) \in Blocks \cup {Null}
  BY LanesOfLists, BlocksInAssumption
<1>2. \A n \in 1..count : <<s, n>> \in Split(s, c) /\ <<s, n>> \in Blocks
  BY SplitInBlocks DEF Split
<1>3. \A b \in Split(s, c) : b = <<s, b[2]>> /\ b[2] \in 1..count /\ b \in Blocks
  BY SplitInBlocks DEF Split
<1> DEFINE New == {b \in Split(s, c) : b[2] # count}
<1>4. \A b \in New : /\ joined[b] = l /\ place[b] = b[2] - 1 /\ b[2] \in 1..(count - 1)
                     /\ b = <<s, b[2]>> /\ held'[b] = Null /\ b \in Blocks
                     /\ word'[b] = IF b[2] = 1 THEN Null ELSE <<s, b[2] - 1>>
  <2> SUFFICES ASSUME NEW b \in New
               PROVE  /\ joined[b] = l /\ place[b] = b[2] - 1 /\ b[2] \in 1..(count - 1)
                      /\ b = <<s, b[2]>> /\ held'[b] = Null /\ b \in Blocks
                      /\ word'[b] = IF b[2] = 1 THEN Null ELSE <<s, b[2] - 1>>
    OBVIOUS
  <2>1. b = <<s, b[2]>> /\ b[2] \in 1..(count - 1) /\ b \in Blocks
    <3>1. b = <<s, b[2]>> /\ b[2] \in 1..count /\ b[2] # count /\ b \in Blocks
      BY <1>3
    <3>2. PICK n \in Nat : n = count
      BY <1>1
    <3>3. PICK k \in 1..n : k = b[2] /\ k # n
      BY <3>1, <3>2
    <3>4. k \in 1..(n - 1)
      BY <3>3, BelowLast
    <3> QED BY <3>1, <3>2, <3>3, <3>4
  <2>2. b # <<s, count>>
    OBVIOUS
  <2>3. held'[b] = Null
    BY <2>1, <2>2 DEF Types
  <2> QED BY <2>1, <2>3
<1>5. \A n \in 1..(count - 1) : <<s, n>> \in New
  <2> SUFFICES ASSUME NEW n \in 1..(count - 1) PROVE <<s, n>> \in New
    OBVIOUS
  <2>1. n \in 1..count /\ n # count
    BY <1>1
  <2> QED BY <1>2, <2>1
<1> HIDE DEF New
<1>6. ASSUME NEW b \in Blocks, b \notin New
      PROVE  joined[b] = owner[b] /\ place[b] = rank[b]
  BY <1>6 DEF New
<1>7. ASSUME NEW b \in Blocks, b \notin New, owner[b] # NoLane
      PROVE  /\ word'[b] = word[b] /\ held'[b] = held[b] /\ owner[b] \in Lanes
             /\ Linked(owner, rank, b) /\ owner[b] # l
  <2>1. b \notin Split(s, c) /\ <<s, count>> \in Split(s, c)
    BY <1>1, <1>2, <1>7
  <2>2. Linked(owner, rank, b) /\ owner[b] \in Lanes
    BY <1>7 DEF Threaded
  <2> QED BY <2>1, <2>2 DEF Linked, Types
<1>8. joined \in [Blocks -> Lanes \cup {NoLane}] /\ place \in [Blocks -> Nat]
  <2>1. \A b \in Split(s, c) : b[2] - 1 \in Nat
    BY <1>1, <1>3
  <2> QED BY <2>1
<1>9. \A k \in Lanes : Top(k)' # Null => joined[Top(k)'] = k
  <2> SUFFICES ASSUME NEW k \in Lanes, Top(k)' # Null PROVE joined[Top(k)'] = k
    OBVIOUS
  <2>1. CASE k = l
    <3>0. Top(k)' = <<s, count - 1>> /\ count # 1 /\ count \in Nat \ {0}
      BY <1>1, <2>1
    <3>1. count - 1 \in 1..(count - 1) /\ Top(k)' = <<s, count - 1>>
      <4>1. PICK n \in Nat \ {0} : n = count
        BY <3>0
      <4>2. n # 1
        BY <3>0, <4>1
      <4>3. n - 1 \in 1..(n - 1)
        BY <4>2
      <4> QED BY <3>0, <4>1, <4>3
    <3> QED BY <1>4, <1>5, <2>1, <3>1
  <2>2. CASE k # l
    <3>1. Top(k) \in Blocks /\ owner[Top(k)] = k /\ Top(k)' = Top(k)
      BY <1>1, <2>2 DEF Threaded
    <3>2. Top(k) \notin New
      BY <1>1, <3>1 DEF New
    <3> QED BY <1>6, <3>1, <3>2
  <2> QED BY <2>1, <2>2
<1>10. ASSUME NEW b \in Blocks, joined[b] # NoLane PROVE Linked(joined, place, b)'
  <2>1. CASE b \in New
    <3>0. b[2] \in 1..(count - 1) /\ count \in Nat \ {0}
      BY <1>1, <1>4, <2>1
    <3>1. count - 1 \in 1..(count - 1) /\ count # 1
      BY <3>0
    <3>2. /\ Top(l)' = <<s, count - 1>> /\ <<s, count - 1>> \in New
          /\ <<s, count - 1>>[2] = count - 1
      BY <1>5, <3>1
    <3>3. place[<<s, count - 1>>] = count - 1 - 1
      BY <1>4, <3>2
    <3>4. place[b] = b[2] - 1 /\ b[2] \in 1..(count - 1) /\ joined[b] = l /\ held'[b] = Null
      BY <1>4, <2>1
    <3>5. Top(l)' # Null /\ place[b] <= place[Top(l)']
      <4>1. <<s, count - 1>> # Null
        BY <1>1, <1>4, <3>2
      <4>2. b[2] - 1 <= count - 1 - 1
        BY <3>0
      <4> QED BY <3>2, <3>3, <3>4, <4>1, <4>2
    <3>6. CASE b[2] = 1
      <4>1. word'[b] = Null
        BY <1>4, <2>1, <3>6
      <4>2. place[b] = 0
        BY <3>4, <3>6
      <4> QED BY <3>4, <3>5, <4>1, <4>2 DEF Linked
    <3>7. CASE b[2] # 1
      <4>0. b[2] - 1 \in 1..(count - 1) /\ b[2] - 1 # 0
        BY <3>0, <3>7
      <4>1. b[2] - 1 \in 1..(count - 1) /\ word'[b] = <<s, b[2] - 1>> /\ place[b] # 0
        BY <1>4, <2>1, <3>4, <3>7, <4>0
      <4>2. <<s, b[2] - 1>> \in New /\ <<s, b[2] - 1>>[2] = b[2] - 1
        BY <1>5, <4>1
      <4>3. /\ word'[b] \in Blocks /\ joined[word'[b]] = l
            /\ place[word'[b]] = b[2] - 1 - 1
        BY <1>4, <4>1, <4>2
      <4> QED BY <3>4, <3>5, <4>1, <4>3 DEF Linked
    <3> QED BY <3>6, <3>7
  <2>2. CASE b \notin New
    <3>1. joined[b] = owner[b] /\ place[b] = rank[b] /\ owner[b] # NoLane
      BY <1>6, <1>10, <2>2
    <3>2. /\ word'[b] = word[b] /\ held'[b] = held[b] /\ owner[b] \in Lanes
          /\ Linked(owner, rank, b) /\ owner[b] # l
      BY <1>7, <2>2, <3>1
    <3>3. \A a \in Blocks : owner[a] = owner[b] => joined[a] = owner[a] /\ place[a] = rank[a]
      BY <1>6, <3>1 DEF New
    <3>4. Top(joined[b])' = Top(owner[b]) /\ Top(owner[b]) # Null /\ Top(owner[b]) \in Blocks
          /\ owner[Top(owner[b])] = owner[b]
      BY <1>1, <3>1, <3>2 DEF Linked, Threaded
    <3>5. place[b] <= place[Top(joined[b])']
      BY <3>1, <3>2, <3>3, <3>4 DEF Linked
    <3>6. place[b] # 0 => /\ word'[b] \in Blocks /\ joined[word'[b]] = joined[b]
                          /\ place[word'[b]] = place[b] - 1
      <4> SUFFICES ASSUME place[b] # 0
                   PROVE  /\ word'[b] \in Blocks /\ joined[word'[b]] = joined[b]
                          /\ place[word'[b]] = place[b] - 1
        OBVIOUS
      <4>1. word[b] \in Blocks /\ owner[word[b]] = owner[b] /\ rank[word[b]] = rank[b] - 1
        BY <3>1, <3>2 DEF Linked
      <4> QED BY <3>1, <3>2, <3>3, <4>1
    <3>7. place[b] = 0 => word'[b] = Null
      BY <3>1, <3>2 DEF Linked
    <3>8. held'[b] = Null
      BY <3>2 DEF Linked
    <3> QED BY <3>4, <3>5, <3>6, <3>7, <3>8 DEF Linked
  <2> QED BY <2>1, <2>2
<1>11. ASSUME NEW a \in Blocks, NEW b \in Blocks, joined[a] # NoLane, joined[a] = joined[b],
              place[a] = place[b]
       PROVE  a = b
  <2>1. CASE a \in New /\ b \in New
    <3>1. /\ a = <<s, a[2]>> /\ a[2] \in 1..(count - 1) /\ place[a] = a[2] - 1
          /\ b = <<s, b[2]>> /\ b[2] \in 1..(count - 1) /\ place[b] = b[2] - 1
      BY <1>4, <2>1
    <3>2. a[2] = b[2]
      <4>1. a[2] - 1 = b[2] - 1 /\ a[2] \in Int /\ b[2] \in Int
        BY <1>11, <3>1
      <4> QED BY <4>1
    <3> QED BY <3>1, <3>2
  <2>2. CASE a \notin New /\ b \notin New
    BY <1>6, <1>11, <2>2 DEF Threaded
  <2>3. CASE a \in New /\ b \notin New
    BY <1>4, <1>6, <1>7, <1>11, <2>3
  <2>4. CASE b \in New /\ a \notin New
    BY <1>4, <1>6, <1>7, <1>11, <2>4
  <2> QED BY <2>1, <2>2, <2>3, <2>4
<1> QED BY <1>8, <1>9, <1>10, <1>11 DEF Threaded

\* Which blocks are met on a list.
LEMMA ChainIs ==
  ASSUME Types, NEW owner \in [Blocks -> Lanes \cup {NoLane}], NEW rank \in [Blocks -> Nat],
         Threaded(owner, rank), NEW l \in Lanes
  PROVE  Follow(word, Top(l)) = {b \in Blocks : owner[b] = l} \cup {Null}
<1> DEFINE S == {b \in Blocks : owner[b] = l}
<1>1. NoLane \notin Lanes /\ Top(l) \in Blocks \cup {Null}
  BY LanesOfLists
<1>2. Top(l) # Null => Top(l) \in S
  BY <1>1 DEF Threaded
<1>3. ASSUME NEW b \in S
      PROVE  /\ Top(l) # Null /\ rank[b] <= rank[Top(l)]
             /\ IF rank[b] = 0 THEN word[b] = Null
                ELSE word[b] \in S /\ rank[word[b]] = rank[b] - 1
  <2>1. Linked(owner, rank, b)
    BY <1>1 DEF Threaded
  <2> QED BY <2>1 DEF Linked
<1>4. \A a, b \in S : rank[a] = rank[b] => a = b
  BY <1>1 DEF Threaded
<1>5. S \in SUBSET Blocks
  OBVIOUS
<1> HIDE DEF S
<1>6. Follow(word, Top(l)) = S \cup {Null}
  BY <1>1, <1>2, <1>3, <1>4, <1>5, FollowList
<1> QED BY <1>6 DEF S

-----------------------------------------------------------------------------
(* The invariant is inductive.                                             *)

\* Steps after which no block is held or listed that was not, or the other way round.
LEMMA AllThereFrame ==
  ASSUME NEW owner, NEW left, AllThere(owner), UNCHANGED <<Base, ClassOf>>,
         Facts, stranded \subseteq stranded',
         \A b \in Blocks :
           \/ held'[b] = held[b] /\ left[b] = owner[b]
           \/ /\ held[b] # Null \/ owner[b] # NoLane
              /\ held'[b] # Null \/ left[b] # NoLane \/ b \in stranded'
  PROVE  AllThere(left)'
<1>1. Entered' = Entered
  BY DEF Entered
<1>2. \A i \in Entered : Split(Base[i], ClassOf[i]) \subseteq Blocks
  <2> SUFFICES ASSUME NEW i \in Entered PROVE Split(Base[i], ClassOf[i]) \subseteq Blocks
    OBVIOUS
  <2>1. Base[i] \in Slabs /\ ClassOf[i] \in Classes
    BY DEF Entered, Facts, Types, TableKept
  <2> QED BY <2>1, SplitInBlocks
<1>3. ASSUME NEW b \in Blocks, held'[b] # Null \/ left[b] # NoLane
      PROVE  \E i \in Indices : Base'[i] = b[1]
  BY <1>3 DEF AllThere
<1>4. ASSUME NEW i \in Entered, NEW b \in Split(Base[i], ClassOf[i])
      PROVE  held'[b] # Null \/ b \in stranded' \/ left[b] # NoLane
  <2>1. b \in Blocks /\ (held[b] # Null \/ b \in stranded \/ owner[b] # NoLane)
    BY <1>2 DEF AllThere
  <2> QED BY <2>1
<1>5. \A i \in Entered' : \A b \in Split(Base'[i], ClassOf'[i]) :
        held'[b] # Null \/ b \in stranded' \/ left[b] # NoLane
  <2>1. Base' = Base /\ ClassOf' = ClassOf
    OBVIOUS
  <2> QED BY <1>1, <1>4, <2>1
<1> QED BY <1>3, <1>5, <1>1 DEF AllThere, Split

Free == \E owner \in [Blocks -> Lanes \cup {NoLane}], rank \in [Blocks -> Nat] :
  Threaded(owner, rank) /\ AllThere(owner)

LEMMA FreeStep ==
  ASSUME Facts, Free, [Next]_vars
  PROVE  Free'
<1> USE DEF Facts
<1>0. PICK owner \in [Blocks -> Lanes \cup {NoLane}], rank \in [Blocks -> Nat] :
        Threaded(owner, rank) /\ AllThere(owner)
  BY DEF Free
<1>1. NoLane \notin Lanes /\ Null \notin Blocks /\ Null \notin Classes
      /\ \A l \in Lanes : Top(l) \in Blocks \cup {Null}
  BY LanesOfLists
<1>2. \A l \in Lanes : /\ l[1] \in Threads /\ l[2] \in Classes /\ l = <<l[1], l[2]>>
                       /\ Top(l) = Lists(l[1])[l[2]] /\ Top(l)' = Lists(l[1])'[l[2]]
  BY DEF Lanes, Top
<1>3. \A t \in Threads, c \in Classes : <<t, c>> \in Lanes /\ Top(<<t, c>>) = Lists(t)[c]
  BY DEF Lanes, Top
<1>4. \A b \in Blocks : owner[b] # NoLane => owner[b] \in Lanes
  OBVIOUS
\* The free lists stay as they are.
<1>5. ASSUME UNCHANGED <<Base, ClassOf, word, held, stranded>>,
             \A t \in Threads : Lists(t)' = Lists(t)
      PROVE  Free'
  <2>1. \A l \in Lanes : Top(l)' = Top(l)
    BY <1>2, <1>5
  <2>2. Threaded(owner, rank)'
    BY <1>0, <1>4, <1>5, <2>1, ThreadedFrame
  <2>3. AllThere(owner)'
    BY <1>0, <1>5, AllThereFrame
  <2> QED BY <2>2, <2>3 DEF Free
<1>6. ASSUME UNCHANGED <<Base, ClassOf, Generation, caches>> PROVE Free'
  <2>1. \A t \in Threads : Lists(t)' = Lists(t)
    BY <1>6 DEF caches, Lists
  <2> QED BY <1>5, <1>6, <2>1 DEF caches
<1>a. CASE Initialize \/ Shutdown
  <2>1. PICK on \in BOOLEAN : Release(on)
    BY <1>a DEF Initialize, Shutdown
  <2>2. /\ Generation' = NextGeneration /\ UNCHANGED <<FreeLists, CacheGeneration>>
        /\ held' = [b \in Blocks |-> Null] /\ Quiescent
        /\ Base' = [i \in Indices |-> IF i \in Registered THEN Null ELSE Base[i]]
    BY <2>1 DEF Release
  <2>3. Registered = Entered
    BY <2>2, QuiescentTable
  <2>4. Entered' = {}
    BY <2>2, <2>3 DEF Entered
  <2>5. \A t \in Threads : CacheGeneration'[t] # Generation'
    <3>1. GenerationsKept' /\ starts' = starts + 1
      BY <2>1, GenerationsStep DEF Release
    <3> QED BY <2>2, <3>1 DEF GenerationsKept, Types
  <2>6. \A t \in Threads : Lists(t)' = EmptyLists
    BY <2>5 DEF Lists
  <2>7. \A l \in Lanes : Top(l)' = Null
    BY <1>2, <2>6 DEF EmptyLists
  <2> DEFINE left == [b \in Blocks |-> NoLane]
  <2>8. left \in [Blocks -> Lanes \cup {NoLane}] /\ \A b \in Blocks : left[b] = NoLane
    OBVIOUS
  <2> HIDE DEF left
  <2>9. Threaded(left, rank)'
    BY <2>7, <2>8 DEF Threaded
  <2>10. AllThere(left)'
    BY <2>2, <2>4, <2>8 DEF AllThere
  <2> QED BY <2>8, <2>9, <2>10 DEF Free
<1>b. ASSUME NEW t \in Threads, NEW c \in Classes, AllocateCached(t, c) PROVE Free'
  <2> DEFINE l == <<t, c>>
             p == Top(l)
  <2>1. l \in Lanes /\ p = Lists(t)[c] /\ p # Null /\ p \in Blocks /\ l[2] = c /\ l[1] = t
    BY <1>b, <1>1, <1>3 DEF AllocateCached
  <2>2. /\ FreeLists' = [FreeLists EXCEPT ![t] = [Lists(t) EXCEPT ![c] = word[p]]]
        /\ held' = [held EXCEPT ![p] = c]
        /\ word' = [word EXCEPT ![p] = Garbage]
        /\ CacheGeneration' = [CacheGeneration EXCEPT ![t] = Generation]
        /\ UNCHANGED <<Generation, Base, ClassOf, stranded>>
    BY <1>b, <2>1 DEF AllocateCached, globals, table
  <2>3. /\ Lists(t)' = [Lists(t) EXCEPT ![c] = word[p]]
        /\ \A u \in Threads : u # t => Lists(u)' = Lists(u)
    BY <2>2, NewLists DEF Types
  <2>4. Top(l)' = word[p]
    BY <1>2, <2>1, <2>3, ListsType
  <2>5. \A k \in Lanes : k # l => Top(k)' = Top(k)
    <3> SUFFICES ASSUME NEW k \in Lanes, k # l PROVE Top(k)' = Top(k)
      OBVIOUS
    <3>1. k[1] # t \/ k[2] # c
      BY <1>2
    <3> QED BY <1>2, <2>3, <3>1, ListsType
  <2> DEFINE leftNow == [owner EXCEPT ![p] = NoLane]
  <2>6. PICK left : left = leftNow
    OBVIOUS
  <2>7. left \in [Blocks -> Lanes \cup {NoLane}]
    BY <2>6
  <2>8. \A b \in Blocks : b # p => left[b] = owner[b]
    BY <2>6
  <2>9. owner[p] = l
    BY <1>0, <2>1 DEF Threaded
  <2> HIDE DEF l
  <2>10. Threaded(left, rank)'
    BY <1>0, <2>1, <2>2, <2>4, <2>5, <2>6, PopKeeps
  <2>11. \A b \in Blocks :
           \/ held'[b] = held[b] /\ left[b] = owner[b]
           \/ /\ held[b] # Null \/ owner[b] # NoLane
              /\ held'[b] # Null \/ left[b] # NoLane \/ b \in stranded'
    BY <1>1, <2>1, <2>2, <2>8, <2>9 DEF Types
  <2>12. AllThere(left)'
    BY <1>0, <2>2, <2>11, AllThereFrame
  <2> QED BY <2>7, <2>10, <2>12 DEF Free
<1>c. ASSUME NEW t \in Threads, NEW c \in Classes, AllocateRefill(t, c) PROVE Free'
  <2>1. /\ FreeLists' = [FreeLists EXCEPT ![t] = Lists(t)]
        /\ CacheGeneration' = [CacheGeneration EXCEPT ![t] = Generation]
        /\ UNCHANGED <<Generation, Base, ClassOf, word, held, stranded>>
    BY <1>c DEF AllocateRefill, globals, table
  <2>2. \A u \in Threads : Lists(u)' = Lists(u)
    BY <2>1, NewLists DEF Types
  <2> QED BY <1>5, <2>1, <2>2
<1>d. ASSUME NEW t \in Threads, NEW p \in Blocks, FreeSmallBlock(t, p) PROVE Free'
  <2> DEFINE c == held[p]
             l == <<t, c>>
  <2>1. l \in Lanes /\ c \in Classes /\ held[p] # Null /\ l[1] = t /\ l[2] = c
        /\ Top(l) = Lists(t)[c]
    BY <1>d, <1>3 DEF FreeSmallBlock, Types
  <2>2. /\ FreeLists' = [FreeLists EXCEPT ![t] = [Lists(t) EXCEPT ![c] = p]]
        /\ held' = [held EXCEPT ![p] = Null]
        /\ word' = [word EXCEPT ![p] = Top(l)]
        /\ CacheGeneration' = [CacheGeneration EXCEPT ![t] = Generation]
        /\ UNCHANGED <<Generation, Base, ClassOf, stranded>>
    BY <1>d, <2>1 DEF FreeSmallBlock, globals, table
  <2>3. /\ Lists(t)' = [Lists(t) EXCEPT ![c] = p]
        /\ \A u \in Threads : u # t => Lists(u)' = Lists(u)
    BY <2>2, NewLists DEF Types
  <2>4. \A k \in Lanes : Top(k)' = IF k = l THEN p ELSE Top(k)
    <3> SUFFICES ASSUME NEW k \in Lanes PROVE Top(k)' = IF k = l THEN p ELSE Top(k)
      OBVIOUS
    <3>1. k # l => k[1] # t \/ k[2] # c
      BY <1>2
    <3> QED BY <1>2, <2>1, <2>3, <3>1, ListsType
  <2>5. PICK lane : lane = l
    OBVIOUS
  <2>6. PICK joined : joined = [owner EXCEPT ![p] = lane]
    OBVIOUS
  <2>7. PICK place :
          place = [rank EXCEPT ![p] = IF Top(lane) = Null THEN 0 ELSE rank[Top(lane)] + 1]
    OBVIOUS
  <2>8. joined \in [Blocks -> Lanes \cup {NoLane}]
        /\ \A b \in Blocks : b # p => joined[b] = owner[b]
    BY <2>1, <2>5, <2>6
  <2>9. /\ lane \in Lanes /\ Top(lane)' = p /\ joined[p] = lane
        /\ word' = [word EXCEPT ![p] = Top(lane)]
        /\ \A k \in Lanes : k # lane => Top(k)' = Top(k)
    BY <2>1, <2>2, <2>4, <2>5, <2>6
  <2> HIDE DEF l, c
  <2>10. Threaded(joined, place)' /\ place \in [Blocks -> Nat]
    <3>1. word' = [word EXCEPT ![p] = Top(lane)] /\ held' = [held EXCEPT ![p] = Null]
          /\ Types /\ Threaded(owner, rank) /\ lane \in Lanes /\ held[p] # Null
      BY <1>0, <2>1, <2>2, <2>9
    <3>2. Top(lane)' = p /\ \A k \in Lanes : k # lane => Top(k)' = Top(k)
      BY <2>9
    <3> QED BY <2>6, <2>7, <3>1, <3>2, PushKeeps
  <2>11. \A b \in Blocks :
           \/ held'[b] = held[b] /\ joined[b] = owner[b]
           \/ /\ held[b] # Null \/ owner[b] # NoLane
              /\ held'[b] # Null \/ joined[b] # NoLane \/ b \in stranded'
    <3>1. joined[p] # NoLane /\ held[p] # Null
      BY <1>1, <2>1, <2>9
    <3>2. \A b \in Blocks : b # p => held'[b] = held[b]
      BY <2>2 DEF Types
    <3> QED BY <2>8, <3>1, <3>2
  <2>12. AllThere(joined)'
    BY <1>0, <2>2, <2>11, AllThereFrame
  <2> QED BY <2>8, <2>10, <2>12 DEF Free
<1>e. ASSUME NEW t \in Threads, ThreadEnds(t) PROVE Free'
  <2> DEFINE Dropped == {l \in Lanes : l[1] = t}
  <2>1. /\ stranded' = stranded \cup Cached(t)
        /\ FreeLists' = [FreeLists EXCEPT ![t] = EmptyLists]
        /\ CacheGeneration' = [CacheGeneration EXCEPT ![t] = 0]
        /\ UNCHANGED <<Generation, Base, ClassOf, word, held>>
    BY <1>e DEF ThreadEnds, globals, table
  <2>2. \A u \in Threads : Lists(u)' = IF u = t THEN EmptyLists ELSE Lists(u)
    BY <2>1 DEF Lists, Types
  <2>3. \A l \in Lanes : Top(l)' = IF l \in Dropped THEN Null ELSE Top(l)
    BY <1>2, <2>2 DEF EmptyLists
  <2>4. PICK left : left = [b \in Blocks |-> IF owner[b] \in Dropped THEN NoLane ELSE owner[b]]
    OBVIOUS
  <2>5. left \in [Blocks -> Lanes \cup {NoLane}]
    BY <2>4
  <2>6. Threaded(left, rank)'
    <3>1. Dropped \in SUBSET Lanes
      OBVIOUS
    <3> HIDE DEF Dropped
    <3> QED BY <1>0, <2>1, <2>3, <2>4, <3>1, DropKeeps
  <2>7. ASSUME NEW b \in Blocks, owner[b] \in Dropped PROVE b \in stranded'
    <3>1. owner[b] \in Lanes /\ owner[b][1] = t /\ owner[b][2] \in Classes
          /\ Top(owner[b]) = Lists(t)[owner[b][2]]
      BY <1>2, <2>7
    <3>2. b \in Follow(word, Top(owner[b]))
      BY <1>0, <3>1, ChainIs
    <3>3. b \in OnList(t, owner[b][2])
      BY <3>1, <3>2 DEF OnList
    <3> QED BY <2>1, <3>1, <3>3 DEF Cached
  <2>8. AllThere(left)'
    <3>1. \A b \in Blocks :
            \/ held'[b] = held[b] /\ left[b] = owner[b]
            \/ /\ held[b] # Null \/ owner[b] # NoLane
               /\ held'[b] # Null \/ left[b] # NoLane \/ b \in stranded'
      BY <1>1, <2>1, <2>4, <2>7
    <3>2. stranded \subseteq stranded'
      BY <2>1
    <3> QED BY <1>0, <2>1, <3>1, <3>2, AllThereFrame
  <2> QED BY <2>5, <2>6, <2>8 DEF Free
<1>f. ASSUME NEW t \in Threads, NEW s \in Slabs, BackendAllocates(t, s) PROVE Free'
  BY <1>f, <1>6 DEF BackendAllocates, globals, table
<1>g. ASSUME NEW t \in Threads, BackendFails(t) \/ ReturnSlab(t) PROVE Free'
  BY <1>g, <1>6 DEF BackendFails, ReturnSlab, globals, table
<1>h. ASSUME NEW t \in Threads, RegisterSlab(t) \/ Unregister(t) PROVE Free'
  BY <1>h, <1>6 DEF RegisterSlab, Unregister, globals
<1>k. ASSUME NEW t \in Threads, RefillThreadCache(t) PROVE Free'
  <2> DEFINE count == BlocksIn[class[t]]
             below(n) == IF n = 1 THEN Null ELSE <<slab[t], n - 1>>
             l == <<t, class[t]>>
  <2>1. /\ pc[t] = "Write" /\ t \in Writing /\ t \in Refilling
        /\ Base' = [Base EXCEPT ![index[t]] = slab[t]]
        /\ ClassOf' = [ClassOf EXCEPT ![index[t]] = class[t]]
        /\ word' = [b \in Blocks |->
                      IF b \notin Split(slab[t], class[t]) THEN word[b]
                      ELSE IF b[2] = count THEN Garbage
                      ELSE below(b[2])]
        /\ FreeLists' = [FreeLists EXCEPT ![t][class[t]] = below(count)]
        /\ held' = [held EXCEPT ![<<slab[t], count>>] = class[t]]
        /\ UNCHANGED <<Generation, CacheGeneration, stranded>>
    BY <1>k DEF RefillThreadCache, Writing, Refilling, globals
  <2>2. /\ class[t] \in Classes /\ CacheGeneration[t] = Generation
        /\ FreeLists[t][class[t]] = Null /\ Lists(t) = FreeLists[t]
    BY <2>1 DEF GenerationsKept, Lists
  <2>3. /\ slab[t] \in Slabs /\ \A i \in Indices : Base[i] # slab[t]
    BY <2>1 DEF SlabsKept
  <2>4. index[t] \in Indices /\ Base[index[t]] = Null
    BY <2>1 DEF TableKept
  <2>5. l \in Lanes /\ Top(l) = Null /\ l[1] = t /\ l[2] = class[t]
    BY <1>3, <2>2
  <2>6. /\ Lists(t)' = [FreeLists[t] EXCEPT ![class[t]] = below(count)]
        /\ \A u \in Threads : u # t => Lists(u)' = Lists(u)
    BY <2>1, <2>2 DEF Lists, Types
  <2>7. \A k \in Lanes : Top(k)' = IF k = l THEN below(count) ELSE Top(k)
    <3> SUFFICES ASSUME NEW k \in Lanes PROVE Top(k)' = IF k = l THEN below(count) ELSE Top(k)
      OBVIOUS
    <3>1. k # l => k[1] # t \/ k[2] # class[t]
      BY <1>2
    <3>2. FreeLists[t] \in [Classes -> Blocks \cup {Null}]
      BY DEF Types
    <3> HIDE DEF below, count
    <3> QED BY <1>2, <2>2, <2>5, <2>6, <3>1, <3>2
  <2>8. PICK s, c, n, lane : s = slab[t] /\ c = class[t] /\ n = count /\ lane = l
    <3> HIDE DEF count, l
    <3> QED OBVIOUS
  <2>9. \A b \in Split(s, c) : b \in Blocks /\ b[1] = s
    BY <2>2, <2>3, <2>8, SplitInBlocks DEF Split
  <2>10. \A b \in Split(s, c) : held[b] = Null /\ owner[b] = NoLane
    BY <1>0, <2>3, <2>8, <2>9 DEF AllThere
  <2>11. PICK joined : joined = Joined(owner, lane, s, c, n)
    OBVIOUS
  <2>12. PICK place : place = Placed(rank, s, c, n)
    OBVIOUS
  <2>13. /\ word' = Links(s, c, n)
         /\ held' = [held EXCEPT ![<<s, n>>] = c]
         /\ s \in Slabs /\ c \in Classes /\ lane \in Lanes /\ Top(lane) = Null /\ n = BlocksIn[c]
         /\ Top(lane)' = IF n = 1 THEN Null ELSE <<s, n - 1>>
         /\ \A k \in Lanes : k # lane => Top(k)' = Top(k)
    BY <2>1, <2>2, <2>3, <2>5, <2>7, <2>8 DEF Links
  <2>14. /\ joined \in [Blocks -> Lanes \cup {NoLane}] /\ place \in [Blocks -> Nat]
         /\ Threaded(joined, place)'
    <3>1. Types /\ Threaded(owner, rank) /\ s \in Slabs /\ c \in Classes /\ n = BlocksIn[c]
          /\ lane \in Lanes /\ Top(lane) = Null
      BY <1>0, <2>13
    <3>2. /\ Top(lane)' = IF n = 1 THEN Null ELSE <<s, n - 1>>
          /\ \A k \in Lanes : k # lane => Top(k)' = Top(k)
      BY <2>13
    <3>3. word' = Links(s, c, n) /\ held' = [held EXCEPT ![<<s, n>>] = c]
      BY <2>13
    <3> HIDE DEF Facts
    <3> QED BY <2>10, <2>11, <2>12, <3>1, <3>2, <3>3, RefillKeeps
  <2> HIDE DEF count, below, l
  <2>15. /\ Base'[index[t]] = s /\ ClassOf'[index[t]] = c
         /\ \A i \in Indices : i # index[t] => Base'[i] = Base[i] /\ ClassOf'[i] = ClassOf[i]
    BY <2>1, <2>4, <2>8 DEF Types
  <2>16. <<s, n>> \in Blocks /\ <<s, n>>[1] = s /\ <<s, n>> \in Split(s, c)
    <3>1. n \in Nat \ {0}
      BY <2>13, BlocksInAssumption
    <3>2. n \in 1..n
      BY <3>1
    <3>3. <<s, n>> \in Split(s, c)
      BY <2>13, <3>2 DEF Split
    <3> QED BY <2>9, <3>3
  <2>17. /\ held'[<<s, n>>] = c /\ c # Null
         /\ \A b \in Blocks : b # <<s, n>> => held'[b] = held[b]
    BY <1>1, <2>13, <2>16 DEF Types
  <2>18. ASSUME NEW b \in Blocks, held'[b] # Null \/ joined[b] # NoLane
         PROVE  \E i \in Indices : Base'[i] = b[1]
    <3>1. CASE b \in Split(s, c)
      BY <2>4, <2>9, <2>15, <3>1
    <3>2. CASE b \notin Split(s, c)
      <4>1. held[b] # Null \/ owner[b] # NoLane
        BY <2>11, <2>16, <2>17, <2>18, <3>2 DEF Joined
      <4>2. PICK i \in Indices : Base[i] = b[1]
        BY <1>0, <4>1 DEF AllThere
      <4>3. b[1] # Null
        BY <4>2, NullAssumption DEF Blocks, Split
      <4>4. i # index[t]
        BY <2>4, <4>2, <4>3
      <4> QED BY <2>15, <4>2, <4>4
    <3> QED BY <3>1, <3>2
  <2>19. ASSUME NEW i \in Entered', NEW b \in Split(Base'[i], ClassOf'[i])
         PROVE  held'[b] # Null \/ b \in stranded' \/ joined[b] # NoLane
    <3>1. i \in Indices /\ Base'[i] # Null
      BY DEF Entered
    <3>2. CASE i = index[t]
      <4>1. b \in Split(s, c)
        BY <2>15, <3>2
      <4>2. b \in Blocks /\ b = <<s, b[2]>>
        BY <2>9, <4>1 DEF Split
      <4>3. b[2] # n => joined[b] = lane
        BY <2>11, <4>1, <4>2 DEF Joined
      <4> QED BY <1>1, <2>13, <2>17, <4>2, <4>3
    <3>3. CASE i # index[t]
      <4>1. i \in Entered /\ b \in Split(Base[i], ClassOf[i]) /\ Base[i] # s
        BY <2>3, <2>8, <2>15, <3>1, <3>3 DEF Entered
      <4>2. Base[i] \in Slabs /\ ClassOf[i] \in Classes
        BY <3>1, <4>1 DEF Entered, Types, TableKept
      <4>3. b \in Blocks /\ b[1] # s
        BY <4>1, <4>2, SplitInBlocks DEF Split
      <4>4. b \notin Split(s, c) /\ b # <<s, n>>
        BY <2>9, <2>16, <4>3
      <4>5. held'[b] = held[b] /\ joined[b] = owner[b]
        BY <2>11, <2>17, <4>3, <4>4 DEF Joined
      <4>6. held[b] # Null \/ b \in stranded \/ owner[b] # NoLane
        BY <1>0, <4>1 DEF AllThere
      <4> QED BY <2>1, <4>5, <4>6
    <3> QED BY <3>2, <3>3
  <2>20. AllThere(joined)'
    BY <2>18, <2>19 DEF AllThere
  <2> QED BY <2>14, <2>20 DEF Free
<1>l. CASE UNCHANGED vars
  BY <1>l, <1>6 DEF vars, globals, table
<1> QED BY <1>a, <1>b, <1>c, <1>d, <1>e, <1>f, <1>g, <1>h, <1>k, <1>l DEF Next, Refill

LEMMA FreeInit == Init => Free
<1> SUFFICES ASSUME Init PROVE Free
  OBVIOUS
<1>1. PICK owner : owner = [b \in Blocks |-> NoLane]
  OBVIOUS
<1>2. PICK rank : rank = [b \in Blocks |-> 0]
  OBVIOUS
<1>3. \A l \in Lanes : Top(l) = Null
  <2> SUFFICES ASSUME NEW l \in Lanes PROVE Top(l) = Null
    OBVIOUS
  <2>1. l[1] \in Threads /\ l[2] \in Classes
    BY DEF Lanes
  <2> QED BY <2>1 DEF Init, Top, Lists, EmptyLists
<1>4. Threaded(owner, rank)
  BY <1>1, <1>3 DEF Threaded
<1>5. AllThere(owner)
  BY <1>1 DEF AllThere, Init, Entered
<1>6. owner \in [Blocks -> Lanes \cup {NoLane}] /\ rank \in [Blocks -> Nat]
  BY <1>1, <1>2
<1> QED BY <1>4, <1>5, <1>6 DEF Free

LEMMA FactsInit == Init => Facts
<1> SUFFICES ASSUME Init PROVE Facts
  OBVIOUS
<1>1. Types
  BY TypesInit
<1>2. Quiescent
  BY DEF Init, Quiescent
<1>3. Refilling = {} /\ Writing = {} /\ Unregistering = {}
  BY <1>2 DEF Quiescent, Refilling, Writing, Unregistering
<1>4. GenerationsKept
  <2>1. \A t \in Threads : CacheGeneration[t] = 0
    BY DEF Init
  <2> QED BY <1>2, <2>1 DEF GenerationsKept, Quiescent, Init
<1>5. Entered = {}
  BY DEF Init, Entered
<1>6. Reserved = 0
  BY <1>3, FS_EmptySet DEF Reserved, Init
<1>7. TableKept
  <2>1. Reserved \in 0..MaxSlabs /\ \A i \in Indices : ~(i < Reserved)
    BY <1>6, MaxSlabsAssumption DEF Indices
  <2> QED BY <1>3, <1>5, <2>1 DEF TableKept, Entered
<1>8. SlabsKept
  BY <1>3, <1>5 DEF SlabsKept, Init
<1> QED BY <1>1, <1>4, <1>7, <1>8 DEF Facts

\* What the bound of SlabCount in TypeOK rests on.
LEMMA FactsGiveTypeOK == Facts => TypeOK
<1> SUFFICES ASSUME Facts PROVE TypeOK
  OBVIOUS
<1>1. SlabCount \in 0..(MaxSlabs + Cardinality(Threads))
  <2>1. Cardinality(Threads) \in Nat
    BY FiniteAssumption, FS_CardinalityType
  <2>2. SlabCount = Reserved + Cardinality(Unregistering)
    BY UnregisteringFinite DEF Reserved, Facts, Types
  <2> QED BY <2>1, <2>2, UnregisteringFinite, MaxSlabsAssumption DEF Facts, TableKept
<1>2. \A t \in Threads : pc[t] = "Write" => index[t] \in Indices
  BY DEF Facts, TableKept, Writing
<1> QED BY <1>1, <1>2 DEF Facts, Types, TypeOK

LEMMA IInvIs == IInv <=> Facts /\ Free
<1>1. TypeOK => Types
  <2>1. Cardinality(Threads) \in Nat
    BY FiniteAssumption, FS_CardinalityType
  <2> SUFFICES ASSUME TypeOK PROVE Types
    OBVIOUS
  <2>2. SlabCount \in Int
    BY <2>1, MaxSlabsAssumption DEF TypeOK
  <2> QED BY <2>2 DEF TypeOK, Types
<1> QED BY <1>1, FactsGiveTypeOK DEF IInv, Facts, Free

\* A head that is a block has a link in its word.
LEMMA HeadsAreLinked ==
  ASSUME Facts, Free
  PROVE  \A b \in Blocks, t \in Threads, c \in Classes :
           Lists(t)[c] = b => word[b] \in Blocks \cup {Null}
<1>1. PICK owner \in [Blocks -> Lanes \cup {NoLane}], rank \in [Blocks -> Nat] :
        Threaded(owner, rank)
  BY DEF Free
<1> SUFFICES ASSUME NEW b \in Blocks, NEW t \in Threads, NEW c \in Classes, Lists(t)[c] = b
             PROVE  word[b] \in Blocks \cup {Null}
  OBVIOUS
<1>2. <<t, c>> \in Lanes /\ Top(<<t, c>>) = b /\ b # Null /\ NoLane \notin Lanes
  BY LanesOfLists DEF Lanes, Top, Facts
<1>3. owner[b] # NoLane
  BY <1>1, <1>2 DEF Threaded
<1> QED BY <1>1, <1>3 DEF Threaded, Linked

LEMMA IInvStep ==
  ASSUME IInv, [Next]_vars
  PROVE  IInv'
<1>1. Facts /\ Free
  BY IInvIs
<1>2. Types'
  BY <1>1, HeadsAreLinked, TypesStep
<1>3. GenerationsKept' /\ TableKept' /\ SlabsKept'
  BY <1>1, GenerationsStep, TableStep, SlabsStep DEF Facts
<1>4. Facts'
  BY <1>2, <1>3 DEF Facts
<1>5. Free'
  BY <1>1, FreeStep
<1>6. TypeOK'
  BY <1>4, FactsGiveTypeOK, PTL
<1> QED BY <1>3, <1>5, <1>6 DEF IInv, Free

THEOREM Inductive == Spec => []IInv
<1>1. Init => IInv
  BY FactsInit, FreeInit, IInvIs
<1>2. IInv /\ [Next]_vars => IInv'
  BY IInvStep
<1> QED BY <1>1, <1>2, PTL DEF Spec
-----------------------------------------------------------------------------
(* What follows from it.                                                   *)

\* Every variable keeps to its type: SlabCount exceeds the table by no more than
\* one for each thread, and a thread that writes into s_Slabs has an index within
\* it, however many threads refill at once.
THEOREM TypesKept == Spec => []TypeOK
BY Inductive, PTL DEF IInv

\* PopBlock hands a block to one caller: the free lists share no block, hold none
\* that is in use, and end, although their links lie in memory their holders
\* wrote to and Initialize and Shutdown leave stale heads behind in the caches.
THEOREM BlocksHandedOutOnce == Spec => []HandedOutOnce
<1>1. ASSUME IInv PROVE HandedOutOnce
  <2>1. Facts /\ Free /\ Types
    BY <1>1, IInvIs DEF Facts
  <2>2. PICK owner \in [Blocks -> Lanes \cup {NoLane}], rank \in [Blocks -> Nat] :
          Threaded(owner, rank)
    BY <2>1 DEF Free
  <2> DEFINE chain == [l \in Threads \X Classes |-> Follow(word, Lists(l[1])[l[2]])]
  <2>3. \A l \in Lanes : chain[l] = {b \in Blocks : owner[b] = l} \cup {Null}
    <3> SUFFICES ASSUME NEW l \in Lanes
                 PROVE  Follow(word, Top(l)) = {b \in Blocks : owner[b] = l} \cup {Null}
      BY DEF Top, Lanes
    <3> QED BY <2>1, <2>2, ChainIs
  <2>4. NoLane \notin Lanes /\ Null \notin Blocks
    BY <2>1, LanesOfLists
  <2> HIDE DEF chain
  <2>5. ASSUME NEW l \in Lanes, NEW b \in chain[l] \cap Blocks
        PROVE  owner[b] = l /\ held[b] = Null
    <3>1. owner[b] = l /\ owner[b] # NoLane
      BY <2>3, <2>4
    <3> QED BY <2>2, <3>1 DEF Threaded, Linked
  <2>6. \A l \in Lanes :
          /\ \A b \in chain[l] \cap Blocks : held[b] = Null
          /\ \A k \in Lanes : k # l => chain[k] \cap chain[l] \cap Blocks = {}
          /\ Null \in chain[l]
    BY <2>3, <2>5
  <2> QED BY <2>6 DEF HandedOutOnce, chain, Lanes
<1> QED BY <1>1, Inductive, PTL

\* A block of a slab in s_Slabs is held, or found on some thread's free list, or
\* was left in the cache of a thread that ended.
THEOREM BlocksNotLost == Spec => []NoBlockLost
<1>1. ASSUME IInv PROVE NoBlockLost
  <2>1. Facts /\ Free /\ Types
    BY <1>1, IInvIs DEF Facts
  <2>2. PICK owner \in [Blocks -> Lanes \cup {NoLane}], rank \in [Blocks -> Nat] :
          Threaded(owner, rank) /\ AllThere(owner)
    BY <2>1 DEF Free
  <2> SUFFICES ASSUME NEW i \in Registered, NEW b \in Split(Base[i], ClassOf[i])
               PROVE  held[b] # Null \/ b \in stranded \/ \E t \in Threads : b \in Cached(t)
    BY DEF NoBlockLost
  <2>3. i \in Entered /\ Base[i] \in Slabs /\ ClassOf[i] \in Classes
    BY <2>1 DEF Registered, Entered, Facts, Types, TableKept
  <2>4. b \in Blocks
    BY <2>3, SplitInBlocks
  <2>5. CASE owner[b] # NoLane
    <3>1. owner[b] \in Lanes /\ owner[b][1] \in Threads /\ owner[b][2] \in Classes
      BY <2>4, <2>5 DEF Lanes
    <3>2. b \in Follow(word, Top(owner[b]))
      BY <2>1, <2>2, <2>4, <3>1, ChainIs
    <3>3. b \in OnList(owner[b][1], owner[b][2])
      BY <2>4, <3>2 DEF OnList, Top
    <3> QED BY <3>1, <3>3 DEF Cached
  <2> QED BY <2>2, <2>3, <2>5 DEF AllThere
<1> QED BY <1>1, Inductive, PTL

\* Between calls SlabCount counts the slabs in s_Slabs, which are the ones the
\* backend has handed out, each entered once: Shutdown returns them all.
THEOREM SlabsReturned == Spec => []SlabsAccounted
<1>1. ASSUME IInv PROVE SlabsAccounted
  <2>1. Facts
    BY <1>1, IInvIs
  <2> SUFFICES ASSUME Quiescent
               PROVE  /\ SlabCount = Cardinality(Registered)
                      /\ taken = {Base[i] : i \in Registered}
                      /\ \A i, j \in Registered : Base[i] = Base[j] => i = j
    BY DEF SlabsAccounted
  <2>2. /\ Registered = Entered /\ Refilling = {}
        /\ SlabCount \in 0..MaxSlabs /\ Entered = 0..(SlabCount - 1)
    BY <2>1, QuiescentTable
  <2>3. SlabCount = Cardinality(Registered)
    <3>1. SlabCount \in Nat
      BY <2>2, MaxSlabsAssumption
    <3>2. Cardinality(0..(SlabCount - 1)) = SlabCount
      BY <3>1, FirstNumbers
    <3> QED BY <2>2, <3>2
  <2> QED BY <2>1, <2>2, <2>3 DEF Facts, SlabsKept
<1> QED BY <1>1, Inductive, PTL
=============================================================================
