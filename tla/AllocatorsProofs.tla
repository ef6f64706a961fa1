--------------------------- MODULE AllocatorsProofs ---------------------------
(***************************************************************************)
(* Proofs about Allocators: the accounts are exact, the records truthful,  *)
(* and each block goes back to where it came from, whatever the threads    *)
(* do, when reallocations keep the pool and are tracked.                   *)
(***************************************************************************)
EXTENDS Allocators, CountingTheorems

(* The inductive invariant.                                                *)

\* What remains of a list of steps, from each of them on.
Remainder(steps, n) == SubSeq(steps, n, Len(steps))
Remainders(steps) == {Remainder(steps, n) : n \in 1..Len(steps)}

Steps ==
  {"Look", "Find", "Reserve", "Obtain", "Cancel", "Account", "Forget", "Track",
   "Untrack", "Release", "Measure", "Return"}

\* What a call can have still to do.
Todos(api) ==
  Remainders(AllocateSteps(api)) \cup Remainders(FreeSteps(api)) \cup {<<"Cancel">>}
  \cup IF api = "Heap" /\ Reallocates THEN Remainders(ReallocateSteps) ELSE {}

Calls ==
  [todo : Todos("Heap") \cup Todos("Default"), api : {"Heap", "Default"},
   pool : Pools, tracked : TrackFlags,
   old_pointer : Addresses \cup {Null}, old_size : Sizes \cup {0},
   pointer : Addresses \cup {Null}, size : Sizes \cup {0},
   found : BOOLEAN, mine : Requests \cup {None}]

\* The steps in a list, those from one of them on, and whether c has one to make.
Among(steps) == {steps[n] : n \in 1..Len(steps)}
AmongFrom(steps, n) == {steps[i] : i \in n..Len(steps)}
Due(c, step) == step \in Among(c.todo)

\* c has the block it was called with, and may still return it to its caller.
Keeping(c) == Due(c, "Obtain") \/ Due(c, "Release") \/ Due(c, "Cancel")

\* The block a call has to itself, and its size.
Held(c) == IF Keeping(c) THEN c.old_pointer ELSE c.pointer
HeldSize(c) == IF Keeping(c) THEN c.old_size ELSE c.size

\* What is recorded of a block that a call or a caller has.
RecordOf(size, pool) == [size |-> size, pool |-> pool]

\* The fields of a call agree with each other and with the steps it has to make.
CallOK(c) ==
  /\ c \in Calls
  /\ c.todo \in Todos(c.api)
  /\ (c.old_pointer = Null) <=> (c.old_size = 0)
  /\ (Keeping(c) /\ c.old_pointer # Null) =>
       c.mine \in Requests /\ c.mine.api = c.api /\ c.mine.pool = c.pool
  /\ Keeping(c) => c.pointer = Null
  /\ ~Keeping(c) => ((c.pointer = Null) <=> (c.size = 0))
  /\ (Due(c, "Track") /\ ~Due(c, "Look")) => c.size # 0
  /\ (Due(c, "Obtain") /\ c.old_pointer # Null) => Due(c, "Forget")
  /\ Due(c, "Release") => c.size = 0 /\ c.old_pointer # Null

\* The block and the record of a call that runs are its own.
CallKeeps(c) ==
  LET h == Held(c) IN
  h # Null =>
    /\ owned[h] = None
    /\ block[h] = HeldSize(c)
    /\ Route(c.api, HeldSize(c)) = Area[h]
    /\ live[h] = None \/ (~Keeping(c) /\ Due(c, "Track"))
         \/ live[h] = RecordOf(HeldSize(c), c.pool)
    /\ (Due(c, "Release") /\ ~Due(c, "Untrack")) => live[h] = None
    /\ (Due(c, "Obtain") /\ ~Due(c, "Look") /\ ~c.found) => live[h] = None
    /\ (~Keeping(c) /\ Due(c, "Track") /\ ~c.tracked) => live[h] = None

CallsSound == \A t \in Threads : ~Idle(t) => CallOK(call[t]) /\ CallKeeps(call[t])

\* No two calls have the same block.
CallsApart ==
  \A t, u \in Threads :
    (t # u /\ ~Idle(t) /\ ~Idle(u) /\ Held(call[t]) # Null) => Held(call[t]) # Held(call[u])

\* The blocks that callers have.
OwnersSound ==
  \A a \in Owned :
    /\ block[a] # 0
    /\ Route(owned[a].api, block[a]) = Area[a]
    /\ live[a] = None \/ live[a] = RecordOf(block[a], owned[a].pool)

\* The address concerns a call: it has the block there, or is to forget its record.
Has(c, a) == Held(c) = a \/ (c.found /\ Due(c, "Forget") /\ c.old_pointer = a)

\* Each record is of a block that somebody has, or is about to be removed.
RecordsKnown ==
  \A a \in Tracker!Tracked :
    \/ a \in Owned
    \/ \E t \in Threads : ~Idle(t) /\ Has(call[t], a)

\* What a call in progress contributes to each of the accounts.
Charge(c) ==
  IF Due(c, "Reserve") THEN c.old_size
  ELSE IF Due(c, "Account") \/ Due(c, "Cancel") THEN c.old_size + Growth(c)
  ELSE c.size

NetCharge(c) == IF Due(c, "Account") \/ Due(c, "Cancel") THEN c.old_size ELSE c.size
LiveCharge(c) == IF Due(c, "Measure") \/ Due(c, "Cancel") THEN c.old_size ELSE c.size

Charges(p) ==
  [t \in Threads |-> IF call[t] # NoCall /\ call[t].pool = p THEN Charge(call[t]) ELSE 0]
NetCharges(p) ==
  [t \in Threads |-> IF call[t] # NoCall /\ call[t].pool = p THEN NetCharge(call[t]) ELSE 0]
LiveCharges ==
  [t \in Threads |->
     IF call[t] # NoCall /\ call[t].api = "Heap" THEN LiveCharge(call[t]) ELSE 0]

\* ... and a block that a caller has.
BytesIn(p) ==
  [a \in Addresses |-> IF owned[a] # None /\ owned[a].pool = p THEN block[a] ELSE 0]
HeapBytes ==
  [a \in Addresses |-> IF owned[a] # None /\ owned[a].api = "Heap" THEN block[a] ELSE 0]

Balanced ==
  /\ \A p \in Pools :
       /\ CurrentBytes[p] = SumOver(Charges(p), Threads) + SumOver(BytesIn(p), Addresses)
       /\ NetBytes[p] = SumOver(NetCharges(p), Threads) + SumOver(BytesIn(p), Addresses)
  /\ CurrentLiveBytes = SumOver(LiveCharges, Threads) + SumOver(HeapBytes, Addresses)

\* Reallocations are tracked, and stay in the pool the block is in.
Orderly == Reallocates => KeepsPool /\ TrackFlags \subseteq {TRUE}

IInv ==
  /\ TypeOK
  /\ call \in [Threads -> Calls \cup {NoCall}]
  /\ CallsSound
  /\ CallsApart
  /\ OwnersSound
  /\ RecordsKnown
  /\ Balanced

-----------------------------------------------------------------------------
(* The order of the steps.                                                 *)

\* What remains of a list without its first step is what remains from the next.
LEMMA RemainderFacts ==
  ASSUME NEW steps \in Seq(Steps), NEW n \in 1..Len(steps),
         NEW s, s = Remainder(steps, n)
  PROVE  /\ s \in Seq(Steps) /\ s # <<>>
         /\ Head(s) = steps[n]
         /\ n < Len(steps) => Tail(s) = Remainder(steps, n + 1)
         /\ Among(s) = AmongFrom(steps, n)
         /\ Among(Tail(s)) = AmongFrom(steps, n + 1)
<1> DEFINE L == Len(steps)
<1>0. L \in Nat
  OBVIOUS
<1>1. s \in Seq(Steps) /\ Len(s) = L - n + 1 /\ \A i \in 1..Len(s) : s[i] = steps[n + i - 1]
  BY DEF Remainder
<1>a. n \in 1..L
  OBVIOUS
<1> HIDE DEF L
<1>2. s # <<>> /\ Head(s) = s[1] /\ s[1] = steps[n]
  <2>1. 1 \in 1..Len(s) /\ n + 1 - 1 = n
    BY <1>0, <1>1, <1>a
  <2>2. s # <<>>
    BY <2>1, <1>1, Len(<<>>) = 0
  <2> QED BY <2>1, <2>2, <1>1
<1>3. /\ Tail(s) \in Seq(Steps) /\ Len(Tail(s)) = L - n
      /\ \A i \in 1..(L - n) : Tail(s)[i] = s[i + 1]
  BY <1>0, <1>1, <1>2, <1>a
<1>4. \A i \in 1..(L - n) : Tail(s)[i] = steps[n + i]
  <2> TAKE i \in 1..(L - n)
  <2>1. i + 1 \in 1..Len(s) /\ n + (i + 1) - 1 = n + i
    BY <1>0, <1>1, <1>a
  <2> QED BY <2>1, <1>1, <1>3
<1>5. ASSUME n < L PROVE Tail(s) = SubSeq(steps, n + 1, L)
  <2> DEFINE r == SubSeq(steps, n + 1, L)
  <2>1. /\ r \in Seq(Steps) /\ Len(r) = L - n
        /\ \A i \in 1..(L - n) : r[i] = steps[n + i]
    BY <1>0, <1>5, <1>a DEF L
  <2> HIDE DEF r
  <2>2. Len(Tail(s)) = Len(r) /\ \A i \in 1..Len(r) : Tail(s)[i] = r[i]
    BY <2>1, <1>3, <1>4
  <2>3. Tail(s) = r
    BY <2>1, <2>2, <1>3
  <2> QED BY <2>3 DEF r
<1>6. Among(s) = {steps[i] : i \in n..L}
  <2>1. ASSUME NEW i \in 1..Len(s) PROVE s[i] \in {steps[j] : j \in n..L}
    <3>1. n + i - 1 \in n..L
      BY <1>0, <1>1, <1>a
    <3> QED BY <3>1, <1>1
  <2>2. ASSUME NEW j \in n..L PROVE steps[j] \in {s[i] : i \in 1..Len(s)}
    <3>1. j - n + 1 \in 1..Len(s) /\ n + (j - n + 1) - 1 = j
      BY <1>0, <1>1, <1>a
    <3> QED BY <3>1, <1>1
  <2> QED BY <2>1, <2>2, Zenon DEF Among
<1>7. Among(Tail(s)) = {steps[i] : i \in (n + 1)..L}
  <2>1. ASSUME NEW i \in 1..Len(Tail(s)) PROVE Tail(s)[i] \in {steps[j] : j \in (n + 1)..L}
    <3>1. n + i \in (n + 1)..L
      BY <1>0, <1>3, <1>a
    <3> QED BY <3>1, <1>3, <1>4
  <2>2. ASSUME NEW j \in (n + 1)..L PROVE steps[j] \in {Tail(s)[i] : i \in 1..Len(Tail(s))}
    <3>1. j - n \in 1..(L - n) /\ n + (j - n) = j
      BY <1>0, <1>3, <1>a
    <3> QED BY <3>1, <1>3, <1>4
  <2> QED BY <2>1, <2>2, Zenon DEF Among
<1> QED BY <1>1, <1>2, <1>5, <1>6, <1>7 DEF L, Remainder, AmongFrom

\* A list of different steps, from one of them on: the first is gone from the rest.
LEMMA RemainderOrder ==
  ASSUME NEW steps \in Seq(Steps), NEW n \in 1..Len(steps),
         \A i, j \in 1..Len(steps) : steps[i] = steps[j] => i = j,
         NEW s, s = Remainder(steps, n)
  PROVE  /\ Among(Tail(s)) = Among(s) \ {Head(s)}
         /\ \A i \in 1..Len(steps) : steps[i] \in Among(s) <=> i >= n
         /\ Among(s) \subseteq Among(steps)
<1>1. Head(s) = steps[n]
  BY RemainderFacts
<1>2. Among(s) = AmongFrom(steps, n)
  BY RemainderFacts
<1>3. Among(Tail(s)) = AmongFrom(steps, n + 1)
  BY RemainderFacts
<1>4. \A i : i \in n..Len(steps) <=> (i = n \/ i \in (n + 1)..Len(steps))
  OBVIOUS
<1>5. \A i \in (n + 1)..Len(steps) : steps[i] # steps[n]
  OBVIOUS
<1>6. \A i \in n..Len(steps) : i \in 1..Len(steps)
  OBVIOUS
<1>7. \A i \in 1..Len(steps) : i \in n..Len(steps) <=> i >= n
  OBVIOUS
<1>8. \A i \in 1..Len(steps) : steps[i] \in Among(s) <=> i >= n
  BY <1>2, <1>6, <1>7 DEF AmongFrom
<1>9. Among(Tail(s)) = Among(s) \ {Head(s)}
  BY <1>1, <1>2, <1>3, <1>4, <1>5 DEF AmongFrom
<1>10. Among(s) \subseteq Among(steps)
  BY <1>2, <1>6 DEF Among, AmongFrom
<1> QED BY <1>8, <1>9, <1>10

\* What the steps that a call of the api still has to make say of each other.
Ordered(api, s) ==
  /\ s # <<>>
  /\ Head(s) \in Among(s)
  /\ Among(Tail(s)) = Among(s) \ {Head(s)}
  /\ "Look" \in Among(s) => "Reserve" \in Among(s)
  /\ "Forget" \in Among(s) => api = "Heap" /\ Reallocates /\ "Track" \in Among(s)
  /\ "Reserve" \in Among(s) => "Obtain" \in Among(s)
  /\ "Obtain" \in Among(s) =>
       /\ "Account" \in Among(s) /\ "Track" \in Among(s)
       /\ {"Release", "Cancel", "Untrack", "Find"} \cap Among(s) = {}
       /\ api = "Heap" => "Measure" \in Among(s)
  /\ "Release" \in Among(s) =>
       /\ "Account" \in Among(s)
       /\ {"Obtain", "Cancel", "Forget", "Track", "Reserve", "Look"} \cap Among(s) = {}
       /\ api = "Heap" => "Measure" \in Among(s)
  /\ "Cancel" \in Among(s) => Among(s) = {"Cancel"}
  /\ "Find" \in Among(s) => "Untrack" \in Among(s)
  /\ "Untrack" \in Among(s) => "Release" \in Among(s)
  /\ "Measure" \in Among(s) => api = "Heap"
  /\ Head(s) = "Reserve" => "Look" \notin Among(s)
  /\ Head(s) = "Obtain" => "Reserve" \notin Among(s)
  /\ Head(s) \in {"Account", "Measure"} =>
       {"Reserve", "Obtain", "Release", "Cancel"} \cap Among(s) = {}
  /\ Head(s) = "Measure" => "Track" \notin Among(s) /\ "Account" \notin Among(s)
  /\ Head(s) \in {"Forget", "Track"} =>
       {"Reserve", "Obtain", "Release", "Cancel"} \cap Among(s) = {}
  /\ Head(s) = "Track" => "Forget" \notin Among(s)
  /\ Head(s) = "Release" => "Untrack" \notin Among(s)
  /\ Head(s) = "Return" => Among(s) = {"Return"}

\* The steps from one of them on, and those after it.
LEMMA RemainderIs ==
  ASSUME NEW steps \in Seq(Steps),
         \A i, j \in 1..Len(steps) : steps[i] = steps[j] => i = j,
         NEW s \in Remainders(steps)
  PROVE  \E n \in 1..Len(steps) :
           /\ s # <<>> /\ Head(s) = steps[n]
           /\ n < Len(steps) => Tail(s) \in Remainders(steps)
           /\ Among(Tail(s)) = Among(s) \ {Head(s)}
           /\ \A i \in 1..Len(steps) : steps[i] \in Among(s) <=> i >= n
           /\ Among(s) \subseteq Among(steps)
<1>1. PICK n \in 1..Len(steps) : s = Remainder(steps, n)
  BY DEF Remainders
<1>2. /\ s # <<>> /\ Head(s) = steps[n]
      /\ n < Len(steps) => Tail(s) = Remainder(steps, n + 1)
  BY <1>1, RemainderFacts
<1>3. /\ Among(Tail(s)) = Among(s) \ {Head(s)}
      /\ \A i \in 1..Len(steps) : steps[i] \in Among(s) <=> i >= n
      /\ Among(s) \subseteq Among(steps)
  BY <1>1, RemainderOrder
<1>4. n < Len(steps) => Tail(s) \in Remainders(steps)
  <2>1. n < Len(steps) => n + 1 \in 1..Len(steps)
    OBVIOUS
  <2> QED BY <2>1, <1>2 DEF Remainders
<1> QED BY <1>2, <1>3, <1>4

LEMMA HeapAllocateOrder ==
  ASSUME NEW s \in Remainders(AllocateSteps("Heap"))
  PROVE  /\ Ordered("Heap", s)
         /\ Head(s) # "Return" => Tail(s) \in Remainders(AllocateSteps("Heap"))
<1> DEFINE steps == AllocateSteps("Heap")
<1>1. steps = <<"Reserve", "Obtain", "Account", "Track", "Measure", "Return">>
  BY DEF AllocateSteps
<1>2. s \in Remainders(steps)
  OBVIOUS
<1> HIDE DEF steps
<1>3. steps \in Seq(Steps) /\ Len(steps) = 6
  <2>1. Len(steps) = 6
    BY <1>1
  <2>2. steps \in Seq(Steps)
    BY <1>1 DEF Steps
  <2> QED BY <2>1, <2>2
<1>4. /\ steps[1] = "Reserve" /\ steps[2] = "Obtain" /\ steps[3] = "Account"
      /\ steps[4] = "Track" /\ steps[5] = "Measure" /\ steps[6] = "Return"
  BY <1>1
<1>5. \A i, j \in 1..Len(steps) : steps[i] = steps[j] => i = j
  BY <1>3, <1>4
<1>6. PICK n \in 1..Len(steps) :
        /\ s # <<>> /\ Head(s) = steps[n]
        /\ n < Len(steps) => Tail(s) \in Remainders(steps)
        /\ Among(Tail(s)) = Among(s) \ {Head(s)}
        /\ \A i \in 1..Len(steps) : steps[i] \in Among(s) <=> i >= n
        /\ Among(s) \subseteq Among(steps)
  BY <1>2, <1>3, <1>5, RemainderIs
<1>7. Among(steps) = {"Reserve", "Obtain", "Account", "Track", "Measure", "Return"}
  BY <1>3, <1>4 DEF Among
<1>8. /\ "Reserve" \in Among(s) <=> 1 >= n
      /\ "Obtain" \in Among(s) <=> 2 >= n
      /\ "Account" \in Among(s) <=> 3 >= n
      /\ "Track" \in Among(s) <=> 4 >= n
      /\ "Measure" \in Among(s) <=> 5 >= n
      /\ "Return" \in Among(s) <=> 6 >= n
  BY <1>3, <1>4, <1>6
<1>9. n \in 1..6
  BY <1>3
<1>10. Head(s) = "Return" <=> n = 6
  BY <1>3, <1>4, <1>6, <1>9
<1>11. Ordered("Heap", s)
  BY <1>4, <1>6, <1>7, <1>8, <1>9 DEF Ordered
<1>12. Head(s) # "Return" => Tail(s) \in Remainders(steps)
  BY <1>3, <1>6, <1>9, <1>10
<1> QED BY <1>11, <1>12 DEF steps

LEMMA DefaultAllocateOrder ==
  ASSUME NEW s \in Remainders(AllocateSteps("Default"))
  PROVE  /\ Ordered("Default", s)
         /\ Head(s) # "Return" => Tail(s) \in Remainders(AllocateSteps("Default"))
<1> DEFINE steps == AllocateSteps("Default")
<1>1. steps = <<"Reserve", "Obtain", "Track", "Account", "Return">>
  BY DEF AllocateSteps
<1>2. s \in Remainders(steps)
  OBVIOUS
<1> HIDE DEF steps
<1>3. steps \in Seq(Steps) /\ Len(steps) = 5
  <2>1. Len(steps) = 5
    BY <1>1
  <2>2. steps \in Seq(Steps)
    BY <1>1 DEF Steps
  <2> QED BY <2>1, <2>2
<1>4. /\ steps[1] = "Reserve" /\ steps[2] = "Obtain" /\ steps[3] = "Track"
      /\ steps[4] = "Account" /\ steps[5] = "Return"
  BY <1>1
<1>5. \A i, j \in 1..Len(steps) : steps[i] = steps[j] => i = j
  BY <1>3, <1>4
<1>6. PICK n \in 1..Len(steps) :
        /\ s # <<>> /\ Head(s) = steps[n]
        /\ n < Len(steps) => Tail(s) \in Remainders(steps)
        /\ Among(Tail(s)) = Among(s) \ {Head(s)}
        /\ \A i \in 1..Len(steps) : steps[i] \in Among(s) <=> i >= n
        /\ Among(s) \subseteq Among(steps)
  BY <1>2, <1>3, <1>5, RemainderIs
<1>7. Among(steps) = {"Reserve", "Obtain", "Track", "Account", "Return"}
  BY <1>3, <1>4 DEF Among
<1>8. /\ "Reserve" \in Among(s) <=> 1 >= n
      /\ "Obtain" \in Among(s) <=> 2 >= n
      /\ "Track" \in Among(s) <=> 3 >= n
      /\ "Account" \in Among(s) <=> 4 >= n
      /\ "Return" \in Among(s) <=> 5 >= n
  BY <1>3, <1>4, <1>6
<1>9. n \in 1..5
  BY <1>3
<1>10. Head(s) = "Return" <=> n = 5
  BY <1>3, <1>4, <1>6, <1>9
<1>11. Ordered("Default", s)
  BY <1>4, <1>6, <1>7, <1>8, <1>9 DEF Ordered
<1>12. Head(s) # "Return" => Tail(s) \in Remainders(steps)
  BY <1>3, <1>6, <1>9, <1>10
<1> QED BY <1>11, <1>12 DEF steps

LEMMA ReallocateOrder ==
  ASSUME Reallocates, NEW s \in Remainders(ReallocateSteps)
  PROVE  /\ Ordered("Heap", s)
         /\ Head(s) # "Return" => Tail(s) \in Remainders(ReallocateSteps)
<1> DEFINE steps == ReallocateSteps
<1>1. steps = <<"Look", "Reserve", "Obtain", "Account", "Forget", "Track", "Measure", "Return">>
  BY DEF ReallocateSteps
<1>2. s \in Remainders(steps)
  OBVIOUS
<1> HIDE DEF steps
<1>3. steps \in Seq(Steps) /\ Len(steps) = 8
  <2>1. Len(steps) = 8
    BY <1>1
  <2>2. steps \in Seq(Steps)
    BY <1>1 DEF Steps
  <2> QED BY <2>1, <2>2
<1>4. /\ steps[1] = "Look" /\ steps[2] = "Reserve" /\ steps[3] = "Obtain"
      /\ steps[4] = "Account" /\ steps[5] = "Forget" /\ steps[6] = "Track"
      /\ steps[7] = "Measure" /\ steps[8] = "Return"
  BY <1>1
<1>5. \A i, j \in 1..Len(steps) : steps[i] = steps[j] => i = j
  BY <1>3, <1>4
<1>6. PICK n \in 1..Len(steps) :
        /\ s # <<>> /\ Head(s) = steps[n]
        /\ n < Len(steps) => Tail(s) \in Remainders(steps)
        /\ Among(Tail(s)) = Among(s) \ {Head(s)}
        /\ \A i \in 1..Len(steps) : steps[i] \in Among(s) <=> i >= n
        /\ Among(s) \subseteq Among(steps)
  BY <1>2, <1>3, <1>5, RemainderIs
<1>7. Among(steps) = {"Look", "Reserve", "Obtain", "Account", "Forget", "Track", "Measure", "Return"}
  BY <1>3, <1>4 DEF Among
<1>8. /\ "Look" \in Among(s) <=> 1 >= n
      /\ "Reserve" \in Among(s) <=> 2 >= n
      /\ "Obtain" \in Among(s) <=> 3 >= n
      /\ "Account" \in Among(s) <=> 4 >= n
      /\ "Forget" \in Among(s) <=> 5 >= n
      /\ "Track" \in Among(s) <=> 6 >= n
      /\ "Measure" \in Among(s) <=> 7 >= n
      /\ "Return" \in Among(s) <=> 8 >= n
  BY <1>3, <1>4, <1>6
<1>9. n \in 1..8
  BY <1>3
<1>10. Head(s) = "Return" <=> n = 8
  BY <1>3, <1>4, <1>6, <1>9
<1>11. Ordered("Heap", s)
  BY <1>4, <1>6, <1>7, <1>8, <1>9 DEF Ordered
<1>12. Head(s) # "Return" => Tail(s) \in Remainders(steps)
  BY <1>3, <1>6, <1>9, <1>10
<1> QED BY <1>11, <1>12 DEF steps

LEMMA HeapFreeOrder ==
  ASSUME NEW s \in Remainders(FreeSteps("Heap"))
  PROVE  /\ Ordered("Heap", s)
         /\ Head(s) # "Return" => Tail(s) \in Remainders(FreeSteps("Heap"))
<1> DEFINE steps == FreeSteps("Heap")
<1>1. steps = <<"Untrack", "Release", "Account", "Measure", "Return">>
  BY DEF FreeSteps
<1>2. s \in Remainders(steps)
  OBVIOUS
<1> HIDE DEF steps
<1>3. steps \in Seq(Steps) /\ Len(steps) = 5
  <2>1. Len(steps) = 5
    BY <1>1
  <2>2. steps \in Seq(Steps)
    BY <1>1 DEF Steps
  <2> QED BY <2>1, <2>2
<1>4. /\ steps[1] = "Untrack" /\ steps[2] = "Release" /\ steps[3] = "Account"
      /\ steps[4] = "Measure" /\ steps[5] = "Return"
  BY <1>1
<1>5. \A i, j \in 1..Len(steps) : steps[i] = steps[j] => i = j
  BY <1>3, <1>4
<1>6. PICK n \in 1..Len(steps) :
        /\ s # <<>> /\ Head(s) = steps[n]
        /\ n < Len(steps) => Tail(s) \in Remainders(steps)
        /\ Among(Tail(s)) = Among(s) \ {Head(s)}
        /\ \A i \in 1..Len(steps) : steps[i] \in Among(s) <=> i >= n
        /\ Among(s) \subseteq Among(steps)
  BY <1>2, <1>3, <1>5, RemainderIs
<1>7. Among(steps) = {"Untrack", "Release", "Account", "Measure", "Return"}
  BY <1>3, <1>4 DEF Among
<1>8. /\ "Untrack" \in Among(s) <=> 1 >= n
      /\ "Release" \in Among(s) <=> 2 >= n
      /\ "Account" \in Among(s) <=> 3 >= n
      /\ "Measure" \in Among(s) <=> 4 >= n
      /\ "Return" \in Among(s) <=> 5 >= n
  BY <1>3, <1>4, <1>6
<1>9. n \in 1..5
  BY <1>3
<1>10. Head(s) = "Return" <=> n = 5
  BY <1>3, <1>4, <1>6, <1>9
<1>11. Ordered("Heap", s)
  BY <1>4, <1>6, <1>7, <1>8, <1>9 DEF Ordered
<1>12. Head(s) # "Return" => Tail(s) \in Remainders(steps)
  BY <1>3, <1>6, <1>9, <1>10
<1> QED BY <1>11, <1>12 DEF steps

LEMMA DefaultFreeOrder ==
  ASSUME NEW s \in Remainders(FreeSteps("Default"))
  PROVE  /\ Ordered("Default", s)
         /\ Head(s) # "Return" => Tail(s) \in Remainders(FreeSteps("Default"))
<1> DEFINE steps == FreeSteps("Default")
<1>1. steps = <<"Find", "Untrack", "Release", "Account", "Return">>
  BY DEF FreeSteps
<1>2. s \in Remainders(steps)
  OBVIOUS
<1> HIDE DEF steps
<1>3. steps \in Seq(Steps) /\ Len(steps) = 5
  <2>1. Len(steps) = 5
    BY <1>1
  <2>2. steps \in Seq(Steps)
    BY <1>1 DEF Steps
  <2> QED BY <2>1, <2>2
<1>4. /\ steps[1] = "Find" /\ steps[2] = "Untrack" /\ steps[3] = "Release"
      /\ steps[4] = "Account" /\ steps[5] = "Return"
  BY <1>1
<1>5. \A i, j \in 1..Len(steps) : steps[i] = steps[j] => i = j
  BY <1>3, <1>4
<1>6. PICK n \in 1..Len(steps) :
        /\ s # <<>> /\ Head(s) = steps[n]
        /\ n < Len(steps) => Tail(s) \in Remainders(steps)
        /\ Among(Tail(s)) = Among(s) \ {Head(s)}
        /\ \A i \in 1..Len(steps) : steps[i] \in Among(s) <=> i >= n
        /\ Among(s) \subseteq Among(steps)
  BY <1>2, <1>3, <1>5, RemainderIs
<1>7. Among(steps) = {"Find", "Untrack", "Release", "Account", "Return"}
  BY <1>3, <1>4 DEF Among
<1>8. /\ "Find" \in Among(s) <=> 1 >= n
      /\ "Untrack" \in Among(s) <=> 2 >= n
      /\ "Release" \in Among(s) <=> 3 >= n
      /\ "Account" \in Among(s) <=> 4 >= n
      /\ "Return" \in Among(s) <=> 5 >= n
  BY <1>3, <1>4, <1>6
<1>9. n \in 1..5
  BY <1>3
<1>10. Head(s) = "Return" <=> n = 5
  BY <1>3, <1>4, <1>6, <1>9
<1>11. Ordered("Default", s)
  BY <1>4, <1>6, <1>7, <1>8, <1>9 DEF Ordered
<1>12. Head(s) # "Return" => Tail(s) \in Remainders(steps)
  BY <1>3, <1>6, <1>9, <1>10
<1> QED BY <1>11, <1>12 DEF steps

\* A call that failed to get a block has one step left.
LEMMA CancelOrder ==
  ASSUME NEW api \in {"Heap", "Default"}
  PROVE  /\ Ordered(api, <<"Cancel">>) /\ Head(<<"Cancel">>) = "Cancel"
         /\ Among(<<"Cancel">>) = {"Cancel"}
<1> DEFINE s == <<"Cancel">>
<1>1. s # <<>> /\ Head(s) = "Cancel" /\ Len(s) = 1 /\ s[1] = "Cancel" /\ Len(Tail(s)) = 0
  OBVIOUS
<1> HIDE DEF s
<1>2. Among(s) = {"Cancel"} /\ Among(Tail(s)) = {}
  <2>1. 1..Len(s) = {1} /\ 1..Len(Tail(s)) = {}
    <3>1. 1..1 = {1} /\ 1..0 = {}
      OBVIOUS
    <3> QED BY <1>1, <3>1, Zenon
  <2> QED BY <1>1, <2>1 DEF Among
<1>3. Ordered(api, s)
  BY <1>1, <1>2 DEF Ordered
<1> QED BY <1>1, <1>2, <1>3 DEF s

\* Whatever a call still has to do, its steps are in order, and what follows a
\* step is something a call can have to do.
LEMMA TodoFacts ==
  ASSUME NEW api \in {"Heap", "Default"}, NEW s \in Todos(api)
  PROVE  /\ Ordered(api, s)
         /\ (Head(s) # "Return" /\ Head(s) # "Cancel") => Tail(s) \in Todos(api)
<1>1. CASE s = <<"Cancel">>
  BY <1>1, CancelOrder
<1>2. CASE s \in Remainders(AllocateSteps(api))
  <2>1. /\ Ordered(api, s)
        /\ Head(s) # "Return" => Tail(s) \in Remainders(AllocateSteps(api))
    BY <1>2, HeapAllocateOrder, DefaultAllocateOrder
  <2> QED BY <2>1 DEF Todos
<1>3. CASE s \in Remainders(FreeSteps(api))
  <2>1. /\ Ordered(api, s)
        /\ Head(s) # "Return" => Tail(s) \in Remainders(FreeSteps(api))
    BY <1>3, HeapFreeOrder, DefaultFreeOrder
  <2> QED BY <2>1 DEF Todos
<1>4. CASE api = "Heap" /\ Reallocates /\ s \in Remainders(ReallocateSteps)
  <2>1. /\ Ordered(api, s)
        /\ Head(s) # "Return" => Tail(s) \in Remainders(ReallocateSteps)
    BY <1>4, ReallocateOrder
  <2> QED BY <1>4, <2>1 DEF Todos
<1> QED BY <1>1, <1>2, <1>3, <1>4 DEF Todos

\* The three operations begin with their first steps.
LEMMA FirstSteps ==
  /\ \A api \in {"Heap", "Default"} :
       /\ AllocateSteps(api) \in Todos(api)
       /\ Head(AllocateSteps(api)) = "Reserve"
       /\ {"Reserve", "Obtain", "Account"} \subseteq Among(AllocateSteps(api))
       /\ {"Look", "Release"} \cap Among(AllocateSteps(api)) = {}
       /\ FreeSteps(api) \in Todos(api)
       /\ {"Untrack", "Release", "Account"} \subseteq Among(FreeSteps(api))
       /\ "Reserve" \notin Among(FreeSteps(api))
       /\ api = "Heap" => /\ "Measure" \in Among(AllocateSteps(api))
                          /\ "Measure" \in Among(FreeSteps(api))
  /\ Reallocates => ReallocateSteps \in Todos("Heap")
  /\ {"Look", "Reserve", "Obtain", "Account", "Forget", "Measure"} \subseteq Among(ReallocateSteps)
  /\ "Release" \notin Among(ReallocateSteps)
<1>1. ASSUME NEW steps \in Seq(Steps), Len(steps) > 0 PROVE steps \in Remainders(steps)
  <2>1. 1 \in 1..Len(steps) /\ steps = SubSeq(steps, 1, Len(steps))
    BY <1>1
  <2> QED BY <2>1 DEF Remainders, Remainder
<1>2. ASSUME NEW api \in {"Heap", "Default"}
      PROVE /\ AllocateSteps(api) \in Seq(Steps) /\ Len(AllocateSteps(api)) > 0
            /\ Head(AllocateSteps(api)) = "Reserve"
  <2>1. CASE api = "Heap"
    BY <2>1 DEF AllocateSteps, Steps
  <2>2. CASE api = "Default"
    BY <2>2 DEF AllocateSteps, Steps
  <2> QED BY <2>1, <2>2
<1>3. ASSUME NEW api \in {"Heap", "Default"}
      PROVE FreeSteps(api) \in Seq(Steps) /\ Len(FreeSteps(api)) > 0
  <2>1. CASE api = "Heap"
    BY <2>1 DEF FreeSteps, Steps
  <2>2. CASE api = "Default"
    BY <2>2 DEF FreeSteps, Steps
  <2> QED BY <2>1, <2>2
<1>4. ReallocateSteps \in Seq(Steps) /\ Len(ReallocateSteps) > 0
  BY DEF ReallocateSteps, Steps
<1>5. Among(AllocateSteps("Heap")) = {"Reserve", "Obtain", "Account", "Track", "Measure", "Return"}
  BY DEF AllocateSteps, Among
<1>6. Among(AllocateSteps("Default")) = {"Reserve", "Obtain", "Track", "Account", "Return"}
  BY DEF AllocateSteps, Among
<1>7. Among(FreeSteps("Heap")) = {"Untrack", "Release", "Account", "Measure", "Return"}
  BY DEF FreeSteps, Among
<1>8. Among(FreeSteps("Default")) = {"Find", "Untrack", "Release", "Account", "Return"}
  BY DEF FreeSteps, Among
<1>9. Among(ReallocateSteps) =
        {"Look", "Reserve", "Obtain", "Account", "Forget", "Track", "Measure", "Return"}
  BY DEF ReallocateSteps, Among
<1>10. \A api \in {"Heap", "Default"} :
         AllocateSteps(api) \in Todos(api) /\ FreeSteps(api) \in Todos(api)
  BY <1>1, <1>2, <1>3 DEF Todos
<1>11. Reallocates => ReallocateSteps \in Todos("Heap")
  BY <1>1, <1>4 DEF Todos
<1>12. \A api \in {"Heap", "Default"} :
       /\ {"Reserve", "Obtain", "Account"} \subseteq Among(AllocateSteps(api))
       /\ {"Look", "Release"} \cap Among(AllocateSteps(api)) = {}
       /\ {"Untrack", "Release", "Account"} \subseteq Among(FreeSteps(api))
       /\ "Reserve" \notin Among(FreeSteps(api))
       /\ api = "Heap" => /\ "Measure" \in Among(AllocateSteps(api))
                          /\ "Measure" \in Among(FreeSteps(api))
  BY <1>5, <1>6, <1>7, <1>8
<1> QED BY <1>2, <1>9, <1>10, <1>11, <1>12

\* A call without its first step.
Advanced(c) == [c EXCEPT !.todo = Tail(@)]

\* The call that is left when its first step is made.
LEMMA NextCall ==
  ASSUME NEW c \in Calls, c.todo \in Todos(c.api),
         Head(c.todo) # "Return", Head(c.todo) # "Cancel",
         NEW d, d = Advanced(c)
  PROVE  /\ d \in Calls /\ d # NoCall
         /\ d.todo \in Todos(c.api)
         /\ Among(d.todo) = Among(c.todo) \ {Head(c.todo)}
         /\ d.api = c.api /\ d.pool = c.pool /\ d.tracked = c.tracked
         /\ d.old_pointer = c.old_pointer /\ d.old_size = c.old_size
         /\ d.pointer = c.pointer /\ d.size = c.size
         /\ d.found = c.found /\ d.mine = c.mine
<1>1. c \in Calls /\ c.todo \in Todos(c.api)
  OBVIOUS
<1>2. c.api \in {"Heap", "Default"}
  BY <1>1 DEF Calls
<1>3. Ordered(c.api, c.todo) /\ Tail(c.todo) \in Todos(c.api)
  BY <1>1, <1>2, TodoFacts
<1>4. /\ d.todo = Tail(c.todo)
      /\ d.api = c.api /\ d.pool = c.pool /\ d.tracked = c.tracked
      /\ d.old_pointer = c.old_pointer /\ d.old_size = c.old_size
      /\ d.pointer = c.pointer /\ d.size = c.size
      /\ d.found = c.found /\ d.mine = c.mine
  BY <1>1 DEF Calls, Advanced
<1>5. d \in Calls
  BY <1>1, <1>2, <1>3 DEF Calls, Advanced
<1>6. Among(d.todo) = Among(c.todo) \ {Head(c.todo)}
  BY <1>3, <1>4 DEF Ordered
<1>7. d.todo # <<>>
  <2>1. Ordered(c.api, Tail(c.todo))
    BY <1>2, <1>3, TodoFacts
  <2> QED BY <2>1, <1>4 DEF Ordered
<1>8. d # NoCall
  BY <1>7 DEF NoCall
<1> QED BY <1>3, <1>4, <1>5, <1>6, <1>8

\* A call has something to do.
LEMMA CallRuns ==
  ASSUME NEW c, CallOK(c)
  PROVE  /\ c \in Calls /\ c.api \in {"Heap", "Default"} /\ c # NoCall
         /\ Ordered(c.api, c.todo)
<1>1. c \in Calls /\ c.todo \in Todos(c.api)
  BY DEF CallOK
<1>2. c.api \in {"Heap", "Default"}
  BY <1>1 DEF Calls
<1>3. Ordered(c.api, c.todo)
  BY <1>1, <1>2, TodoFacts
<1>4. c.todo # <<>>
  BY <1>3 DEF Ordered
<1> QED BY <1>1, <1>2, <1>3, <1>4 DEF NoCall

-----------------------------------------------------------------------------
(* Who has what.  A step of one call leaves the others, and the owners of  *)
(* the blocks it does not touch, as they were.                             *)

\* What a call keeps, it keeps while its block, and who has it, stay the same
\* and its record is at most removed.
LEMMA KeepsWhenUntouched ==
  ASSUME NEW c, CallKeeps(c),
         Held(c) # Null =>
           /\ owned'[Held(c)] = owned[Held(c)] /\ block'[Held(c)] = block[Held(c)]
           /\ live'[Held(c)] = live[Held(c)] \/ live'[Held(c)] = None
  PROVE  CallKeeps(c)'
<1> DEFINE h == Held(c)
<1> SUFFICES ASSUME h # Null
    PROVE /\ owned'[h] = None
          /\ block'[h] = HeldSize(c)
          /\ Route(c.api, HeldSize(c)) = Area[h]
          /\ live'[h] = None \/ (~Keeping(c) /\ Due(c, "Track"))
               \/ live'[h] = RecordOf(HeldSize(c), c.pool)
          /\ (Due(c, "Release") /\ ~Due(c, "Untrack")) => live'[h] = None
          /\ (Due(c, "Obtain") /\ ~Due(c, "Look") /\ ~c.found) => live'[h] = None
          /\ (~Keeping(c) /\ Due(c, "Track") /\ ~c.tracked) => live'[h] = None
  BY DEF CallKeeps
<1>1. /\ owned[h] = None
      /\ block[h] = HeldSize(c)
      /\ Route(c.api, HeldSize(c)) = Area[h]
      /\ live[h] = None \/ (~Keeping(c) /\ Due(c, "Track"))
           \/ live[h] = RecordOf(HeldSize(c), c.pool)
      /\ (Due(c, "Release") /\ ~Due(c, "Untrack")) => live[h] = None
      /\ (Due(c, "Obtain") /\ ~Due(c, "Look") /\ ~c.found) => live[h] = None
      /\ (~Keeping(c) /\ Due(c, "Track") /\ ~c.tracked) => live[h] = None
  BY DEF CallKeeps
<1>2. /\ owned'[h] = owned[h] /\ block'[h] = block[h]
      /\ live'[h] = live[h] \/ live'[h] = None
  OBVIOUS
<1> HIDE DEF h
<1> QED BY <1>1, <1>2

\* What a step of t has to show of itself: the addresses X it may change are of
\* no other call, and it leaves them, and its own call d, in order.
LEMMA Apart ==
  ASSUME TypeOK, call \in [Threads -> Calls \cup {NoCall}],
         CallsSound, CallsApart, OwnersSound, RecordsKnown,
         NEW t \in Threads, NEW d, call' = [call EXCEPT ![t] = d],
         NEW X \in SUBSET Addresses,
         \A a \in Addresses \ X :
           /\ owned'[a] = owned[a] /\ block'[a] = block[a]
           /\ live'[a] = live[a] \/ live'[a] = None,
         \A u \in Threads \ {t} : ~Idle(u) => Held(call[u]) \notin X,
         d = NoCall \/ (CallOK(d) /\ CallKeeps(d)'),
         \A u \in Threads \ {t} :
           (d # NoCall /\ ~Idle(u) /\ Held(d) # Null) => Held(d) # Held(call[u]),
         \A a \in X : owned'[a] # None =>
           /\ block'[a] # 0
           /\ Route(owned'[a].api, block'[a]) = Area[a]
           /\ live'[a] = None \/ live'[a] = RecordOf(block'[a], owned'[a].pool),
         \A a \in X : live'[a] # None =>
           \/ owned'[a] # None
           \/ d # NoCall /\ Has(d, a)
           \/ \E u \in Threads \ {t} : ~Idle(u) /\ Has(call[u], a),
         \A a \in Addresses \ X :
           (~Idle(t) /\ Has(call[t], a) /\ live'[a] # None) =>
             owned'[a] # None \/ (d # NoCall /\ Has(d, a))
  PROVE  CallsSound' /\ CallsApart' /\ OwnersSound' /\ RecordsKnown'
<1>1. \A u \in Threads \ {t} : call'[u] = call[u]
  OBVIOUS
<1>2. call'[t] = d
  OBVIOUS
<1>3. \A u \in Threads \ {t} : Idle(u)' <=> Idle(u)
  BY <1>1 DEF Idle
<1>4. Idle(t)' <=> d = NoCall
  BY <1>2 DEF Idle
<1>5. CallsSound'
  <2> SUFFICES ASSUME NEW u \in Threads, ~Idle(u)' PROVE CallOK(call'[u]) /\ CallKeeps(call[u])'
    BY DEF CallsSound
  <2>1. CASE u = t
    BY <2>1, <1>2, <1>4 DEF CallKeeps
  <2>2. CASE u # t
    <3> DEFINE c == call[u]
    <3>1. CallOK(c) /\ CallKeeps(c) /\ Held(c) \notin X /\ call'[u] = c
      BY <2>2, <1>1, <1>3 DEF CallsSound
    <3>2. Held(c) # Null => Held(c) \in Addresses
      BY <3>1 DEF CallOK, Calls, Held
    <3> HIDE DEF c
    <3>3. Held(c) # Null =>
            /\ owned'[Held(c)] = owned[Held(c)] /\ block'[Held(c)] = block[Held(c)]
            /\ live'[Held(c)] = live[Held(c)] \/ live'[Held(c)] = None
      BY <3>1, <3>2
    <3>4. PICK e : e = c
      OBVIOUS
    <3>5. CallKeeps(e)'
      BY <3>1, <3>3, <3>4, KeepsWhenUntouched
    <3> QED BY <3>1, <3>4, <3>5 DEF CallKeeps
  <2> QED BY <2>1, <2>2
<1>6. CallsApart'
  <2> SUFFICES ASSUME NEW v \in Threads, NEW u \in Threads, v # u,
                      ~Idle(v)', ~Idle(u)', Held(call'[v]) # Null
               PROVE  Held(call'[v]) # Held(call'[u])
    BY DEF CallsApart, Held, Keeping, Due, Among
  <2>1. CASE v = t
    BY <2>1, <1>1, <1>2, <1>3, <1>4
  <2>2. CASE u = t
    BY <2>2, <1>1, <1>2, <1>3, <1>4
  <2>3. CASE v # t /\ u # t
    BY <2>3, <1>1, <1>3 DEF CallsApart
  <2> QED BY <2>1, <2>2, <2>3
<1>7. OwnersSound'
  <2> SUFFICES ASSUME NEW a \in Addresses, owned'[a] # None
               PROVE  /\ block'[a] # 0
                      /\ Route(owned'[a].api, block'[a]) = Area[a]
                      /\ live'[a] = None \/ live'[a] = RecordOf(block'[a], owned'[a].pool)
    BY DEF OwnersSound, Owned
  <2>1. CASE a \in X
    BY <2>1
  <2>2. CASE a \notin X
    <3>1. /\ owned'[a] = owned[a] /\ block'[a] = block[a]
          /\ live'[a] = live[a] \/ live'[a] = None
      BY <2>2
    <3>2. /\ block[a] # 0
          /\ Route(owned[a].api, block[a]) = Area[a]
          /\ live[a] = None \/ live[a] = RecordOf(block[a], owned[a].pool)
      BY <3>1 DEF OwnersSound, Owned
    <3> QED BY <3>1, <3>2
  <2> QED BY <2>1, <2>2
<1>8. RecordsKnown'
  <2> SUFFICES ASSUME NEW a \in Addresses, live'[a] # None, owned'[a] = None
               PROVE  \E u \in Threads : ~Idle(u)' /\ Has(call'[u], a)
    BY DEF RecordsKnown, Owned, Tracker!Tracked, Has, Held, Keeping, Due, Among
  <2>1. CASE \E u \in Threads \ {t} : ~Idle(u) /\ Has(call[u], a)
    BY <2>1, <1>1, <1>3
  <2>2. CASE d # NoCall /\ Has(d, a)
    BY <2>2, <1>2, <1>4
  <2>3. CASE a \in X
    BY <2>1, <2>2, <2>3
  <2>4. CASE a \notin X
    <3>1. owned[a] = None /\ live[a] # None
      BY <2>4
    <3>2. PICK u \in Threads : ~Idle(u) /\ Has(call[u], a)
      BY <3>1 DEF RecordsKnown, Owned, Tracker!Tracked
    <3>3. u = t => d # NoCall /\ Has(d, a)
      BY <2>4, <3>2
    <3> QED BY <2>1, <2>2, <3>2, <3>3
  <2> QED BY <2>3, <2>4
<1> QED BY <1>5, <1>6, <1>7, <1>8

-----------------------------------------------------------------------------
(* The accounts.                                                           *)

LEMMA SizesAreNumbers == Sizes \cup {0} \subseteq Nat /\ 0 \notin Sizes
BY SizesAssumption

\* What a call contributes is a number of bytes.
LEMMA ChargeFacts ==
  ASSUME NEW c \in Calls
  PROVE  /\ c.size \in Nat /\ c.old_size \in Nat
         /\ Growth(c) \in Nat /\ Shrinkage(c) \in Nat
         /\ c.size = c.old_size + Growth(c) - Shrinkage(c)
         /\ c.size >= c.old_size => c.size = c.old_size + Growth(c) /\ Shrinkage(c) = 0
         /\ c.size = 0 => Growth(c) = 0
         /\ Charge(c) \in Nat /\ NetCharge(c) \in Nat /\ LiveCharge(c) \in Nat
<1>1. c.size \in Nat /\ c.old_size \in Nat
  <2>1. c.size \in Sizes \cup {0} /\ c.old_size \in Sizes \cup {0}
    BY DEF Calls
  <2> QED BY <2>1, SizesAreNumbers
<1>2. /\ Growth(c) \in Nat /\ Shrinkage(c) \in Nat
      /\ c.size = c.old_size + Growth(c) - Shrinkage(c)
      /\ c.size >= c.old_size => c.size = c.old_size + Growth(c) /\ Shrinkage(c) = 0
      /\ c.size = 0 => Growth(c) = 0
  BY <1>1 DEF Growth, Shrinkage
<1>3. Charge(c) \in Nat /\ NetCharge(c) \in Nat /\ LiveCharge(c) \in Nat
  BY <1>1, <1>2 DEF Charge, NetCharge, LiveCharge
<1> QED BY <1>1, <1>2, <1>3

\* When the call of t changes, what calls contribute changes with it.
LEMMA CallTotals ==
  ASSUME call \in [Threads -> Calls \cup {NoCall}],
         NEW t \in Threads, NEW d \in Calls \cup {NoCall},
         call' = [call EXCEPT ![t] = d],
         NEW p
  PROVE  /\ SumOver(Charges(p), Threads) \in Nat
         /\ SumOver(Charges(p)', Threads) \in Nat
         /\ SumOver(Charges(p)', Threads)
              = SumOver(Charges(p), Threads) + Charges(p)'[t] - Charges(p)[t]
         /\ SumOver(NetCharges(p), Threads) \in Nat
         /\ SumOver(NetCharges(p)', Threads)
              = SumOver(NetCharges(p), Threads) + NetCharges(p)'[t] - NetCharges(p)[t]
         /\ SumOver(LiveCharges, Threads) \in Nat
         /\ SumOver(LiveCharges', Threads)
              = SumOver(LiveCharges, Threads) + LiveCharges'[t] - LiveCharges[t]
<1>1. IsFiniteSet(Threads)
  BY ThreadsAssumption
<1>2. call' \in [Threads -> Calls \cup {NoCall}] /\ \A u \in Threads \ {t} : call'[u] = call[u]
  OBVIOUS
<1>3. /\ \A u \in Threads : Charges(p)[u] \in Nat /\ Charges(p)'[u] \in Nat
      /\ \A u \in Threads \ {t} : Charges(p)'[u] = Charges(p)[u]
  BY <1>2, ChargeFacts DEF Charges
<1>4. /\ \A u \in Threads : NetCharges(p)[u] \in Nat /\ NetCharges(p)'[u] \in Nat
      /\ \A u \in Threads \ {t} : NetCharges(p)'[u] = NetCharges(p)[u]
  BY <1>2, ChargeFacts DEF NetCharges
<1>5. /\ \A u \in Threads : LiveCharges[u] \in Nat /\ LiveCharges'[u] \in Nat
      /\ \A u \in Threads \ {t} : LiveCharges'[u] = LiveCharges[u]
  BY <1>2, ChargeFacts DEF LiveCharges
<1>6. /\ SumOver(Charges(p), Threads) \in Nat
      /\ SumOver(Charges(p)', Threads) \in Nat
      /\ SumOver(Charges(p)', Threads)
           = SumOver(Charges(p), Threads) + Charges(p)'[t] - Charges(p)[t]
  <2>1. SumOver(Charges(p), Threads) \in Nat /\ SumOver(Charges(p)', Threads) \in Nat
    BY <1>1, <1>3, SumNat
  <2> QED BY <2>1, <1>1, <1>3, SumChange
<1>7. /\ SumOver(NetCharges(p), Threads) \in Nat
      /\ SumOver(NetCharges(p)', Threads)
           = SumOver(NetCharges(p), Threads) + NetCharges(p)'[t] - NetCharges(p)[t]
  <2>1. PICK f : f = NetCharges(p)
    OBVIOUS
  <2>2. PICK g : g = NetCharges(p)'
    OBVIOUS
  <2>3. /\ \A u \in Threads : f[u] \in Nat /\ g[u] \in Nat
        /\ \A u \in Threads \ {t} : g[u] = f[u]
    BY <1>4, <2>1, <2>2
  <2>4. SumOver(f, Threads) \in Nat /\ SumOver(g, Threads) = SumOver(f, Threads) + g[t] - f[t]
    BY <1>1, <2>3, SumChange
  <2> QED BY <2>1, <2>2, <2>4
<1>8. /\ SumOver(LiveCharges, Threads) \in Nat
      /\ SumOver(LiveCharges', Threads)
           = SumOver(LiveCharges, Threads) + LiveCharges'[t] - LiveCharges[t]
  BY <1>1, <1>5, SumChange
<1> QED BY <1>6, <1>7, <1>8

\* When a caller hands over or receives the block at q, or neither happens, what
\* callers have changes by that block.
LEMMA OwnerTotals ==
  ASSUME TypeOK, owned' \in [Addresses -> Requests \cup {None}],
         block' \in [Addresses -> Sizes \cup {0}],
         NEW q \in Addresses,
         \A a \in Addresses \ {q} :
           owned'[a] = owned[a] /\ (owned[a] # None => block'[a] = block[a]),
         NEW p
  PROVE  /\ SumOver(BytesIn(p), Addresses) \in Nat
         /\ SumOver(BytesIn(p)', Addresses) \in Nat
         /\ SumOver(BytesIn(p)', Addresses)
              = SumOver(BytesIn(p), Addresses) + BytesIn(p)'[q] - BytesIn(p)[q]
         /\ SumOver(HeapBytes, Addresses) \in Nat
         /\ SumOver(HeapBytes', Addresses)
              = SumOver(HeapBytes, Addresses) + HeapBytes'[q] - HeapBytes[q]
<1>1. IsFiniteSet(Addresses)
  BY AddressesAssumption
<1>2. \A a \in Addresses : block[a] \in Nat /\ block'[a] \in Nat
  BY SizesAreNumbers DEF TypeOK
<1>3. /\ \A a \in Addresses : BytesIn(p)[a] \in Nat /\ BytesIn(p)'[a] \in Nat
      /\ \A a \in Addresses \ {q} : BytesIn(p)'[a] = BytesIn(p)[a]
  BY <1>2 DEF BytesIn
<1>4. /\ \A a \in Addresses : HeapBytes[a] \in Nat /\ HeapBytes'[a] \in Nat
      /\ \A a \in Addresses \ {q} : HeapBytes'[a] = HeapBytes[a]
  BY <1>2 DEF HeapBytes
<1>5. /\ SumOver(BytesIn(p), Addresses) \in Nat
      /\ SumOver(BytesIn(p)', Addresses) \in Nat
      /\ SumOver(BytesIn(p)', Addresses)
           = SumOver(BytesIn(p), Addresses) + BytesIn(p)'[q] - BytesIn(p)[q]
  <2>1. SumOver(BytesIn(p), Addresses) \in Nat /\ SumOver(BytesIn(p)', Addresses) \in Nat
    BY <1>1, <1>3, SumNat
  <2> QED BY <2>1, <1>1, <1>3, SumChange
<1>6. /\ SumOver(HeapBytes, Addresses) \in Nat
      /\ SumOver(HeapBytes', Addresses)
           = SumOver(HeapBytes, Addresses) + HeapBytes'[q] - HeapBytes[q]
  BY <1>1, <1>4, SumChange
<1> QED BY <1>5, <1>6

LEMMA OwnerTotalsSame ==
  ASSUME TypeOK,
         \A a \in Addresses :
           owned'[a] = owned[a] /\ (owned[a] # None => block'[a] = block[a]),
         NEW p
  PROVE  /\ SumOver(BytesIn(p), Addresses) \in Nat
         /\ BytesIn(p)' = BytesIn(p)
         /\ SumOver(HeapBytes, Addresses) \in Nat /\ HeapBytes' = HeapBytes
<1>1. IsFiniteSet(Addresses)
  BY AddressesAssumption
<1>2. \A a \in Addresses : block[a] \in Nat
  BY SizesAreNumbers DEF TypeOK
<1>3. \A a \in Addresses : BytesIn(p)[a] \in Nat /\ HeapBytes[a] \in Nat
  BY <1>2 DEF BytesIn, HeapBytes
<1>4. SumOver(BytesIn(p), Addresses) \in Nat /\ SumOver(HeapBytes, Addresses) \in Nat
  BY <1>1, <1>3, SumNat
<1>5. BytesIn(p)' = BytesIn(p)
  BY DEF BytesIn
<1>6. HeapBytes' = HeapBytes
  BY DEF HeapBytes
<1> QED BY <1>4, <1>5, <1>6

\* A step of a call that keeps its pool changes the accounts as its charges change.
LEMMA StepBalance ==
  ASSUME TypeOK, call \in [Threads -> Calls \cup {NoCall}], Balanced,
         NEW t \in Threads, NEW c \in Calls, c = call[t], c # NoCall,
         NEW d \in Calls, d # NoCall, call' = [call EXCEPT ![t] = d],
         d.pool = c.pool, d.api = c.api,
         \A a \in Addresses :
           owned'[a] = owned[a] /\ (owned[a] # None => block'[a] = block[a]),
         \A p \in Pools :
           /\ CurrentBytes'[p]
                = CurrentBytes[p] + (IF p = c.pool THEN Charge(d) - Charge(c) ELSE 0)
           /\ NetBytes'[p]
                = NetBytes[p] + (IF p = c.pool THEN NetCharge(d) - NetCharge(c) ELSE 0),
         CurrentLiveBytes' = CurrentLiveBytes
           + (IF c.api = "Heap" THEN LiveCharge(d) - LiveCharge(c) ELSE 0)
  PROVE  Balanced' /\ \A p \in Pools : CurrentBytes'[p] \in Nat
<1>1. /\ Charge(c) \in Nat /\ NetCharge(c) \in Nat /\ LiveCharge(c) \in Nat
      /\ Charge(d) \in Nat /\ NetCharge(d) \in Nat /\ LiveCharge(d) \in Nat
  BY ChargeFacts
<1>2. call'[t] = d
  OBVIOUS
<1>3. ASSUME NEW p \in Pools
      PROVE  /\ CurrentBytes'[p] = SumOver(Charges(p)', Threads) + SumOver(BytesIn(p)', Addresses)
             /\ NetBytes'[p] = SumOver(NetCharges(p)', Threads) + SumOver(BytesIn(p)', Addresses)
             /\ CurrentBytes'[p] \in Nat
  <2>1. /\ SumOver(Charges(p), Threads) \in Nat
        /\ SumOver(Charges(p)', Threads) \in Nat
        /\ SumOver(Charges(p)', Threads)
             = SumOver(Charges(p), Threads) + Charges(p)'[t] - Charges(p)[t]
        /\ SumOver(NetCharges(p), Threads) \in Nat
        /\ SumOver(NetCharges(p)', Threads)
             = SumOver(NetCharges(p), Threads) + NetCharges(p)'[t] - NetCharges(p)[t]
    BY CallTotals
  <2>2. SumOver(BytesIn(p), Addresses) \in Nat /\ BytesIn(p)' = BytesIn(p)
    BY OwnerTotalsSame
  <2>3. /\ Charges(p)[t] = IF p = c.pool THEN Charge(c) ELSE 0
        /\ Charges(p)'[t] = IF p = c.pool THEN Charge(d) ELSE 0
        /\ NetCharges(p)[t] = IF p = c.pool THEN NetCharge(c) ELSE 0
        /\ NetCharges(p)'[t] = IF p = c.pool THEN NetCharge(d) ELSE 0
    BY <1>2 DEF Charges, NetCharges
  <2>4. /\ CurrentBytes[p] = SumOver(Charges(p), Threads) + SumOver(BytesIn(p), Addresses)
        /\ NetBytes[p] = SumOver(NetCharges(p), Threads) + SumOver(BytesIn(p), Addresses)
    BY DEF Balanced
  <2>5. /\ CurrentBytes'[p]
             = CurrentBytes[p] + (IF p = c.pool THEN Charge(d) - Charge(c) ELSE 0)
        /\ NetBytes'[p]
             = NetBytes[p] + (IF p = c.pool THEN NetCharge(d) - NetCharge(c) ELSE 0)
    OBVIOUS
  <2> QED BY <1>1, <2>1, <2>2, <2>3, <2>4, <2>5
<1>4. CurrentLiveBytes' = SumOver(LiveCharges', Threads) + SumOver(HeapBytes', Addresses)
  <2>1. /\ SumOver(LiveCharges, Threads) \in Nat
        /\ SumOver(LiveCharges', Threads)
             = SumOver(LiveCharges, Threads) + LiveCharges'[t] - LiveCharges[t]
    BY CallTotals
  <2>2. SumOver(HeapBytes, Addresses) \in Nat /\ HeapBytes' = HeapBytes
    BY OwnerTotalsSame
  <2>3. /\ LiveCharges[t] = IF c.api = "Heap" THEN LiveCharge(c) ELSE 0
        /\ LiveCharges'[t] = IF c.api = "Heap" THEN LiveCharge(d) ELSE 0
    BY <1>2 DEF LiveCharges
  <2>4. CurrentLiveBytes = SumOver(LiveCharges, Threads) + SumOver(HeapBytes, Addresses)
    BY DEF Balanced
  <2>5. CurrentLiveBytes' = CurrentLiveBytes
          + (IF c.api = "Heap" THEN LiveCharge(d) - LiveCharge(c) ELSE 0)
    OBVIOUS
  <2> QED BY <1>1, <2>1, <2>2, <2>3, <2>4, <2>5
<1> QED BY <1>3, <1>4 DEF Balanced

\* A call begins: the bytes of the block it is given are its charge from now on.
LEMMA BeginBalance ==
  ASSUME TypeOK, call \in [Threads -> Calls \cup {NoCall}], Balanced,
         NEW t \in Threads, call[t] = NoCall,
         NEW d \in Calls, d # NoCall, call' = [call EXCEPT ![t] = d],
         Charge(d) = d.old_size, NetCharge(d) = d.old_size,
         d.api = "Heap" => LiveCharge(d) = d.old_size,
         NEW q \in Addresses, owned[q] # None,
         owned[q].pool = d.pool, owned[q].api = d.api, block[q] = d.old_size,
         owned' = [owned EXCEPT ![q] = None],
         UNCHANGED <<block, CurrentBytes, NetBytes, CurrentLiveBytes>>
  PROVE  Balanced'
<1>0. call'[t] = d /\ owned'[q] = None
  BY DEF TypeOK
<1>1. /\ owned' \in [Addresses -> Requests \cup {None}]
      /\ block' \in [Addresses -> Sizes \cup {0}]
      /\ \A a \in Addresses \ {q} :
           owned'[a] = owned[a] /\ (owned[a] # None => block'[a] = block[a])
  BY DEF TypeOK
<1>2. d.old_size \in Nat
  BY ChargeFacts
<1>3. ASSUME NEW p \in Pools
      PROVE  /\ CurrentBytes'[p] = SumOver(Charges(p)', Threads) + SumOver(BytesIn(p)', Addresses)
             /\ NetBytes'[p] = SumOver(NetCharges(p)', Threads) + SumOver(BytesIn(p)', Addresses)
  <2>1. /\ SumOver(Charges(p), Threads) \in Nat
        /\ SumOver(Charges(p)', Threads)
             = SumOver(Charges(p), Threads) + Charges(p)'[t] - Charges(p)[t]
        /\ SumOver(NetCharges(p), Threads) \in Nat
        /\ SumOver(NetCharges(p)', Threads)
             = SumOver(NetCharges(p), Threads) + NetCharges(p)'[t] - NetCharges(p)[t]
    BY CallTotals
  <2>2. /\ SumOver(BytesIn(p), Addresses) \in Nat
        /\ SumOver(BytesIn(p)', Addresses)
             = SumOver(BytesIn(p), Addresses) + BytesIn(p)'[q] - BytesIn(p)[q]
    BY <1>1, OwnerTotals
  <2>3. /\ Charges(p)[t] = 0 /\ NetCharges(p)[t] = 0
        /\ Charges(p)'[t] = IF p = d.pool THEN d.old_size ELSE 0
        /\ NetCharges(p)'[t] = IF p = d.pool THEN d.old_size ELSE 0
    BY <1>0 DEF Charges, NetCharges
  <2>4. /\ BytesIn(p)[q] = IF p = d.pool THEN d.old_size ELSE 0
        /\ BytesIn(p)'[q] = 0
    BY <1>0 DEF BytesIn
  <2>5. /\ CurrentBytes[p] = SumOver(Charges(p), Threads) + SumOver(BytesIn(p), Addresses)
        /\ NetBytes[p] = SumOver(NetCharges(p), Threads) + SumOver(BytesIn(p), Addresses)
    BY DEF Balanced
  <2>6. CurrentBytes' = CurrentBytes /\ NetBytes' = NetBytes
    OBVIOUS
  <2> QED BY <1>2, <2>1, <2>2, <2>3, <2>4, <2>5, <2>6
<1>4. CurrentLiveBytes' = SumOver(LiveCharges', Threads) + SumOver(HeapBytes', Addresses)
  <2>1. /\ SumOver(LiveCharges, Threads) \in Nat
        /\ SumOver(LiveCharges', Threads)
             = SumOver(LiveCharges, Threads) + LiveCharges'[t] - LiveCharges[t]
    BY CallTotals
  <2>2. /\ SumOver(HeapBytes, Addresses) \in Nat
        /\ SumOver(HeapBytes', Addresses)
             = SumOver(HeapBytes, Addresses) + HeapBytes'[q] - HeapBytes[q]
    BY <1>1, OwnerTotals
  <2>3. /\ LiveCharges[t] = 0
        /\ LiveCharges'[t] = IF d.api = "Heap" THEN d.old_size ELSE 0
    BY <1>0 DEF LiveCharges
  <2>4. /\ HeapBytes[q] = IF d.api = "Heap" THEN d.old_size ELSE 0
        /\ HeapBytes'[q] = 0
    BY <1>0 DEF HeapBytes
  <2>5. CurrentLiveBytes = SumOver(LiveCharges, Threads) + SumOver(HeapBytes, Addresses)
    BY DEF Balanced
  <2>6. CurrentLiveBytes' = CurrentLiveBytes
    OBVIOUS
  <2> QED BY <1>2, <2>1, <2>2, <2>3, <2>4, <2>5, <2>6
<1> QED BY <1>3, <1>4 DEF Balanced

\* A call begins without a block: it is charged nothing yet.
LEMMA BeginEmptyBalance ==
  ASSUME TypeOK, call \in [Threads -> Calls \cup {NoCall}], Balanced,
         NEW t \in Threads, call[t] = NoCall,
         NEW d \in Calls, d # NoCall, call' = [call EXCEPT ![t] = d],
         Charge(d) = 0, NetCharge(d) = 0, d.api = "Heap" => LiveCharge(d) = 0,
         UNCHANGED <<owned, block, CurrentBytes, NetBytes, CurrentLiveBytes>>
  PROVE  Balanced'
<1>0. call'[t] = d
  OBVIOUS
<1>1. ASSUME NEW p \in Pools
      PROVE  /\ Charges(p)' = Charges(p) /\ NetCharges(p)' = NetCharges(p)
             /\ BytesIn(p)' = BytesIn(p)
  BY <1>0 DEF Charges, NetCharges, BytesIn
<1>2. LiveCharges' = LiveCharges /\ HeapBytes' = HeapBytes
  BY <1>0 DEF LiveCharges, HeapBytes
<1> QED BY <1>1, <1>2 DEF Balanced

\* A call ends with a block: the bytes it is still charged are those of the block.
LEMMA EndBalance ==
  ASSUME TypeOK, call \in [Threads -> Calls \cup {NoCall}], Balanced,
         NEW t \in Threads, NEW c \in Calls, c = call[t], c # NoCall,
         call' = [call EXCEPT ![t] = NoCall],
         NEW q \in Addresses, owned[q] = None,
         NEW r \in Requests, r.pool = c.pool, r.api = c.api,
         NetCharge(c) = block[q], c.api = "Heap" => LiveCharge(c) = block[q],
         owned' = [owned EXCEPT ![q] = r],
         UNCHANGED <<block, NetBytes, CurrentLiveBytes>>,
         \A p \in Pools : CurrentBytes'[p]
           = CurrentBytes[p] - (IF p = c.pool THEN Charge(c) - block[q] ELSE 0)
  PROVE  Balanced' /\ \A p \in Pools : CurrentBytes'[p] \in Nat
<1>0. call'[t] = NoCall /\ owned'[q] = r /\ r # None
  BY NoneAssumption DEF TypeOK
<1>1. /\ owned' \in [Addresses -> Requests \cup {None}]
      /\ block' \in [Addresses -> Sizes \cup {0}]
      /\ \A a \in Addresses \ {q} :
           owned'[a] = owned[a] /\ (owned[a] # None => block'[a] = block[a])
  BY DEF TypeOK
<1>2. block[q] \in Nat /\ Charge(c) \in Nat /\ NetCharge(c) \in Nat /\ LiveCharge(c) \in Nat
  <2>1. block[q] \in Sizes \cup {0}
    BY DEF TypeOK
  <2> QED BY <2>1, SizesAreNumbers, ChargeFacts
<1>3. ASSUME NEW p \in Pools
      PROVE  /\ CurrentBytes'[p] = SumOver(Charges(p)', Threads) + SumOver(BytesIn(p)', Addresses)
             /\ NetBytes'[p] = SumOver(NetCharges(p)', Threads) + SumOver(BytesIn(p)', Addresses)
             /\ CurrentBytes'[p] \in Nat
  <2>1. /\ SumOver(Charges(p), Threads) \in Nat
        /\ SumOver(Charges(p)', Threads) \in Nat
        /\ SumOver(Charges(p)', Threads)
             = SumOver(Charges(p), Threads) + Charges(p)'[t] - Charges(p)[t]
        /\ SumOver(NetCharges(p), Threads) \in Nat
        /\ SumOver(NetCharges(p)', Threads)
             = SumOver(NetCharges(p), Threads) + NetCharges(p)'[t] - NetCharges(p)[t]
    BY CallTotals
  <2>2. /\ SumOver(BytesIn(p), Addresses) \in Nat
        /\ SumOver(BytesIn(p)', Addresses) \in Nat
        /\ SumOver(BytesIn(p)', Addresses)
             = SumOver(BytesIn(p), Addresses) + BytesIn(p)'[q] - BytesIn(p)[q]
    BY <1>1, OwnerTotals
  <2>3. /\ Charges(p)'[t] = 0 /\ NetCharges(p)'[t] = 0
        /\ Charges(p)[t] = IF p = c.pool THEN Charge(c) ELSE 0
        /\ NetCharges(p)[t] = IF p = c.pool THEN NetCharge(c) ELSE 0
    BY <1>0 DEF Charges, NetCharges
  <2>4. /\ BytesIn(p)'[q] = IF p = c.pool THEN block[q] ELSE 0
        /\ BytesIn(p)[q] = 0
    BY <1>0 DEF BytesIn
  <2>5. /\ CurrentBytes[p] = SumOver(Charges(p), Threads) + SumOver(BytesIn(p), Addresses)
        /\ NetBytes[p] = SumOver(NetCharges(p), Threads) + SumOver(BytesIn(p), Addresses)
    BY DEF Balanced
  <2>6. /\ CurrentBytes'[p]
             = CurrentBytes[p] - (IF p = c.pool THEN Charge(c) - block[q] ELSE 0)
        /\ NetBytes' = NetBytes
    OBVIOUS
  <2> QED BY <1>2, <2>1, <2>2, <2>3, <2>4, <2>5, <2>6
<1>4. CurrentLiveBytes' = SumOver(LiveCharges', Threads) + SumOver(HeapBytes', Addresses)
  <2>1. /\ SumOver(LiveCharges, Threads) \in Nat
        /\ SumOver(LiveCharges', Threads)
             = SumOver(LiveCharges, Threads) + LiveCharges'[t] - LiveCharges[t]
    BY CallTotals
  <2>2. /\ SumOver(HeapBytes, Addresses) \in Nat
        /\ SumOver(HeapBytes', Addresses)
             = SumOver(HeapBytes, Addresses) + HeapBytes'[q] - HeapBytes[q]
    BY <1>1, OwnerTotals
  <2>3. /\ LiveCharges'[t] = 0
        /\ LiveCharges[t] = IF c.api = "Heap" THEN block[q] ELSE 0
    BY <1>0 DEF LiveCharges
  <2>4. /\ HeapBytes'[q] = IF c.api = "Heap" THEN block[q] ELSE 0
        /\ HeapBytes[q] = 0
    BY <1>0 DEF HeapBytes
  <2>5. CurrentLiveBytes = SumOver(LiveCharges, Threads) + SumOver(HeapBytes, Addresses)
    BY DEF Balanced
  <2>6. CurrentLiveBytes' = CurrentLiveBytes
    OBVIOUS
  <2> QED BY <1>2, <2>1, <2>2, <2>3, <2>4, <2>5, <2>6
<1> QED BY <1>3, <1>4 DEF Balanced

\* A call ends without a block: it is charged nothing any more.
LEMMA EndEmptyBalance ==
  ASSUME TypeOK, call \in [Threads -> Calls \cup {NoCall}], Balanced,
         NEW t \in Threads, NEW c \in Calls, c = call[t], c # NoCall,
         call' = [call EXCEPT ![t] = NoCall],
         NetCharge(c) = 0, c.api = "Heap" => LiveCharge(c) = 0,
         UNCHANGED <<owned, block, NetBytes, CurrentLiveBytes>>,
         \A p \in Pools : CurrentBytes'[p]
           = CurrentBytes[p] - (IF p = c.pool THEN Charge(c) ELSE 0)
  PROVE  Balanced' /\ \A p \in Pools : CurrentBytes'[p] \in Nat
<1>0. call'[t] = NoCall
  OBVIOUS
<1>1. Charge(c) \in Nat
  BY ChargeFacts
<1>2. ASSUME NEW p \in Pools
      PROVE  /\ CurrentBytes'[p] = SumOver(Charges(p)', Threads) + SumOver(BytesIn(p)', Addresses)
             /\ NetBytes'[p] = SumOver(NetCharges(p)', Threads) + SumOver(BytesIn(p)', Addresses)
             /\ CurrentBytes'[p] \in Nat
  <2>1. /\ SumOver(Charges(p), Threads) \in Nat
        /\ SumOver(Charges(p)', Threads) \in Nat
        /\ SumOver(Charges(p)', Threads)
             = SumOver(Charges(p), Threads) + Charges(p)'[t] - Charges(p)[t]
    BY CallTotals
  <2>2. SumOver(BytesIn(p), Addresses) \in Nat /\ BytesIn(p)' = BytesIn(p)
    BY OwnerTotalsSame
  <2>3. /\ Charges(p)'[t] = 0
        /\ Charges(p)[t] = IF p = c.pool THEN Charge(c) ELSE 0
    BY <1>0 DEF Charges
  <2>4. NetCharges(p)' = NetCharges(p)
    BY <1>0 DEF NetCharges
  <2>5. /\ CurrentBytes[p] = SumOver(Charges(p), Threads) + SumOver(BytesIn(p), Addresses)
        /\ NetBytes[p] = SumOver(NetCharges(p), Threads) + SumOver(BytesIn(p), Addresses)
    BY DEF Balanced
  <2>6. /\ CurrentBytes'[p] = CurrentBytes[p] - (IF p = c.pool THEN Charge(c) ELSE 0)
        /\ NetBytes' = NetBytes
    OBVIOUS
  <2>7. NetBytes'[p] = SumOver(NetCharges(p)', Threads) + SumOver(BytesIn(p)', Addresses)
    BY <2>2, <2>4, <2>5, <2>6
  <2>8. /\ CurrentBytes'[p] = SumOver(Charges(p)', Threads) + SumOver(BytesIn(p)', Addresses)
        /\ CurrentBytes'[p] \in Nat
    BY <1>1, <2>1, <2>2, <2>3, <2>5, <2>6
  <2> QED BY <2>7, <2>8
<1>3. LiveCharges' = LiveCharges /\ HeapBytes' = HeapBytes
  BY <1>0 DEF LiveCharges, HeapBytes
<1> QED BY <1>2, <1>3 DEF Balanced

-----------------------------------------------------------------------------
(* The steps.                                                              *)

\* What a step leaves of the charges of its call.
LEMMA NextCharges ==
  ASSUME NEW c, NEW d, Among(d.todo) = Among(c.todo) \ {Head(c.todo)},
         d.old_size = c.old_size, d.size = c.size
  PROVE  /\ Growth(d) = Growth(c)
         /\ Head(c.todo) \notin {"Reserve", "Account", "Cancel"} => Charge(d) = Charge(c)
         /\ Head(c.todo) \notin {"Account", "Cancel"} => NetCharge(d) = NetCharge(c)
         /\ Head(c.todo) \notin {"Measure", "Cancel"} => LiveCharge(d) = LiveCharge(c)
<1>1. Growth(d) = Growth(c)
  BY DEF Growth
<1> QED BY <1>1 DEF Charge, NetCharge, LiveCharge, Due

\* Most steps leave a call at the same stage: it keeps the block it had.
LEMMA SameStage ==
  ASSUME NEW c, CallOK(c),
         Head(c.todo) \in
           {"Find", "Reserve", "Account", "Track", "Forget", "Untrack", "Measure"},
         NEW d, d = Advanced(c)
  PROVE  /\ CallOK(d) /\ Keeping(d) = Keeping(c)
         /\ Held(d) = Held(c) /\ HeldSize(d) = HeldSize(c)
<1>1. /\ c \in Calls /\ c.todo \in Todos(c.api)
      /\ Head(c.todo) # "Return" /\ Head(c.todo) # "Cancel"
  BY DEF CallOK
<1>2. Ordered(c.api, c.todo)
  BY CallRuns
<1>3. /\ d \in Calls /\ d # NoCall
      /\ d.todo \in Todos(c.api)
      /\ Among(d.todo) = Among(c.todo) \ {Head(c.todo)}
      /\ d.api = c.api /\ d.pool = c.pool /\ d.tracked = c.tracked
      /\ d.old_pointer = c.old_pointer /\ d.old_size = c.old_size
      /\ d.pointer = c.pointer /\ d.size = c.size
      /\ d.found = c.found /\ d.mine = c.mine
  BY <1>1, NextCall
<1>4. Head(c.todo) \notin {"Obtain", "Release", "Cancel", "Look"}
  OBVIOUS
<1>5. Keeping(d) = Keeping(c)
  BY <1>3, <1>4 DEF Keeping, Due
<1>6. Held(d) = Held(c) /\ HeldSize(d) = HeldSize(c)
  BY <1>3, <1>5 DEF Held, HeldSize
<1>7. Due(d, "Obtain") => (Due(d, "Forget") <=> Due(c, "Forget"))
  BY <1>2, <1>3 DEF Ordered, Due
<1>8. CallOK(d)
  BY <1>3, <1>4, <1>5, <1>7 DEF CallOK, Due
<1> QED BY <1>5, <1>6, <1>8

\* A step that touches neither the memory nor the records.
LEMMA QuietStep ==
  ASSUME IInv, NEW t \in Threads, ~Idle(t),
         NEW c, c = call[t],
         NEW d, CallOK(d), CallKeeps(d), call' = [call EXCEPT ![t] = d],
         Held(d) = Held(c),
         \A a \in Addresses : Has(c, a) => Has(d, a),
         UNCHANGED <<live, block, owned>>
  PROVE  CallsSound' /\ CallsApart' /\ OwnersSound' /\ RecordsKnown'
<1>1. /\ TypeOK /\ call \in [Threads -> Calls \cup {NoCall}]
      /\ CallsSound /\ CallsApart /\ OwnersSound /\ RecordsKnown
  BY DEF IInv
<1>2. d # NoCall
  BY CallRuns
<1>3. CallKeeps(d)'
  BY DEF CallKeeps
<1>4. \A u \in Threads \ {t} :
        (d # NoCall /\ ~Idle(u) /\ Held(d) # Null) => Held(d) # Held(call[u])
  BY <1>1 DEF CallsApart
<1>5. PICK X \in SUBSET Addresses : X = {}
  OBVIOUS
<1>6. \A a \in Addresses \ X :
        (~Idle(t) /\ Has(call[t], a) /\ live'[a] # None) =>
          owned'[a] # None \/ (d # NoCall /\ Has(d, a))
  BY <1>2
<1>7. \A a \in Addresses \ X :
        /\ owned'[a] = owned[a] /\ block'[a] = block[a]
        /\ live'[a] = live[a] \/ live'[a] = None
  OBVIOUS
<1>8. \A u \in Threads \ {t} : ~Idle(u) => Held(call[u]) \notin X
  BY <1>5
<1>9. /\ \A a \in X : owned'[a] # None =>
           /\ block'[a] # 0
           /\ Route(owned'[a].api, block'[a]) = Area[a]
           /\ live'[a] = None \/ live'[a] = RecordOf(block'[a], owned'[a].pool)
      /\ \A a \in X : live'[a] # None =>
           \/ owned'[a] # None
           \/ d # NoCall /\ Has(d, a)
           \/ \E u \in Threads \ {t} : ~Idle(u) /\ Has(call[u], a)
  BY <1>5
<1> QED BY <1>1, <1>3, <1>4, <1>6, <1>7, <1>8, <1>9, Apart

\* What the invariant says of a call that runs.
LEMMA Running ==
  ASSUME IInv, NEW t \in Threads, ~Idle(t)
  PROVE  /\ CallOK(call[t]) /\ CallKeeps(call[t])
         /\ call[t] \in Calls /\ call[t] # NoCall
         /\ call[t].api \in {"Heap", "Default"}
         /\ call[t].todo \in Todos(call[t].api)
         /\ Ordered(call[t].api, call[t].todo)
         /\ TypeOK /\ call \in [Threads -> Calls \cup {NoCall}] /\ Balanced
         /\ Head(call[t].todo) \in Among(call[t].todo)
<1>1. CallOK(call[t]) /\ CallKeeps(call[t])
  BY DEF IInv, CallsSound
<1>2. call[t].todo \in Todos(call[t].api)
  BY <1>1 DEF CallOK
<1> QED BY <1>1, <1>2, CallRuns DEF IInv, Ordered

\* A step that only takes the next step off the list, and may change an account.
LEMMA PlainStep ==
  ASSUME IInv, NEW t \in Threads, ~Idle(t), NEW c, c = call[t],
         Head(c.todo) \in {"Find", "Reserve", "Account", "Measure"},
         NEW d, d = Advanced(c), call' = [call EXCEPT ![t] = d],
         UNCHANGED <<live, block, owned>>
  PROVE  /\ CallsSound' /\ CallsApart' /\ OwnersSound' /\ RecordsKnown'
<1>1. /\ CallOK(c) /\ CallKeeps(c) /\ c \in Calls /\ c # NoCall
      /\ c.todo \in Todos(c.api) /\ Ordered(c.api, c.todo)
      /\ call \in [Threads -> Calls \cup {NoCall}]
  BY Running
<1>2. /\ d \in Calls /\ d # NoCall
      /\ d.todo \in Todos(c.api)
      /\ Among(d.todo) = Among(c.todo) \ {Head(c.todo)}
      /\ d.api = c.api /\ d.pool = c.pool /\ d.tracked = c.tracked
      /\ d.old_pointer = c.old_pointer /\ d.old_size = c.old_size
      /\ d.pointer = c.pointer /\ d.size = c.size
      /\ d.found = c.found /\ d.mine = c.mine
  BY <1>1, NextCall
<1>3. /\ CallOK(d) /\ Keeping(d) = Keeping(c)
      /\ Held(d) = Held(c) /\ HeldSize(d) = HeldSize(c)
  BY <1>1, SameStage
<1>4. CallKeeps(d)
  BY <1>1, <1>2, <1>3 DEF CallKeeps, Due
<1>5. \A a \in Addresses : Has(c, a) => Has(d, a)
  BY <1>2, <1>3 DEF Has, Due
<1>6. CallsSound' /\ CallsApart' /\ OwnersSound' /\ RecordsKnown'
  BY <1>3, <1>4, <1>5, QuietStep
<1> QED BY <1>6

LEMMA ReserveKeeps ==
  ASSUME IInv, NEW t \in Threads, Reserve(t)
  PROVE  IInv'
<1>0. PICK c, d : c = call[t] /\ d = Advanced(c)
  OBVIOUS
<1>1. /\ ~Idle(t) /\ Head(c.todo) = "Reserve" /\ call' = [call EXCEPT ![t] = d]
      /\ UNCHANGED <<NetBytes, CurrentLiveBytes, live, block, owned>>
      /\ Growth(c) > 0 => CurrentBytes[c.pool] + Growth(c) <= Budget
      /\ CurrentBytes' = [CurrentBytes EXCEPT ![c.pool] = @ + Growth(c)]
  BY <1>0 DEF Reserve, At, Proceed, Advanced
<1>2. /\ c \in Calls /\ c # NoCall /\ c.todo \in Todos(c.api)
      /\ TypeOK /\ call \in [Threads -> Calls \cup {NoCall}] /\ Balanced
      /\ Ordered(c.api, c.todo) /\ Head(c.todo) \in Among(c.todo)
  BY <1>0, <1>1, Running
<1>a. CallsSound' /\ CallsApart' /\ OwnersSound' /\ RecordsKnown'
  BY <1>0, <1>1, PlainStep
<1>3. /\ d \in Calls /\ d # NoCall
      /\ d.todo \in Todos(c.api)
      /\ Among(d.todo) = Among(c.todo) \ {Head(c.todo)}
      /\ d.api = c.api /\ d.pool = c.pool /\ d.tracked = c.tracked
      /\ d.old_pointer = c.old_pointer /\ d.old_size = c.old_size
      /\ d.pointer = c.pointer /\ d.size = c.size
      /\ d.found = c.found /\ d.mine = c.mine
  BY <1>0, <1>1, <1>2, NextCall
<1>4. /\ Growth(d) = Growth(c) /\ NetCharge(d) = NetCharge(c) /\ LiveCharge(d) = LiveCharge(c)
  BY <1>1, <1>3, NextCharges
<1>5. Due(c, "Reserve") /\ Due(c, "Account")
  BY <1>1, <1>2 DEF Ordered, Due
<1>6. Charge(c) = c.old_size /\ Charge(d) = c.old_size + Growth(c)
  BY <1>1, <1>3, <1>4, <1>5 DEF Charge, Due
<1>b. call' \in [Threads -> Calls \cup {NoCall}]
  BY <1>1, <1>2, <1>3
<1>7. /\ Charge(c) \in Nat /\ NetCharge(c) \in Nat /\ LiveCharge(c) \in Nat
      /\ Growth(c) \in Nat /\ c.old_size \in Nat /\ c.pool \in Pools
  BY <1>2, ChargeFacts DEF Calls
<1>8. /\ \A p \in Pools : CurrentBytes[p] \in Int /\ NetBytes[p] \in Int
      /\ CurrentLiveBytes \in Int
  BY <1>2 DEF TypeOK
<1>9. /\ \A p \in Pools :
           /\ CurrentBytes'[p]
                = CurrentBytes[p] + (IF p = c.pool THEN Charge(d) - Charge(c) ELSE 0)
           /\ NetBytes'[p]
                = NetBytes[p] + (IF p = c.pool THEN NetCharge(d) - NetCharge(c) ELSE 0)
      /\ CurrentLiveBytes' = CurrentLiveBytes
           + (IF c.api = "Heap" THEN LiveCharge(d) - LiveCharge(c) ELSE 0)
  BY <1>1, <1>2, <1>4, <1>6, <1>7, <1>8 DEF TypeOK
<1>10. Balanced'
  <2>2. \A a \in Addresses :
           owned'[a] = owned[a] /\ (owned[a] # None => block'[a] = block[a])
    BY <1>1
  <2>3. c = call[t] /\ call' = [call EXCEPT ![t] = d] /\ d.pool = c.pool /\ d.api = c.api
        /\ c \in Calls /\ d \in Calls /\ d # NoCall /\ c # NoCall
    BY <1>0, <1>1, <1>2, <1>3
  <2> QED BY <2>2, <2>3, <1>2, <1>9, StepBalance
<1>11. TypeOK'
  <2>1. CurrentBytes' \in [Pools -> 0..Budget]
    BY <1>1, <1>2, <1>7, BudgetAssumption DEF TypeOK
  <2> QED BY <2>1, <1>1, <1>2 DEF TypeOK
<1> QED BY <1>a, <1>b, <1>10, <1>11 DEF IInv

LEMMA AccountKeeps ==
  ASSUME IInv, NEW t \in Threads, Account(t)
  PROVE  IInv'
<1>0. PICK c, d : c = call[t] /\ d = Advanced(c)
  OBVIOUS
<1>1. /\ ~Idle(t) /\ Head(c.todo) = "Account" /\ call' = [call EXCEPT ![t] = d]
      /\ UNCHANGED <<CurrentLiveBytes, live, block, owned>>
      /\ CurrentBytes' = [CurrentBytes EXCEPT ![c.pool] = @ - Shrinkage(c)]
      /\ NetBytes' = [NetBytes EXCEPT ![c.pool] = @ + Growth(c) - Shrinkage(c)]
  BY <1>0 DEF Account, At, Proceed, Advanced
<1>2. /\ c \in Calls /\ c # NoCall /\ c.todo \in Todos(c.api)
      /\ TypeOK /\ call \in [Threads -> Calls \cup {NoCall}] /\ Balanced
      /\ Ordered(c.api, c.todo) /\ Head(c.todo) \in Among(c.todo)
  BY <1>0, <1>1, Running
<1>a. CallsSound' /\ CallsApart' /\ OwnersSound' /\ RecordsKnown'
  BY <1>0, <1>1, PlainStep
<1>3. /\ d \in Calls /\ d # NoCall
      /\ d.todo \in Todos(c.api)
      /\ Among(d.todo) = Among(c.todo) \ {Head(c.todo)}
      /\ d.api = c.api /\ d.pool = c.pool /\ d.tracked = c.tracked
      /\ d.old_pointer = c.old_pointer /\ d.old_size = c.old_size
      /\ d.pointer = c.pointer /\ d.size = c.size
      /\ d.found = c.found /\ d.mine = c.mine
  BY <1>0, <1>1, <1>2, NextCall
<1>4. Growth(d) = Growth(c) /\ LiveCharge(d) = LiveCharge(c)
  BY <1>1, <1>3, NextCharges
<1>5. Due(c, "Account") /\ ~Due(c, "Reserve") /\ ~Due(c, "Cancel")
  BY <1>1, <1>2 DEF Ordered, Due
<1>6. /\ Charge(c) = c.old_size + Growth(c) /\ Charge(d) = c.size
      /\ NetCharge(c) = c.old_size /\ NetCharge(d) = c.size
  BY <1>1, <1>3, <1>4, <1>5 DEF Charge, NetCharge, Due
<1>b. call' \in [Threads -> Calls \cup {NoCall}]
  BY <1>1, <1>2, <1>3
<1>7. /\ Charge(c) \in Nat /\ NetCharge(c) \in Nat /\ LiveCharge(c) \in Nat
      /\ Growth(c) \in Nat /\ Shrinkage(c) \in Nat /\ c.old_size \in Nat /\ c.pool \in Pools
      /\ c.size = c.old_size + Growth(c) - Shrinkage(c)
  BY <1>2, ChargeFacts DEF Calls
<1>8. /\ \A p \in Pools : CurrentBytes[p] \in Int /\ NetBytes[p] \in Int
      /\ CurrentLiveBytes \in Int
  BY <1>2 DEF TypeOK
<1>9. /\ \A p \in Pools :
           /\ CurrentBytes'[p]
                = CurrentBytes[p] + (IF p = c.pool THEN Charge(d) - Charge(c) ELSE 0)
           /\ NetBytes'[p]
                = NetBytes[p] + (IF p = c.pool THEN NetCharge(d) - NetCharge(c) ELSE 0)
      /\ CurrentLiveBytes' = CurrentLiveBytes
           + (IF c.api = "Heap" THEN LiveCharge(d) - LiveCharge(c) ELSE 0)
  BY <1>1, <1>2, <1>4, <1>6, <1>7, <1>8 DEF TypeOK
<1>10. Balanced' /\ \A p \in Pools : CurrentBytes'[p] \in Nat
  <2>2. \A a \in Addresses :
           owned'[a] = owned[a] /\ (owned[a] # None => block'[a] = block[a])
    BY <1>1
  <2>3. c = call[t] /\ call' = [call EXCEPT ![t] = d] /\ d.pool = c.pool /\ d.api = c.api
        /\ c \in Calls /\ d \in Calls /\ d # NoCall /\ c # NoCall
    BY <1>0, <1>1, <1>2, <1>3
  <2> QED BY <2>2, <2>3, <1>2, <1>9, StepBalance
<1>11. TypeOK'
  <2>1. CurrentBytes' \in [Pools -> 0..Budget]
    <3>1. \A p \in Pools : CurrentBytes'[p] <= CurrentBytes[p]
      BY <1>1, <1>2, <1>7, <1>8 DEF TypeOK
    <3>2. CurrentBytes' \in [Pools -> Int]
      BY <1>1, <1>2, <1>7 DEF TypeOK
    <3>3. \A p \in Pools : CurrentBytes[p] <= Budget /\ CurrentBytes[p] \in Int
      BY <1>2, BudgetAssumption DEF TypeOK
    <3>4. \A p \in Pools : CurrentBytes'[p] \in 0..Budget
      BY <3>1, <3>3, <1>10, BudgetAssumption
    <3> QED BY <3>2, <3>4
  <2>2. NetBytes' \in [Pools -> Int]
    BY <1>1, <1>2, <1>7 DEF TypeOK
  <2> QED BY <2>1, <2>2, <1>1, <1>2 DEF TypeOK
<1> QED BY <1>a, <1>b, <1>10, <1>11 DEF IInv

LEMMA MeasureKeeps ==
  ASSUME IInv, NEW t \in Threads, Measure(t)
  PROVE  IInv'
<1>0. PICK c, d : c = call[t] /\ d = Advanced(c)
  OBVIOUS
<1>1. /\ ~Idle(t) /\ Head(c.todo) = "Measure" /\ call' = [call EXCEPT ![t] = d]
      /\ UNCHANGED <<CurrentBytes, NetBytes, live, block, owned>>
      /\ CurrentLiveBytes' = CurrentLiveBytes + Growth(c) - Shrinkage(c)
  BY <1>0 DEF Measure, pools, At, Proceed, Advanced
<1>2. /\ c \in Calls /\ c # NoCall /\ c.todo \in Todos(c.api)
      /\ TypeOK /\ call \in [Threads -> Calls \cup {NoCall}] /\ Balanced
      /\ Ordered(c.api, c.todo) /\ Head(c.todo) \in Among(c.todo)
  BY <1>0, <1>1, Running
<1>a. CallsSound' /\ CallsApart' /\ OwnersSound' /\ RecordsKnown'
  BY <1>0, <1>1, PlainStep
<1>3. /\ d \in Calls /\ d # NoCall
      /\ d.todo \in Todos(c.api)
      /\ Among(d.todo) = Among(c.todo) \ {Head(c.todo)}
      /\ d.api = c.api /\ d.pool = c.pool /\ d.tracked = c.tracked
      /\ d.old_pointer = c.old_pointer /\ d.old_size = c.old_size
      /\ d.pointer = c.pointer /\ d.size = c.size
      /\ d.found = c.found /\ d.mine = c.mine
  BY <1>0, <1>1, <1>2, NextCall
<1>4. /\ Growth(d) = Growth(c) /\ NetCharge(d) = NetCharge(c) /\ Charge(d) = Charge(c)
  BY <1>1, <1>3, NextCharges
<1>5. c.api = "Heap" /\ Due(c, "Measure") /\ ~Due(c, "Cancel")
  BY <1>1, <1>2 DEF Ordered, Due
<1>6. LiveCharge(c) = c.old_size /\ LiveCharge(d) = c.size
  BY <1>1, <1>3, <1>5 DEF LiveCharge, Due
<1>b. call' \in [Threads -> Calls \cup {NoCall}]
  BY <1>1, <1>2, <1>3
<1>7. /\ Charge(c) \in Nat /\ NetCharge(c) \in Nat /\ LiveCharge(c) \in Nat
      /\ Growth(c) \in Nat /\ Shrinkage(c) \in Nat /\ c.old_size \in Nat /\ c.pool \in Pools
      /\ c.size = c.old_size + Growth(c) - Shrinkage(c)
  BY <1>2, ChargeFacts DEF Calls
<1>8. /\ \A p \in Pools : CurrentBytes[p] \in Int /\ NetBytes[p] \in Int
      /\ CurrentLiveBytes \in Int
  BY <1>2 DEF TypeOK
<1>9. /\ \A p \in Pools :
           /\ CurrentBytes'[p]
                = CurrentBytes[p] + (IF p = c.pool THEN Charge(d) - Charge(c) ELSE 0)
           /\ NetBytes'[p]
                = NetBytes[p] + (IF p = c.pool THEN NetCharge(d) - NetCharge(c) ELSE 0)
      /\ CurrentLiveBytes' = CurrentLiveBytes
           + (IF c.api = "Heap" THEN LiveCharge(d) - LiveCharge(c) ELSE 0)
  BY <1>1, <1>4, <1>5, <1>6, <1>7, <1>8
<1>10. Balanced'
  <2>2. \A a \in Addresses :
           owned'[a] = owned[a] /\ (owned[a] # None => block'[a] = block[a])
    BY <1>1
  <2>3. c = call[t] /\ call' = [call EXCEPT ![t] = d] /\ d.pool = c.pool /\ d.api = c.api
        /\ c \in Calls /\ d \in Calls /\ d # NoCall /\ c # NoCall
    BY <1>0, <1>1, <1>2, <1>3
  <2> QED BY <2>2, <2>3, <1>2, <1>9, StepBalance
<1>11. TypeOK'
  <2>1. CurrentLiveBytes' \in Int
    BY <1>1, <1>7, <1>8
  <2> QED BY <2>1, <1>1, <1>2 DEF TypeOK
<1> QED BY <1>a, <1>b, <1>10, <1>11 DEF IInv

\* A step that leaves the accounts alone, and the charges of its call.
LEMMA SilentStep ==
  ASSUME IInv, NEW t \in Threads, ~Idle(t), NEW c, c = call[t],
         NEW d \in Calls, d # NoCall, call' = [call EXCEPT ![t] = d],
         d.pool = c.pool, d.api = c.api,
         Charge(d) = Charge(c), NetCharge(d) = NetCharge(c),
         c.api = "Heap" => LiveCharge(d) = LiveCharge(c),
         \A a \in Addresses : owned[a] # None => block'[a] = block[a],
         UNCHANGED <<CurrentBytes, NetBytes, CurrentLiveBytes, owned>>,
         live' \in [Addresses -> Records \cup {None}],
         block' \in [Addresses -> Sizes \cup {0}],
         CallsSound', CallsApart', OwnersSound', RecordsKnown'
  PROVE  IInv'
<1>1. /\ c \in Calls /\ c # NoCall /\ TypeOK /\ Balanced
      /\ call \in [Threads -> Calls \cup {NoCall}]
  BY Running
<1>2. /\ Charge(c) \in Nat /\ NetCharge(c) \in Nat /\ LiveCharge(c) \in Nat
  BY <1>1, ChargeFacts
<1>3. /\ \A p \in Pools : CurrentBytes[p] \in Int /\ NetBytes[p] \in Int
      /\ CurrentLiveBytes \in Int
  BY <1>1 DEF TypeOK
<1>4. /\ \A p \in Pools :
           /\ CurrentBytes'[p]
                = CurrentBytes[p] + (IF p = c.pool THEN Charge(d) - Charge(c) ELSE 0)
           /\ NetBytes'[p]
                = NetBytes[p] + (IF p = c.pool THEN NetCharge(d) - NetCharge(c) ELSE 0)
      /\ CurrentLiveBytes' = CurrentLiveBytes
           + (IF c.api = "Heap" THEN LiveCharge(d) - LiveCharge(c) ELSE 0)
  BY <1>2, <1>3
<1>5. \A a \in Addresses :
        owned'[a] = owned[a] /\ (owned[a] # None => block'[a] = block[a])
  OBVIOUS
<1>6. Balanced'
  BY <1>1, <1>4, <1>5, StepBalance
<1>7. TypeOK'
  BY <1>1 DEF TypeOK
<1>8. call' \in [Threads -> Calls \cup {NoCall}]
  BY <1>1
<1> QED BY <1>6, <1>7, <1>8 DEF IInv

\* The record of the block a call was given says what the call knows already.
LEMMA RecordAgrees ==
  ASSUME IInv, NEW t \in Threads, ~Idle(t), NEW c, c = call[t],
         Keeping(c), c.old_pointer # Null, NEW r, r = live[c.old_pointer], r # None
  PROVE  /\ r.size = c.old_size /\ r.pool = c.pool
         /\ [c EXCEPT !.old_size = r.size] = c
         /\ [c EXCEPT !.old_size = r.size, !.pool = r.pool] = c
         /\ [c EXCEPT !.old_size = r.size, !.pool = @] = c
<1>1. CallKeeps(c) /\ c \in Calls
  BY Running
<1>2. Held(c) = c.old_pointer /\ HeldSize(c) = c.old_size
  BY DEF Held, HeldSize
<1>3. r = RecordOf(c.old_size, c.pool)
  BY <1>1, <1>2 DEF CallKeeps
<1>4. r.size = c.old_size /\ r.pool = c.pool
  BY <1>3 DEF RecordOf
<1>5. /\ [c EXCEPT !.old_size = c.old_size] = c
      /\ [c EXCEPT !.old_size = c.old_size, !.pool = c.pool] = c
  BY <1>1 DEF Calls
<1> QED BY <1>4, <1>5

LEMMA FindKeeps ==
  ASSUME IInv, NEW t \in Threads, Find(t)
  PROVE  IInv'
<1>0. PICK c, d : c = call[t] /\ d = Advanced(c)
  OBVIOUS
<1>1. ~Idle(t) /\ Head(c.todo) = "Find"
  BY <1>0 DEF Find, At
<1>2. /\ c \in Calls /\ c # NoCall /\ c.todo \in Todos(c.api) /\ CallOK(c)
      /\ TypeOK /\ Ordered(c.api, c.todo) /\ Head(c.todo) \in Among(c.todo)
  BY <1>0, <1>1, Running
<1>3. Keeping(c) /\ c.old_pointer # Null
  BY <1>1, <1>2 DEF CallOK, Ordered, Due, Keeping
<1>4. PICK r : r = live[c.old_pointer]
  OBVIOUS
<1>5. r # None => [c EXCEPT !.old_size = r.size, !.pool = r.pool] = c
  BY <1>0, <1>1, <1>3, <1>4, RecordAgrees
<1>6. (IF r = None THEN c ELSE [c EXCEPT !.old_size = r.size, !.pool = r.pool]) = c
  BY <1>5
<1>7. /\ Proceed(t, IF r = None THEN c ELSE [c EXCEPT !.old_size = r.size, !.pool = r.pool])
      /\ UNCHANGED <<CurrentBytes, NetBytes, CurrentLiveBytes, live, block, owned>>
  BY <1>0, <1>4, Zenon DEF Find, pools
<1>8. Proceed(t, c)
  BY <1>6, <1>7
<1>9. call' = [call EXCEPT ![t] = d]
  BY <1>0, <1>8 DEF Proceed, Advanced
<1>10. CallsSound' /\ CallsApart' /\ OwnersSound' /\ RecordsKnown'
  BY <1>0, <1>1, <1>7, <1>9, PlainStep
<1>11. /\ d \in Calls /\ d # NoCall
       /\ d.todo \in Todos(c.api)
       /\ Among(d.todo) = Among(c.todo) \ {Head(c.todo)}
       /\ d.api = c.api /\ d.pool = c.pool /\ d.tracked = c.tracked
       /\ d.old_pointer = c.old_pointer /\ d.old_size = c.old_size
       /\ d.pointer = c.pointer /\ d.size = c.size
       /\ d.found = c.found /\ d.mine = c.mine
  BY <1>0, <1>1, <1>2, NextCall
<1>12. Charge(d) = Charge(c) /\ NetCharge(d) = NetCharge(c) /\ LiveCharge(d) = LiveCharge(c)
  BY <1>1, <1>11, NextCharges
<1>13. live' \in [Addresses -> Records \cup {None}] /\ block' \in [Addresses -> Sizes \cup {0}]
  BY <1>2, <1>7 DEF TypeOK
<1> QED BY <1>0, <1>1, <1>7, <1>9, <1>10, <1>11, <1>12, <1>13, SilentStep

\* The backend has no block for the call: what it reserved is to be given back.
LEMMA ObtainFailsKeeps ==
  ASSUME IInv, NEW t \in Threads, ObtainFails(t)
  PROVE  IInv'
<1>0. PICK c, d : c = call[t] /\ d = [c EXCEPT !.todo = <<"Cancel">>]
  OBVIOUS
<1>1. /\ ~Idle(t) /\ Head(c.todo) = "Obtain"
      /\ UNCHANGED <<CurrentBytes, NetBytes, CurrentLiveBytes, live, block, owned>>
  BY <1>0 DEF ObtainFails, At, pools
<1>2. /\ c \in Calls /\ c # NoCall /\ c.todo \in Todos(c.api) /\ CallOK(c) /\ CallKeeps(c)
      /\ TypeOK /\ Ordered(c.api, c.todo) /\ Head(c.todo) \in Among(c.todo)
      /\ c.api \in {"Heap", "Default"} /\ call \in [Threads -> Calls \cup {NoCall}]
  BY <1>0, <1>1, Running
<1>3. call' = [call EXCEPT ![t] = d]
  BY <1>0, <1>2 DEF ObtainFails
<1>4. /\ d.todo = <<"Cancel">>
      /\ d.api = c.api /\ d.pool = c.pool /\ d.tracked = c.tracked
      /\ d.old_pointer = c.old_pointer /\ d.old_size = c.old_size
      /\ d.pointer = c.pointer /\ d.size = c.size
      /\ d.found = c.found /\ d.mine = c.mine
  BY <1>0, <1>2 DEF Calls
<1>5. d.todo \in Todos(c.api) /\ Among(d.todo) = {"Cancel"}
  BY <1>2, <1>4, CancelOrder DEF Todos
<1>6. d \in Calls
  <2>1. d.todo \in Todos("Heap") \cup Todos("Default")
    BY <1>2, <1>5
  <2> QED BY <1>0, <1>2, <2>1 DEF Calls
<1>7. /\ Due(c, "Obtain") /\ Due(c, "Account") /\ ~Due(c, "Reserve") /\ Keeping(c)
      /\ c.api = "Heap" => Due(c, "Measure")
  BY <1>1, <1>2 DEF Ordered, Due, Keeping
<1>8. /\ Due(d, "Cancel") /\ Keeping(d)
      /\ \A step : step # "Cancel" => ~Due(d, step)
  BY <1>5 DEF Due, Keeping
<1>9. CallOK(d)
  BY <1>2, <1>4, <1>5, <1>6, <1>7, <1>8 DEF CallOK
<1>10. Held(d) = Held(c) /\ HeldSize(d) = HeldSize(c)
  BY <1>4, <1>7, <1>8 DEF Held, HeldSize
<1>11. CallKeeps(d)
  BY <1>2, <1>4, <1>7, <1>8, <1>10 DEF CallKeeps
<1>12. \A a \in Addresses : Has(c, a) => Has(d, a)
  BY <1>4, <1>7, <1>10 DEF Has, Held
<1>13. CallsSound' /\ CallsApart' /\ OwnersSound' /\ RecordsKnown'
  BY <1>0, <1>1, <1>3, <1>9, <1>10, <1>11, <1>12, QuietStep
<1>14. d # NoCall
  BY <1>9, CallRuns
<1>15. Growth(d) = Growth(c)
  BY <1>4 DEF Growth
<1>16. /\ Charge(d) = Charge(c) /\ NetCharge(d) = NetCharge(c)
       /\ c.api = "Heap" => LiveCharge(d) = LiveCharge(c)
  BY <1>4, <1>7, <1>8, <1>15 DEF Charge, NetCharge, LiveCharge
<1>17. live' \in [Addresses -> Records \cup {None}] /\ block' \in [Addresses -> Sizes \cup {0}]
  BY <1>1, <1>2 DEF TypeOK
<1> QED BY <1>0, <1>1, <1>3, <1>4, <1>6, <1>13, <1>14, <1>16, <1>17, SilentStep

\* What the other calls have, a call does not.
LEMMA HeldByNoOther ==
  ASSUME IInv, NEW t \in Threads, ~Idle(t), NEW c, c = call[t], Held(c) # Null
  PROVE  \A u \in Threads \ {t} : ~Idle(u) => Held(call[u]) # Held(c)
BY DEF IInv, CallsApart

LEMMA ForgetKeeps ==
  ASSUME IInv, NEW t \in Threads, Forget(t)
  PROVE  IInv'
<1>0. PICK c, d : c = call[t] /\ d = Advanced(c)
  OBVIOUS
<1>1. /\ ~Idle(t) /\ Head(c.todo) = "Forget" /\ call' = [call EXCEPT ![t] = d]
      /\ UNCHANGED <<CurrentBytes, NetBytes, CurrentLiveBytes, block, owned>>
      /\ live' = IF c.found THEN [live EXCEPT ![c.old_pointer] = None] ELSE live
  BY <1>0 DEF Forget, At, pools, Proceed, Advanced, Tracker!Remove
<1>2. /\ c \in Calls /\ c # NoCall /\ c.todo \in Todos(c.api) /\ CallOK(c) /\ CallKeeps(c)
      /\ TypeOK /\ Ordered(c.api, c.todo) /\ Head(c.todo) \in Among(c.todo)
      /\ call \in [Threads -> Calls \cup {NoCall}]
  BY <1>0, <1>1, Running
<1>3. /\ d \in Calls /\ d # NoCall
      /\ d.todo \in Todos(c.api)
      /\ Among(d.todo) = Among(c.todo) \ {Head(c.todo)}
      /\ d.api = c.api /\ d.pool = c.pool /\ d.tracked = c.tracked
      /\ d.old_pointer = c.old_pointer /\ d.old_size = c.old_size
      /\ d.pointer = c.pointer /\ d.size = c.size
      /\ d.found = c.found /\ d.mine = c.mine
  BY <1>0, <1>1, <1>2, NextCall
<1>4. /\ CallOK(d) /\ Keeping(d) = Keeping(c)
      /\ Held(d) = Held(c) /\ HeldSize(d) = HeldSize(c)
  BY <1>0, <1>1, <1>2, SameStage
<1>5. /\ \A a \in Addresses : live'[a] = live[a] \/ live'[a] = None
      /\ live' \in [Addresses -> Records \cup {None}]
  BY <1>1, <1>2 DEF TypeOK
<1>6. Held(c) # Null => Held(c) \in Addresses
  BY <1>2 DEF Calls, Held
<1>7. CallKeeps(c)'
  <2>1. Held(c) # Null =>
          /\ owned'[Held(c)] = owned[Held(c)] /\ block'[Held(c)] = block[Held(c)]
          /\ live'[Held(c)] = live[Held(c)] \/ live'[Held(c)] = None
    BY <1>1, <1>5, <1>6
  <2> QED BY <1>2, <2>1, KeepsWhenUntouched
<1>8. CallKeeps(d)'
  BY <1>1, <1>3, <1>4, <1>7 DEF CallKeeps, Due
<1>9. CallsSound' /\ CallsApart' /\ OwnersSound' /\ RecordsKnown'
  <2>1. PICK X \in SUBSET Addresses : X = {}
    OBVIOUS
  <2>2. /\ CallsSound /\ CallsApart /\ OwnersSound /\ RecordsKnown
    BY DEF IInv
  <2>3. \A a \in Addresses \ X :
           /\ owned'[a] = owned[a] /\ block'[a] = block[a]
           /\ live'[a] = live[a] \/ live'[a] = None
    BY <1>1, <1>5
  <2>4. \A u \in Threads \ {t} : ~Idle(u) => Held(call[u]) \notin X
    BY <2>1
  <2>5. \A u \in Threads \ {t} :
           (d # NoCall /\ ~Idle(u) /\ Held(d) # Null) => Held(d) # Held(call[u])
    BY <1>0, <1>1, <1>4, HeldByNoOther
  <2>6. /\ \A a \in X : owned'[a] # None =>
             /\ block'[a] # 0
             /\ Route(owned'[a].api, block'[a]) = Area[a]
             /\ live'[a] = None \/ live'[a] = RecordOf(block'[a], owned'[a].pool)
        /\ \A a \in X : live'[a] # None =>
             \/ owned'[a] # None
             \/ d # NoCall /\ Has(d, a)
             \/ \E u \in Threads \ {t} : ~Idle(u) /\ Has(call[u], a)
    BY <2>1
  <2>7. \A a \in Addresses \ X :
          (~Idle(t) /\ Has(call[t], a) /\ live'[a] # None) =>
            owned'[a] # None \/ (d # NoCall /\ Has(d, a))
    BY <1>0, <1>1, <1>2, <1>3, <1>4 DEF Has, TypeOK
  <2> QED BY <1>1, <1>2, <1>4, <1>8, <2>2, <2>3, <2>4, <2>5, <2>6, <2>7, Apart
<1>10. Charge(d) = Charge(c) /\ NetCharge(d) = NetCharge(c) /\ LiveCharge(d) = LiveCharge(c)
  BY <1>1, <1>3, NextCharges
<1>11. block' \in [Addresses -> Sizes \cup {0}]
  BY <1>1, <1>2 DEF TypeOK
<1> QED BY <1>0, <1>1, <1>3, <1>5, <1>9, <1>10, <1>11, SilentStep

LEMMA TrackKeeps ==
  ASSUME IInv, NEW t \in Threads, Track(t)
  PROVE  IInv'
<1>0. PICK c, d : c = call[t] /\ d = Advanced(c)
  OBVIOUS
<1>1. /\ ~Idle(t) /\ Head(c.todo) = "Track" /\ call' = [call EXCEPT ![t] = d]
      /\ UNCHANGED <<CurrentBytes, NetBytes, CurrentLiveBytes, block, owned>>
      /\ live' = IF c.tracked /\ (c.pointer \in Tracker!Tracked \/ ~Tracker!Full)
                 THEN [live EXCEPT ![c.pointer] = RecordOf(c.size, c.pool)] ELSE live
  BY <1>0 DEF Track, At, pools, Proceed, Advanced, Tracker!Enter, RecordOf
<1>2. /\ c \in Calls /\ c # NoCall /\ c.todo \in Todos(c.api) /\ CallOK(c) /\ CallKeeps(c)
      /\ TypeOK /\ Ordered(c.api, c.todo) /\ Head(c.todo) \in Among(c.todo)
      /\ call \in [Threads -> Calls \cup {NoCall}]
  BY <1>0, <1>1, Running
<1>3. /\ d \in Calls /\ d # NoCall
      /\ d.todo \in Todos(c.api)
      /\ Among(d.todo) = Among(c.todo) \ {Head(c.todo)}
      /\ d.api = c.api /\ d.pool = c.pool /\ d.tracked = c.tracked
      /\ d.old_pointer = c.old_pointer /\ d.old_size = c.old_size
      /\ d.pointer = c.pointer /\ d.size = c.size
      /\ d.found = c.found /\ d.mine = c.mine
  BY <1>0, <1>1, <1>2, NextCall
<1>4. /\ CallOK(d) /\ Keeping(d) = Keeping(c)
      /\ Held(d) = Held(c) /\ HeldSize(d) = HeldSize(c)
  BY <1>0, <1>1, <1>2, SameStage
<1>5. /\ ~Keeping(c) /\ Due(c, "Track") /\ ~Due(c, "Look") /\ ~Due(c, "Forget")
  BY <1>1, <1>2 DEF Ordered, Due, Keeping
<1>6. PICK p \in Addresses : p = c.pointer /\ p = Held(c) /\ c.size \in Sizes /\ p # Null
  BY <1>2, <1>5, AddressesAssumption DEF CallOK, Calls, Held
<1>7. HeldSize(c) = c.size
  BY <1>5 DEF HeldSize
<1>8. /\ owned[p] = None /\ block[p] = c.size /\ Route(c.api, c.size) = Area[p]
      /\ ~c.tracked => live[p] = None
  BY <1>2, <1>5, <1>6, <1>7 DEF CallKeeps
<1>9. live'[p] = None \/ live'[p] = RecordOf(c.size, c.pool)
  BY <1>1, <1>2, <1>6, <1>8 DEF TypeOK, Tracker!Tracked
<1>10. RecordOf(c.size, c.pool) \in Records
  BY <1>2, <1>6 DEF RecordOf, Records, Calls
<1>11. /\ \A a \in Addresses \ {p} : live'[a] = live[a]
       /\ live' \in [Addresses -> Records \cup {None}]
  BY <1>1, <1>2, <1>6, <1>10 DEF TypeOK
<1>12. ~Due(d, "Track") /\ ~Due(d, "Release") /\ ~Due(d, "Obtain") /\ ~Keeping(d)
  BY <1>1, <1>3, <1>4, <1>5 DEF Due, Keeping
<1>13. CallKeeps(d)'
  BY <1>1, <1>3, <1>4, <1>6, <1>7, <1>8, <1>9, <1>12 DEF CallKeeps
<1>14. CallsSound' /\ CallsApart' /\ OwnersSound' /\ RecordsKnown'
  <2>1. PICK X \in SUBSET Addresses : X = {p}
    OBVIOUS
  <2>2. /\ CallsSound /\ CallsApart /\ OwnersSound /\ RecordsKnown
    BY DEF IInv
  <2>3. \A a \in Addresses \ X :
           /\ owned'[a] = owned[a] /\ block'[a] = block[a]
           /\ live'[a] = live[a] \/ live'[a] = None
    BY <1>1, <1>11, <2>1
  <2>4. \A u \in Threads \ {t} : ~Idle(u) => Held(call[u]) \notin X
    BY <1>0, <1>1, <1>6, <2>1, HeldByNoOther
  <2>5. \A u \in Threads \ {t} :
           (d # NoCall /\ ~Idle(u) /\ Held(d) # Null) => Held(d) # Held(call[u])
    BY <1>0, <1>1, <1>4, HeldByNoOther
  <2>6. /\ \A a \in X : owned'[a] # None =>
             /\ block'[a] # 0
             /\ Route(owned'[a].api, block'[a]) = Area[a]
             /\ live'[a] = None \/ live'[a] = RecordOf(block'[a], owned'[a].pool)
        /\ \A a \in X : live'[a] # None =>
             \/ owned'[a] # None
             \/ d # NoCall /\ Has(d, a)
             \/ \E u \in Threads \ {t} : ~Idle(u) /\ Has(call[u], a)
    BY <1>1, <1>3, <1>4, <1>6, <1>8, <2>1 DEF Has
  <2>7. \A a \in Addresses \ X :
          (~Idle(t) /\ Has(call[t], a) /\ live'[a] # None) =>
            owned'[a] # None \/ (d # NoCall /\ Has(d, a))
    BY <1>0, <1>3, <1>4, <1>5 DEF Has
  <2> QED BY <1>1, <1>2, <1>4, <1>13, <2>2, <2>3, <2>4, <2>5, <2>6, <2>7, Apart
<1>15. Charge(d) = Charge(c) /\ NetCharge(d) = NetCharge(c) /\ LiveCharge(d) = LiveCharge(c)
  BY <1>1, <1>3, NextCharges
<1>16. block' \in [Addresses -> Sizes \cup {0}]
  BY <1>1, <1>2 DEF TypeOK
<1> QED BY <1>0, <1>1, <1>3, <1>11, <1>14, <1>15, <1>16, SilentStep

LEMMA UntrackKeeps ==
  ASSUME IInv, NEW t \in Threads, Untrack(t)
  PROVE  IInv'
<1>0. PICK c, d : c = call[t] /\ d = Advanced(c)
  OBVIOUS
<1>1. /\ ~Idle(t) /\ Head(c.todo) = "Untrack"
  BY <1>0 DEF Untrack, At
<1>2. /\ c \in Calls /\ c # NoCall /\ c.todo \in Todos(c.api) /\ CallOK(c) /\ CallKeeps(c)
      /\ TypeOK /\ Ordered(c.api, c.todo) /\ Head(c.todo) \in Among(c.todo)
      /\ call \in [Threads -> Calls \cup {NoCall}]
  BY <1>0, <1>1, Running
<1>3. /\ d \in Calls /\ d # NoCall
      /\ d.todo \in Todos(c.api)
      /\ Among(d.todo) = Among(c.todo) \ {Head(c.todo)}
      /\ d.api = c.api /\ d.pool = c.pool /\ d.tracked = c.tracked
      /\ d.old_pointer = c.old_pointer /\ d.old_size = c.old_size
      /\ d.pointer = c.pointer /\ d.size = c.size
      /\ d.found = c.found /\ d.mine = c.mine
  BY <1>0, <1>1, <1>2, NextCall
<1>4. /\ CallOK(d) /\ Keeping(d) = Keeping(c)
      /\ Held(d) = Held(c) /\ HeldSize(d) = HeldSize(c)
  BY <1>0, <1>1, <1>2, SameStage
<1>5. /\ Keeping(c) /\ Due(c, "Release")
      /\ ~Due(c, "Obtain") /\ ~Due(c, "Forget") /\ ~Due(c, "Cancel")
  BY <1>1, <1>2 DEF Ordered, Due, Keeping
<1>6. PICK p \in Addresses : p = c.old_pointer /\ p = Held(c) /\ p # Null
  BY <1>2, <1>5, AddressesAssumption DEF CallOK, Calls, Held
<1>7. PICK r : r = live[p]
  OBVIOUS
<1>8. r # None => /\ [c EXCEPT !.old_size = r.size, !.pool = r.pool] = c
                  /\ [c EXCEPT !.old_size = r.size, !.pool = @] = c
  BY <1>0, <1>1, <1>5, <1>6, <1>7, RecordAgrees
<1>9. (IF r = None THEN c
       ELSE [c EXCEPT !.old_size = r.size,
                      !.pool = IF c.api = "Heap" THEN r.pool ELSE @]) = c
  <2>1. CASE r = None
    BY <2>1
  <2>2. CASE r # None /\ c.api = "Heap"
    BY <2>2, <1>8
  <2>3. CASE r # None /\ c.api # "Heap"
    BY <2>3, <1>8
  <2> QED BY <2>1, <2>2, <2>3
<1>10. /\ Proceed(t, IF r = None THEN c
                     ELSE [c EXCEPT !.old_size = r.size,
                                    !.pool = IF c.api = "Heap" THEN r.pool ELSE @])
       /\ UNCHANGED <<CurrentBytes, NetBytes, CurrentLiveBytes, block, owned>>
       /\ live' = [live EXCEPT ![p] = None]
  BY <1>0, <1>6, <1>7, Zenon DEF Untrack, pools, Tracker!Remove
<1>11. Proceed(t, c)
  BY <1>9, <1>10
<1>12. call' = [call EXCEPT ![t] = d]
  BY <1>0, <1>11 DEF Proceed, Advanced
<1>13. /\ live'[p] = None /\ \A a \in Addresses \ {p} : live'[a] = live[a]
       /\ live' \in [Addresses -> Records \cup {None}]
  BY <1>2, <1>6, <1>10 DEF TypeOK
<1>14. CallKeeps(c)'
  BY <1>2, <1>6, <1>10, <1>13, KeepsWhenUntouched
<1>15. CallKeeps(d)'
  BY <1>1, <1>3, <1>4, <1>6, <1>13, <1>14 DEF CallKeeps, Due
<1>16. CallsSound' /\ CallsApart' /\ OwnersSound' /\ RecordsKnown'
  <2>1. PICK X \in SUBSET Addresses : X = {p}
    OBVIOUS
  <2>2. /\ CallsSound /\ CallsApart /\ OwnersSound /\ RecordsKnown
    BY DEF IInv
  <2>3. \A a \in Addresses \ X :
           /\ owned'[a] = owned[a] /\ block'[a] = block[a]
           /\ live'[a] = live[a] \/ live'[a] = None
    BY <1>10, <1>13, <2>1
  <2>4. \A u \in Threads \ {t} : ~Idle(u) => Held(call[u]) \notin X
    BY <1>0, <1>1, <1>6, <2>1, HeldByNoOther
  <2>5. \A u \in Threads \ {t} :
           (d # NoCall /\ ~Idle(u) /\ Held(d) # Null) => Held(d) # Held(call[u])
    BY <1>0, <1>1, <1>4, HeldByNoOther
  <2>6. owned[p] = None
    BY <1>2, <1>6 DEF CallKeeps
  <2>7. /\ \A a \in X : owned'[a] # None =>
             /\ block'[a] # 0
             /\ Route(owned'[a].api, block'[a]) = Area[a]
             /\ live'[a] = None \/ live'[a] = RecordOf(block'[a], owned'[a].pool)
        /\ \A a \in X : live'[a] # None =>
             \/ owned'[a] # None
             \/ d # NoCall /\ Has(d, a)
             \/ \E u \in Threads \ {t} : ~Idle(u) /\ Has(call[u], a)
    BY <1>10, <1>13, <2>1, <2>6
  <2>8. \A a \in Addresses \ X :
          (~Idle(t) /\ Has(call[t], a) /\ live'[a] # None) =>
            owned'[a] # None \/ (d # NoCall /\ Has(d, a))
    BY <1>0, <1>3, <1>4, <1>5 DEF Has
  <2> QED BY <1>2, <1>4, <1>12, <1>15, <2>2, <2>3, <2>4, <2>5, <2>7, <2>8, Apart
<1>17. Charge(d) = Charge(c) /\ NetCharge(d) = NetCharge(c) /\ LiveCharge(d) = LiveCharge(c)
  BY <1>1, <1>3, NextCharges
<1>18. block' \in [Addresses -> Sizes \cup {0}]
  BY <1>2, <1>10 DEF TypeOK
<1> QED BY <1>0, <1>1, <1>3, <1>10, <1>12, <1>13, <1>16, <1>17, <1>18, SilentStep

LEMMA ReleaseKeeps ==
  ASSUME IInv, NEW t \in Threads, Release(t)
  PROVE  IInv'
<1>0. PICK c, d : c = call[t] /\ d = Advanced(c)
  OBVIOUS
<1>1. /\ ~Idle(t) /\ Head(c.todo) = "Release" /\ call' = [call EXCEPT ![t] = d]
      /\ UNCHANGED <<CurrentBytes, NetBytes, CurrentLiveBytes, live, owned>>
      /\ block' = [block EXCEPT ![c.old_pointer] = 0]
  BY <1>0 DEF Release, At, pools, Proceed, Advanced
<1>2. /\ c \in Calls /\ c # NoCall /\ c.todo \in Todos(c.api) /\ CallOK(c) /\ CallKeeps(c)
      /\ TypeOK /\ Ordered(c.api, c.todo) /\ Head(c.todo) \in Among(c.todo)
      /\ call \in [Threads -> Calls \cup {NoCall}]
  BY <1>0, <1>1, Running
<1>3. /\ d \in Calls /\ d # NoCall
      /\ d.todo \in Todos(c.api)
      /\ Among(d.todo) = Among(c.todo) \ {Head(c.todo)}
      /\ d.api = c.api /\ d.pool = c.pool /\ d.tracked = c.tracked
      /\ d.old_pointer = c.old_pointer /\ d.old_size = c.old_size
      /\ d.pointer = c.pointer /\ d.size = c.size
      /\ d.found = c.found /\ d.mine = c.mine
  BY <1>0, <1>1, <1>2, NextCall
<1>4. /\ Keeping(c) /\ Due(c, "Release") /\ ~Due(c, "Untrack")
      /\ ~Due(c, "Obtain") /\ ~Due(c, "Forget") /\ ~Due(c, "Cancel") /\ ~Due(c, "Track")
  BY <1>1, <1>2 DEF Ordered, Due, Keeping
<1>5. PICK p \in Addresses : p = c.old_pointer /\ p = Held(c) /\ p # Null
  BY <1>2, <1>4, AddressesAssumption DEF CallOK, Calls, Held
<1>6. owned[p] = None /\ live[p] = None
  BY <1>2, <1>4, <1>5 DEF CallKeeps
<1>7. /\ ~Keeping(d) /\ ~Due(d, "Obtain") /\ ~Due(d, "Track") /\ ~Due(d, "Release")
      /\ ~Due(d, "Forget")
  BY <1>1, <1>3, <1>4 DEF Keeping, Due
<1>8. d.pointer = Null /\ d.size = 0
  BY <1>2, <1>3, <1>4 DEF CallOK
<1>9. Held(d) = Null
  BY <1>7, <1>8 DEF Held
<1>10. CallOK(d)
  BY <1>2, <1>3, <1>7, <1>8 DEF CallOK
<1>11. CallKeeps(d)'
  BY <1>9 DEF CallKeeps
<1>12. /\ \A a \in Addresses \ {p} : block'[a] = block[a]
       /\ block' \in [Addresses -> Sizes \cup {0}]
       /\ \A a \in Addresses : owned[a] # None => block'[a] = block[a]
  BY <1>1, <1>2, <1>5, <1>6 DEF TypeOK
<1>13. CallsSound' /\ CallsApart' /\ OwnersSound' /\ RecordsKnown'
  <2>1. PICK X \in SUBSET Addresses : X = {p}
    OBVIOUS
  <2>2. /\ CallsSound /\ CallsApart /\ OwnersSound /\ RecordsKnown
    BY DEF IInv
  <2>3. \A a \in Addresses \ X :
           /\ owned'[a] = owned[a] /\ block'[a] = block[a]
           /\ live'[a] = live[a] \/ live'[a] = None
    BY <1>1, <1>12, <2>1
  <2>4. \A u \in Threads \ {t} : ~Idle(u) => Held(call[u]) \notin X
    BY <1>0, <1>1, <1>5, <2>1, HeldByNoOther
  <2>5. \A u \in Threads \ {t} :
           (d # NoCall /\ ~Idle(u) /\ Held(d) # Null) => Held(d) # Held(call[u])
    BY <1>9
  <2>7. /\ \A a \in X : owned'[a] # None =>
             /\ block'[a] # 0
             /\ Route(owned'[a].api, block'[a]) = Area[a]
             /\ live'[a] = None \/ live'[a] = RecordOf(block'[a], owned'[a].pool)
        /\ \A a \in X : live'[a] # None =>
             \/ owned'[a] # None
             \/ d # NoCall /\ Has(d, a)
             \/ \E u \in Threads \ {t} : ~Idle(u) /\ Has(call[u], a)
    BY <1>1, <1>6, <2>1
  <2>8. \A a \in Addresses \ X :
          (~Idle(t) /\ Has(call[t], a) /\ live'[a] # None) =>
            owned'[a] # None \/ (d # NoCall /\ Has(d, a))
    BY <1>0, <1>4, <1>5, <2>1 DEF Has
  <2> QED BY <1>1, <1>2, <1>10, <1>11, <2>2, <2>3, <2>4, <2>5, <2>7, <2>8, Apart
<1>14. Charge(d) = Charge(c) /\ NetCharge(d) = NetCharge(c) /\ LiveCharge(d) = LiveCharge(c)
  BY <1>1, <1>3, NextCharges
<1>15. live' \in [Addresses -> Records \cup {None}]
  BY <1>1, <1>2 DEF TypeOK
<1> QED BY <1>0, <1>1, <1>3, <1>12, <1>13, <1>14, <1>15, SilentStep

\* The block of a call exists, and no caller has it.
LEMMA HeldExists ==
  ASSUME IInv, NEW u \in Threads, ~Idle(u), Held(call[u]) # Null
  PROVE  block[Held(call[u])] # 0 /\ owned[Held(call[u])] = None
<1>1. CallOK(call[u]) /\ CallKeeps(call[u])
  BY Running
<1>2. HeldSize(call[u]) # 0
  BY <1>1 DEF CallOK, Held, HeldSize
<1> QED BY <1>1, <1>2 DEF CallKeeps

LEMMA ObtainKeeps ==
  ASSUME IInv, Orderly, NEW t \in Threads, Obtain(t)
  PROVE  IInv'
<1>0. PICK c : c = call[t]
  OBVIOUS
<1>1. /\ ~Idle(t) /\ Head(c.todo) = "Obtain"
      /\ UNCHANGED <<CurrentBytes, NetBytes, CurrentLiveBytes, live, owned>>
  BY <1>0 DEF Obtain, At, pools
<1>2. PICK p \in Addresses :
        /\ p = c.old_pointer \/ (block[p] = 0 /\ Area[p] = Route(c.api, c.size))
        /\ block' = [a \in Addresses |-> IF a = p THEN c.size
                                         ELSE IF a = c.old_pointer THEN 0
                                         ELSE block[a]]
        /\ Proceed(t, [c EXCEPT !.pointer = p])
  BY <1>0 DEF Obtain
<1>3. PICK e, d : e = [c EXCEPT !.pointer = p] /\ d = Advanced(e)
  OBVIOUS
<1>4. call' = [call EXCEPT ![t] = d]
  BY <1>2, <1>3 DEF Proceed, Advanced
<1>5. /\ c \in Calls /\ c # NoCall /\ c.todo \in Todos(c.api) /\ CallOK(c) /\ CallKeeps(c)
      /\ TypeOK /\ Ordered(c.api, c.todo) /\ Head(c.todo) \in Among(c.todo)
      /\ call \in [Threads -> Calls \cup {NoCall}]
  BY <1>0, <1>1, Running
<1>6. /\ e \in Calls /\ e.todo = c.todo /\ e.pointer = p
      /\ e.api = c.api /\ e.pool = c.pool /\ e.tracked = c.tracked
      /\ e.old_pointer = c.old_pointer /\ e.old_size = c.old_size
      /\ e.size = c.size /\ e.found = c.found /\ e.mine = c.mine
  BY <1>3, <1>5 DEF Calls
<1>7. /\ d \in Calls /\ d # NoCall
      /\ d.todo \in Todos(e.api)
      /\ Among(d.todo) = Among(e.todo) \ {Head(e.todo)}
      /\ d.api = e.api /\ d.pool = e.pool /\ d.tracked = e.tracked
      /\ d.old_pointer = e.old_pointer /\ d.old_size = e.old_size
      /\ d.pointer = e.pointer /\ d.size = e.size
      /\ d.found = e.found /\ d.mine = e.mine
  <2>1. /\ e \in Calls /\ e.todo \in Todos(e.api)
        /\ Head(e.todo) # "Return" /\ Head(e.todo) # "Cancel"
    BY <1>1, <1>5, <1>6
  <2>2. d = Advanced(e)
    BY <1>3
  <2> QED BY <2>1, <2>2, NextCall
<1>8. /\ d \in Calls /\ d # NoCall
      /\ d.todo \in Todos(c.api)
      /\ Among(d.todo) = Among(c.todo) \ {"Obtain"}
      /\ d.api = c.api /\ d.pool = c.pool /\ d.tracked = c.tracked
      /\ d.old_pointer = c.old_pointer /\ d.old_size = c.old_size
      /\ d.pointer = p /\ d.size = c.size /\ d.found = c.found /\ d.mine = c.mine
  BY <1>1, <1>6, <1>7
<1>9. /\ Keeping(c) /\ Due(c, "Obtain") /\ Due(c, "Track") /\ ~Due(c, "Look")
      /\ ~Due(c, "Release") /\ ~Due(c, "Cancel") /\ ~Due(c, "Reserve")
      /\ Due(c, "Forget") => c.api = "Heap" /\ Reallocates
      /\ c.old_pointer # Null => Due(c, "Forget")
      /\ c.size \in Sizes /\ c.size # 0
  <2>1. /\ Due(c, "Obtain") /\ Due(c, "Track") /\ ~Due(c, "Look")
        /\ ~Due(c, "Release") /\ ~Due(c, "Cancel") /\ ~Due(c, "Reserve")
        /\ Due(c, "Forget") => c.api = "Heap" /\ Reallocates
    BY <1>1, <1>5 DEF Ordered, Due
  <2>2. /\ c.old_pointer # Null => Due(c, "Forget")
        /\ c.size # 0
    BY <1>5, <2>1 DEF CallOK
  <2>3. c.size \in Sizes
    BY <1>5, <2>2 DEF Calls
  <2> QED BY <2>1, <2>2, <2>3 DEF Keeping
<1>10. /\ ~Keeping(d) /\ Due(d, "Track") /\ ~Due(d, "Obtain") /\ ~Due(d, "Release")
       /\ Due(c, "Forget") => Due(d, "Forget")
  BY <1>8, <1>9 DEF Keeping, Due
<1>11. p # Null /\ Held(d) = p /\ HeldSize(d) = c.size /\ Held(c) = c.old_pointer
       /\ HeldSize(c) = c.old_size
  BY <1>8, <1>9, <1>10, AddressesAssumption DEF Held, HeldSize
<1>12. CallOK(d)
  BY <1>5, <1>8, <1>9, <1>10, <1>11 DEF CallOK
<1>13. c.old_pointer # Null => owned[c.old_pointer] = None
  BY <1>5, <1>11 DEF CallKeeps
<1>14. owned[p] = None
  <2>1. block[p] = 0 => owned[p] = None
    BY DEF IInv, OwnersSound, Owned
  <2> QED BY <1>2, <1>11, <1>13, <2>1
<1>15. \A u \in Threads \ {t} : ~Idle(u) => Held(call[u]) # p /\ (c.old_pointer # Null => Held(call[u]) # c.old_pointer)
  <2> SUFFICES ASSUME NEW u \in Threads \ {t}, ~Idle(u)
               PROVE  /\ Held(call[u]) # p
                      /\ c.old_pointer # Null => Held(call[u]) # c.old_pointer
    OBVIOUS
  <2>1. c.old_pointer # Null => Held(call[u]) # c.old_pointer
    BY <1>0, <1>1, <1>11, HeldByNoOther
  <2>2. block[p] = 0 => Held(call[u]) # p
    BY <1>11, HeldExists
  <2> QED BY <1>2, <1>11, <2>1, <2>2
<1>16. Route(c.api, c.size) = Area[p]
  <2>1. CASE p = c.old_pointer
    <3>1. c.api = "Heap"
      BY <1>9, <1>11, <2>1
    <3>2. Route(c.api, c.old_size) = Area[p]
      BY <1>5, <1>11, <2>1 DEF CallKeeps
    <3> QED BY <3>1, <3>2 DEF Route
  <2> QED BY <1>2, <2>1
<1>17. ~c.tracked => live[p] = None
  <2> SUFFICES ASSUME ~c.tracked, live[p] # None PROVE FALSE
    OBVIOUS
  <2>1. ~Reallocates
    <3>1. c.tracked \in TrackFlags
      BY <1>5 DEF Calls
    <3> QED BY <3>1 DEF Orderly
  <2>2. p # c.old_pointer
    BY <1>9, <1>11, <2>1
  <2>3. PICK u \in Threads : ~Idle(u) /\ Has(call[u], p)
    BY <1>14 DEF IInv, RecordsKnown, Owned, Tracker!Tracked
  <2>4. Held(call[u]) # p
    BY <1>2, <1>11, <2>2, <2>3, HeldExists
  <2>5. "Forget" \in Among(call[u].todo)
    BY <2>3, <2>4 DEF Has, Due
  <2>6. Ordered(call[u].api, call[u].todo)
    BY <2>3, Running
  <2> QED BY <2>1, <2>5, <2>6 DEF Ordered
<1>18. /\ block' \in [Addresses -> Sizes \cup {0}] /\ block'[p] = c.size
       /\ \A a \in Addresses : (a # p /\ a # c.old_pointer) => block'[a] = block[a]
  BY <1>2, <1>5, <1>9 DEF TypeOK
<1>19. CallKeeps(d)'
  BY <1>1, <1>8, <1>10, <1>11, <1>14, <1>16, <1>17, <1>18 DEF CallKeeps
<1>20. (c.old_pointer # Null /\ live[c.old_pointer] # None) => Has(d, c.old_pointer)
  <2>1. (c.old_pointer # Null /\ live[c.old_pointer] # None) => c.found
    BY <1>5, <1>9, <1>11 DEF CallKeeps
  <2> QED BY <1>8, <1>9, <1>10, <2>1 DEF Has
<1>21. CallsSound' /\ CallsApart' /\ OwnersSound' /\ RecordsKnown'
  <2>1. PICK X \in SUBSET Addresses : X = {p, c.old_pointer} \ {Null}
    <3>1. c.old_pointer \in Addresses \cup {Null}
      BY <1>5 DEF Calls
    <3> QED BY <3>1
  <2>2. /\ CallsSound /\ CallsApart /\ OwnersSound /\ RecordsKnown
    BY DEF IInv
  <2>3. \A a \in Addresses \ X :
           /\ owned'[a] = owned[a] /\ block'[a] = block[a]
           /\ live'[a] = live[a] \/ live'[a] = None
    BY <1>1, <1>18, <2>1, AddressesAssumption
  <2>4. \A u \in Threads \ {t} : ~Idle(u) => Held(call[u]) \notin X
    BY <1>15, <2>1
  <2>5. \A u \in Threads \ {t} :
           (d # NoCall /\ ~Idle(u) /\ Held(d) # Null) => Held(d) # Held(call[u])
    BY <1>11, <1>15
  <2>7. /\ \A a \in X : owned'[a] # None =>
             /\ block'[a] # 0
             /\ Route(owned'[a].api, block'[a]) = Area[a]
             /\ live'[a] = None \/ live'[a] = RecordOf(block'[a], owned'[a].pool)
        /\ \A a \in X : live'[a] # None =>
             \/ owned'[a] # None
             \/ d # NoCall /\ Has(d, a)
             \/ \E u \in Threads \ {t} : ~Idle(u) /\ Has(call[u], a)
    <3>1. \A a \in X : owned'[a] = None
      BY <1>1, <1>13, <1>14, <2>1
    <3>2. Has(d, p)
      BY <1>11 DEF Has
    <3>3. \A a \in X : live'[a] # None => Has(d, a)
      BY <1>1, <1>20, <2>1, <3>2
    <3> QED BY <1>8, <3>1, <3>3
  <2>8. \A a \in Addresses \ X :
          (~Idle(t) /\ Has(call[t], a) /\ live'[a] # None) =>
            owned'[a] # None \/ (d # NoCall /\ Has(d, a))
    BY <1>0, <1>11, <2>1, AddressesAssumption DEF Has
  <2> QED BY <1>4, <1>5, <1>12, <1>19, <2>2, <2>3, <2>4, <2>5, <2>7, <2>8, Apart
<1>22. /\ Charge(d) = Charge(c) /\ NetCharge(d) = NetCharge(c) /\ LiveCharge(d) = LiveCharge(c)
  BY <1>1, <1>8, NextCharges
<1>23. /\ live' \in [Addresses -> Records \cup {None}]
       /\ \A a \in Addresses : owned[a] # None => block'[a] = block[a]
  BY <1>1, <1>5, <1>13, <1>14, <1>18, AddressesAssumption DEF TypeOK
<1> QED BY <1>0, <1>1, <1>4, <1>8, <1>18, <1>21, <1>22, <1>23, SilentStep

\* A call returns null: the block it was given is its caller's again.
LEMMA ReturnNullKeeps ==
  ASSUME IInv, NEW t \in Threads, ~Idle(t), NEW c, c = call[t], Keeping(c),
         ReturnNull(t),
         NetCharge(c) = c.old_size, c.api = "Heap" => LiveCharge(c) = c.old_size,
         CurrentBytes' = [CurrentBytes EXCEPT ![c.pool] = @ - (Charge(c) - c.old_size)],
         Charge(c) >= c.old_size,
         UNCHANGED <<NetBytes, CurrentLiveBytes, live, block>>
  PROVE  IInv'
<1>1. /\ c \in Calls /\ c # NoCall /\ c.todo \in Todos(c.api) /\ CallOK(c) /\ CallKeeps(c)
      /\ TypeOK /\ Ordered(c.api, c.todo) /\ Balanced
      /\ call \in [Threads -> Calls \cup {NoCall}]
  BY Running
<1>2. /\ call' = [call EXCEPT ![t] = NoCall]
      /\ owned' = IF c.old_pointer = Null THEN owned
                  ELSE [owned EXCEPT ![c.old_pointer] = c.mine]
  BY DEF ReturnNull
<1>3. /\ c.old_pointer \in Addresses \cup {Null} /\ c.pool \in Pools
      /\ Held(c) = c.old_pointer /\ HeldSize(c) = c.old_size
  BY <1>1 DEF Calls, Held, HeldSize
<1>4. /\ c.old_size \in Nat /\ Charge(c) \in Nat
  BY <1>1, ChargeFacts
<1>5. /\ CurrentBytes \in [Pools -> Int] /\ \A p \in Pools : CurrentBytes[p] <= Budget
  BY <1>1, BudgetAssumption DEF TypeOK
<1>6. /\ CurrentBytes' \in [Pools -> Int]
      /\ \A p \in Pools :
           /\ CurrentBytes'[p]
                = CurrentBytes[p] - (IF p = c.pool THEN Charge(c) - c.old_size ELSE 0)
           /\ CurrentBytes'[p] <= Budget
  BY <1>3, <1>4, <1>5, BudgetAssumption
<1>7. call' \in [Threads -> Calls \cup {NoCall}]
  BY <1>1, <1>2
<1>8. CASE c.old_pointer = Null
  <2>1. c.old_size = 0 /\ Held(c) = Null
    BY <1>1, <1>3, <1>8 DEF CallOK
  <2>2. \A p \in Pools : CurrentBytes'[p] = CurrentBytes[p] - (IF p = c.pool THEN Charge(c) ELSE 0)
    BY <1>4, <1>6, <2>1
  <2>3. UNCHANGED <<owned, block, NetBytes, CurrentLiveBytes>>
    BY <1>2, <1>8
  <2>4. Balanced' /\ \A p \in Pools : CurrentBytes'[p] \in Nat
    BY <1>1, <1>2, <2>1, <2>2, <2>3, EndEmptyBalance
  <2>5. CallsSound' /\ CallsApart' /\ OwnersSound' /\ RecordsKnown'
    <3>1. PICK X \in SUBSET Addresses : X = {}
      OBVIOUS
    <3>2. PICK d : d = NoCall
      OBVIOUS
    <3>3. CallsSound /\ CallsApart /\ OwnersSound /\ RecordsKnown
      BY DEF IInv
    <3>4. /\ call' = [call EXCEPT ![t] = d]
          /\ \A a \in Addresses \ X :
               /\ owned'[a] = owned[a] /\ block'[a] = block[a]
               /\ live'[a] = live[a] \/ live'[a] = None
          /\ d = NoCall \/ (CallOK(d) /\ CallKeeps(d)')
      BY <1>2, <2>3, <3>2
    <3>5. /\ \A u \in Threads \ {t} : ~Idle(u) => Held(call[u]) \notin X
          /\ \A u \in Threads \ {t} :
               (d # NoCall /\ ~Idle(u) /\ Held(d) # Null) => Held(d) # Held(call[u])
          /\ \A a \in X : owned'[a] # None =>
               /\ block'[a] # 0
               /\ Route(owned'[a].api, block'[a]) = Area[a]
               /\ live'[a] = None \/ live'[a] = RecordOf(block'[a], owned'[a].pool)
          /\ \A a \in X : live'[a] # None =>
               \/ owned'[a] # None
               \/ d # NoCall /\ Has(d, a)
               \/ \E u \in Threads \ {t} : ~Idle(u) /\ Has(call[u], a)
      BY <3>1, <3>2
    <3>6. \A a \in Addresses \ X :
            (~Idle(t) /\ Has(call[t], a) /\ live'[a] # None) =>
              owned'[a] # None \/ (d # NoCall /\ Has(d, a))
      BY <1>8, <2>1, AddressesAssumption DEF Has
    <3> QED BY <1>1, <3>3, <3>4, <3>5, <3>6, Apart
  <2>6. TypeOK'
    <3>1. CurrentBytes' \in [Pools -> 0..Budget]
      BY <1>6, <2>4, BudgetAssumption
    <3> QED BY <1>1, <2>3, <3>1 DEF TypeOK
  <2> QED BY <1>7, <2>4, <2>5, <2>6 DEF IInv
<1>9. CASE c.old_pointer # Null
  <2>1. PICK q \in Addresses : q = c.old_pointer /\ q # Null
    BY <1>3, <1>9
  <2>2. PICK r \in Requests : r = c.mine /\ r.api = c.api /\ r.pool = c.pool
    BY <1>1, <1>9 DEF CallOK
  <2>3. owned' = [owned EXCEPT ![q] = r] /\ r # None
    BY <1>2, <1>9, <2>1, <2>2, NoneAssumption
  <2>4. /\ owned[q] = None /\ block[q] = c.old_size
        /\ Route(c.api, c.old_size) = Area[q]
        /\ live[q] = None \/ live[q] = RecordOf(c.old_size, c.pool)
    BY <1>1, <1>3, <2>1 DEF CallKeeps
  <2>5. c.old_size # 0
    BY <1>1, <1>9 DEF CallOK
  <2>6. Balanced' /\ \A p \in Pools : CurrentBytes'[p] \in Nat
    <3>1. \A p \in Pools : CurrentBytes'[p]
            = CurrentBytes[p] - (IF p = c.pool THEN Charge(c) - block[q] ELSE 0)
      BY <1>6, <2>4
    <3>2. NetCharge(c) = block[q] /\ (c.api = "Heap" => LiveCharge(c) = block[q])
      BY <2>4
    <3>3. UNCHANGED <<block, NetBytes, CurrentLiveBytes>>
      OBVIOUS
    <3>4. /\ TypeOK /\ call \in [Threads -> Calls \cup {NoCall}] /\ Balanced
          /\ c \in Calls /\ c = call[t] /\ c # NoCall
          /\ call' = [call EXCEPT ![t] = NoCall]
          /\ owned[q] = None /\ r.pool = c.pool /\ r.api = c.api
          /\ owned' = [owned EXCEPT ![q] = r]
      BY <1>1, <1>2, <2>2, <2>3, <2>4
    <3> QED BY <3>1, <3>2, <3>3, <3>4, EndBalance
  <2>7. owned'[q] = r /\ owned' \in [Addresses -> Requests \cup {None}]
    BY <1>1, <2>3 DEF TypeOK
  <2>8. CallsSound' /\ CallsApart' /\ OwnersSound' /\ RecordsKnown'
    <3>1. PICK X \in SUBSET Addresses : X = {q}
      OBVIOUS
    <3>2. PICK d : d = NoCall
      OBVIOUS
    <3>3. CallsSound /\ CallsApart /\ OwnersSound /\ RecordsKnown
      BY DEF IInv
    <3>4. /\ call' = [call EXCEPT ![t] = d]
          /\ d = NoCall \/ (CallOK(d) /\ CallKeeps(d)')
      BY <1>2, <3>2
    <3>5. \A a \in Addresses \ X :
               /\ owned'[a] = owned[a] /\ block'[a] = block[a]
               /\ live'[a] = live[a] \/ live'[a] = None
      BY <1>1, <2>3, <3>1 DEF TypeOK
    <3>6. /\ \A u \in Threads \ {t} : ~Idle(u) => Held(call[u]) \notin X
          /\ \A u \in Threads \ {t} :
               (d # NoCall /\ ~Idle(u) /\ Held(d) # Null) => Held(d) # Held(call[u])
      BY <1>3, <2>1, <3>1, <3>2, HeldByNoOther
    <3>7. /\ \A a \in X : owned'[a] # None =>
               /\ block'[a] # 0
               /\ Route(owned'[a].api, block'[a]) = Area[a]
               /\ live'[a] = None \/ live'[a] = RecordOf(block'[a], owned'[a].pool)
          /\ \A a \in X : live'[a] # None =>
               \/ owned'[a] # None
               \/ d # NoCall /\ Has(d, a)
               \/ \E u \in Threads \ {t} : ~Idle(u) /\ Has(call[u], a)
      BY <2>2, <2>3, <2>4, <2>5, <2>7, <3>1
    <3>8. \A a \in Addresses \ X :
            (~Idle(t) /\ Has(call[t], a) /\ live'[a] # None) =>
              owned'[a] # None \/ (d # NoCall /\ Has(d, a))
      BY <1>3, <2>1, <3>1 DEF Has
    <3> QED BY <1>1, <3>3, <3>4, <3>5, <3>6, <3>7, <3>8, Apart
  <2>9. TypeOK'
    <3>1. CurrentBytes' \in [Pools -> 0..Budget]
      BY <1>6, <2>6, BudgetAssumption
    <3> QED BY <1>1, <2>7, <3>1 DEF TypeOK
  <2> QED BY <1>7, <2>6, <2>8, <2>9 DEF IInv
<1> QED BY <1>8, <1>9

LEMMA ReserveFailsKeeps ==
  ASSUME IInv, NEW t \in Threads, ReserveFails(t)
  PROVE  IInv'
<1>0. PICK c : c = call[t]
  OBVIOUS
<1>1. /\ ~Idle(t) /\ Head(c.todo) = "Reserve" /\ ReturnNull(t)
      /\ UNCHANGED <<CurrentBytes, NetBytes, CurrentLiveBytes, live, block>>
  BY <1>0 DEF ReserveFails, At, pools
<1>2. /\ c \in Calls /\ TypeOK /\ Ordered(c.api, c.todo) /\ Head(c.todo) \in Among(c.todo)
  BY <1>0, <1>1, Running
<1>3. /\ Due(c, "Reserve") /\ Due(c, "Account") /\ Keeping(c)
      /\ c.api = "Heap" => Due(c, "Measure")
  BY <1>1, <1>2 DEF Ordered, Due, Keeping
<1>4. /\ NetCharge(c) = c.old_size /\ Charge(c) = c.old_size
      /\ c.api = "Heap" => LiveCharge(c) = c.old_size
  BY <1>3 DEF NetCharge, LiveCharge, Charge
<1>5. c.old_size \in Nat
  BY <1>2, ChargeFacts
<1>6. CurrentBytes' = [CurrentBytes EXCEPT ![c.pool] = @ - (Charge(c) - c.old_size)]
  BY <1>1, <1>2, <1>4, <1>5 DEF TypeOK
<1>7. Charge(c) >= c.old_size
  BY <1>4, <1>5
<1> QED BY <1>0, <1>1, <1>3, <1>4, <1>6, <1>7, ReturnNullKeeps

LEMMA CancelKeeps ==
  ASSUME IInv, NEW t \in Threads, Cancel(t)
  PROVE  IInv'
<1>0. PICK c : c = call[t]
  OBVIOUS
<1>1. /\ ~Idle(t) /\ Head(c.todo) = "Cancel" /\ ReturnNull(t)
      /\ UNCHANGED <<NetBytes, CurrentLiveBytes, live, block>>
      /\ CurrentBytes' = [CurrentBytes EXCEPT ![c.pool] = @ - Growth(c)]
  BY <1>0 DEF Cancel, At
<1>2. /\ c \in Calls /\ TypeOK /\ Ordered(c.api, c.todo) /\ Head(c.todo) \in Among(c.todo)
  BY <1>0, <1>1, Running
<1>3. Due(c, "Cancel") /\ ~Due(c, "Reserve") /\ Keeping(c)
  BY <1>1, <1>2 DEF Ordered, Due, Keeping
<1>4. /\ NetCharge(c) = c.old_size /\ LiveCharge(c) = c.old_size
      /\ Charge(c) = c.old_size + Growth(c)
  BY <1>3 DEF NetCharge, LiveCharge, Charge
<1>5. c.old_size \in Nat /\ Growth(c) \in Nat
  BY <1>2, ChargeFacts
<1>6. Charge(c) - c.old_size = Growth(c) /\ Charge(c) >= c.old_size
  BY <1>4, <1>5
<1>7. CurrentBytes' = [CurrentBytes EXCEPT ![c.pool] = @ - (Charge(c) - c.old_size)]
  BY <1>1, <1>6
<1> QED BY <1>0, <1>1, <1>3, <1>4, <1>6, <1>7, ReturnNullKeeps

LEMMA LookKeeps ==
  ASSUME IInv, NEW t \in Threads, Look(t)
  PROVE  IInv'
<1>0. PICK c : c = call[t]
  OBVIOUS
<1>1. PICK found : found = (c.old_pointer # Null /\ live[c.old_pointer] # None)
  OBVIOUS
<1>2. PICK r : r = live[c.old_pointer]
  OBVIOUS
<1>3. /\ ~Idle(t) /\ Head(c.todo) = "Look"
      /\ UNCHANGED <<CurrentBytes, NetBytes, CurrentLiveBytes, live, block>>
  BY <1>0 DEF Look, At, pools
<1>4. /\ c \in Calls /\ c # NoCall /\ c.todo \in Todos(c.api) /\ CallOK(c) /\ CallKeeps(c)
      /\ TypeOK /\ Ordered(c.api, c.todo) /\ Head(c.todo) \in Among(c.todo)
      /\ call \in [Threads -> Calls \cup {NoCall}]
  BY <1>0, <1>3, Running
<1>5. /\ Due(c, "Look") /\ Due(c, "Obtain") /\ Due(c, "Reserve") /\ Due(c, "Account")
      /\ Due(c, "Track") /\ ~Due(c, "Release") /\ Keeping(c)
      /\ c.api = "Heap" => Due(c, "Measure")
  BY <1>3, <1>4 DEF Ordered, Due, Keeping
<1>6. found => r.size = c.old_size /\ r.pool = c.pool /\ [c EXCEPT !.old_size = r.size] = c
  BY <1>0, <1>1, <1>2, <1>3, <1>5, RecordAgrees
<1>7. PICK e : e = IF found THEN [c EXCEPT !.found = TRUE] ELSE c
  OBVIOUS
<1>8. (IF found THEN [c EXCEPT !.found = TRUE, !.old_size = r.size] ELSE c) = e
  <2>1. found => [c EXCEPT !.found = TRUE, !.old_size = c.old_size] = [c EXCEPT !.found = TRUE]
    BY <1>4 DEF Calls
  <2> QED BY <1>6, <1>7, <2>1
<1>9. /\ e \in Calls /\ e.todo = c.todo
      /\ e.api = c.api /\ e.pool = c.pool /\ e.tracked = c.tracked
      /\ e.old_pointer = c.old_pointer /\ e.old_size = c.old_size
      /\ e.pointer = c.pointer /\ e.size = c.size /\ e.mine = c.mine
      /\ found => e.found
      /\ ~found => e.found = c.found
  BY <1>4, <1>7 DEF Calls
<1>10. \/ c.size # 0 /\ Proceed(t, e) /\ UNCHANGED owned
       \/ c.size = 0 /\ c.old_pointer = Null /\ ReturnNull(t)
       \/ /\ c.size = 0 /\ c.old_pointer # Null /\ UNCHANGED owned
          /\ call' = [call EXCEPT ![t] =
               [e EXCEPT !.todo = FreeSteps("Heap"), !.pool = IF found THEN r.pool ELSE @]]
  <2> DEFINE k == IF found THEN [c EXCEPT !.found = TRUE, !.old_size = r.size] ELSE c
  <2>1. \/ c.size # 0 /\ Proceed(t, k) /\ UNCHANGED owned
        \/ c.size = 0 /\ c.old_pointer = Null /\ ReturnNull(t)
        \/ /\ c.size = 0 /\ c.old_pointer # Null /\ UNCHANGED owned
           /\ call' = [call EXCEPT ![t] =
                [k EXCEPT !.todo = FreeSteps("Heap"), !.pool = IF found THEN r.pool ELSE @]]
    BY <1>0, <1>1, <1>2, Zenon DEF Look
  <2>2. k = e
    BY <1>8
  <2> HIDE DEF k
  <2> QED BY <2>1, <2>2
<1>11. live' \in [Addresses -> Records \cup {None}] /\ block' \in [Addresses -> Sizes \cup {0}]
  BY <1>3, <1>4 DEF TypeOK
<1>12. Held(c) = c.old_pointer /\ HeldSize(c) = c.old_size
  BY <1>5 DEF Held, HeldSize
<1>13. /\ NetCharge(c) = c.old_size /\ Charge(c) = c.old_size
       /\ c.api = "Heap" => LiveCharge(c) = c.old_size
  BY <1>5 DEF NetCharge, LiveCharge, Charge
<1>14. ASSUME c.size # 0, Proceed(t, e), UNCHANGED owned PROVE IInv'
  <2>1. PICK d : d = Advanced(e)
    OBVIOUS
  <2>2. call' = [call EXCEPT ![t] = d]
    BY <1>14, <2>1 DEF Proceed, Advanced
  <2>3. /\ d \in Calls /\ d # NoCall
        /\ d.todo \in Todos(e.api)
        /\ Among(d.todo) = Among(e.todo) \ {Head(e.todo)}
        /\ d.api = e.api /\ d.pool = e.pool /\ d.tracked = e.tracked
        /\ d.old_pointer = e.old_pointer /\ d.old_size = e.old_size
        /\ d.pointer = e.pointer /\ d.size = e.size
        /\ d.found = e.found /\ d.mine = e.mine
    <3>1. /\ e \in Calls /\ e.todo \in Todos(e.api)
          /\ Head(e.todo) # "Return" /\ Head(e.todo) # "Cancel"
      BY <1>3, <1>4, <1>9
    <3> QED BY <2>1, <3>1, NextCall
  <2>4. Among(d.todo) = Among(c.todo) \ {"Look"} /\ d.todo \in Todos(c.api)
    BY <1>3, <1>9, <2>3
  <2>5. Keeping(d) /\ ~Due(d, "Release") /\ Due(d, "Track")
    BY <1>5, <2>4 DEF Keeping, Due
  <2>6. CallOK(d)
    BY <1>4, <1>5, <1>9, <1>14, <2>3, <2>4, <2>5 DEF CallOK, Due
  <2>7. Held(d) = Held(c) /\ HeldSize(d) = HeldSize(c)
    BY <1>9, <1>12, <2>3, <2>5 DEF Held, HeldSize
  <2>8. c.old_pointer # Null /\ ~d.found => live[c.old_pointer] = None
    BY <1>1, <1>9, <2>3
  <2>9. CallKeeps(d)
    BY <1>4, <1>5, <1>9, <1>12, <2>3, <2>4, <2>5, <2>7, <2>8 DEF CallKeeps, Due
  <2>10. c.found => d.found
    BY <1>9, <2>3, <1>7
  <2>11. \A a \in Addresses : Has(c, a) => Has(d, a)
    BY <1>9, <2>3, <2>4, <2>7, <2>10 DEF Has, Due
  <2>12. CallsSound' /\ CallsApart' /\ OwnersSound' /\ RecordsKnown'
    BY <1>0, <1>3, <1>14, <2>2, <2>6, <2>7, <2>9, <2>11, QuietStep
  <2>13. Charge(d) = Charge(c) /\ NetCharge(d) = NetCharge(c) /\ LiveCharge(d) = LiveCharge(c)
    BY <1>3, <1>9, <2>3, <2>4, NextCharges
  <2> QED BY <1>0, <1>3, <1>9, <1>11, <1>14, <2>2, <2>3, <2>12, <2>13, SilentStep
<1>15. ASSUME c.size = 0, c.old_pointer = Null, ReturnNull(t) PROVE IInv'
  <2>1. c.old_size \in Nat
    BY <1>4, ChargeFacts
  <2>2. CurrentBytes' = [CurrentBytes EXCEPT ![c.pool] = @ - (Charge(c) - c.old_size)]
    BY <1>3, <1>4, <1>13, <2>1 DEF TypeOK
  <2>3. Charge(c) >= c.old_size
    BY <1>13, <2>1
  <2> QED BY <1>0, <1>3, <1>5, <1>13, <1>15, <2>2, <2>3, ReturnNullKeeps
<1>16. ASSUME c.size = 0, c.old_pointer # Null, UNCHANGED owned,
              call' = [call EXCEPT ![t] =
                [e EXCEPT !.todo = FreeSteps("Heap"), !.pool = IF found THEN r.pool ELSE @]]
       PROVE  IInv'
  <2>1. PICK d : d = [e EXCEPT !.todo = FreeSteps("Heap"), !.pool = IF found THEN r.pool ELSE @]
    OBVIOUS
  <2>2. call' = [call EXCEPT ![t] = d]
    BY <1>16, <2>1
  <2>3. c.api = "Heap"
    BY <1>4, <1>5, <1>16 DEF CallOK, Ordered, Due
  <2>4. (IF found THEN r.pool ELSE e.pool) = c.pool
    BY <1>6, <1>9
  <2>5. /\ d.todo = FreeSteps("Heap") /\ d.pool = c.pool
        /\ d.api = e.api /\ d.tracked = e.tracked
        /\ d.old_pointer = e.old_pointer /\ d.old_size = e.old_size
        /\ d.pointer = e.pointer /\ d.size = e.size
        /\ d.found = e.found /\ d.mine = e.mine
    BY <1>9, <2>1, <2>4 DEF Calls
  <2>6. /\ FreeSteps("Heap") \in Todos("Heap")
        /\ Ordered("Heap", FreeSteps("Heap"))
        /\ {"Untrack", "Release", "Account"} \subseteq Among(FreeSteps("Heap"))
        /\ "Reserve" \notin Among(FreeSteps("Heap"))
        /\ "Measure" \in Among(FreeSteps("Heap"))
    BY FirstSteps, TodoFacts
  <2>7. d \in Calls
    <3>1. d.pool \in Pools
      BY <1>4, <2>5 DEF Calls
    <3>2. d = [e EXCEPT !.todo = FreeSteps("Heap"), !.pool = c.pool]
      BY <2>1, <2>4, <1>9
    <3>3. FreeSteps("Heap") \in Todos("Heap") \cup Todos("Default") /\ c.pool \in Pools
      BY <2>5, <2>6, <3>1
    <3> QED BY <1>9, <3>2, <3>3 DEF Calls
  <2>8. /\ Due(d, "Release") /\ Due(d, "Untrack") /\ Due(d, "Account") /\ Due(d, "Measure")
        /\ ~Due(d, "Reserve") /\ ~Due(d, "Obtain") /\ ~Due(d, "Cancel")
        /\ ~Due(d, "Track") /\ ~Due(d, "Look") /\ Keeping(d)
    BY <2>5, <2>6 DEF Ordered, Due, Keeping
  <2>9. CallOK(d)
    BY <1>4, <1>5, <1>9, <1>16, <2>3, <2>5, <2>6, <2>7, <2>8 DEF CallOK
  <2>10. Held(d) = Held(c) /\ HeldSize(d) = HeldSize(c)
    BY <1>9, <1>12, <2>5, <2>8 DEF Held, HeldSize
  <2>11. CallKeeps(d)
    BY <1>4, <1>5, <1>9, <2>3, <2>5, <2>8, <2>10 DEF CallKeeps
  <2>12. \A a \in Addresses : Has(c, a) => Has(d, a)
    BY <1>12, <2>10 DEF Has
  <2>13. CallsSound' /\ CallsApart' /\ OwnersSound' /\ RecordsKnown'
    BY <1>0, <1>3, <1>16, <2>2, <2>9, <2>10, <2>11, <2>12, QuietStep
  <2>14. d # NoCall
    BY <2>9, CallRuns
  <2>15. Growth(d) = 0 /\ d.old_size = c.old_size /\ c.old_size \in Nat
    BY <1>4, <1>9, <1>16, <2>5, <2>7, ChargeFacts
  <2>16. Charge(d) = Charge(c) /\ NetCharge(d) = NetCharge(c) /\ LiveCharge(d) = LiveCharge(c)
    BY <1>13, <2>3, <2>8, <2>15 DEF Charge, NetCharge, LiveCharge
  <2>17. d.pool = c.pool /\ d.api = c.api
    BY <1>9, <2>5
  <2>18. /\ \A a \in Addresses : owned[a] # None => block'[a] = block[a]
         /\ UNCHANGED <<CurrentBytes, NetBytes, CurrentLiveBytes, owned>>
    BY <1>3, <1>16
  <2>19. ~Idle(t) /\ c = call[t]
    BY <1>0, <1>3
  <2> QED BY <1>11, <2>2, <2>7, <2>13, <2>14, <2>16, <2>17, <2>18, <2>19, SilentStep
<1> QED BY <1>10, <1>14, <1>15, <1>16

LEMMA ReturnKeeps ==
  ASSUME IInv, NEW t \in Threads, Return(t)
  PROVE  IInv'
<1>0. PICK c : c = call[t]
  OBVIOUS
<1>1. /\ ~Idle(t) /\ Head(c.todo) = "Return"
      /\ call' = [call EXCEPT ![t] = NoCall]
      /\ owned' = IF c.pointer = Null THEN owned
                  ELSE [owned EXCEPT ![c.pointer] =
                          [api |-> c.api, pool |-> c.pool, tracked |-> c.tracked]]
      /\ UNCHANGED <<CurrentBytes, NetBytes, CurrentLiveBytes, live, block>>
  BY <1>0 DEF Return, At, pools
<1>2. /\ c \in Calls /\ c # NoCall /\ c.todo \in Todos(c.api) /\ CallOK(c) /\ CallKeeps(c)
      /\ TypeOK /\ Ordered(c.api, c.todo) /\ Balanced
      /\ call \in [Threads -> Calls \cup {NoCall}]
  BY <1>0, <1>1, Running
<1>3. Among(c.todo) = {"Return"}
  BY <1>1, <1>2 DEF Ordered
<1>4. /\ ~Keeping(c) /\ ~Due(c, "Track") /\ ~Due(c, "Forget")
      /\ Held(c) = c.pointer /\ HeldSize(c) = c.size
      /\ Charge(c) = c.size /\ NetCharge(c) = c.size /\ LiveCharge(c) = c.size
  BY <1>3 DEF Keeping, Due, Held, HeldSize, Charge, NetCharge, LiveCharge
<1>5. /\ c.pointer \in Addresses \cup {Null} /\ c.size \in Nat
      /\ (c.pointer = Null) <=> (c.size = 0)
  <2>1. c.pointer \in Addresses \cup {Null}
    BY <1>2 DEF Calls
  <2>2. (c.pointer = Null) <=> (c.size = 0)
    BY <1>2, <1>4 DEF CallOK
  <2> QED BY <1>2, <2>1, <2>2, ChargeFacts
<1>6. \A p \in Pools : CurrentBytes[p] \in Int /\ CurrentBytes'[p] = CurrentBytes[p]
  BY <1>1, <1>2 DEF TypeOK
<1>7. call' \in [Threads -> Calls \cup {NoCall}]
  BY <1>1, <1>2
<1>8. CallsSound /\ CallsApart /\ OwnersSound /\ RecordsKnown
  BY DEF IInv
<1>9. PICK d : d = NoCall
  OBVIOUS
<1>10. /\ call' = [call EXCEPT ![t] = d]
       /\ d = NoCall \/ (CallOK(d) /\ CallKeeps(d)')
  BY <1>1, <1>9
<1>11. CASE c.pointer = Null
  <2>1. c.size = 0 /\ UNCHANGED <<owned, block, NetBytes, CurrentLiveBytes>>
    BY <1>1, <1>5, <1>11
  <2>2. \A p \in Pools : CurrentBytes'[p] = CurrentBytes[p] - (IF p = c.pool THEN Charge(c) ELSE 0)
    BY <1>4, <1>6, <2>1
  <2>3. Balanced'
    BY <1>0, <1>1, <1>2, <1>4, <2>1, <2>2, EndEmptyBalance
  <2>4. CallsSound' /\ CallsApart' /\ OwnersSound' /\ RecordsKnown'
    <3>1. PICK X \in SUBSET Addresses : X = {}
      OBVIOUS
    <3>2. \A a \in Addresses \ X :
            /\ owned'[a] = owned[a] /\ block'[a] = block[a]
            /\ live'[a] = live[a] \/ live'[a] = None
      BY <1>1, <2>1
    <3>3. /\ \A u \in Threads \ {t} : ~Idle(u) => Held(call[u]) \notin X
          /\ \A u \in Threads \ {t} :
               (d # NoCall /\ ~Idle(u) /\ Held(d) # Null) => Held(d) # Held(call[u])
          /\ \A a \in X : owned'[a] # None =>
               /\ block'[a] # 0
               /\ Route(owned'[a].api, block'[a]) = Area[a]
               /\ live'[a] = None \/ live'[a] = RecordOf(block'[a], owned'[a].pool)
          /\ \A a \in X : live'[a] # None =>
               \/ owned'[a] # None
               \/ d # NoCall /\ Has(d, a)
               \/ \E u \in Threads \ {t} : ~Idle(u) /\ Has(call[u], a)
      BY <1>9, <3>1
    <3>4. \A a \in Addresses \ X :
            (~Idle(t) /\ Has(call[t], a) /\ live'[a] # None) =>
              owned'[a] # None \/ (d # NoCall /\ Has(d, a))
      BY <1>0, <1>4, <1>11, AddressesAssumption DEF Has
    <3> QED BY <1>2, <1>8, <1>10, <3>2, <3>3, <3>4, Apart
  <2>5. TypeOK'
    BY <1>1, <1>2, <2>1 DEF TypeOK
  <2> QED BY <1>7, <2>3, <2>4, <2>5 DEF IInv
<1>12. CASE c.pointer # Null
  <2>1. PICK q \in Addresses : q = c.pointer /\ q # Null
    BY <1>5, <1>12
  <2>2. PICK r \in Requests :
          /\ r = [api |-> c.api, pool |-> c.pool, tracked |-> c.tracked]
          /\ r.api = c.api /\ r.pool = c.pool
    <3>1. c.api \in {"Heap", "Default"} /\ c.pool \in Pools /\ c.tracked \in TrackFlags
      BY <1>2 DEF Calls
    <3>2. [api |-> c.api, pool |-> c.pool, tracked |-> c.tracked] \in Requests
      BY <3>1 DEF Requests
    <3> QED BY <3>2
  <2>3. owned' = [owned EXCEPT ![q] = r] /\ r # None
    BY <1>1, <1>12, <2>1, <2>2, NoneAssumption
  <2>4. /\ owned[q] = None /\ block[q] = c.size
        /\ Route(c.api, c.size) = Area[q]
        /\ live[q] = None \/ live[q] = RecordOf(c.size, c.pool)
    BY <1>2, <1>4, <2>1 DEF CallKeeps
  <2>5. c.size # 0
    BY <1>5, <1>12
  <2>6. Balanced'
    <3>1. \A p \in Pools : CurrentBytes'[p]
            = CurrentBytes[p] - (IF p = c.pool THEN Charge(c) - block[q] ELSE 0)
      BY <1>4, <1>5, <1>6, <2>4
    <3>2. NetCharge(c) = block[q] /\ (c.api = "Heap" => LiveCharge(c) = block[q])
      BY <1>4, <2>4
    <3>3. UNCHANGED <<block, NetBytes, CurrentLiveBytes>>
      BY <1>1
    <3>4. /\ TypeOK /\ call \in [Threads -> Calls \cup {NoCall}] /\ Balanced
          /\ c \in Calls /\ c = call[t] /\ c # NoCall
          /\ call' = [call EXCEPT ![t] = NoCall]
          /\ owned[q] = None /\ r.pool = c.pool /\ r.api = c.api
          /\ owned' = [owned EXCEPT ![q] = r]
      BY <1>0, <1>1, <1>2, <2>2, <2>3, <2>4
    <3> QED BY <3>1, <3>2, <3>3, <3>4, EndBalance
  <2>7. owned'[q] = r /\ owned' \in [Addresses -> Requests \cup {None}]
    BY <1>2, <2>3 DEF TypeOK
  <2>8. CallsSound' /\ CallsApart' /\ OwnersSound' /\ RecordsKnown'
    <3>1. PICK X \in SUBSET Addresses : X = {q}
      OBVIOUS
    <3>2. \A a \in Addresses \ X :
            /\ owned'[a] = owned[a] /\ block'[a] = block[a]
            /\ live'[a] = live[a] \/ live'[a] = None
      BY <1>1, <1>2, <2>3, <3>1 DEF TypeOK
    <3>3. /\ \A u \in Threads \ {t} : ~Idle(u) => Held(call[u]) \notin X
          /\ \A u \in Threads \ {t} :
               (d # NoCall /\ ~Idle(u) /\ Held(d) # Null) => Held(d) # Held(call[u])
      BY <1>0, <1>1, <1>4, <1>9, <2>1, <3>1, HeldByNoOther
    <3>4. /\ \A a \in X : owned'[a] # None =>
               /\ block'[a] # 0
               /\ Route(owned'[a].api, block'[a]) = Area[a]
               /\ live'[a] = None \/ live'[a] = RecordOf(block'[a], owned'[a].pool)
          /\ \A a \in X : live'[a] # None =>
               \/ owned'[a] # None
               \/ d # NoCall /\ Has(d, a)
               \/ \E u \in Threads \ {t} : ~Idle(u) /\ Has(call[u], a)
      BY <1>1, <2>2, <2>3, <2>4, <2>5, <2>7, <3>1
    <3>5. \A a \in Addresses \ X :
            (~Idle(t) /\ Has(call[t], a) /\ live'[a] # None) =>
              owned'[a] # None \/ (d # NoCall /\ Has(d, a))
      BY <1>0, <1>4, <2>1, <3>1 DEF Has
    <3> QED BY <1>2, <1>8, <1>10, <3>2, <3>3, <3>4, <3>5, Apart
  <2>9. TypeOK'
    BY <1>1, <1>2, <2>7 DEF TypeOK
  <2> QED BY <1>7, <2>6, <2>8, <2>9 DEF IInv
<1> QED BY <1>11, <1>12

\* A call begins, of its caller's own block or of none.
LEMMA BeginKeeps ==
  ASSUME IInv, NEW t \in Threads, NEW d, CallOK(d), Begin(t, d),
         Due(d, "Account"), d.api = "Heap" => Due(d, "Measure"),
         \/ Due(d, "Reserve") /\ Due(d, "Obtain") /\ ~Due(d, "Release")
         \/ ~Due(d, "Reserve") /\ Due(d, "Release") /\ Due(d, "Untrack") /\ d.size = 0,
         Due(d, "Obtain") => d.old_pointer = Null \/ Due(d, "Look"),
         d.found = FALSE,
         d.old_pointer # Null =>
           /\ owned[d.old_pointer] # None
           /\ owned[d.old_pointer].api = d.api /\ owned[d.old_pointer].pool = d.pool
           /\ block[d.old_pointer] = d.old_size
  PROVE  IInv'
<1>1. /\ Idle(t) /\ call[t] = NoCall
      /\ call' = [call EXCEPT ![t] = d]
      /\ owned' = IF d.old_pointer = Null THEN owned
                  ELSE [owned EXCEPT ![d.old_pointer] = None]
      /\ UNCHANGED <<CurrentBytes, NetBytes, CurrentLiveBytes, live, block>>
  BY DEF Begin, Idle, pools
<1>2. /\ TypeOK /\ call \in [Threads -> Calls \cup {NoCall}] /\ Balanced
      /\ CallsSound /\ CallsApart /\ OwnersSound /\ RecordsKnown
  BY DEF IInv
<1>3. /\ d \in Calls /\ d # NoCall /\ d.todo \in Todos(d.api)
      /\ d.api \in {"Heap", "Default"} /\ Ordered(d.api, d.todo)
  BY CallRuns DEF CallOK
<1>4. Keeping(d) /\ Held(d) = d.old_pointer /\ HeldSize(d) = d.old_size
  BY DEF Keeping, Held, HeldSize
<1>5. d.old_size \in Nat /\ (d.size = 0 => Growth(d) = 0)
  BY <1>3, ChargeFacts
<1>6. /\ Charge(d) = d.old_size /\ NetCharge(d) = d.old_size
      /\ d.api = "Heap" => LiveCharge(d) = d.old_size
  BY <1>5 DEF Charge, NetCharge, LiveCharge
<1>7. call' \in [Threads -> Calls \cup {NoCall}]
  BY <1>1, <1>2, <1>3
<1>8. \A a \in Addresses : ~(~Idle(t) /\ Has(call[t], a))
  BY <1>1
<1>9. CASE d.old_pointer = Null
  <2>1. d.old_size = 0
    BY <1>9 DEF CallOK
  <2>2. UNCHANGED <<owned, block, CurrentBytes, NetBytes, CurrentLiveBytes, live>>
    BY <1>1, <1>9
  <2>3. Balanced'
    BY <1>1, <1>2, <1>3, <1>6, <2>1, <2>2, BeginEmptyBalance
  <2>4. CallsSound' /\ CallsApart' /\ OwnersSound' /\ RecordsKnown'
    <3>1. PICK X \in SUBSET Addresses : X = {}
      OBVIOUS
    <3>2. CallKeeps(d)'
      BY <1>4, <1>9 DEF CallKeeps, Held, Keeping, Due, Among
    <3>3. \A a \in Addresses \ X :
            /\ owned'[a] = owned[a] /\ block'[a] = block[a]
            /\ live'[a] = live[a] \/ live'[a] = None
      BY <2>2
    <3>4. /\ \A u \in Threads \ {t} : ~Idle(u) => Held(call[u]) \notin X
          /\ \A u \in Threads \ {t} :
               (d # NoCall /\ ~Idle(u) /\ Held(d) # Null) => Held(d) # Held(call[u])
          /\ \A a \in X : owned'[a] # None =>
               /\ block'[a] # 0
               /\ Route(owned'[a].api, block'[a]) = Area[a]
               /\ live'[a] = None \/ live'[a] = RecordOf(block'[a], owned'[a].pool)
          /\ \A a \in X : live'[a] # None =>
               \/ owned'[a] # None
               \/ d # NoCall /\ Has(d, a)
               \/ \E u \in Threads \ {t} : ~Idle(u) /\ Has(call[u], a)
      BY <1>4, <1>9, <3>1
    <3> QED BY <1>1, <1>2, <1>8, <3>2, <3>3, <3>4, Apart
  <2>5. TypeOK'
    BY <1>2, <2>2 DEF TypeOK
  <2> QED BY <1>7, <2>3, <2>4, <2>5 DEF IInv
<1>10. CASE d.old_pointer # Null
  <2>1. PICK q \in Addresses : q = d.old_pointer /\ q # Null
    BY <1>3, <1>10 DEF Calls
  <2>2. /\ owned[q] # None /\ owned[q].api = d.api /\ owned[q].pool = d.pool
        /\ block[q] = d.old_size
    BY <1>10, <2>1
  <2>3. owned' = [owned EXCEPT ![q] = None] /\ owned'[q] = None
    BY <1>1, <1>2, <1>10, <2>1 DEF TypeOK
  <2>4. /\ block[q] # 0
        /\ Route(owned[q].api, block[q]) = Area[q]
        /\ live[q] = None \/ live[q] = RecordOf(block[q], owned[q].pool)
    BY <1>2, <2>2 DEF OwnersSound, Owned
  <2>5. /\ Route(d.api, d.old_size) = Area[q]
        /\ live[q] = None \/ live[q] = RecordOf(d.old_size, d.pool)
    BY <2>2, <2>4
  <2>6. Balanced'
    <3>1. UNCHANGED <<block, CurrentBytes, NetBytes, CurrentLiveBytes>>
      BY <1>1
    <3> QED BY <1>1, <1>2, <1>3, <1>6, <2>2, <2>3, <3>1, BeginBalance
  <2>7. CallKeeps(d)'
    <3>1. /\ owned'[q] = None /\ block'[q] = HeldSize(d)
          /\ Route(d.api, HeldSize(d)) = Area[q]
          /\ live'[q] = None \/ live'[q] = RecordOf(HeldSize(d), d.pool)
      BY <1>1, <1>4, <2>2, <2>3, <2>5
    <3>2. /\ ~(Due(d, "Release") /\ ~Due(d, "Untrack"))
          /\ ~(Due(d, "Obtain") /\ ~Due(d, "Look"))
      BY <1>10
    <3>3. Held(d) = q
      BY <1>4, <2>1
    <3> QED BY <1>4, <3>1, <3>2, <3>3 DEF CallKeeps
  <2>8. CallsSound' /\ CallsApart' /\ OwnersSound' /\ RecordsKnown'
    <3>1. PICK X \in SUBSET Addresses : X = {q}
      OBVIOUS
    <3>2. \A a \in Addresses \ X :
            /\ owned'[a] = owned[a] /\ block'[a] = block[a]
            /\ live'[a] = live[a] \/ live'[a] = None
      BY <1>1, <1>2, <2>3, <3>1 DEF TypeOK
    <3>3. \A u \in Threads \ {t} : ~Idle(u) => Held(call[u]) # q
      BY <2>1, <2>2, HeldExists
    <3>4. /\ \A u \in Threads \ {t} : ~Idle(u) => Held(call[u]) \notin X
          /\ \A u \in Threads \ {t} :
               (d # NoCall /\ ~Idle(u) /\ Held(d) # Null) => Held(d) # Held(call[u])
      BY <1>4, <2>1, <3>1, <3>3
    <3>5. Has(d, q)
      BY <1>4, <2>1 DEF Has
    <3>6. /\ \A a \in X : owned'[a] # None =>
               /\ block'[a] # 0
               /\ Route(owned'[a].api, block'[a]) = Area[a]
               /\ live'[a] = None \/ live'[a] = RecordOf(block'[a], owned'[a].pool)
          /\ \A a \in X : live'[a] # None =>
               \/ owned'[a] # None
               \/ d # NoCall /\ Has(d, a)
               \/ \E u \in Threads \ {t} : ~Idle(u) /\ Has(call[u], a)
      BY <1>3, <2>3, <3>1, <3>5
    <3> QED BY <1>1, <1>2, <1>8, <2>7, <3>2, <3>4, <3>6, Apart
  <2>9. TypeOK'
    BY <1>1, <1>2, <2>3 DEF TypeOK
  <2> QED BY <1>7, <2>6, <2>8, <2>9 DEF IInv
<1> QED BY <1>9, <1>10

\* The call of a request is a call.
CallWith(steps, r, p, old, size, mine) ==
  [todo |-> steps, api |-> r.api, pool |-> r.pool, tracked |-> r.tracked,
   old_pointer |-> p, old_size |-> old, pointer |-> Null, size |-> size,
   found |-> FALSE, mine |-> mine]

LEMMA CallOfFacts ==
  ASSUME NEW r \in Requests, NEW steps \in Todos(r.api),
         NEW p \in Addresses \cup {Null},
         NEW old \in Sizes \cup {0}, NEW size \in Sizes \cup {0},
         NEW mine \in Requests \cup {None}
  PROVE  CallWith(steps, r, p, old, size, mine) \in Calls
<1>1. r.api \in {"Heap", "Default"} /\ r.pool \in Pools /\ r.tracked \in TrackFlags
  BY DEF Requests
<1>2. steps \in Todos("Heap") \cup Todos("Default")
  BY <1>1
<1> QED BY <1>1, <1>2 DEF CallWith, Calls

LEMMA AllocateKeeps ==
  ASSUME IInv, NEW t \in Threads, Allocate(t)
  PROVE  IInv'
<1>1. PICK r \in Requests, size \in Sizes :
        Begin(t, CallOf(AllocateSteps(r.api), r, Null, 0, size))
  BY DEF Allocate
<1>2. PICK steps : steps = AllocateSteps(r.api)
  OBVIOUS
<1>3. PICK d : d = CallWith(steps, r, Null, 0, size, None)
  OBVIOUS
<1>4. r.api \in {"Heap", "Default"} /\ TypeOK /\ 0 \notin Sizes
  BY SizesAreNumbers DEF Requests, IInv
<1>5. /\ steps \in Todos(r.api)
      /\ {"Reserve", "Obtain", "Account"} \subseteq Among(steps)
      /\ {"Look", "Release"} \cap Among(steps) = {}
      /\ r.api = "Heap" => "Measure" \in Among(steps)
  BY <1>2, <1>4, FirstSteps
<1>6. /\ d \in Calls /\ d.todo = steps /\ d.todo \in Todos(d.api)
      /\ d.api = r.api /\ d.pool = r.pool
      /\ d.old_pointer = Null /\ d.old_size = 0
      /\ d.pointer = Null /\ d.size = size /\ d.found = FALSE
  <2>1. d \in Calls
    BY <1>3, <1>5, CallOfFacts
  <2> QED BY <1>3, <1>5, <2>1 DEF CallWith
<1>7. /\ Due(d, "Reserve") /\ Due(d, "Obtain") /\ Due(d, "Account")
      /\ ~Due(d, "Look") /\ ~Due(d, "Release")
      /\ d.api = "Heap" => Due(d, "Measure")
  BY <1>5, <1>6 DEF Due
<1>8. CallOK(d)
  BY <1>4, <1>6, <1>7 DEF CallOK, Keeping
<1>9. Begin(t, d)
  BY <1>1, <1>2, <1>3 DEF CallOf, CallWith
<1> QED BY <1>6, <1>7, <1>8, <1>9, BeginKeeps

LEMMA FreeKeeps ==
  ASSUME IInv, NEW t \in Threads, Free(t)
  PROVE  IInv'
<1>1. PICK p \in Owned : Begin(t, CallOf(FreeSteps(owned[p].api), owned[p], p, block[p], 0))
  BY DEF Free
<1>2. /\ TypeOK /\ p \in Addresses /\ p # Null /\ owned[p] \in Requests
      /\ block[p] \in Sizes \cup {0} /\ block[p] # 0
  BY AddressesAssumption DEF IInv, Owned, TypeOK, OwnersSound
<1>3. PICK r \in Requests : r = owned[p]
  BY <1>2
<1>4. PICK steps : steps = FreeSteps(r.api)
  OBVIOUS
<1>5. PICK old \in Sizes \cup {0} : old = block[p] /\ old # 0
  BY <1>2
<1>6. PICK d : d = CallWith(steps, r, p, old, 0, r)
  OBVIOUS
<1>7. r.api \in {"Heap", "Default"} /\ owned[p] # None
  BY <1>3, NoneAssumption DEF Requests
<1>8. /\ steps \in Todos(r.api)
      /\ {"Untrack", "Release", "Account"} \subseteq Among(steps)
      /\ "Reserve" \notin Among(steps)
      /\ r.api = "Heap" => "Measure" \in Among(steps)
  BY <1>4, <1>7, FirstSteps
<1>9. /\ d \in Calls /\ d.todo = steps /\ d.todo \in Todos(d.api)
      /\ d.api = r.api /\ d.pool = r.pool
      /\ d.old_pointer = p /\ d.old_size = old
      /\ d.pointer = Null /\ d.size = 0 /\ d.found = FALSE
      /\ d.mine = r
  <2>1. d \in Calls
    BY <1>2, <1>6, <1>8, CallOfFacts
  <2> QED BY <1>6, <1>8, <2>1 DEF CallWith
<1>10. /\ ~Due(d, "Reserve") /\ Due(d, "Release") /\ Due(d, "Account") /\ Due(d, "Untrack")
       /\ d.api = "Heap" => Due(d, "Measure")
  BY <1>8, <1>9 DEF Due
<1>11. Ordered(d.api, d.todo)
  BY <1>7, <1>9, TodoFacts
<1>12. ~Due(d, "Obtain") /\ ~Due(d, "Track") /\ Keeping(d)
  BY <1>10, <1>11 DEF Ordered, Due, Keeping
<1>13. CallOK(d)
  BY <1>2, <1>5, <1>9, <1>10, <1>12 DEF CallOK
<1>14. Begin(t, d)
  BY <1>1, <1>2, <1>3, <1>4, <1>5, <1>6 DEF CallOf, CallWith
<1> QED BY <1>3, <1>5, <1>7, <1>9, <1>10, <1>12, <1>13, <1>14, BeginKeeps

LEMMA ReallocateKeeps ==
  ASSUME IInv, Orderly, NEW t \in Threads, Reallocate(t)
  PROVE  IInv'
<1>1. PICK r \in Requests, size \in Sizes \cup {0} :
        /\ r.api = "Heap"
        /\ \/ Begin(t, CallOf(ReallocateSteps, r, Null, 0, size))
           \/ \E p \in Owned :
                /\ owned[p].api = "Heap"
                /\ KeepsPool => r.pool = owned[p].pool
                /\ Begin(t, CallOf(ReallocateSteps, r, p, block[p], size))
  BY DEF Reallocate
<1>2. Reallocates /\ KeepsPool /\ TypeOK
  BY DEF Reallocate, Orderly, IInv
<1>3. PICK steps : steps = ReallocateSteps
  OBVIOUS
<1>4. /\ steps \in Todos(r.api)
      /\ {"Look", "Reserve", "Obtain", "Account", "Forget", "Measure"} \subseteq Among(steps)
      /\ "Release" \notin Among(steps)
  BY <1>1, <1>2, <1>3, FirstSteps
<1>5. ASSUME NEW p \in Addresses \cup {Null}, NEW old \in Sizes \cup {0},
             (p = Null) <=> (old = 0),
             p # Null => /\ owned[p] \in Requests /\ block[p] = old
                         /\ owned[p].api = r.api /\ owned[p].pool = r.pool,
             Begin(t, CallOf(steps, r, p, old, size))
      PROVE  IInv'
  <2>0. PICK mine : mine = IF p = Null THEN None ELSE owned[p]
    OBVIOUS
  <2>1. PICK d : d = CallWith(steps, r, p, old, size, mine)
    OBVIOUS
  <2>2. /\ d \in Calls /\ d.todo = steps /\ d.todo \in Todos(d.api)
        /\ d.api = r.api /\ d.pool = r.pool
        /\ d.old_pointer = p /\ d.old_size = old
        /\ d.pointer = Null /\ d.size = size /\ d.found = FALSE
        /\ d.mine = mine
    <3>1. mine \in Requests \cup {None}
      BY <1>5, <2>0
    <3>2. d \in Calls
      BY <1>4, <2>1, <3>1, CallOfFacts
    <3> QED BY <1>4, <2>1, <3>2 DEF CallWith
  <2>3. /\ Due(d, "Look") /\ Due(d, "Reserve") /\ Due(d, "Obtain") /\ Due(d, "Account")
        /\ Due(d, "Forget") /\ Due(d, "Measure") /\ ~Due(d, "Release")
    BY <1>4, <2>2 DEF Due
  <2>4. Keeping(d)
    BY <2>3 DEF Keeping
  <2>5. CallOK(d)
    BY <1>5, <2>0, <2>2, <2>3, <2>4 DEF CallOK
  <2>6. Begin(t, d)
    BY <1>5, <2>0, <2>1 DEF CallOf, CallWith
  <2>7. p # Null => owned[p] # None
    BY <1>5, NoneAssumption
  <2> QED BY <1>5, <2>2, <2>3, <2>5, <2>6, <2>7, BeginKeeps
<1>6. CASE Begin(t, CallOf(ReallocateSteps, r, Null, 0, size))
  BY <1>3, <1>5, <1>6
<1>7. CASE \E p \in Owned :
             /\ owned[p].api = "Heap"
             /\ KeepsPool => r.pool = owned[p].pool
             /\ Begin(t, CallOf(ReallocateSteps, r, p, block[p], size))
  <2>1. PICK p \in Owned :
          /\ owned[p].api = "Heap" /\ r.pool = owned[p].pool
          /\ Begin(t, CallOf(steps, r, p, block[p], size))
    BY <1>2, <1>3, <1>7
  <2>2. /\ p \in Addresses /\ p # Null /\ owned[p] \in Requests
        /\ block[p] \in Sizes \cup {0} /\ block[p] # 0
    BY AddressesAssumption DEF IInv, Owned, TypeOK, OwnersSound
  <2>3. PICK old \in Sizes \cup {0} : old = block[p] /\ old # 0
    BY <2>2
  <2> QED BY <1>1, <1>5, <2>1, <2>2, <2>3
<1> QED BY <1>1, <1>6, <1>7

-----------------------------------------------------------------------------
(* The theorems.                                                           *)

LEMMA ZeroSum ==
  ASSUME NEW S, NEW f, \A x \in S : f[x] = 0
  PROVE  SumOver(f, S) = 0
<1>1. PICK T \in SUBSET S : T = {}
  OBVIOUS
<1>2. SumOver(f, S) = SumOver(f, T)
  BY <1>1, SumWhere
<1> QED BY <1>1, <1>2, SumEmpty

LEMMA InitKeeps == Init => IInv
<1> SUFFICES ASSUME Init PROVE IInv
  OBVIOUS
<1>1. TypeOK /\ call \in [Threads -> Calls \cup {NoCall}]
  BY BudgetAssumption DEF Init, TypeOK
<1>2. \A t \in Threads : Idle(t) /\ call[t] = NoCall
  BY DEF Init, Idle
<1>3. \A a \in Addresses : owned[a] = None /\ live[a] = None
  BY DEF Init
<1>4. CallsSound /\ CallsApart
  BY <1>2 DEF CallsSound, CallsApart
<1>5. OwnersSound /\ RecordsKnown
  BY <1>3 DEF OwnersSound, RecordsKnown, Owned, Tracker!Tracked
<1>6. ASSUME NEW p \in Pools
      PROVE  /\ SumOver(Charges(p), Threads) = 0
             /\ SumOver(NetCharges(p), Threads) = 0
             /\ SumOver(BytesIn(p), Addresses) = 0
  <2>1. \A t \in Threads : Charges(p)[t] = 0 /\ NetCharges(p)[t] = 0
    BY <1>2 DEF Charges, NetCharges
  <2>2. \A a \in Addresses : BytesIn(p)[a] = 0
    BY <1>3 DEF BytesIn
  <2> QED BY <2>1, <2>2, ZeroSum
<1>7. SumOver(LiveCharges, Threads) = 0 /\ SumOver(HeapBytes, Addresses) = 0
  <2>1. \A t \in Threads : LiveCharges[t] = 0
    BY <1>2 DEF LiveCharges
  <2>2. \A a \in Addresses : HeapBytes[a] = 0
    BY <1>3 DEF HeapBytes
  <2> QED BY <2>1, <2>2, ZeroSum
<1>8. Balanced
  <2>1. CurrentLiveBytes = 0 /\ \A p \in Pools : CurrentBytes[p] = 0 /\ NetBytes[p] = 0
    BY DEF Init
  <2> QED BY <1>6, <1>7, <2>1 DEF Balanced
<1> QED BY <1>1, <1>4, <1>5, <1>8 DEF IInv

\* Nothing in the invariant but the variables.
LEMMA StutterKeeps ==
  ASSUME IInv, UNCHANGED vars
  PROVE  IInv'
<1>1. /\ UNCHANGED <<CurrentBytes, NetBytes, CurrentLiveBytes, live, block, owned, call>>
  BY DEF vars, pools
<1>2. TypeOK' /\ (call \in [Threads -> Calls \cup {NoCall}])'
  BY <1>1 DEF IInv, TypeOK
<1>3. CallsSound' /\ CallsApart'
  <2>1. CallsSound'
    BY <1>1 DEF IInv, CallsSound, Idle, CallKeeps
  <2>2. CallsApart'
    BY <1>1 DEF IInv, CallsApart, Idle
  <2> QED BY <2>1, <2>2
<1>4. OwnersSound' /\ RecordsKnown'
  BY <1>1 DEF IInv, OwnersSound, RecordsKnown, Owned, Tracker!Tracked, Idle, Has, Held,
    Keeping, Due, Among
<1>5. Balanced'
  BY <1>1 DEF IInv, Balanced, Charges, NetCharges, LiveCharges, BytesIn, HeapBytes
<1> QED BY <1>2, <1>3, <1>4, <1>5 DEF IInv

LEMMA StepKeeps ==
  ASSUME Orderly, IInv, Next
  PROVE  IInv'
<1>1. PICK t \in Threads :
        \/ Allocate(t) \/ Reallocate(t) \/ Free(t)
        \/ Look(t) \/ Find(t) \/ Reserve(t) \/ ReserveFails(t)
        \/ Obtain(t) \/ ObtainFails(t) \/ Cancel(t) \/ Account(t)
        \/ Track(t) \/ Forget(t) \/ Untrack(t) \/ Release(t)
        \/ Measure(t) \/ Return(t)
  BY DEF Next
<1>2. CASE Allocate(t) \/ Reallocate(t) \/ Free(t)
  BY <1>2, AllocateKeeps, ReallocateKeeps, FreeKeeps
<1>3. CASE Look(t) \/ Find(t) \/ Reserve(t) \/ ReserveFails(t)
  BY <1>3, LookKeeps, FindKeeps, ReserveKeeps, ReserveFailsKeeps
<1>4. CASE Obtain(t) \/ ObtainFails(t) \/ Cancel(t) \/ Account(t)
  BY <1>4, ObtainKeeps, ObtainFailsKeeps, CancelKeeps, AccountKeeps
<1>5. CASE Track(t) \/ Forget(t) \/ Untrack(t) \/ Release(t)
  BY <1>5, TrackKeeps, ForgetKeeps, UntrackKeeps, ReleaseKeeps
<1>6. CASE Measure(t) \/ Return(t)
  BY <1>6, MeasureKeeps, ReturnKeeps
<1> QED BY <1>1, <1>2, <1>3, <1>4, <1>5, <1>6

\* While reallocations are tracked and keep the pool, each block has one holder,
\* a caller or a call, whose idea of its size, pool and record is right, and the
\* accounts are the sums of what the holders contribute.
THEOREM Inductive == ASSUME Orderly PROVE Spec => []IInv
<1>1. Init => IInv
  BY InitKeeps
<1>2. IInv /\ [Next]_vars => IInv'
  BY StepKeeps, StutterKeeps
<1> QED BY <1>1, <1>2, PTL DEF Spec

\* No charge of a pool falls below zero or passes its budget, whatever
\* allocations, reallocations and frees run at once.
THEOREM TypesKept == ASSUME Orderly PROVE Spec => []TypeOK
<1>1. IInv => TypeOK
  BY DEF IInv
<1> QED BY <1>1, Inductive, PTL

\* When no call runs, the pools are charged what the callers' blocks take and the
\* metrics count what is in those of the heap allocator: what calls reserved,
\* cancelled, committed and freed has evened out.
THEOREM BooksAgree == ASSUME Orderly PROVE Spec => []BooksExact
<1>1. ASSUME IInv PROVE BooksExact
  <2> SUFFICES ASSUME Quiescent
               PROVE  /\ \A p \in Pools :
                           LET inPool == {a \in Owned : owned[a].pool = p} IN
                           CurrentBytes[p] = Bytes(inPool) /\ NetBytes[p] = Bytes(inPool)
                      /\ CurrentLiveBytes = Bytes({a \in Owned : owned[a].api = "Heap"})
    BY DEF BooksExact
  <2>1. \A t \in Threads : call[t] = NoCall
    BY DEF Quiescent, Idle
  <2>2. TypeOK /\ Balanced
    BY <1>1 DEF IInv
  <2>3. \A a \in Addresses : block[a] \in Nat
    BY <2>2, SizesAreNumbers DEF TypeOK
  <2>4. ASSUME NEW p \in Pools
        PROVE  LET inPool == {a \in Owned : owned[a].pool = p} IN
               CurrentBytes[p] = Bytes(inPool) /\ NetBytes[p] = Bytes(inPool)
    <3>1. PICK T \in SUBSET Addresses : T = {a \in Owned : owned[a].pool = p}
      BY DEF Owned
    <3>2. SumOver(Charges(p), Threads) = 0 /\ SumOver(NetCharges(p), Threads) = 0
      <4>1. \A t \in Threads : Charges(p)[t] = 0 /\ NetCharges(p)[t] = 0
        BY <2>1 DEF Charges, NetCharges
      <4> QED BY <4>1, ZeroSum
    <3>3. /\ \A a \in T : BytesIn(p)[a] = block[a]
          /\ \A a \in Addresses \ T : BytesIn(p)[a] = 0
      BY <3>1 DEF BytesIn, Owned
    <3>4. SumOver(BytesIn(p), Addresses) = Bytes(T)
      BY <3>3, SumWhere DEF Bytes
    <3>5. Bytes(T) \in Nat
      <4>1. IsFiniteSet(T)
        BY AddressesAssumption, FS_Subset
      <4> QED BY <2>3, <4>1, SumNat DEF Bytes
    <3>6. CurrentBytes[p] = Bytes(T) /\ NetBytes[p] = Bytes(T)
      BY <2>2, <3>2, <3>4, <3>5 DEF Balanced
    <3> QED BY <3>1, <3>6
  <2>5. CurrentLiveBytes = Bytes({a \in Owned : owned[a].api = "Heap"})
    <3>1. PICK T \in SUBSET Addresses : T = {a \in Owned : owned[a].api = "Heap"}
      BY DEF Owned
    <3>2. SumOver(LiveCharges, Threads) = 0
      <4>1. \A t \in Threads : LiveCharges[t] = 0
        BY <2>1 DEF LiveCharges
      <4> QED BY <4>1, ZeroSum
    <3>3. /\ \A a \in T : HeapBytes[a] = block[a]
          /\ \A a \in Addresses \ T : HeapBytes[a] = 0
      BY <3>1 DEF HeapBytes, Owned
    <3>4. SumOver(HeapBytes, Addresses) = Bytes(T)
      BY <3>3, SumWhere DEF Bytes
    <3>5. Bytes(T) \in Nat
      <4>1. IsFiniteSet(T)
        BY AddressesAssumption, FS_Subset
      <4> QED BY <2>3, <4>1, SumNat DEF Bytes
    <3>6. CurrentLiveBytes = Bytes(T)
      BY <2>2, <3>2, <3>4, <3>5 DEF Balanced
    <3> QED BY <3>1, <3>6
  <2> QED BY <2>4, <2>5
<1> QED BY <1>1, Inductive, PTL

\* Free and Reallocate, which trust the record of a block more than what their
\* caller says, learn its size and its pool from it.
THEOREM RecordsRight == ASSUME Orderly PROVE Spec => []RecordsTruthful
<1>1. ASSUME IInv PROVE RecordsTruthful
  <2> SUFFICES ASSUME NEW a \in Owned, live[a] # None
               PROVE  live[a].size = block[a] /\ live[a].pool = owned[a].pool
    BY DEF RecordsTruthful
  <2>1. live[a] = RecordOf(block[a], owned[a].pool)
    BY <1>1 DEF IInv, OwnersSound
  <2> QED BY <2>1 DEF RecordOf
<1> QED BY <1>1, Inductive, PTL

\* When no call runs, the leak report names blocks that callers have: a record
\* that a reallocation left behind while it moved the block is gone at its end.
THEOREM ReportRight == ASSUME Orderly PROVE Spec => []NoStaleRecords
<1>1. ASSUME IInv PROVE NoStaleRecords
  BY <1>1 DEF IInv, RecordsKnown, NoStaleRecords, Quiescent
<1> QED BY <1>1, Inductive, PTL

\* RuntimeAllocationInvoker routes a Free by the size it has learnt: that is the
\* class the block was handed out from.
THEOREM RoutedBack == ASSUME Orderly PROVE Spec => []BackWhereItCameFrom
<1>1. ASSUME IInv PROVE BackWhereItCameFrom
  <2> SUFFICES ASSUME NEW t \in Threads, At(t, "Release")
               PROVE  Route(call[t].api, call[t].old_size) = Area[call[t].old_pointer]
    BY DEF BackWhereItCameFrom
  <2>1. PICK c : c = call[t]
    OBVIOUS
  <2>2. ~Idle(t) /\ Head(c.todo) = "Release"
    BY <2>1 DEF At
  <2>3. CallOK(c) /\ CallKeeps(c) /\ Head(c.todo) \in Among(c.todo)
    BY <1>1, <2>1, <2>2, Running
  <2>4. Due(c, "Release") /\ Keeping(c) /\ c.old_pointer # Null
    BY <2>2, <2>3 DEF CallOK, Keeping, Due
  <2>5. Held(c) = c.old_pointer /\ HeldSize(c) = c.old_size
    BY <2>4 DEF Held, HeldSize
  <2>6. Route(c.api, c.old_size) = Area[c.old_pointer]
    BY <2>3, <2>4, <2>5 DEF CallKeeps
  <2> QED BY <2>1, <2>6
<1> QED BY <1>1, Inductive, PTL
=============================================================================
