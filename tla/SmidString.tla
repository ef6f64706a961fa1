------------------------------- MODULE SmidString -------------------------------
(***************************************************************************)
(* SmidString (modules/BlueContainer/src/SmidString.cpp): a text kept in   *)
(* the object while it is short, else in a block of the allocator.  Only   *)
(* sizes are kept of texts, and of m_Storage the block it points to.       *)
(***************************************************************************)
EXTENDS Integers, FiniteSets

CONSTANTS
  Strings,        \* the places for strings
  Blocks,         \* the blocks the allocator has
  InlineCapacity,
  Sizes,          \* the sizes of the texts that are appended
  MaxSize         \* bound of the model: the size of a string

VARIABLES
  object,         \* of each place: NoString, or the string there
  taken           \* the blocks that are allocated

vars == <<object, taken>>

NoBlock == "no block"
NoString == [m_Size |-> -1, m_Capacity |-> -1, m_IsInline |-> TRUE, Heap |-> NoBlock,
             m_Allocator |-> "none"]
EmptyString == [m_Size |-> 0, m_Capacity |-> InlineCapacity, m_IsInline |-> TRUE,
                Heap |-> NoBlock, m_Allocator |-> "given"]
MovedFrom == [EmptyString EXCEPT !.m_Allocator = "none"]

Init == object = [s \in Strings |-> NoString] /\ taken = {}

Is(s) == object[s] # NoString

\* Append to a string value: the values and the blocks it may lead to.  Reserve
\* takes a block of twice the size required and gives the old one back, or fails.
\* A string without an allocator must not grow: Allocate asserts that it has one.
Appended(value, size) ==
  LET required == value.m_Size + size IN
  IF required <= value.m_Capacity
  THEN {<<[value EXCEPT !.m_Size = required], taken>>}
  ELSE IF value.m_Allocator = "none" THEN {}
  ELSE {<<value, taken>>}
       \cup {<<[value EXCEPT !.m_Size = required, !.m_Capacity = 2 * required,
                            !.m_IsInline = FALSE, !.Heap = b],
               (taken \cup {b}) \ {value.Heap}>> : b \in Blocks \ taken}

Becomes(s, outcomes) ==
  \E outcome \in outcomes :
    /\ object' = [object EXCEPT ![s] = outcome[1]]
    /\ taken' = outcome[2]

Construct(s, size) == ~Is(s) /\ Becomes(s, Appended(EmptyString, size))
Append(s, size) ==
  Is(s) /\ object[s].m_Size + size <= MaxSize /\ Becomes(s, Appended(object[s], size))
Clear(s) == Is(s) /\ Becomes(s, {<<[object[s] EXCEPT !.m_Size = 0], taken>>})

Freed(value) == IF value.m_IsInline THEN taken ELSE taken \ {value.Heap}
Destroy(s) == Is(s) /\ Becomes(s, {<<NoString, Freed(object[s])>>})

\* The move constructor copies the inline storage and nothing else of the
\* union, and writes over the other's.
MoveConstruct(s, other) ==
  /\ ~Is(s) /\ Is(other)
  /\ object' = [object EXCEPT
       ![s] = [object[other] EXCEPT !.Heap = NoBlock], ![other] = MovedFrom]
  /\ UNCHANGED taken

\* The move assignment copies the whole union.
MoveAssign(s, other) ==
  /\ Is(s) /\ Is(other) /\ s # other
  /\ object' = [object EXCEPT ![s] = object[other], ![other] = MovedFrom]
  /\ taken' = Freed(object[s])

Next ==
  \E s \in Strings :
    \/ \E size \in Sizes : Construct(s, size) \/ Append(s, size)
    \/ Clear(s) \/ Destroy(s)
    \/ \E other \in Strings : MoveConstruct(s, other) \/ MoveAssign(s, other)

Spec == Init /\ [][Next]_vars

\* A text larger than the inline buffer is kept in a block of the string's own, and
\* every block that is allocated is some string's (tests/BlueTests/src/Main.cpp,
\* lines 49 to 51: such a string is not inline and has its size).
TextsKept ==
  /\ \A s \in Strings : Is(s) => (object[s].m_IsInline <=> object[s].Heap = NoBlock)
  /\ \A b \in taken : Cardinality({s \in Strings : Is(s) /\ object[s].Heap = b}) = 1
=============================================================================
