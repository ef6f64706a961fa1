------------------------------- MODULE FixedPools -------------------------------
(***************************************************************************)
(* The two allocators over one block of memory: PoolAllocator.cpp, slots   *)
(* of one size on a free list kept in the slots themselves, and            *)
(* LinearAllocator.cpp, a cursor that only moves on.  Addresses and sizes  *)
(* are words of the machine, so their sums and products wrap; those of the *)
(* pool are offsets in its block.  Callers may free what they do not hold, *)
(* initialize a pool in use and ask for any size: spoilt and wrapped say   *)
(* that this has left the allocator with no promise to keep.               *)
(***************************************************************************)
EXTENDS Integers, Sequences, FiniteSets

CONSTANTS
  ObjectCounts,  \* of PoolAllocatorDesc
  ObjectStrides, \* GetPoolSlotStride of its sizes and alignments
  AddressSpace,  \* the values of a Size or a uintptr_t: 0..(AddressSpace - 1)
  LinearStart,   \* Start of the linear allocator
  LinearSize,    \* and the size of its block
  Sizes,         \* the sizes asked of it
  Alignments,    \* the alignments, powers of two
  MaxUsed,       \* bound of the model: m_UsedCount, when the free list has become a circle
  MaxLinear      \* bound of the model: blocks the linear allocator hands out

VARIABLES
  m_Capacity, m_ObjectStride, \* of the last Initialize, 0 before it and after Shutdown
  m_Block,     \* m_Block.ByteSize, 0 without a block
  m_UsedCount,
  m_FreeList,  \* an address, or Null
  next,        \* of the free slots: the pointer in the slot
  held,        \* the addresses in the block that callers hold
  spoilt,      \* history: a free slot was freed, the product of line 47 wrapped, or an
               \* Initialize that failed changed the stride of a block
  Current,     \* of the linear allocator
  cut,         \* the ranges it has handed out since the last reset
  wrapped      \* history: the sum of line 13 or 21 wrapped since then

pool == <<m_Capacity, m_ObjectStride, m_Block, m_UsedCount, m_FreeList, next, held, spoilt>>
linear == <<Current, cut, wrapped>>
vars == <<pool, linear>>

Null == -1

Init ==
  /\ m_Capacity = 0 /\ m_ObjectStride = 0 /\ m_Block = 0 /\ m_UsedCount = 0
  /\ m_FreeList = Null
  /\ next = <<>> /\ held = {} /\ spoilt = FALSE
  /\ Current = LinearStart /\ cut = {} /\ wrapped = FALSE

-----------------------------------------------------------------------------
(* The pool.                                                               *)

Slot(stride, index) == index * stride
SlotCount == IF m_ObjectStride = 0 THEN 0 ELSE m_Block \div m_ObjectStride
Slots == {Slot(m_ObjectStride, i) : i \in 0..(SlotCount - 1)}

\* Line 47: the size the backing allocator is asked for.
BlockSize(count, stride) == (stride * count) % AddressSpace

\* A pool that has a block loses it, and is no longer concerned with what callers
\* hold of that.  When BlockSize has wrapped, the loop writes behind the block.
Initialize(count, stride) ==
  /\ count > 0 /\ BlockSize(count, stride) # 0
  /\ m_Capacity' = count /\ m_ObjectStride' = stride /\ m_Block' = BlockSize(count, stride)
  /\ m_UsedCount' = 0 /\ m_FreeList' = Slot(stride, 0)
  /\ next' = [s \in {Slot(stride, i) : i \in 0..(count - 1)} |->
                IF s = Slot(stride, count - 1) THEN Null ELSE s + stride]
  /\ held' = {}
  /\ spoilt' = (stride * count >= AddressSpace)
  /\ UNCHANGED linear

\* The backing allocator refuses, as it always does when nothing is asked for:
\* capacity and stride are set, the block and its list are what they were.
InitializeFails(count, stride) ==
  /\ count > 0 /\ m_Capacity' = count /\ m_ObjectStride' = stride
  /\ spoilt' = (spoilt \/ (m_Block # 0 /\ stride # m_ObjectStride))
  /\ UNCHANGED <<m_Block, m_UsedCount, m_FreeList, next, held, linear>>

\* Whatever callers hold.
Shutdown ==
  /\ m_Capacity # 0
  /\ m_Capacity' = 0 /\ m_ObjectStride' = 0 /\ m_Block' = 0 /\ m_UsedCount' = 0
  /\ m_FreeList' = Null /\ next' = <<>> /\ held' = {} /\ spoilt' = FALSE
  /\ UNCHANGED linear

\* A request that fits a slot; the pointer in it becomes the caller's.  In a slot that
\* was handed out already the link is what its holder wrote there.
Allocate ==
  /\ m_FreeList # Null /\ m_UsedCount < MaxUsed
  /\ held' = held \cup {m_FreeList}
  /\ m_FreeList' \in IF m_FreeList \in DOMAIN next THEN {next[m_FreeList]} ELSE Slots \cup {Null}
  /\ next' = [s \in DOMAIN next \ {m_FreeList} |-> next[s]]
  /\ m_UsedCount' = m_UsedCount + 1
  /\ UNCHANGED <<m_Capacity, m_ObjectStride, m_Block, spoilt, linear>>

\* Mutation of InPool: any address in the block passes for a slot.
InBlock(pointer) == pointer \in 0..(m_Block - 1)

\* The checks of Free.
InPool(pointer) ==
  /\ m_UsedCount # 0
  /\ pointer \in 0..(m_Block - 1)
  /\ pointer % m_ObjectStride = 0

\* Any pointer, also to a slot that is free already.
Free(pointer) ==
  /\ InPool(pointer)
  /\ next' = [s \in DOMAIN next \cup {pointer} |-> IF s = pointer THEN m_FreeList ELSE next[s]]
  /\ m_FreeList' = pointer
  /\ held' = held \ {pointer}
  /\ m_UsedCount' = m_UsedCount - 1
  /\ spoilt' = (spoilt \/ pointer \in Slots \ held)
  /\ UNCHANGED <<m_Capacity, m_ObjectStride, m_Block, linear>>

-----------------------------------------------------------------------------
(* The linear allocator.                                                   *)

AlignForward(address, alignment) ==
  (((address + alignment - 1) % AddressSpace) \div alignment) * alignment

LinearAllocate(size, alignment) ==
  LET aligned == AlignForward(Current, alignment)
      after == (aligned + size) % AddressSpace
  IN
  /\ after <= LinearStart + LinearSize
  /\ Cardinality(cut) < MaxLinear
  /\ Current' = after
  /\ cut' = cut \cup {[first |-> aligned, last |-> aligned + size - 1]}
  /\ wrapped' = (\/ wrapped
                 \/ Current + alignment > AddressSpace
                 \/ aligned + size >= AddressSpace)
  /\ UNCHANGED pool

\* Whatever callers hold.
ResetLinearAllocator ==
  /\ <<Current, cut>> # <<LinearStart, {}>>
  /\ Current' = LinearStart /\ cut' = {} /\ wrapped' = FALSE
  /\ UNCHANGED pool

\* Of the one, and of the other, which share nothing.
PoolNext ==
  \/ \E count \in ObjectCounts, stride \in ObjectStrides :
       Initialize(count, stride) \/ InitializeFails(count, stride)
  \/ Shutdown \/ Allocate \/ \E pointer \in 0..m_Block : Free(pointer)

LinearNext ==
  \/ \E size \in Sizes, alignment \in Alignments : LinearAllocate(size, alignment)
  \/ ResetLinearAllocator

Next == PoolNext \/ LinearNext

Spec == Init /\ [][Next]_vars

-----------------------------------------------------------------------------
(* Properties.                                                             *)

\* The free list, by following it from its head: Null when it ends.
FreeList ==
  LET reached[n \in 0..SlotCount] ==
        IF n = 0 THEN {m_FreeList}
        ELSE reached[n - 1] \cup {next[s] : s \in reached[n - 1] \cap DOMAIN next}
  IN  reached[SlotCount]

\* Every slot of the pool is either held by one caller or on the free list, which
\* ends: over pointers that are none of its slots, an Initialize that fails and
\* another over a pool in use, unless the pool is spoilt (see there).
\* What the linear allocator hands out lies in its block and never overlaps, as
\* long as no request is so large that an address wraps.
BlocksDisjoint ==
  /\ ~spoilt =>
       /\ held \cap FreeList = {} /\ held \cup FreeList = Slots \cup {Null}
       /\ m_UsedCount = Cardinality(held)
  /\ ~wrapped =>
       /\ \A a, b \in cut : a # b => a.last < b.first \/ b.last < a.first
       /\ \A a \in cut : a.first >= LinearStart /\ a.last < LinearStart + LinearSize
=============================================================================
