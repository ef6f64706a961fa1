------------------------------ MODULE OutputBuffer ------------------------------
(***************************************************************************)
(* BoundedOutputBuffer (tools/BlueTestRunner/BoundedOutputBuffer.cpp): the *)
(* first and the last bytes of a program's output, the last ones in a      *)
(* ring.  The n-th byte the program writes is the number n.                *)
(***************************************************************************)
EXTENDS Integers, Sequences

CONSTANTS
  Maxima,       \* the values of maximumBytes
  MaxChunk,     \* bound of the model: bytes of one Append
  MaxProduced   \* bound of the model: bytes of all of them

VARIABLES
  m_maximumBytes,
  m_head,
  m_tail, m_tailStart, m_tailSize, \* the ring, positions from 0
  m_producedByteCount

vars == <<m_maximumBytes, m_head, m_tail, m_tailStart, m_tailSize, m_producedByteCount>>

Least(a, b) == IF a < b THEN a ELSE b

m_headCapacity == m_maximumBytes \div 2
m_tailCapacity == m_maximumBytes - m_headCapacity

Bytes(first, last) == [i \in 1..(last - first + 1) |-> first + i - 1]

Init ==
  /\ m_maximumBytes \in Maxima
  /\ m_head = <<>> /\ m_tail = <<>> /\ m_tailStart = 0 /\ m_tailSize = 0
  /\ m_producedByteCount = 0

\* Mutation of Overwrite: the start of the ring does not move on.
OverwriteInPlace(data) ==
  LET position(i) == (m_tailStart + i - 1) % m_tailCapacity IN
  /\ m_tail' = [p \in 1..m_tailCapacity |->
       IF \E i \in DOMAIN data : position(i) = p - 1
       THEN data[CHOOSE i \in DOMAIN data : position(i) = p - 1] ELSE m_tail[p]]
  /\ UNCHANGED <<m_tailStart, m_tailSize>>

\* The loop of AppendTail, over a full ring: fewer bytes than it holds.
Overwrite(data) ==
  LET position(i) == (m_tailStart + i - 1) % m_tailCapacity IN
  /\ m_tail' = [p \in 1..m_tailCapacity |->
       IF \E i \in DOMAIN data : position(i) = p - 1
       THEN data[CHOOSE i \in DOMAIN data : position(i) = p - 1] ELSE m_tail[p]]
  /\ m_tailStart' = (m_tailStart + Len(data)) % m_tailCapacity
  /\ UNCHANGED m_tailSize

\* The first bytes fill up the ring, the rest goes over the oldest.
FillUp(data) ==
  LET room == m_tailCapacity - m_tailSize
      rest == SubSeq(data, room + 1, Len(data))
      full == m_tail \o SubSeq(data, 1, Least(room, Len(data)))
  IN  /\ m_tail' = [p \in 1..Len(full) |->
           IF p <= Len(rest) THEN rest[p] ELSE full[p]]
      /\ m_tailSize' = Len(full)
      /\ m_tailStart' = Len(rest) % m_tailCapacity

AppendTail(data) ==
  CASE m_tailCapacity = 0 \/ data = <<>> -> UNCHANGED <<m_tail, m_tailStart, m_tailSize>>
    [] m_tailCapacity # 0 /\ data # <<>> /\ Len(data) >= m_tailCapacity ->
         /\ m_tail' = SubSeq(data, Len(data) - m_tailCapacity + 1, Len(data))
         /\ m_tailStart' = 0 /\ m_tailSize' = m_tailCapacity
    [] m_tailCapacity # 0 /\ data # <<>> /\ Len(data) < m_tailCapacity ->
         IF m_tailSize < m_tailCapacity THEN FillUp(data) ELSE Overwrite(data)

\* Append of the next bytes; the count of those produced saturates far away.
AppendBytes(size) ==
  LET data == Bytes(m_producedByteCount + 1, m_producedByteCount + size)
      copyCount == Least(m_headCapacity - Len(m_head), size)
  IN  /\ m_producedByteCount' = m_producedByteCount + size
      /\ m_head' = m_head \o SubSeq(data, 1, copyCount)
      /\ AppendTail(SubSeq(data, copyCount + 1, size))
      /\ UNCHANGED m_maximumBytes

Next ==
  \E size \in 1..MaxChunk :
    m_producedByteCount + size <= MaxProduced /\ AppendBytes(size)

Spec == Init /\ [][Next]_vars

-----------------------------------------------------------------------------

Truncated == m_producedByteCount > m_maximumBytes

LinearizedTail ==
  IF m_tailSize < m_tailCapacity \/ m_tailStart = 0 THEN SubSeq(m_tail, 1, m_tailSize)
  ELSE SubSeq(m_tail, m_tailStart + 1, m_tailCapacity) \o SubSeq(m_tail, 1, m_tailStart)

\* The bytes of the output; a marker, left out here, stands before the tail of a
\* truncated one.
BuildOutput == m_head \o LinearizedTail

\* The output kept is the program's, if it fits, and else the first and the last
\* bytes of it, in order, to the full size, however it was cut into reads.
OutputKept ==
  BuildOutput =
    IF ~Truncated THEN Bytes(1, m_producedByteCount)
    ELSE Bytes(1, m_headCapacity)
           \o Bytes(m_producedByteCount - m_tailCapacity + 1, m_producedByteCount)
=============================================================================
