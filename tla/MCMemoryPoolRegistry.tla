------------------------ MODULE MCMemoryPoolRegistry ------------------------
EXTENDS MemoryPoolRegistry

CONSTANTS a1, a2

MCAllocations == {a1, a2}

SizesSmall == {1, 2}

\* With counters of five values and a budget of 3, 1 and 3 pass the budget, 3
\* and 3 overflow, 0 is refused.
SizesAll == {0, 1, 3}
=============================================================================
