------------------------ MODULE MCSmallBlockAllocator ------------------------
EXTENDS SmallBlockAllocator, TLC

CONSTANTS t1, t2, c16, c32, s1, s2, s3

MCThreads == {t1, t2}
MCSlabs == {s1, s2, s3}
MCClasses == {c16, c32}

\* A slab holds twice as many blocks of half the size.
MCBlocksIn == (c16 :> 2) @@ (c32 :> 1)

\* Threads are alike, and so are slabs.
Symmetry == Permutations(MCThreads) \cup Permutations(MCSlabs)
=============================================================================
