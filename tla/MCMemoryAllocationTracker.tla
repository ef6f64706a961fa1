---------------------- MODULE MCMemoryAllocationTracker ----------------------
EXTENDS MemoryAllocationTracker, TLC

CONSTANTS p1, p2, p3, r1, r2

MCPointers == {p1, p2, p3}

\* Two slots, one fewer than pointers: the table fills.  p1 and p2 share the
\* last slot and wrap, p3 is at home where they wrap to.
FullHome == (p1 :> 1) @@ (p2 :> 1) @@ (p3 :> 0)

MCRecords == {r1, r2}
=============================================================================
