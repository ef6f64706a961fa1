----------------------------- MODULE MCAllocators -----------------------------
EXTENDS Allocators, TLC

CONSTANTS t1, t2, a1, a2, s1, pool1, pool2

MCThreads == {t1, t2}
MCAddresses == {a1, a2, s1}
OnePool == {pool1}
TwoPools == {pool1, pool2}

\* A size of one unit is a small block, two units are not.
MCSizes == {1, 2}
MCClassOf == (1 :> 1) @@ (2 :> 0)
MCArea == (a1 :> 0) @@ (a2 :> 0) @@ (s1 :> 1)

AlwaysTracked == {TRUE}
SometimesTracked == {TRUE, FALSE}

Symmetry == Permutations(MCThreads) \cup Permutations({a1, a2})
SymmetryOfPools == Symmetry \cup Permutations(TwoPools)
=============================================================================
