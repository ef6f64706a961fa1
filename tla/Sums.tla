-------------------------------- MODULE Sums --------------------------------
(***************************************************************************)
(* The sum of a function over a finite set of arguments, defined without   *)
(* recursion so that modules which state accounting properties can also be *)
(* proved about: the sum of f over S is the number of pairs <<x, i>> with  *)
(* x in S and i in 1..f[x].                                                *)
(***************************************************************************)
EXTENDS Naturals, FiniteSets

\* The column of f[x] pairs that x contributes.
Column(f, x) == {x} \X (1..f[x])

Columns(f, S) == UNION {Column(f, x) : x \in S}

\* The sum of f[x] over x in S, for f[x] natural numbers and S finite.
SumOver(f, S) == Cardinality(Columns(f, S))
=============================================================================
