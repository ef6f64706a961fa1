-------------------------- MODULE CountingTheorems --------------------------
(***************************************************************************)
(* Lemmas about numbers: sums over finite sets, the least of a set of      *)
(* natural numbers, and remainders.                                        *)
(***************************************************************************)
EXTENDS Sums, Integers, FiniteSetTheorems, WellFoundedInduction, TLAPS

\* A column is finite and as tall as its value.
LEMMA ColumnSize ==
  ASSUME NEW f, NEW x, f[x] \in Nat
  PROVE  IsFiniteSet(Column(f, x)) /\ Cardinality(Column(f, x)) = f[x]
<1>1. IsFiniteSet({x}) /\ Cardinality({x}) = 1
  BY FS_Singleton
<1>2. IsFiniteSet(1..f[x]) /\ Cardinality(1..f[x]) = f[x]
  <2>1. PICK n \in Nat : n = f[x]
    OBVIOUS
  <2>2. IsFiniteSet(1..n) /\ Cardinality(1..n) = IF 1 > n THEN 0 ELSE n - 1 + 1
    BY FS_Interval
  <2>3. IsFiniteSet(1..n) /\ Cardinality(1..n) = n
    BY <2>2
  <2> QED BY <2>1, <2>3
<1>3. /\ IsFiniteSet({x} \X (1..f[x]))
      /\ Cardinality({x} \X (1..f[x])) = 1 * f[x]
  <2>1. PICK S : S = {x}
    OBVIOUS
  <2>2. PICK I : I = 1..f[x]
    OBVIOUS
  <2>3. /\ IsFiniteSet(S) /\ Cardinality(S) = 1
        /\ IsFiniteSet(I) /\ Cardinality(I) = f[x]
    BY <1>1, <1>2, <2>1, <2>2
  <2>4. IsFiniteSet(S \X I) /\ Cardinality(S \X I) = Cardinality(S) * Cardinality(I)
    BY <2>3, FS_Product
  <2> QED BY <2>1, <2>2, <2>3, <2>4
<1> QED BY <1>3 DEF Column

\* The columns over a finite set are finitely many pairs.
LEMMA ColumnsFinite ==
  ASSUME NEW S, IsFiniteSet(S), NEW f, \A x \in S : f[x] \in Nat
  PROVE  IsFiniteSet(Columns(f, S))
<1> DEFINE F == {Column(f, x) : x \in S}
<1> DEFINE g == [x \in S |-> Column(f, x)]
<1>1. g \in Surjection(S, F)
  BY DEF Surjection
<1>2. IsFiniteSet(F)
  BY <1>1, FS_Surjection
<1>3. \A T \in F : IsFiniteSet(T)
  BY ColumnSize
<1> QED BY <1>2, <1>3, FS_UNION DEF Columns

\* A sum is a natural number.
LEMMA SumNat ==
  ASSUME NEW S, IsFiniteSet(S), NEW f,
         \A x \in S : f[x] \in Nat
  PROVE  SumOver(f, S) \in Nat
BY ColumnsFinite, FS_CardinalityType DEF SumOver

\* The empty sum is 0.
LEMMA SumEmpty ==
  ASSUME NEW f
  PROVE  SumOver(f, {}) = 0
<1>1. Columns(f, {}) = {}
  BY DEF Columns
<1> QED BY <1>1, FS_EmptySet DEF SumOver

\* A sum depends only on the values at its arguments.
LEMMA SumSame ==
  ASSUME NEW S, NEW f, NEW g, \A x \in S : f[x] = g[x]
  PROVE  SumOver(f, S) = SumOver(g, S)
<1>1. Columns(f, S) = Columns(g, S)
  BY DEF Columns, Column
<1> QED BY <1>1 DEF SumOver

\* A sum over fewer arguments is not larger.
LEMMA SumSubset ==
  ASSUME NEW S, IsFiniteSet(S), NEW f,
         \A x \in S : f[x] \in Nat,
         NEW T \in SUBSET S
  PROVE  SumOver(f, T) <= SumOver(f, S)
<1>1. IsFiniteSet(Columns(f, S))
  BY ColumnsFinite
<1>2. Columns(f, T) \subseteq Columns(f, S)
  BY DEF Columns
<1> QED BY <1>1, <1>2, FS_Subset DEF SumOver

\* A new argument adds its value.
LEMMA SumAdd ==
  ASSUME NEW S, IsFiniteSet(S), NEW f, NEW y,
         y \notin S,
         \A x \in S \cup {y} : f[x] \in Nat
  PROVE  SumOver(f, S \cup {y}) = SumOver(f, S) + f[y]
<1>1. IsFiniteSet(Columns(f, S))
  BY ColumnsFinite
<1>2. IsFiniteSet(Column(f, y)) /\ Cardinality(Column(f, y)) = f[y]
  BY ColumnSize
<1>3. Columns(f, S \cup {y}) = Columns(f, S) \cup Column(f, y)
  BY DEF Columns
<1>4. Columns(f, S) \cap Column(f, y) = {}
  BY DEF Columns, Column
<1>5. Cardinality(Columns(f, S)) \in Nat
  BY <1>1, FS_CardinalityType
<1>6. Cardinality(Columns(f, S) \cup Column(f, y))
        = Cardinality(Columns(f, S)) + f[y] - Cardinality({})
  BY <1>1, <1>2, <1>4, FS_Union
<1>7. Cardinality({}) = 0
  BY FS_EmptySet
<1>8. SumOver(f, S \cup {y}) = SumOver(f, S) + f[y] - Cardinality({})
  BY <1>3, <1>6, Zenon DEF SumOver
<1>9. SumOver(f, S) \in Nat /\ f[y] \in Nat
  BY <1>5 DEF SumOver
<1> HIDE DEF SumOver
<1> QED BY <1>7, <1>8, <1>9

\* Without one of its arguments a sum is smaller by its value.
LEMMA SumRemove ==
  ASSUME NEW S, IsFiniteSet(S), NEW f, NEW y \in S,
         \A x \in S : f[x] \in Nat
  PROVE  SumOver(f, S \ {y}) = SumOver(f, S) - f[y]
<1> DEFINE T == S \ {y}
<1>1. IsFiniteSet(T)
  BY FS_RemoveElement
<1>2. T \cup {y} = S
  OBVIOUS
<1>3. y \notin T /\ \A x \in T \cup {y} : f[x] \in Nat
  OBVIOUS
<1> HIDE DEF T
<1>4. SumOver(f, T \cup {y}) = SumOver(f, T) + f[y]
  BY <1>1, <1>3, SumAdd
<1>5. SumOver(f, S) = SumOver(f, T) + f[y]
  BY <1>2, <1>4, Zenon
<1>6. SumOver(f, T) \in Nat
  BY <1>1, <1>3, SumNat
<1>7. f[y] \in Nat
  OBVIOUS
<1>8. SumOver(f, T) = SumOver(f, S) - f[y]
  BY <1>5, <1>6, <1>7
<1> QED BY <1>8 DEF T

\* Where one value changes, the sum changes with it.
LEMMA SumChange ==
  ASSUME NEW S, IsFiniteSet(S), NEW f, NEW g, NEW y \in S,
         \A x \in S : f[x] \in Nat /\ g[x] \in Nat,
         \A x \in S \ {y} : g[x] = f[x]
  PROVE  /\ SumOver(f, S) \in Nat
         /\ SumOver(g, S) = SumOver(f, S) + g[y] - f[y]
<1> DEFINE T == S \ {y}
<1>1. SumOver(f, T) = SumOver(f, S) - f[y]
  BY SumRemove
<1>2. SumOver(g, T) = SumOver(g, S) - g[y]
  BY SumRemove
<1>3. SumOver(f, T) = SumOver(g, T)
  BY SumSame
<1>4. SumOver(f, S) \in Nat /\ SumOver(g, S) \in Nat
  BY SumNat
<1> HIDE DEF T
<1> QED BY <1>1, <1>2, <1>3, <1>4

\* The same, in the form the provers find easier to apply.
LEMMA SumChangeAt ==
  ASSUME NEW S, IsFiniteSet(S), NEW f, NEW g, NEW y, y \in S,
         \A x \in S : f[x] \in Nat, \A x \in S : g[x] \in Nat,
         \A x \in S : x = y \/ g[x] = f[x]
  PROVE  SumOver(g, S) = SumOver(f, S) + g[y] - f[y]
BY SumChange

\* Arguments where a function is 0 do not count.
LEMMA SumWhere ==
  ASSUME NEW S, NEW T \in SUBSET S, NEW f, NEW g,
         \A x \in T : g[x] = f[x],
         \A x \in S \ T : g[x] = 0
  PROVE  SumOver(g, S) = SumOver(f, T)
<1>1. \A x \in S \ T : Column(g, x) = {}
  BY DEF Column
<1>2. \A x \in T : Column(g, x) = Column(f, x)
  BY DEF Column
<1>3. Columns(g, S) = Columns(f, T)
  BY <1>1, <1>2 DEF Columns
<1> QED BY <1>3 DEF SumOver

-----------------------------------------------------------------------------
\* A set of natural numbers has a least one: what an argument by a least
\* counterexample needs, where a function is defined by recursion.
LEMMA LeastNatural ==
  ASSUME NEW T \in SUBSET Nat, T # {}
  PROVE  \E n \in T : \A m \in T : n <= m
<1> DEFINE Below(n) == 0..(n - 1)
<1> DEFINE F == {Below(n) : n \in T}
<1>1. \A n \in T : Below(n) \in FiniteSubsetsOf(Nat)
  BY FS_Interval DEF FiniteSubsetsOf
<1>2. F \subseteq FiniteSubsetsOf(Nat) /\ F # {}
  BY <1>1
<1>3. PICK x \in F : \A y \in F : ~(<<y, x>> \in StrictSubsetOrdering(Nat))
  BY <1>2, FS_StrictSubsetOrderingWellFounded, WFMin
<1>4. PICK n \in T : x = Below(n)
  BY <1>3
<1>5. ASSUME NEW m \in T, m < n PROVE FALSE
  <2>1. Below(m) \subseteq Below(n) /\ Below(m) # Below(n)
    BY <1>5
  <2>2. Below(m) \in F /\ Below(m) \in SUBSET Nat /\ Below(n) \in SUBSET Nat
    BY <1>4
  <2> QED BY <1>3, <1>4, <2>1, <2>2 DEF StrictSubsetOrdering
<1> QED BY <1>5

LEMMA FirstNumbers ==
  ASSUME NEW n \in Nat
  PROVE  IsFiniteSet(0..(n - 1)) /\ Cardinality(0..(n - 1)) = n
<1>1. 0 \in Int /\ n - 1 \in Int
  OBVIOUS
<1>2. IsFiniteSet(0..(n - 1)) /\ Cardinality(0..(n - 1)) = IF 0 > n - 1 THEN 0 ELSE n - 1 - 0 + 1
  BY <1>1, FS_Interval
<1> QED BY <1>2

\* A number below the modulus is its own remainder.
LEMMA SmallModulo ==
  ASSUME NEW m \in Nat, NEW x \in Nat, x < m
  PROVE  x % m = x
<1> DEFINE q == x \div m
<1> DEFINE r == x % m
<1>1. x = m * q + r /\ q \in Int /\ r \in 0..(m - 1)
  OBVIOUS
<1> HIDE DEF q, r
<1>2. CASE q >= 1
  <2>1. m * q >= m
    BY <1>1, <1>2
  <2> QED BY <1>1, <2>1
<1>3. CASE q <= -1
  <2>1. m * q <= -m
    BY <1>1, <1>3
  <2> QED BY <1>1, <2>1
<1>4. CASE q = 0
  BY <1>1, <1>4 DEF r
<1> QED BY <1>1, <1>2, <1>3, <1>4

\* What division and remainder are, of natural numbers.
LEMMA QuotientAndRemainder ==
  ASSUME NEW m \in Nat \ {0}, NEW x \in Nat
  PROVE  x = m * (x \div m) + (x % m) /\ x \div m \in Nat /\ x % m \in 0..(m - 1)
<1> DEFINE q == x \div m
<1> DEFINE r == x % m
<1>1. x = m * q + r /\ q \in Int /\ r \in 0..(m - 1)
  OBVIOUS
<1> HIDE DEF q, r
<1>2. ASSUME q < 0 PROVE FALSE
  <2>1. m * q <= -m
    BY <1>1, <1>2
  <2> QED BY <1>1, <2>1
<1>3. q \in Nat
  BY <1>1, <1>2
<1>4. x = m * q + r /\ q \in Nat /\ r \in 0..(m - 1)
  BY <1>1, <1>3
<1> QED BY <1>4 DEF q, r
=============================================================================
