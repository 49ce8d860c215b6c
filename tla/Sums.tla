-------------------------------- MODULE Sums --------------------------------
(***************************************************************************)
(* Lemmas about the sums the models write with the folds of the community  *)
(* modules.  A fold takes the elements in an order CHOOSE settles; what is *)
(* proved here is that the order does not matter.                          *)
(***************************************************************************)
EXTENDS Naturals, FiniteSets, FiniteSetsExt, Functions,
        FiniteSetTheorems, WellFoundedInduction, TLAPS

Pick(s) == CHOOSE x \in s : TRUE

\* The sums of f over the subsets of S, as the fold computes them.
SumsUp(f, S, sum) ==
  sum = [s \in SUBSET S |->
           IF s = {} THEN 0 ELSE f[Pick(s)] + sum[s \ {Pick(s)}]]

Sum(f, S) == (CHOOSE sum : SumsUp(f, S, sum))[S]

\* A set of numbers that holds 0, and with each number the next, is Nat.
LEMMA StepByStep ==
  ASSUME NEW T \in SUBSET Nat, 0 \in T, \A n \in T : n + 1 \in T
  PROVE  T = Nat
<1> DEFINE less == OpToRel(<, Nat)
           rest == Nat \ T
<1>1. IsWellFoundedOn(less, Nat)
  BY NatLessThanWellFounded
<1>2. \A m, n \in Nat : <<m, n>> \in less <=> m < n
  BY DEF OpToRel
<1> HIDE DEF less
<1>3. SUFFICES ASSUME rest # {} PROVE FALSE
  OBVIOUS
<1>4. PICK m \in rest : \A n \in rest : ~(<<n, m>> \in less)
  BY <1>1, <1>3, WFMin
<1>5. m \in Nat /\ m # 0 /\ m - 1 \in Nat
  BY <1>4
<1>6. m - 1 < m /\ <<m - 1, m>> \in less
  BY <1>2, <1>5
<1>7. m - 1 \in T
  BY <1>4, <1>5, <1>6
<1>8. (m - 1) + 1 \in T
  BY <1>7
<1> QED BY <1>4, <1>5, <1>8

\* What holds of a set as soon as it holds of its strict subsets holds of all.
LEMMA SetBySet ==
  ASSUME NEW S, IsFiniteSet(S), NEW G,
         \A s \in SUBSET S : (\A t \in SUBSET s : t # s => t \in G) => s \in G
  PROVE  \A s \in SUBSET S : s \in G
<1> DEFINE T == {n \in Nat : \A s \in SUBSET S : Cardinality(s) <= n => s \in G}
<1>1. \A s \in SUBSET S : IsFiniteSet(s) /\ Cardinality(s) \in Nat
  BY FS_Subset, FS_CardinalityType
<1>2. \A s \in SUBSET S : \A t \in SUBSET s :
         t # s => t \in SUBSET S /\ Cardinality(t) < Cardinality(s)
  BY <1>1, FS_Subset
<1>3. 0 \in T
  <2> SUFFICES ASSUME NEW s \in SUBSET S, Cardinality(s) <= 0 PROVE s \in G
    OBVIOUS
  <2>1. \A t \in SUBSET s : t = s
    BY <1>1, <1>2
  <2> QED BY <2>1
<1>4. ASSUME NEW n \in T PROVE n + 1 \in T
  <2> SUFFICES ASSUME NEW s \in SUBSET S, Cardinality(s) <= n + 1 PROVE s \in G
    OBVIOUS
  <2>1. ASSUME NEW t \in SUBSET s, t # s PROVE t \in G
    <3>1. t \in SUBSET S /\ Cardinality(t) < Cardinality(s)
      BY <1>2, <2>1
    <3>2. Cardinality(t) <= n
      BY <1>1, <3>1
    <3> QED BY <3>1, <3>2
  <2> QED BY <2>1
<1> HIDE DEF T
<1>5. T = Nat
  BY <1>3, <1>4, StepByStep DEF T
<1> QED BY <1>1, <1>5 DEF T

LEMMA SmallerByOne ==
  ASSUME NEW S, IsFiniteSet(S), NEW s \in SUBSET S, s # {}
  PROVE  /\ Pick(s) \in s /\ s \ {Pick(s)} \in SUBSET S
         /\ Cardinality(s \ {Pick(s)}) = Cardinality(s) - 1
         /\ Cardinality(s) \in Nat
<1>1. Pick(s) \in s
  BY DEF Pick
<1> QED BY <1>1, FS_Subset, FS_RemoveElement, FS_CardinalityType

\* The fold is well defined on a finite set.
LEMMA SumsExist ==
  ASSUME NEW S, IsFiniteSet(S), NEW f
  PROVE  \E sum : SumsUp(f, S, sum)
<1> DEFINE Next(sum, s) == IF s = {} THEN 0 ELSE f[Pick(s)] + sum[s \ {Pick(s)}]
           UpTo(n, sum) == /\ sum = [s \in SUBSET S |-> sum[s]]
                           /\ \A s \in SUBSET S : Cardinality(s) <= n => sum[s] = Next(sum, s)
           T == {n \in Nat : \E sum : UpTo(n, sum)}
<1>1. 0 \in T
  <2> DEFINE zero == [s \in SUBSET S |-> 0]
  <2>1. ASSUME NEW s \in SUBSET S, Cardinality(s) <= 0 PROVE s = {}
    BY <2>1, SmallerByOne, FS_Subset, FS_CardinalityType
  <2>2. UpTo(0, zero)
    BY <2>1
  <2> QED BY <2>2
<1>2. ASSUME NEW n \in T PROVE n + 1 \in T
  <2>1. PICK sum : UpTo(n, sum)
    OBVIOUS
  <2> DEFINE next == [s \in SUBSET S |-> Next(sum, s)]
  <2>2. ASSUME NEW s \in SUBSET S, Cardinality(s) <= n + 1 PROVE next[s] = Next(next, s)
    <3>1. CASE s = {}
      BY <3>1
    <3>2. CASE s # {}
      <4> DEFINE t == s \ {Pick(s)}
      <4>1. t \in SUBSET S /\ Cardinality(t) <= n
        BY <2>2, <3>2, SmallerByOne
      <4>2. sum[t] = Next(sum, t) /\ next[t] = Next(sum, t)
        BY <2>1, <4>1
      <4> QED BY <3>2, <4>2
    <3> QED BY <3>1, <3>2
  <2>3. UpTo(n + 1, next)
    BY <2>2
  <2>4. n + 1 \in Nat
    OBVIOUS
  <2> HIDE DEF UpTo
  <2> QED BY <2>3, <2>4
<1> HIDE DEF T
<1>3. T = Nat
  BY <1>1, <1>2, StepByStep DEF T
<1>4. Cardinality(S) \in T
  BY <1>3, FS_CardinalityType
<1>5. PICK sum : UpTo(Cardinality(S), sum)
  BY <1>4 DEF T
<1>6. \A s \in SUBSET S : Cardinality(s) <= Cardinality(S)
  BY FS_Subset
<1>7. \A s \in SUBSET S : sum[s] = Next(sum, s)
  BY <1>5, <1>6
<1>8. SumsUp(f, S, sum)
  BY <1>5, <1>7 DEF SumsUp
<1> QED BY <1>8

LEMMA SumsOfSubset ==
  ASSUME NEW S, IsFiniteSet(S), NEW f, NEW sum, SumsUp(f, S, sum), NEW t \in SUBSET S
  PROVE  sum[t] = Sum(f, t)
<1>1. IsFiniteSet(t)
  BY FS_Subset
<1>2. PICK own : SumsUp(f, t, own) /\ Sum(f, t) = own[t]
  BY <1>1, SumsExist DEF Sum
<1> DEFINE G == {s \in SUBSET t : sum[s] = own[s]}
<1>3. ASSUME NEW s \in SUBSET t, \A u \in SUBSET s : u # s => u \in G
      PROVE  s \in G
  <2>1. CASE s = {}
    BY <1>2, <2>1 DEF SumsUp
  <2>2. CASE s # {}
    <3> DEFINE u == s \ {Pick(s)}
    <3>1. u \in SUBSET s /\ u # s
      BY <1>1, <2>2, SmallerByOne
    <3>2. sum[u] = own[u]
      BY <1>3, <3>1
    <3>3. sum[s] = f[Pick(s)] + sum[u] /\ own[s] = f[Pick(s)] + own[u]
      BY <1>2, <2>2 DEF SumsUp
    <3> QED BY <3>2, <3>3
  <2> QED BY <2>1, <2>2
<1> HIDE DEF G
<1>4. t \in G
  BY <1>1, <1>3, SetBySet
<1> QED BY <1>2, <1>4 DEF G

\* The sum of nothing, and of one element more.
LEMMA SumStep ==
  ASSUME NEW S, IsFiniteSet(S), NEW f
  PROVE  /\ Sum(f, {}) = 0
         /\ S # {} => Sum(f, S) = f[Pick(S)] + Sum(f, S \ {Pick(S)})
<1>1. PICK sum : SumsUp(f, S, sum) /\ Sum(f, S) = sum[S]
  BY SumsExist DEF Sum
<1>2. \A t \in SUBSET S : sum[t] = Sum(f, t)
  BY <1>1, SumsOfSubset
<1>3. Sum(f, {}) = 0
  BY <1>1, <1>2 DEF SumsUp
<1>4. ASSUME S # {} PROVE Sum(f, S) = f[Pick(S)] + Sum(f, S \ {Pick(S)})
  BY <1>1, <1>2, <1>4 DEF SumsUp
<1> QED BY <1>3, <1>4

LEMMA SumNat ==
  ASSUME NEW S, IsFiniteSet(S), NEW f, \A x \in S : f[x] \in Nat
  PROVE  Sum(f, S) \in Nat
<1> DEFINE G == {s \in SUBSET S : Sum(f, s) \in Nat}
<1>1. ASSUME NEW s \in SUBSET S, \A u \in SUBSET s : u # s => u \in G
      PROVE  s \in G
  <2>0. IsFiniteSet(s)
    BY FS_Subset
  <2>1. CASE s = {}
    <3>1. Sum(f, {}) = 0
      BY <2>0, SumStep
    <3> QED BY <2>1, <3>1
  <2>2. CASE s # {}
    <3> DEFINE u == s \ {Pick(s)}
    <3>1. Pick(s) \in s /\ u \in SUBSET s /\ u # s
      BY <2>2, SmallerByOne
    <3>2. Sum(f, u) \in Nat /\ f[Pick(s)] \in Nat
      BY <1>1, <3>1
    <3>3. Sum(f, s) = f[Pick(s)] + Sum(f, u)
      BY <2>0, <2>2, SumStep
    <3> QED BY <3>2, <3>3
  <2> QED BY <2>1, <2>2
<1> HIDE DEF G
<1>2. S \in G
  BY <1>1, SetBySet
<1> QED BY <1>2 DEF G

LEMMA SumEqual ==
  ASSUME NEW S, IsFiniteSet(S), NEW f, NEW g, \A x \in S : f[x] = g[x]
  PROVE  Sum(f, S) = Sum(g, S)
<1> DEFINE G == {s \in SUBSET S : Sum(f, s) = Sum(g, s)}
<1>1. ASSUME NEW s \in SUBSET S, \A u \in SUBSET s : u # s => u \in G
      PROVE  s \in G
  <2>0. IsFiniteSet(s)
    BY FS_Subset
  <2>1. CASE s = {}
    BY <2>0, <2>1, SumStep
  <2>2. CASE s # {}
    <3> DEFINE u == s \ {Pick(s)}
    <3>1. Pick(s) \in s /\ u \in SUBSET s /\ u # s
      BY <2>2, SmallerByOne
    <3>2. Sum(f, u) = Sum(g, u) /\ f[Pick(s)] = g[Pick(s)]
      BY <1>1, <3>1
    <3>3. Sum(f, s) = f[Pick(s)] + Sum(f, u) /\ Sum(g, s) = g[Pick(s)] + Sum(g, u)
      BY <2>0, <2>2, SumStep
    <3> QED BY <3>2, <3>3
  <2> QED BY <2>1, <2>2
<1> HIDE DEF G
<1>2. S \in G
  BY <1>1, SetBySet
<1> QED BY <1>2 DEF G

\* Whichever element is taken out, the rest is the same.
LEMMA SumRemove ==
  ASSUME NEW S, IsFiniteSet(S), NEW f, \A x \in S : f[x] \in Nat, NEW y \in S
  PROVE  Sum(f, S) = f[y] + Sum(f, S \ {y})
<1> DEFINE G == {s \in SUBSET S : \A z \in s : Sum(f, s) = f[z] + Sum(f, s \ {z})}
<1>1. ASSUME NEW s \in SUBSET S, \A u \in SUBSET s : u # s => u \in G
      PROVE  s \in G
  <2> SUFFICES ASSUME NEW z \in s PROVE Sum(f, s) = f[z] + Sum(f, s \ {z})
    OBVIOUS
  <2> DEFINE x == Pick(s)
  <2>1. IsFiniteSet(s) /\ x \in s
    BY FS_Subset, SmallerByOne
  <2>2. Sum(f, s) = f[x] + Sum(f, s \ {x})
    BY <2>1, SumStep
  <2>3. CASE x = z
    BY <2>2, <2>3
  <2>4. CASE x # z
    <3> DEFINE both == s \ {x, z}
    <3>1. (s \ {x}) \ {z} = both /\ (s \ {z}) \ {x} = both
      OBVIOUS
    <3>2. s \ {x} \in G /\ s \ {z} \in G
      BY <1>1, <2>1
    <3>3. Sum(f, s \ {x}) = f[z] + Sum(f, both) /\ Sum(f, s \ {z}) = f[x] + Sum(f, both)
      BY <2>1, <2>4, <3>1, <3>2
    <3>4. IsFiniteSet(both) /\ \A v \in both : f[v] \in Nat
      BY <2>1, FS_Subset
    <3>5. Sum(f, both) \in Nat /\ f[x] \in Nat /\ f[z] \in Nat
      BY <2>1, <3>4, SumNat
    <3> HIDE DEF both, x
    <3> QED BY <2>2, <3>3, <3>5
  <2> QED BY <2>3, <2>4
<1> HIDE DEF G
<1>2. S \in G
  BY <1>1, SetBySet
<1> QED BY <1>2 DEF G

\* One addend grows, the others stay.
LEMMA SumChange ==
  ASSUME NEW S, IsFiniteSet(S), NEW f, NEW g, NEW y \in S,
         \A x \in S : f[x] \in Nat /\ g[x] \in Nat,
         \A x \in S : x # y => f[x] = g[x]
  PROVE  Sum(f, S) + g[y] = Sum(g, S) + f[y]
<1> DEFINE rest == S \ {y}
<1>1. IsFiniteSet(rest)
  BY FS_Subset
<1>2. Sum(f, rest) = Sum(g, rest) /\ Sum(f, rest) \in Nat
  BY <1>1, SumEqual, SumNat
<1>3. Sum(f, S) = f[y] + Sum(f, rest) /\ Sum(g, S) = g[y] + Sum(g, rest)
  BY SumRemove
<1> HIDE DEF rest
<1> QED BY <1>2, <1>3

LEMMA SumZero ==
  ASSUME NEW S, IsFiniteSet(S), NEW f, \A x \in S : f[x] = 0
  PROVE  Sum(f, S) = 0
<1> DEFINE G == {s \in SUBSET S : Sum(f, s) = 0}
<1>1. ASSUME NEW s \in SUBSET S, \A u \in SUBSET s : u # s => u \in G
      PROVE  s \in G
  <2>0. IsFiniteSet(s)
    BY FS_Subset
  <2>1. CASE s = {}
    BY <2>0, <2>1, SumStep
  <2>2. CASE s # {}
    <3>1. Pick(s) \in s /\ s \ {Pick(s)} \in G
      BY <1>1, <2>2, SmallerByOne
    <3>2. Sum(f, s) = f[Pick(s)] + Sum(f, s \ {Pick(s)})
      BY <2>0, <2>2, SumStep
    <3> QED BY <3>1, <3>2
  <2> QED BY <2>1, <2>2
<1> HIDE DEF G
<1>2. S \in G
  BY <1>1, SetBySet
<1> QED BY <1>2 DEF G

-----------------------------------------------------------------------------
\* The folds the models write.
LEMMA FoldIsSum ==
  ASSUME NEW f
  PROVE  FoldFunction(+, 0, f) = Sum(f, DOMAIN f)
BY DEF FoldFunction, FoldFunctionOnSet, MapThenFoldSet, Sum, SumsUp, Pick

LEMMA MapIsSum ==
  ASSUME NEW f, NEW S
  PROVE  MapThenSumSet(LAMBDA x : f[x], S) = Sum(f, S)
BY DEF MapThenSumSet, MapThenFoldSet, Sum, SumsUp, Pick

-----------------------------------------------------------------------------
\* Sums over the numbers below n.
SumBelow(f, n) == Sum(f, 0..(n - 1))

LEMMA BelowStep ==
  ASSUME NEW n \in Nat, NEW f, \A a \in 0..n : f[a] \in Nat
  PROVE  /\ SumBelow(f, 0) = 0
         /\ SumBelow(f, n) \in Nat
         /\ SumBelow(f, n + 1) = SumBelow(f, n) + f[n]
<1>1. IsFiniteSet(0..n) /\ IsFiniteSet(0..(n - 1)) /\ 0..(0 - 1) = {}
  BY FS_Interval
<1>2. (0..n) \ {n} = 0..(n - 1) /\ n \in 0..n /\ (n + 1) - 1 = n
  OBVIOUS
<1>3. Sum(f, 0..n) = f[n] + Sum(f, 0..(n - 1))
  BY <1>1, <1>2, SumRemove
<1>4. SumBelow(f, n) \in Nat
  BY <1>1, <1>2, SumNat DEF SumBelow
<1>5. SumBelow(f, 0) = 0
  BY <1>1, SumStep DEF SumBelow
<1>6. SumBelow(f, n + 1) = f[n] + SumBelow(f, n) /\ f[n] \in Nat
  BY <1>2, <1>3 DEF SumBelow
<1> QED BY <1>4, <1>5, <1>6

\* When every value moves up by one and nothing comes in, the last leaves.
LEMMA BelowShift ==
  ASSUME NEW n \in Nat, NEW f, NEW g, \A a \in 0..n : f[a] \in Nat,
         g[0] = 0, \A a \in 0..n : a > 0 => g[a] = f[a - 1]
  PROVE  SumBelow(g, n + 1) = SumBelow(f, n)
<1>0. \A a \in 0..n : g[a] \in Nat
  BY SMT
<1> DEFINE T == {k \in Nat : k <= n => SumBelow(g, k + 1) = SumBelow(f, k)}
<1>1. 0 \in T
  <2>1. SumBelow(g, 0) = 0 /\ SumBelow(f, 0) = 0 /\ SumBelow(g, 0 + 1) = SumBelow(g, 0) + g[0]
    BY <1>0, BelowStep
  <2> QED BY <2>1
<1>2. ASSUME NEW k \in T PROVE k + 1 \in T
  <2>1. SUFFICES ASSUME k + 1 <= n PROVE SumBelow(g, (k + 1) + 1) = SumBelow(f, k + 1)
    OBVIOUS
  <2>2. k \in Nat /\ SumBelow(g, k + 1) = SumBelow(f, k) /\ g[k + 1] = f[k]
    BY <2>1
  <2>3. SumBelow(f, k + 1) = SumBelow(f, k) + f[k]
    BY <2>1, <2>2, BelowStep
  <2>4. SumBelow(g, (k + 1) + 1) = SumBelow(g, k + 1) + g[k + 1]
    BY <1>0, <2>1, <2>2, BelowStep
  <2> QED BY <2>2, <2>3, <2>4
<1> HIDE DEF T
<1>3. n \in T
  BY <1>1, <1>2, StepByStep DEF T
<1> QED BY <1>3 DEF T
=============================================================================
