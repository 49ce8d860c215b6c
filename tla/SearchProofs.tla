---------------------------- MODULE SearchProofs ----------------------------
(***************************************************************************)
(* Proofs about the two searches: the menus that the ingredients at hand   *)
(* allow, with the shopping list of the chosen ones, for any master of     *)
(* menus and ingredients and any limits; and the recipe pages of a menu,   *)
(* for any number of requests and any budget, timeout, waits and time to   *)
(* live.                                                                   *)
(***************************************************************************)
EXTENDS RecipeLinks, Catalog, Sums, SequenceTheorems, FunctionTheorems, TLAPS

-----------------------------------------------------------------------------
\* s holds the members of S, each once, in the order of key.
Sorts(s, S, key) ==
  /\ s \in [1..Cardinality(S) -> S]
  /\ \A x \in S : \E k \in 1..Cardinality(S) : s[k] = x
  /\ \A j, k \in 1..Cardinality(S) : j < k => Precedes(key[s[j]], key[s[k]])

\* The keys of S put its members in one line.
InLine(S, key) ==
  /\ \A x \in S : ~Precedes(key[x], key[x])
  /\ \A x, y, z \in S :
       Precedes(key[x], key[y]) /\ Precedes(key[y], key[z]) => Precedes(key[x], key[z])
  /\ \A x, y \in S : x = y \/ Precedes(key[x], key[y]) \/ Precedes(key[y], key[x])

\* A member's place is the number of those before it, and every place is taken.
LEMMA InOrderSorts ==
  ASSUME NEW S, IsFiniteSet(S), NEW key, InLine(S, key)
  PROVE  Sorts(InOrder(S, key), S, key)
<1> DEFINE n == Cardinality(S)
           Before(x) == {y \in S : Precedes(key[y], key[x])}
           place == [x \in S |-> Cardinality(Before(x))]
           s == InOrder(S, key)
<1>0. n \in Nat
  BY FS_CardinalityType
<1>1. ASSUME NEW x \in S
      PROVE  IsFiniteSet(Before(x)) /\ Cardinality(Before(x)) \in 0..(n - 1)
  <2>1. Before(x) \in SUBSET S /\ Before(x) # S
    BY DEF InLine
  <2>2. /\ IsFiniteSet(Before(x)) /\ Cardinality(Before(x)) <= n
        /\ Cardinality(Before(x)) # n
    BY <2>1, FS_Subset
  <2>3. Cardinality(Before(x)) \in Nat
    BY <2>2, FS_CardinalityType
  <2> HIDE DEF n, Before
  <2> QED BY <1>0, <2>2, <2>3
<1>2. ASSUME NEW x \in S, NEW y \in S, Precedes(key[x], key[y])
      PROVE  place[x] < place[y]
  <2>1. Before(x) \in SUBSET Before(y) /\ x \in Before(y) /\ x \notin Before(x)
    BY <1>2 DEF InLine
  <2>2. /\ Cardinality(Before(x)) <= Cardinality(Before(y))
        /\ Cardinality(Before(x)) # Cardinality(Before(y))
    BY <1>1, <2>1, FS_Subset
  <2>3. Cardinality(Before(x)) \in Nat /\ Cardinality(Before(y)) \in Nat
    BY <1>1, FS_CardinalityType
  <2> HIDE DEF Before
  <2> QED BY <2>2, <2>3
<1>10. s = [k \in 1..n |-> CHOOSE x \in S : Cardinality(Before(x)) = k - 1]
  BY DEF InOrder
<1> HIDE DEF Before, s
<1>3. place \in [S -> 0..(n - 1)]
  BY <1>1
<1>4. \A x \in S : place[x] \in Nat /\ place[x] = Cardinality(Before(x))
  BY <1>0, <1>1
<1> HIDE DEF place
<1>5. \A x, y \in S : place[x] = place[y] => x = y
  BY <1>2, <1>4 DEF InLine
<1>6. place \in Injection(S, 0..(n - 1))
  BY <1>3, <1>5, Fun_IsInj
<1>7. IsFiniteSet(0..(n - 1)) /\ Cardinality(0..(n - 1)) = n
  BY <1>0, FS_Interval
<1>8. place \in Surjection(S, 0..(n - 1))
  BY <1>6, <1>7, FS_Injection
<1>9. \A k \in 0..(n - 1) : \E x \in S : place[x] = k
  BY <1>8 DEF Surjection
<1> HIDE DEF n
<1>11. ASSUME NEW k \in 1..n PROVE s[k] \in S /\ place[s[k]] = k - 1
  <2>1. k - 1 \in 0..(n - 1)
    BY <1>0
  <2>2. \E x \in S : Cardinality(Before(x)) = k - 1
    BY <1>4, <1>9, <2>1
  <2>3. s[k] = CHOOSE x \in S : Cardinality(Before(x)) = k - 1
    BY <1>10
  <2> QED BY <1>4, <2>2, <2>3
<1>12. s \in [1..n -> S]
  BY <1>10, <1>11
<1>13. ASSUME NEW x \in S PROVE \E k \in 1..n : s[k] = x
  <2>1. place[x] + 1 \in 1..n /\ (place[x] + 1) - 1 = place[x]
    BY <1>0, <1>3
  <2> QED BY <1>5, <1>11, <2>1
<1>14. ASSUME NEW j \in 1..n, NEW k \in 1..n, j < k
       PROVE  Precedes(key[s[j]], key[s[k]])
  <2>1. s[j] \in S /\ s[k] \in S /\ place[s[j]] < place[s[k]]
    BY <1>0, <1>11, <1>14
  <2>2. ~Precedes(key[s[k]], key[s[j]]) /\ s[j] # s[k]
    BY <1>2, <1>4, <2>1
  <2> QED BY <2>1, <2>2 DEF InLine
<1> QED BY <1>12, <1>13, <1>14 DEF Sorts, n, s

LEMMA ThreeKeys ==
  ASSUME NEW s \in [1..3 -> Nat], NEW t \in [1..3 -> Nat]
  PROVE  Precedes(s, t) <=>
           s[1] < t[1] \/ (s[1] = t[1] /\ (s[2] < t[2] \/ (s[2] = t[2] /\ s[3] < t[3])))
<1>1. Precedes(s, t) <=> \E k \in 1..3 : s[k] < t[k] /\ \A j \in 1..(k - 1) : s[j] = t[j]
  BY DEF Precedes
<1>2. \A k \in 1..3 : k = 1 \/ k = 2 \/ k = 3
  OBVIOUS
<1>3. 1..(1 - 1) = {} /\ 1..(2 - 1) = {1} /\ 1..(3 - 1) = {1, 2}
  OBVIOUS
<1> QED BY <1>1, <1>2, <1>3

LEMMA FourKeys ==
  ASSUME NEW s \in [1..4 -> Nat], NEW t \in [1..4 -> Nat]
  PROVE  Precedes(s, t) <=>
           s[1] < t[1] \/ (s[1] = t[1] /\ (s[2] < t[2] \/ (s[2] = t[2] /\
             (s[3] < t[3] \/ (s[3] = t[3] /\ s[4] < t[4])))))
<1>1. Precedes(s, t) <=> \E k \in 1..4 : s[k] < t[k] /\ \A j \in 1..(k - 1) : s[j] = t[j]
  BY DEF Precedes
<1>2. \A k \in 1..4 : k = 1 \/ k = 2 \/ k = 3 \/ k = 4
  OBVIOUS
<1>3. 1..(1 - 1) = {} /\ 1..(2 - 1) = {1} /\ 1..(3 - 1) = {1, 2} /\ 1..(4 - 1) = {1, 2, 3}
  OBVIOUS
<1> QED BY <1>1, <1>2, <1>3

\* The ingredients as they are displayed.
LEMMA DisplaySorts ==
  ASSUME NEW S \in SUBSET Ingredients
  PROVE  /\ IsFiniteSet(S) /\ Cardinality(S) \in Nat
         /\ Display(S) \in [1..Cardinality(S) -> S]
         /\ Len(Display(S)) = Cardinality(S) /\ ToSet(Display(S)) = S
         /\ \A j, k \in 1..Cardinality(S) : j < k =>
              LET a == Display(S)[j]
                  b == Display(S)[k]
              IN  /\ a # b
                  /\ \/ Category[a] < Category[b]
                     \/ (Category[a] = Category[b] /\ Kana[a] <= Kana[b])
<1> DEFINE key == [i \in S |-> <<Category[i], Kana[i], i>>]
           n == Cardinality(S)
           s == Display(S)
<1>1. IsFiniteSet(S) /\ n \in Nat
  BY CatalogAssumption, FS_Subset, FS_CardinalityType
<1>2. \A i \in S : i \in Nat /\ Category[i] \in Nat /\ Kana[i] \in Nat
  BY CatalogAssumption
<1>3. \A x, y \in S : Precedes(key[x], key[y]) <=>
        \/ Category[x] < Category[y]
        \/ Category[x] = Category[y] /\ (Kana[x] < Kana[y] \/ (Kana[x] = Kana[y] /\ x < y))
  <2>1. \A x \in S : /\ key[x] \in [1..3 -> Nat]
                     /\ key[x][1] = Category[x] /\ key[x][2] = Kana[x] /\ key[x][3] = x
    BY <1>2
  <2> HIDE DEF key
  <2> QED BY <2>1, ThreeKeys
<1> HIDE DEF key
<1>4. InLine(S, key)
  BY <1>2, <1>3 DEF InLine
<1>5. Sorts(s, S, key)
  BY <1>1, <1>4, InOrderSorts DEF Display, key
<1> HIDE DEF s, n
<1>6. s \in [1..n -> S] /\ ToSet(s) = S
  BY <1>5 DEF Sorts, ToSet, n
<1>7. Len(s) = n
  BY <1>1, <1>6
<1>8. ASSUME NEW j \in 1..n, NEW k \in 1..n, j < k
      PROVE  /\ s[j] # s[k]
             /\ \/ Category[s[j]] < Category[s[k]]
                \/ (Category[s[j]] = Category[s[k]] /\ Kana[s[j]] <= Kana[s[k]])
  <2>1. s[j] \in S /\ s[k] \in S /\ Precedes(key[s[j]], key[s[k]])
    BY <1>5, <1>8 DEF Sorts, n
  <2> QED BY <1>2, <1>3, <2>1
<1> QED BY <1>1, <1>6, <1>7, <1>8 DEF s, n

-----------------------------------------------------------------------------
\* Masters of menus and ingredients, and what they say of a menu.
Masters == SUBSET (Menus \X Ingredients)

Few(pairs, have, m) == Cardinality(IngredientsOf(pairs, m) \ have)
Many(pairs, have, m) == Cardinality(IngredientsOf(pairs, m) \cap have)

Orders == {"missing_asc", "matched_desc"}

\* Menu m comes before n.
Ahead(pairs, have, by, m, n) ==
  LET fewer == Few(pairs, have, m) < Few(pairs, have, n)
      asFew == Few(pairs, have, m) = Few(pairs, have, n)
      more  == Many(pairs, have, m) > Many(pairs, have, n)
      asMany == Many(pairs, have, m) = Many(pairs, have, n)
  IN  \/ by = "missing_asc" /\ (fewer \/ (asFew /\ more))
      \/ by = "matched_desc" /\ (more \/ (asMany /\ fewer))
      \/ asFew /\ asMany /\ (MenuKana[m] < MenuKana[n] \/ (MenuKana[m] = MenuKana[n] /\ m < n))

LEMMA UsedIs ==
  ASSUME NEW pairs \in Masters, NEW m
  PROVE  /\ IngredientsOf(pairs, m) \in SUBSET Ingredients
         /\ IngredientsOf(pairs, m) = {i \in Ingredients : <<m, i>> \in pairs}
BY DEF IngredientsOf, Masters

LEMMA MatchTells ==
  ASSUME NEW pairs \in Masters, NEW have, NEW m
  PROVE  /\ Match(pairs, have, m).menu = m
         /\ ToSet(Match(pairs, have, m).missing) = IngredientsOf(pairs, m) \ have
         /\ ToSet(Match(pairs, have, m).matched) = IngredientsOf(pairs, m) \cap have
         /\ Len(Match(pairs, have, m).missing) = Few(pairs, have, m)
         /\ Len(Match(pairs, have, m).matched) = Many(pairs, have, m)
         /\ Few(pairs, have, m) \in Nat /\ Many(pairs, have, m) \in Nat
         /\ Cardinality(Ingredients) \in Nat
         /\ Many(pairs, have, m) <= Cardinality(Ingredients)
<1> DEFINE missing == IngredientsOf(pairs, m) \ have
           matched == IngredientsOf(pairs, m) \cap have
<1>1. missing \in SUBSET Ingredients /\ matched \in SUBSET Ingredients
  BY UsedIs
<1>2. /\ Match(pairs, have, m).menu = m
      /\ Match(pairs, have, m).missing = Display(missing)
      /\ Match(pairs, have, m).matched = Display(matched)
      /\ Few(pairs, have, m) = Cardinality(missing)
      /\ Many(pairs, have, m) = Cardinality(matched)
  BY DEF Match, Few, Many
<1> HIDE DEF missing, matched
<1>3. /\ ToSet(Display(missing)) = missing /\ Len(Display(missing)) = Cardinality(missing)
      /\ ToSet(Display(matched)) = matched /\ Len(Display(matched)) = Cardinality(matched)
      /\ Cardinality(missing) \in Nat /\ Cardinality(matched) \in Nat
  BY <1>1, DisplaySorts
<1>4. Cardinality(Ingredients) \in Nat /\ Cardinality(matched) <= Cardinality(Ingredients)
  BY <1>1, CatalogAssumption, FS_Subset, FS_CardinalityType
<1> QED BY <1>2, <1>3, <1>4 DEF missing, matched

\* The keys of the rows say which menu comes first.
LEMMA KeyOrder ==
  ASSUME NEW pairs \in Masters, NEW have, NEW by \in Orders, NEW m \in Menus, NEW n \in Menus
  PROVE  Precedes(SortKey(Match(pairs, have, m), by), SortKey(Match(pairs, have, n), by))
           <=> Ahead(pairs, have, by, m, n)
<1> DEFINE s == SortKey(Match(pairs, have, m), by)
           t == SortKey(Match(pairs, have, n), by)
           all == Cardinality(Ingredients)
           fewM == Few(pairs, have, m)
           fewN == Few(pairs, have, n)
           manyM == Many(pairs, have, m)
           manyN == Many(pairs, have, n)
<1>1. /\ fewM \in Nat /\ fewN \in Nat /\ manyM \in Nat /\ manyN \in Nat /\ all \in Nat
      /\ manyM <= all /\ manyN <= all
  BY MatchTells
<1>2. /\ m \in Nat /\ n \in Nat /\ MenuKana[m] \in Nat /\ MenuKana[n] \in Nat
  BY CatalogAssumption
<1>3. /\ s = IF by = "matched_desc" THEN <<all - manyM, fewM, MenuKana[m], m>>
             ELSE <<fewM, all - manyM, MenuKana[m], m>>
      /\ t = IF by = "matched_desc" THEN <<all - manyN, fewN, MenuKana[n], n>>
             ELSE <<fewN, all - manyN, MenuKana[n], n>>
  BY MatchTells DEF SortKey
<1>4. Ahead(pairs, have, by, m, n) <=>
        \/ by = "missing_asc" /\ (fewM < fewN \/ (fewM = fewN /\ manyM > manyN))
        \/ by = "matched_desc" /\ (manyM > manyN \/ (manyM = manyN /\ fewM < fewN))
        \/ fewM = fewN /\ manyM = manyN
           /\ (MenuKana[m] < MenuKana[n] \/ (MenuKana[m] = MenuKana[n] /\ m < n))
  BY DEF Ahead
<1> HIDE DEF s, t, all, fewM, fewN, manyM, manyN
<1>5. all - manyM \in Nat /\ all - manyN \in Nat
  BY <1>1
<1>6. CASE by = "matched_desc"
  <2>1. /\ s \in [1..4 -> Nat] /\ t \in [1..4 -> Nat]
        /\ s[1] = all - manyM /\ s[2] = fewM /\ s[3] = MenuKana[m] /\ s[4] = m
        /\ t[1] = all - manyN /\ t[2] = fewN /\ t[3] = MenuKana[n] /\ t[4] = n
    BY <1>1, <1>2, <1>3, <1>5, <1>6
  <2>2. Precedes(s, t) <=> Ahead(pairs, have, by, m, n)
    BY <1>1, <1>4, <1>6, <2>1, FourKeys
  <2> QED BY <2>2 DEF s, t
<1>7. CASE by = "missing_asc"
  <2>1. /\ s \in [1..4 -> Nat] /\ t \in [1..4 -> Nat]
        /\ s[1] = fewM /\ s[2] = all - manyM /\ s[3] = MenuKana[m] /\ s[4] = m
        /\ t[1] = fewN /\ t[2] = all - manyN /\ t[3] = MenuKana[n] /\ t[4] = n
    BY <1>1, <1>2, <1>3, <1>5, <1>7
  <2>2. Precedes(s, t) <=> Ahead(pairs, have, by, m, n)
    BY <1>1, <1>4, <1>7, <2>1, FourKeys
  <2> QED BY <2>2 DEF s, t
<1> QED BY <1>6, <1>7 DEF Orders

LEMMA AheadInLine ==
  ASSUME NEW pairs \in Masters, NEW have, NEW by \in Orders
  PROVE  /\ \A m \in Menus : ~Ahead(pairs, have, by, m, m)
         /\ \A l, m, n \in Menus :
              Ahead(pairs, have, by, l, m) /\ Ahead(pairs, have, by, m, n)
                => Ahead(pairs, have, by, l, n)
         /\ \A m, n \in Menus :
              m = n \/ Ahead(pairs, have, by, m, n) \/ Ahead(pairs, have, by, n, m)
<1>1. \A m \in Menus : /\ Few(pairs, have, m) \in Nat /\ Many(pairs, have, m) \in Nat
                       /\ m \in Nat /\ MenuKana[m] \in Nat
  BY MatchTells, CatalogAssumption
<1> QED BY <1>1 DEF Ahead, Orders

\* The rows of the menus D in their order, cut to the limit.
Ranked(r, D, pairs, have, by) ==
  /\ Len(r) = (IF Cardinality(D) < MaxResults THEN Cardinality(D) ELSE MaxResults)
  /\ DOMAIN r = 1..Len(r) /\ (r = <<>> <=> D = {})
  /\ \A k \in 1..Len(r) : r[k].menu \in D /\ r[k] = Match(pairs, have, r[k].menu)
  /\ \A j, k \in 1..Len(r) : j < k => Ahead(pairs, have, by, r[j].menu, r[k].menu)
  /\ \A m \in D : \/ \E k \in 1..Len(r) : r[k].menu = m
                  \/ \A k \in 1..Len(r) : Ahead(pairs, have, by, r[k].menu, m)

LEMMA RankRanks ==
  ASSUME NEW pairs \in Masters, NEW have, NEW by \in Orders, NEW D \in SUBSET Menus
  PROVE  Ranked(Rank({Match(pairs, have, m) : m \in D}, by), D, pairs, have, by)
<1> DEFINE tells(m) == Match(pairs, have, m)
           M == {Match(pairs, have, m) : m \in D}
           key == [x \in M |-> SortKey(x, by)]
           s == Sorted(M, by)
           n == Cardinality(D)
           c == IF n < MaxResults THEN n ELSE MaxResults
           r == Rank(M, by)
<1>1. \A m \in D : tells(m) \in M /\ tells(m).menu = m
  BY MatchTells
<1>2. \A x \in M : x.menu \in D /\ x = tells(x.menu)
  BY MatchTells
<1>3. IsFiniteSet(M) /\ Cardinality(M) = n /\ n \in Nat
  <2> DEFINE f == [m \in D |-> tells(m)]
  <2>1. f \in Bijection(D, M)
    <3>1. f \in [D -> M]
      BY <1>1
    <3>2. \A m, l \in D : f[m] = f[l] => m = l
      BY <1>1
    <3>3. \A x \in M : \E m \in D : f[m] = x
      BY <1>2
    <3> HIDE DEF f, M
    <3> QED BY <3>1, <3>2, <3>3, Fun_IsBij
  <2>2. IsFiniteSet(D) /\ n \in Nat
    BY CatalogAssumption, FS_Subset, FS_CardinalityType
  <2>3. ExistsBijection(D, M)
    BY <2>1 DEF ExistsBijection
  <2> QED BY <2>2, <2>3, FS_Bijection
<1>4. \A x, y \in M : Precedes(key[x], key[y]) <=> Ahead(pairs, have, by, x.menu, y.menu)
  <2> SUFFICES ASSUME NEW x \in M, NEW y \in M
               PROVE  Precedes(key[x], key[y]) <=> Ahead(pairs, have, by, x.menu, y.menu)
    OBVIOUS
  <2>1. key[x] = SortKey(tells(x.menu), by) /\ key[y] = SortKey(tells(y.menu), by)
    BY <1>2
  <2>2. x.menu \in Menus /\ y.menu \in Menus
    BY <1>2
  <2> HIDE DEF key, M
  <2> QED BY <2>1, <2>2, KeyOrder
<1>5. s = InOrder(M, key)
  BY DEF Sorted
<1>6. r = SubSeq(s, 1, IF Len(s) < MaxResults THEN Len(s) ELSE MaxResults)
  BY DEF Rank, Truncate
<1> HIDE DEF key, M, s, r, tells
<1>7. InLine(M, key)
  <2>1. \A x \in M : x.menu \in Menus
    BY <1>2
  <2>2. \A x, y \in M : x.menu = y.menu => x = y
    BY <1>2
  <2> QED BY <1>4, <2>1, <2>2, AheadInLine DEF InLine
<1>8. Sorts(s, M, key)
  BY <1>3, <1>5, <1>7, InOrderSorts
<1>9. s \in [1..n -> M] /\ Len(s) = n /\ s \in Seq(M)
  BY <1>3, <1>8 DEF Sorts
<1>10. c \in Nat /\ c <= n /\ MaxResults \in Nat \ {0}
  BY <1>3, CatalogAssumption
<1>11. r = SubSeq(s, 1, c)
  BY <1>6, <1>9
<1> HIDE DEF n, c
<1>12. \A k \in 1..c : s[k] \in M
  BY <1>3, <1>9, <1>10
<1>13. r \in Seq(M) /\ Len(r) = c /\ \A k \in 1..c : r[k] = s[k]
  <2>1. r \in Seq(M) /\ Len(r) = (IF 1 <= c THEN c - 1 + 1 ELSE 0)
        /\ \A k \in 1..(c - 1 + 1) : r[k] = s[1 + k - 1]
    BY <1>10, <1>11, <1>12, SubSeqProperties
  <2>2. c - 1 + 1 = c /\ \A k \in 1..c : 1 + k - 1 = k
    BY <1>10
  <2> QED BY <1>10, <2>1, <2>2
<1>14. \A j, k \in 1..n : j < k => Ahead(pairs, have, by, s[j].menu, s[k].menu)
  BY <1>3, <1>4, <1>8, <1>9 DEF Sorts
<1>15. ASSUME NEW m \in D
       PROVE  \/ \E k \in 1..c : r[k].menu = m
              \/ \A k \in 1..c : Ahead(pairs, have, by, r[k].menu, m)
  <2>1. PICK k \in 1..n : s[k].menu = m
    BY <1>1, <1>3, <1>8 DEF Sorts
  <2>2. CASE k <= c
    BY <1>10, <1>13, <2>1, <2>2
  <2>3. CASE ~(k <= c)
    BY <1>3, <1>10, <1>13, <1>14, <2>1, <2>3
  <2> QED BY <2>2, <2>3
<1>16. \A j, k \in 1..c : j < k => Ahead(pairs, have, by, r[j].menu, r[k].menu)
  BY <1>3, <1>10, <1>13, <1>14
<1>17. \A k \in 1..c : r[k].menu \in D /\ r[k] = tells(r[k].menu)
  BY <1>2, <1>12, <1>13
<1>18. DOMAIN r = 1..c
  BY <1>13
<1>19. r = <<>> <=> D = {}
  <2>1. r = <<>> <=> c = 0
    BY <1>13, EmptySeq
  <2>2. IsFiniteSet(D)
    BY CatalogAssumption, FS_Subset
  <2>3. n = 0 <=> D = {}
    BY <2>2, FS_EmptySet DEF n
  <2> QED BY <1>3, <1>10, <2>1, <2>3 DEF c
<1> QED BY <1>13, <1>15, <1>16, <1>17, <1>18, <1>19 DEF Ranked, r, M, c, n, tells

-----------------------------------------------------------------------------
\* The menus among ids that share an ingredient with have.
Sharing(pairs, have, ids) == {n \in ids : IngredientsOf(pairs, n) \cap have # {}}

\* Those of a search.
Kept(pairs, have, ids, only) ==
  {m \in Sharing(pairs, have, ids) : only => Few(pairs, have, m) = 0}
NearBy(pairs, have, ids) == {m \in Sharing(pairs, have, ids) : Few(pairs, have, m) <= 1}

LEMMA MissingAtMost ==
  ASSUME NEW pairs \in Masters, NEW have, NEW D \in SUBSET Menus, NEW n \in Nat
  PROVE  WithMissingAtMost({Match(pairs, have, m) : m \in D}, n)
           = {Match(pairs, have, m) : m \in {l \in D : Few(pairs, have, l) <= n}}
<1>1. \A m \in D : Len(Match(pairs, have, m).missing) = Few(pairs, have, m)
  BY MatchTells
<1> QED BY <1>1 DEF WithMissingAtMost

LEMMA ResultRanked ==
  ASSUME NEW pairs \in Masters, NEW q, q.only \in BOOLEAN, q.sort \in Orders,
         menuIds \in SUBSET Menus
  PROVE  LET have == ToSet(q.ids)
             kept == Kept(pairs, have, menuIds, q.only)
             result == SearchResult(pairs, q)
         IN  /\ Ranked(result.matches, kept, pairs, have, q.sort)
             /\ q.only /\ kept = {} =>
                  Ranked(result.near, NearBy(pairs, have, menuIds), pairs, have, "matched_desc")
             /\ ~(q.only /\ kept = {}) => result.near = <<>>
<1> DEFINE have == ToSet(q.ids)
           D == Sharing(pairs, have, menuIds)
           kept == Kept(pairs, have, menuIds, q.only)
           near == NearBy(pairs, have, menuIds)
           all == {Match(pairs, have, m) : m \in D}
           rows == {Match(pairs, have, m) : m \in kept}
           closeBy == {Match(pairs, have, m) : m \in near}
           result == SearchResult(pairs, q)
<1>1. D \in SUBSET Menus /\ kept \in SUBSET Menus /\ near \in SUBSET Menus
  BY DEF Sharing, Kept, NearBy
<1>2. all = Matches(pairs, have, menuIds)
  BY DEF Matches, Sharing
<1>3. \A m \in D : Few(pairs, have, m) \in Nat
  BY MatchTells
<1>4. q.only => WithMissingAtMost(all, 0) = rows
  <2>1. q.only => kept = {l \in D : Few(pairs, have, l) <= 0}
    BY <1>3 DEF Kept
  <2>2. WithMissingAtMost(all, 0) = {Match(pairs, have, m) : m \in {l \in D : Few(pairs, have, l) <= 0}}
    BY <1>1, MissingAtMost
  <2> QED BY <2>1, <2>2
<1>5. ~q.only => all = rows
  BY DEF Kept
<1>6. WithMissingAtMost(all, 1) = closeBy
  BY <1>1, MissingAtMost DEF NearBy
<1>7. rows = {} <=> kept = {}
  OBVIOUS
<1>8. result = [matches |-> Rank(IF q.only THEN WithMissingAtMost(all, 0) ELSE all, q.sort),
                near |-> IF q.only /\ (IF q.only THEN WithMissingAtMost(all, 0) ELSE all) = {}
                         THEN Rank(WithMissingAtMost(all, 1), "matched_desc") ELSE <<>>]
  BY <1>2 DEF SearchResult
<1>9. /\ Ranked(Rank(rows, q.sort), kept, pairs, have, q.sort)
      /\ Ranked(Rank(closeBy, "matched_desc"), near, pairs, have, "matched_desc")
  BY <1>1, RankRanks DEF Orders
<1> HIDE DEF D, kept, near, all, rows, closeBy
<1>10. /\ result.matches = Rank(rows, q.sort)
       /\ q.only /\ kept = {} => result.near = Rank(closeBy, "matched_desc")
       /\ ~(q.only /\ kept = {}) => result.near = <<>>
  BY <1>4, <1>5, <1>6, <1>7, <1>8
<1> HIDE DEF result
<1>11. Ranked(result.matches, kept, pairs, have, q.sort)
  BY <1>9, <1>10
<1>12. q.only /\ kept = {} => Ranked(result.near, near, pairs, have, "matched_desc")
  BY <1>9, <1>10
<1> QED BY <1>10, <1>11, <1>12 DEF result, kept, near

CatalogTypes ==
  /\ uses \in Masters /\ since \in Masters /\ since \subseteq uses
  /\ query \in Queries \cup {NoQuery}
  /\ menuIds \in SUBSET Menus

\* A search under way has found the menus that shared something when it began.
InService ==
  /\ query = NoQuery => answer = NoAnswer /\ menuIds = {}
  /\ menuIds # {} => menuIds = Sharing(since, Have, Menus)

CatalogInv == CatalogTypes /\ InService /\ BestKept /\ MissingTold /\ ListComplete

LEMMA Untold == NoAnswer.status = "none" /\ NoQuery.kind = "none"
BY DEF NoAnswer, NoQuery

LEMMA QueryTypes ==
  ASSUME query \in Queries
  PROVE  /\ query.ids \in Seq(Menus \cup Ingredients \cup {Unknown})
         /\ query.only \in BOOLEAN /\ query.sort \in Orders
BY CatalogAssumption DEF Orders

\* What the answer of a search says, once the order of its rows is known.
LEMMA SearchTells ==
  ASSUME CatalogTypes, InService, Search
  PROVE  BestKept' /\ MissingTold'
<1> DEFINE have == ToSet(query.ids)
           pairs == PairsOf(menuIds)
           kept == Kept(pairs, have, menuIds, query.only)
           near == NearBy(pairs, have, menuIds)
           result == SearchResult(pairs, query)
<1>1. /\ query.kind = "search" /\ menuIds # {} /\ menuIds = Sharing(since, have, Menus)
      /\ UNCHANGED <<uses, query, menuIds, since>>
      /\ answer' = [status |-> "ok", matches |-> result.matches, near |-> result.near,
                    seen |-> uses]
  BY DEF Search, Waiting, Reply, InService, Have
<1>2. query \in Queries /\ pairs \in Masters
  BY <1>1, Untold DEF CatalogTypes, PairsOf, Masters
<1>3. query.only \in BOOLEAN /\ query.sort \in Orders
  BY <1>2, QueryTypes
<1>4. ASSUME NEW m \in menuIds
      PROVE  /\ IngredientsOf(pairs, m) = {i \in Ingredients : <<m, i>> \in uses}
             /\ IngredientsOf(pairs, m) \cap have # {}
             /\ Few(pairs, have, m) \in Nat /\ Many(pairs, have, m) \in Nat
             /\ Few(pairs, have, m) = 0 <=> IngredientsOf(pairs, m) \subseteq have
  <2>1. IngredientsOf(pairs, m) = {i \in Ingredients : <<m, i>> \in uses}
    BY DEF PairsOf, IngredientsOf, CatalogTypes, Masters
  <2>2. IngredientsOf(since, m) \cap have # {}
    BY <1>1 DEF Sharing
  <2>3. IngredientsOf(since, m) \subseteq IngredientsOf(pairs, m)
    BY DEF IngredientsOf, PairsOf, CatalogTypes
  <2>4. Few(pairs, have, m) \in Nat /\ Many(pairs, have, m) \in Nat
    BY <1>2, MatchTells
  <2>5. IsFiniteSet(IngredientsOf(pairs, m) \ have)
    BY <1>2, UsedIs, CatalogAssumption, FS_Subset
  <2>6. Few(pairs, have, m) = 0 <=> IngredientsOf(pairs, m) \ have = {}
    BY <2>5, FS_EmptySet DEF Few
  <2> QED BY <2>1, <2>2, <2>3, <2>4, <2>6
<1>5. /\ Ranked(result.matches, kept, pairs, have, query.sort)
      /\ query.only /\ kept = {} => Ranked(result.near, near, pairs, have, "matched_desc")
      /\ ~(query.only /\ kept = {}) => result.near = <<>>
  BY <1>2, <1>3, ResultRanked DEF CatalogTypes
<1>6. /\ Have' = have /\ Told("search")' /\ query'.only = query.only /\ query'.sort = query.sort
      /\ answer'.matches = result.matches /\ answer'.near = result.near
      /\ \A m \in menuIds : Used(m)' = IngredientsOf(pairs, m)
  BY <1>1, <1>4 DEF Have, Told, Used
<1> HIDE DEF result
<1>7. \A m \in Menus : (\E i \in have : <<m, i>> \in since) <=> m \in menuIds
  <2> SUFFICES ASSUME NEW m \in Menus
               PROVE  (\E i \in have : <<m, i>> \in since) <=> m \in menuIds
    OBVIOUS
  <2>1. since \in Masters /\ \A i : <<m, i>> \in since => i \in Ingredients
    BY DEF CatalogTypes, Masters
  <2>2. IngredientsOf(since, m) = {i \in Ingredients : <<m, i>> \in since}
    BY <2>1, UsedIs
  <2>3. m \in menuIds <=> IngredientsOf(since, m) \cap have # {}
    BY <1>1 DEF Sharing
  <2> HIDE DEF have
  <2> QED BY <2>1, <2>2, <2>3
<1>14. kept = {m \in menuIds : query.only => Few(pairs, have, m) = 0}
  BY <1>4 DEF Kept, Sharing
<1>8. kept = {m \in Menus : /\ \E i \in have : <<m, i>> \in since
                            /\ query.only => IngredientsOf(pairs, m) \subseteq have}
  <2>1. menuIds \subseteq Menus
    BY DEF CatalogTypes
  <2> QED BY <1>4, <1>7, <1>14, <2>1
<1>9. near = {m \in menuIds : Few(pairs, have, m) <= 1}
  BY <1>4 DEF NearBy, Sharing
<1> HIDE DEF pairs, kept, near
<1>10. ASSUME NEW m \in menuIds, NEW n \in menuIds, Ahead(pairs, have, query.sort, n, m)
       PROVE  ~Better(m, n)'
  <2>1. /\ (Cardinality(Used(m) \ Have))' = Few(pairs, have, m)
        /\ (Cardinality(Used(n) \ Have))' = Few(pairs, have, n)
        /\ (Cardinality(Used(m) \cap Have))' = Many(pairs, have, m)
        /\ (Cardinality(Used(n) \cap Have))' = Many(pairs, have, n)
    BY <1>6 DEF Few, Many
  <2>2. /\ Few(pairs, have, m) \in Nat /\ Few(pairs, have, n) \in Nat
        /\ Many(pairs, have, m) \in Nat /\ Many(pairs, have, n) \in Nat
        /\ MenuKana[m] \in Nat /\ MenuKana[n] \in Nat
    BY <1>4, CatalogAssumption DEF CatalogTypes
  <2> QED BY <1>3, <1>6, <1>10, <2>1, <2>2 DEF Better, Ahead, Orders
<1>11. kept \subseteq menuIds /\ near \subseteq menuIds
  BY <1>7, <1>8, <1>9
<1>12. BestKept'
  <2> DEFINE r == result.matches
             listed == {r[k].menu : k \in DOMAIN r}
  <2>1. kept = {m \in Menus : /\ \E i \in Have' : <<m, i>> \in since'
                              /\ query'.only => Used(m)' \subseteq Have'}
    <3>1. \A m \in menuIds : Used(m)' = IngredientsOf(pairs, m)
      BY <1>6
    <3>2. since' = since /\ Have' = have /\ query'.only = query.only
      BY <1>1, <1>6
    <3>3. ASSUME NEW m \in Menus
          PROVE  m \in kept <=> /\ \E i \in Have' : <<m, i>> \in since'
                                /\ query'.only => Used(m)' \subseteq Have'
      <4>1. m \in kept <=> /\ \E i \in have : <<m, i>> \in since
                           /\ query.only => IngredientsOf(pairs, m) \subseteq have
        BY <1>8
      <4>2. CASE m \in menuIds
        <5>1. Used(m)' = IngredientsOf(pairs, m)
          BY <3>1, <4>2
        <5> HIDE DEF have
        <5> QED BY <3>2, <4>1, <5>1
      <4>3. CASE m \notin menuIds
        <5> HIDE DEF have
        <5> QED BY <1>7, <3>2, <4>1, <4>3
      <4> QED BY <4>2, <4>3
    <3>4. kept \subseteq Menus
      BY <1>8
    <3> HIDE DEF have
    <3> QED BY <3>3, <3>4
  <2>2. /\ listed \subseteq kept
        /\ Len(r) = (IF Cardinality(kept) < MaxResults THEN Cardinality(kept) ELSE MaxResults)
    BY <1>5 DEF Ranked
  <2>3. ASSUME NEW m \in kept \ listed, NEW n \in listed PROVE ~Better(m, n)'
    <3>1. Ahead(pairs, have, query.sort, n, m)
      BY <1>5, <2>3 DEF Ranked
    <3> QED BY <1>10, <1>11, <2>2, <3>1
  <2>4. ASSUME NEW j \in DOMAIN r, NEW k \in DOMAIN r, j < k,
               NEW m, m = r[k].menu, NEW n, n = r[j].menu
        PROVE  ~Better(m, n)'
    <3>1. /\ Ahead(pairs, have, query.sort, n, m) /\ n \in menuIds /\ m \in menuIds
      BY <1>5, <1>11, <2>4 DEF Ranked
    <3> QED BY <1>10, <3>1
  <2>5. ASSUME NEW j \in DOMAIN answer'.matches, NEW k \in DOMAIN answer'.matches, j < k
        PROVE  ~Better(answer.matches[k].menu, answer.matches[j].menu)'
    <3>1. PICK m, n : m = answer'.matches[k].menu /\ n = answer'.matches[j].menu
      OBVIOUS
    <3>2. ~Better(m, n)'
      BY <1>6, <2>4, <2>5, <3>1
    <3> QED BY <3>1, <3>2 DEF Better, Used, Have
  <2>6. ASSUME NEW m \in kept \ listed, NEW k \in DOMAIN answer'.matches
        PROVE  ~Better(m, answer.matches[k].menu)'
    <3>1. PICK n : n = answer'.matches[k].menu
      OBVIOUS
    <3>2. ~Better(m, n)'
      BY <1>6, <2>3, <2>6, <3>1
    <3> QED BY <3>1, <3>2 DEF Better, Used, Have
  <2> QED BY <1>6, <2>1, <2>2, <2>5, <2>6 DEF BestKept
<1>13. MissingTold'
  <2>1. ASSUME NEW x \in ToSet(result.matches) \cup ToSet(result.near)
        PROVE  /\ x.menu \in menuIds
               /\ ToSet(x.missing) = Used(x.menu)' \ Have'
               /\ ToSet(x.matched) = Used(x.menu)' \cap Have'
    <3>1. x.menu \in menuIds /\ x = Match(pairs, have, x.menu)
      <4>1. CASE x \in ToSet(result.matches)
        BY <1>5, <1>11, <4>1 DEF Ranked, ToSet
      <4>2. CASE x \in ToSet(result.near)
        <5>1. query.only /\ kept = {}
          BY <1>5, <4>2 DEF ToSet
        <5>2. Ranked(result.near, near, pairs, have, "matched_desc")
          BY <1>5, <5>1
        <5>3. PICK k \in DOMAIN result.near : x = result.near[k]
          BY <4>2 DEF ToSet
        <5> QED BY <1>11, <5>2, <5>3 DEF Ranked
      <4> QED BY <4>1, <4>2
    <3> QED BY <1>2, <1>6, <3>1, MatchTells
  <2>2. ASSUME NEW x \in ToSet(result.near)
        PROVE  (Cardinality(Used(x.menu) \ Have))' = 1
    <3>1. query.only /\ kept = {} /\ Ranked(result.near, near, pairs, have, "matched_desc")
      BY <1>5, <2>2 DEF ToSet
    <3>2. x.menu \in near
      BY <2>2, <3>1 DEF Ranked, ToSet
    <3>3. x.menu \in menuIds /\ Few(pairs, have, x.menu) <= 1 /\ Few(pairs, have, x.menu) # 0
      <4>1. kept = {m \in menuIds : Few(pairs, have, m) = 0}
        BY <1>14, <3>1
      <4> QED BY <1>9, <3>1, <3>2, <4>1
    <3>4. (Cardinality(Used(x.menu) \ Have))' = Few(pairs, have, x.menu)
      BY <1>6, <3>3 DEF Few
    <3> QED BY <1>4, <3>3, <3>4
  <2>3. result.near # <<>> <=>
          /\ query'.only /\ result.matches = <<>>
          /\ \E m \in Menus : /\ \E i \in Have' : <<m, i>> \in since'
                              /\ (Cardinality(Used(m) \ Have))' = 1
    <3>1. \A m \in menuIds : (Cardinality(Used(m) \ Have))' = Few(pairs, have, m)
      BY <1>6 DEF Few
    <3>2. result.matches = <<>> <=> kept = {}
      BY <1>5 DEF Ranked
    <3>3. CASE query.only /\ kept = {}
      <4>1. result.near # <<>> <=> near # {}
        BY <1>5, <3>3 DEF Ranked
      <4>2. \A m \in menuIds : Few(pairs, have, m) # 0
        BY <1>14, <3>3
      <4>3. near = {m \in menuIds : Few(pairs, have, m) = 1}
        BY <1>4, <1>9, <4>2
      <4> QED BY <1>1, <1>6, <1>7, <3>1, <3>2, <3>3, <4>1, <4>3 DEF CatalogTypes
    <3>4. CASE ~(query.only /\ kept = {})
      BY <1>5, <1>6, <3>2, <3>4
    <3> QED BY <3>3, <3>4
  <2> QED BY <1>6, <2>1, <2>2, <2>3 DEF MissingTold
<1> QED BY <1>12, <1>13

\* What a shopping list says.
LEMMA AggregateTells ==
  ASSUME CatalogTypes, NEW D \in SUBSET Menus
  PROVE  LET items == Aggregate(PairsOf(D), D)
         IN  /\ UNION {x.usedIn \X {x.ingredient} : x \in ToSet(items)}
                  = {p \in uses : p[1] \in D}
             /\ \A j, k \in DOMAIN items : j < k =>
                  LET a == items[j].ingredient
                      b == items[k].ingredient
                  IN  /\ a # b
                      /\ \/ Category[a] < Category[b]
                         \/ (Category[a] = Category[b] /\ Kana[a] <= Kana[b])
<1> DEFINE pairs == PairsOf(D)
           needed == UNION {IngredientsOf(pairs, m) : m \in D}
           order == Display(needed)
           for(i) == {m \in D : i \in IngredientsOf(pairs, m)}
           items == Aggregate(pairs, D)
<1>1. pairs \in Masters /\ pairs = {p \in uses : p[1] \in D}
  BY DEF CatalogTypes, PairsOf, Masters
<1>2. needed \in SUBSET Ingredients
  BY <1>1, UsedIs
<1>3. items = [k \in DOMAIN order |-> [ingredient |-> order[k], usedIn |-> for(order[k])]]
  BY DEF Aggregate
<1>4. \A m \in D : IngredientsOf(pairs, m) = {i \in Ingredients : <<m, i>> \in pairs}
  BY <1>1, UsedIs
<1>5. \A m \in D, i \in Ingredients : <<m, i>> \in pairs => i \in needed /\ m \in for(i)
  BY <1>4
<1>6. \A i \in needed : \A m \in for(i) : m \in D /\ <<m, i>> \in pairs
  BY <1>4
<1> HIDE DEF pairs, needed, for
<1>7. /\ order \in [1..Cardinality(needed) -> needed] /\ ToSet(order) = needed
      /\ \A j, k \in 1..Cardinality(needed) : j < k =>
           LET a == order[j]
               b == order[k]
           IN  /\ a # b
               /\ \/ Category[a] < Category[b]
                  \/ (Category[a] = Category[b] /\ Kana[a] <= Kana[b])
  BY <1>2, DisplaySorts
<1> HIDE DEF order, items
<1>8. /\ DOMAIN order = 1..Cardinality(needed) /\ DOMAIN items = DOMAIN order
      /\ \A k \in DOMAIN order : /\ order[k] \in needed
                                 /\ items[k].ingredient = order[k]
                                 /\ items[k].usedIn = for(order[k])
  BY <1>3, <1>7
<1>9. ToSet(items) = {items[k] : k \in DOMAIN items}
  BY DEF ToSet
<1>10. \A i \in needed : \E k \in DOMAIN order : order[k] = i
  BY <1>7 DEF ToSet
<1>11. UNION {x.usedIn \X {x.ingredient} : x \in ToSet(items)} \subseteq pairs
  <2> SUFFICES ASSUME NEW k \in DOMAIN items,
                      NEW p \in items[k].usedIn \X {items[k].ingredient}
               PROVE  p \in pairs
    BY <1>9
  <2> QED BY <1>6, <1>8
<1>12. ASSUME NEW p \in pairs
       PROVE  p \in UNION {x.usedIn \X {x.ingredient} : x \in ToSet(items)}
  <2>1. PICK m \in D, i \in Ingredients : p = <<m, i>>
    BY <1>1 DEF CatalogTypes, Masters
  <2>2. PICK k \in DOMAIN items : items[k].ingredient = i /\ items[k].usedIn = for(i)
    BY <1>5, <1>8, <1>10, <2>1
  <2>3. p \in items[k].usedIn \X {items[k].ingredient}
    BY <1>5, <2>1, <2>2
  <2> QED BY <1>9, <2>3
<1>13. UNION {x.usedIn \X {x.ingredient} : x \in ToSet(items)} = pairs
  BY <1>11, <1>12
<1>14. ASSUME NEW j \in DOMAIN items, NEW k \in DOMAIN items, j < k
       PROVE  LET a == items[j].ingredient
                  b == items[k].ingredient
              IN  /\ a # b
                  /\ \/ Category[a] < Category[b]
                     \/ (Category[a] = Category[b] /\ Kana[a] <= Kana[b])
  BY <1>7, <1>8, <1>14
<1> QED BY <1>1, <1>13, <1>14 DEF items, pairs

\* How many different ids a request names.
LEMMA DifferentIds ==
  ASSUME NEW ids, NEW S, ids \in Seq(S)
  PROVE  /\ Cardinality(ToSet(ids)) \in Nat
         /\ ids = <<>> <=> Cardinality(ToSet(ids)) = 0
<1>1. IsFiniteSet(1..Len(ids)) /\ ToSet(ids) = {ids[k] : k \in 1..Len(ids)}
  <2>1. DOMAIN ids = 1..Len(ids) /\ Len(ids) \in Nat
    OBVIOUS
  <2>2. IsFiniteSet(1..Len(ids))
    BY <2>1, FS_Interval
  <2> QED BY <2>1, <2>2 DEF ToSet
<1>2. IsFiniteSet(ToSet(ids))
  <2> DEFINE f == [k \in 1..Len(ids) |-> ids[k]]
  <2>1. f \in Surjection(1..Len(ids), ToSet(ids))
    BY <1>1 DEF Surjection
  <2> QED BY <1>1, <2>1, FS_Surjection
<1>3. ToSet(ids) = {} <=> ids = <<>>
  BY EmptySeq DEF ToSet
<1> QED BY <1>2, <1>3, FS_CardinalityType, FS_EmptySet

LEMMA BuildTells ==
  ASSUME CatalogTypes, Build
  PROVE  ListComplete'
<1> DEFINE D == ToSet(query.ids)
           items == Aggregate(PairsOf(D), D)
           refusal == Refusal(Menus, MaxListMenus)
<1>1. /\ query.kind = "list" /\ UNCHANGED <<uses, query, menuIds, since>>
      /\ answer' = (IF refusal # "none" THEN [status |-> refusal]
                    ELSE [status |-> "ok", seen |-> uses, items |-> items])
  BY DEF Build, Waiting, Reply
<1>2. query.ids \in Seq(Menus \cup Ingredients \cup {Unknown})
  BY <1>1, Untold, QueryTypes DEF CatalogTypes
<1>3. Cardinality(D) \in Nat /\ (query.ids = <<>> <=> Cardinality(D) = 0)
  BY <1>2, DifferentIds
<1>4. refusal = IF query.ids = <<>> \/ Cardinality(D) > MaxListMenus THEN "invalid"
                ELSE IF D \subseteq Menus THEN "none" ELSE "notFound"
  BY DEF Refusal
<1>5. MaxListMenus \in Nat
  BY CatalogAssumption
<1> HIDE DEF refusal, items
<1>6. CASE D \subseteq Menus /\ Cardinality(D) \in 1..MaxListMenus
  <2>1. refusal = "none"
    BY <1>3, <1>4, <1>5, <1>6
  <2>2. /\ answer'.status = "ok" /\ answer'.seen = uses /\ answer'.items = items
        /\ query' = query
    BY <1>1, <2>1
  <2>3. /\ UNION {x.usedIn \X {x.ingredient} : x \in ToSet(items)} = {p \in uses : p[1] \in D}
        /\ \A j, k \in DOMAIN items : j < k =>
             LET a == items[j].ingredient
                 b == items[k].ingredient
             IN  /\ a # b
                 /\ \/ Category[a] < Category[b]
                    \/ (Category[a] = Category[b] /\ Kana[a] <= Kana[b])
    BY <1>6, AggregateTells DEF items
  <2> QED BY <1>6, <2>2, <2>3 DEF ListComplete
<1>7. CASE ~(D \subseteq Menus /\ Cardinality(D) \in 1..MaxListMenus)
  <2>1. refusal \in {"invalid", "notFound"}
    BY <1>3, <1>4, <1>5, <1>7
  <2>2. answer'.status # "ok" /\ query' = query
    BY <1>1, <2>1
  <2> QED BY <1>7, <2>2 DEF ListComplete
<1> QED BY <1>6, <1>7

LEMMA FindMenuIDsTells ==
  ASSUME CatalogTypes, InService, FindMenuIDs
  PROVE  InService' /\ BestKept' /\ MissingTold' /\ menuIds' \in SUBSET Menus
<1> DEFINE refusal == Refusal(Ingredients, Cardinality(Ingredients) + 1)
           have == ToSet(query.ids)
           shared == {m \in Menus : IngredientsOf(uses, m) \cap have # {}}
<1>1. /\ query.kind = "search" /\ answer = NoAnswer /\ menuIds = {}
      /\ uses' = uses /\ query' = query /\ since' = uses /\ Have' = have
  BY DEF FindMenuIDs, Waiting, Reply, Have
<1>2. shared = Sharing(uses, have, Menus)
  BY DEF Sharing
<1>3. refusal = "none" \/ refusal = "invalid" \/ refusal = "notFound"
  BY DEF Refusal
<1>4. \/ menuIds' = shared /\ answer' = NoAnswer
      \/ menuIds' = {} /\ refusal # "none" /\ answer' = [status |-> refusal]
      \/ /\ menuIds' = {} /\ refusal = "none" /\ shared = {}
         /\ answer' = [status |-> "ok", matches |-> <<>>, near |-> <<>>, seen |-> uses]
  BY <1>1 DEF FindMenuIDs, Reply
<1> HIDE DEF refusal
<1>5. InService' /\ menuIds' \in SUBSET Menus
  <2>1. query # NoQuery
    BY <1>1, Untold
  <2> QED BY <1>1, <1>2, <1>4, <2>1 DEF InService
<1>6. CASE answer'.status # "ok"
  BY <1>5, <1>6 DEF BestKept, MissingTold, Told
<1>7. CASE answer'.status = "ok"
  <2>1. /\ shared = {}
        /\ answer' = [status |-> "ok", matches |-> <<>>, near |-> <<>>, seen |-> uses]
    BY <1>3, <1>4, <1>7, Untold
  <2>2. answer'.matches = <<>> /\ answer'.near = <<>>
    BY <2>1
  <2>3. ASSUME NEW m \in Menus, NEW i \in have PROVE <<m, i>> \notin uses
    <3>1. i \in IngredientsOf(uses, m) \cap have <=> <<m, i>> \in uses
      BY <2>3, UsedIs DEF CatalogTypes, Masters
    <3> QED BY <2>1, <3>1
  <2>4. ~ \E m \in Menus : \E i \in Have' : <<m, i>> \in since'
    BY <1>1, <2>3
  <2>5. {m \in Menus : /\ \E i \in Have' : <<m, i>> \in since'
                       /\ query'.only => Used(m)' \subseteq Have'} = {}
    BY <2>4
  <2>6. DOMAIN answer'.matches = {} /\ Len(answer'.matches) = 0
    BY <2>2
  <2>7. BestKept'
    <3>1. {answer'.matches[k].menu : k \in DOMAIN answer'.matches} = {}
      BY <2>6
    <3>2. Cardinality({}) = 0 /\ 0 < MaxResults
      BY FS_EmptySet, CatalogAssumption
    <3> QED BY <2>5, <2>6, <3>1, <3>2 DEF BestKept
  <2>8. MissingTold'
    <3>1. ToSet(answer'.matches) = {} /\ ToSet(answer'.near) = {}
      BY <2>2 DEF ToSet
    <3> QED BY <2>2, <2>4, <3>1 DEF MissingTold
  <2> QED BY <1>5, <2>7, <2>8
<1> QED BY <1>6, <1>7

-----------------------------------------------------------------------------
LEMMA CatalogInvInit == InitCatalog => CatalogInv
BY Untold DEF InitCatalog, CatalogInv, CatalogTypes, Masters, InService, BestKept, MissingTold,
  ListComplete, Told

\* What holds of an answer holds as long as the answer is there.
LEMMA AnswerSame ==
  ASSUME UNCHANGED <<query, since, answer>>
  PROVE  (BestKept => BestKept') /\ (MissingTold => MissingTold')
<1>1. query' = query /\ since' = since /\ answer' = answer
  OBVIOUS
<1>2. ASSUME BestKept, Told("search") PROVE BestKept'
  <2>1. Have' = Have /\ \A m : Used(m)' = Used(m)
    BY <1>1 DEF Have, Used
  <2>2. PICK wanted : wanted = {m \in Menus : /\ \E i \in Have : <<m, i>> \in since
                                              /\ query.only => Used(m) \subseteq Have}
    OBVIOUS
  <2>3. PICK listed : listed = {answer.matches[k].menu : k \in DOMAIN answer.matches}
    OBVIOUS
  <2>4. /\ listed \subseteq wanted
        /\ Len(answer.matches) =
             IF Cardinality(wanted) < MaxResults THEN Cardinality(wanted) ELSE MaxResults
    BY <1>2, <2>2, <2>3 DEF BestKept
  <2>5. \A m \in wanted \ listed, n \in listed : ~Better(m, n)
    BY <1>2, <2>2, <2>3 DEF BestKept
  <2>6. \A j, k \in DOMAIN answer.matches :
          j < k => ~Better(answer.matches[k].menu, answer.matches[j].menu)
    BY <1>2 DEF BestKept
  <2>7. wanted = {m \in Menus : /\ \E i \in Have' : <<m, i>> \in since'
                                /\ query'.only => Used(m)' \subseteq Have'}
    BY <1>1, <2>1, <2>2
  <2>8. listed = {answer'.matches[k].menu : k \in DOMAIN answer'.matches}
    BY <1>1, <2>3
  <2>9. \A m \in wanted \ listed, n \in listed : ~Better(m, n)'
    BY <1>1, <2>1, <2>5 DEF Better
  <2>10. (\A j, k \in DOMAIN answer.matches :
            j < k => ~Better(answer.matches[k].menu, answer.matches[j].menu))'
    <3> SUFFICES ASSUME NEW j \in DOMAIN answer'.matches, NEW k \in DOMAIN answer'.matches,
                        j < k
                 PROVE  ~Better(answer.matches[k].menu, answer.matches[j].menu)'
      OBVIOUS
    <3>1. PICK m, n : m = answer.matches[k].menu /\ n = answer.matches[j].menu
      OBVIOUS
    <3>2. ~Better(m, n)
      BY <1>1, <2>6, <3>1
    <3>3. ~Better(m, n)'
      BY <1>1, <2>1, <3>2 DEF Better
    <3>4. m = answer'.matches[k].menu /\ n = answer'.matches[j].menu
      BY <1>1, <3>1
    <3> QED BY <3>3, <3>4 DEF Better, Used, Have
  <2> QED BY <1>1, <2>4, <2>7, <2>8, <2>9, <2>10 DEF BestKept
<1>4. ~Told("search") => BestKept'
  BY <1>1 DEF BestKept, Told
<1>3. MissingTold => MissingTold'
  BY <1>1 DEF MissingTold, Told, Have, Used
<1> QED BY <1>2, <1>3, <1>4

LEMMA CatalogInvNext == CatalogInv /\ [NextCatalog]_catalogVars => CatalogInv'
<1> SUFFICES ASSUME CatalogInv, [NextCatalog]_catalogVars PROVE CatalogInv'
  OBVIOUS
<1>0. CatalogTypes /\ InService /\ BestKept /\ MissingTold /\ ListComplete
  BY DEF CatalogInv
<1>1. ASSUME NEW q \in Queries, Submit(q) PROVE CatalogInv'
  <2>1. query' = q /\ UNCHANGED <<uses, menuIds, since, answer>> /\ query = NoQuery
    BY <1>1 DEF Submit
  <2>2. answer' = NoAnswer /\ menuIds' = {} /\ answer'.status = "none"
    BY <1>0, <2>1, Untold DEF InService
  <2> QED BY <1>0, <2>1, <2>2 DEF CatalogInv, CatalogTypes, InService, BestKept, MissingTold,
        ListComplete, Told
<1>2. ASSUME NEW pairs \in Seeds, Seed(pairs) PROVE CatalogInv'
  <2>1. uses' = uses \cup pairs /\ UNCHANGED <<query, menuIds, since, answer>>
    BY <1>2 DEF Seed
  <2>2. CatalogTypes'
    BY <1>0, <2>1, CatalogAssumption DEF CatalogTypes, Masters
  <2>3. InService' /\ ListComplete'
    BY <1>0, <2>1 DEF InService, ListComplete, Have
  <2>4. BestKept' /\ MissingTold'
    BY <1>0, <2>1, AnswerSame
  <2> QED BY <2>2, <2>3, <2>4 DEF CatalogInv
<1>3. CASE FindMenuIDs
  <2>1. InService' /\ BestKept' /\ MissingTold' /\ menuIds' \in SUBSET Menus
    BY <1>0, <1>3, FindMenuIDsTells
  <2>2. uses' = uses /\ query' = query /\ since' = uses /\ query.kind = "search"
    BY <1>3 DEF FindMenuIDs, Waiting, Reply
  <2> QED BY <1>0, <2>1, <2>2 DEF CatalogInv, CatalogTypes, ListComplete
<1>4. CASE Search
  <2>1. BestKept' /\ MissingTold'
    BY <1>0, <1>4, SearchTells
  <2>2. UNCHANGED <<uses, query, menuIds, since>> /\ query.kind = "search"
    BY <1>4 DEF Search, Waiting, Reply
  <2> QED BY <1>0, <2>1, <2>2, Untold DEF CatalogInv, CatalogTypes, InService, Have, ListComplete
<1>5. CASE Build
  <2>1. ListComplete'
    BY <1>0, <1>5, BuildTells
  <2>2. UNCHANGED <<uses, query, menuIds, since>> /\ query.kind = "list"
    BY <1>5 DEF Build, Waiting, Reply
  <2> QED BY <1>0, <2>1, <2>2, Untold DEF CatalogInv, CatalogTypes, InService, Have, BestKept,
        MissingTold, Told
<1>6. CASE MenuIngredients \/ All
  <2>1. UNCHANGED <<uses, query, menuIds, since>> /\ query.kind \in {"menu", "all"}
    BY <1>6 DEF MenuIngredients, All, Waiting, Reply
  <2> QED BY <1>0, <2>1, Untold DEF CatalogInv, CatalogTypes, InService, Have, BestKept,
        MissingTold, ListComplete, Told
<1>7. CASE Done
  BY <1>0, <1>7, Untold DEF Done, CatalogInv, CatalogTypes, Masters, InService, BestKept,
    MissingTold, ListComplete, Told
<1>8. CASE UNCHANGED catalogVars
  <2>1. UNCHANGED <<uses, query, menuIds, since, answer>>
    BY <1>8 DEF catalogVars
  <2>2. CatalogTypes' /\ InService' /\ ListComplete'
    BY <1>0, <2>1 DEF CatalogTypes, InService, ListComplete, Have
  <2>3. BestKept' /\ MissingTold'
    BY <1>0, <2>1, AnswerSame
  <2> QED BY <2>2, <2>3 DEF CatalogInv
<1> QED BY <1>1, <1>2, <1>3, <1>4, <1>5, <1>6, <1>7, <1>8 DEF NextCatalog

\* What is shown of a search, and what is cut off, is in the order asked for,
\* whatever the seed commits between the two reads of a search (truncateMatches
\* and sortMatches, service/ingredient.go).
THEOREM CatalogBestKept == SpecCatalog => []BestKept
<1>1. CatalogInv => BestKept
  BY DEF CatalogInv
<1> QED BY <1>1, CatalogInvInit, CatalogInvNext, PTL DEF SpecCatalog

\* The missing ingredients of every menu that is shown are told in full, and the
\* menus one purchase away are offered exactly when nothing can be made now
\* (buildMatches and SearchByIngredients, service/ingredient.go).
THEOREM CatalogMissingTold == SpecCatalog => []MissingTold
<1>1. CatalogInv => MissingTold
  BY DEF CatalogInv
<1> QED BY <1>1, CatalogInvInit, CatalogInvNext, PTL DEF SpecCatalog

\* A shopping list has everything its menus use, once, for all of them, in the
\* order of the shelves, and is refused only for a bad choice of menus (Build
\* and aggregate, service/shopping_list.go).
THEOREM CatalogListComplete == SpecCatalog => []ListComplete
<1>1. CatalogInv => ListComplete
  BY DEF CatalogInv
<1> QED BY <1>1, CatalogInvInit, CatalogInvNext, PTL DEF SpecCatalog

-----------------------------------------------------------------------------
\* The recipe pages of a menu.
Links == [made : Nat, fetched : Nat, real : BOOLEAN, known : BOOLEAN]

\* A request has the fields of Idle.
ReqFields == {"pc", "gone", "left", "spent", "attempt", "timer", "links", "result"}

IsReq(q) ==
  /\ q = [f \in ReqFields |-> q[f]]
  /\ q.left \in Nat /\ q.spent \in Nat /\ q.links \in Links

\* What a request knows of its time and of its links: what it has spent and
\* what is left stay within the budget; an attempt under way was begun no
\* longer ago than its timer says, so links are found at most a timeout after
\* they were asked for; and what is shown was found.
ReqOK(q) ==
  /\ IsReq(q)
  /\ q.spent + q.left <= Budget
  /\ q.pc = "calling" =>
       q.links.real /\ q.timer \in Nat /\ q.links.made + q.timer <= Timeout
  /\ q.pc = "saving" => q.links.real /\ q.links.made <= q.links.fetched + Timeout
  /\ q.result \in {"cached", "searched"} => q.pc = "done" /\ q.links.real
  /\ q.result = "cached" => q.links.made <= TTL + Timeout

RowOK ==
  /\ row \in Links
  /\ row.known => row.real /\ row.made <= row.fetched + Timeout

LinksInv ==
  /\ RowOK
  /\ req = [r \in Requests |-> req[r]]
  /\ \A r \in Requests : ReqOK(req[r])

LEMMA NoLinksType == NoLinks \in Links
BY DEF NoLinks, Links

LEMMA IdleOK == ReqOK(Idle)
BY RecipeAssumption DEF ReqOK, IsReq, ReqFields, Idle, NoLinks, Links

\* A step of one request that leaves it in order, and the row as it is.
LEMMA ReqStep ==
  ASSUME LinksInv, NEW r \in Requests, NEW next, ReqOK(next), Go(r, next), RowOK'
  PROVE  LinksInv'
<1>1. \A q \in Requests : req'[q] = IF q = r THEN next ELSE req[q]
  BY DEF LinksInv, Go
<1>2. req' = [q \in Requests |-> req'[q]]
  BY DEF LinksInv, Go
<1>3. \A q \in Requests : ReqOK(req'[q])
  BY <1>1 DEF LinksInv
<1> QED BY <1>2, <1>3 DEF LinksInv, ReqOK, IsReq

\* Time makes links older, and no older than their row or their attempt allows.
LEMMA OlderLinks ==
  ASSUME NEW l \in Links
  PROVE  /\ Older(l) \in Links /\ Older(l).real = l.real /\ Older(l).known = l.known
         /\ Older(l).made <= l.made + 1
         /\ l.made <= l.fetched + Timeout => Older(l).made <= Older(l).fetched + Timeout
<1>1. Oldest \in Nat
  BY RecipeAssumption DEF Oldest
<1> DEFINE made == Least(l.made + 1, Oldest)
           fetched == Least(l.fetched + 1, Oldest)
<1>2. l.made \in Nat /\ l.fetched \in Nat
  BY DEF Links
<1>3. made \in Nat /\ fetched \in Nat
  BY <1>1, <1>2 DEF Least
<1>4. Older(l) = [l EXCEPT !.made = made, !.fetched = fetched]
  BY DEF Older
<1> HIDE DEF made, fetched
<1>5. /\ Older(l) \in Links /\ Older(l).real = l.real /\ Older(l).known = l.known
      /\ Older(l).made = made /\ Older(l).fetched = fetched
  BY <1>3, <1>4 DEF Links
<1>6. /\ Older(l).made <= l.made + 1
      /\ l.made <= l.fetched + Timeout => Older(l).made <= Older(l).fetched + Timeout
  BY <1>1, <1>2, <1>5, RecipeAssumption DEF Least, made, fetched
<1> QED BY <1>5, <1>6

\* A request that is over, whatever it answers.
LEMMA EndOK ==
  ASSUME NEW r \in Requests, NEW l \in Links, NEW result,
         result \in {"cached", "searched"} => l.real,
         result = "cached" => l.made <= TTL + Timeout
  PROVE  ReqOK(End(r, result, l))
<1> DEFINE q == Idle
           m == [l EXCEPT !.fetched = 0]
           next == [q EXCEPT !.pc = "done", !.result = result, !.links = m]
<1>1. ReqOK(q) /\ q.left = 0 /\ q.spent = 0
  BY IdleOK DEF Idle
<1>2. m \in Links /\ m.real = l.real /\ m.made = l.made
  BY DEF Links
<1>3. End(r, result, l) = next
  BY DEF End
<1> HIDE DEF q, m
<1>4. next = [f \in ReqFields |-> next[f]]
  BY <1>1 DEF ReqOK, IsReq, ReqFields
<1>5. /\ next.pc = "done" /\ next.result = result /\ next.links = m
      /\ next.left = 0 /\ next.spent = 0
  BY <1>1 DEF ReqOK, IsReq, ReqFields
<1> HIDE DEF next
<1>6. ReqOK(next)
  BY <1>2, <1>4, <1>5, RecipeAssumption DEF ReqOK, IsReq
<1> QED BY <1>3, <1>6

\* The steps of a request that reset several of its fields.
LEMMA AskedOK == ReqOK([Idle EXCEPT !.pc = "menu"])
<1> DEFINE q == Idle
<1>1. ReqOK(q) /\ q.result = "none"
  BY IdleOK DEF Idle
<1> HIDE DEF q
<1>2. ReqOK([q EXCEPT !.pc = "menu"])
  BY <1>1 DEF ReqOK, IsReq, ReqFields
<1> QED BY <1>2 DEF q

LEMMA StartedOK ==
  ASSUME NEW q, ReqOK(q), q.pc = "cache"
  PROVE  ReqOK([q EXCEPT !.pc = "trying", !.left = Budget, !.spent = 0,
                         !.attempt = 0, !.links = NoLinks])
<1> DEFINE next == [q EXCEPT !.pc = "trying", !.left = Budget, !.spent = 0,
                             !.attempt = 0, !.links = NoLinks]
<1>1. next = [f \in ReqFields |-> next[f]]
  BY DEF ReqOK, IsReq, ReqFields
<1>2. /\ next.pc = "trying" /\ next.left = Budget /\ next.spent = 0
      /\ next.links = NoLinks /\ next.result = q.result
  BY DEF ReqOK, IsReq, ReqFields
<1>3. q.result \notin {"cached", "searched"}
  BY DEF ReqOK
<1> HIDE DEF next
<1>4. ReqOK(next)
  BY <1>1, <1>2, <1>3, RecipeAssumption, NoLinksType DEF ReqOK, IsReq
<1> QED BY <1>4 DEF next

LEMMA CallingOK ==
  ASSUME NEW q, ReqOK(q), q.pc = "trying"
  PROVE  ReqOK([q EXCEPT !.pc = "calling", !.timer = Timeout,
                         !.links = [NoLinks EXCEPT !.real = TRUE]])
<1> DEFINE l == [NoLinks EXCEPT !.real = TRUE]
<1>1. l \in Links /\ l.real /\ l.made = 0
  BY DEF NoLinks, Links
<1> DEFINE next == [q EXCEPT !.pc = "calling", !.timer = Timeout, !.links = l]
<1> HIDE DEF l
<1>2. next = [f \in ReqFields |-> next[f]]
  BY DEF ReqOK, IsReq, ReqFields
<1>3. /\ next.pc = "calling" /\ next.left = q.left /\ next.spent = q.spent
      /\ next.timer = Timeout /\ next.links = l /\ next.result = q.result
  BY DEF ReqOK, IsReq, ReqFields
<1> HIDE DEF next
<1>4. ReqOK(next)
  BY <1>1, <1>2, <1>3, RecipeAssumption DEF ReqOK, IsReq
<1> QED BY <1>4 DEF next, l

LEMMA FoundOK ==
  ASSUME NEW q, ReqOK(q), q.pc = "calling"
  PROVE  ReqOK([q EXCEPT !.pc = "saving", !.links = Found(q.links.made),
                         !.left = 0, !.spent = 0, !.attempt = 0, !.timer = 0])
<1> DEFINE l == Found(q.links.made)
<1>1. l \in Links /\ l.real /\ l.made = q.links.made /\ l.fetched = 0
  BY DEF Found, Links, ReqOK, IsReq
<1>2. q.links.made \in Nat /\ q.links.made <= Timeout
  BY RecipeAssumption DEF ReqOK, IsReq, Links
<1> DEFINE next == [q EXCEPT !.pc = "saving", !.links = l,
                             !.left = 0, !.spent = 0, !.attempt = 0, !.timer = 0]
<1> HIDE DEF l
<1>3. next = [f \in ReqFields |-> next[f]]
  BY DEF ReqOK, IsReq, ReqFields
<1>4. /\ next.pc = "saving" /\ next.left = 0 /\ next.spent = 0
      /\ next.links = l /\ next.result = q.result
  BY DEF ReqOK, IsReq, ReqFields
<1> HIDE DEF next
<1>5. ReqOK(next)
  BY <1>1, <1>2, <1>3, <1>4, RecipeAssumption DEF ReqOK, IsReq
<1> QED BY <1>5 DEF next, l

\* The steps of the service that leave the row alone.
LEMMA ServiceStep ==
  ASSUME LinksInv, NEW r \in Requests,
         \/ Ask(r) \/ Leave(r) \/ FindMenu(r) \/ FindRow(r)
         \/ BeginAttempt(r) \/ AfterWait(r) \/ Report(r) \/ Respond(r)
  PROVE  LinksInv'
<1> DEFINE q == req[r]
           Starting == [q EXCEPT !.pc = "trying", !.left = Budget, !.spent = 0,
                                 !.attempt = 0, !.links = NoLinks]
<1>1. RowOK' /\ ReqOK(q) /\ RowOK
  BY DEF LinksInv, RowOK, Ask, Leave, FindMenu, FindRow, BeginAttempt, AfterWait,
         Report, Respond
<1> USE RecipeAssumption, NoLinksType DEF ReqOK, IsReq, ReqFields
<1>2. CASE Ask(r)
  <2> HIDE DEF ReqOK
  <2> QED BY <1>1, <1>2, AskedOK, ReqStep DEF Ask
<1>3. CASE Leave(r)
  <2>1. ReqOK([q EXCEPT !.gone = TRUE])
    BY <1>1
  <2> QED BY <1>1, <1>3, <2>1, ReqStep DEF Leave
<1>4. CASE FindMenu(r)
  <2>1. ReqOK([q EXCEPT !.pc = "cache"])
    BY <1>1, <1>4 DEF FindMenu
  <2> HIDE DEF ReqOK
  <2>2. ReqOK(End(r, "error", NoLinks))
    BY NoLinksType, EndOK
  <2> QED BY <1>1, <1>4, <2>1, <2>2, ReqStep DEF FindMenu
<1>5. CASE FindRow(r)
  <2>1. ReqOK(Starting)
    BY <1>1, <1>5, StartedOK DEF FindRow
  <2>2. ASSUME row.known, row.fetched <= TTL PROVE ReqOK(End(r, "cached", row))
    <3>1. row \in Links /\ row.real /\ row.made <= TTL + Timeout
      BY <1>1, <2>2 DEF RowOK, Links
    <3> QED BY <3>1, EndOK
  <2> HIDE DEF ReqOK
  <2> QED BY <1>1, <1>5, <2>1, <2>2, ReqStep DEF FindRow, StartSearch
<1>6. CASE BeginAttempt(r)
  <2>1. ReqOK([q EXCEPT !.pc = "failed"])
    BY <1>1, <1>6 DEF BeginAttempt
  <2>2. ReqOK([q EXCEPT !.pc = "calling", !.timer = Timeout,
                        !.links = [NoLinks EXCEPT !.real = TRUE]])
    BY <1>1, <1>6, CallingOK DEF BeginAttempt
  <2> HIDE DEF ReqOK
  <2> QED BY <1>1, <1>6, <2>1, <2>2, ReqStep DEF BeginAttempt
<1>7. CASE AfterWait(r)
  <2>1. ReqOK([q EXCEPT !.pc = "failed"])
    BY <1>1, <1>7 DEF AfterWait
  <2>2. ReqOK([q EXCEPT !.pc = "trying", !.attempt = q.attempt + 1])
    BY <1>1, <1>7 DEF AfterWait
  <2> HIDE DEF ReqOK
  <2> QED BY <1>1, <1>7, <2>1, <2>2, ReqStep DEF AfterWait
<1>8. CASE Report(r)
  <2> HIDE DEF ReqOK
  <2>1. ReqOK(End(r, IF req[r].gone THEN "interrupted" ELSE "failed", NoLinks))
    BY NoLinksType, EndOK
  <2> QED BY <1>1, <1>8, <2>1, ReqStep DEF Report
<1>9. CASE Respond(r)
  BY <1>1, <1>9, IdleOK, ReqStep DEF Respond
<1> QED BY <1>2, <1>3, <1>4, <1>5, <1>6, <1>7, <1>8, <1>9

\* What comes of an attempt, and the save of what it has found.
LEMMA AttemptStep ==
  ASSUME LinksInv, NEW r \in Requests,
         Succeed(r) \/ AttemptFails(r) \/ AttemptRefused(r) \/ Save(r)
  PROVE  LinksInv'
<1> DEFINE q == req[r]
<1>1. ReqOK(q) /\ RowOK
  BY DEF LinksInv
<1> USE RecipeAssumption, NoLinksType DEF ReqOK, IsReq, ReqFields
<1>2. CASE Succeed(r)
  <2>1. ReqOK([q EXCEPT !.pc = "saving", !.links = Found(q.links.made),
                        !.left = 0, !.spent = 0, !.attempt = 0, !.timer = 0])
    BY <1>1, <1>2, FoundOK DEF Succeed
  <2> HIDE DEF ReqOK
  <2> QED BY <1>1, <1>2, <2>1, ReqStep DEF Succeed, RowOK
<1>3. CASE AttemptFails(r) \/ AttemptRefused(r)
  <2>1. ReqOK([q EXCEPT !.pc = "failed", !.links = NoLinks, !.timer = 0])
    BY <1>1, <1>3 DEF AttemptFails, AttemptRefused
  <2>2. ReqOK([q EXCEPT !.pc = "waiting", !.links = NoLinks, !.timer = Wait(q.attempt)])
    BY <1>1, <1>3 DEF AttemptFails, AttemptRefused
  <2> HIDE DEF ReqOK
  <2> QED BY <1>1, <1>3, <2>1, <2>2, ReqStep DEF AttemptFails, AttemptRefused, RowOK
<1>4. CASE Save(r)
  <2>1. /\ q.pc = "saving" /\ Go(r, End(r, "searched", q.links))
        /\ row' \in {row, q.links}
    BY <1>4 DEF Save
  <2>2. RowOK'
    BY <1>1, <2>1 DEF RowOK
  <2>3. ReqOK(End(r, "searched", q.links))
    BY <1>1, <2>1, EndOK
  <2> HIDE DEF ReqOK
  <2> QED BY <2>1, <2>2, <2>3, ReqStep
<1> QED BY <1>2, <1>3, <1>4

\* A unit of time, for one request: a wait or an attempt that is over does not
\* let it pass, so what is spent is taken from what is left.
LEMMA TickReq ==
  ASSUME LinksInv, NEW r \in Requests, Tick
  PROVE  ReqOK(req'[r])
<1> DEFINE q == req[r]
           spent == IF q.pc \in {"calling", "waiting"} THEN Least(q.spent + 1, Budget + 1)
                    ELSE q.spent
           links == CASE q.pc = "calling" -> [Older(q.links) EXCEPT !.fetched = 0]
                      [] q.pc = "saving"  -> Older(q.links)
                      [] OTHER            -> q.links
           next == [q EXCEPT !.left = Down(q.left), !.timer = Down(q.timer),
                             !.spent = spent, !.links = links]
<1>1. ReqOK(q)
  BY DEF LinksInv
<1>2. req'[r] = next
  BY DEF Tick
<1>3. /\ q.pc \notin {"trying", "failed", "done"}
      /\ q.pc = "calling" => q.left # 0 /\ q.timer # 0
      /\ q.pc = "waiting" => q.left # 0
  BY DEF Tick, MayWait, AttemptOver, WaitEnds, SearchOver
<1> HIDE DEF q
<1>4. q.left \in Nat /\ q.spent \in Nat /\ q.links \in Links /\ q.spent + q.left <= Budget
  BY <1>1 DEF ReqOK, IsReq
<1>5. /\ Down(q.left) \in Nat /\ spent \in Nat
      /\ spent + Down(q.left) <= Budget
  BY <1>3, <1>4, RecipeAssumption DEF Down, Least
<1>6. /\ links \in Links /\ links.real = q.links.real
      /\ q.pc = "calling" => links.made <= q.links.made + 1
      /\ q.pc = "saving" => links = Older(q.links)
  <2>1. Older(q.links) \in Links /\ Older(q.links).real = q.links.real
        /\ Older(q.links).made <= q.links.made + 1
    BY <1>4, OlderLinks
  <2> DEFINE l == Older(q.links)
  <2> HIDE DEF l
  <2>2. ASSUME l \in Links
        PROVE  /\ [l EXCEPT !.fetched = 0] \in Links
               /\ [l EXCEPT !.fetched = 0].real = l.real
               /\ [l EXCEPT !.fetched = 0].made = l.made
    BY <2>2 DEF Links
  <2> QED BY <1>4, <2>1, <2>2 DEF l
<1>7. next = [f \in ReqFields |-> next[f]]
  BY <1>1 DEF ReqOK, IsReq, ReqFields
<1>8. /\ next.pc = q.pc /\ next.left = Down(q.left) /\ next.spent = spent
      /\ next.timer = Down(q.timer) /\ next.links = links /\ next.result = q.result
  BY <1>1 DEF ReqOK, IsReq, ReqFields
<1> HIDE DEF next, spent, links
<1>9. IsReq(next) /\ next.spent + next.left <= Budget
  BY <1>5, <1>6, <1>7, <1>8 DEF IsReq
<1>10. ASSUME q.pc = "calling"
       PROVE  next.links.real /\ next.timer \in Nat /\ next.links.made + next.timer <= Timeout
  <2>1. q.links.real /\ q.timer \in Nat /\ q.links.made + q.timer <= Timeout
    BY <1>1, <1>10 DEF ReqOK
  <2>2. Down(q.timer) \in Nat /\ Down(q.timer) = q.timer - 1
    BY <1>3, <1>10, <2>1 DEF Down
  <2>3. links.made \in Nat /\ q.links.made \in Nat /\ links.made <= q.links.made + 1
    BY <1>4, <1>6, <1>10 DEF Links
  <2> DEFINE m == links.made  n == q.links.made  t == q.timer
  <2>4. m + (t - 1) <= Timeout
    <3> HIDE DEF m, n, t
    <3>1. m \in Nat /\ n \in Nat /\ t \in Nat /\ m <= n + 1 /\ n + t <= Timeout
      BY <2>1, <2>3 DEF m, n, t
    <3> QED BY <3>1, RecipeAssumption
  <2> QED BY <1>6, <1>8, <1>10, <2>1, <2>2, <2>4
<1>11. ASSUME q.pc = "saving"
       PROVE  next.links.real /\ next.links.made <= next.links.fetched + Timeout
  BY <1>1, <1>4, <1>6, <1>8, <1>11, OlderLinks DEF ReqOK
<1>12. q.result \notin {"cached", "searched"}
  BY <1>1, <1>3 DEF ReqOK
<1> QED BY <1>2, <1>8, <1>9, <1>10, <1>11, <1>12 DEF ReqOK

LEMMA TickStep ==
  ASSUME LinksInv, Tick
  PROVE  LinksInv'
<1>1. req' = [r \in Requests |-> req'[r]]
  BY DEF Tick
<1>2. \A r \in Requests : ReqOK(req'[r])
  BY TickReq
<1>3. RowOK'
  <2>1. RowOK
    BY DEF LinksInv
  <2>2. row' = IF row.known THEN Older(row) ELSE row
    BY DEF Tick
  <2> QED BY <2>1, <2>2, OlderLinks DEF RowOK
<1> QED BY <1>1, <1>2, <1>3 DEF LinksInv, ReqOK, IsReq

LEMMA LinksInvariant == Spec => []LinksInv
<1>1. Init => LinksInv
  <2>1. Init => RowOK
    BY NoLinksType DEF Init, RowOK, NoLinks
  <2> QED BY <2>1, IdleOK DEF Init, LinksInv
<1>2. LinksInv /\ [Next]_vars => LinksInv'
  <2> SUFFICES ASSUME LinksInv, [Next]_vars PROVE LinksInv'
    OBVIOUS
  <2>1. CASE UNCHANGED vars
    BY <2>1 DEF vars, LinksInv, RowOK, ReqOK, IsReq
  <2> QED BY <2>1, TickStep, ServiceStep, AttemptStep DEF Next, Proceed
<1> QED BY <1>1, <1>2, PTL DEF Spec

\* However many attempts and whatever the waits: a search never takes longer
\* than its budget.
THEOREM RecipeWithinBudget == Spec => []WithinBudget
<1>1. LinksInv => WithinBudget
  <2> SUFFICES ASSUME LinksInv, NEW r \in Requests PROVE req[r].spent <= Budget
    BY DEF WithinBudget
  <2>1. /\ req[r].spent \in Nat /\ req[r].left \in Nat
        /\ req[r].spent + req[r].left <= Budget
    BY DEF LinksInv, ReqOK, IsReq
  <2> QED BY <2>1, RecipeAssumption
<1> QED BY <1>1, LinksInvariant, PTL

\* Links from the cache were asked for at most TTL and one attempt ago.
THEOREM RecipeServedFresh == Spec => []ServedFresh
<1>1. LinksInv => ServedFresh
  BY DEF LinksInv, ReqOK, ServedFresh
<1> QED BY <1>1, LinksInvariant, PTL

\* Nothing but what a search has found is kept or shown.
THEOREM RecipeFailureNotCached == Spec => []FailureNotCached
<1>1. LinksInv => FailureNotCached
  BY DEF LinksInv, RowOK, ReqOK, FailureNotCached
<1> QED BY <1>1, LinksInvariant, PTL

-----------------------------------------------------------------------------
\* The attempts of a request are counted, and its links have not been kept for
\* longer than they have been known.
TryOK(q) ==
  /\ q.attempt \in Nat /\ q.attempt <= MaxRetries
  /\ q.pc = "waiting" => q.attempt < MaxRetries
  /\ q.links.made <= Oldest /\ q.links.fetched <= Oldest
  /\ q.pc = "saving" => q.links.fetched <= q.links.made

AgesOK == row.made <= Oldest /\ row.fetched <= Oldest

TryInv == AgesOK /\ \A r \in Requests : TryOK(req[r])

LEMMA IdleTries == TryOK(Idle) /\ \A r, result : \A l \in Links :
                     l.made <= Oldest => TryOK(End(r, result, l))
<1>1. /\ Idle.attempt = 0 /\ Idle.pc = "idle" /\ Idle.links.made = 0 /\ Idle.links.fetched = 0
      /\ Oldest \in Nat
  BY RecipeAssumption DEF Idle, NoLinks, Oldest
<1>2. ASSUME NEW r, NEW result, NEW l \in Links, l.made <= Oldest
      PROVE  TryOK(End(r, result, l))
  <2> DEFINE m == [l EXCEPT !.fetched = 0]
             next == End(r, result, l)
  <2>1. m.made = l.made /\ m.fetched = 0
    BY DEF Links
  <2> HIDE DEF m
  <2>2. next.attempt = 0 /\ next.pc = "done" /\ next.links = m
    BY DEF End, Idle, m
  <2> HIDE DEF next
  <2>3. TryOK(next)
    BY <1>1, <1>2, <2>1, <2>2, RecipeAssumption DEF TryOK
  <2> QED BY <2>3 DEF next
<1> QED BY <1>1, <1>2, RecipeAssumption DEF TryOK

LEMMA OneTries ==
  ASSUME TryInv, LinksInv, NEW r \in Requests, NEW next, TryOK(next), Go(r, next), AgesOK'
  PROVE  TryInv'
<1>1. \A q \in Requests : req'[q] = IF q = r THEN next ELSE req[q]
  BY DEF LinksInv, Go
<1>2. \A q \in Requests : TryOK(req'[q])
  BY <1>1 DEF TryInv
<1> QED BY <1>2 DEF TryInv, TryOK

LEMMA StepTries ==
  ASSUME TryInv, LinksInv, NEW r \in Requests,
         \/ Ask(r) \/ Leave(r) \/ Proceed(r)
         \/ Succeed(r) \/ AttemptFails(r) \/ AttemptRefused(r)
  PROVE  TryInv'
<1> DEFINE q == req[r]
<1>1. /\ TryOK(q) /\ IsReq(q) /\ q.links \in Links /\ row \in Links
      /\ q.links.made \in Nat /\ q.links.fetched \in Nat /\ AgesOK
  BY DEF TryInv, LinksInv, ReqOK, IsReq, RowOK, Links
<1>2. Oldest \in Nat /\ MaxRetries \in Nat
  BY RecipeAssumption DEF Oldest
<1>3. NoLinks.made = 0 /\ NoLinks.fetched = 0 /\ NoLinks \in Links
  BY DEF NoLinks, Links
<1>4. CASE UNCHANGED row
  <2>1. AgesOK'
    BY <1>1, <1>4 DEF AgesOK
  <2>2. ASSUME NEW next, Go(r, next), TryOK(next) PROVE TryInv'
    BY <2>1, <2>2, OneTries
  <2>3. CASE Ask(r)
    <3> DEFINE next == [Idle EXCEPT !.pc = "menu"]
    <3>1. next.attempt = 0 /\ next.pc = "menu" /\ next.links = NoLinks
      BY DEF Idle
    <3> HIDE DEF next
    <3>2. TryOK(next)
      BY <1>2, <1>3, <3>1 DEF TryOK
    <3> QED BY <2>2, <2>3, <3>2 DEF Ask, next
  <2>4. CASE Leave(r)
    <3> DEFINE next == [q EXCEPT !.gone = TRUE]
    <3>1. next.attempt = q.attempt /\ next.pc = q.pc /\ next.links = q.links
      BY <1>1 DEF IsReq, ReqFields
    <3> HIDE DEF next
    <3>2. TryOK(next)
      BY <1>1, <3>1 DEF TryOK
    <3> QED BY <2>2, <2>4, <3>2 DEF Leave, next
  <2>5. CASE FindMenu(r)
    <3> DEFINE next == [q EXCEPT !.pc = "cache"]
    <3>1. next.attempt = q.attempt /\ next.pc = "cache" /\ next.links = q.links
      BY <1>1 DEF IsReq, ReqFields
    <3> HIDE DEF next
    <3>2. TryOK(next) /\ TryOK(End(r, "error", NoLinks))
      BY <1>1, <1>2, <1>3, <3>1, IdleTries DEF TryOK
    <3> QED BY <2>2, <2>5, <3>2 DEF FindMenu, next
  <2>6. CASE FindRow(r)
    <3> DEFINE next == [q EXCEPT !.pc = "trying", !.left = Budget, !.spent = 0,
                                 !.attempt = 0, !.links = NoLinks]
    <3>1. next.attempt = 0 /\ next.pc = "trying" /\ next.links = NoLinks
      BY <1>1 DEF IsReq, ReqFields
    <3>2. Go(r, next) \/ Go(r, End(r, "cached", row))
      BY <2>6 DEF FindRow, StartSearch
    <3> HIDE DEF next
    <3>3. TryOK(next) /\ TryOK(End(r, "cached", row))
      BY <1>1, <1>2, <1>3, <3>1, IdleTries DEF TryOK, AgesOK
    <3> QED BY <2>2, <3>2, <3>3
  <2>7. CASE BeginAttempt(r)
    <3> DEFINE l == [NoLinks EXCEPT !.real = TRUE]
               fails == [q EXCEPT !.pc = "failed"]
               next == [q EXCEPT !.pc = "calling", !.timer = Timeout, !.links = l]
    <3>1. l.made = 0 /\ l.fetched = 0
      BY DEF NoLinks
    <3>2. Go(r, next) \/ Go(r, fails)
      BY <2>7 DEF BeginAttempt
    <3> HIDE DEF l
    <3>3. /\ next.attempt = q.attempt /\ next.pc = "calling" /\ next.links = l
          /\ fails.attempt = q.attempt /\ fails.pc = "failed" /\ fails.links = q.links
      BY <1>1 DEF IsReq, ReqFields
    <3> HIDE DEF next, fails
    <3>4. TryOK(next) /\ TryOK(fails)
      BY <1>1, <1>2, <3>1, <3>3 DEF TryOK
    <3> QED BY <2>2, <3>2, <3>4
  <2>8. CASE AfterWait(r)
    <3> DEFINE fails == [q EXCEPT !.pc = "failed"]
               next == [q EXCEPT !.pc = "trying", !.attempt = q.attempt + 1]
    <3>1. q.pc = "waiting" /\ (Go(r, next) \/ Go(r, fails))
      BY <2>8 DEF AfterWait
    <3>2. /\ next.attempt = q.attempt + 1 /\ next.pc = "trying" /\ next.links = q.links
          /\ fails.attempt = q.attempt /\ fails.pc = "failed" /\ fails.links = q.links
      BY <1>1 DEF IsReq, ReqFields
    <3> HIDE DEF next, fails
    <3>3. TryOK(next) /\ TryOK(fails)
      BY <1>1, <1>2, <3>1, <3>2 DEF TryOK
    <3> QED BY <2>2, <3>1, <3>3
  <2>9. CASE AttemptFails(r) \/ AttemptRefused(r)
    <3> DEFINE fails == [q EXCEPT !.pc = "failed", !.links = NoLinks, !.timer = 0]
               next == [q EXCEPT !.pc = "waiting", !.links = NoLinks, !.timer = Wait(q.attempt)]
    <3>1. Go(r, fails) \/ (Go(r, next) /\ q.attempt # MaxRetries)
      BY <2>9 DEF AttemptFails, AttemptRefused
    <3>2. /\ next.attempt = q.attempt /\ next.pc = "waiting" /\ next.links = NoLinks
          /\ fails.attempt = q.attempt /\ fails.pc = "failed" /\ fails.links = NoLinks
      BY <1>1 DEF IsReq, ReqFields
    <3> HIDE DEF next, fails
    <3>3. TryOK(fails) /\ (q.attempt # MaxRetries => TryOK(next))
      BY <1>1, <1>2, <1>3, <3>2 DEF TryOK
    <3> QED BY <2>2, <3>1, <3>3
  <2>10. CASE Succeed(r)
    <3> DEFINE l == Found(q.links.made)
               next == [q EXCEPT !.pc = "saving", !.links = l,
                                 !.left = 0, !.spent = 0, !.attempt = 0, !.timer = 0]
    <3>1. l.made = q.links.made /\ l.fetched = 0
      BY DEF Found
    <3>2. Go(r, next)
      BY <1>1, <2>10 DEF Succeed, IsReq, ReqFields
    <3> HIDE DEF l
    <3>3. next.attempt = 0 /\ next.pc = "saving" /\ next.links = l
      BY <1>1 DEF IsReq, ReqFields
    <3> HIDE DEF next
    <3>4. TryOK(next)
      BY <1>1, <1>2, <3>1, <3>3 DEF TryOK
    <3> QED BY <2>2, <3>2, <3>4
  <2>11. CASE Report(r) \/ Respond(r)
    <3>1. TryOK(Idle) /\ \A result : TryOK(End(r, result, NoLinks))
      BY <1>2, <1>3, IdleTries
    <3> QED BY <2>2, <2>11, <3>1 DEF Report, Respond
  <2>12. CASE Save(r)
    <3>1. TryOK(End(r, "searched", q.links))
      BY <1>1, IdleTries DEF TryOK
    <3> QED BY <2>2, <2>12, <3>1 DEF Save
  <2> QED BY <2>3, <2>4, <2>5, <2>6, <2>7, <2>8, <2>9, <2>10, <2>11, <2>12 DEF Proceed
<1>5. CASE Save(r)
  <2>1. Go(r, End(r, "searched", q.links)) /\ row' \in {row, q.links}
    BY <1>5 DEF Save
  <2>2. AgesOK' /\ TryOK(End(r, "searched", q.links))
    BY <1>1, <2>1, IdleTries DEF AgesOK, TryOK
  <2> QED BY <2>1, <2>2, OneTries
<1> QED BY <1>4, <1>5 DEF Ask, Leave, Proceed, FindMenu, FindRow, BeginAttempt, AfterWait,
      Report, Respond, Succeed, AttemptFails, AttemptRefused

\* Both ages of links grow alike, up to where they are counted.
LEMMA OlderTries ==
  ASSUME NEW l \in Links, l.made <= Oldest, l.fetched <= Oldest
  PROVE  /\ Older(l).made <= Oldest /\ Older(l).fetched <= Oldest
         /\ l.fetched <= l.made => Older(l).fetched <= Older(l).made
<1>1. /\ Older(l).made = Least(l.made + 1, Oldest)
      /\ Older(l).fetched = Least(l.fetched + 1, Oldest)
  BY DEF Older, Links
<1>2. l.made \in Nat /\ l.fetched \in Nat /\ Oldest \in Nat
  BY RecipeAssumption DEF Links, Oldest
<1> QED BY <1>1, <1>2 DEF Least

LEMMA TickTries ==
  ASSUME TryInv, LinksInv, Tick
  PROVE  TryInv'
<1>1. ASSUME NEW r \in Requests PROVE TryOK(req'[r])
  <2> DEFINE q == req[r]
             l == q.links
             links == CASE q.pc = "calling" -> [Older(l) EXCEPT !.fetched = 0]
                        [] q.pc = "saving"  -> Older(l)
                        [] OTHER            -> l
  <2>1. TryOK(q) /\ IsReq(q) /\ l \in Links
    BY DEF TryInv, LinksInv, ReqOK, IsReq
  <2>2. /\ req'[r].pc = q.pc /\ req'[r].attempt = q.attempt /\ req'[r].links = links
    BY <2>1 DEF Tick, IsReq, ReqFields
  <2> HIDE DEF q
  <2>3. /\ Older(l) \in Links /\ Older(l).made <= Oldest /\ Older(l).fetched <= Oldest
        /\ l.fetched <= l.made => Older(l).fetched <= Older(l).made
    BY <2>1, OlderLinks, OlderTries DEF TryOK
  <2> DEFINE m == Older(l)
             k == [m EXCEPT !.fetched = 0]
  <2> HIDE DEF m
  <2>4. m \in Links => k.made = m.made /\ k.fetched = 0
    BY DEF Links
  <2>5. links = IF q.pc = "calling" THEN k ELSE IF q.pc = "saving" THEN m ELSE l
    BY DEF m
  <2>6. Oldest \in Nat
    BY RecipeAssumption DEF Oldest
  <2> HIDE DEF k, links, l
  <2>7. /\ links.made <= Oldest /\ links.fetched <= Oldest
        /\ q.pc = "saving" => links.fetched <= links.made
    BY <2>1, <2>3, <2>4, <2>5, <2>6 DEF TryOK, m, l
  <2> QED BY <2>1, <2>2, <2>7 DEF TryOK
<1>2. AgesOK'
  BY OlderTries DEF TryInv, AgesOK, LinksInv, RowOK, Tick
<1> QED BY <1>1, <1>2 DEF TryInv, TryOK

\* Attempts are bounded, and the ages of what is kept and found are in order
\* (fetch and its loop, gateway/brave.go).
THEOREM RecipeTypeOK == Spec => []TypeOK
<1>1. Init => TryInv
  BY IdleTries, RecipeAssumption DEF Init, TryInv, AgesOK, NoLinks, Oldest
<1>2. TryInv /\ LinksInv /\ [Next]_vars => TryInv'
  <2> SUFFICES ASSUME TryInv, LinksInv, [Next]_vars PROVE TryInv'
    OBVIOUS
  <2>1. CASE UNCHANGED vars
    BY <2>1 DEF vars, TryInv, AgesOK, TryOK
  <2> QED BY <2>1, TickTries, StepTries DEF Next
<1>3. TryInv /\ LinksInv => TypeOK
  <2> SUFFICES ASSUME TryInv, LinksInv PROVE TypeOK
    OBVIOUS
  <2>1. row \in [made : 0..Oldest, fetched : 0..Oldest, real : BOOLEAN, known : BOOLEAN]
    BY DEF TryInv, AgesOK, LinksInv, RowOK, Links
  <2>2. ASSUME NEW r \in Requests
        PROVE  /\ req[r].left <= Budget /\ req[r].attempt <= MaxRetries
               /\ req[r].pc = "calling" => req[r].timer <= Timeout
               /\ req[r].pc = "saving" => req[r].links.fetched <= req[r].links.made
    <3>1. TryOK(req[r]) /\ ReqOK(req[r])
      BY DEF TryInv, LinksInv
    <3> QED BY <3>1, RecipeAssumption DEF TryOK, ReqOK, IsReq, Links
  <2> QED BY <2>1, <2>2 DEF TypeOK
<1> QED BY <1>1, <1>2, <1>3, LinksInvariant, PTL DEF Spec
=============================================================================
