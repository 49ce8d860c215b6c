------------------------------ MODULE Catalog ------------------------------
(***************************************************************************)
(* What is computed from the master of menus and ingredients:              *)
(* SearchByIngredients and All (service/ingredient.go), Build and          *)
(* MenuIngredients (service/shopping_list.go), with the statements of      *)
(* repository/ingredient.go they read by.  A search reads the menus that   *)
(* share an ingredient and then their ingredients in two statements; a     *)
(* seed (internal/db/seed.go, one transaction) may be committed between.   *)
(* Menus and ingredients are numbered in the order of their names, which   *)
(* is the order in which the rows of equal reading (name_kana) come.       *)
(***************************************************************************)
EXTENDS Naturals, Sequences, FiniteSets, SequencesExt

CONSTANTS
  Menus, Ingredients,  \* ids, in name order
  Unknown,             \* an id that is no row of either table
  MenuKana,            \* the place of a menu's reading in kana order
  Kana, Category,      \* of an ingredient: that, and its category's Order()
  MaxResults,          \* maxIngredientSearchResults: 20
  MaxListMenus,        \* maxShoppingListMenus: 7
  Seeds,               \* bound: pairs a seed may add
  Queries              \* bound: the requests that are made

ASSUME CatalogAssumption ==
  /\ Menus \subseteq Nat /\ Ingredients \subseteq Nat
  /\ IsFiniteSet(Menus) /\ IsFiniteSet(Ingredients)
  /\ MenuKana \in [Menus -> Nat]
  /\ Kana \in [Ingredients -> Nat] /\ Category \in [Ingredients -> Nat]
  /\ Unknown \notin Menus \cup Ingredients
  /\ MaxResults \in Nat \ {0} /\ MaxListMenus \in Nat \ {0}
  /\ Seeds \subseteq SUBSET (Menus \X Ingredients)
  /\ Queries \subseteq
       [kind : {"search", "list", "menu", "all"},
        ids : Seq(Menus \cup Ingredients \cup {Unknown}),
        only : BOOLEAN, sort : {"missing_asc", "matched_desc"}]

VARIABLES
  uses,    \* menu_ingredients: pairs of a menu and an ingredient
  query,   \* the request in service
  menuIds, \* what a search has found by its first statement
  since,   \* history variable: uses when the search began
  answer

catalogVars == <<uses, query, menuIds, since, answer>>

-----------------------------------------------------------------------------
\* Lexicographic order of keys.
Precedes(s, t) ==
  \E k \in DOMAIN s : s[k] < t[k] /\ \A j \in 1..(k - 1) : s[j] = t[j]

\* The members of S, sorted: each comes after those that precede it.
InOrder(S, key) ==
  [k \in 1..Cardinality(S) |->
     CHOOSE x \in S : Cardinality({y \in S : Precedes(key[y], key[x])}) = k - 1]

\* sortIngredientsForDisplay, a stable sort of rows that come by kana and name.
Display(S) == InOrder(S, [i \in S |-> <<Category[i], Kana[i], i>>])

IngredientsOf(pairs, m) == {p[2] : p \in {q \in pairs : q[1] = m}}

\* buildMatches for one menu.
Match(pairs, have, m) ==
  [menu |-> m, matched |-> Display(IngredientsOf(pairs, m) \cap have),
   missing |-> Display(IngredientsOf(pairs, m) \ have)]

\* buildMatches: a menu that shares nothing is left out.
Matches(pairs, have, ids) ==
  {Match(pairs, have, m) :
     m \in {n \in ids : IngredientsOf(pairs, n) \cap have # {}}}

WithMissingAtMost(matches, n) == {x \in matches : Len(x.missing) <= n}

\* sortMatches, a stable sort of rows that come by name.
SortKey(x, by) ==
  LET few == Len(x.missing)
      many == Cardinality(Ingredients) - Len(x.matched)
  IN  IF by = "matched_desc" THEN <<many, few, MenuKana[x.menu], x.menu>>
      ELSE <<few, many, MenuKana[x.menu], x.menu>>

Sorted(matches, by) == InOrder(matches, [x \in matches |-> SortKey(x, by)])

Truncate(list) == SubSeq(list, 1, IF Len(list) < MaxResults THEN Len(list) ELSE MaxResults)

\* Mutant: the list is cut while it is in the order of names.
RankCutFirst(matches, by) ==
  LET byName == InOrder(matches, [x \in matches |-> <<x.menu>>])
  IN  Sorted(ToSet(Truncate(byName)), by)

\* Sorted first, then cut.
Rank(matches, by) == Truncate(Sorted(matches, by))

\* SearchByIngredients from its second statement on.
SearchResult(pairs, r) ==
  LET all  == Matches(pairs, ToSet(r.ids), menuIds)
      kept == IF r.only THEN WithMissingAtMost(all, 0) ELSE all
  IN  [matches |-> Rank(kept, r.sort),
       near |-> IF r.only /\ kept = {}
                THEN Rank(WithMissingAtMost(all, 1), "matched_desc") ELSE <<>>]

\* Mutant: an item keeps only the last menu it was met in.
AggregateLast(pairs, ids) ==
  LET needed == UNION {IngredientsOf(pairs, m) : m \in ids}
      item(i) == [ingredient |-> i,
                  usedIn |-> {CHOOSE m \in ids : i \in IngredientsOf(pairs, m)}]
      order == Display(needed)
  IN  [k \in DOMAIN order |-> item(order[k])]

\* aggregate; the menus of an item come in no particular order.
Aggregate(pairs, ids) ==
  LET needed == UNION {IngredientsOf(pairs, m) : m \in ids}
      item(i) == [ingredient |-> i,
                  usedIn |-> {m \in ids : i \in IngredientsOf(pairs, m)}]
      order == Display(needed)
  IN  [k \in DOMAIN order |-> item(order[k])]

-----------------------------------------------------------------------------
NoQuery == [kind |-> "none", ids |-> <<>>, only |-> FALSE, sort |-> "missing_asc"]
NoAnswer == [status |-> "none"]

InitCatalog ==
  /\ uses \in SUBSET (Menus \X Ingredients)
  /\ query = NoQuery /\ menuIds = {} /\ since = {}
  /\ answer = NoAnswer

Submit(q) ==
  /\ query = NoQuery
  /\ query' = q
  /\ UNCHANGED <<uses, menuIds, since, answer>>

Seed(pairs) ==
  /\ ~(pairs \subseteq uses)
  /\ uses' = uses \cup pairs
  /\ UNCHANGED <<query, menuIds, since, answer>>

Waiting(kind) == query.kind = kind /\ answer = NoAnswer

Reply(a) ==
  /\ answer' = a
  /\ UNCHANGED <<uses, query>>

\* Duplicates count once (uniqueIngredientIDs, uniqueMenuIDs).
Refusal(known, most) ==
  IF query.ids = <<>> \/ Cardinality(ToSet(query.ids)) > most THEN "invalid"
  ELSE IF ToSet(query.ids) \subseteq known THEN "none" ELSE "notFound"

\* FindByIDs and FindMenuIDsByIngredientIDs.
FindMenuIDs ==
  /\ Waiting("search") /\ menuIds = {}
  /\ LET refusal == Refusal(Ingredients, Cardinality(Ingredients) + 1)
         shared == {m \in Menus : IngredientsOf(uses, m) \cap ToSet(query.ids) # {}}
     IN  IF refusal # "none" \/ shared = {}
         THEN /\ Reply(IF refusal = "none"
                       THEN [status |-> "ok", matches |-> <<>>, near |-> <<>>, seen |-> uses]
                       ELSE [status |-> refusal])
              /\ since' = uses
              /\ UNCHANGED menuIds
         ELSE /\ menuIds' = shared
              /\ since' = uses
              /\ UNCHANGED <<uses, query, answer>>

\* Mutant: the rows are read as the first statement reads them.
PairsHad(ids) == {p \in uses : p[1] \in ids /\ p[2] \in ToSet(query.ids)}
\* FindByMenuIDs.
PairsOf(ids) == {p \in uses : p[1] \in ids}

Search ==
  /\ Waiting("search") /\ menuIds # {}
  /\ LET found == SearchResult(PairsOf(menuIds), query)
     IN  Reply([status |-> "ok", matches |-> found.matches, near |-> found.near,
                seen |-> uses])
  /\ UNCHANGED <<menuIds, since>>

\* POST /shopping-list.
Build ==
  /\ Waiting("list")
  /\ LET refusal == Refusal(Menus, MaxListMenus)
     IN  Reply(IF refusal # "none" THEN [status |-> refusal]
               ELSE [status |-> "ok", seen |-> uses,
                     items |-> Aggregate(PairsOf(ToSet(query.ids)), ToSet(query.ids))])
  /\ UNCHANGED <<menuIds, since>>

\* GET /menus/:id/ingredients.
MenuIngredients ==
  /\ Waiting("menu")
  /\ LET m == query.ids[1]
     IN  Reply(IF m \notin Menus THEN [status |-> "notFound"]
               ELSE [status |-> "ok", items |-> Display(IngredientsOf(PairsOf({m}), m))])
  /\ UNCHANGED <<menuIds, since>>

\* GET /ingredients.
All ==
  /\ Waiting("all")
  /\ Reply([status |-> "ok", items |-> Display(Ingredients)])
  /\ UNCHANGED <<menuIds, since>>

Done ==
  /\ answer # NoAnswer
  /\ query' = NoQuery /\ menuIds' = {} /\ since' = {} /\ answer' = NoAnswer
  /\ UNCHANGED uses

NextCatalog ==
  \/ \E q \in Queries : Submit(q)
  \/ \E pairs \in Seeds : Seed(pairs)
  \/ FindMenuIDs \/ Search \/ Build \/ MenuIngredients \/ All
  \/ Done

SpecCatalog == InitCatalog /\ [][NextCatalog]_catalogVars

-----------------------------------------------------------------------------
Told(kind) == query.kind = kind /\ answer.status = "ok"
Have == ToSet(query.ids)
Used(m) == {i \in Ingredients : <<m, i>> \in answer.seen}

\* Menu m is a better answer than n: the two criteria in the asked order, then
\* the reading.
Better(m, n) ==
  LET fewer == Cardinality(Used(m) \ Have) < Cardinality(Used(n) \ Have)
      asFew == Cardinality(Used(m) \ Have) = Cardinality(Used(n) \ Have)
      more  == Cardinality(Used(m) \cap Have) > Cardinality(Used(n) \cap Have)
      asMany == Cardinality(Used(m) \cap Have) = Cardinality(Used(n) \cap Have)
  IN  \/ query.sort = "missing_asc" /\ (fewer \/ (asFew /\ more))
      \/ query.sort = "matched_desc" /\ (more \/ (asMany /\ fewer))
      \/ (asFew /\ asMany /\ MenuKana[m] < MenuKana[n])

\* The best answers are kept and come in order: nothing that the search was
\* asked for and that shared an ingredient when it began is cut off in favour
\* of a worse one (truncateMatches: 「必ず並べ替えの後に呼ぶ」).
BestKept ==
  Told("search") =>
    LET listed == {answer.matches[k].menu : k \in DOMAIN answer.matches}
        wanted == {m \in Menus :
          /\ \E i \in Have : <<m, i>> \in since
          /\ query.only => Used(m) \subseteq Have}
    IN  /\ listed \subseteq wanted
        /\ Len(answer.matches) =
             IF Cardinality(wanted) < MaxResults THEN Cardinality(wanted) ELSE MaxResults
        /\ \A m \in wanted \ listed, n \in listed : ~Better(m, n)
        /\ \A j, k \in DOMAIN answer.matches :
             j < k => ~Better(answer.matches[k].menu, answer.matches[j].menu)

\* What is missing is told in full, also when the master grows under the
\* search; and a search for what can be made now that finds nothing offers what
\* is one purchase away, exactly then.
MissingTold ==
  Told("search") =>
    /\ \A x \in ToSet(answer.matches) \cup ToSet(answer.near) :
         /\ ToSet(x.missing) = Used(x.menu) \ Have
         /\ ToSet(x.matched) = Used(x.menu) \cap Have
    /\ \A x \in ToSet(answer.near) : Cardinality(Used(x.menu) \ Have) = 1
    /\ answer.near # <<>> <=>
         /\ query.only /\ answer.matches = <<>>
         /\ \E m \in Menus : /\ \E i \in Have : <<m, i>> \in since
                             /\ Cardinality(Used(m) \ Have) = 1

\* A shopping list names everything its menus use, each thing once, with all
\* the menus it is for, by category and reading; it is refused only for none
\* or too many menus, or one that does not exist.
ListComplete ==
  query.kind = "list" /\ answer # NoAnswer =>
    IF ToSet(query.ids) \subseteq Menus /\ Cardinality(ToSet(query.ids)) \in 1..MaxListMenus
    THEN /\ answer.status = "ok"
         /\ UNION {x.usedIn \X {x.ingredient} : x \in ToSet(answer.items)}
              = {p \in answer.seen : p[1] \in ToSet(query.ids)}
         /\ \A j, k \in DOMAIN answer.items : j < k =>
              LET a == answer.items[j].ingredient
                  b == answer.items[k].ingredient
              IN  /\ a # b
                  /\ \/ Category[a] < Category[b]
                     \/ (Category[a] = Category[b] /\ Kana[a] <= Kana[b])
    ELSE answer.status # "ok"
=============================================================================
