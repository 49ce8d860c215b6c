------------------------ MODULE MCIngredientResolve ------------------------
EXTENDS IngredientResolve, TLC

\* Ingredient 1 is not in the master at first; "one" is its name and "ichi" its
\* reading; "alias" is nobody's name.
Names == [i \in Ingredients |-> "one"]
Kanas == [i \in Ingredients |-> "ichi"]

\* Requests and users are interchangeable.
Symmetry == Permutations(Requests) \cup Permutations(UserIds)
=============================================================================
