--------------------------- MODULE MCShoppingPage ---------------------------
EXTENDS ShoppingPage, TLC

\* PUTs and requests are interchangeable.
Symmetry == Permutations(Puts) \cup Permutations(Requests)
=============================================================================
