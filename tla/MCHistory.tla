----------------------------- MODULE MCHistory -----------------------------
EXTENDS History, TLC

\* Requests and users are interchangeable.
Symmetry == Permutations(Requests) \cup Permutations(Users)
=============================================================================
