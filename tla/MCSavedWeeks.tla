---------------------------- MODULE MCSavedWeeks ----------------------------
EXTENDS SavedWeeks, TLC

\* Requests, users and fresh ids are interchangeable.
Symmetry == Permutations(Requests) \cup Permutations(Users) \cup Permutations(WeekIds)
=============================================================================
