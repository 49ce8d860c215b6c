------------------------------ MODULE MCAccounts ------------------------------
EXTENDS Accounts, TLC

MCSymmetry == Permutations(Requests) \cup Permutations(Emails) \cup Permutations(Subs)
=============================================================================
