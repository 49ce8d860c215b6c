----------------------------- MODULE MCBilling -----------------------------
(* Small instances of Billing: two subscriptions and two checkouts.          *)
EXTENDS Billing, TLC

\* Subscriptions, and handlers, are interchangeable.
Symmetry == Permutations(StripeSubs) \cup Permutations(Handlers)
=============================================================================
