---------------------------- MODULE HistoryFeed ----------------------------
(***************************************************************************)
(* What the search history promises to a user, without transactions: the   *)
(* rows on show are rows that were recorded; a recording adds its rows at  *)
(* once and may drop, of the same user, only rows with Limit newer         *)
(* recorded ones; everything else that disappears was erased by the user.  *)
(***************************************************************************)
EXTENDS Naturals, FiniteSets

CONSTANTS Users, Limit, MaxBatch

VARIABLES
  shown,      \* the rows a reader sees
  recorded,   \* every row ever recorded
  erased      \* every row erased by its user

feedVars == <<shown, recorded, erased>>

Later(r, s) == r.at > s.at \/ (r.at = s.at /\ r.seq > s.seq)

Of(S, u) == {r \in S : r.user = u}

Init == shown = {} /\ recorded = {} /\ erased = {}

\* Between 1 and MaxBatch new rows of one user become visible together with
\* the disappearance of rows that Limit recorded ones outdate.
Record(u) ==
  /\ recorded \subseteq recorded'
  /\ LET new  == recorded' \ recorded
         gone == shown \ shown'
     IN  /\ Cardinality(new) \in 1..MaxBatch
         /\ new = Of(new, u) /\ gone = Of(gone, u)
         /\ shown' \ shown \subseteq new
         /\ \A r \in gone \cup (new \ shown') :
              Cardinality({s \in Of(recorded', u) : Later(s, r)}) >= Limit
  /\ UNCHANGED erased

\* A user erases some of his rows; other rows stay.
Forget(u) ==
  /\ shown' \subseteq shown
  /\ shown \ shown' = Of(shown \ shown', u)
  /\ erased' = erased \cup (shown \ shown')
  /\ UNCHANGED recorded

Next == \E u \in Users : Record(u) \/ Forget(u)

Spec == Init /\ [][Next]_feedVars
=============================================================================
