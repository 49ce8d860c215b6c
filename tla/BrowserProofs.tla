---------------------------- MODULE BrowserProofs ----------------------------
(***************************************************************************)
(* Proofs about what runs in the browser.  First the shopping list         *)
(* overrides and the page that sends them: a stored PUT leaves nothing     *)
(* older beside it, the added items of a list stay within the limit of     *)
(* each PUT it mixes, and the user's clicks arrive as long as each is      *)
(* saved and fetched again before the next.  Then the session of a tab,    *)
(* for any number of users and calls: its three properties need one        *)
(* invariant.  While no refresh has crossed a login or a logout,           *)
(* everything the browser holds or waits for belongs to the user who       *)
(* signed in last, and every call without a session behind it is known to  *)
(* be one.                                                                 *)
(***************************************************************************)
EXTENDS ShoppingPage, Session, FiniteSetTheorems, FunctionTheorems, TLAPS

Types ==
  /\ overlay \subseteq OverrideRow /\ alive \subseteq Weeks
  /\ tx \in [Requests -> Tx]
  /\ issued \subseteq Puts /\ done \subseteq issued
  /\ after \in [Puts -> SUBSET Puts]

\* What holds of one request, its record j: its PUT is not stored yet, its rows
\* are its own, and the rows its DELETE has not seen came after it.
TxOK(j) ==
  /\ j.pc # "idle" => j.put \in issued /\ j.put \notin done /\ j.week \in Weeks
  /\ \A row \in j.own : row.put = j.put /\ row.week = j.week
  /\ \A row \in j.doomed : row.week = j.week
  /\ j.pc \in {"clearing", "inserting"} =>
       \A row \in overlay \ j.doomed : row.week = j.week => row.put \notin after[j.put]

\* No two requests carry the same PUT.
Apart(j, k) == j.pc # "idle" /\ k.pc # "idle" => j.put # k.put

\* The inductive invariant of the transactions.
Inv ==
  /\ Types
  /\ \A row \in overlay : row.put \in done
  /\ \A p \in Puts : after[p] \subseteq done
  /\ NothingOlder
  /\ \A r \in Requests : TxOK(tx[r])
  /\ \A q, r \in Requests : q # r => Apart(tx[q], tx[r])

\* The rows of added items a PUT has in S.
ManualOf(S, p) == {row \in S : row.put = p /\ row.item.manual}

\* A PUT stores at most as many added items as it was checked for: what is yet
\* to be inserted and what is inserted stays within the limit.
BoundOK(j) ==
  /\ IsFiniteSet(j.left) /\ IsFiniteSet(j.own)
  /\ Cardinality(Manual(j.left)) + Cardinality(ManualOf(j.own, j.put)) <= MaxManual

BoundInv ==
  /\ IsFiniteSet(overlay)
  /\ \A r \in Requests : BoundOK(tx[r])
  /\ \A p \in Puts : Cardinality(ManualOf(overlay, p)) <= MaxManual

-----------------------------------------------------------------------------
LEMMA IdleFacts ==
  /\ Idle \in Tx /\ Idle.pc = "idle" /\ Idle.left = {} /\ Idle.own = {} /\ Idle.doomed = {}
BY OverlayAssumption DEF Idle, Tx

LEMMA InitInv == Init => Inv
BY IdleFacts DEF Init, Inv, Types, TxOK, Apart, NothingOlder

\* A step of one request that changes no committed row keeps the invariant when
\* the request's new record does.
LEMMA OneStep ==
  ASSUME Inv, NEW r \in Requests, NEW j \in Tx,
         tx' = [tx EXCEPT ![r] = j], UNCHANGED <<alive, overlay, done, after>>,
         issued \subseteq issued', issued' \subseteq Puts,
         j.pc # "idle" => j.put \in issued' /\ j.put \notin done /\ j.week \in Weeks,
         \A row \in j.own : row.put = j.put /\ row.week = j.week,
         \A row \in j.doomed : row.week = j.week,
         j.pc \in {"clearing", "inserting"} =>
           \A row \in overlay \ j.doomed : row.week = j.week => row.put \notin after[j.put],
         \A q \in Requests \ {r} : Apart(tx[q], j) /\ Apart(j, tx[q])
  PROVE  Inv'
<1>1. Types'
  BY DEF Inv, Types
<1>2. \A q \in Requests : tx'[q] = IF q = r THEN j ELSE tx[q]
  BY DEF Inv, Types
<1>3. NothingOlder' /\ (\A row \in overlay : row.put \in done)'
      /\ (\A p \in Puts : after[p] \subseteq done)'
  BY DEF Inv, NothingOlder
<1>4. ASSUME NEW q \in Requests PROVE TxOK(tx[q])'
  <2>1. CASE q = r
    BY <2>1, <1>2 DEF TxOK
  <2>2. CASE q # r
    <3>1. TxOK(tx[q])
      BY DEF Inv
    <3>2. QED BY <2>2, <1>2, <3>1 DEF TxOK
  <2>3. QED BY <2>1, <2>2
<1>5. ASSUME NEW p \in Requests, NEW q \in Requests, p # q PROVE Apart(tx[p], tx[q])'
  <2>1. Apart(tx[p], tx[q])
    BY <1>5 DEF Inv
  <2>2. QED BY <2>1, <1>2, <1>5 DEF Apart
<1>6. QED BY <1>1, <1>3, <1>4, <1>5 DEF Inv

\* A step that only takes committed rows away, or hands PUTs out.
LEMMA QuietStep ==
  ASSUME Inv, overlay' \subseteq overlay, alive' \subseteq alive,
         UNCHANGED <<tx, done, after>>, issued \subseteq issued', issued' \subseteq Puts
  PROVE  Inv'
<1>1. Types'
  BY DEF Inv, Types
<1>2. NothingOlder' /\ (\A row \in overlay : row.put \in done)'
      /\ (\A p \in Puts : after[p] \subseteq done)'
  BY DEF Inv, NothingOlder
<1>3. ASSUME NEW q \in Requests PROVE TxOK(tx[q])'
  <2>1. TxOK(tx[q])
    BY DEF Inv
  <2>2. QED BY <2>1 DEF TxOK
<1>4. QED BY <1>1, <1>2, <1>3 DEF Inv, Apart

LEMMA FindStep ==
  ASSUME Inv, NEW r \in Requests, NEW w \in Weeks, NEW p \in Puts,
         NEW items \in SUBSET Item, Find(r, w, p, items)
  PROVE  Inv'
<1> DEFINE j == [Idle EXCEPT !.pc = "found", !.week = w, !.put = p, !.left = items]
<1>1. /\ j \in Tx /\ j.pc = "found" /\ j.week = w /\ j.put = p
      /\ j.own = {} /\ j.doomed = {}
  BY DEF Idle, Tx
<1>2. /\ tx' = [tx EXCEPT ![r] = j] /\ UNCHANGED <<alive, overlay, done, after>>
      /\ issued' = issued \cup {p} /\ p \notin issued
  BY DEF Find
<1> HIDE DEF j
<1>3. issued' \subseteq Puts /\ p \notin done
  BY <1>2 DEF Inv, Types
<1>4. ASSUME NEW q \in Requests PROVE Apart(tx[q], j) /\ Apart(j, tx[q])
  <2>1. TxOK(tx[q])
    BY DEF Inv
  <2>2. QED BY <2>1, <1>1, <1>2 DEF TxOK, Apart
<1>5. QED BY <1>1, <1>2, <1>3, <1>4, OneStep

\* The DELETE's snapshot: every row of the week is seen, so none is newer.
LEMMA ClearStep ==
  ASSUME Inv, NEW r \in Requests, Clear(r)
  PROVE  Inv'
<1> DEFINE j == [tx[r] EXCEPT !.pc = "clearing", !.doomed = Rows(overlay, tx[r].week)]
           p == tx[r].put
           w == tx[r].week
<1>1. /\ tx[r] \in Tx /\ TxOK(tx[r]) /\ tx[r].pc = "found"
      /\ p \in Puts /\ p \in issued /\ p \notin done /\ w \in Weeks
  BY DEF Inv, Types, Clear, TxOK
<1>2. Rows(overlay, w) \subseteq OverrideRow
  BY DEF Inv, Types, Rows
<1>3. /\ j \in Tx /\ j.pc = "clearing" /\ j.put = p /\ j.week = w
      /\ j.own = tx[r].own /\ j.doomed = Rows(overlay, w)
  BY <1>1, <1>2 DEF Tx
<1>4. /\ tx' = [tx EXCEPT ![r] = j] /\ UNCHANGED <<alive, overlay, issued, done>>
      /\ after' = [after EXCEPT ![p] = done]
  BY DEF Clear
<1> HIDE DEF j, p, w
<1>5. \A q \in Requests : tx'[q] = IF q = r THEN j ELSE tx[q]
  BY <1>4 DEF Inv, Types
<1>6. \A q \in Puts : after'[q] = IF q = p THEN done ELSE after[q]
  BY <1>4 DEF Inv, Types
<1>7. done \subseteq Puts
  BY DEF Inv, Types
<1>8. Types'
  BY <1>3, <1>4, <1>7 DEF Inv, Types
<1>9. NothingOlder'
  <2>1. \A row \in overlay : row.put \in Puts /\ row.put # p
    BY <1>1, <1>7 DEF Inv
  <2>2. QED BY <2>1, <1>4, <1>6 DEF Inv, NothingOlder
<1>10. (\A row \in overlay : row.put \in done)' /\ (\A q \in Puts : after[q] \subseteq done)'
  BY <1>4, <1>6 DEF Inv
<1>11. ASSUME NEW q \in Requests PROVE TxOK(tx[q])'
  <2>1. CASE q = r
    BY <2>1, <1>1, <1>3, <1>4, <1>5 DEF TxOK, Rows, p, w
  <2>2. CASE q # r
    <3>1. TxOK(tx[q]) /\ Apart(tx[q], tx[r]) /\ tx[q] \in Tx
      BY <2>2 DEF Inv, Types
    <3>2. tx[q].pc # "idle" => tx[q].put \in Puts /\ tx[q].put # p
      BY <3>1, <1>1 DEF TxOK, Apart, Inv, Types, p
    <3>3. QED BY <2>2, <3>1, <3>2, <1>4, <1>5, <1>6 DEF TxOK
  <2>3. QED BY <2>1, <2>2
<1>12. ASSUME NEW q \in Requests, NEW s \in Requests, q # s PROVE Apart(tx[q], tx[s])'
  <2>1. Apart(tx[q], tx[s])
    BY <1>12 DEF Inv
  <2>2. QED BY <2>1, <1>1, <1>3, <1>5, <1>12 DEF Apart, p
<1>13. QED BY <1>8, <1>9, <1>10, <1>11, <1>12 DEF Inv

LEMMA ClearDoneStep ==
  ASSUME Inv, NEW r \in Requests, ClearDone(r)
  PROVE  Inv'
<1> DEFINE j == [tx[r] EXCEPT !.pc = "inserting"]
<1>1. tx[r] \in Tx /\ TxOK(tx[r]) /\ tx[r].pc = "clearing"
  BY DEF Inv, Types, ClearDone
<1>2. /\ j \in Tx /\ j.pc = "inserting" /\ j.put = tx[r].put /\ j.week = tx[r].week
      /\ j.own = tx[r].own /\ j.doomed = tx[r].doomed
  BY <1>1 DEF Tx
<1>3. tx' = [tx EXCEPT ![r] = j] /\ UNCHANGED <<alive, overlay, issued, done, after>>
  BY DEF ClearDone, history
<1> HIDE DEF j
<1>4. ASSUME NEW q \in Requests \ {r} PROVE Apart(tx[q], j) /\ Apart(j, tx[q])
  <2>1. Apart(tx[q], tx[r]) /\ Apart(tx[r], tx[q])
    BY DEF Inv
  <2>2. QED BY <2>1, <1>1, <1>2 DEF Apart
<1>5. issued' \subseteq Puts
  BY <1>3 DEF Inv, Types
<1>6. QED BY <1>1, <1>2, <1>3, <1>4, <1>5, OneStep DEF TxOK

LEMMA InsertStep ==
  ASSUME Inv, NEW r \in Requests, NEW i \in Item, Insert(r, i)
  PROVE  Inv'
<1> DEFINE new == [week |-> tx[r].week, put |-> tx[r].put, item |-> i]
           own == tx[r].own \cup {new}
           j == [tx[r] EXCEPT !.left = tx[r].left \ {i}, !.own = own]
<1>1. /\ tx[r] \in Tx /\ TxOK(tx[r]) /\ tx[r].pc = "inserting"
      /\ tx[r].put \in Puts /\ tx[r].week \in Weeks
  BY DEF Inv, Types, Insert, TxOK
<1>2. new \in OverrideRow /\ new.put = tx[r].put /\ new.week = tx[r].week
  BY <1>1 DEF OverrideRow
<1>3. tx' = [tx EXCEPT ![r] = j] /\ UNCHANGED <<alive, overlay, issued, done, after>>
  BY DEF Insert, history
<1> HIDE DEF new
<1>4. own \subseteq OverrideRow /\ \A row \in own : row.put = tx[r].put /\ row.week = tx[r].week
  BY <1>1, <1>2 DEF Tx, TxOK
<1> HIDE DEF own
<1>5. /\ j \in Tx /\ j.pc = "inserting" /\ j.put = tx[r].put /\ j.week = tx[r].week
      /\ j.own = own /\ j.doomed = tx[r].doomed
  BY <1>1, <1>4 DEF Tx
<1> HIDE DEF j
<1>6. ASSUME NEW q \in Requests \ {r} PROVE Apart(tx[q], j) /\ Apart(j, tx[q])
  <2>1. Apart(tx[q], tx[r]) /\ Apart(tx[r], tx[q])
    BY DEF Inv
  <2>2. QED BY <2>1, <1>1, <1>5 DEF Apart
<1>7. issued' \subseteq Puts
  BY <1>3 DEF Inv, Types
<1>8. QED BY <1>1, <1>3, <1>4, <1>5, <1>6, <1>7, OneStep DEF TxOK

\* A PUT is stored: the rows its DELETE had not seen came after it, and it
\* comes after whatever is now beside it.
LEMMA CommitStep ==
  ASSUME Inv, NEW r \in Requests, Commit(r)
  PROVE  Inv'
<1> DEFINE p == tx[r].put
<1>1. /\ tx[r] \in Tx /\ TxOK(tx[r]) /\ tx[r].pc = "inserting"
      /\ p \in Puts /\ p \in issued /\ p \notin done
  BY DEF Inv, Types, Commit, TxOK
<1>2. /\ overlay' = (overlay \ tx[r].doomed) \cup tx[r].own /\ done' = done \cup {p}
      /\ tx' = [tx EXCEPT ![r] = Idle] /\ UNCHANGED <<alive, issued, after>>
  BY DEF Commit
<1>3. \A q \in Requests : tx'[q] = IF q = r THEN Idle ELSE tx[q]
  BY <1>2 DEF Inv, Types
<1>4. tx[r].own \subseteq OverrideRow /\ \A row \in tx[r].own : row.put = p /\ row.week = tx[r].week
  BY <1>1 DEF Tx, TxOK
<1>5. \A row \in overlay \ tx[r].doomed : row.week = tx[r].week => row.put \notin after[p]
  BY <1>1 DEF TxOK
<1>6. \A q \in Puts : p \notin after[q]
  BY <1>1 DEF Inv
<1> HIDE DEF p
<1>7. Types'
  BY <1>1, <1>2, <1>4, IdleFacts DEF Inv, Types
<1>8. NothingOlder'
  <2> SUFFICES ASSUME NEW x \in overlay', NEW y \in overlay', x.week = y.week
      PROVE  x.put \notin after[y.put]
    BY <1>2 DEF NothingOlder
  <2>1. CASE x \in tx[r].own
    <3>1. y.put \in Puts
      BY <1>1, <1>2, <1>4 DEF Inv, Types
    <3>2. QED BY <2>1, <3>1, <1>4, <1>6
  <2>2. CASE x \in overlay \ tx[r].doomed /\ y \in tx[r].own
    BY <2>2, <1>4, <1>5
  <2>3. CASE x \in overlay /\ y \in overlay
    BY <2>3 DEF Inv, NothingOlder
  <2>4. QED BY <2>1, <2>2, <2>3, <1>2
<1>9. (\A row \in overlay : row.put \in done)' /\ (\A q \in Puts : after[q] \subseteq done)'
  BY <1>2, <1>4 DEF Inv
<1>10. ASSUME NEW q \in Requests PROVE TxOK(tx[q])'
  <2>1. CASE q = r
    BY <2>1, <1>3, IdleFacts DEF TxOK
  <2>2. CASE q # r
    <3>1. TxOK(tx[q]) /\ Apart(tx[q], tx[r]) /\ tx[q] \in Tx
      BY <2>2 DEF Inv, Types
    <3>2. tx[q].pc # "idle" => tx[q].put \in Puts /\ tx[q].put # p
      BY <3>1, <1>1 DEF TxOK, Apart, Inv, Types, p
    <3>3. tx[q].pc # "idle" => p \notin after[tx[q].put]
      BY <3>2, <1>6
    <3>4. ASSUME tx[q].pc \in {"clearing", "inserting"}, NEW row \in overlay' \ tx[q].doomed,
                 row.week = tx[q].week
          PROVE  row.put \notin after[tx[q].put]
      <4>1. CASE row \in overlay
        BY <3>1, <3>4, <4>1 DEF TxOK
      <4>2. CASE row \in tx[r].own
        BY <3>3, <3>4, <4>2, <1>4
      <4>3. QED BY <4>1, <4>2, <1>2
    <3>5. QED BY <2>2, <3>1, <3>2, <3>4, <1>2, <1>3 DEF TxOK
  <2>3. QED BY <2>1, <2>2
<1>11. ASSUME NEW q \in Requests, NEW s \in Requests, q # s PROVE Apart(tx[q], tx[s])'
  <2>1. Apart(tx[q], tx[s])
    BY <1>11 DEF Inv
  <2>2. QED BY <2>1, <1>3, IdleFacts DEF Apart
<1>12. QED BY <1>7, <1>8, <1>9, <1>10, <1>11 DEF Inv

LEMMA RollbackStep ==
  ASSUME Inv, NEW r \in Requests, Rollback(r)
  PROVE  Inv'
<1>1. tx' = [tx EXCEPT ![r] = Idle] /\ UNCHANGED <<alive, overlay, issued, done, after>>
  BY DEF Rollback, history
<1>2. issued' \subseteq Puts
  BY <1>1 DEF Inv, Types
<1>3. \A q \in Requests : Apart(tx[q], Idle) /\ Apart(Idle, tx[q])
  BY IdleFacts DEF Apart
<1>4. QED BY <1>1, <1>2, <1>3, IdleFacts, OneStep

LEMMA StatementStep ==
  ASSUME Inv, NEW r \in Requests, Statement(r)
  PROVE  Inv'
BY ClearStep, ClearDoneStep, InsertStep, CommitStep, RollbackStep DEF Statement

LEMMA DeleteWeekStep ==
  ASSUME Inv, NEW w \in Weeks, DeleteWeek(w)
  PROVE  Inv'
<1>1. overlay' \subseteq overlay /\ alive' \subseteq alive /\ UNCHANGED <<tx, issued, done, after>>
  BY DEF DeleteWeek, history
<1>2. issued' \subseteq Puts
  BY <1>1 DEF Inv, Types
<1>3. QED BY <1>1, <1>2, QuietStep

LEMMA StepInv == Inv /\ [Next]_vars => Inv'
<1> SUFFICES ASSUME Inv, [Next]_vars PROVE Inv'
  OBVIOUS
<1>1. CASE UNCHANGED vars
  <2>1. overlay' \subseteq overlay /\ alive' \subseteq alive /\ UNCHANGED <<tx, issued, done, after>>
    BY <1>1 DEF vars
  <2>2. issued' \subseteq Puts
    BY <2>1 DEF Inv, Types
  <2>3. QED BY <2>1, <2>2, QuietStep
<1>2. ASSUME NEW r \in Requests, NEW w \in Weeks, NEW p \in Puts, NEW items \in SUBSET Item,
             Find(r, w, p, items)
      PROVE  Inv'
  BY <1>2, FindStep
<1>3. ASSUME NEW r \in Requests, Statement(r) PROVE Inv'
  BY <1>3, StatementStep
<1>4. ASSUME NEW w \in Weeks, DeleteWeek(w) PROVE Inv'
  BY <1>4, DeleteWeekStep
<1>5. QED BY <1>1, <1>2, <1>3, <1>4 DEF Next

\* In every reachable state of ReplaceOverrides' transactions a request's rows
\* are its own and the stored rows are of PUTs that are done.
THEOREM OverlayInvariant == Spec => []Inv
BY InitInv, StepInv, PTL DEF Spec

-----------------------------------------------------------------------------
\* The page's own types.
PageTypes ==
  /\ shown \in Lists \cup {None} /\ local \in Lists /\ wanted \in Lists
  /\ payload \in [Puts -> [items : SUBSET Item, twice : SUBSET Names]]
  /\ pending \subseteq Puts
  /\ get \in [pc : {"none", "sent", "found", "read", "error"}, items : SUBSET Item]
  /\ spoilt \in BOOLEAN

LEMMA PageConstants ==
  /\ Empty \in Lists /\ NoGet.pc = "none" /\ Sent.pc = "sent"
  /\ NoPayload \in [items : SUBSET Item, twice : SUBSET Names]
  /\ Sent \in [pc : {"none", "sent", "found", "read", "error"}, items : SUBSET Item]
  /\ NoGet \in [pc : {"none", "sent", "found", "read", "error"}, items : SUBSET Item]
BY DEF Empty, Lists, NoPayload, Sent, NoGet

\* What the page sends, and what it shows of an answer.
LEMMA BuildOverlayType ==
  ASSUME NEW l \in Lists
  PROVE  BuildOverlay(l) \in SUBSET Item
<1>1. ASSUME NEW n \in Names, NEW b \in BOOLEAN
      PROVE  /\ [name |-> n, manual |-> FALSE, checked |-> n \in l.checked, hidden |-> n \in l.hidden] \in Item
             /\ [name |-> n, manual |-> TRUE, checked |-> n \in l.checked, hidden |-> FALSE] \in Item
  BY DEF Item
<1>2. l.manual \subseteq Names
  BY DEF Lists
<1>3. QED BY <1>1, <1>2, PageAssumption DEF BuildOverlay

LEMMA ScreenType ==
  ASSUME NEW items \in SUBSET Item
  PROVE  Screen(items) \in Lists
BY PageAssumption DEF Screen, Lists, Item

LEMMA FlipType ==
  ASSUME NEW S \in SUBSET Names, NEW n \in Names
  PROVE  Flip(S, n) \in SUBSET Names
BY DEF Flip

LEMMA PageInitTypes == PageInit => PageTypes
BY PageConstants DEF PageInit, PageTypes

LEMMA ClickTypes ==
  ASSUME PageTypes, NEW p \in Puts, NEW next \in Lists, NEW wish \in Lists, Click(p, next, wish)
  PROVE  PageTypes' /\ UNCHANGED vars
<1> DEFINE m == [items |-> BuildOverlay(next), twice |-> next.twice]
<1>1. m \in [items : SUBSET Item, twice : SUBSET Names]
  BY BuildOverlayType DEF Lists
<1>2. /\ local' = next /\ payload' = [payload EXCEPT ![p] = m] /\ pending' = pending \cup {p}
      /\ spoilt' = (spoilt \/ pending # {} \/ get.pc # "none")
      /\ wanted' \in {Empty, wish} /\ UNCHANGED <<shown, get, vars>>
  BY DEF Click
<1> HIDE DEF m
<1>3. spoilt' \in BOOLEAN
  BY <1>2
<1>4. QED BY <1>1, <1>2, <1>3, PageConstants DEF PageTypes

LEMMA UserTypes ==
  ASSUME PageTypes, NEW p \in Puts, NEW n \in Names,
         Toggle(p, n) \/ AddManual(p, n) \/ RemoveManual(p, n) \/ Hide(p, n)
  PROVE  PageTypes' /\ UNCHANGED vars
<1>1. local \in Lists /\ wanted \in Lists
  BY DEF PageTypes
<1>2. CASE Toggle(p, n)
  <2>1. /\ [local EXCEPT !.checked = Flip(local.checked, n)] \in Lists
        /\ [wanted EXCEPT !.checked = Flip(wanted.checked, n)] \in Lists
    BY <1>1, FlipType DEF Lists
  <2>2. QED BY <1>2, <2>1, ClickTypes DEF Toggle
<1>3. CASE AddManual(p, n)
  <2>1. /\ [local EXCEPT !.manual = local.manual \cup {n},
                         !.twice = IF n \in local.manual THEN local.twice \cup {n}
                                   ELSE local.twice] \in Lists
        /\ [wanted EXCEPT !.manual = wanted.manual \cup ({n} \ Derived)] \in Lists
    BY <1>1 DEF Lists
  <2>2. QED BY <1>3, <2>1, ClickTypes DEF AddManual
<1>4. CASE RemoveManual(p, n)
  <2>1. /\ [local EXCEPT !.manual = local.manual \ {n}, !.twice = local.twice \ {n}] \in Lists
        /\ [wanted EXCEPT !.manual = wanted.manual \ {n},
                          !.checked = wanted.checked \ {n}] \in Lists
    BY <1>1 DEF Lists
  <2>2. QED BY <1>4, <2>1, ClickTypes DEF RemoveManual
<1>5. CASE Hide(p, n)
  <2>1. /\ [local EXCEPT !.hidden = local.hidden \cup {n}] \in Lists
        /\ [wanted EXCEPT !.hidden = wanted.hidden \cup {n}] \in Lists
    BY <1>1 DEF Lists
  <2>2. QED BY <1>5, <2>1, ClickTypes DEF Hide
<1>6. QED BY <1>2, <1>3, <1>4, <1>5

LEMMA AnswerTypes ==
  ASSUME PageTypes, overlay \subseteq OverrideRow,
         GetFind \/ GetOverrides \/ GetAnswered \/ GetFails \/ Revisit
  PROVE  PageTypes' /\ UNCHANGED vars
<1>1. CASE GetFind
  BY <1>1 DEF GetFind, PageTypes
<1>2. CASE GetOverrides
  <2>1. {row.item : row \in Rows(overlay, Week)} \in SUBSET Item
    BY DEF Rows, OverrideRow
  <2>2. QED BY <1>2, <2>1 DEF GetOverrides, PageTypes
<1>3. CASE GetAnswered
  <2>1. Screen(get.items) \in Lists
    BY ScreenType DEF PageTypes
  <2>2. QED BY <1>3, <2>1, PageConstants DEF GetAnswered, PageTypes
<1>4. CASE GetFails
  BY <1>4, PageConstants DEF GetFails, PageTypes
<1>5. CASE Revisit
  <2>1. local' \in Lists
    BY <1>5, PageConstants DEF Revisit, PageTypes
  <2>2. get' \in {get, Sent} /\ UNCHANGED <<shown, payload, pending, wanted, spoilt, vars>>
    BY <1>5 DEF Revisit
  <2>3. QED BY <2>1, <2>2, PageConstants DEF PageTypes
<1>6. QED BY <1>1, <1>2, <1>3, <1>4, <1>5

\* A step of the page with the server is one of the server, or hands out a PUT.
LEMMA PageStep ==
  ASSUME PageTypes, Inv, [PageNext]_<<vars, page>>
  PROVE  /\ PageTypes'
         /\ \/ [Next]_vars
            \/ issued \subseteq issued' /\ issued' \subseteq Puts
               /\ UNCHANGED <<alive, overlay, tx, done, after>>
<1>1. CASE UNCHANGED <<vars, page>>
  BY <1>1 DEF page, PageTypes
<1>2. ASSUME NEW p \in Puts, NEW n \in Names,
             Toggle(p, n) \/ AddManual(p, n) \/ RemoveManual(p, n) \/ Hide(p, n)
      PROVE  PageTypes' /\ UNCHANGED vars
  BY <1>2, UserTypes
<1>3. ASSUME NEW r \in Requests, NEW p \in Puts, Arrive(r, p)
      PROVE  PageTypes' /\ Next
  <2>1. payload[p].items \in SUBSET Item
    BY DEF PageTypes
  <2>2. Next
    BY <1>3, <2>1, PageAssumption DEF Arrive, Next
  <2>3. PageTypes'
    BY <1>3, PageConstants DEF Arrive, PageTypes
  <2>4. QED BY <2>2, <2>3
<1>4. ASSUME NEW r \in Requests, Statement(r) /\ UNCHANGED page
      PROVE  PageTypes' /\ Next
  BY <1>4 DEF page, PageTypes, Next
<1>5. ASSUME NEW p \in Puts, Saved(p)
      PROVE  PageTypes' /\ UNCHANGED vars
  BY <1>5, PageConstants DEF Saved, PageTypes
<1>6. ASSUME NEW p \in Puts, PutFails(p)
      PROVE  PageTypes' /\ issued \subseteq issued' /\ issued' \subseteq Puts
             /\ UNCHANGED <<alive, overlay, tx, done, after>>
  BY <1>6, PageConstants DEF PutFails, PageTypes, Inv, Types
<1>7. CASE GetFind \/ GetOverrides \/ GetAnswered \/ GetFails \/ Revisit
  BY <1>7, AnswerTypes DEF Inv, Types
<1>8. ASSUME NEW w \in Weeks, DeleteWeek(w) /\ UNCHANGED page
      PROVE  PageTypes' /\ Next
  BY <1>8 DEF page, PageTypes, Next
<1>9. QED BY <1>1, <1>2, <1>3, <1>4, <1>5, <1>6, <1>7, <1>8 DEF PageNext

LEMMA PageStepInv == PageTypes /\ Inv /\ [PageNext]_<<vars, page>> => PageTypes' /\ Inv'
BY PageStep, StepInv, QuietStep

\* The same with ShoppingListPage in front of the transactions.
THEOREM PageInvariant == PageSpec => [](PageTypes /\ Inv)
<1>1. PageInit => PageTypes /\ Inv
  BY PageInitTypes, InitInv DEF PageInit
<1>2. QED BY <1>1, PageStepInv, PTL DEF PageSpec

\* The page and the server keep their types, and a request touches rows of its
\* own week only.
THEOREM ShoppingPageTypeOK == PageSpec => []PageTypeOK
<1>1. PageTypes /\ Inv => PageTypeOK
  BY DEF PageTypes, Inv, Types, TxOK, PageTypeOK, TypeOK
<1>2. QED BY <1>1, PageInvariant, PTL

\* Whatever PUTs overlap and whichever fail, nothing that was stored before a
\* PUT began lies beside it in the stored list.
THEOREM OverlayNothingOlder == Spec => []NothingOlder
<1>1. Inv => NothingOlder
  BY DEF Inv
<1>2. QED BY <1>1, OverlayInvariant, PTL

\* The same with the page that sends the PUTs.
THEOREM ShoppingPageNothingOlder == PageSpec => []NothingOlder
<1>1. Inv => NothingOlder
  BY DEF Inv
<1>2. QED BY <1>1, PageInvariant, PTL

-----------------------------------------------------------------------------
\* The members of a set of at most N can be given different numbers up to N.
LEMMA Numbering ==
  ASSUME NEW S, IsFiniteSet(S), NEW N \in Nat, Cardinality(S) <= N
  PROVE  \E f \in [S -> 1..N] : \A x, y \in S : f[x] = f[y] => x = y
<1>1. Cardinality(S) \in Nat /\ ExistsBijection(1..Cardinality(S), S)
  BY FS_CardinalityType
<1>2. ExistsBijection(S, 1..Cardinality(S))
  BY <1>1, Fun_ExistsBijSymmetric
<1>3. PICK f : f \in Bijection(S, 1..Cardinality(S))
  BY <1>2, Fun_ExistsBij
<1>4. f \in [S -> 1..Cardinality(S)] /\ \A x, y \in S : f[x] = f[y] => x = y
  BY <1>3 DEF Bijection, Injection, IsInjective
<1>5. f \in [S -> 1..N]
  BY <1>1, <1>4
<1>6. QED BY <1>4, <1>5

\* A set whose members fall into classes of at most N members each has at most
\* N times as many members as there are classes.
LEMMA ClassBound ==
  ASSUME NEW S, IsFiniteSet(S), NEW P, IsFiniteSet(P), NEW N \in Nat, NEW g \in [S -> P],
         \A p \in P : Cardinality({x \in S : g[x] = p}) <= N
  PROVE  Cardinality(S) <= Cardinality(P) * N
<1> DEFINE F(p) == {x \in S : g[x] = p}
           h == [p \in P |-> CHOOSE f \in [F(p) -> 1..N] : \A x, y \in F(p) : f[x] = f[y] => x = y]
           k == [x \in S |-> <<g[x], h[g[x]][x]>>]
<1>1. ASSUME NEW p \in P
      PROVE  h[p] \in [F(p) -> 1..N] /\ \A x, y \in F(p) : h[p][x] = h[p][y] => x = y
  <2>1. IsFiniteSet(F(p)) /\ Cardinality(F(p)) <= N
    BY FS_Subset
  <2>2. h[p] = CHOOSE f \in [F(p) -> 1..N] : \A x, y \in F(p) : f[x] = f[y] => x = y
    OBVIOUS
  <2> HIDE DEF h, F
  <2>3. \E f \in [F(p) -> 1..N] : \A x, y \in F(p) : f[x] = f[y] => x = y
    BY <2>1, Numbering
  <2>4. QED BY <2>2, <2>3
<1> HIDE DEF h
<1>2. ASSUME NEW x \in S PROVE g[x] \in P /\ h[g[x]][x] \in 1..N /\ x \in F(g[x])
  BY <1>1
<1>3. k \in [S -> P \X (1..N)]
  BY <1>2
<1>4. ASSUME NEW x \in S, NEW y \in S, k[x] = k[y] PROVE x = y
  <2>1. g[x] = g[y] /\ h[g[x]][x] = h[g[y]][y]
    BY <1>4
  <2>2. x \in F(g[x]) /\ y \in F(g[x])
    BY <2>1
  <2>3. QED BY <1>1, <1>2, <2>1, <2>2
<1> HIDE DEF k
<1>5. k \in Injection(S, P \X (1..N))
  BY <1>3, <1>4, Fun_IsInj
<1>6. IsFiniteSet(1..N) /\ Cardinality(1..N) = N
  <2>1. IsFiniteSet(1..N) /\ Cardinality(1..N) = IF 1 > N THEN 0 ELSE N - 1 + 1
    BY FS_Interval
  <2>2. QED BY <2>1
<1>7. IsFiniteSet(P \X (1..N)) /\ Cardinality(P \X (1..N)) = Cardinality(P) * N
  BY <1>6, FS_Product
<1>8. QED BY <1>5, <1>7, FS_Injection

\* The values a function takes on a finite set are finitely many.
LEMMA FiniteRange ==
  ASSUME NEW S, IsFiniteSet(S), NEW g, g = [x \in S |-> g[x]]
  PROVE  IsFiniteSet({g[x] : x \in S})
<1> DEFINE T == {g[x] : x \in S}
<1>1. g \in [S -> T] /\ \A t \in T : \E x \in S : g[x] = t
  OBVIOUS
<1> HIDE DEF T
<1>2. g \in Surjection(S, T)
  BY <1>1, Fun_IsSurj
<1>3. Inverse(g, S, T) \in Injection(T, S)
  BY <1>2, Fun_SurjInverse
<1>4. IsFiniteSet(T)
  BY <1>3, FS_Injection
<1>5. QED BY <1>4 DEF T

\* A valid payload is finite: no name is in it twice.
LEMMA ValidFinite ==
  ASSUME NEW items \in SUBSET Item, Valid(items)
  PROVE  IsFiniteSet(items)
<1> DEFINE f == [i \in items |-> i.name]
<1>1. f \in [items -> Names] /\ \A i, j \in items : f[i] = f[j] => i = j
  BY DEF Item, Valid
<1> HIDE DEF f
<1>2. f \in Injection(items, Names)
  BY <1>1, Fun_IsInj
<1>3. QED BY <1>2, FS_Injection, OverlayAssumption

LEMMA ManualFacts ==
  ASSUME NEW S, IsFiniteSet(S), NEW p
  PROVE  /\ IsFiniteSet(Manual(S)) /\ Cardinality(Manual(S)) \in Nat
         /\ IsFiniteSet(ManualOf(S, p)) /\ Cardinality(ManualOf(S, p)) \in Nat
<1>1. IsFiniteSet(Manual(S)) /\ IsFiniteSet(ManualOf(S, p))
  BY FS_Subset DEF Manual, ManualOf
<1>2. QED BY <1>1, FS_CardinalityType

LEMMA BoundInit == Init => BoundInv
<1> SUFFICES ASSUME Init PROVE BoundInv
  OBVIOUS
<1>1. Manual({}) = {} /\ \A p : ManualOf({}, p) = {}
  BY DEF Manual, ManualOf
<1>2. BoundOK(Idle)
  BY <1>1, IdleFacts, FS_EmptySet, OverlayAssumption DEF BoundOK
<1>3. \A p \in Puts : Cardinality(ManualOf(overlay, p)) <= MaxManual
  BY <1>1, FS_EmptySet, OverlayAssumption DEF Init
<1>4. QED BY <1>2, <1>3, FS_EmptySet DEF Init, BoundInv

\* A step that adds no committed row.
LEMMA BoundOneStep ==
  ASSUME Inv, BoundInv, NEW r \in Requests, NEW j, tx' = [tx EXCEPT ![r] = j],
         overlay' = overlay, BoundOK(j)
  PROVE  BoundInv'
<1>1. \A q \in Requests : tx'[q] = IF q = r THEN j ELSE tx[q]
  BY DEF Inv, Types
<1>2. \A q \in Requests : BoundOK(tx'[q])
  BY <1>1 DEF BoundInv
<1>3. QED BY <1>2 DEF BoundInv, BoundOK

LEMMA BoundQuietStep ==
  ASSUME BoundInv, overlay' \subseteq overlay, tx' = tx
  PROVE  BoundInv'
<1>1. IsFiniteSet(overlay')
  BY FS_Subset DEF BoundInv
<1>2. ASSUME NEW p \in Puts PROVE Cardinality(ManualOf(overlay', p)) <= MaxManual
  <2>1. ManualOf(overlay', p) \subseteq ManualOf(overlay, p)
    BY DEF ManualOf
  <2>2. IsFiniteSet(ManualOf(overlay, p)) /\ Cardinality(ManualOf(overlay, p)) \in Nat
    BY ManualFacts DEF BoundInv
  <2>3. /\ Cardinality(ManualOf(overlay', p)) <= Cardinality(ManualOf(overlay, p))
        /\ Cardinality(ManualOf(overlay', p)) \in Nat
    BY <2>1, <2>2, FS_Subset, FS_CardinalityType
  <2>4. QED BY <2>2, <2>3, OverlayAssumption DEF BoundInv
<1>3. QED BY <1>1, <1>2 DEF BoundInv, BoundOK

\* The payload that is checked is the one that is inserted.
LEMMA BoundFind ==
  ASSUME Inv, BoundInv, NEW r \in Requests, NEW w \in Weeks, NEW p \in Puts,
         NEW items \in SUBSET Item, Find(r, w, p, items)
  PROVE  BoundInv'
<1> DEFINE j == [Idle EXCEPT !.pc = "found", !.week = w, !.put = p, !.left = items]
<1>1. j.left = items /\ j.own = {} /\ j.put = p
  BY DEF Idle
<1>2. tx' = [tx EXCEPT ![r] = j] /\ overlay' = overlay /\ Valid(items)
  BY DEF Find
<1> HIDE DEF j
<1>3. IsFiniteSet(items)
  BY <1>2, ValidFinite
<1>4. ManualOf({}, p) = {}
  BY DEF ManualOf
<1>5. Cardinality(Manual(items)) <= MaxManual /\ Cardinality(Manual(items)) \in Nat
  BY <1>2, <1>3, ManualFacts DEF Valid
<1>6. BoundOK(j)
  BY <1>1, <1>3, <1>4, <1>5, FS_EmptySet DEF BoundOK
<1>7. QED BY <1>2, <1>6, BoundOneStep

\* An item goes from what is left to what is inserted, and counts once.
LEMMA BoundInsert ==
  ASSUME Inv, BoundInv, NEW r \in Requests, NEW i \in Item, Insert(r, i)
  PROVE  BoundInv'
<1> DEFINE p == tx[r].put
           left == tx[r].left
           own == tx[r].own
           new == [week |-> tx[r].week, put |-> p, item |-> i]
           j == [tx[r] EXCEPT !.left = left \ {i}, !.own = own \cup {new}]
<1>1. tx[r] \in Tx /\ i \in left /\ BoundOK(tx[r])
  BY DEF Inv, Types, Insert, BoundInv
<1>2. j.left = left \ {i} /\ j.own = own \cup {new} /\ j.put = p
  BY <1>1 DEF Tx
<1>3. tx' = [tx EXCEPT ![r] = j] /\ overlay' = overlay
  BY DEF Insert
<1>4. new.put = p /\ new.item = i
  OBVIOUS
<1>5. /\ IsFiniteSet(left) /\ IsFiniteSet(own)
      /\ Cardinality(Manual(left)) + Cardinality(ManualOf(own, p)) <= MaxManual
  BY <1>1 DEF BoundOK
<1> HIDE DEF j, new, left, own, p
<1>6. IsFiniteSet(left \ {i}) /\ IsFiniteSet(own \cup {new})
  BY <1>5, FS_RemoveElement, FS_AddElement
<1>7. /\ IsFiniteSet(Manual(left)) /\ Cardinality(Manual(left)) \in Nat
      /\ IsFiniteSet(ManualOf(own, p)) /\ Cardinality(ManualOf(own, p)) \in Nat
  BY <1>5, ManualFacts
<1>8. Cardinality(Manual(left \ {i})) + Cardinality(ManualOf(own \cup {new}, p)) <= MaxManual
  <2>1. CASE i.manual
    <3>1. Manual(left \ {i}) = Manual(left) \ {i} /\ i \in Manual(left)
      BY <1>1, <2>1 DEF Manual
    <3>2. Cardinality(Manual(left \ {i})) = Cardinality(Manual(left)) - 1
      BY <3>1, <1>7, FS_RemoveElement
    <3>3. ManualOf(own \cup {new}, p) = ManualOf(own, p) \cup {new}
      BY <1>4, <2>1 DEF ManualOf
    <3>4. Cardinality(ManualOf(own \cup {new}, p)) \in
            {Cardinality(ManualOf(own, p)), Cardinality(ManualOf(own, p)) + 1}
      BY <3>3, <1>7, FS_AddElement
    <3>5. QED BY <3>2, <3>4, <1>5, <1>7, OverlayAssumption
  <2>2. CASE ~i.manual
    <3>1. Manual(left \ {i}) = Manual(left)
      BY <2>2 DEF Manual
    <3>2. ManualOf(own \cup {new}, p) = ManualOf(own, p)
      BY <1>4, <2>2 DEF ManualOf
    <3>3. QED BY <3>1, <3>2, <1>5
  <2>3. QED BY <2>1, <2>2
<1>9. BoundOK(j)
  BY <1>2, <1>6, <1>8 DEF BoundOK
<1>10. QED BY <1>3, <1>9, BoundOneStep

\* A commit stores the rows of a PUT that had none yet.
LEMMA BoundCommit ==
  ASSUME Inv, BoundInv, NEW r \in Requests, Commit(r)
  PROVE  BoundInv'
<1> DEFINE p == tx[r].put
           own == tx[r].own
<1>1. /\ TxOK(tx[r]) /\ BoundOK(tx[r]) /\ tx[r] \in Tx
      /\ tx[r].pc = "inserting" /\ p \notin done
  BY DEF Inv, Types, Commit, BoundInv, TxOK
<1>2. overlay' = (overlay \ tx[r].doomed) \cup own /\ tx' = [tx EXCEPT ![r] = Idle]
  BY DEF Commit
<1>3. /\ IsFiniteSet(tx[r].left) /\ IsFiniteSet(own) /\ \A row \in own : row.put = p
      /\ Cardinality(Manual(tx[r].left)) + Cardinality(ManualOf(own, p)) <= MaxManual
  BY <1>1 DEF BoundOK, TxOK
<1> HIDE DEF p, own
<1>4. \A row \in overlay : row.put # p
  BY <1>1 DEF Inv
<1>5. IsFiniteSet(overlay')
  <2>1. IsFiniteSet(overlay \ tx[r].doomed)
    BY FS_Subset DEF BoundInv
  <2>2. QED BY <1>2, <1>3, <2>1, FS_Union
<1>6. ASSUME NEW q \in Puts PROVE Cardinality(ManualOf(overlay', q)) <= MaxManual
  <2>1. CASE q = p
    <3>1. ManualOf(overlay', q) = ManualOf(own, p)
      BY <2>1, <1>2, <1>4 DEF ManualOf
    <3>2. Cardinality(Manual(tx[r].left)) \in Nat /\ Cardinality(ManualOf(own, p)) \in Nat
      BY <1>3, ManualFacts
    <3>3. QED BY <3>1, <3>2, <1>3, OverlayAssumption
  <2>2. CASE q # p
    <3>1. ManualOf(overlay', q) \subseteq ManualOf(overlay, q)
      BY <2>2, <1>2, <1>3 DEF ManualOf
    <3>2. IsFiniteSet(ManualOf(overlay, q)) /\ Cardinality(ManualOf(overlay, q)) \in Nat
      BY ManualFacts DEF BoundInv
    <3>3. /\ Cardinality(ManualOf(overlay', q)) <= Cardinality(ManualOf(overlay, q))
          /\ Cardinality(ManualOf(overlay', q)) \in Nat
      BY <3>1, <3>2, FS_Subset, FS_CardinalityType
    <3>4. QED BY <3>2, <3>3, OverlayAssumption DEF BoundInv
  <2>3. QED BY <2>1, <2>2
<1>7. \A q \in Requests : tx'[q] = IF q = r THEN Idle ELSE tx[q]
  BY <1>2 DEF Inv, Types
<1>8. BoundOK(Idle)
  <2>1. Manual({}) = {} /\ \A q : ManualOf({}, q) = {}
    BY DEF Manual, ManualOf
  <2>2. QED BY <2>1, IdleFacts, FS_EmptySet, OverlayAssumption DEF BoundOK
<1>9. \A q \in Requests : BoundOK(tx'[q])
  BY <1>7, <1>8 DEF BoundInv
<1>10. QED BY <1>5, <1>6, <1>9 DEF BoundInv, BoundOK

\* The statements that insert and store nothing.
LEMMA BoundOther ==
  ASSUME Inv, BoundInv, NEW r \in Requests, Clear(r) \/ ClearDone(r) \/ Rollback(r)
  PROVE  BoundInv'
<1>1. tx[r] \in Tx /\ BoundOK(tx[r])
  BY DEF Inv, Types, BoundInv
<1>2. CASE Clear(r)
  <2> DEFINE j == [tx[r] EXCEPT !.pc = "clearing", !.doomed = Rows(overlay, tx[r].week)]
  <2>1. j.left = tx[r].left /\ j.own = tx[r].own /\ j.put = tx[r].put
    BY <1>1 DEF Tx
  <2>2. tx' = [tx EXCEPT ![r] = j] /\ overlay' = overlay
    BY <1>2 DEF Clear
  <2> HIDE DEF j
  <2>3. BoundOK(j)
    BY <1>1, <2>1 DEF BoundOK
  <2>4. QED BY <2>2, <2>3, BoundOneStep
<1>3. CASE ClearDone(r)
  <2> DEFINE j == [tx[r] EXCEPT !.pc = "inserting"]
  <2>1. j.left = tx[r].left /\ j.own = tx[r].own /\ j.put = tx[r].put
    BY <1>1 DEF Tx
  <2>2. tx' = [tx EXCEPT ![r] = j] /\ overlay' = overlay
    BY <1>3 DEF ClearDone
  <2> HIDE DEF j
  <2>3. BoundOK(j)
    BY <1>1, <2>1 DEF BoundOK
  <2>4. QED BY <2>2, <2>3, BoundOneStep
<1>4. CASE Rollback(r)
  <2>1. tx' = [tx EXCEPT ![r] = Idle] /\ overlay' = overlay
    BY <1>4 DEF Rollback
  <2>2. Manual({}) = {} /\ \A q : ManualOf({}, q) = {}
    BY DEF Manual, ManualOf
  <2>3. BoundOK(Idle)
    BY <2>2, IdleFacts, FS_EmptySet, OverlayAssumption DEF BoundOK
  <2>4. QED BY <2>1, <2>3, BoundOneStep
<1>5. QED BY <1>2, <1>3, <1>4

LEMMA BoundStep == Inv /\ BoundInv /\ [Next]_vars => BoundInv'
<1> SUFFICES ASSUME Inv, BoundInv, [Next]_vars PROVE BoundInv'
  OBVIOUS
<1>1. CASE UNCHANGED vars
  BY <1>1, BoundQuietStep DEF vars
<1>2. ASSUME NEW r \in Requests, NEW w \in Weeks, NEW p \in Puts, NEW items \in SUBSET Item,
             Find(r, w, p, items)
      PROVE  BoundInv'
  BY <1>2, BoundFind
<1>3. ASSUME NEW r \in Requests, Statement(r) PROVE BoundInv'
  BY <1>3, BoundInsert, BoundCommit, BoundOther DEF Statement
<1>4. ASSUME NEW w \in Weeks, DeleteWeek(w) PROVE BoundInv'
  BY <1>4, BoundQuietStep DEF DeleteWeek
<1>5. QED BY <1>1, <1>2, <1>3, <1>4 DEF Next

LEMMA BoundHolds == Inv /\ BoundInv => ManualBound
<1> SUFFICES ASSUME Inv, BoundInv, NEW w \in Weeks
    PROVE  LET rows == Rows(overlay, w)
           IN  Cardinality({row \in rows : row.item.manual})
                 <= Cardinality({row.put : row \in rows}) * MaxManual
  BY DEF ManualBound
<1> DEFINE rows == Rows(overlay, w)
           S == {row \in rows : row.item.manual}
           P == {row.put : row \in rows}
           put == [row \in rows |-> row.put]
           g == [row \in S |-> row.put]
<1>1. IsFiniteSet(rows) /\ IsFiniteSet(S)
  BY FS_Subset DEF Rows, BoundInv
<1>2. P = {put[row] : row \in rows} /\ put = [row \in rows |-> put[row]]
  OBVIOUS
<1>3. IsFiniteSet(P)
  <2> HIDE DEF put, P, rows
  <2>1. QED BY <1>1, <1>2, FiniteRange
<1>4. g \in [S -> P]
  OBVIOUS
<1>5. ASSUME NEW p \in P PROVE Cardinality({x \in S : g[x] = p}) <= MaxManual
  <2>1. p \in Puts
    BY DEF Rows, Inv, Types, OverrideRow
  <2>2. {x \in S : g[x] = p} \subseteq ManualOf(overlay, p)
    BY DEF Rows, ManualOf
  <2>3. IsFiniteSet(ManualOf(overlay, p)) /\ Cardinality(ManualOf(overlay, p)) \in Nat
    BY ManualFacts DEF BoundInv
  <2> HIDE DEF g, S
  <2>4. /\ Cardinality({x \in S : g[x] = p}) <= Cardinality(ManualOf(overlay, p))
        /\ Cardinality({x \in S : g[x] = p}) \in Nat
    BY <2>2, <2>3, FS_Subset, FS_CardinalityType
  <2>5. QED BY <2>1, <2>3, <2>4, OverlayAssumption DEF BoundInv
<1> HIDE DEF g, S, P
<1>6. Cardinality(S) <= Cardinality(P) * MaxManual
  BY <1>1, <1>3, <1>4, <1>5, ClassBound, OverlayAssumption
<1>7. QED BY <1>6 DEF S, P

\* The limit of added items holds for each PUT a stored list mixes, for any
\* number of names, weeks and overlapping PUTs.
THEOREM OverlayManualBound == Spec => []ManualBound
<1>1. Spec => []BoundInv
  BY BoundInit, BoundStep, OverlayInvariant, PTL DEF Spec
<1>2. QED BY <1>1, OverlayInvariant, BoundHolds, PTL

\* The same with the page that sends the PUTs.
THEOREM ShoppingPageManualBound == PageSpec => []ManualBound
<1>1. PageInit => BoundInv
  BY BoundInit DEF PageInit
<1>2. PageTypes /\ Inv /\ BoundInv /\ [PageNext]_<<vars, page>> => BoundInv'
  BY PageStep, BoundStep, BoundQuietStep
<1>3. PageSpec => []BoundInv
  BY <1>1, <1>2, PageInvariant, PTL DEF PageSpec
<1>4. QED BY <1>3, PageInvariant, BoundHolds, PTL

-----------------------------------------------------------------------------
(* The user's clicks arrive, as long as each is saved and fetched again    *)
(* before the next.                                                        *)

ItemsOf(S) == {row.item : row \in S}

\* The rows items say what w says, w being ticked, hidden and added names.
Says(items, w) ==
  /\ {i.name : i \in {k \in items : k.checked}} = w.checked
  /\ {i.name : i \in {k \in items : k.hidden}} = w.hidden
  /\ {i.name : i \in Manual(items)} \ Derived = w.manual
  /\ \A i \in items : i.manual => ~i.hidden

Agrees(l, w) ==
  l.checked = w.checked /\ l.hidden = w.hidden /\ l.manual \ Derived = w.manual

\* What the PUT built from l keeps of it.
Sends(l, w) ==
  /\ l.checked \cap (Derived \cup l.manual) = w.checked
  /\ l.hidden \cap Derived = w.hidden /\ l.manual \ Derived = w.manual

Sound(w) ==
  /\ w.hidden \subseteq Derived /\ w.manual \cap Derived = {}
  /\ w.checked \subseteq Derived \cup w.manual

Screened == IF shown = None THEN Empty ELSE shown

\* The page holds what was clicked, or what it last showed; the latter when it
\* was visited anew while the click was on its way.  An item taken from the
\* list keeps its tick until the answer takes it away.
PageSide ==
  /\ Sound(wanted)
  /\ get.pc # "error"
  /\ get.pc # "none" => pending = {}
  /\ get.pc = "none" => shown # None
  /\ \A p, q \in pending : p = q
  /\ \/ Agrees(local, wanted) \/ local = Screened
     \/ shown # None /\ shown.manual # wanted.manual
  /\ pending = {} /\ get.pc = "none" =>
       Agrees(shown, wanted) /\ shown.manual = wanted.manual
  /\ get.pc = "read" => Says(get.items, wanted)

\* The transaction of a PUT on its way: what it has inserted and what it is yet
\* to insert say what was clicked, and it has seen all that was there.
OnItsWay(j) ==
  j.pc # "idle" =>
    /\ j.put \in pending /\ j.week = Week
    /\ Says(j.left \cup ItemsOf(j.own), wanted)
    /\ j.pc # "found" => Rows(overlay, Week) \subseteq j.doomed

ServerSide ==
  /\ \A r \in Requests : OnItsWay(tx[r])
  /\ pending \subseteq done => Says(ItemsOf(Rows(overlay, Week)), wanted)
  /\ \A p \in pending \ issued : Says(payload[p].items, wanted)

KeptInv == ~spoilt /\ Week \in alive => PageSide /\ ServerSide

-----------------------------------------------------------------------------
LEMMA BuildSays ==
  ASSUME NEW l \in Lists, NEW w, Sends(l, w)
  PROVE  Says(BuildOverlay(l), w)
<1> DEFINE mark(n) == [name |-> n, manual |-> FALSE, checked |-> n \in l.checked,
                       hidden |-> n \in l.hidden]
           own(n) == [name |-> n, manual |-> TRUE, checked |-> n \in l.checked,
                      hidden |-> FALSE]
           marks == {mark(n) : n \in Derived \cap (l.checked \cup l.hidden)}
           owns == {own(n) : n \in l.manual}
<1>1. BuildOverlay(l) = marks \cup owns
  BY DEF BuildOverlay
<1>2. \A n : /\ mark(n).name = n /\ ~mark(n).manual
             /\ mark(n).checked <=> n \in l.checked
             /\ mark(n).hidden <=> n \in l.hidden
             /\ own(n).name = n /\ own(n).manual /\ ~own(n).hidden
             /\ own(n).checked <=> n \in l.checked
  OBVIOUS
<1> HIDE DEF mark, own
<1> DEFINE B == marks \cup owns
<1>3. {i.name : i \in {k \in B : k.checked}} = w.checked
  <2>1. \A i \in B : i.checked => i.name \in w.checked
    BY <1>2 DEF Sends
  <2>2. \A n \in w.checked : \E i \in B : i.checked /\ i.name = n
    <3> SUFFICES ASSUME NEW n \in w.checked PROVE \E i \in B : i.checked /\ i.name = n
      OBVIOUS
    <3>1. n \in l.checked /\ (n \in Derived \/ n \in l.manual)
      BY DEF Sends
    <3>2. CASE n \in Derived
      <4>1. mark(n) \in B
        BY <3>1, <3>2
      <4> QED BY <1>2, <3>1, <4>1
    <3>3. CASE n \in l.manual
      <4>1. own(n) \in B
        BY <3>3
      <4> QED BY <1>2, <3>1, <4>1
    <3> QED BY <3>1, <3>2, <3>3
  <2> HIDE DEF B
  <2> QED BY <2>1, <2>2
<1>4. {i.name : i \in {k \in B : k.hidden}} = w.hidden
  <2>1. \A i \in B : i.hidden => i.name \in w.hidden
    BY <1>2 DEF Sends
  <2>2. \A n \in w.hidden : mark(n) \in B /\ mark(n).hidden /\ mark(n).name = n
    BY <1>2 DEF Sends
  <2> HIDE DEF B
  <2> QED BY <2>1, <2>2
<1>5. {i.name : i \in Manual(B)} \ Derived = w.manual
  <2>1. \A i \in B : i.manual => i.name \in l.manual
    BY <1>2
  <2>2. \A n \in l.manual : own(n) \in B /\ own(n).manual /\ own(n).name = n
    BY <1>2
  <2> HIDE DEF B
  <2> QED BY <2>1, <2>2 DEF Manual, Sends
<1>6. \A i \in B : i.manual => ~i.hidden
  BY <1>2
<1> QED BY <1>1, <1>3, <1>4, <1>5, <1>6 DEF Says

LEMMA ScreenAgrees ==
  ASSUME NEW items, NEW w, Says(items, w), Sound(w)
  PROVE  Agrees(Screen(items), w) /\ Screen(items).manual = w.manual
<1>1. {i.name : i \in {j \in items : j.manual /\ ~j.hidden}} \ Derived = w.manual
  <2>1. {j \in items : j.manual /\ ~j.hidden} = Manual(items)
    BY DEF Says, Manual
  <2> QED BY <2>1 DEF Says
<1> DEFINE manual == {i.name : i \in {j \in items : j.manual /\ ~j.hidden}} \ Derived
           checked == {i.name : i \in {j \in items : j.checked}}
           hidden == {i.name : i \in {j \in items : j.hidden}}
<1>2. /\ Screen(items).manual = manual
      /\ Screen(items).checked = checked \cap (Derived \cup manual)
      /\ Screen(items).hidden = hidden \cap Derived
  BY DEF Screen
<1>3. manual = w.manual /\ checked = w.checked /\ hidden = w.hidden
  BY <1>1 DEF Says
<1> HIDE DEF manual, checked, hidden
<1> QED BY <1>2, <1>3 DEF Agrees, Sound

\* Only the requests of a PUT on its way are under way.
LEMMA NoneUnderWay ==
  ASSUME Inv, ServerSide, pending \subseteq done \/ pending \cap issued = {},
         NEW r \in Requests
  PROVE  tx[r].pc = "idle"
BY DEF Inv, Types, TxOK, ServerSide, OnItsWay

\* A step of the server that leaves the page alone.
LEMMA PageSideKept ==
  ASSUME PageSide, UNCHANGED <<shown, local, pending, get, wanted>>
  PROVE  PageSide'
BY DEF PageSide, Screened

\* A click, when the former one has been saved and fetched.
LEMMA ClickKept ==
  ASSUME PageTypes, Inv, PageSide, ServerSide, NEW p \in Puts,
         NEW next \in Lists, NEW wish \in Lists, Click(p, next, wish), ~spoilt',
         Sound(wish), Sends(next, wish),
         Agrees(next, wish) \/ shown.manual # wish.manual
  PROVE  PageSide' /\ ServerSide'
<1>1. /\ shown # None /\ p \notin issued /\ pending = {} /\ get.pc = "none"
      /\ local' = next /\ pending' = {p} /\ wanted' = wish
      /\ payload'[p].items = BuildOverlay(next)
      /\ UNCHANGED <<shown, get, alive, overlay, tx, issued, done, after>>
  BY DEF Click, PageTypes, vars
<1>2. PageSide'
  BY <1>1 DEF PageSide, Screened
<1>3. \A r \in Requests : tx[r].pc = "idle"
  BY <1>1, NoneUnderWay
<1>4. ~(pending' \subseteq done)
  BY <1>1 DEF Inv, Types
<1>5. Says(payload'[p].items, wanted')
  BY <1>1, BuildSays
<1> QED BY <1>1, <1>2, <1>3, <1>4, <1>5 DEF ServerSide, OnItsWay

\* The clicks a user can make.
LEMMA UserKept ==
  ASSUME PageTypes, Inv, PageSide, ServerSide, NEW p \in Puts, NEW n \in Names,
         Toggle(p, n) \/ AddManual(p, n) \/ RemoveManual(p, n) \/ Hide(p, n), ~spoilt'
  PROVE  PageSide' /\ ServerSide'
<1>1. pending = {} /\ get.pc = "none" /\ shown # None
  BY DEF Toggle, AddManual, RemoveManual, Hide, Click
<1>2. Agrees(shown, wanted) /\ Agrees(local, wanted) /\ Sound(wanted)
  BY <1>1 DEF PageSide, Screened, Agrees
<1>3. local \in Lists /\ wanted \in Lists /\ shown \in Lists
  BY <1>1 DEF PageTypes
<1>4. shown.manual = wanted.manual
  BY <1>1 DEF PageSide
<1>5. CASE Toggle(p, n)
  <2> DEFINE next == [local EXCEPT !.checked = Flip(local.checked, n)]
             wish == [wanted EXCEPT !.checked = Flip(wanted.checked, n)]
  <2>1. /\ next.checked = Flip(local.checked, n) /\ next.hidden = local.hidden
        /\ next.manual = local.manual /\ wish.checked = Flip(wanted.checked, n)
        /\ wish.hidden = wanted.hidden /\ wish.manual = wanted.manual
        /\ next \in Lists /\ wish \in Lists
    BY <1>3, FlipType DEF Lists
  <2>2. n \in Derived \cup wanted.manual /\ Click(p, next, wish)
    BY <1>2, <1>5 DEF Toggle, Listed, Agrees
  <2> HIDE DEF next, wish
  <2>3. Sound(wish) /\ Sends(next, wish) /\ Agrees(next, wish)
    BY <1>2, <2>1, <2>2 DEF Sound, Sends, Agrees, Flip
  <2> QED BY <2>1, <2>2, <2>3, ClickKept
<1>6. CASE AddManual(p, n)
  <2> DEFINE next == [local EXCEPT !.manual = local.manual \cup {n},
                        !.twice = IF n \in local.manual THEN local.twice \cup {n}
                                  ELSE local.twice]
             wish == [wanted EXCEPT !.manual = wanted.manual \cup ({n} \ Derived)]
  <2>1. /\ next.checked = local.checked /\ next.hidden = local.hidden
        /\ next.manual = local.manual \cup {n} /\ wish.checked = wanted.checked
        /\ wish.hidden = wanted.hidden /\ wish.manual = wanted.manual \cup ({n} \ Derived)
        /\ next \in Lists /\ wish \in Lists
    BY <1>3 DEF Lists
  <2>2. Click(p, next, wish)
    BY <1>6 DEF AddManual
  <2> HIDE DEF next, wish
  <2>3. Sound(wish) /\ Sends(next, wish) /\ Agrees(next, wish)
    BY <1>2, <2>1 DEF Sound, Sends, Agrees
  <2> QED BY <2>1, <2>2, <2>3, ClickKept
<1>7. CASE RemoveManual(p, n)
  <2> DEFINE next == [local EXCEPT !.manual = local.manual \ {n},
                                   !.twice = local.twice \ {n}]
             wish == [wanted EXCEPT !.manual = wanted.manual \ {n},
                                    !.checked = wanted.checked \ {n}]
  <2>1. /\ next.checked = local.checked /\ next.hidden = local.hidden
        /\ next.manual = local.manual \ {n} /\ wish.checked = wanted.checked \ {n}
        /\ wish.hidden = wanted.hidden /\ wish.manual = wanted.manual \ {n}
        /\ next \in Lists /\ wish \in Lists
    BY <1>3 DEF Lists
  <2>2. n \in shown.manual /\ Click(p, next, wish)
    BY <1>7 DEF RemoveManual
  <2> HIDE DEF next, wish
  <2>3. n \notin Derived
    BY <1>2, <1>4, <2>2 DEF Sound
  <2>4. Sound(wish) /\ Sends(next, wish) /\ shown.manual # wish.manual
    BY <1>2, <1>4, <2>1, <2>2, <2>3 DEF Sound, Sends, Agrees
  <2> QED BY <2>1, <2>2, <2>4, ClickKept
<1>8. CASE Hide(p, n)
  <2> DEFINE next == [local EXCEPT !.hidden = local.hidden \cup {n}]
             wish == [wanted EXCEPT !.hidden = wanted.hidden \cup {n}]
  <2>1. /\ next.checked = local.checked /\ next.hidden = local.hidden \cup {n}
        /\ next.manual = local.manual /\ wish.checked = wanted.checked
        /\ wish.hidden = wanted.hidden \cup {n} /\ wish.manual = wanted.manual
        /\ next \in Lists /\ wish \in Lists
    BY <1>3 DEF Lists
  <2>2. n \in Derived /\ Click(p, next, wish)
    BY <1>8 DEF Hide
  <2> HIDE DEF next, wish
  <2>3. Sound(wish) /\ Sends(next, wish) /\ Agrees(next, wish)
    BY <1>2, <2>1, <2>2 DEF Sound, Sends, Agrees
  <2> QED BY <2>1, <2>2, <2>3, ClickKept
<1> QED BY <1>5, <1>6, <1>7, <1>8

\* A PUT arrives: it is the only one, and it brings what was clicked.
LEMMA ArriveKept ==
  ASSUME PageTypes, Inv, PageSide, ServerSide, NEW r \in Requests, NEW p \in Puts,
         Arrive(r, p)
  PROVE  PageSide' /\ ServerSide'
<1> DEFINE j == [Idle EXCEPT !.pc = "found", !.week = Week, !.put = p,
                             !.left = payload[p].items]
<1>1. /\ p \in pending /\ p \notin issued /\ tx' = [tx EXCEPT ![r] = j]
      /\ issued' = issued \cup {p}
      /\ UNCHANGED <<shown, local, pending, get, wanted, spoilt, overlay, done>>
  BY DEF Arrive, Find
<1>2. j.pc = "found" /\ j.week = Week /\ j.put = p /\ j.left = payload[p].items /\ j.own = {}
  BY DEF Idle
<1> HIDE DEF j
<1>3. pending = {p}
  BY <1>1 DEF PageSide
<1>4. \A q \in Requests : tx[q].pc = "idle"
  BY <1>1, <1>3, NoneUnderWay
<1>5. \A q \in Requests : tx'[q] = IF q = r THEN j ELSE tx[q]
  BY <1>1 DEF Inv, Types
<1>6. Says(j.left \cup ItemsOf(j.own), wanted)
  BY <1>1, <1>2 DEF ServerSide, ItemsOf
<1>7. ~(pending \subseteq done)
  BY <1>1 DEF Inv, Types
<1>8. ASSUME NEW q \in Requests PROVE OnItsWay(tx[q])'
  <2>1. OnItsWay(tx'[q])
    BY <1>1, <1>2, <1>4, <1>5, <1>6 DEF OnItsWay
  <2> QED BY <1>1, <2>1 DEF OnItsWay, Says
<1> QED BY <1>1, <1>3, <1>7, <1>8, PageSideKept DEF ServerSide

\* A statement of a PUT, short of the commit.
LEMMA RequestKept ==
  ASSUME PageTypes, Inv, PageSide, ServerSide, NEW r \in Requests, NEW j,
         tx' = [tx EXCEPT ![r] = j], UNCHANGED <<overlay, issued, done>>, UNCHANGED page,
         OnItsWay(j)
  PROVE  PageSide' /\ ServerSide'
<1>1. UNCHANGED <<shown, local, payload, pending, get, wanted>>
  BY DEF page
<1>2. \A q \in Requests : tx'[q] = IF q = r THEN j ELSE tx[q]
  BY DEF Inv, Types
<1>3. ASSUME NEW q \in Requests PROVE OnItsWay(tx[q])'
  <2>1. OnItsWay(tx'[q])
    BY <1>2 DEF ServerSide
  <2> QED BY <1>1, <2>1 DEF OnItsWay, Says
<1>4. (pending \subseteq done => Says(ItemsOf(Rows(overlay, Week)), wanted))'
  BY <1>1 DEF ServerSide
<1>5. (\A p \in pending \ issued : Says(payload[p].items, wanted))'
  BY <1>1 DEF ServerSide
<1> QED BY <1>1, <1>3, <1>4, <1>5, PageSideKept DEF ServerSide

LEMMA CommitKept ==
  ASSUME PageTypes, Inv, PageSide, ServerSide, NEW r \in Requests, Commit(r),
         UNCHANGED page
  PROVE  PageSide' /\ ServerSide'
<1> DEFINE p == tx[r].put
<1>1. /\ tx[r].pc = "inserting" /\ tx[r].left = {}
      /\ overlay' = (overlay \ tx[r].doomed) \cup tx[r].own
      /\ done' = done \cup {p} /\ tx' = [tx EXCEPT ![r] = Idle] /\ UNCHANGED issued
      /\ UNCHANGED <<shown, local, payload, pending, get, wanted>>
  BY DEF Commit, page
<1>2. p \in pending /\ p \in issued /\ OnItsWay(tx[r]) /\ TxOK(tx[r]) /\ tx[r].week = Week
  BY <1>1 DEF ServerSide, OnItsWay, Inv, TxOK
<1>3. pending = {p}
  BY <1>2 DEF PageSide
<1>4. ASSUME NEW q \in Requests PROVE tx'[q].pc = "idle"
  <2>1. tx'[q] = IF q = r THEN Idle ELSE tx[q]
    BY <1>1 DEF Inv, Types
  <2>2. q # r => Apart(tx[q], tx[r])
    BY DEF Inv
  <2>3. tx[q].pc # "idle" => tx[q].put \in pending
    BY DEF ServerSide, OnItsWay
  <2> QED BY <1>1, <1>3, <2>1, <2>2, <2>3, IdleFacts DEF Apart
<1>5. Rows(overlay', Week) = tx[r].own
  <2>1. Rows(overlay, Week) \subseteq tx[r].doomed
    BY <1>1, <1>2 DEF OnItsWay
  <2>2. \A row \in tx[r].own : row.week = Week
    BY <1>2 DEF TxOK
  <2> QED BY <1>1, <2>1, <2>2 DEF Rows
<1>6. Says(ItemsOf(tx[r].own), wanted)
  <2>1. Says(tx[r].left \cup ItemsOf(tx[r].own), wanted)
    BY <1>1, <1>2 DEF OnItsWay
  <2>2. tx[r].left \cup ItemsOf(tx[r].own) = ItemsOf(tx[r].own)
    BY <1>1
  <2> QED BY <2>1, <2>2
<1> HIDE DEF p
<1>7. (\A q \in Requests : OnItsWay(tx[q]))'
  BY <1>4 DEF OnItsWay
<1>8. (Says(ItemsOf(Rows(overlay, Week)), wanted))'
  <2>1. ItemsOf(Rows(overlay', Week)) = ItemsOf(tx[r].own)
    BY <1>5
  <2>2. Says(ItemsOf(Rows(overlay', Week)), wanted)
    BY <1>6, <2>1
  <2> QED BY <1>1, <2>2
<1>9. pending' \ issued' = {}
  BY <1>1, <1>2, <1>3
<1> QED BY <1>1, <1>7, <1>8, <1>9, PageSideKept DEF ServerSide

LEMMA StatementKept ==
  ASSUME PageTypes, Inv, PageSide, ServerSide, NEW r \in Requests, Statement(r),
         UNCHANGED page
  PROVE  PageSide' /\ ServerSide'
<1> DEFINE t == tx[r]
<1>1. t \in Tx /\ OnItsWay(t)
  BY DEF Inv, Types, ServerSide
<1>2. CASE Clear(r)
  <2> DEFINE j == [t EXCEPT !.pc = "clearing", !.doomed = Rows(overlay, t.week)]
  <2>1. /\ t.pc = "found" /\ tx' = [tx EXCEPT ![r] = j]
        /\ UNCHANGED <<overlay, issued, done>>
    BY <1>2 DEF Clear
  <2>2. /\ j.pc = "clearing" /\ j.put = t.put /\ j.week = t.week /\ j.left = t.left
        /\ j.own = t.own /\ j.doomed = Rows(overlay, t.week)
    BY <1>1 DEF Tx
  <2> HIDE DEF j, t
  <2>3. OnItsWay(j)
    BY <1>1, <2>1, <2>2 DEF OnItsWay
  <2> QED BY <2>1, <2>3, RequestKept
<1>3. CASE ClearDone(r)
  <2> DEFINE j == [t EXCEPT !.pc = "inserting"]
  <2>1. /\ t.pc = "clearing" /\ tx' = [tx EXCEPT ![r] = j]
        /\ UNCHANGED <<overlay, issued, done>>
    BY <1>3 DEF ClearDone, history
  <2>2. /\ j.pc = "inserting" /\ j.put = t.put /\ j.week = t.week /\ j.left = t.left
        /\ j.own = t.own /\ j.doomed = t.doomed
    BY <1>1 DEF Tx
  <2> HIDE DEF j, t
  <2>3. OnItsWay(j)
    BY <1>1, <2>1, <2>2 DEF OnItsWay
  <2> QED BY <2>1, <2>3, RequestKept
<1>4. ASSUME NEW i \in Item, Insert(r, i) PROVE PageSide' /\ ServerSide'
  <2> DEFINE new == [week |-> t.week, put |-> t.put, item |-> i]
             own == t.own \cup {new}
             j == [t EXCEPT !.left = t.left \ {i}, !.own = own]
  <2>1. /\ t.pc = "inserting" /\ i \in t.left /\ tx' = [tx EXCEPT ![r] = j]
        /\ UNCHANGED <<overlay, issued, done>>
    BY <1>4 DEF Insert, history
  <2>2. new.item = i
    OBVIOUS
  <2> HIDE DEF new
  <2>3. ItemsOf(own) = ItemsOf(t.own) \cup {i}
    BY <2>2 DEF ItemsOf
  <2> HIDE DEF own
  <2>4. /\ j.pc = "inserting" /\ j.put = t.put /\ j.week = t.week /\ j.left = t.left \ {i}
        /\ j.own = own /\ j.doomed = t.doomed
    BY <1>1, <2>1 DEF Tx
  <2> HIDE DEF j, t
  <2>5. j.left \cup ItemsOf(j.own) = t.left \cup ItemsOf(t.own)
    BY <2>1, <2>3, <2>4
  <2>6. OnItsWay(j)
    BY <1>1, <2>1, <2>4, <2>5 DEF OnItsWay
  <2> QED BY <2>1, <2>6, RequestKept
<1>5. CASE Rollback(r)
  BY <1>5, IdleFacts, RequestKept DEF Rollback, history, OnItsWay
<1> QED BY <1>2, <1>3, <1>4, <1>5, CommitKept DEF Statement

\* The answer of the PUT: the list is fetched again, and what it will say is
\* stored.
LEMMA SavedKept ==
  ASSUME PageTypes, Inv, PageSide, ServerSide, NEW p \in Puts, Saved(p)
  PROVE  PageSide' /\ ServerSide'
<1>1. /\ p \in pending /\ p \in done /\ pending' = pending \ {p} /\ get' = Sent
      /\ UNCHANGED <<shown, local, payload, wanted, overlay, tx, issued, done>>
  BY DEF Saved, vars
<1>2. pending = {p} /\ pending' = {}
  BY <1>1 DEF PageSide
<1>3. \A r \in Requests : tx[r].pc = "idle"
  BY <1>1, <1>2, NoneUnderWay
<1>4. PageSide'
  BY <1>1, <1>2, PageConstants DEF PageSide, Screened
<1>5. Says(ItemsOf(Rows(overlay, Week)), wanted)
  BY <1>1, <1>2 DEF ServerSide
<1> QED BY <1>1, <1>2, <1>3, <1>4, <1>5 DEF ServerSide, OnItsWay

\* The fetch, its answer, and the page visited anew.
LEMMA AnswerKept ==
  ASSUME PageTypes, Inv, PageSide, ServerSide,
         GetFind \/ GetOverrides \/ GetAnswered \/ Revisit
  PROVE  PageSide' /\ ServerSide'
<1>1. UNCHANGED <<payload, pending, wanted, overlay, tx, issued, done>>
  BY DEF GetFind, GetOverrides, GetAnswered, Revisit, vars
<1>2. ServerSide'
  BY <1>1 DEF ServerSide, OnItsWay
<1>3. CASE GetFind
  <2>1. /\ get.pc = "sent" /\ get'.pc = "found" /\ UNCHANGED <<shown, local>>
    BY <1>3 DEF GetFind, PageTypes
  <2> QED BY <1>1, <1>2, <2>1 DEF PageSide, Screened
<1>4. CASE GetOverrides
  <2>1. /\ get.pc = "found" /\ get'.pc = "read" /\ UNCHANGED <<shown, local>>
        /\ get'.items = ItemsOf(Rows(overlay, Week))
    BY <1>4 DEF GetOverrides, ItemsOf
  <2>2. pending = {}
    BY <2>1 DEF PageSide
  <2>3. Says(get'.items, wanted)
    BY <2>1, <2>2 DEF ServerSide
  <2> QED BY <1>1, <1>2, <2>1, <2>2, <2>3 DEF PageSide, Screened
<1>5. CASE GetAnswered
  <2>1. /\ get.pc = "read" /\ shown' = Screen(get.items) /\ get'.pc = "none"
        /\ local' = IF shown' # shown THEN shown' ELSE local
    BY <1>5, PageConstants DEF GetAnswered
  <2>2. /\ Says(get.items, wanted) /\ Sound(wanted) /\ pending = {}
    BY <2>1 DEF PageSide
  <2>3. shown' \in Lists /\ shown' # None
    BY <2>1, ScreenType, PageAssumption DEF PageTypes
  <2>4. Agrees(shown', wanted) /\ shown'.manual = wanted.manual
    BY <2>1, <2>2, ScreenAgrees
  <2>5. \/ Agrees(local', wanted) \/ local' = shown'
        \/ shown' # None /\ shown'.manual # wanted.manual
    <3>1. CASE shown' # shown
      BY <2>1, <3>1
    <3>2. CASE shown' = shown
      BY <2>1, <2>3, <3>2 DEF PageSide, Screened
    <3> QED BY <3>1, <3>2
  <2> QED BY <1>1, <1>2, <2>1, <2>2, <2>3, <2>4, <2>5 DEF PageSide, Screened
<1>6. CASE Revisit
  <2>1. local' = Screened /\ UNCHANGED <<shown, get>>
    BY <1>6 DEF Revisit, Screened, PageSide
  <2> QED BY <1>1, <1>2, <2>1 DEF PageSide, Screened
<1> QED BY <1>2, <1>3, <1>4, <1>5, <1>6

\* A saved week is deleted: another than that on the page.
LEMMA DeleteKept ==
  ASSUME PageTypes, Inv, PageSide, ServerSide, NEW w \in Weeks, DeleteWeek(w),
         UNCHANGED page, Week \in alive'
  PROVE  PageSide' /\ ServerSide'
<1>1. /\ alive' = alive \ {w} /\ overlay' = overlay \ Rows(overlay, w)
      /\ UNCHANGED <<tx, issued, done>>
      /\ UNCHANGED <<shown, local, payload, pending, get, wanted>>
  BY DEF DeleteWeek, history, page
<1>2. Rows(overlay', Week) = Rows(overlay, Week)
  BY <1>1 DEF Rows
<1>3. (\A r \in Requests : OnItsWay(tx[r]))'
  <2>1. \A r \in Requests : OnItsWay(tx[r])
    BY DEF ServerSide
  <2> QED BY <1>1, <1>2, <2>1 DEF OnItsWay
<1>4. (pending \subseteq done => Says(ItemsOf(Rows(overlay, Week)), wanted))'
  BY <1>1, <1>2 DEF ServerSide
<1>5. (\A p \in pending \ issued : Says(payload[p].items, wanted))'
  BY <1>1 DEF ServerSide
<1> QED BY <1>1, <1>3, <1>4, <1>5, PageSideKept DEF ServerSide

LEMMA KeptStep == PageTypes /\ Inv /\ KeptInv /\ [PageNext]_<<vars, page>> => KeptInv'
<1> SUFFICES ASSUME PageTypes, Inv, KeptInv, [PageNext]_<<vars, page>>,
                    ~spoilt', Week \in alive'
             PROVE  PageSide' /\ ServerSide'
  BY DEF KeptInv
<1>1. CASE UNCHANGED <<vars, page>>
  <2>1. PageSide /\ ServerSide /\ UNCHANGED <<vars, page>>
    BY <1>1 DEF KeptInv, page, vars
  <2> QED BY <2>1 DEF page, vars, PageSide, ServerSide, OnItsWay, Screened
<1>2. ASSUME NEW p \in Puts, NEW n \in Names,
             Toggle(p, n) \/ AddManual(p, n) \/ RemoveManual(p, n) \/ Hide(p, n)
      PROVE  PageSide' /\ ServerSide'
  <2>1. (spoilt => spoilt') /\ UNCHANGED alive
    BY <1>2 DEF Toggle, AddManual, RemoveManual, Hide, Click, vars
  <2>2. PageSide /\ ServerSide
    BY <2>1 DEF KeptInv
  <2> QED BY <1>2, <2>2, UserKept
<1>3. ASSUME NEW r \in Requests, NEW p \in Puts, Arrive(r, p)
      PROVE  PageSide' /\ ServerSide'
  BY <1>3, ArriveKept DEF KeptInv, Arrive, Find
<1>4. ASSUME NEW r \in Requests, Statement(r) /\ UNCHANGED page
      PROVE  PageSide' /\ ServerSide'
  <2>1. UNCHANGED <<alive, spoilt>>
    BY <1>4 DEF Statement, Clear, ClearDone, Insert, Commit, Rollback, page
  <2> QED BY <1>4, <2>1, StatementKept DEF KeptInv
<1>5. ASSUME NEW p \in Puts, Saved(p) PROVE PageSide' /\ ServerSide'
  BY <1>5, SavedKept DEF KeptInv, Saved, vars
<1>6. CASE GetFind \/ GetOverrides \/ GetAnswered \/ Revisit
  <2>1. UNCHANGED <<alive, spoilt>>
    BY <1>6 DEF GetFind, GetOverrides, GetAnswered, Revisit, vars
  <2> QED BY <1>6, <2>1, AnswerKept DEF KeptInv
<1>7. ASSUME NEW w \in Weeks, DeleteWeek(w) /\ UNCHANGED page
      PROVE  PageSide' /\ ServerSide'
  <2>1. alive' \subseteq alive /\ UNCHANGED spoilt
    BY <1>7 DEF DeleteWeek, page
  <2> QED BY <1>7, <2>1, DeleteKept DEF KeptInv
<1>8. ~GetFails /\ \A p \in Puts : ~PutFails(p)
  BY DEF GetFails, PutFails
<1> QED BY <1>1, <1>2, <1>3, <1>4, <1>5, <1>6, <1>7, <1>8 DEF PageNext

\* When all is answered the server holds, and the page shows, what the user's
\* clicks add up to, unless a request failed or a click came before the former
\* one was saved and fetched again.
THEOREM ShoppingPageClicksKept == PageSpec => []ClicksKept
<1>1. PageInit => KeptInv
  <2> SUFFICES ASSUME PageInit PROVE PageSide /\ ServerSide
    BY DEF KeptInv
  <2>1. /\ overlay = {} /\ pending = {} /\ shown = None /\ local = Empty /\ wanted = Empty
        /\ get.pc = "sent" /\ \A r \in Requests : tx[r].pc = "idle"
    BY PageConstants, IdleFacts DEF PageInit, Init
  <2>2. Sound(wanted) /\ Says({}, wanted)
    BY <2>1 DEF Sound, Says, Empty, Manual
  <2>3. ItemsOf(Rows(overlay, Week)) = {}
    BY <2>1 DEF ItemsOf, Rows
  <2> QED BY <2>1, <2>2, <2>3 DEF PageSide, ServerSide, OnItsWay, Screened
<1>2. PageTypes /\ Inv /\ KeptInv => ClicksKept
  <2> SUFFICES ASSUME PageTypes, KeptInv, pending = {}, get.pc = "none", Week \in alive, ~spoilt
               PROVE  /\ Says({row.item : row \in Rows(overlay, Week)}, wanted)
                      /\ Agrees(shown, wanted) /\ shown.manual = wanted.manual
                      /\ Agrees(local, wanted)
    BY DEF ClicksKept, Quiet, Says, Agrees
  <2>1. PageSide /\ ServerSide
    BY DEF KeptInv
  <2> QED BY <2>1 DEF PageSide, ServerSide, ItemsOf, Screened
<1> QED BY <1>1, <1>2, KeptStep, PageInvariant, PTL DEF PageSpec

-----------------------------------------------------------------------------
(* The session of a tab.                                                   *)

\* A call has the fields of NoCall.
CallFields == {"pc", "needs", "as", "retry", "over"}

IsCall(k) ==
  /\ k = [f \in CallFields |-> k[f]]
  /\ k.retry \in BOOLEAN /\ k.over \in BOOLEAN

\* A call that will be, or was, told 401 has lost its session.
CallOK(k) ==
  /\ k.pc \in {"sent", "waiting"} /\ refresh = NoUser => k.over
  /\ k.pc = "sent" /\ k.as = NoUser /\ ~k.retry => k.over
  /\ k.pc = "unauthorized" => k.over

Own == {signedIn, NoUser}

SessionTypes ==
  /\ call = [c \in Calls |-> call[c]]
  /\ \A c \in Calls : IsCall(call[c])
  /\ refreshing.pc # "settled"
  /\ entry.kind = "login" => entry.user \in Users
  /\ crossed \in BOOLEAN /\ late \in BOOLEAN

Uncrossed ==
  /\ entry.kind = "none" \/ refreshing.pc # "sent"
  /\ access \in Own /\ refresh \in Own
  /\ refreshing.pc = "sent" =>
       refreshing.as \in Own /\ (refreshing.as = NoUser => refresh = NoUser)
  /\ \A c \in Calls : CallOK(call[c])

Punctual ==
  /\ stored \in Own
  /\ \A c \in Calls : call[c].pc # "idle" => call[c].as \in Own

SessionInv ==
  /\ SessionTypes
  /\ ~crossed => Uncrossed
  /\ ~crossed /\ ~late => Punctual

LEMMA NoCallOK == IsCall(NoCall) /\ CallOK(NoCall) /\ NoCall.pc = "idle"
BY DEF IsCall, CallFields, CallOK, NoCall

\* A step that changes one call alone, and leaves it in order.
LEMMA OneCall ==
  ASSUME SessionInv, NEW c \in Calls, NEW k, IsCall(k),
         ~crossed => CallOK(k),
         ~crossed /\ ~late /\ k.pc # "idle" => k.as \in Own,
         call' = [call EXCEPT ![c] = k],
         UNCHANGED <<access, refresh, refreshing, entry, signedIn, crossed, late>>,
         ~crossed /\ ~late => stored' \in Own
  PROVE  SessionInv'
<1>1. \A d \in Calls : call'[d] = IF d = c THEN k ELSE call[d]
  BY DEF SessionInv, SessionTypes
<1>2. call' = [d \in Calls |-> call'[d]]
  BY DEF SessionInv, SessionTypes
<1>3. SessionTypes'
  BY <1>1, <1>2 DEF SessionInv, SessionTypes, IsCall
<1>4. ~crossed' => Uncrossed'
  BY <1>1 DEF SessionInv, Uncrossed, CallOK, Own
<1>5. ~crossed' /\ ~late' => Punctual'
  BY <1>1 DEF SessionInv, Punctual, Own
<1> QED BY <1>3, <1>4, <1>5 DEF SessionInv

LEMMA CallStep ==
  ASSUME SessionInv, NEW c \in Calls,
         Send(c, "required") \/ Send(c, "optional") \/ Served(c) \/ End(c)
  PROVE  SessionInv'
<1>1. /\ IsCall(call[c]) /\ crossed \in BOOLEAN /\ late \in BOOLEAN
      /\ ~crossed => CallOK(call[c]) /\ access \in Own
      /\ ~crossed /\ ~late => stored \in Own /\ (call[c].pc # "idle" => call[c].as \in Own)
  BY DEF SessionInv, SessionTypes, Uncrossed, Punctual
<1>2. ASSUME NEW needs, Send(c, needs) PROVE SessionInv'
  <2> DEFINE k == [NoCall EXCEPT !.pc = "sent", !.needs = needs,
                                 !.as = access, !.over = refresh = NoUser]
  <2>1. IsCall(k) /\ CallOK(k) /\ k.as = access
    BY DEF NoCall, IsCall, CallFields, CallOK
  <2> HIDE DEF k
  <2> QED BY <1>1, <1>2, <2>1, OneCall DEF Send, k
<1>3. CASE Served(c)
  <2> DEFINE pc == IF call[c].as = NoUser THEN "anonymous" ELSE "served"
             k == [call[c] EXCEPT !.pc = pc]
  <2>1. pc \in {"anonymous", "served"}
    OBVIOUS
  <2>2. call' = [call EXCEPT ![c] = k] /\ call[c].pc = "sent"
    BY <1>3 DEF Served
  <2> HIDE DEF pc
  <2>3. IsCall(k) /\ CallOK(k) /\ k.as = call[c].as
    BY <1>1, <2>1 DEF IsCall, CallFields, CallOK
  <2> HIDE DEF k
  <2> QED BY <1>1, <1>3, <2>2, <2>3, OneCall DEF Served
<1>4. CASE End(c)
  <2>1. stored' \in {stored, call[c].as} /\ call[c].pc # "idle"
    BY <1>4 DEF End
  <2> QED BY <1>1, <1>4, <2>1, NoCallOK, OneCall DEF End
<1> QED BY <1>2, <1>3, <1>4

\* A call that is told 401 by no refresh has lost its session; one that starts
\* a refresh sends the cookie of the user signed in.
LEMMA UnauthorizedStep ==
  ASSUME SessionInv, NEW c \in Calls, Unauthorized(c)
  PROVE  SessionInv'
<1>1. /\ IsCall(call[c]) /\ crossed \in BOOLEAN /\ late \in BOOLEAN
      /\ ~crossed => CallOK(call[c])
      /\ ~crossed /\ ~late => stored \in Own /\ (call[c].pc # "idle" => call[c].as \in Own)
      /\ call[c].pc = "sent" /\ call[c].as = NoUser /\ refreshing.pc # "settled"
  BY DEF SessionInv, SessionTypes, Uncrossed, Punctual, Unauthorized
<1>2. CASE ~call[c].retry
  <2> DEFINE k == [call[c] EXCEPT !.pc = "unauthorized"]
  <2>1. IsCall(k) /\ (~crossed => CallOK(k)) /\ k.as = call[c].as
    BY <1>1, <1>2 DEF IsCall, CallFields, CallOK
  <2>2. call' = [call EXCEPT ![c] = k] /\ UNCHANGED <<refreshing, crossed>>
    BY <1>2 DEF Unauthorized
  <2> HIDE DEF k
  <2> QED BY <1>1, <2>1, <2>2, OneCall DEF Unauthorized
<1>3. CASE call[c].retry
  <2> DEFINE k == [call[c] EXCEPT !.pc = "waiting"]
  <2>1. IsCall(k) /\ (~crossed => CallOK(k)) /\ k.as = call[c].as /\ k.pc = "waiting"
    BY <1>1 DEF IsCall, CallFields, CallOK
  <2>2. /\ call' = [call EXCEPT ![c] = k]
        /\ refreshing' = IF refreshing.pc = "none"
                         THEN [pc |-> "sent", as |-> refresh] ELSE refreshing
        /\ crossed' = (crossed \/ entry.kind # "none")
        /\ UNCHANGED <<access, refresh, entry, stored, signedIn, late>>
    BY <1>1, <1>3 DEF Unauthorized
  <2> HIDE DEF k
  <2>3. \A d \in Calls : call'[d] = IF d = c THEN k ELSE call[d]
    BY <2>2 DEF SessionInv, SessionTypes
  <2>4. SessionTypes'
    BY <2>1, <2>2, <2>3 DEF SessionInv, SessionTypes, IsCall
  <2>5. ASSUME ~crossed' PROVE Uncrossed'
    <3>1. ~crossed /\ entry'.kind = "none" /\ Uncrossed
      BY <2>2, <2>5 DEF SessionInv
    <3>2. /\ access' \in Own' /\ refresh' \in Own'
          /\ \A d \in Calls : CallOK(call[d])'
      BY <2>1, <2>2, <2>3, <3>1 DEF Uncrossed, CallOK, Own
    <3>3. refreshing'.pc = "sent" =>
            refreshing'.as \in Own' /\ (refreshing'.as = NoUser => refresh' = NoUser)
      BY <2>2, <3>1 DEF Uncrossed, Own
    <3> QED BY <3>1, <3>2, <3>3 DEF Uncrossed
  <2>6. ~crossed' /\ ~late' => Punctual'
    BY <1>1, <2>1, <2>2, <2>3 DEF SessionInv, Punctual, Own
  <2> QED BY <2>4, <2>5, <2>6 DEF SessionInv
<1> QED BY <1>1, <1>2, <1>3 DEF IsCall

\* The answer of a refresh.
LEMMA RefreshStep ==
  ASSUME SessionInv, Refreshed \/ RefreshFails
  PROVE  SessionInv'
<1>1. /\ refreshing.pc = "sent" /\ refreshing' = NoRefresh
      /\ access' \in {access, refreshing.as}
      /\ UNCHANGED <<refresh, entry, stored, signedIn, crossed, late>>
  BY DEF Refreshed, RefreshFails
<1>2. ASSUME NEW c \in Calls
      PROVE  /\ IsCall(call'[c])
             /\ ~crossed => CallOK(call[c])'
             /\ \/ call'[c] = call[c]
                \/ call[c].pc = "waiting" /\ call'[c].as \in {call[c].as, refreshing.as}
  <2>1. IsCall(call[c])
    BY DEF SessionInv, SessionTypes
  <2>2. ~crossed => CallOK(call[c]) /\ (refreshing.as = NoUser => refresh = NoUser)
    BY <1>1 DEF SessionInv, Uncrossed
  <2>3. CASE call[c].pc # "waiting"
    <3>1. call'[c] = call[c]
      BY <2>3 DEF Refreshed, RefreshFails, Wake
    <3> QED BY <1>1, <2>1, <2>2, <3>1 DEF CallOK
  <2>4. CASE call[c].pc = "waiting" /\ Refreshed
    <3> DEFINE k == Resend(call[c], refreshing.as)
    <3>1. call'[c] = k /\ refreshing.as # NoUser
      BY <2>4 DEF Refreshed, Wake
    <3>2. /\ IsCall(k) /\ k.pc = "sent" /\ k.as = refreshing.as /\ k.over = call[c].over
      BY <2>1 DEF IsCall, CallFields, Resend
    <3> HIDE DEF k
    <3> QED BY <1>1, <2>2, <2>4, <3>1, <3>2 DEF CallOK
  <2>5. CASE call[c].pc = "waiting" /\ RefreshFails
    <3> DEFINE k == GiveUp(call[c])
    <3>1. call'[c] = k
      BY <2>5 DEF RefreshFails, Wake
    <3>2. /\ IsCall(k) /\ k.pc = "unauthorized" /\ k.as = call[c].as
          /\ k.over = (call[c].over \/ refreshing.as # NoUser)
      BY <2>1 DEF IsCall, CallFields, GiveUp
    <3> HIDE DEF k
    <3> QED BY <1>1, <2>2, <2>5, <3>1, <3>2 DEF CallOK
  <2> QED BY <2>3, <2>4, <2>5
<1>3. call' = [c \in Calls |-> call'[c]]
  BY DEF Refreshed, RefreshFails, Wake
<1>4. SessionTypes'
  BY <1>1, <1>2, <1>3 DEF SessionInv, SessionTypes, NoRefresh, IsCall
<1>5. ~crossed' => Uncrossed'
  BY <1>1, <1>2 DEF SessionInv, Uncrossed, NoRefresh, Own
<1>6. ASSUME ~crossed', ~late' PROVE Punctual'
  <2>1. Punctual /\ refreshing.as \in Own
    BY <1>1, <1>6 DEF SessionInv, Uncrossed
  <2>2. \A c \in Calls : call'[c].pc # "idle" => call'[c].as \in Own
    BY <1>2, <2>1 DEF Punctual
  <2> QED BY <1>1, <2>1, <2>2 DEF Punctual, Own
<1> QED BY <1>4, <1>5, <1>6 DEF SessionInv

LEMMA ExcusedCalls ==
  ASSUME SessionInv, NEW c \in Calls
  PROVE  /\ IsCall(Excused(call)[c])
         /\ Excused(call)[c].pc = call[c].pc /\ Excused(call)[c].as = call[c].as
         /\ call[c].pc \in {"sent", "waiting"} => Excused(call)[c].over
         /\ call[c].over => Excused(call)[c].over
<1> DEFINE k == [call[c] EXCEPT !.over = TRUE]
<1>1. IsCall(call[c])
  BY DEF SessionInv, SessionTypes
<1>2. IsCall(k) /\ k.pc = call[c].pc /\ k.as = call[c].as /\ k.over
  BY <1>1 DEF IsCall, CallFields
<1>3. Excused(call)[c] = IF InFlight(c) THEN k ELSE call[c]
  BY DEF Excused
<1> HIDE DEF k
<1> QED BY <1>1, <1>2, <1>3 DEF InFlight

\* Submitting a form or a log-out, and its answer.
LEMMA EntryStep ==
  ASSUME SessionInv,
         \/ \E u \in Users : SubmitLogin(u)
         \/ ClickLogout \/ LoggedIn \/ LoggedOut \/ EntryFails
  PROVE  SessionInv'
<1>1. CASE ClickLogout \/ \E u \in Users : SubmitLogin(u)
  <2>1. /\ entry'.kind = "login" => entry'.user \in Users
        /\ crossed' = (crossed \/ refreshing.pc = "sent")
        /\ UNCHANGED <<access, refresh, call, refreshing, stored, signedIn, late>>
    BY <1>1 DEF ClickLogout, SubmitLogin
  <2>2. SessionTypes'
    BY <2>1 DEF SessionInv, SessionTypes, IsCall
  <2>3. ~crossed' => Uncrossed'
    BY <2>1 DEF SessionInv, Uncrossed, CallOK, Own
  <2>4. ~crossed' /\ ~late' => Punctual'
    BY <2>1 DEF SessionInv, Punctual, Own
  <2> QED BY <2>2, <2>3, <2>4 DEF SessionInv
<1>2. CASE EntryFails
  BY <1>2 DEF EntryFails, ClearStored, NoEntry, SessionInv, SessionTypes, Uncrossed, Punctual,
              CallOK, IsCall, Own
<1>3. CASE LoggedIn
  <2>1. entry.user \in Users /\ entry.user # NoUser
    BY <1>3, SessionAssumption DEF LoggedIn, SessionInv, SessionTypes
  <2>2. SessionTypes'
    BY <1>3 DEF LoggedIn, ClearStored, NoEntry, SessionInv, SessionTypes, IsCall
  <2>3. ~crossed' => Uncrossed'
    <3>1. CASE crossed
      BY <1>3, <2>1, <3>1 DEF LoggedIn, BegunAfresh, NoEntry, Uncrossed, CallOK, Own
    <3>2. CASE ~crossed
      BY <1>3, <2>1, <3>2 DEF LoggedIn, NoEntry, SessionInv, Uncrossed, CallOK, Own
    <3> QED BY <3>1, <3>2
  <2>4. ~late' => Punctual'
    BY <1>3 DEF LoggedIn, ClearStored, Punctual, Own
  <2> QED BY <2>2, <2>3, <2>4 DEF SessionInv
<1>4. CASE LoggedOut
  <2>1. call' = Excused(call)
    BY <1>4 DEF LoggedOut
  <2>2. SessionTypes'
    BY <1>4, <2>1, ExcusedCalls DEF LoggedOut, ClearStored, NoEntry, SessionInv, SessionTypes,
       IsCall, Excused
  <2>3. ~crossed' => Uncrossed'
    <3>1. CASE crossed /\ ~BegunAfresh
      BY <1>4, <3>1 DEF LoggedOut
    <3>2. CASE BegunAfresh
      <4>1. \A c \in Calls : CallOK(call[c])'
        BY <2>1, <3>2, ExcusedCalls DEF BegunAfresh, CallOK
      <4> QED BY <1>4, <3>2, <4>1 DEF LoggedOut, BegunAfresh, NoEntry, Uncrossed, Own
    <3>3. CASE ~crossed
      <4>1. Uncrossed
        BY <3>3 DEF SessionInv
      <4>2. \A c \in Calls : CallOK(call[c])'
        BY <1>4, <2>1, <4>1, ExcusedCalls DEF Uncrossed, CallOK
      <4> QED BY <1>4, <4>1, <4>2 DEF LoggedOut, NoEntry, Uncrossed, Own
    <3> QED BY <3>1, <3>2, <3>3
  <2>4. ASSUME ~late' PROVE Punctual'
    <3>1. \A c \in Calls : call[c].pc = "idle"
      BY <1>4, <2>4 DEF LoggedOut, ClearStored
    <3> QED BY <1>4, <2>1, <3>1, ExcusedCalls DEF LoggedOut, ClearStored, Punctual, Own
  <2> QED BY <2>2, <2>3, <2>4 DEF SessionInv
<1> QED BY <1>1, <1>2, <1>3, <1>4

LEMMA GoogleStep ==
  ASSUME SessionInv, NEW u \in Users, GoogleLogin(u)
  PROVE  SessionInv'
<1>1. \A c \in Calls : call'[c] = NoCall
  BY DEF GoogleLogin
<1>2. SessionTypes'
  BY <1>1, NoCallOK DEF GoogleLogin, SessionInv, SessionTypes, IsCall, NoRefresh, NoEntry
<1>3. ~crossed' => Uncrossed'
  BY <1>1, SessionAssumption
  DEF GoogleLogin, Uncrossed, CallOK, Own, NoCall, NoRefresh, NoEntry
<1>4. ASSUME ~crossed', ~late' PROVE Punctual'
  <2>1. Punctual /\ signedIn = NoUser /\ stored' = stored
    BY <1>4 DEF GoogleLogin, SessionInv, SessionTypes
  <2> QED BY <1>1, <2>1, NoCallOK DEF Punctual, Own
<1> QED BY <1>2, <1>3, <1>4 DEF SessionInv

\* A token expires.
LEMMA ExpiryStep ==
  ASSUME SessionInv,
         RefreshExpires \/ \E unverified \in SUBSET Calls : AccessExpires(unverified)
  PROVE  SessionInv'
<1>1. UNCHANGED <<refreshing, entry, stored, signedIn, crossed, late>>
  BY DEF RefreshExpires, AccessExpires
<1>2. access' \in {access, NoUser} /\ refresh' \in {refresh, NoUser}
  BY DEF RefreshExpires, AccessExpires
<1>3. ASSUME NEW c \in Calls
      PROVE  /\ IsCall(call'[c]) /\ call'[c].pc = call[c].pc
             /\ call'[c].as \in {call[c].as, NoUser}
             /\ ~crossed => CallOK(call[c])'
  <2>1. IsCall(call[c]) /\ (~crossed => CallOK(call[c]))
    BY DEF SessionInv, SessionTypes, Uncrossed
  <2>2. CASE RefreshExpires
    <3>1. call'[c] = Excused(call)[c]
      BY <2>2 DEF RefreshExpires
    <3> QED BY <2>1, <3>1, ExcusedCalls DEF CallOK
  <2>3. ASSUME NEW unverified \in SUBSET Calls, AccessExpires(unverified)
        PROVE  /\ IsCall(call'[c]) /\ call'[c].pc = call[c].pc
               /\ call'[c].as \in {call[c].as, NoUser}
               /\ ~crossed => CallOK(call[c])'
    <3> DEFINE k == [call[c] EXCEPT !.as = NoUser,
                                    !.over = call[c].over \/ ~call[c].retry]
    <3>1. /\ IsCall(k) /\ k.pc = call[c].pc /\ k.as = NoUser
          /\ k.over = (call[c].over \/ ~call[c].retry) /\ k.retry = call[c].retry
      BY <2>1 DEF IsCall, CallFields
    <3>2. call'[c] = IF c \in unverified THEN k ELSE call[c]
      BY <2>3 DEF AccessExpires
    <3>3. refresh' = refresh
      BY <2>3 DEF AccessExpires
    <3> HIDE DEF k
    <3> QED BY <2>1, <3>1, <3>2, <3>3 DEF CallOK
  <2> QED BY <2>2, <2>3
<1>4. call' = [c \in Calls |-> call'[c]]
  BY DEF RefreshExpires, AccessExpires, Excused
<1>5. SessionTypes'
  BY <1>1, <1>3, <1>4 DEF SessionInv, SessionTypes, IsCall
<1>6. ~crossed' => Uncrossed'
  BY <1>1, <1>2, <1>3 DEF SessionInv, Uncrossed, Own
<1>7. ~crossed' /\ ~late' => Punctual'
  BY <1>1, <1>3 DEF SessionInv, Punctual, Own
<1> QED BY <1>5, <1>6, <1>7 DEF SessionInv

LEMMA SessionInvariant == SpecSession => []SessionInv
<1>1. InitSession => SessionInv
  <2> SUFFICES ASSUME InitSession PROVE SessionInv
    OBVIOUS
  <2>1. \A c \in Calls : call[c] = NoCall
    BY DEF InitSession
  <2>2. SessionTypes
    BY <2>1, NoCallOK DEF InitSession, SessionTypes, NoRefresh, NoEntry
  <2>3. Uncrossed /\ Punctual
    BY <2>1, NoCallOK DEF InitSession, Uncrossed, Punctual, Own, NoRefresh, NoEntry
  <2> QED BY <2>2, <2>3 DEF SessionInv
<1>2. SessionInv /\ [NextSession]_sessionVars => SessionInv'
  <2> SUFFICES ASSUME SessionInv, [NextSession]_sessionVars PROVE SessionInv'
    OBVIOUS
  <2>1. CASE UNCHANGED sessionVars
    BY <2>1 DEF sessionVars, SessionInv, SessionTypes, Uncrossed, Punctual, CallOK, IsCall, Own
  <2> QED BY <2>1, CallStep, UnauthorizedStep, RefreshStep, EntryStep, GoogleStep, ExpiryStep
          DEF NextSession
<1> QED BY <1>1, <1>2, PTL DEF SpecSession

\* However many calls share a refresh, and in whatever order the answers come:
\* the cookies are those of the user who signed in last, or none, unless a
\* refresh was under way together with a login or a logout.
THEOREM SessionCookiesFollowUser == SpecSession => []CookiesFollowUser
<1>1. SessionInv => CookiesFollowUser
  BY DEF SessionInv, Uncrossed, Own, CookiesFollowUser
<1> QED BY <1>1, SessionInvariant, PTL

\* Nobody is told 401 by mistake: its session was over, or a refresh failed.
THEOREM SessionUnauthorizedIsTrue == SpecSession => []UnauthorizedIsTrue
<1>1. SessionInv => UnauthorizedIsTrue
  BY DEF SessionInv, Uncrossed, CallOK, UnauthorizedIsTrue
<1> QED BY <1>1, SessionInvariant, PTL

\* The week in the tab is that of the user signed in, unless a call of a
\* former user was under way at the change or the change was Google's.
THEOREM SessionWeekIsOwn == SpecSession => []WeekIsOwn
<1>1. SessionInv => WeekIsOwn
  BY DEF SessionInv, Punctual, Own, WeekIsOwn
<1> QED BY <1>1, SessionInvariant, PTL

-----------------------------------------------------------------------------
\* The types of the session.
MaybeCall ==
  [pc : {"idle", "sent", "waiting", "served", "anonymous", "unauthorized"},
   needs : {"none", "required", "optional"}, as : MaybeUser,
   retry : BOOLEAN, over : BOOLEAN]

\* Each step keeps the types of what it changes.
LEMMA SessionTypesStep == TypeOKSession /\ [NextSession]_sessionVars => TypeOKSession'
<1> SUFFICES ASSUME TypeOKSession, [NextSession]_sessionVars PROVE TypeOKSession'
  OBVIOUS
<1> USE DEF TypeOKSession
<1>1. NoCall \in MaybeCall /\ NoUser \in MaybeUser
  BY DEF NoCall, MaybeCall, MaybeUser
<1>2. call \in [Calls -> MaybeCall]
  BY DEF MaybeCall
<1>3. TypeOKSession' <=>
        /\ access' \in MaybeUser /\ refresh' \in MaybeUser /\ signedIn' \in MaybeUser
        /\ call' \in [Calls -> MaybeCall]
        /\ refreshing' \in [pc : {"none", "sent", "settled"}, as : MaybeUser]
        /\ entry' \in [kind : {"none", "login", "logout"}, user : MaybeUser]
        /\ stored' \in MaybeUser
        /\ crossed' \in BOOLEAN /\ late' \in BOOLEAN
  BY DEF MaybeCall
<1>4. NoRefresh \in [pc : {"none", "sent", "settled"}, as : MaybeUser]
      /\ NoEntry \in [kind : {"none", "login", "logout"}, user : MaybeUser]
  BY DEF NoRefresh, NoEntry, MaybeUser
<1>5. ASSUME NEW c \in Calls, NEW k \in MaybeCall, call' = [call EXCEPT ![c] = k]
      PROVE  call' \in [Calls -> MaybeCall]
  BY <1>2, <1>5
<1>6. \A k \in MaybeCall, cookie \in MaybeUser : Resend(k, cookie) \in MaybeCall
  BY DEF MaybeCall, Resend
<1>7. \A k \in MaybeCall : /\ [k EXCEPT !.over = TRUE] \in MaybeCall
                           /\ GiveUp(k) \in MaybeCall
  BY DEF MaybeCall, GiveUp
<1>8. Excused(call) \in [Calls -> MaybeCall]
  BY <1>2, <1>7 DEF Excused
<1>9. ASSUME NEW c \in Calls, NEW needs \in {"required", "optional"}, Send(c, needs)
      PROVE  TypeOKSession'
  <2> DEFINE k == [NoCall EXCEPT !.pc = "sent", !.needs = needs,
                                 !.as = access, !.over = refresh = NoUser]
  <2>1. k \in MaybeCall
    BY DEF NoCall, MaybeCall
  <2>2. call' \in [Calls -> MaybeCall]
    BY <1>5, <1>9, <2>1 DEF Send
  <2> QED BY <1>3, <1>9, <2>2 DEF Send
<1>10. ASSUME NEW c \in Calls, Served(c) PROVE TypeOKSession'
  BY <1>10 DEF Served
<1>11. ASSUME NEW c \in Calls, Unauthorized(c) PROVE TypeOKSession'
  <2>1. call' \in [Calls -> MaybeCall]
    BY <1>2, <1>6, <1>11 DEF Unauthorized, MaybeCall
  <2>2. /\ refreshing' \in [pc : {"none", "sent", "settled"}, as : MaybeUser]
        /\ crossed' \in BOOLEAN
    BY <1>11 DEF Unauthorized
  <2> QED BY <1>3, <1>11, <2>1, <2>2 DEF Unauthorized
<1>12. ASSUME NEW c \in Calls, End(c) PROVE TypeOKSession'
  <2>1. call' \in [Calls -> MaybeCall] /\ stored' \in MaybeUser
    BY <1>1, <1>2, <1>12 DEF End
  <2> QED BY <1>3, <1>12, <2>1 DEF End
<1>13. CASE Refreshed
  <2>1. call' \in [Calls -> MaybeCall]
    BY <1>2, <1>6, <1>13 DEF Refreshed, Wake
  <2> QED BY <1>3, <1>4, <1>13, <2>1 DEF Refreshed
<1>14. CASE RefreshFails
  <2>1. call' \in [Calls -> MaybeCall]
    BY <1>2, <1>7, <1>14 DEF RefreshFails, Wake
  <2> QED BY <1>3, <1>4, <1>14, <2>1 DEF RefreshFails
<1>15. ASSUME NEW u \in Users, SubmitLogin(u) PROVE TypeOKSession'
  BY <1>15 DEF SubmitLogin, MaybeUser
<1>16. ASSUME NEW u \in Users, GoogleLogin(u) PROVE TypeOKSession'
  <2>1. call' \in [Calls -> MaybeCall] /\ u \in MaybeUser
    BY <1>1, <1>16 DEF GoogleLogin, MaybeUser
  <2> QED BY <1>3, <1>4, <1>16, <2>1 DEF GoogleLogin
<1>17. CASE ClickLogout
  BY <1>1, <1>17 DEF ClickLogout
<1>18. CASE LoggedIn
  BY <1>1, <1>4, <1>18 DEF LoggedIn, ClearStored
<1>19. CASE LoggedOut
  BY <1>1, <1>3, <1>4, <1>8, <1>19 DEF LoggedOut, ClearStored
<1>20. CASE EntryFails
  BY <1>1, <1>4, <1>20 DEF EntryFails, ClearStored
<1>21. ASSUME NEW unverified \in SUBSET Calls, AccessExpires(unverified) PROVE TypeOKSession'
  <2>1. \A k \in MaybeCall :
          [k EXCEPT !.as = NoUser, !.over = @ \/ ~k.retry] \in MaybeCall
    BY <1>1 DEF MaybeCall
  <2>2. call' \in [Calls -> MaybeCall]
    BY <1>2, <1>21, <2>1 DEF AccessExpires
  <2> QED BY <1>1, <1>3, <1>21, <2>2 DEF AccessExpires
<1>22. CASE RefreshExpires
  BY <1>1, <1>3, <1>8, <1>22 DEF RefreshExpires
<1>23. CASE UNCHANGED sessionVars
  BY <1>23 DEF sessionVars
<1> QED BY <1>9, <1>10, <1>11, <1>12, <1>13, <1>14, <1>15, <1>16, <1>17, <1>18, <1>19,
      <1>20, <1>21, <1>22, <1>23 DEF NextSession

\* The types of the cookies, the calls, the shared refresh, the log-in or log-out
\* under way and what the tab stores (client.ts, useSessionState).
THEOREM SessionTypeOK == SpecSession => []TypeOKSession
<1>1. InitSession => TypeOKSession
  <2>1. /\ NoCall \in MaybeCall
        /\ NoRefresh \in [pc : {"none", "sent", "settled"}, as : MaybeUser]
        /\ NoEntry \in [kind : {"none", "login", "logout"}, user : MaybeUser]
        /\ NoUser \in MaybeUser
    BY DEF NoCall, NoRefresh, NoEntry, MaybeCall, MaybeUser
  <2> QED BY <2>1 DEF InitSession, TypeOKSession, MaybeCall
<1> QED BY <1>1, SessionTypesStep, PTL DEF SpecSession
=============================================================================
