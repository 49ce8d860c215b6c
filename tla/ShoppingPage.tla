---------------------------- MODULE ShoppingPage ----------------------------
(***************************************************************************)
(* The shopping list page of a saved week (ShoppingListPage.tsx) over the  *)
(* overrides it PUTs (ShoppingOverlay).  The page keeps the ticked, hidden *)
(* and added items itself, sends the whole of them with every click        *)
(* without waiting for the former PUT, and resets itself from the list it  *)
(* fetches after each success.  Two answers that are equal are one object  *)
(* to the query cache and reset nothing.                                   *)
(***************************************************************************)
EXTENDS ShoppingOverlay

CONSTANTS
  Derived,   \* names of the items derived from the week's menus
  Week       \* savedId: the week on the page

\* checked, hidden and manual of the page; manual is a list, and twice are the
\* names on it more than once.
Lists == [checked : SUBSET Names, hidden : SUBSET Names,
          manual : SUBSET Names, twice : SUBSET Names]

ASSUME PageAssumption ==
  Derived \subseteq Names /\ Week \in Weeks /\ None \notin Lists

VARIABLES
  shown,     \* data of the query, None before the first answer
  local,     \* the page's checked, hidden and manual
  payload,   \* the overlay each PUT was sent with
  pending,   \* PUTs sent and not answered
  get,       \* the GET in flight
  wanted,    \* history variable: what the user's clicks add up to, until spoilt
  spoilt     \* history variable: a PUT or GET failed, or a click came while one
             \* was in flight

page == <<shown, local, payload, pending, get, wanted, spoilt>>

Empty == [checked |-> {}, hidden |-> {}, manual |-> {}, twice |-> {}]

\* Mutant: hidden items are left out of the answer.
ScreenWithoutHidden(items) ==
  LET named(P(_)) == {i.name : i \in {j \in items : P(j)}}
      manual == named(LAMBDA i : i.manual /\ ~i.hidden) \ Derived
  IN  [checked |-> named(LAMBDA i : i.checked) \cap (Derived \cup manual),
       hidden |-> {}, manual |-> manual, twice |-> {}]

\* mergeOverlay, and what the page's effect takes from its answer: marks go by
\* name, whoever made the row; an added item with a derived one's name is not
\* shown, and marks of items no longer derived are not either.
Screen(items) ==
  LET named(P(_)) == {i.name : i \in {j \in items : P(j)}}
      manual == named(LAMBDA i : i.manual /\ ~i.hidden) \ Derived
  IN  [checked |-> named(LAMBDA i : i.checked) \cap (Derived \cup manual),
       hidden  |-> named(LAMBDA i : i.hidden) \cap Derived,
       manual  |-> manual,
       twice   |-> {}]

\* Mutant: only the ticked items are sent.
TickedOnly(l) ==
  {[name |-> n, manual |-> FALSE, checked |-> TRUE, hidden |-> n \in l.hidden] :
     n \in Derived \cap l.checked}
  \cup {[name |-> n, manual |-> TRUE, checked |-> n \in l.checked, hidden |-> FALSE] :
     n \in l.manual}

\* buildOverlay.
BuildOverlay(l) ==
  {[name |-> n, manual |-> FALSE, checked |-> n \in l.checked, hidden |-> n \in l.hidden] :
     n \in Derived \cap (l.checked \cup l.hidden)}
  \cup {[name |-> n, manual |-> TRUE, checked |-> n \in l.checked, hidden |-> FALSE] :
     n \in l.manual}

NoGet == [pc |-> "none", items |-> {}]
Sent == [pc |-> "sent", items |-> {}]

NoPayload == [items |-> {}, twice |-> {}]

PageInit ==
  /\ Init
  /\ shown = None /\ local = Empty
  /\ payload = [p \in Puts |-> NoPayload]
  /\ pending = {}
  /\ get = Sent
  /\ wanted = Empty /\ spoilt = FALSE

-----------------------------------------------------------------------------
\* persist.mutate(buildOverlay(next)).  A failed fetch shows an error in place
\* of the list.
Click(p, next, wish) ==
  /\ shown # None /\ get.pc # "error"
  /\ p \notin issued /\ p \notin pending
  /\ local' = next
  /\ payload' = [payload EXCEPT ![p] = [items |-> BuildOverlay(next), twice |-> next.twice]]
  /\ pending' = pending \cup {p}
  /\ spoilt' = (spoilt \/ pending # {} \/ get.pc # "none")
  /\ wanted' = IF spoilt' THEN Empty ELSE wish
  /\ UNCHANGED <<shown, get, vars>>

Flip(S, n) == IF n \in S THEN S \ {n} ELSE S \cup {n}

\* The list shows what the last answer does not hide.
Listed == (Derived \ shown.hidden) \cup shown.manual

Toggle(p, n) ==
  /\ shown # None /\ n \in Listed
  /\ Click(p, [local EXCEPT !.checked = Flip(@, n)],
              [wanted EXCEPT !.checked = Flip(@, n)])

AddManual(p, n) ==
  Click(p, [local EXCEPT !.manual = @ \cup {n},
                         !.twice = IF n \in local.manual THEN @ \cup {n} ELSE @],
           [wanted EXCEPT !.manual = @ \cup ({n} \ Derived)])

RemoveManual(p, n) ==
  /\ shown # None /\ n \in shown.manual
  /\ Click(p, [local EXCEPT !.manual = @ \ {n}, !.twice = @ \ {n}],
              [wanted EXCEPT !.manual = @ \ {n}, !.checked = @ \ {n}])

Hide(p, n) ==
  /\ shown # None /\ n \in Derived \ shown.hidden
  /\ Click(p, [local EXCEPT !.hidden = @ \cup {n}],
              [wanted EXCEPT !.hidden = @ \cup {n}])

\* A PUT reaches the server, in any order; a name entered twice is refused.
Arrive(r, p) ==
  /\ p \in pending /\ payload[p].twice = {}
  /\ Find(r, Week, p, payload[p].items)
  /\ payload' = [payload EXCEPT ![p] = NoPayload]
  /\ UNCHANGED <<shown, local, pending, get, wanted, spoilt>>

\* onSuccess: the query is invalidated, a GET under way is replaced.
Saved(p) ==
  /\ p \in pending \cap done
  /\ pending' = pending \ {p}
  /\ get' = Sent
  /\ UNCHANGED <<shown, local, payload, wanted, spoilt, vars>>

\* Refused, rolled back, or its request or answer lost.
PutFails(p) ==
  /\ p \in pending
  /\ \A r \in Requests : tx[r].put # p
  /\ pending' = pending \ {p}
  /\ payload' = [payload EXCEPT ![p] = NoPayload]
  /\ issued' = issued \cup {p}
  /\ spoilt' = TRUE /\ wanted' = Empty
  /\ UNCHANGED <<shown, local, get, alive, overlay, tx,
                 done, after>>

-----------------------------------------------------------------------------
\* For: the owner is checked and the list derived, then the overrides are read.
GetFind ==
  /\ get.pc = "sent" /\ Week \in alive
  /\ get' = [get EXCEPT !.pc = "found"]
  /\ UNCHANGED <<shown, local, payload, pending, wanted, spoilt, vars>>

GetOverrides ==
  /\ get.pc = "found"
  /\ get' = [pc |-> "read", items |-> {row.item : row \in Rows(overlay, Week)}]
  /\ UNCHANGED <<shown, local, payload, pending, wanted, spoilt, vars>>

\* The effect runs when the answer differs from the last one.
GetAnswered ==
  /\ get.pc = "read"
  /\ shown' = Screen(get.items)
  /\ local' = IF shown' # shown THEN shown' ELSE local
  /\ get' = NoGet
  /\ UNCHANGED <<payload, pending, wanted, spoilt, vars>>

\* The one retry is GET's own; when it fails too the page shows the error.
GetFails ==
  /\ get.pc \in {"sent", "found", "read"}
  /\ get' = [pc |-> "error", items |-> {}]
  /\ spoilt' = TRUE /\ wanted' = Empty
  /\ UNCHANGED <<shown, local, payload, pending, vars>>

\* Leaving the page and coming back: it starts from the cached answer, and a
\* failed fetch is tried again.
Revisit ==
  /\ local' = IF shown = None THEN Empty ELSE shown
  /\ get' = IF get.pc = "error" THEN Sent ELSE get
  /\ <<local, get>>' # <<local, get>>
  /\ UNCHANGED <<shown, payload, pending, wanted, spoilt, vars>>

PageNext ==
  \/ \E p \in Puts, n \in Names :
       Toggle(p, n) \/ AddManual(p, n) \/ RemoveManual(p, n) \/ Hide(p, n)
  \/ (\E r \in Requests, p \in Puts : Arrive(r, p))
  \/ (\E r \in Requests : Statement(r) /\ UNCHANGED page)
  \/ (\E p \in Puts : Saved(p) \/ PutFails(p))
  \/ GetFind \/ GetOverrides \/ GetAnswered \/ GetFails \/ Revisit
  \/ (\E w \in Weeks : DeleteWeek(w) /\ UNCHANGED page)

PageSpec == PageInit /\ [][PageNext]_<<vars, page>>

-----------------------------------------------------------------------------
\* The types of the page's own state.
PageTypeOK ==
  /\ TypeOK
  /\ shown \in Lists \cup {None} /\ local \in Lists /\ wanted \in Lists
  /\ payload \in [Puts -> [items : SUBSET Item, twice : SUBSET Names]]
  /\ pending \subseteq Puts
  /\ get \in [pc : {"none", "sent", "found", "read", "error"}, items : SUBSET Item]
  /\ spoilt \in BOOLEAN

Quiet == pending = {} /\ get.pc = "none" /\ Week \in alive

\* When all is answered the server holds, and the page shows, what the user's
\* clicks add up to (ticks, hidden items, added items), unless a request
\* failed or the user clicked before the former click was saved and fetched
\* again: then a reset can take a click from the screen, and the next PUT from
\* the server.
ClicksKept ==
  Quiet /\ ~spoilt =>
    LET rows == {row.item : row \in Rows(overlay, Week)}
    IN  /\ {i.name : i \in {j \in rows : j.checked}} = wanted.checked
        /\ {i.name : i \in {j \in rows : j.hidden}} = wanted.hidden
        /\ {i.name : i \in Manual(rows)} \ Derived = wanted.manual
        /\ shown # None =>
             /\ shown.checked = wanted.checked /\ shown.hidden = wanted.hidden
             /\ shown.manual = wanted.manual
             /\ local.hidden = wanted.hidden /\ local.manual \ Derived = wanted.manual
             /\ local.checked = wanted.checked
=============================================================================
