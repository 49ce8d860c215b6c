-------------------------- MODULE ShoppingOverlay --------------------------
(***************************************************************************)
(* The shopping list overrides of saved weeks: ReplaceOverrides            *)
(* (service/saved_shopping_list.go) checks the owner and the payload, then *)
(* Replace (repository/shopping_list_override.go) deletes every row of the *)
(* week and inserts the new ones in one READ COMMITTED transaction, while  *)
(* other PUTs of the same page and the deletion of the week interleave.    *)
(* A row is locked by the transaction that deletes or inserts it; a second *)
(* row of the same key fails on the primary key (week, name).              *)
(***************************************************************************)
EXTENDS Naturals, FiniteSets

CONSTANTS
  Weeks,       \* saved weeks of the user
  Names,       \* names of shopping items
  Puts,        \* bound: PUT requests ever sent
  Requests,    \* concurrent requests
  None,        \* the week and put of an idle request
  MaxManual    \* maxManualShoppingItems: 100

ASSUME OverlayAssumption ==
  /\ None \notin Weeks /\ None \notin Puts
  /\ IsFiniteSet(Names) /\ IsFiniteSet(Requests) /\ Requests # {}
  /\ MaxManual \in Nat

VARIABLES
  alive,     \* committed rows of saved_weekly_menus
  overlay,   \* committed rows of shopping_list_overrides
  tx,        \* the state of each request
  issued,    \* history variable: the PUTs sent
  done,      \* history variable: the PUTs committed
  after      \* history variable: the PUTs committed before each one's DELETE

vars == <<alive, overlay, tx, issued, done, after>>
history == <<issued, done, after>>

-----------------------------------------------------------------------------
\* ShoppingListOverride: its name, whether the user added it (origin manual) or
\* it marks a derived one, and the marks.
Item == [name : Names, manual : BOOLEAN, checked : BOOLEAN, hidden : BOOLEAN]
OverrideRow == [week : Weeks, put : Puts, item : Item]

Rows(S, w) == {row \in S : row.week = w}
Manual(items) == {i \in items : i.manual}

\* Mutant: derived items count, manual ones do not.
ValidCountingDerived(items) ==
  /\ \A i, j \in items : i.name = j.name => i = j
  /\ Cardinality(items \ Manual(items)) <= MaxManual

\* The checks of ReplaceOverrides: no name twice (400), not too many manual
\* items (409).
Valid(items) ==
  /\ \A i, j \in items : i.name = j.name => i = j
  /\ Cardinality(Manual(items)) <= MaxManual

Idle == [pc |-> "idle", week |-> None, put |-> None, left |-> {},
         own |-> {}, doomed |-> {}]

Tx == [pc : {"idle", "found", "clearing", "inserting"},
       week : Weeks \cup {None}, put : Puts \cup {None}, left : SUBSET Item,
       own : SUBSET OverrideRow, doomed : SUBSET OverrideRow]

Init ==
  /\ alive = Weeks
  /\ overlay = {}
  /\ tx = [r \in Requests |-> Idle]
  /\ issued = {} /\ done = {}
  /\ after = [p \in Puts |-> {}]

\* PUT: Find sees the week of the user (else 404), the payload is valid.
Find(r, w, p, items) ==
  /\ tx[r].pc = "idle"
  /\ w \in alive /\ p \notin issued /\ Valid(items)
  /\ issued' = issued \cup {p}
  /\ tx' = [tx EXCEPT ![r] = [Idle EXCEPT !.pc = "found", !.week = w,
                                          !.put = p, !.left = items]]
  /\ UNCHANGED <<alive, overlay, done, after>>

\* Mutant: an upsert, only rows of names in the payload are deleted.
ClearNamed(r) ==
  /\ tx[r].pc = "found"
  /\ tx' = [tx EXCEPT ![r].pc = "clearing",
       ![r].doomed = {row \in Rows(overlay, tx[r].week) :
                        row.item.name \in {i.name : i \in tx[r].left}}]
  /\ after' = [after EXCEPT ![tx[r].put] = done]
  /\ UNCHANGED <<alive, overlay, issued, done>>

\* BEGIN and the DELETE's snapshot of the week's rows.
Clear(r) ==
  /\ tx[r].pc = "found"
  /\ tx' = [tx EXCEPT ![r].pc = "clearing",
                      ![r].doomed = Rows(overlay, tx[r].week)]
  /\ after' = [after EXCEPT ![tx[r].put] = done]
  /\ UNCHANGED <<alive, overlay, issued, done>>

\* Rows another open transaction has already deleted are waited for.
Locked(r) ==
  \E o \in Requests \ {r} :
    tx[o].pc = "inserting" /\ tx[o].doomed \cap tx[r].doomed \cap overlay # {}

ClearDone(r) ==
  /\ tx[r].pc = "clearing" /\ ~Locked(r)
  /\ tx' = [tx EXCEPT ![r].pc = "inserting"]
  /\ UNCHANGED <<alive, overlay, history>>

\* The key of item i in week w is taken by a row this transaction cannot pass:
\* a committed one it did not delete, or one another transaction inserted.
Taken(r, i) ==
  LET rivals == (overlay \ tx[r].doomed) \cup UNION {tx[o].own : o \in Requests \ {r}}
  IN  \E row \in Rows(rivals, tx[r].week) : row.item.name = i.name

\* One INSERT, its foreign key and primary key satisfied; otherwise the
\* statement waits, or fails and the request rolls back.
Insert(r, i) ==
  /\ tx[r].pc = "inserting" /\ i \in tx[r].left
  /\ tx[r].week \in alive /\ ~Taken(r, i)
  /\ tx' = [tx EXCEPT
       ![r].left = tx[r].left \ {i},
       ![r].own = tx[r].own \cup
                    {[week |-> tx[r].week, put |-> tx[r].put, item |-> i]}]
  /\ UNCHANGED <<alive, overlay, history>>

\* Mutant: the rows are committed while some are still missing.
CommitEarly(r) ==
  /\ tx[r].pc = "inserting"
  /\ overlay' = (overlay \ tx[r].doomed) \cup tx[r].own
  /\ done' = done \cup {tx[r].put}
  /\ tx' = [tx EXCEPT ![r] = Idle]
  /\ UNCHANGED <<alive, issued, after>>

Commit(r) ==
  /\ tx[r].pc = "inserting" /\ tx[r].left = {}
  /\ overlay' = (overlay \ tx[r].doomed) \cup tx[r].own
  /\ done' = done \cup {tx[r].put}
  /\ tx' = [tx EXCEPT ![r] = Idle]
  /\ UNCHANGED <<alive, issued, after>>

\* A failed statement, a deadlock victim, a client gone, a crash.
Rollback(r) ==
  /\ tx[r].pc # "idle"
  /\ tx' = [tx EXCEPT ![r] = Idle]
  /\ UNCHANGED <<alive, overlay, history>>

\* Delete of the saved week, with the cascade to its overrides.  It waits for
\* transactions that hold its parent row (by an INSERT) or rows of the week.
Held(w) ==
  \E o \in Requests :
    /\ tx[o].pc = "inserting" /\ tx[o].week = w
    /\ tx[o].own \cup (tx[o].doomed \cap overlay) # {}

DeleteWeek(w) ==
  /\ w \in alive /\ ~Held(w)
  /\ alive' = alive \ {w}
  /\ overlay' = overlay \ Rows(overlay, w)
  /\ UNCHANGED <<tx, history>>

\* A statement of the transaction of request r.
Statement(r) ==
  \/ Clear(r)
  \/ ClearDone(r)
  \/ (\E i \in Item : Insert(r, i))
  \/ Commit(r)
  \/ Rollback(r)

Next ==
  \/ \E r \in Requests :
       \/ \E w \in Weeks, p \in Puts, items \in SUBSET Item : Find(r, w, p, items)
       \/ Statement(r)
  \/ \E w \in Weeks : DeleteWeek(w)

Spec == Init /\ [][Next]_vars

-----------------------------------------------------------------------------
\* Every variable keeps its type, and a request touches rows of its week only.
TypeOK ==
  /\ alive \subseteq Weeks /\ overlay \subseteq OverrideRow
  /\ tx \in [Requests -> Tx]
  /\ \A r \in Requests : \A row \in tx[r].own \cup tx[r].doomed : row.week = tx[r].week
  /\ issued \subseteq Puts /\ done \subseteq issued
  /\ after \in [Puts -> SUBSET Puts]

\* 丸ごと置き換える, as far as it holds: once a PUT is stored, nothing of the
\* PUTs that were stored before it began remains beside it.
NothingOlder ==
  \A x, y \in overlay : x.week = y.week => x.put \notin after[y.put]

\* The limit is checked per PUT, so overlapping PUTs can pass it together, but
\* only by as many PUTs as the stored list mixes.
ManualBound ==
  \A w \in Weeks :
    LET rows == Rows(overlay, w)
    IN  Cardinality({row \in rows : row.item.manual})
          <= Cardinality({row.put : row \in rows}) * MaxManual

=============================================================================
