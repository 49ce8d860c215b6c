----------------------------- MODULE SavedWeeks -----------------------------
(***************************************************************************)
(* The shelf of saved weeks (service/saved_weekly.go over                  *)
(* repository/saved_weekly.go).  Save counts, then writes the parent row   *)
(* and one row per day in a transaction; Delete is one statement whose     *)
(* foreign keys cascade; List and Find read the parents and their days in  *)
(* two statements.  Requests of one user interleave at every statement.    *)
(***************************************************************************)
EXTENDS Naturals, FiniteSets

CONSTANTS
  Users,       \* users with an account
  NoUser,      \* the user field of an idle request
  WeekIds,     \* bound: the ids NewSavedWeeklyMenuID ever draws
  NoWeek,      \* the id field of a request without one
  Requests,    \* concurrent requests
  Limit,       \* SavedWeeklyMenuLimit: 50
  WeekLength   \* domain.WeekLength: 7

ASSUME SavedWeeksAssumption ==
  /\ NoUser \notin Users /\ NoWeek \notin WeekIds
  /\ IsFiniteSet(Requests) /\ Requests # {}
  /\ Limit \in Nat \ {0}
  /\ WeekLength \in Nat \ {0}

VARIABLES
  weeks,   \* committed rows of saved_weekly_menus
  days,    \* committed rows of saved_weekly_menu_days
  drawn,   \* ids handed out so far
  req      \* the state of each request

vars == <<weeks, days, drawn, req>>

-----------------------------------------------------------------------------
Days == 1..WeekLength
Week == [id : WeekIds, user : Users]
DayRow == [id : WeekIds, day : Days]

WeeksOf(u) == {w \in weeks : w.user = u}
DaysOf(D, i) == {d.day : d \in {e \in D : e.id = i}}
RowsFor(i, n) == {[id |-> i, day |-> d] : d \in 1..n}

Idle == [pc |-> "idle", user |-> NoUser, id |-> NoWeek, filled |-> 0,
         parents |-> {}, shown |-> {}]

Request == [pc : {"idle", "counted", "saving", "deleting", "reading", "answered"},
            user : Users \cup {NoUser}, id : WeekIds \cup {NoWeek},
            filled : 0..WeekLength, parents : SUBSET Week,
            shown : SUBSET [id : WeekIds, days : SUBSET Days]]

Enter(r, pc, u, i, P) ==
  req' = [req EXCEPT ![r] = [Idle EXCEPT !.pc = pc, !.user = u, !.id = i, !.parents = P]]

Leave(r) == req' = [req EXCEPT ![r] = Idle]

-----------------------------------------------------------------------------
Init ==
  /\ weeks = {} /\ days = {} /\ drawn = {}
  /\ req = [r \in Requests |-> Idle]

\* Mutant: the limit is compared with one too many.
CountOffByOne(r, u) ==
  /\ req[r].pc = "idle"
  /\ Cardinality(WeeksOf(u)) <= Limit
  /\ Enter(r, "counted", u, NoWeek, {})
  /\ UNCHANGED <<weeks, days, drawn>>

\* Save, its input validated: Count finds room, else 409 and no change.
Count(r, u) ==
  /\ req[r].pc = "idle"
  /\ Cardinality(WeeksOf(u)) < Limit
  /\ Enter(r, "counted", u, NoWeek, {})
  /\ UNCHANGED <<weeks, days, drawn>>

\* BEGIN and the INSERT of the parent row under a fresh id.
InsertWeek(r, i) ==
  /\ req[r].pc = "counted"
  /\ i \notin drawn
  /\ drawn' = drawn \cup {i}
  /\ req' = [req EXCEPT ![r].pc = "saving", ![r].id = i]
  /\ UNCHANGED <<weeks, days>>

\* One INSERT of a day; an unknown menu fails the foreign key: see Abandon.
InsertDay(r) ==
  /\ req[r].pc = "saving" /\ req[r].filled < WeekLength
  /\ req' = [req EXCEPT ![r].filled = req[r].filled + 1]
  /\ UNCHANGED <<weeks, days, drawn>>

\* Mutant: the rows are committed before all days are in.
CommitEarly(r) ==
  /\ req[r].pc = "saving"
  /\ weeks' = weeks \cup {[id |-> req[r].id, user |-> req[r].user]}
  /\ days' = days \cup RowsFor(req[r].id, req[r].filled)
  /\ Leave(r)
  /\ UNCHANGED drawn

Commit(r) ==
  /\ req[r].pc = "saving" /\ req[r].filled = WeekLength
  /\ weeks' = weeks \cup {[id |-> req[r].id, user |-> req[r].user]}
  /\ days' = days \cup RowsFor(req[r].id, WeekLength)
  /\ Leave(r)
  /\ UNCHANGED drawn

\* An error, a client gone or a crash; the deferred Rollback leaves nothing.
Abandon(r) ==
  /\ req[r].pc \in {"counted", "saving", "deleting", "reading"}
  /\ Leave(r)
  /\ UNCHANGED <<weeks, days, drawn>>

\* Any id can be asked for, of whatever owner.
AskDelete(r, u, i) ==
  /\ req[r].pc = "idle" /\ i \in drawn
  /\ Enter(r, "deleting", u, i, {})
  /\ UNCHANGED <<weeks, days, drawn>>

\* DELETE ... WHERE id = $1 AND user_id = $2, with its cascade; no row is 404.
Delete(r) ==
  /\ req[r].pc = "deleting"
  /\ LET gone == {w \in WeeksOf(req[r].user) : w.id = req[r].id}
     IN  /\ weeks' = weeks \ gone
         /\ days' = {d \in days : d.id \notin {w.id : w \in gone}}
  /\ Leave(r)
  /\ UNCHANGED drawn

\* Mutant: the SELECT forgets WHERE user_id = $1.
ListAll(r, u) ==
  /\ req[r].pc = "idle"
  /\ Enter(r, "reading", u, NoWeek, weeks)
  /\ UNCHANGED <<weeks, days, drawn>>

\* The first SELECT of List.
List(r, u) ==
  /\ req[r].pc = "idle"
  /\ Enter(r, "reading", u, NoWeek, WeeksOf(u))
  /\ UNCHANGED <<weeks, days, drawn>>

\* The first SELECT of Find; a missing row, or another user's, is 404.
Find(r, u, i) ==
  /\ req[r].pc = "idle"
  /\ \E w \in WeeksOf(u) : w.id = i /\ Enter(r, "reading", u, i, {w})
  /\ UNCHANGED <<weeks, days, drawn>>

\* fillDays: the second SELECT, of the days of the parents already read.
FillDays(r) ==
  /\ req[r].pc = "reading"
  /\ req' = [req EXCEPT
       ![r].pc = "answered",
       ![r].shown = {[id |-> w.id, days |-> DaysOf(days, w.id)] : w \in req[r].parents}]
  /\ UNCHANGED <<weeks, days, drawn>>

Answer(r) ==
  /\ req[r].pc = "answered"
  /\ Leave(r)
  /\ UNCHANGED <<weeks, days, drawn>>

Next ==
  \E r \in Requests :
    \/ \E u \in Users : Count(r, u)
    \/ \E i \in WeekIds : InsertWeek(r, i)
    \/ InsertDay(r)
    \/ Commit(r)
    \/ Abandon(r)
    \/ \E u \in Users, i \in WeekIds : AskDelete(r, u, i)
    \/ Delete(r)
    \/ \E u \in Users : List(r, u)
    \/ \E u \in Users, i \in WeekIds : Find(r, u, i)
    \/ FillDays(r)
    \/ Answer(r)

Spec == Init /\ [][Next]_vars

-----------------------------------------------------------------------------
\* Every variable keeps its type.
TypeOK ==
  /\ weeks \subseteq Week /\ days \subseteq DayRow /\ drawn \subseteq WeekIds
  /\ req \in [Requests -> Request]
  /\ \A r \in Requests : req[r].pc # "idle" => req[r].user \in Users
  /\ \A r \in Requests : req[r].pc = "saving" => req[r].id \in drawn

\* A week is on the shelf whole or not at all, whichever request fails where
\* and whatever is deleted meanwhile (one transaction in Save, the cascade of
\* Delete), and no two weeks share an id.
WholeWeeks ==
  /\ \A w \in weeks : DaysOf(days, w.id) = Days
  /\ \A d \in days : \E w \in weeks : w.id = d.id
  /\ \A v, w \in weeks : v.id = w.id => v = w

\* Counting and writing are two steps, so the limit can be passed, but by no
\* more than one week for each other request that counted at the same time.
ShelfBound ==
  \A u \in Users :
    Cardinality(WeeksOf(u)) <= Limit + Cardinality(Requests) - 1

\* What List and Find may show: weeks of the user who asked, each whole, or
\* empty and then already deleted.
ShownWholeOrGone ==
  \A r \in Requests :
    req[r].pc = "answered" =>
      \A e \in req[r].shown :
        /\ [id |-> e.id, user |-> req[r].user] \in req[r].parents
        /\ e.days = Days \/ (e.days = {} /\ e.id \notin {w.id : w \in weeks})

=============================================================================
