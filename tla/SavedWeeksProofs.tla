-------------------------- MODULE SavedWeeksProofs --------------------------
(***************************************************************************)
(* Proofs about the shelf of saved weeks: every week is whole, what a      *)
(* reader is shown is whole or already deleted, and requests that count    *)
(* together pass the limit by at most one week each.                       *)
(***************************************************************************)
EXTENDS SavedWeeks, FiniteSetTheorems, TLAPS

\* What holds of one request, its record j: the id it saves under is its own
\* and not on the shelf yet, and what it reads was on its user's shelf.
RequestOK(j, D) ==
  /\ j.pc # "idle" => j.user \in Users
  /\ j.pc = "saving" => j.id \in D /\ \A w \in weeks : w.id # j.id
  /\ j.pc \in {"reading", "answered"} =>
       \A w \in j.parents : w.user = j.user /\ w.id \in D

\* An id being saved is no other request's, and nobody has read it yet.
Apart(j, k) ==
  j.pc = "saving" =>
    /\ k.pc = "saving" => k.id # j.id
    /\ k.pc \in {"reading", "answered"} => \A w \in k.parents : w.id # j.id

\* What an answer shows: a week it read, whole or gone.
ShownOK(j) ==
  j.pc = "answered" =>
    \A e \in j.shown :
      /\ [id |-> e.id, user |-> j.user] \in j.parents
      /\ e.days = Days \/ (e.days = {} /\ \A w \in weeks : w.id # e.id)

Types ==
  /\ weeks \subseteq Week /\ days \subseteq DayRow /\ drawn \subseteq WeekIds
  /\ req \in [Requests -> Request]

\* The inductive invariant of the rows and the requests.
Inv ==
  /\ Types
  /\ \A w \in weeks : w.id \in drawn
  /\ WholeWeeks
  /\ \A r \in Requests : RequestOK(req[r], drawn) /\ ShownOK(req[r])
  /\ \A q, r \in Requests : q # r => Apart(req[q], req[r])

\* The requests of u that have counted and may still add a week.
Saving(u) == {r \in Requests : req[r].user = u /\ req[r].pc \in {"counted", "saving"}}

\* What a user has, and may have once the requests that counted are through.
RoomInv ==
  /\ IsFiniteSet(weeks)
  /\ \A u \in Users :
       Cardinality(WeeksOf(u)) + Cardinality(Saving(u)) <= Limit + Cardinality(Requests) - 1


-----------------------------------------------------------------------------
LEMMA IdleFacts ==
  /\ Idle \in Request /\ Idle.pc = "idle" /\ Idle.user = NoUser
  /\ Idle.id = NoWeek /\ Idle.filled = 0 /\ Idle.parents = {} /\ Idle.shown = {}
BY SavedWeeksAssumption DEF Idle, Request

\* A request that enters a state: its record, field by field.
Entered(p, u, i, P) == [Idle EXCEPT !.pc = p, !.user = u, !.id = i, !.parents = P]

LEMMA EnterFacts ==
  ASSUME NEW p \in {"counted", "deleting", "reading"}, NEW u \in Users,
         NEW i \in WeekIds \cup {NoWeek}, NEW P \in SUBSET Week
  PROVE  /\ Entered(p, u, i, P) \in Request /\ Entered(p, u, i, P).pc = p
         /\ Entered(p, u, i, P).user = u /\ Entered(p, u, i, P).parents = P
BY IdleFacts DEF Idle, Request, Entered

LEMMA InitInv == Init => Inv
BY IdleFacts DEF Init, Inv, Types, WholeWeeks, RequestOK, Apart, ShownOK

\* A step of one request that leaves the rows alone keeps the invariant when
\* the request's new record does.
LEMMA OneStep ==
  ASSUME Inv, NEW r \in Requests, NEW j \in Request,
         req' = [req EXCEPT ![r] = j], UNCHANGED <<weeks, days>>,
         drawn \subseteq drawn', drawn' \subseteq WeekIds,
         RequestOK(j, drawn'), ShownOK(j),
         \A q \in Requests \ {r} : Apart(req[q], j) /\ Apart(j, req[q])
  PROVE  Inv'
<1>1. Types'
  BY DEF Inv, Types
<1>2. \A q \in Requests : req'[q] = IF q = r THEN j ELSE req[q]
  BY DEF Inv, Types
<1>3. (\A w \in weeks : w.id \in drawn)' /\ WholeWeeks'
  BY DEF Inv, WholeWeeks
<1>4. ASSUME NEW q \in Requests PROVE RequestOK(req[q], drawn)' /\ ShownOK(req[q])'
  <2>1. CASE q = r
    BY <2>1, <1>2 DEF RequestOK, ShownOK
  <2>2. CASE q # r
    <3>1. RequestOK(req[q], drawn) /\ ShownOK(req[q])
      BY DEF Inv
    <3>2. QED BY <2>2, <1>2, <3>1 DEF RequestOK, ShownOK
  <2>3. QED BY <2>1, <2>2
<1>5. ASSUME NEW q \in Requests, NEW s \in Requests, q # s
      PROVE  Apart(req[q], req[s])'
  <2>1. Apart(req[q], req[s])
    BY <1>5 DEF Inv
  <2>2. QED BY <2>1, <1>2, <1>5 DEF Apart
<1>6. QED BY <1>1, <1>3, <1>4, <1>5 DEF Inv

\* A request that ends, by an answer, an error or a crash.
LEMMA LeaveStep ==
  ASSUME Inv, NEW r \in Requests, Leave(r), UNCHANGED <<weeks, days, drawn>>
  PROVE  Inv'
<1>1. RequestOK(Idle, drawn') /\ ShownOK(Idle)
  BY IdleFacts DEF RequestOK, ShownOK
<1>2. \A q \in Requests : Apart(req[q], Idle) /\ Apart(Idle, req[q])
  BY IdleFacts DEF Apart
<1>3. drawn' \subseteq WeekIds
  BY DEF Inv, Types
<1>4. QED BY <1>1, <1>2, <1>3, IdleFacts, OneStep DEF Leave

LEMMA CountStep ==
  ASSUME Inv, NEW r \in Requests, NEW u \in Users, Count(r, u)
  PROVE  Inv'
<1> DEFINE j == Entered("counted", u, NoWeek, {})
<1>1. j \in Request /\ j.pc = "counted" /\ j.user = u
  BY EnterFacts
<1>2. req' = [req EXCEPT ![r] = j] /\ UNCHANGED <<weeks, days, drawn>>
  BY DEF Count, Enter, Entered
<1> HIDE DEF j
<1>3. RequestOK(j, drawn') /\ ShownOK(j) /\ \A q \in Requests : Apart(req[q], j) /\ Apart(j, req[q])
  BY <1>1 DEF RequestOK, ShownOK, Apart
<1>4. drawn' \subseteq WeekIds
  BY <1>2 DEF Inv, Types
<1>5. QED BY <1>1, <1>2, <1>3, <1>4, OneStep

LEMMA AskDeleteStep ==
  ASSUME Inv, NEW r \in Requests, NEW u \in Users, NEW i \in WeekIds, AskDelete(r, u, i)
  PROVE  Inv'
<1> DEFINE j == Entered("deleting", u, i, {})
<1>1. j \in Request /\ j.pc = "deleting" /\ j.user = u
  BY EnterFacts
<1>2. req' = [req EXCEPT ![r] = j] /\ UNCHANGED <<weeks, days, drawn>>
  BY DEF AskDelete, Enter, Entered
<1> HIDE DEF j
<1>3. RequestOK(j, drawn') /\ ShownOK(j) /\ \A q \in Requests : Apart(req[q], j) /\ Apart(j, req[q])
  BY <1>1 DEF RequestOK, ShownOK, Apart
<1>4. drawn' \subseteq WeekIds
  BY <1>2 DEF Inv, Types
<1>5. QED BY <1>1, <1>2, <1>3, <1>4, OneStep

\* Reading parents that are on the shelf of the user who asks.
LEMMA ReadStep ==
  ASSUME Inv, NEW r \in Requests, NEW u \in Users, NEW i \in WeekIds \cup {NoWeek},
         NEW P \in SUBSET WeeksOf(u), Enter(r, "reading", u, i, P),
         UNCHANGED <<weeks, days, drawn>>
  PROVE  Inv'
<1> DEFINE j == Entered("reading", u, i, P)
<1>0. P \subseteq Week /\ P \subseteq weeks /\ \A w \in P : w.user = u
  BY DEF WeeksOf, Inv, Types
<1>1. j \in Request /\ j.pc = "reading" /\ j.user = u /\ j.parents = P
  BY <1>0, EnterFacts
<1>2. req' = [req EXCEPT ![r] = j]
  BY DEF Enter, Entered
<1> HIDE DEF j
<1>3. RequestOK(j, drawn') /\ ShownOK(j)
  BY <1>0, <1>1 DEF RequestOK, ShownOK, Inv
<1>4. ASSUME NEW q \in Requests PROVE Apart(req[q], j) /\ Apart(j, req[q])
  <2>1. RequestOK(req[q], drawn)
    BY DEF Inv
  <2>2. QED BY <2>1, <1>0, <1>1 DEF RequestOK, Apart
<1>5. drawn' \subseteq WeekIds
  BY DEF Inv, Types
<1>6. QED BY <1>1, <1>2, <1>3, <1>4, <1>5, OneStep

LEMMA InsertWeekStep ==
  ASSUME Inv, NEW r \in Requests, NEW i \in WeekIds, InsertWeek(r, i)
  PROVE  Inv'
<1> DEFINE j == [req[r] EXCEPT !.pc = "saving", !.id = i]
<1>0. req[r] \in Request /\ req[r].pc = "counted" /\ req[r].user \in Users
  BY DEF Inv, Types, InsertWeek, RequestOK
<1>1. j \in Request /\ j.pc = "saving" /\ j.user \in Users /\ j.id = i
  BY <1>0 DEF Request
<1>2. req' = [req EXCEPT ![r] = j] /\ UNCHANGED <<weeks, days>>
  BY DEF InsertWeek
<1>3. drawn' = drawn \cup {i} /\ i \notin drawn /\ drawn' \subseteq WeekIds
  BY DEF InsertWeek, Inv, Types
<1> HIDE DEF j
<1>4. RequestOK(j, drawn') /\ ShownOK(j)
  BY <1>1, <1>2, <1>3 DEF RequestOK, ShownOK, Inv
<1>5. ASSUME NEW q \in Requests PROVE Apart(req[q], j) /\ Apart(j, req[q])
  <2>1. RequestOK(req[q], drawn)
    BY DEF Inv
  <2>2. QED BY <2>1, <1>1, <1>3 DEF RequestOK, Apart
<1>6. QED BY <1>1, <1>2, <1>3, <1>4, <1>5, OneStep

LEMMA InsertDayStep ==
  ASSUME Inv, NEW r \in Requests, InsertDay(r)
  PROVE  Inv'
<1> DEFINE j == [req[r] EXCEPT !.filled = req[r].filled + 1]
<1>0. req[r] \in Request /\ req[r].pc = "saving" /\ req[r].filled < WeekLength
  BY DEF Inv, Types, InsertDay
<1>1. j \in Request /\ j.pc = "saving" /\ j.user = req[r].user /\ j.id = req[r].id
  BY <1>0, SavedWeeksAssumption DEF Request
<1>2. req' = [req EXCEPT ![r] = j] /\ UNCHANGED <<weeks, days, drawn>>
  BY DEF InsertDay
<1>3. drawn' \subseteq WeekIds
  BY <1>2 DEF Inv, Types
<1> HIDE DEF j
<1>4. RequestOK(j, drawn') /\ ShownOK(j)
  <2>1. RequestOK(req[r], drawn)
    BY DEF Inv
  <2>2. QED BY <2>1, <1>0, <1>1, <1>2 DEF RequestOK, ShownOK
<1>5. ASSUME NEW q \in Requests \ {r} PROVE Apart(req[q], j) /\ Apart(j, req[q])
  <2>1. Apart(req[q], req[r]) /\ Apart(req[r], req[q])
    BY DEF Inv
  <2>2. QED BY <2>1, <1>0, <1>1 DEF Apart
<1>6. QED BY <1>1, <1>2, <1>3, <1>4, <1>5, OneStep

\* The days of a week that is on the shelf, and of one that is not.
LEMMA DaysRead ==
  ASSUME Inv, NEW i \in WeekIds
  PROVE  /\ DaysOf(days, i) \subseteq Days
         /\ DaysOf(days, i) = Days \/ (DaysOf(days, i) = {} /\ \A w \in weeks : w.id # i)
<1>1. DaysOf(days, i) \subseteq Days
  BY DEF DaysOf, Inv, Types, DayRow
<1>2. CASE \E w \in weeks : w.id = i
  BY <1>1, <1>2 DEF Inv, WholeWeeks
<1>3. CASE \A w \in weeks : w.id # i
  <2>1. {e \in days : e.id = i} = {}
    BY <1>3 DEF Inv, WholeWeeks
  <2>2. DaysOf(days, i) = {}
    BY <2>1 DEF DaysOf
  <2>3. QED BY <1>3, <2>2
<1>4. QED BY <1>1, <1>2, <1>3

LEMMA FillDaysStep ==
  ASSUME Inv, NEW r \in Requests, FillDays(r)
  PROVE  Inv'
<1> DEFINE S == {[id |-> w.id, days |-> DaysOf(days, w.id)] : w \in req[r].parents}
           j == [req[r] EXCEPT !.pc = "answered", !.shown = S]
<1>0. req[r] \in Request /\ req[r].pc = "reading" /\ RequestOK(req[r], drawn)
  BY DEF Inv, Types, FillDays
<1>1. \A w \in req[r].parents : w \in Week /\ w.user = req[r].user
  BY <1>0 DEF Request, RequestOK
<1>2. S \in SUBSET [id : WeekIds, days : SUBSET Days]
  BY <1>1, DaysRead DEF Week
<1>3. ASSUME NEW e \in S
      PROVE  /\ [id |-> e.id, user |-> req[r].user] \in req[r].parents
             /\ e.days = Days \/ (e.days = {} /\ \A w \in weeks : w.id # e.id)
  <2>1. PICK w \in req[r].parents : e = [id |-> w.id, days |-> DaysOf(days, w.id)]
    BY DEF S
  <2>2. w \in Week /\ w.id \in WeekIds /\ w = [id |-> w.id, user |-> req[r].user]
    BY <1>1 DEF Week
  <2>3. e.id = w.id /\ e.days = DaysOf(days, w.id)
    BY <2>1
  <2>4. QED BY <2>2, <2>3, DaysRead
<1> HIDE DEF S
<1>4. /\ j \in Request /\ j.pc = "answered" /\ j.user = req[r].user
      /\ j.parents = req[r].parents /\ j.shown = S
  BY <1>0, <1>2 DEF Request
<1>5. req' = [req EXCEPT ![r] = j] /\ UNCHANGED <<weeks, days, drawn>>
  BY DEF FillDays, S
<1>6. drawn' \subseteq WeekIds
  BY <1>5 DEF Inv, Types
<1> HIDE DEF j
<1>7. RequestOK(j, drawn') /\ ShownOK(j)
  BY <1>0, <1>3, <1>4, <1>5 DEF RequestOK, ShownOK
<1>8. ASSUME NEW q \in Requests \ {r} PROVE Apart(req[q], j) /\ Apart(j, req[q])
  <2>1. Apart(req[q], req[r])
    BY DEF Inv
  <2>2. QED BY <2>1, <1>0, <1>4 DEF Apart
<1>9. QED BY <1>4, <1>5, <1>6, <1>7, <1>8, OneStep

\* A week committed whole, under an id nobody else has.
LEMMA CommitStep ==
  ASSUME Inv, NEW r \in Requests, Commit(r)
  PROVE  Inv'
<1> DEFINE i == req[r].id
           new == [id |-> i, user |-> req[r].user]
<1>1. /\ req[r] \in Request /\ req[r].pc = "saving" /\ req[r].user \in Users
      /\ i \in drawn /\ i \in WeekIds /\ \A w \in weeks : w.id # i
  BY DEF Inv, Types, Commit, RequestOK
<1>2. new \in Week /\ new.id = i
  BY <1>1 DEF Week
<1>3. /\ weeks' = weeks \cup {new} /\ days' = days \cup RowsFor(i, WeekLength)
      /\ req' = [req EXCEPT ![r] = Idle] /\ drawn' = drawn
  BY DEF Commit, Leave
<1>4. RowsFor(i, WeekLength) = {[id |-> i, day |-> d] : d \in Days}
  BY DEF RowsFor, Days
<1> HIDE DEF new, i
<1>5. RowsFor(i, WeekLength) \subseteq DayRow /\ \A d \in RowsFor(i, WeekLength) : d.id = i
  BY <1>1, <1>4 DEF DayRow
<1>6. Types'
  BY <1>2, <1>3, <1>5, IdleFacts DEF Inv, Types
<1>7. (\A w \in weeks : w.id \in drawn)'
  BY <1>1, <1>2, <1>3 DEF Inv
<1>8. WholeWeeks'
  <2>1. ASSUME NEW w \in weeks PROVE DaysOf(days', w.id) = Days
    <3>1. w.id # i
      BY <1>1
    <3>2. {e \in days' : e.id = w.id} = {e \in days : e.id = w.id}
      BY <3>1, <1>3, <1>5
    <3>3. DaysOf(days', w.id) = DaysOf(days, w.id)
      BY <3>2 DEF DaysOf
    <3>4. QED BY <3>3 DEF Inv, WholeWeeks
  <2>2. DaysOf(days', i) = Days
    <3>1. \A d \in days : d.id # i
      BY <1>1 DEF Inv, WholeWeeks
    <3>2. {e \in days' : e.id = i} = RowsFor(i, WeekLength)
      BY <3>1, <1>3, <1>5
    <3>3. DaysOf(days', i) = {e.day : e \in RowsFor(i, WeekLength)}
      BY <3>2 DEF DaysOf
    <3>4. /\ \A d \in Days : [id |-> i, day |-> d] \in RowsFor(i, WeekLength)
          /\ \A e \in RowsFor(i, WeekLength) : e.day \in Days
      BY <1>4
    <3>5. \A d \in Days : [id |-> i, day |-> d].day = d
      OBVIOUS
    <3>6. QED BY <3>3, <3>4, <3>5
  <2>3. \A d \in days' : \E w \in weeks' : w.id = d.id
    BY <1>2, <1>3, <1>5 DEF Inv, WholeWeeks
  <2>4. \A v, w \in weeks' : v.id = w.id => v = w
    BY <1>1, <1>2, <1>3 DEF Inv, WholeWeeks
  <2>5. QED BY <1>2, <1>3, <2>1, <2>2, <2>3, <2>4 DEF WholeWeeks
<1>9. \A q \in Requests : req'[q] = IF q = r THEN Idle ELSE req[q]
  BY <1>3 DEF Inv, Types
<1>10. ASSUME NEW q \in Requests PROVE RequestOK(req[q], drawn)' /\ ShownOK(req[q])'
  <2>1. CASE q = r
    BY <2>1, <1>9, IdleFacts DEF RequestOK, ShownOK
  <2>2. CASE q # r
    <3>1. RequestOK(req[q], drawn) /\ ShownOK(req[q]) /\ Apart(req[r], req[q])
      BY <2>2 DEF Inv
    <3>2. RequestOK(req[q], drawn)'
      BY <2>2, <3>1, <1>1, <1>2, <1>3, <1>9 DEF RequestOK, Apart, i
    <3>3. ASSUME req[q].pc = "answered", NEW e \in req[q].shown PROVE e.id # i
      BY <3>1, <3>3, <1>1 DEF ShownOK, Apart, i
    <3>4. ShownOK(req[q])'
      BY <2>2, <3>1, <3>3, <1>2, <1>3, <1>9 DEF ShownOK
    <3>5. QED BY <3>2, <3>4
  <2>3. QED BY <2>1, <2>2
<1>11. ASSUME NEW q \in Requests, NEW s \in Requests, q # s
       PROVE  Apart(req[q], req[s])'
  <2>1. Apart(req[q], req[s])
    BY <1>11 DEF Inv
  <2>2. QED BY <2>1, <1>9, IdleFacts DEF Apart
<1>12. QED BY <1>6, <1>7, <1>8, <1>10, <1>11 DEF Inv

\* A week deleted with its days, or nothing when the row is not the user's.
LEMMA DeleteStep ==
  ASSUME Inv, NEW r \in Requests, Delete(r)
  PROVE  Inv'
<1> DEFINE gone == {w \in WeeksOf(req[r].user) : w.id = req[r].id}
<1>1. gone \subseteq weeks
  BY DEF WeeksOf
<1>2. /\ weeks' = weeks \ gone /\ days' = {d \in days : d.id \notin {w.id : w \in gone}}
      /\ req' = [req EXCEPT ![r] = Idle] /\ drawn' = drawn
  BY DEF Delete, Leave
<1> HIDE DEF gone
<1>3. Types'
  BY <1>2, IdleFacts DEF Inv, Types
<1>4. (\A w \in weeks : w.id \in drawn)'
  BY <1>2 DEF Inv
<1>5. WholeWeeks'
  <2>1. ASSUME NEW w \in weeks' PROVE DaysOf(days', w.id) = Days
    <3>1. w.id \notin {v.id : v \in gone}
      BY <1>1, <1>2 DEF Inv, WholeWeeks
    <3>2. {e \in days' : e.id = w.id} = {e \in days : e.id = w.id}
      BY <3>1, <1>2
    <3>3. DaysOf(days', w.id) = DaysOf(days, w.id)
      BY <3>2 DEF DaysOf
    <3>4. QED BY <3>3, <1>2 DEF Inv, WholeWeeks
  <2>2. ASSUME NEW d \in days' PROVE \E w \in weeks' : w.id = d.id
    <3>1. PICK w \in weeks : w.id = d.id
      BY <1>2 DEF Inv, WholeWeeks
    <3>2. w \notin gone
      BY <3>1, <1>2
    <3>3. QED BY <3>1, <3>2, <1>2
  <2>3. \A v, w \in weeks' : v.id = w.id => v = w
    BY <1>2 DEF Inv, WholeWeeks
  <2>4. QED BY <2>1, <2>2, <2>3 DEF WholeWeeks
<1>6. \A q \in Requests : req'[q] = IF q = r THEN Idle ELSE req[q]
  BY <1>2 DEF Inv, Types
<1>7. ASSUME NEW q \in Requests PROVE RequestOK(req[q], drawn)' /\ ShownOK(req[q])'
  <2>1. CASE q = r
    BY <2>1, <1>6, IdleFacts DEF RequestOK, ShownOK
  <2>2. CASE q # r
    <3>1. RequestOK(req[q], drawn) /\ ShownOK(req[q])
      BY DEF Inv
    <3>2. QED BY <2>2, <3>1, <1>2, <1>6 DEF RequestOK, ShownOK
  <2>3. QED BY <2>1, <2>2
<1>8. ASSUME NEW q \in Requests, NEW s \in Requests, q # s
      PROVE  Apart(req[q], req[s])'
  <2>1. Apart(req[q], req[s])
    BY <1>8 DEF Inv
  <2>2. QED BY <2>1, <1>6, IdleFacts DEF Apart
<1>9. QED BY <1>3, <1>4, <1>5, <1>7, <1>8 DEF Inv

LEMMA StepInv == Inv /\ [Next]_vars => Inv'
<1> SUFFICES ASSUME Inv, [Next]_vars PROVE Inv'
  OBVIOUS
<1>1. CASE UNCHANGED vars
  BY <1>1 DEF vars, Inv, Types, WholeWeeks, RequestOK, ShownOK, Apart
<1>2. ASSUME NEW r \in Requests, NEW u \in Users, Count(r, u) PROVE Inv'
  BY <1>2, CountStep
<1>3. ASSUME NEW r \in Requests, NEW i \in WeekIds, InsertWeek(r, i) PROVE Inv'
  BY <1>3, InsertWeekStep
<1>4. ASSUME NEW r \in Requests, InsertDay(r) PROVE Inv'
  BY <1>4, InsertDayStep
<1>5. ASSUME NEW r \in Requests, Commit(r) PROVE Inv'
  BY <1>5, CommitStep
<1>6. ASSUME NEW r \in Requests, Abandon(r) \/ Answer(r) PROVE Inv'
  BY <1>6, LeaveStep DEF Abandon, Answer
<1>7. ASSUME NEW r \in Requests, NEW u \in Users, NEW i \in WeekIds, AskDelete(r, u, i)
      PROVE  Inv'
  BY <1>7, AskDeleteStep
<1>8. ASSUME NEW r \in Requests, Delete(r) PROVE Inv'
  BY <1>8, DeleteStep
<1>9. ASSUME NEW r \in Requests, NEW u \in Users, List(r, u) PROVE Inv'
  BY <1>9, ReadStep DEF List
<1>10. ASSUME NEW r \in Requests, NEW u \in Users, NEW i \in WeekIds, Find(r, u, i)
       PROVE  Inv'
  <2>1. PICK w \in WeeksOf(u) : Enter(r, "reading", u, i, {w})
    BY <1>10 DEF Find
  <2>2. {w} \in SUBSET WeeksOf(u) /\ UNCHANGED <<weeks, days, drawn>>
    BY <1>10 DEF Find
  <2>3. QED BY <2>1, <2>2, ReadStep
<1>11. ASSUME NEW r \in Requests, FillDays(r) PROVE Inv'
  BY <1>11, FillDaysStep
<1>12. QED
  BY <1>1, <1>2, <1>3, <1>4, <1>5, <1>6, <1>7, <1>8, <1>9, <1>10, <1>11 DEF Next

\* In every reachable state the stored weeks are whole, an id that Save has
\* drawn is its own, and List and Find answer with weeks whole or deleted.
THEOREM ShelfInvariant == Spec => []Inv
BY InitInv, StepInv, PTL DEF Spec

-----------------------------------------------------------------------------
LEMMA RoomInit == Init => RoomInv
<1> SUFFICES ASSUME Init PROVE RoomInv
  OBVIOUS
<1>1. ASSUME NEW u \in Users PROVE WeeksOf(u) = {} /\ Saving(u) = {}
  BY IdleFacts DEF Init, WeeksOf, Saving
<1>2. Cardinality(Requests) \in Nat /\ Cardinality(Requests) # 0
  BY SavedWeeksAssumption, FS_CardinalityType, FS_EmptySet
<1>3. QED BY <1>1, <1>2, FS_EmptySet, SavedWeeksAssumption DEF RoomInv, Init

\* The sets that are counted, as finite sets.
LEMMA Counted ==
  ASSUME IsFiniteSet(weeks), NEW u \in Users
  PROVE  /\ IsFiniteSet(WeeksOf(u)) /\ IsFiniteSet(Saving(u))
         /\ Cardinality(WeeksOf(u)) \in Nat /\ Cardinality(Saving(u)) \in Nat
         /\ Cardinality(Saving(u)) <= Cardinality(Requests)
<1>1. IsFiniteSet(WeeksOf(u))
  BY FS_Subset DEF WeeksOf
<1>2. IsFiniteSet(Saving(u)) /\ Cardinality(Saving(u)) <= Cardinality(Requests)
  BY FS_Subset, SavedWeeksAssumption DEF Saving
<1>3. QED BY <1>1, <1>2, FS_CardinalityType

\* A step that adds no week and lets no further request count.
LEMMA NoMore ==
  ASSUME RoomInv, weeks' \subseteq weeks, NEW u \in Users, Saving(u)' \subseteq Saving(u)
  PROVE  Cardinality(WeeksOf(u)') + Cardinality(Saving(u)') <= Limit + Cardinality(Requests) - 1
<1>1. WeeksOf(u)' \subseteq WeeksOf(u)
  BY DEF WeeksOf
<1>2. /\ IsFiniteSet(WeeksOf(u)) /\ IsFiniteSet(Saving(u))
      /\ Cardinality(WeeksOf(u)) \in Nat /\ Cardinality(Saving(u)) \in Nat
  BY Counted DEF RoomInv
<1>3. Cardinality(WeeksOf(u)') <= Cardinality(WeeksOf(u)) /\ IsFiniteSet(WeeksOf(u)')
  BY <1>1, <1>2, FS_Subset
<1>4. Cardinality(Saving(u)') <= Cardinality(Saving(u)) /\ IsFiniteSet(Saving(u)')
  BY <1>2, FS_Subset
<1>5. Cardinality(WeeksOf(u)') \in Nat /\ Cardinality(Saving(u)') \in Nat
  BY <1>3, <1>4, FS_CardinalityType
<1>6. Cardinality(Requests) \in Nat /\ Limit \in Nat
  BY SavedWeeksAssumption, FS_CardinalityType
<1>7. QED BY <1>2, <1>3, <1>4, <1>5, <1>6 DEF RoomInv

\* A step of a request that leaves the shelf no fuller and does not count.
LEMMA QuietStep ==
  ASSUME Inv, RoomInv, NEW r \in Requests, NEW j, req' = [req EXCEPT ![r] = j],
         weeks' \subseteq weeks,
         j.pc \in {"counted", "saving"} =>
           req[r].pc \in {"counted", "saving"} /\ j.user = req[r].user
  PROVE  RoomInv'
<1>1. \A q \in Requests : req'[q] = IF q = r THEN j ELSE req[q]
  BY DEF Inv, Types
<1>2. ASSUME NEW u \in Users PROVE Saving(u)' \subseteq Saving(u)
  BY <1>1 DEF Saving
<1>3. IsFiniteSet(weeks')
  BY FS_Subset DEF RoomInv
<1>4. QED BY <1>2, <1>3, NoMore DEF RoomInv

LEMMA QuietActions ==
  ASSUME Inv, RoomInv, NEW r \in Requests,
         \/ \E i \in WeekIds : InsertWeek(r, i)
         \/ \E u \in Users, i \in WeekIds : AskDelete(r, u, i)
         \/ \E u \in Users, i \in WeekIds : Find(r, u, i)
         \/ \E u \in Users : List(r, u)
         \/ InsertDay(r) \/ Abandon(r) \/ Delete(r) \/ FillDays(r) \/ Answer(r)
  PROVE  RoomInv'
<1>0. req[r] \in Request
  BY DEF Inv, Types
<1>1. ASSUME NEW i \in WeekIds, InsertWeek(r, i) PROVE RoomInv'
  <2> DEFINE j == [req[r] EXCEPT !.pc = "saving", !.id = i]
  <2>1. j.user = req[r].user /\ req[r].pc = "counted"
    BY <1>0, <1>1 DEF InsertWeek, Request
  <2>2. req' = [req EXCEPT ![r] = j] /\ weeks' \subseteq weeks
    BY <1>1 DEF InsertWeek
  <2> HIDE DEF j
  <2>3. QED BY <2>1, <2>2, QuietStep
<1>2. CASE InsertDay(r)
  <2> DEFINE j == [req[r] EXCEPT !.filled = req[r].filled + 1]
  <2>1. j.user = req[r].user /\ req[r].pc = "saving"
    BY <1>0, <1>2 DEF InsertDay, Request
  <2>2. req' = [req EXCEPT ![r] = j] /\ weeks' \subseteq weeks
    BY <1>2 DEF InsertDay
  <2> HIDE DEF j
  <2>3. QED BY <2>1, <2>2, QuietStep
<1>3. CASE Abandon(r) \/ Answer(r) \/ Delete(r)
  <2>1. req' = [req EXCEPT ![r] = Idle] /\ weeks' \subseteq weeks
    BY <1>3 DEF Abandon, Answer, Delete, Leave
  <2>2. QED BY <2>1, IdleFacts, QuietStep
<1>4. ASSUME NEW u \in Users, NEW i \in WeekIds, AskDelete(r, u, i) PROVE RoomInv'
  <2>1. req' = [req EXCEPT ![r] = Entered("deleting", u, i, {})] /\ weeks' \subseteq weeks
    BY <1>4 DEF AskDelete, Enter, Entered
  <2>2. Entered("deleting", u, i, {}).pc = "deleting"
    BY EnterFacts
  <2>3. QED BY <2>1, <2>2, QuietStep
<1>5. ASSUME NEW u \in Users, List(r, u) PROVE RoomInv'
  <2>1. req' = [req EXCEPT ![r] = Entered("reading", u, NoWeek, WeeksOf(u))] /\ weeks' \subseteq weeks
    BY <1>5 DEF List, Enter, Entered
  <2>2. WeeksOf(u) \in SUBSET Week
    BY DEF WeeksOf, Inv, Types
  <2>3. Entered("reading", u, NoWeek, WeeksOf(u)).pc = "reading"
    BY <2>2, EnterFacts
  <2>4. QED BY <2>1, <2>3, QuietStep
<1>6. ASSUME NEW u \in Users, NEW i \in WeekIds, Find(r, u, i) PROVE RoomInv'
  <2>1. PICK w \in WeeksOf(u) : req' = [req EXCEPT ![r] = Entered("reading", u, i, {w})]
    BY <1>6 DEF Find, Enter, Entered
  <2>2. {w} \in SUBSET Week
    BY DEF WeeksOf, Inv, Types
  <2>3. Entered("reading", u, i, {w}).pc = "reading"
    BY <2>2, EnterFacts
  <2>4. weeks' \subseteq weeks
    BY <1>6 DEF Find
  <2>5. QED BY <2>1, <2>3, <2>4, QuietStep
<1>7. CASE FillDays(r)
  <2> DEFINE j == [req[r] EXCEPT !.pc = "answered",
                   !.shown = {[id |-> w.id, days |-> DaysOf(days, w.id)] : w \in req[r].parents}]
  <2>1. j.pc = "answered"
    BY <1>0 DEF Request
  <2>2. req' = [req EXCEPT ![r] = j] /\ weeks' \subseteq weeks
    BY <1>7 DEF FillDays
  <2> HIDE DEF j
  <2>3. QED BY <2>1, <2>2, QuietStep
<1>8. QED BY <1>1, <1>2, <1>3, <1>4, <1>5, <1>6, <1>7

\* A request that counts has found less than the limit, and at most all
\* requests are then about to save.
LEMMA RoomCount ==
  ASSUME Inv, RoomInv, NEW r \in Requests, NEW u \in Users, Count(r, u)
  PROVE  RoomInv'
<1> DEFINE j == Entered("counted", u, NoWeek, {})
<1>1. j.pc = "counted" /\ j.user = u
  BY EnterFacts
<1>2. /\ req' = [req EXCEPT ![r] = j] /\ weeks' = weeks
      /\ Cardinality(WeeksOf(u)) < Limit
  BY DEF Count, Enter, Entered
<1> HIDE DEF j
<1>3. \A q \in Requests : req'[q] = IF q = r THEN j ELSE req[q]
  BY <1>2 DEF Inv, Types
<1>4. ASSUME NEW v \in Users
      PROVE  Cardinality(WeeksOf(v)') + Cardinality(Saving(v)') <= Limit + Cardinality(Requests) - 1
  <2>1. CASE v = u
    <3>1. IsFiniteSet(Saving(v)') /\ Cardinality(Saving(v)') <= Cardinality(Requests)
      BY FS_Subset, SavedWeeksAssumption DEF Saving
    <3>2. Cardinality(Saving(v)') \in Nat /\ Cardinality(Requests) \in Nat
      BY <3>1, SavedWeeksAssumption, FS_CardinalityType
    <3>3. WeeksOf(v)' = WeeksOf(u) /\ Cardinality(WeeksOf(u)) \in Nat
      BY <2>1, <1>2, Counted DEF WeeksOf, RoomInv
    <3>4. QED BY <3>1, <3>2, <3>3, <1>2, SavedWeeksAssumption
  <2>2. CASE v # u
    <3>1. Saving(v)' \subseteq Saving(v)
      BY <2>2, <1>1, <1>3 DEF Saving
    <3>2. QED BY <3>1, <1>2, NoMore
  <2>3. QED BY <2>1, <2>2
<1>5. QED BY <1>2, <1>4 DEF RoomInv

\* A week committed is one request fewer that may still save.
LEMMA RoomCommit ==
  ASSUME Inv, RoomInv, NEW r \in Requests, Commit(r)
  PROVE  RoomInv'
<1> DEFINE u == req[r].user
           new == [id |-> req[r].id, user |-> u]
<1>1. u \in Users /\ req[r].pc = "saving"
  BY DEF Inv, Types, Commit, RequestOK
<1>2. weeks' = weeks \cup {new} /\ req' = [req EXCEPT ![r] = Idle] /\ new.user = u
  BY DEF Commit, Leave
<1>3. \A q \in Requests : req'[q] = IF q = r THEN Idle ELSE req[q]
  BY <1>2 DEF Inv, Types
<1>4. r \in Saving(u)
  BY <1>1 DEF Saving
<1> HIDE DEF u, new
<1>5. ASSUME NEW v \in Users
      PROVE  Cardinality(WeeksOf(v)') + Cardinality(Saving(v)') <= Limit + Cardinality(Requests) - 1
  <2>0. /\ IsFiniteSet(WeeksOf(v)) /\ IsFiniteSet(Saving(v))
        /\ Cardinality(WeeksOf(v)) \in Nat /\ Cardinality(Saving(v)) \in Nat
        /\ Cardinality(Requests) \in Nat /\ Limit \in Nat
        /\ Cardinality(WeeksOf(v)) + Cardinality(Saving(v)) <= Limit + Cardinality(Requests) - 1
    BY Counted, SavedWeeksAssumption, FS_CardinalityType DEF RoomInv
  <2>1. CASE v = u
    <3>1. WeeksOf(v)' = WeeksOf(v) \cup {new}
      BY <2>1, <1>2 DEF WeeksOf
    <3>2. Cardinality(WeeksOf(v)') <= Cardinality(WeeksOf(v)) + 1 /\ Cardinality(WeeksOf(v)') \in Nat
      <4>1. Cardinality(WeeksOf(v) \cup {new}) \in
              {Cardinality(WeeksOf(v)), Cardinality(WeeksOf(v)) + 1}
        BY <2>0, FS_AddElement
      <4>2. QED BY <2>0, <3>1, <4>1
    <3>3. Saving(v)' = Saving(v) \ {r}
      BY <1>3, IdleFacts DEF Saving
    <3>4. Cardinality(Saving(v)') = Cardinality(Saving(v)) - 1
      BY <2>0, <2>1, <3>3, <1>4, FS_RemoveElement
    <3>5. QED BY <2>0, <3>2, <3>4
  <2>2. CASE v # u
    <3>1. WeeksOf(v)' = WeeksOf(v)
      BY <2>2, <1>2 DEF WeeksOf
    <3>2. Saving(v)' \subseteq Saving(v)
      BY <1>3, IdleFacts DEF Saving
    <3>3. Cardinality(Saving(v)') <= Cardinality(Saving(v)) /\ Cardinality(Saving(v)') \in Nat
      BY <2>0, <3>2, FS_Subset, FS_CardinalityType
    <3>4. QED BY <2>0, <3>1, <3>3
  <2>3. QED BY <2>1, <2>2
<1>6. IsFiniteSet(weeks')
  BY <1>2, FS_AddElement DEF RoomInv
<1>7. QED BY <1>5, <1>6 DEF RoomInv

LEMMA RoomStep == Inv /\ RoomInv /\ [Next]_vars => RoomInv'
<1> SUFFICES ASSUME Inv, RoomInv, [Next]_vars PROVE RoomInv'
  OBVIOUS
<1>1. CASE UNCHANGED vars
  BY <1>1 DEF vars, RoomInv, WeeksOf, Saving
<1>2. ASSUME NEW r \in Requests, NEW u \in Users, Count(r, u) PROVE RoomInv'
  BY <1>2, RoomCount
<1>3. ASSUME NEW r \in Requests, Commit(r) PROVE RoomInv'
  BY <1>3, RoomCommit
<1>4. ASSUME NEW r \in Requests,
             \/ \E i \in WeekIds : InsertWeek(r, i)
             \/ \E u \in Users, i \in WeekIds : AskDelete(r, u, i)
             \/ \E u \in Users, i \in WeekIds : Find(r, u, i)
             \/ \E u \in Users : List(r, u)
             \/ InsertDay(r) \/ Abandon(r) \/ Delete(r) \/ FillDays(r) \/ Answer(r)
      PROVE  RoomInv'
  BY <1>4, QuietActions
<1>5. QED BY <1>1, <1>2, <1>3, <1>4 DEF Next

\* The limit on saved weeks, checked before the insert and in another
\* statement, is passed by at most one week for each other request.
THEOREM SavedShelfBound == Spec => []ShelfBound
<1>1. RoomInv => ShelfBound
  <2> SUFFICES ASSUME RoomInv, NEW u \in Users
      PROVE Cardinality(WeeksOf(u)) <= Limit + Cardinality(Requests) - 1
    BY DEF ShelfBound
  <2>1. /\ Cardinality(WeeksOf(u)) \in Nat /\ Cardinality(Saving(u)) \in Nat
        /\ Cardinality(Requests) \in Nat /\ Limit \in Nat
    BY Counted, SavedWeeksAssumption, FS_CardinalityType DEF RoomInv
  <2>2. QED BY <2>1 DEF RoomInv
<1>2. Spec => []RoomInv
  BY RoomInit, RoomStep, ShelfInvariant, PTL DEF Spec
<1>3. QED BY <1>1, <1>2, PTL

\* Every week on the shelf has all its days and every day its week, for any
\* number of users, requests and days, whatever fails or is deleted when.
THEOREM SavedWholeWeeks == Spec => []WholeWeeks
<1>1. Inv => WholeWeeks
  BY DEF Inv
<1>2. QED BY <1>1, ShelfInvariant, PTL

\* A list or a week shown is of the user who asked, and each week in it whole,
\* or empty and deleted between the two reads.
THEOREM SavedShownWholeOrGone == Spec => []ShownWholeOrGone
<1>1. Inv => ShownWholeOrGone
  BY DEF Inv, ShownOK, ShownWholeOrGone
<1>2. QED BY <1>1, ShelfInvariant, PTL

\* Every variable keeps its type; a request under way has its user, and one
\* that is saving an id handed out before.
THEOREM SavedTypeOK == Spec => []TypeOK
<1>1. Inv => TypeOK
  BY DEF Inv, Types, TypeOK, RequestOK
<1>2. QED BY <1>1, ShelfInvariant, PTL

=============================================================================
