----------------------------- MODULE WeeklyPage -----------------------------
(***************************************************************************)
(* The page that makes a week (features/menu/WeeklyPage.tsx) while it is   *)
(* mounted: the week on screen, the id it is saved under, and the three    *)
(* mutations, each of which blocks only its own button.  The backend is    *)
(* the environment: with enough candidates, WeekPlanner answers with weeks *)
(* of distinct menus, and a redraw with a menu that the other days of the  *)
(* week it was sent lack.  The filter is left out: any answer may come.    *)
(***************************************************************************)
EXTENDS Week, FiniteSets

CONSTANTS
  SavedIds,  \* bound: ids of saved weeks
  NoId, NoWeek

ASSUME WeeklyPageAssumption ==
  /\ NoId \notin SavedIds
  /\ NoWeek \notin [Days -> Menus]

VARIABLES
  shown,    \* weekly.week
  savedId,  \* weekly.savedId
  shelf,    \* the saved weeks of the user, by id, at the server
  create,   \* create.isPending
  reroll,   \* reroll: pending, and the day and week it was asked for
  save,     \* save.status, and the week it was asked for
  crossed,  \* history variable: a day of the week on screen was redrawn for a
            \* week that had been replaced since
  mixed     \* history variable: between request and answer of the save that is
            \* under way, or has left its mark on the screen, the week changed or
            \* a change of it was pending

pageVars == <<shown, savedId, shelf, create, reroll, save, crossed, mixed>>

-----------------------------------------------------------------------------
Weeks == [Days -> Menus]
Distinct(w) == \A d, e \in Days : w[d] = w[e] => d = e

NoReroll == [pending |-> FALSE, day |-> 1, of |-> NoWeek]
NoSave == [status |-> "idle", of |-> NoWeek]

\* The page is mounted with what the session keeps: nothing, a week that was
\* made, or one that SavedWeeklyPage opened.
InitPage ==
  /\ shelf \in [SavedIds -> {w \in Weeks : Distinct(w)} \cup {NoWeek}]
  /\ shown \in {w \in Weeks : Distinct(w)} \cup {NoWeek}
  /\ savedId \in {NoId} \cup {i \in SavedIds : shown # NoWeek /\ shelf[i] = shown}
  /\ create = FALSE
  /\ reroll = NoReroll
  /\ save = NoSave
  /\ crossed = FALSE /\ mixed = FALSE

\* Mutant: the notice is left on the screen.
KeepSaved == save

\* clearSaved: the outcome of a save that was answered is taken off the screen.
ClearSaved == IF save.status \in {"success", "error"} THEN NoSave ELSE save

\* When the week changes, what is left of a save that it crosses: a save still to
\* be answered, or one that was answered while the change was pending.
SaveLingers == save.status = "pending" \/ (mixed /\ save.status = "success")

-----------------------------------------------------------------------------
\* onSubmit of the form, disabled while a week is being made.
Submit ==
  /\ ~create
  /\ create' = TRUE
  /\ save' = ClearSaved
  /\ mixed' = (mixed \/ save.status = "pending")
  /\ UNCHANGED <<shown, savedId, shelf, reroll, crossed>>

\* Mutant of Created: the id of the former week is kept.
CreatedKeepingId(w) ==
  /\ create /\ Distinct(w)
  /\ create' = FALSE
  /\ shown' = w
  /\ mixed' = SaveLingers /\ crossed' = FALSE
  /\ UNCHANGED <<savedId, shelf, reroll, save>>

\* create.onSuccess.
Created(w) ==
  /\ create /\ Distinct(w)
  /\ create' = FALSE
  /\ shown' = w
  /\ savedId' = NoId
  /\ mixed' = SaveLingers /\ crossed' = FALSE
  /\ UNCHANGED <<shelf, reroll, save>>

CreateFailed ==
  /\ create
  /\ create' = FALSE
  /\ UNCHANGED <<shown, savedId, shelf, reroll, save, crossed, mixed>>

-----------------------------------------------------------------------------
\* The redraw button of a day, disabled while any day is being redrawn.
ClickReroll(d) ==
  /\ shown # NoWeek /\ ~reroll.pending
  /\ reroll' = [pending |-> TRUE, day |-> d, of |-> shown]
  /\ save' = ClearSaved
  /\ mixed' = (mixed \/ save.status = "pending")
  /\ UNCHANGED <<shown, savedId, shelf, create, crossed>>

\* Mutant of Redrawn: the answer goes to the day before.
RedrawnOffByOne(menu) ==
  [shown EXCEPT ![IF reroll.day = 1 THEN WeekLength ELSE reroll.day - 1] = menu]

\* The week with the redrawn day: any other day is left as it is now.
Redrawn(menu) == [shown EXCEPT ![reroll.day] = menu]

\* Mutant of Rerolled: the id of the week before the redraw is kept.
RerolledKeepingId(menu) ==
  /\ reroll.pending /\ \A d \in Days \ {reroll.day} : reroll.of[d] # menu
  /\ shown' = Redrawn(menu)
  /\ crossed' = (crossed \/ shown # reroll.of)
  /\ mixed' = SaveLingers
  /\ reroll' = NoReroll
  /\ UNCHANGED <<savedId, shelf, create, save>>

\* reroll.onSuccess.
Rerolled(menu) ==
  /\ reroll.pending /\ \A d \in Days \ {reroll.day} : reroll.of[d] # menu
  /\ shown' = Redrawn(menu)
  /\ savedId' = NoId
  /\ crossed' = (crossed \/ shown # reroll.of)
  /\ mixed' = SaveLingers
  /\ reroll' = NoReroll
  /\ UNCHANGED <<shelf, create, save>>

RerollFailed ==
  /\ reroll.pending
  /\ reroll' = NoReroll
  /\ UNCHANGED <<shown, savedId, shelf, create, save, crossed, mixed>>

-----------------------------------------------------------------------------

\* The save button, disabled while a save is pending.
ClickSave ==
  /\ shown # NoWeek /\ save.status # "pending"
  /\ save' = [status |-> "pending", of |-> shown]
  /\ mixed' = (mixed \/ create \/ reroll.pending)
  /\ UNCHANGED <<shown, savedId, shelf, create, reroll, crossed>>

\* The server keeps the week under a new id, and save.onSuccess.
Saved(i) ==
  /\ save.status = "pending" /\ shelf[i] = NoWeek
  /\ shelf' = [shelf EXCEPT ![i] = save.of]
  /\ savedId' = i
  /\ save' = [save EXCEPT !.status = "success"]
  /\ UNCHANGED <<shown, create, reroll, crossed, mixed>>

\* The limit of saved weeks, or a failure on the way.
SaveFailed ==
  /\ save.status = "pending"
  /\ save' = [save EXCEPT !.status = "error"]
  /\ UNCHANGED <<shown, savedId, shelf, create, reroll, crossed, mixed>>

NextPage ==
  \/ Submit
  \/ \E w \in Weeks : Created(w)
  \/ CreateFailed
  \/ \E d \in Days : ClickReroll(d)
  \/ \E m \in Menus : Rerolled(m)
  \/ RerollFailed
  \/ ClickSave
  \/ \E i \in SavedIds : Saved(i)
  \/ SaveFailed

SpecPage == InitPage /\ [][NextPage]_pageVars

-----------------------------------------------------------------------------
\* Every variable has its type, and an id on screen is one of a saved week.
TypeOKPage ==
  /\ shown \in Weeks \cup {NoWeek}
  /\ shelf \in [SavedIds -> Weeks \cup {NoWeek}]
  /\ savedId \in {NoId} \cup {i \in SavedIds : shelf[i] # NoWeek}
  /\ create \in BOOLEAN
  /\ reroll \in [pending : BOOLEAN, day : Days, of : Weeks \cup {NoWeek}]
  /\ save \in [status : {"idle", "pending", "success", "error"}, of : Weeks \cup {NoWeek}]
  /\ crossed \in BOOLEAN /\ mixed \in BOOLEAN

\* What the comment of create's onSuccess wants (「古い保存IDを持ち越すと、買い物リストが
\* 別の週の差分を誤って重ねてしまう」): the id on screen is that of the week on screen.
SavedIdMatches == savedId # NoId => shelf[savedId] = shown

\* "Saved" is said of the week on screen (clearSaved).
NoticeMatches == save.status = "success" => save.of = shown

\* A redrawn day repeats no other day (spec.md, reroll-day).
WeekDistinct == shown # NoWeek => Distinct(shown)

\* setSavedId(null) of create and reroll, and clearSaved: the id on screen, which
\* the shopping list is fetched by, is that of the week on screen, and "saved"
\* is said of that week, unless the week changed or was being changed while its
\* save was under way; and then only until the week is next replaced or redrawn
\* with no save pending.
SavedIdUnlessMixed == ~mixed => SavedIdMatches /\ NoticeMatches

\* reroll.onSuccess replaces one day and no other: the week on screen keeps
\* distinct menus unless a redraw for the week before it was answered into it; a
\* new week sets it right.
DistinctUnlessCrossed == ~crossed => WeekDistinct
=============================================================================
