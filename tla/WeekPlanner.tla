---------------------------- MODULE WeekPlanner ----------------------------
(***************************************************************************)
(* One user's planning: Suggest proposes a single menu, SuggestWeekly      *)
(* builds a week day by day, RerollDay replaces one day of the week the    *)
(* caller holds.  The server keeps no week: plan is the caller's, and      *)
(* holds menus only, as the requests and answers of the HTTP handler do.   *)
(* The marks of domain.DayMenu exist where MenuService returns them: on    *)
(* the days of a week under construction and on the day just redrawn.      *)
(* Which menus the filter admits and which the recent history holds may    *)
(* differ with every request (RecentMenuIDs failing is the empty history). *)
(* No code deletes a menu, so each id of the caller's week has its genre.  *)
(***************************************************************************)
EXTENDS WeekPlan, FiniteSets

CONSTANTS
  Filters,     \* bound: the candidate sets requests are made with
  Histories,   \* bound: the recent menus requests are made with
  NoMenu,      \* no single menu has been answered
  NoDay        \* no day has been redrawn

ASSUME WeekPlannerAssumption ==
  /\ \A C \in Filters : C \subseteq Menus /\ IsFiniteSet(C)
  /\ \A R \in Histories : R \subseteq Menus
  /\ NoMenu \notin Menus /\ NoDay \notin DayMenu

VARIABLES
  plan,        \* the week the caller holds, <<>> before the first
  single,      \* the answer of Suggest, until the next request
  redrawn,     \* the answer of RerollDay, until the next request
  draft,       \* the week SuggestWeekly is filling
  pc,          \* what the server is doing for this user
  day,         \* the day RerollDay was asked for
  candidates,  \* FindByFilter of the request in service
  recent,      \* RecentMenuIDs of the request in service
  forced       \* history variable: for each day of the draft or of the plan,
               \* the rules no candidate could keep when it was drawn

vars == <<plan, single, redrawn, draft, pc, day, candidates, recent, forced>>

MenuSeq(week) == [i \in DOMAIN week |-> week[i].menu]

Init ==
  /\ plan = <<>> /\ draft = <<>> /\ forced = <<>>
  /\ single = NoMenu /\ redrawn = NoDay
  /\ pc = "idle" /\ day = 1
  /\ candidates = {} /\ recent = {}

-----------------------------------------------------------------------------
(* What the rules ask of a day, said of the whole week rather than of the   *)
(* windows that the code slides: the properties and forced are stated with  *)
(* these.                                                                   *)

\* m would be the last of StreakLimit + 1 days of one genre.
EndsStreak(week, m) ==
  LET next == Append(week, m)
  IN  /\ Len(next) > StreakLimit
      /\ Cardinality({GenreOf[next[i]] : i \in (Len(next) - StreakLimit)..Len(next)}) = 1

\* Replacing day d by m makes a longer run around d than the rule allows.
MakesStreak(week, d, m) ==
  LET next == [week EXCEPT ![d] = m]
  IN  \E a, b \in Days :
        /\ a <= d /\ d <= b /\ b - a = StreakLimit
        /\ Cardinality({GenreOf[next[i]] : i \in a..b}) = 1

\* The rules that a day beside this week has to break: a repeat when the week
\* holds every candidate, and a streak when each menu left to choose makes one.
Unkept(week, streaks) ==
  LET unused == candidates \ MenusOf(week)
      choice == IF unused = {} THEN candidates ELSE unused
  IN  (IF unused = {} THEN {"repeat"} ELSE {})
        \cup (IF choice \subseteq streaks THEN {"streak"} ELSE {})

-----------------------------------------------------------------------------
\* The handler has read the history, the service the candidates.
Request(kind, C, R) ==
  /\ pc = "idle"
  /\ pc' = kind
  /\ candidates' = C /\ recent' = R
  /\ single' = NoMenu /\ redrawn' = NoDay

Suggest(C, R) ==
  /\ Request("single", C, R)
  /\ UNCHANGED <<plan, draft, day, forced>>

\* The old week plays no part in the new one; plan lets go of it here (a
\* caller that keeps it when this request fails has made no request at all).
SuggestWeekly(C, R) ==
  /\ Request("suggest", C, R)
  /\ plan' = <<>> /\ forced' = <<>>
  /\ UNCHANGED <<draft, day>>

PickDay ==
  /\ pc = "suggest" /\ Len(draft) < WeekLength
  /\ LET week == MenuSeq(draft)
     IN  /\ \E picked \in NextDays(candidates, recent, week) :
              draft' = Append(draft, picked)
         /\ forced' = Append(forced,
              Unkept(week, {m \in candidates : EndsStreak(week, m)}))
  /\ UNCHANGED <<plan, single, redrawn, pc, day, candidates, recent>>

\* The request is over; nothing of it stays on the server.
Finish ==
  /\ pc' = "idle" /\ day' = 1
  /\ candidates' = {} /\ recent' = {} /\ draft' = <<>>

AnswerSingle ==
  /\ pc = "single"
  /\ single' \in Singles(candidates, recent)
  /\ Finish
  /\ UNCHANGED <<plan, redrawn, forced>>

\* The handler answers the ids of the week, without the marks.
AnswerWeek ==
  /\ pc = "suggest" /\ Len(draft) = WeekLength
  /\ plan' = MenuSeq(draft)
  /\ Finish
  /\ UNCHANGED <<single, redrawn, forced>>

\* A week in the caller's hands always has WeekLength days.
RerollDay(d, C, R) ==
  /\ plan # <<>>
  /\ Request("reroll", C, R)
  /\ day' = d
  /\ UNCHANGED <<plan, draft, forced>>

\* pickForDay answers, and the caller puts the menu into its week.
AnswerDay ==
  /\ pc = "reroll"
  /\ \E picked \in Rerolls(candidates, recent, plan, day) :
       /\ redrawn' = picked
       /\ plan' = [plan EXCEPT ![day] = picked.menu]
  /\ forced' = [forced EXCEPT ![day] =
       Unkept(plan, {m \in candidates : MakesStreak(plan, day, m)})]
  /\ Finish
  /\ UNCHANGED single

\* A request that fails takes its draft with it, and leaves the plan.
Refuse ==
  /\ Finish
  /\ forced' = IF pc = "suggest" THEN <<>> ELSE forced
  /\ UNCHANGED <<plan, single, redrawn>>

\* ErrNoMenuFound: no menu passes the filter.
NoMenuFound == pc # "idle" /\ candidates = {} /\ Refuse

\* The random source fails, the client hangs up, the server goes down.
Fail == pc # "idle" /\ Refuse

Next ==
  \/ \E C \in Filters, R \in Histories : Suggest(C, R) \/ SuggestWeekly(C, R)
  \/ \E d \in Days, C \in Filters, R \in Histories : RerollDay(d, C, R)
  \/ PickDay
  \/ AnswerSingle
  \/ AnswerWeek
  \/ AnswerDay
  \/ NoMenuFound
  \/ Fail

Spec == Init /\ [][Next]_vars

-----------------------------------------------------------------------------
\* Every variable keeps its type; a week in the caller's hands is whole, and
\* forced goes with the week that is being built or held.
TypeOK ==
  /\ plan \in Seq(Menus) /\ Len(plan) \in {0, WeekLength}
  /\ draft \in Seq(DayMenu) /\ Len(draft) <= WeekLength
  /\ single \in Menus \cup {NoMenu}
  /\ redrawn \in DayMenu \cup {NoDay}
  /\ pc \in {"idle", "single", "suggest", "reroll"}
  /\ pc # "idle" => redrawn = NoDay
  /\ pc = "suggest" => plan = <<>>
  /\ pc # "suggest" => draft = <<>>
  /\ pc = "reroll" => plan # <<>>
  /\ day \in Days
  /\ IsFiniteSet(candidates) /\ candidates \subseteq Menus /\ recent \subseteq Menus
  /\ forced \in Seq(SUBSET {"repeat", "streak"})
  /\ Len(forced) = Len(draft) + Len(plan)

\* Of two days with one menu, one was drawn when the week held every candidate,
\* and of a run of more than StreakLimit days of one genre, one was drawn when
\* every menu left to choose made a run.
Excused(week, unkept) ==
  /\ \A i, j \in DOMAIN week :
       i < j /\ week[i] = week[j] => "repeat" \in unkept[i] \cup unkept[j]
  /\ \A first \in DOMAIN week :
       LET window == first..(first + StreakLimit)
       IN  window \subseteq DOMAIN week
           /\ (\A i \in window : GenreOf[week[i]] = GenreOf[week[first]])
           => \E i \in window : "streak" \in unkept[i]

\* Whatever days are rerolled, in whatever order and with whatever filters, the
\* week under construction and the week the caller holds break a rule only where
\* it could not be kept (comments of SuggestWeekly and of RerollDay: a rerolled
\* day repeats none of the other six and makes no run of three; 「候補が枯渇する
\* 場合は SuggestWeekly と同じ順序で緩和する」).
RelaxedOnlyIfForced ==
  Excused(IF pc = "suggest" THEN MenuSeq(draft) ELSE plan, forced)

\* No rule is broken silently: of two days of a new week with one menu at least
\* one carries the repeat mark, and in every run of more than StreakLimit days
\* of one genre at least one day carries the streak mark (DayMenu.Relaxed*).
MarksTell(week) ==
  /\ \A i, j \in DOMAIN week :
       i < j /\ week[i].menu = week[j].menu => week[i].duplicate \/ week[j].duplicate
  /\ \A first \in DOMAIN week :
       LET window == first..(first + StreakLimit)
       IN  window \subseteq DOMAIN week
           /\ (\A i \in window : GenreOf[week[i].menu] = GenreOf[week[first].menu])
           => \E i \in window : week[i].streak

\* So it is with a new week; and the marks of a redrawn day say exactly what it
\* does to the week that the caller now holds, on both sides of the day.
RelaxationsShown ==
  /\ MarksTell(draft)
  /\ redrawn # NoDay =>
       /\ redrawn.duplicate <=> redrawn.menu \in Others(plan, redrawn.day)
       /\ redrawn.streak <=> MakesStreak(plan, redrawn.day, redrawn.menu)

\* What a day of menu m would break, most important rule first.
Rank(repeats, streaks, m) ==
  (IF m \in repeats THEN 4 ELSE 0) + (IF m \in streaks THEN 2 ELSE 0)
    + (IF m \in recent THEN 1 ELSE 0)

\* A suggested day breaks the least important rules that any candidate would:
\* repeats outweigh streaks, streaks outweigh history (the order pickDay's
\* comment gives); a single menu is a recent one only if all candidates are.
\* The eight pools are this order and lose no candidate.
LeastRelaxed ==
  [][/\ single' \notin {single, NoMenu} =>
          \A m \in candidates : Rank({}, {}, single') <= Rank({}, {}, m)
     /\ Len(draft') = Len(draft) + 1 =>
          LET week == MenuSeq(draft)
              streaks == {m \in candidates : EndsStreak(week, m)}
              picked == draft'[Len(draft')].menu
          IN  \A m \in candidates :
                Rank(MenusOf(week), streaks, picked) <= Rank(MenusOf(week), streaks, m)
    ]_vars

\* A reroll that is answered, with a candidate outside the week, changes the
\* day, repeats nothing, and makes a streak or brings back history only if
\* every such candidate would (RerollDay; tests 同じ献立を返さない,
\* 挟まれた形の連続も避ける).
RerollFresh ==
  [][redrawn' \notin {redrawn, NoDay} /\ candidates \ MenusOf(plan) # {} =>
       LET streaks == {m \in candidates : MakesStreak(plan, day, m)}
       IN  /\ plan'[day] \notin MenusOf(plan)
           /\ \A m \in candidates \ MenusOf(plan) :
                Rank({}, streaks, plan'[day]) <= Rank({}, streaks, m)
    ]_vars

\* Whatever the rules exclude, a request is refused only when no menu passes
\* its filter (comments of pickDay 「段階的に緩めて必ず7日を埋める」 and of Suggest
\* 「避けた結果1件も出せないなら履歴の献立を出す」).
NeverStuck ==
  candidates # {} =>
    /\ pc = "single" => Singles(candidates, recent) # {}
    /\ pc = "suggest" /\ Len(draft) < WeekLength =>
         NextDays(candidates, recent, MenuSeq(draft)) # {}
    /\ pc = "reroll" => Rerolls(candidates, recent, plan, day) # {}
=============================================================================
