------------------------------ MODULE WeekPlan ------------------------------
(***************************************************************************)
(* The choice of one day of a week of menus (service/menu.go): the ladder  *)
(* of eight pools that pickDay and pickForDay descend, the streak tests of *)
(* both, and what the finished day says about the rules it relaxed.        *)
(* A week is the sequence of its menus in day order; candidate lists come  *)
(* from one SELECT over a primary key, so they are sets.                   *)
(***************************************************************************)
EXTENDS Week, Sequences

CONSTANTS
  GenreOf,      \* the genre of each menu
  StreakLimit   \* genreStreakLimit: 2

ASSUME WeekPlanAssumption == StreakLimit \in Nat \ {0}

MenusOf(week) == {week[i] : i \in DOMAIN week}

\* otherIDs of RerollDay: what the week holds on every day but d.
Others(week, d) == {week[i] : i \in DOMAIN week \ {d}}

\* DayMenu: a day, its menu and the rules relaxed to fill it.
DayMenu == [day : Days, menu : Menus,
            duplicate : BOOLEAN, streak : BOOLEAN, history : BOOLEAN]

\* streakingGenre, applied to m: the last StreakLimit days all have m's genre.
\* (The days are asked one by one for m's genre: their being equal to one
\* another and to it is the code's two tests at once.)
ContinuesStreak(week, m) ==
  /\ Len(week) >= StreakLimit
  /\ \A i \in (Len(week) - StreakLimit + 1)..Len(week) :
       GenreOf[week[i]] = GenreOf[m]

\* Mutant: only the window that ends on day d is looked at.
CreatesStreakLastWindow(week, d, m) ==
  /\ d > StreakLimit
  /\ \A i \in (d - StreakLimit)..(d - 1) : GenreOf[week[i]] = GenreOf[m]

\* createsStreak: m on day d makes some window of StreakLimit + 1 days that
\* holds d, wholly inside the week, of one genre.
CreatesStreak(week, d, m) ==
  \E first \in Days :
    /\ d \in first..(first + StreakLimit)
    /\ first + StreakLimit <= Len(week)
    /\ \A i \in (first..(first + StreakLimit)) \ {d} :
         GenreOf[week[i]] = GenreOf[m]

\* Mutant: repeats are allowed before streaks.
PoolsRepeatFirst(candidates, left, streaking, recent) ==
  << (left \ streaking) \ recent, left \ streaking,
     (candidates \ streaking) \ recent, candidates \ streaking,
     left \ recent, left, candidates \ recent, candidates >>

\* Mutant: the last, unconditional pool is missing.
PoolsNoLast(candidates, left, streaking, recent) ==
  << (left \ streaking) \ recent, left \ streaking, left \ recent, left,
     (candidates \ streaking) \ recent, candidates \ streaking,
     candidates \ recent >>

\* The eight pools: first without repeating a menu of the week (left), then
\* from all candidates; each time dropping history before the streak rule.
Pools(candidates, left, streaking, recent) ==
  << (left \ streaking) \ recent, left \ streaking, left \ recent, left,
     (candidates \ streaking) \ recent, candidates \ streaking,
     candidates \ recent, candidates >>

\* Pick of the first pool that is not empty; {} is ErrNoCandidates.
Drawn(candidates, left, streaking, recent) ==
  LET pools == Pools(candidates, left, streaking, recent)
  IN  {m \in candidates :
         \E k \in DOMAIN pools :
           m \in pools[k] /\ \A j \in 1..(k - 1) : pools[j] = {}}

\* Mutant: the second search still leaves the history out.
SinglesNeverRecent(candidates, recent) == candidates \ recent

\* Suggest of the handler: the history is left out of the search, and put back
\* when nothing is found without it.
Singles(candidates, recent) ==
  IF candidates \ recent # {} THEN candidates \ recent ELSE candidates

\* pickDay: the next day of a week under construction.
NextDays(candidates, recent, week) ==
  LET streaking == {m \in candidates : ContinuesStreak(week, m)}
      left      == candidates \ MenusOf(week)
  IN  {[day |-> Len(week) + 1, menu |-> m, duplicate |-> m \in MenusOf(week),
        streak |-> m \in streaking, history |-> m \in recent] :
         m \in Drawn(candidates, left, streaking, recent)}

\* Mutant: the menu that is rerolled stays among the unused ones.
RerollsSame(candidates, recent, week, d) ==
  LET streaking == {m \in candidates : CreatesStreak(week, d, m)}
      left      == candidates \ Others(week, d)
  IN  {[day |-> d, menu |-> m, duplicate |-> m \in Others(week, d),
        streak |-> m \in streaking, history |-> m \in recent] :
         m \in Drawn(candidates, left, streaking, recent)}

\* pickForDay: another menu for day d of a whole week.
Rerolls(candidates, recent, week, d) ==
  LET streaking == {m \in candidates : CreatesStreak(week, d, m)}
      left      == candidates \ MenusOf(week)
  IN  {[day |-> d, menu |-> m, duplicate |-> m \in Others(week, d),
        streak |-> m \in streaking, history |-> m \in recent] :
         m \in Drawn(candidates, left, streaking, recent)}
=============================================================================
