------------------------- MODULE WeekPlannerProofs -------------------------
(***************************************************************************)
(* Proofs about WeekPlanner, for every master, genre, week length, streak  *)
(* limit, filter and history.  The eight pools are one order: a pool's     *)
(* number is what its worst menu breaks, plus one (DrawnLeast), and the    *)
(* last pool is every candidate (DrawnSome).  So a rule that a drawn day   *)
(* breaks could not be kept (DrawnForced), and that the week breaks no     *)
(* rule but for this reason is kept by a day added and by a day replaced   *)
(* (AppendExcused, RerollExcused): it is true after any number of rerolls. *)
(* Last comes the page that shows these weeks (WeeklyPage): the planner    *)
(* and the page share the days and menus of Week, and meet only through    *)
(* the answers that WeeklyPage takes from its environment.                 *)
(***************************************************************************)
EXTENDS WeekPlanner, WeeklyPage, FiniteSetTheorems, FunctionTheorems, TLAPS

\* What menu m breaks: repeating (not in left), streaking, recent.
Score(left, S, R, m) ==
  (IF m \in left THEN 0 ELSE 4) + (IF m \in S THEN 2 ELSE 0)
    + (IF m \in R THEN 1 ELSE 0)

\* The pools, by number.
LEMMA PoolByNumber ==
  ASSUME NEW C, NEW left, NEW S, NEW R
  PROVE  /\ DOMAIN Pools(C, left, S, R) = 1..8
         /\ Pools(C, left, S, R)[1] = (left \ S) \ R
         /\ Pools(C, left, S, R)[2] = left \ S
         /\ Pools(C, left, S, R)[3] = left \ R
         /\ Pools(C, left, S, R)[4] = left
         /\ Pools(C, left, S, R)[5] = (C \ S) \ R
         /\ Pools(C, left, S, R)[6] = C \ S
         /\ Pools(C, left, S, R)[7] = C \ R
         /\ Pools(C, left, S, R)[8] = C
BY DEF Pools

\* A candidate is in the pool its score numbers, and no pool holds a menu that
\* breaks more than its number says.
LEMMA PoolScore ==
  ASSUME NEW C, NEW left \in SUBSET C, NEW S, NEW R, NEW m \in C
  PROVE  /\ Score(left, S, R, m) \in 0..7
         /\ m \in Pools(C, left, S, R)[Score(left, S, R, m) + 1]
         /\ \A k \in 1..8 : m \in Pools(C, left, S, R)[k] => Score(left, S, R, m) < k
<1> DEFINE P == Pools(C, left, S, R)
           sc == Score(left, S, R, m)
<1>1. sc \in 0..7
  BY DEF Score
<1>2. m \in P[sc + 1]
  BY PoolByNumber DEF Score
<1>3. ASSUME NEW k \in 1..8, m \in P[k] PROVE sc < k
  <2>1. k \in {1, 2, 3, 4, 5, 6, 7, 8}
    OBVIOUS
  <2>2. CASE m \in left
    BY <1>3, <2>1, <2>2, PoolByNumber DEF Score
  <2>3. CASE m \notin left
    BY <1>3, <2>1, <2>3, PoolByNumber DEF Score
  <2> QED BY <2>2, <2>3
<1> QED BY <1>1, <1>2, <1>3

\* The menu drawn breaks no more than any candidate would.
LEMMA DrawnLeast ==
  ASSUME NEW C, NEW left \in SUBSET C, NEW S, NEW R,
         NEW m \in Drawn(C, left, S, R), NEW n \in C
  PROVE  m \in C /\ Score(left, S, R, m) <= Score(left, S, R, n)
<1> DEFINE P == Pools(C, left, S, R)
<1>1. m \in C /\ DOMAIN P = 1..8
  BY PoolByNumber DEF Drawn
<1>2. PICK k \in 1..8 : m \in P[k] /\ \A j \in 1..(k - 1) : P[j] = {}
  BY <1>1 DEF Drawn
<1>3. /\ Score(left, S, R, n) \in 0..7
      /\ n \in P[Score(left, S, R, n) + 1]
      /\ Score(left, S, R, m) \in 0..7
      /\ Score(left, S, R, m) < k
  BY <1>1, <1>2, PoolScore
<1>4. ~(Score(left, S, R, n) + 1 < k)
  <2> HIDE DEF P
  <2> QED BY <1>2, <1>3
<1> QED BY <1>1, <1>3, <1>4

\* With a candidate there is something to draw.
LEMMA DrawnSome ==
  ASSUME NEW C, NEW left \in SUBSET C, NEW S, NEW R, C # {}
  PROVE  Drawn(C, left, S, R) # {}
<1> DEFINE P == Pools(C, left, S, R)
           Full(k) == k \in 1..8 /\ P[k] # {}
<1>1. Full(8)
  BY PoolByNumber
<1>2. PICK k \in 1..8 : Full(k) /\ \A j \in 1..(k - 1) : ~Full(j)
  <2> HIDE DEF Full
  <2>1. \/ Full(1) \/ Full(2) \/ Full(3) \/ Full(4)
        \/ Full(5) \/ Full(6) \/ Full(7) \/ Full(8)
    BY <1>1
  <2> QED BY <2>1
<1>3. \A j \in 1..(k - 1) : P[j] = {}
  BY <1>2
<1>4. P[k] \subseteq C
  BY PoolByNumber
<1>5. PICK m \in P[k] : m \in C
  BY <1>2, <1>4
<1>6. m \in Drawn(C, left, S, R)
  BY <1>3, <1>5, PoolByNumber DEF Drawn
<1> QED BY <1>6

-----------------------------------------------------------------------------
\* The menus of a week of days.
LEMMA MenuSeqFacts ==
  ASSUME NEW week \in Seq(DayMenu)
  PROVE  /\ MenuSeq(week) \in Seq(Menus)
         /\ Len(MenuSeq(week)) = Len(week)
         /\ DOMAIN MenuSeq(week) = 1..Len(week)
         /\ DOMAIN week = 1..Len(week)
         /\ Len(week) \in Nat
         /\ \A i \in 1..Len(week) : MenuSeq(week)[i] = week[i].menu
         /\ MenusOf(MenuSeq(week)) = {week[i].menu : i \in 1..Len(week)}
         /\ \A d : Others(MenuSeq(week), d) = {week[i].menu : i \in (1..Len(week)) \ {d}}
<1>1. DOMAIN week = 1..Len(week) /\ Len(week) \in Nat
      /\ \A i \in 1..Len(week) : week[i] \in DayMenu
  OBVIOUS
<1>2. MenuSeq(week) = [i \in 1..Len(week) |-> week[i].menu]
  BY <1>1 DEF MenuSeq
<1>3. MenuSeq(week) \in [1..Len(week) -> Menus]
  BY <1>1, <1>2 DEF DayMenu
<1>4. MenuSeq(week) \in Seq(Menus) /\ Len(MenuSeq(week)) = Len(week)
  BY <1>1, <1>3
<1> QED BY <1>1, <1>2, <1>4 DEF MenusOf, Others

\* What a day that was drawn says of itself: the day of pickDay.
LEMMA NextDay ==
  ASSUME NEW C, NEW R, NEW week, NEW picked \in NextDays(C, R, week), C \subseteq Menus,
         Len(week) + 1 \in Days
  PROVE  /\ picked \in DayMenu /\ picked.menu \in C
         /\ picked.menu \in Drawn(C, C \ MenusOf(week), {m \in C : ContinuesStreak(week, m)}, R)
         /\ picked.duplicate <=> picked.menu \in MenusOf(week)
         /\ picked.streak <=> ContinuesStreak(week, picked.menu)
<1>1. PICK m \in Drawn(C, C \ MenusOf(week), {n \in C : ContinuesStreak(week, n)}, R) :
        picked = [day |-> Len(week) + 1, menu |-> m, duplicate |-> m \in MenusOf(week),
                  streak |-> m \in {n \in C : ContinuesStreak(week, n)}, history |-> m \in R]
  BY DEF NextDays
<1>2. m \in C
  BY DEF Drawn
<1>3. picked.menu = m
  BY <1>1
<1>4. picked.duplicate = (m \in MenusOf(week))
  BY <1>1
<1>5. picked.streak = (m \in {n \in C : ContinuesStreak(week, n)})
  BY <1>1
<1>6. picked.streak <=> m \in C /\ ContinuesStreak(week, m)
  BY <1>5
<1>7. picked \in DayMenu
  <2>1. /\ (m \in MenusOf(week)) \in BOOLEAN /\ (m \in R) \in BOOLEAN
        /\ (m \in {n \in C : ContinuesStreak(week, n)}) \in BOOLEAN
        /\ m \in Menus
    BY <1>2
  <2> QED BY <1>1, <2>1 DEF DayMenu
<1> QED BY <1>1, <1>2, <1>3, <1>4, <1>6, <1>7

\* And the day of pickForDay.
LEMMA RerolledDay ==
  ASSUME NEW C, NEW R, NEW week, NEW d, NEW picked \in Rerolls(C, R, week, d),
         C \subseteq Menus, d \in Days
  PROVE  /\ picked \in DayMenu /\ picked.day = d /\ picked.menu \in C
         /\ picked.menu \in Drawn(C, C \ MenusOf(week), {m \in C : CreatesStreak(week, d, m)}, R)
         /\ picked.duplicate <=> picked.menu \in Others(week, d)
         /\ picked.streak <=> CreatesStreak(week, d, picked.menu)
<1>1. PICK m \in Drawn(C, C \ MenusOf(week), {n \in C : CreatesStreak(week, d, n)}, R) :
        picked = [day |-> d, menu |-> m, duplicate |-> m \in Others(week, d),
                  streak |-> m \in {n \in C : CreatesStreak(week, d, n)}, history |-> m \in R]
  BY DEF Rerolls
<1>2. m \in C
  BY DEF Drawn
<1>3. picked.menu = m
  BY <1>1
<1>4. picked.duplicate = (m \in Others(week, d))
  BY <1>1
<1>5. picked.streak = (m \in {n \in C : CreatesStreak(week, d, n)})
  BY <1>1
<1>6. picked.streak <=> m \in C /\ CreatesStreak(week, d, m)
  BY <1>5
<1>7. picked \in DayMenu
  <2>1. /\ (m \in Others(week, d)) \in BOOLEAN /\ (m \in R) \in BOOLEAN
        /\ (m \in {n \in C : CreatesStreak(week, d, n)}) \in BOOLEAN
        /\ m \in Menus
    BY <1>2
  <2> QED BY <1>1, <2>1 DEF DayMenu
<1> QED BY <1>1, <1>2, <1>3, <1>4, <1>6, <1>7

-----------------------------------------------------------------------------
\* Length and days of a sequence with one more, or with one replaced.
LEMMA AppendFacts ==
  ASSUME NEW S, NEW s \in Seq(S), NEW x \in S
  PROVE  /\ Append(s, x) \in Seq(S)
         /\ Len(Append(s, x)) = Len(s) + 1 /\ Len(s) \in Nat
         /\ \A i \in 1..Len(s) : Append(s, x)[i] = s[i]
         /\ Append(s, x)[Len(s) + 1] = x
OBVIOUS

LEMMA ReplaceFacts ==
  ASSUME NEW S, NEW s \in Seq(S), NEW x \in S, NEW d \in 1..Len(s)
  PROVE  /\ [s EXCEPT ![d] = x] \in Seq(S)
         /\ Len([s EXCEPT ![d] = x]) = Len(s)
         /\ \A i \in 1..Len(s) : i # d => [s EXCEPT ![d] = x][i] = s[i]
         /\ [s EXCEPT ![d] = x][d] = x
OBVIOUS

\* What no candidate can keep is among the two rules that say of a week.
LEMMA UnkeptType ==
  ASSUME NEW week, NEW S
  PROVE  Unkept(week, S) \in SUBSET {"repeat", "streak"}
BY DEF Unkept

\* The first invariant, one variable at a time: a step either keeps the weeks
\* or ends in one of three ways.
LEMMA StepTypes ==
  ASSUME TypeOK, [Next]_vars
  PROVE  TypeOK'
<1> USE WeekAssumption, WeekPlanAssumption, WeekPlannerAssumption
<1> DEFINE Rules == SUBSET {"repeat", "streak"}
<1>0. /\ 1 \in Days /\ IsFiniteSet({}) /\ Len(<<>>) = 0
      /\ <<>> \in Seq(DayMenu) /\ <<>> \in Seq(Menus) /\ <<>> \in Seq(Rules)
  BY FS_EmptySet DEF Days
<1>1. CASE UNCHANGED vars
  BY <1>1 DEF TypeOK, vars
<1>2. ASSUME NEW C \in Filters, NEW R \in Histories, Suggest(C, R) \/ SuggestWeekly(C, R)
      PROVE  TypeOK'
  <2>1. CASE Suggest(C, R)
    BY <2>1 DEF TypeOK, Suggest, Request
  <2>2. CASE SuggestWeekly(C, R)
    <3>1. /\ draft' = <<>> /\ plan' = <<>> /\ forced' = <<>>
          /\ Len(forced') = Len(draft') + Len(plan')
      BY <1>0, <2>2 DEF TypeOK, SuggestWeekly, Request
    <3> QED BY <1>0, <2>2, <3>1 DEF TypeOK, SuggestWeekly, Request
  <2> QED BY <1>2, <2>1, <2>2
<1>3. ASSUME NEW d \in Days, NEW C \in Filters, NEW R \in Histories, RerollDay(d, C, R)
      PROVE  TypeOK'
  BY <1>3 DEF TypeOK, RerollDay, Request
<1>4. CASE PickDay
  <2> DEFINE unkept == Unkept(MenuSeq(draft),
                              {m \in candidates : EndsStreak(MenuSeq(draft), m)})
  <2>1. PICK picked \in NextDays(candidates, recent, MenuSeq(draft)) : draft' = Append(draft, picked)
    BY <1>4 DEF PickDay
  <2>2. picked \in DayMenu
    <3>1. Len(MenuSeq(draft)) + 1 \in Days
      BY <1>4, MenuSeqFacts DEF PickDay, TypeOK, Days
    <3> QED BY <2>1, <3>1, NextDay DEF TypeOK
  <2>3. draft' \in Seq(DayMenu) /\ Len(draft') = Len(draft) + 1
    BY <2>1, <2>2, AppendFacts DEF TypeOK
  <2>4. forced' = Append(forced, unkept) /\ unkept \in Rules
    BY <1>4, UnkeptType DEF PickDay
  <2> HIDE DEF unkept
  <2>5. forced' \in Seq(Rules) /\ Len(forced') = Len(forced) + 1
    BY <2>4, AppendFacts DEF TypeOK
  <2>6. Len(plan) \in Nat /\ Len(draft) \in Nat /\ Len(forced) \in Nat
    BY DEF TypeOK
  <2> QED BY <1>4, <2>3, <2>5, <2>6 DEF TypeOK, PickDay
<1>5. CASE AnswerSingle
  <2>1. single' \in Menus
    BY <1>5 DEF AnswerSingle, Singles, TypeOK
  <2>2. draft = <<>>
    BY <1>5 DEF AnswerSingle, TypeOK
  <2> QED BY <1>0, <1>5, <2>1, <2>2 DEF TypeOK, AnswerSingle, Finish
<1>6. CASE AnswerWeek
  <2>1. plan' = MenuSeq(draft) /\ plan = <<>> /\ Len(draft) = WeekLength
    BY <1>6 DEF AnswerWeek, TypeOK
  <2>2. plan' \in Seq(Menus) /\ Len(plan') = Len(draft)
    BY <2>1, MenuSeqFacts DEF TypeOK
  <2>3. Len(forced) = Len(<<>>) + Len(plan')
    BY <1>0, <2>1, <2>2 DEF TypeOK
  <2> QED BY <1>0, <1>6, <2>1, <2>2, <2>3 DEF TypeOK, AnswerWeek, Finish
<1>7. CASE AnswerDay
  <2> DEFINE unkept == Unkept(plan, {m \in candidates : MakesStreak(plan, day, m)})
  <2>1. PICK picked \in Rerolls(candidates, recent, plan, day) :
          redrawn' = picked /\ plan' = [plan EXCEPT ![day] = picked.menu]
    BY <1>7 DEF AnswerDay
  <2>2. picked \in DayMenu /\ picked.menu \in Menus
    BY <2>1, RerolledDay DEF TypeOK
  <2>3. Len(plan) = WeekLength /\ day \in 1..Len(plan) /\ draft = <<>>
    BY <1>7 DEF AnswerDay, TypeOK, Days
  <2>4. plan' \in Seq(Menus) /\ Len(plan') = Len(plan)
    BY <2>1, <2>2, <2>3, ReplaceFacts DEF TypeOK
  <2>5. forced' = [forced EXCEPT ![day] = unkept] /\ unkept \in Rules
    BY <1>7, UnkeptType DEF AnswerDay
  <2>6. day \in 1..Len(forced)
    BY <1>0, <2>3 DEF TypeOK
  <2> HIDE DEF unkept
  <2>7. forced' \in Seq(Rules) /\ Len(forced') = Len(forced)
    BY <2>5, <2>6, ReplaceFacts DEF TypeOK
  <2> QED BY <1>0, <1>7, <2>1, <2>2, <2>3, <2>4, <2>7 DEF TypeOK, AnswerDay, Finish
<1>8. CASE NoMenuFound \/ Fail
  <2>1. Finish /\ UNCHANGED <<plan, single, redrawn>> /\ pc # "idle"
        /\ forced' = IF pc = "suggest" THEN <<>> ELSE forced
    BY <1>8 DEF NoMenuFound, Fail, Refuse
  <2>2. CASE pc = "suggest"
    BY <1>0, <2>1, <2>2 DEF TypeOK, Finish
  <2>3. CASE pc # "suggest"
    BY <1>0, <2>1, <2>3 DEF TypeOK, Finish
  <2> QED BY <2>2, <2>3
<1> QED BY <1>1, <1>2, <1>3, <1>4, <1>5, <1>6, <1>7, <1>8 DEF Next

\* The weeks, the request in service and its copies have their types, and a
\* week in the caller's hands is whole: SuggestWeekly never answers fewer days.
THEOREM PlannerTypeOK == Spec => []TypeOK
<1>1. Init => TypeOK
  BY WeekAssumption, WeekPlanAssumption, FS_EmptySet DEF Init, TypeOK, Days
<1> QED BY <1>1, StepTypes, PTL DEF Spec

-----------------------------------------------------------------------------
\* A day added by pickDay tells of the repeat and of the streak it makes.
LEMMA AppendTells ==
  ASSUME NEW C \in SUBSET Menus, NEW R, NEW week \in Seq(DayMenu), MarksTell(week),
         Len(week) < WeekLength, NEW picked \in NextDays(C, R, MenuSeq(week))
  PROVE  MarksTell(Append(week, picked))
<1> DEFINE next == Append(week, picked)
           n == Len(week)
           ms == MenuSeq(week)
<1> USE WeekAssumption, WeekPlanAssumption
<1>1. /\ picked \in DayMenu
      /\ picked.duplicate <=> picked.menu \in MenusOf(ms)
      /\ picked.streak <=> ContinuesStreak(ms, picked.menu)
  <2>1. Len(ms) + 1 \in Days
    BY MenuSeqFacts DEF Days
  <2> QED BY <2>1, NextDay
<1>2. /\ n \in Nat /\ next \in Seq(DayMenu) /\ DOMAIN next = 1..(n + 1) /\ DOMAIN week = 1..n
      /\ \A i \in 1..n : next[i] = week[i]
      /\ next[n + 1] = picked
  BY <1>1, AppendFacts
<1>3. /\ MenusOf(ms) = {week[i].menu : i \in 1..n}
      /\ Len(ms) = n
      /\ \A i \in 1..n : ms[i] = week[i].menu
  BY MenuSeqFacts
<1> HIDE DEF next, n, ms
<1>4. ASSUME NEW i \in DOMAIN next, NEW j \in DOMAIN next, i < j, next[i].menu = next[j].menu
      PROVE  next[i].duplicate \/ next[j].duplicate
  <2>1. i \in 1..n
    BY <1>2, <1>4
  <2>2. CASE j \in 1..n
    BY <1>2, <1>4, <2>1, <2>2 DEF MarksTell
  <2>3. CASE j = n + 1
    BY <1>1, <1>2, <1>3, <1>4, <2>1, <2>3
  <2> QED BY <1>2, <2>2, <2>3
<1>5. ASSUME NEW first \in DOMAIN next,
             first..(first + StreakLimit) \subseteq DOMAIN next,
             \A i \in first..(first + StreakLimit) :
               GenreOf[next[i].menu] = GenreOf[next[first].menu]
      PROVE  \E i \in first..(first + StreakLimit) : next[i].streak
  <2>1. first \in Nat /\ first + StreakLimit \in first..(first + StreakLimit)
    BY <1>2
  <2>2. first \in 1..n /\ first + StreakLimit <= n + 1
    BY <1>2, <1>5, <2>1
  <2>3. CASE first + StreakLimit <= n
    <3>1. first..(first + StreakLimit) \subseteq DOMAIN week
      BY <1>2, <2>1, <2>2, <2>3
    <3>2. \A i \in first..(first + StreakLimit) : next[i] = week[i]
      BY <1>2, <3>1
    <3>3. first \in DOMAIN week /\ first \in first..(first + StreakLimit)
      BY <1>2, <2>1, <2>2
    <3>4. \A i \in first..(first + StreakLimit) :
            GenreOf[week[i].menu] = GenreOf[week[first].menu]
      BY <1>5, <3>2, <3>3
    <3>5. \E i \in first..(first + StreakLimit) : week[i].streak
      BY <3>1, <3>3, <3>4 DEF MarksTell
    <3> QED BY <3>2, <3>5
  <2>4. CASE first + StreakLimit = n + 1
    <3>1. GenreOf[picked.menu] = GenreOf[next[first].menu]
      BY <1>2, <1>5, <2>1, <2>4
    <3>2. \A i \in (n - StreakLimit + 1)..n :
            i \in 1..n /\ i \in first..(first + StreakLimit)
      BY <1>2, <2>1, <2>2, <2>4
    <3>3. ASSUME NEW i \in (n - StreakLimit + 1)..n
          PROVE  GenreOf[ms[i]] = GenreOf[picked.menu]
      <4>1. ms[i] = next[i].menu
        BY <1>2, <1>3, <3>2
      <4>2. GenreOf[next[i].menu] = GenreOf[next[first].menu]
        BY <1>5, <3>2
      <4> QED BY <3>1, <4>1, <4>2
    <3>4. ContinuesStreak(ms, picked.menu)
      BY <1>2, <1>3, <2>2, <2>4, <3>3 DEF ContinuesStreak
    <3> QED BY <1>1, <1>2, <2>1, <2>4, <3>4
  <2> QED BY <1>2, <2>1, <2>2, <2>3, <2>4
<1>6. MarksTell(next)
  BY <1>4, <1>5 DEF MarksTell
<1> QED BY <1>6 DEF next

-----------------------------------------------------------------------------
\* A function of finite domain has one value iff all its values are one of them.
LEMMA OneValue ==
  ASSUME NEW S, IsFiniteSet(S), NEW g, g = [x \in S |-> g[x]], NEW c \in S
  PROVE  Cardinality({g[x] : x \in S}) = 1 <=> \A x \in S : g[x] = g[c]
<1> DEFINE T == {g[x] : x \in S}
<1>1. g \in [S -> T] /\ (\A t \in T : \E x \in S : g[x] = t) /\ g[c] \in T
      /\ \A x \in S : g[x] \in T
  OBVIOUS
<1> HIDE DEF T
<1>2. g \in Surjection(S, T)
  BY <1>1, Fun_IsSurj
<1>3. IsFiniteSet(T)
  BY <1>2, FS_Surjection
<1>4. Cardinality(T) = 1 <=> \E x : T = {x}
  BY <1>3, FS_Singleton
<1>5. (\E x : T = {x}) <=> \A x \in S : g[x] = g[c]
  <2>1. ASSUME NEW t, T = {t} PROVE \A x \in S : g[x] = g[c]
    BY <1>1, <2>1
  <2>2. ASSUME \A x \in S : g[x] = g[c] PROVE T = {g[c]}
    BY <1>1, <2>2
  <2> QED BY <2>1, <2>2
<1>6. Cardinality(T) = 1 <=> \A x \in S : g[x] = g[c]
  BY <1>4, <1>5
<1> QED BY <1>6 DEF T

\* The genres of the menus a sequence holds from a to b are one iff each is
\* that of the menu at c.
LEMMA OneGenre ==
  ASSUME NEW week, NEW a \in Int, NEW b \in Int, NEW c \in a..b
  PROVE  Cardinality({GenreOf[week[i]] : i \in a..b}) = 1
           <=> \A i \in a..b : GenreOf[week[i]] = GenreOf[week[c]]
<1> DEFINE g == [i \in a..b |-> GenreOf[week[i]]]
<1>1. {GenreOf[week[i]] : i \in a..b} = {g[i] : i \in a..b}
  OBVIOUS
<1>2. IsFiniteSet(a..b)
  BY FS_Interval
<1>3. \A i \in a..b : g[i] = GenreOf[week[i]]
  OBVIOUS
<1>4. g = [i \in a..b |-> g[i]]
  OBVIOUS
<1>5. Cardinality({g[i] : i \in a..b}) = 1 <=> \A i \in a..b : g[i] = g[c]
  <2> DEFINE S == a..b
  <2>1. IsFiniteSet(S) /\ g = [x \in S |-> g[x]] /\ c \in S
    BY <1>2, <1>4
  <2> HIDE DEF g, S
  <2>2. Cardinality({g[x] : x \in S}) = 1 <=> \A x \in S : g[x] = g[c]
    BY <2>1, OneValue
  <2> QED BY <2>2 DEF S
<1> QED BY <1>1, <1>3, <1>5

\* The streak test of pickDay looks at the days before; EndsStreak at the run
\* that the new day would end.
LEMMA StreakEnded ==
  ASSUME NEW week \in Seq(Menus), NEW m \in Menus
  PROVE  EndsStreak(week, m) <=> ContinuesStreak(week, m)
<1> USE WeekAssumption, WeekPlanAssumption
<1> DEFINE n == Len(week)
           next == Append(week, m)
           a == n + 1 - StreakLimit
<1>1. /\ n \in Nat /\ Len(next) = n + 1 /\ next[n + 1] = m
      /\ \A i \in 1..n : next[i] = week[i]
  BY AppendFacts
<1>2. EndsStreak(week, m)
        <=> n + 1 > StreakLimit /\ Cardinality({GenreOf[next[i]] : i \in a..(n + 1)}) = 1
  <2> DEFINE l == Len(next)
             G(x, y) == Cardinality({GenreOf[next[i]] : i \in x..y})
  <2>1. EndsStreak(week, m) <=> l > StreakLimit /\ G(l - StreakLimit, l) = 1
    BY DEF EndsStreak
  <2>2. l = n + 1 /\ l - StreakLimit = a
    BY <1>1
  <2>3. EndsStreak(week, m) <=> n + 1 > StreakLimit /\ G(a, n + 1) = 1
    <3> HIDE DEF l, G, n, a
    <3> QED BY <2>1, <2>2
  <2> QED BY <2>3
<1>3. CASE n + 1 > StreakLimit
  <2>1. a \in 1..n /\ n + 1 \in a..(n + 1) /\ a \in Int /\ n + 1 \in Int
        /\ a = n - StreakLimit + 1
    BY <1>1, <1>3
  <2>2. Cardinality({GenreOf[next[i]] : i \in a..(n + 1)}) = 1
          <=> \A i \in a..(n + 1) : GenreOf[next[i]] = GenreOf[next[n + 1]]
    <3> HIDE DEF a, n, next
    <3> QED BY <2>1, OneGenre
  <2>3. (\A i \in a..(n + 1) : GenreOf[next[i]] = GenreOf[m])
          <=> \A i \in a..n : GenreOf[week[i]] = GenreOf[m]
    <3>1. \A i \in a..(n + 1) : i \in a..n \/ i = n + 1
      BY <1>1, <2>1
    <3>2. \A i \in a..n : i \in a..(n + 1) /\ i \in 1..n
      BY <1>1, <2>1
    <3> HIDE DEF a, n, next
    <3> QED BY <1>1, <3>1, <3>2
  <2>4. ContinuesStreak(week, m)
          <=> n >= StreakLimit /\ \A i \in a..n : GenreOf[week[i]] = GenreOf[m]
    BY <2>1 DEF ContinuesStreak
  <2>5. n >= StreakLimit
    BY <1>1, <1>3
  <2> QED BY <1>1, <1>2, <1>3, <2>2, <2>3, <2>4, <2>5
<1>4. CASE ~(n + 1 > StreakLimit)
  BY <1>1, <1>2, <1>4 DEF ContinuesStreak
<1> QED BY <1>3, <1>4

\* The streak test of pickForDay is that of a run through the replaced day.
LEMMA StreakMade ==
  ASSUME NEW week \in Seq(Menus), Len(week) = WeekLength, NEW d \in Days, NEW m \in Menus
  PROVE  MakesStreak(week, d, m) <=> CreatesStreak(week, d, m)
<1> USE WeekAssumption, WeekPlanAssumption
<1> DEFINE next == [week EXCEPT ![d] = m]
<1>1. next[d] = m /\ \A i \in Days : i # d => next[i] = week[i]
  BY ReplaceFacts DEF Days
<1>2. ASSUME NEW a \in Days, NEW b \in Days, a <= d, d <= b
      PROVE  Cardinality({GenreOf[next[i]] : i \in a..b}) = 1
               <=> \A i \in (a..b) \ {d} : GenreOf[week[i]] = GenreOf[m]
  <2>1. a \in Int /\ b \in Int /\ d \in a..b /\ \A i \in a..b : i \in Days
    BY <1>2 DEF Days
  <2>2. Cardinality({GenreOf[next[i]] : i \in a..b}) = 1
          <=> \A i \in a..b : GenreOf[next[i]] = GenreOf[next[d]]
    <3> HIDE DEF next
    <3> QED BY <2>1, OneGenre
  <2> HIDE DEF next
  <2>3. (\A i \in a..b : GenreOf[next[i]] = GenreOf[next[d]])
          <=> \A i \in (a..b) \ {d} : GenreOf[week[i]] = GenreOf[m]
    BY <1>1, <2>1
  <2> QED BY <2>2, <2>3
<1>3. ASSUME NEW a \in Days, NEW b \in Days, a <= d, d <= b, b - a = StreakLimit,
             Cardinality({GenreOf[next[i]] : i \in a..b}) = 1
      PROVE  CreatesStreak(week, d, m)
  <2>1. b = a + StreakLimit /\ d \in a..(a + StreakLimit) /\ a + StreakLimit <= Len(week)
    BY <1>3 DEF Days
  <2>2. \A i \in (a..b) \ {d} : GenreOf[week[i]] = GenreOf[m]
    <3> HIDE DEF next
    <3> QED BY <1>2, <1>3
  <2> QED BY <2>1, <2>2 DEF CreatesStreak
<1>4. ASSUME CreatesStreak(week, d, m) PROVE MakesStreak(week, d, m)
  <2>1. PICK a \in Days : /\ d \in a..(a + StreakLimit)
                          /\ a + StreakLimit <= Len(week)
                          /\ \A i \in (a..(a + StreakLimit)) \ {d} :
                               GenreOf[week[i]] = GenreOf[m]
    BY <1>4 DEF CreatesStreak
  <2> DEFINE b == a + StreakLimit
  <2>2. b \in Days /\ a <= d /\ d <= b /\ b - a = StreakLimit
    BY <2>1 DEF Days
  <2>3. Cardinality({GenreOf[next[i]] : i \in a..b}) = 1
    <3>1. \A i \in (a..b) \ {d} : GenreOf[week[i]] = GenreOf[m]
      BY <2>1
    <3> HIDE DEF next, b
    <3> QED BY <1>2, <2>2, <3>1
  <2> HIDE DEF b
  <2> QED BY <2>2, <2>3 DEF MakesStreak
<1>5. MakesStreak(week, d, m) => CreatesStreak(week, d, m)
  BY <1>3 DEF MakesStreak
<1> QED BY <1>4, <1>5

-----------------------------------------------------------------------------
\* A rule that a drawn day breaks could not be kept: the pools before its own
\* were empty.
LEMMA DrawnForced ==
  ASSUME NEW week, NEW S,
         NEW m \in Drawn(candidates, candidates \ MenusOf(week), S, recent)
  PROVE  /\ m \in MenusOf(week) => "repeat" \in Unkept(week, S)
         /\ m \in S => "streak" \in Unkept(week, S)
<1> DEFINE left == candidates \ MenusOf(week)
           choice == IF left = {} THEN candidates ELSE left
<1>1. m \in candidates /\ \A n \in candidates :
        Score(left, S, recent, m) <= Score(left, S, recent, n)
  <2>1. m \in candidates
    BY DEF Drawn
  <2>2. ASSUME NEW n \in candidates
        PROVE  Score(left, S, recent, m) <= Score(left, S, recent, n)
    <3>1. left \in SUBSET candidates
      OBVIOUS
    <3>2. m \in Drawn(candidates, left, S, recent)
      OBVIOUS
    <3> HIDE DEF left
    <3> QED BY <3>1, <3>2, DrawnLeast
  <2> QED BY <2>1, <2>2
<1>2. ASSUME m \in MenusOf(week), NEW n \in left PROVE FALSE
  <2>1. m \notin left /\ n \in candidates
    BY <1>2
  <2> HIDE DEF left
  <2> QED BY <1>1, <1>2, <2>1 DEF Score
<1>3. ASSUME m \in S, NEW n \in choice, n \notin S PROVE FALSE
  <2>1. CASE left = {}
    <3>1. n \in candidates
      BY <1>3, <2>1
    <3> HIDE DEF left
    <3> QED BY <1>1, <1>3, <2>1, <3>1 DEF Score
  <2>2. CASE left # {}
    <3>1. n \in left /\ n \in candidates /\ m \in left
      BY <1>1, <1>2, <1>3, <2>2
    <3> HIDE DEF left
    <3> QED BY <1>1, <1>3, <3>1 DEF Score
  <2> QED BY <2>1, <2>2
<1> QED BY <1>2, <1>3 DEF Unkept

\* A day added to a week breaks no rule but those recorded with it.
LEMMA AppendExcused ==
  ASSUME NEW week \in Seq(Menus), NEW F, NEW unkept \in Seq(F), Len(unkept) = Len(week),
         Excused(week, unkept), NEW m \in Menus, NEW u \in F,
         m \in MenusOf(week) => "repeat" \in u,
         ContinuesStreak(week, m) => "streak" \in u
  PROVE  Excused(Append(week, m), Append(unkept, u))
<1> DEFINE next == Append(week, m)
           told == Append(unkept, u)
           n == Len(week)
<1> USE WeekAssumption, WeekPlanAssumption
<1>1. /\ n \in Nat /\ DOMAIN next = 1..(n + 1) /\ DOMAIN week = 1..n
      /\ \A i \in 1..n : next[i] = week[i] /\ told[i] = unkept[i]
      /\ next[n + 1] = m /\ told[n + 1] = u
  BY AppendFacts
<1>2. Len(week) = n /\ MenusOf(week) = {week[i] : i \in 1..n}
  BY <1>1 DEF MenusOf
<1> HIDE DEF next, told, n
<1>3. ASSUME NEW i \in DOMAIN next, NEW j \in DOMAIN next, i < j, next[i] = next[j]
      PROVE  "repeat" \in told[i] \cup told[j]
  <2>1. i \in 1..n
    BY <1>1, <1>3
  <2>2. CASE j \in 1..n
    BY <1>1, <1>3, <2>1, <2>2 DEF Excused
  <2>3. CASE j = n + 1
    BY <1>1, <1>2, <1>3, <2>1, <2>3
  <2> QED BY <1>1, <2>2, <2>3
<1>4. ASSUME NEW first \in DOMAIN next,
             first..(first + StreakLimit) \subseteq DOMAIN next,
             \A i \in first..(first + StreakLimit) : GenreOf[next[i]] = GenreOf[next[first]]
      PROVE  \E i \in first..(first + StreakLimit) : "streak" \in told[i]
  <2>1. first \in Nat /\ first + StreakLimit \in first..(first + StreakLimit)
    BY <1>1
  <2>2. first \in 1..n /\ first + StreakLimit <= n + 1
    BY <1>1, <1>4, <2>1
  <2>3. CASE first + StreakLimit <= n
    <3>1. first..(first + StreakLimit) \subseteq DOMAIN week
      BY <1>1, <2>1, <2>2, <2>3
    <3>2. \A i \in first..(first + StreakLimit) : next[i] = week[i] /\ told[i] = unkept[i]
      BY <1>1, <3>1
    <3>3. first \in DOMAIN week /\ first \in first..(first + StreakLimit)
      BY <1>1, <2>1, <2>2
    <3>4. \A i \in first..(first + StreakLimit) : GenreOf[week[i]] = GenreOf[week[first]]
      BY <1>4, <3>2, <3>3
    <3>5. \E i \in first..(first + StreakLimit) : "streak" \in unkept[i]
      BY <3>1, <3>3, <3>4 DEF Excused
    <3> QED BY <3>2, <3>5
  <2>4. CASE first + StreakLimit = n + 1
    <3>1. GenreOf[m] = GenreOf[next[first]]
      BY <1>1, <1>4, <2>1, <2>4
    <3>2. \A i \in (n - StreakLimit + 1)..n :
            i \in 1..n /\ i \in first..(first + StreakLimit)
      BY <1>1, <2>1, <2>2, <2>4
    <3>3. \A i \in (n - StreakLimit + 1)..n : GenreOf[week[i]] = GenreOf[m]
      BY <1>1, <1>4, <3>1, <3>2
    <3>4. ContinuesStreak(week, m)
      BY <1>1, <1>2, <2>2, <2>4, <3>3 DEF ContinuesStreak
    <3> QED BY <1>1, <2>1, <2>4, <3>4
  <2> QED BY <1>1, <2>1, <2>2, <2>3, <2>4
<1>5. Excused(next, told)
  BY <1>3, <1>4 DEF Excused
<1> QED BY <1>5 DEF next, told

\* Nor does a day that is replaced, whichever day it is.
LEMMA RerollExcused ==
  ASSUME NEW week \in Seq(Menus), Len(week) = WeekLength, NEW d \in Days,
         NEW F, NEW unkept \in Seq(F), Len(unkept) = Len(week),
         Excused(week, unkept), NEW m \in Menus, NEW u \in F,
         m \in Others(week, d) => "repeat" \in u,
         CreatesStreak(week, d, m) => "streak" \in u
  PROVE  Excused([week EXCEPT ![d] = m], [unkept EXCEPT ![d] = u])
<1> DEFINE next == [week EXCEPT ![d] = m]
           told == [unkept EXCEPT ![d] = u]
<1> USE WeekAssumption, WeekPlanAssumption
<1>1. /\ DOMAIN next = Days /\ DOMAIN week = Days
      /\ \A i \in Days : i # d => next[i] = week[i] /\ told[i] = unkept[i]
      /\ next[d] = m /\ told[d] = u
  BY ReplaceFacts DEF Days
<1>2. Others(week, d) = {week[i] : i \in Days \ {d}}
  BY <1>1 DEF Others
<1> HIDE DEF next, told
<1>3. ASSUME NEW i \in DOMAIN next, NEW j \in DOMAIN next, i < j, next[i] = next[j]
      PROVE  "repeat" \in told[i] \cup told[j]
  <2>0. i # j
    BY <1>1, <1>3 DEF Days
  <2>1. CASE i # d /\ j # d
    BY <1>1, <1>3, <2>1 DEF Excused
  <2>2. CASE i = d
    BY <1>1, <1>2, <1>3, <2>0, <2>2
  <2>3. CASE j = d
    BY <1>1, <1>2, <1>3, <2>0, <2>3
  <2> QED BY <2>1, <2>2, <2>3
<1>4. ASSUME NEW first \in DOMAIN next,
             first..(first + StreakLimit) \subseteq DOMAIN next,
             \A i \in first..(first + StreakLimit) : GenreOf[next[i]] = GenreOf[next[first]]
      PROVE  \E i \in first..(first + StreakLimit) : "streak" \in told[i]
  <2> DEFINE window == first..(first + StreakLimit)
  <2>1. /\ first \in Nat /\ first \in window
        /\ first + StreakLimit \in window /\ first + StreakLimit <= WeekLength
    BY <1>1, <1>4 DEF Days
  <2>2. CASE d \notin window
    <3>1. \A i \in window : next[i] = week[i] /\ told[i] = unkept[i]
      BY <1>1, <1>4, <2>2
    <3>2. \A i \in window : GenreOf[week[i]] = GenreOf[week[first]]
      BY <1>4, <2>1, <3>1
    <3>3. \E i \in window : "streak" \in unkept[i]
      BY <1>1, <1>4, <3>2 DEF Excused
    <3> QED BY <3>1, <3>3
  <2>3. CASE d \in window
    <3>1. \A i \in window \ {d} : GenreOf[week[i]] = GenreOf[m]
      BY <1>1, <1>4, <2>3
    <3>2. CreatesStreak(week, d, m)
      BY <1>1, <2>1, <2>3, <3>1 DEF CreatesStreak
    <3> QED BY <1>1, <2>3, <3>2
  <2> QED BY <2>2, <2>3
<1>5. Excused(next, told)
  BY <1>3, <1>4 DEF Excused
<1> QED BY <1>5 DEF next, told

\* However a week was built and whichever days were rerolled afterwards, with
\* whatever filters, it breaks a rule only where pickDay or pickForDay found no
\* candidate that keeps it.
THEOREM PlannerRelaxedOnlyIfForced == Spec => []RelaxedOnlyIfForced
<1> DEFINE Rules == SUBSET {"repeat", "streak"}
<1>1. Init => RelaxedOnlyIfForced
  BY DEF Init, RelaxedOnlyIfForced, Excused
<1>2. TypeOK /\ RelaxedOnlyIfForced /\ [Next]_vars => RelaxedOnlyIfForced'
  <2> SUFFICES ASSUME TypeOK, RelaxedOnlyIfForced, [Next]_vars PROVE RelaxedOnlyIfForced'
    OBVIOUS
  <2>0. Excused(<<>>, <<>>) /\ MenuSeq(<<>>) = <<>> /\ Len(<<>>) = 0
    BY DEF Excused, MenuSeq
  <2>1. CASE PickDay
    <3> DEFINE week == MenuSeq(draft)
               streaks == {m \in candidates : EndsStreak(week, m)}
               u == Unkept(week, streaks)
    <3>1. /\ draft \in Seq(DayMenu) /\ week \in Seq(Menus) /\ Len(week) = Len(draft)
          /\ Len(draft) \in Nat /\ Len(draft) < WeekLength /\ plan = <<>>
          /\ candidates \subseteq Menus /\ forced \in Seq(Rules)
      BY <2>1, MenuSeqFacts DEF PickDay, TypeOK
    <3>2. PICK p \in NextDays(candidates, recent, week) : draft' = Append(draft, p)
      BY <2>1 DEF PickDay
    <3>3. /\ p \in DayMenu /\ p.menu \in Menus
          /\ p.menu \in Drawn(candidates, candidates \ MenusOf(week),
                                   {m \in candidates : ContinuesStreak(week, m)}, recent)
      <4>1. Len(week) + 1 \in Days
        BY <3>1, WeekAssumption DEF Days
      <4> HIDE DEF week
      <4> QED BY <3>1, <3>2, <4>1, NextDay
    <3>4. streaks = {m \in candidates : ContinuesStreak(week, m)}
      BY <3>1, StreakEnded
    <3>5. MenuSeq(draft') = Append(week, p.menu)
      BY <3>1, <3>2, <3>3 DEF MenuSeq
    <3>6. forced' = Append(forced, u) /\ u \in Rules
      BY <2>1, UnkeptType DEF PickDay
    <3>7. Excused(week, forced) /\ Len(forced) = Len(week)
      BY <2>0, <2>1, <3>1 DEF RelaxedOnlyIfForced, PickDay, TypeOK
    <3>8. pc' = "suggest"
      BY <2>1 DEF PickDay
    <3>9. p.menu \in candidates
      BY <3>3 DEF Drawn
    <3> HIDE DEF week, streaks, Rules
    <3>10. /\ p.menu \in MenusOf(week) => "repeat" \in u
           /\ ContinuesStreak(week, p.menu) => "streak" \in u
      BY <3>3, <3>4, <3>9, DrawnForced
    <3> HIDE DEF u
    <3>11. Excused(Append(week, p.menu), Append(forced, u))
      BY <3>1, <3>3, <3>6, <3>7, <3>10, AppendExcused
    <3> QED BY <3>5, <3>6, <3>8, <3>11 DEF RelaxedOnlyIfForced
  <2>2. CASE AnswerDay
    <3> DEFINE streaks == {m \in candidates : MakesStreak(plan, day, m)}
               u == Unkept(plan, streaks)
    <3>1. /\ plan \in Seq(Menus) /\ Len(plan) = WeekLength /\ day \in Days
          /\ candidates \subseteq Menus /\ forced \in Seq(Rules) /\ draft = <<>>
          /\ pc = "reroll" /\ pc' = "idle"
      BY <2>2 DEF AnswerDay, TypeOK, Finish
    <3>2. PICK p \in Rerolls(candidates, recent, plan, day) :
            plan' = [plan EXCEPT ![day] = p.menu]
      BY <2>2 DEF AnswerDay
    <3>3. /\ p.menu \in candidates
          /\ p.menu \in Drawn(candidates, candidates \ MenusOf(plan),
                                   {m \in candidates : CreatesStreak(plan, day, m)}, recent)
      <4>1. p \in Rerolls(candidates, recent, plan, day)
            /\ day \in Days /\ candidates \subseteq Menus
        BY <3>1
      <4> QED BY ONLY <4>1, RerolledDay
    <3>4. streaks = {m \in candidates : CreatesStreak(plan, day, m)}
      BY <3>1, StreakMade
    <3>5. forced' = [forced EXCEPT ![day] = u] /\ u \in Rules
      BY <2>2, UnkeptType DEF AnswerDay
    <3>6. Excused(plan, forced) /\ Len(forced) = Len(plan)
      BY <2>0, <3>1 DEF RelaxedOnlyIfForced, TypeOK
    <3>7. Others(plan, day) \subseteq MenusOf(plan)
      BY DEF Others, MenusOf
    <3> HIDE DEF streaks, Rules
    <3>8. /\ p.menu \in Others(plan, day) => "repeat" \in u
          /\ CreatesStreak(plan, day, p.menu) => "streak" \in u
      BY <3>3, <3>4, <3>7, DrawnForced
    <3> HIDE DEF u
    <3>9. Excused([plan EXCEPT ![day] = p.menu], [forced EXCEPT ![day] = u])
      BY <3>1, <3>3, <3>5, <3>6, <3>8, RerollExcused
    <3> QED BY <3>1, <3>2, <3>5, <3>9 DEF RelaxedOnlyIfForced
  <2>3. CASE AnswerWeek
    BY <2>3 DEF AnswerWeek, Finish, RelaxedOnlyIfForced
  <2>4. ASSUME NEW C \in Filters, NEW R \in Histories, SuggestWeekly(C, R)
        PROVE  RelaxedOnlyIfForced'
    <3>1. pc = "idle" /\ pc' = "suggest" /\ draft' = <<>> /\ forced' = <<>>
      BY <2>4 DEF SuggestWeekly, Request, TypeOK
    <3> QED BY <2>0, <3>1 DEF RelaxedOnlyIfForced
  <2>5. CASE NoMenuFound \/ Fail
    <3>1. /\ pc' = "idle" /\ plan' = plan
          /\ forced' = IF pc = "suggest" THEN <<>> ELSE forced
      BY <2>5 DEF NoMenuFound, Fail, Refuse, Finish
    <3> QED BY <2>0, <3>1 DEF RelaxedOnlyIfForced, TypeOK
  <2>6. CASE AnswerSingle
    BY <2>6 DEF AnswerSingle, Finish, RelaxedOnlyIfForced
  <2>7. ASSUME NEW C \in Filters, NEW R \in Histories, Suggest(C, R)
        PROVE  RelaxedOnlyIfForced'
    BY <2>7 DEF Suggest, Request, RelaxedOnlyIfForced
  <2>8. ASSUME NEW d \in Days, NEW C \in Filters, NEW R \in Histories, RerollDay(d, C, R)
        PROVE  RelaxedOnlyIfForced'
    BY <2>8 DEF RerollDay, Request, RelaxedOnlyIfForced
  <2>9. CASE UNCHANGED vars
    BY <2>9 DEF vars, RelaxedOnlyIfForced
  <2> QED BY <2>1, <2>2, <2>3, <2>4, <2>5, <2>6, <2>7, <2>8, <2>9 DEF Next
<1> QED BY <1>1, <1>2, PlannerTypeOK, PTL DEF Spec

\* What the service says of the days it has drawn is true: each repeat and each
\* run longer than the limit in a new week is marked on one of its days, and a
\* redrawn day is marked exactly for what it does to the caller's week.
THEOREM PlannerRelaxationsShown == Spec => []RelaxationsShown
<1>1. Init => RelaxationsShown
  BY DEF Init, RelaxationsShown, MarksTell
<1>2. TypeOK /\ RelaxationsShown /\ [Next]_vars => RelaxationsShown'
  <2> SUFFICES ASSUME TypeOK, RelaxationsShown, [Next]_vars PROVE RelaxationsShown'
    OBVIOUS
  <2>0. MarksTell(<<>>)
    BY DEF MarksTell
  <2>1. CASE PickDay
    <3>1. PICK p \in NextDays(candidates, recent, MenuSeq(draft)) : draft' = Append(draft, p)
      BY <2>1 DEF PickDay
    <3>2. MarksTell(draft') /\ redrawn' = NoDay
      BY <2>1, <3>1, AppendTells DEF PickDay, TypeOK, RelaxationsShown
    <3> QED BY <3>2 DEF RelaxationsShown
  <2>2. CASE AnswerDay
    <3>1. PICK p \in Rerolls(candidates, recent, plan, day) :
            redrawn' = p /\ plan' = [plan EXCEPT ![day] = p.menu]
      BY <2>2 DEF AnswerDay
    <3>2. /\ plan \in Seq(Menus) /\ Len(plan) = WeekLength /\ day \in Days
          /\ day \in 1..Len(plan) /\ candidates \subseteq Menus /\ draft' = <<>>
      BY <2>2 DEF AnswerDay, TypeOK, Finish, Days
    <3>3. /\ p.day = day /\ p.menu \in Menus
          /\ p.duplicate <=> p.menu \in Others(plan, day)
          /\ p.streak <=> CreatesStreak(plan, day, p.menu)
      <4>1. p \in Rerolls(candidates, recent, plan, day)
            /\ day \in Days /\ candidates \subseteq Menus
        BY <3>2
      <4>2. /\ p \in DayMenu /\ p.day = day /\ p.menu \in candidates
            /\ p.menu \in Drawn(candidates, candidates \ MenusOf(plan),
                               {m \in candidates : CreatesStreak(plan, day, m)}, recent)
            /\ p.duplicate <=> p.menu \in Others(plan, day)
            /\ p.streak <=> CreatesStreak(plan, day, p.menu)
        BY ONLY <4>1, RerolledDay
      <4> QED BY <4>1, <4>2
    <3>4. Others(plan', day) = Others(plan, day)
      <4>1. DOMAIN plan' = DOMAIN plan /\ \A i \in DOMAIN plan \ {day} : plan'[i] = plan[i]
        BY <3>1, <3>2
      <4> QED BY <4>1 DEF Others
    <3>5. plan' \in Seq(Menus) /\ Len(plan') = WeekLength
          /\ \A i \in Days \ {day} : plan'[i] = plan[i]
      BY <3>1, <3>2, <3>3, ReplaceFacts DEF Days
    <3>6. MakesStreak(plan', day, p.menu) <=> CreatesStreak(plan, day, p.menu)
      <4>1. MakesStreak(plan', day, p.menu) <=> CreatesStreak(plan', day, p.menu)
        BY <3>2, <3>3, <3>5, StreakMade
      <4>2. ASSUME NEW first \in Days, first + StreakLimit <= WeekLength,
                   NEW i \in (first..(first + StreakLimit)) \ {day}
            PROVE  plan'[i] = plan[i]
        BY <3>5, <4>2, WeekAssumption, WeekPlanAssumption DEF Days
      <4>3. CreatesStreak(plan', day, p.menu) <=> CreatesStreak(plan, day, p.menu)
        BY <3>2, <3>5, <4>2 DEF CreatesStreak
      <4> QED BY <4>1, <4>3
    <3> QED BY <2>0, <3>1, <3>2, <3>3, <3>4, <3>6 DEF RelaxationsShown
  <2>3. CASE AnswerWeek
    <3>1. redrawn' = NoDay /\ draft' = <<>>
      BY <2>3 DEF AnswerWeek, Finish, TypeOK
    <3> QED BY <2>0, <3>1 DEF RelaxationsShown
  <2>4. CASE \/ \E C \in Filters, R \in Histories : Suggest(C, R) \/ SuggestWeekly(C, R)
             \/ \E d \in Days, C \in Filters, R \in Histories : RerollDay(d, C, R)
    <3>1. redrawn' = NoDay /\ draft' = draft
      BY <2>4 DEF Suggest, SuggestWeekly, RerollDay, Request
    <3> QED BY <3>1 DEF RelaxationsShown
  <2>5. CASE AnswerSingle \/ NoMenuFound \/ Fail
    <3>1. redrawn' = redrawn /\ plan' = plan /\ draft' = <<>>
      BY <2>5 DEF AnswerSingle, NoMenuFound, Fail, Refuse, Finish
    <3> QED BY <2>0, <3>1 DEF RelaxationsShown
  <2>6. CASE UNCHANGED vars
    BY <2>6 DEF vars, RelaxationsShown
  <2> QED BY <2>1, <2>2, <2>3, <2>4, <2>5, <2>6 DEF Next
<1> QED BY <1>1, <1>2, PlannerTypeOK, PTL DEF Spec

\* No request with a candidate is refused, in any state and for any history:
\* every ladder of pools ends at all candidates.
THEOREM PlannerNeverStuck == Spec => []NeverStuck
<1>1. NeverStuck
  <2> SUFFICES ASSUME candidates # {}
               PROVE  /\ Singles(candidates, recent) # {}
                      /\ NextDays(candidates, recent, MenuSeq(draft)) # {}
                      /\ Rerolls(candidates, recent, plan, day) # {}
    BY DEF NeverStuck
  <2>1. Singles(candidates, recent) # {}
    BY DEF Singles
  <2>2. NextDays(candidates, recent, MenuSeq(draft)) # {}
    BY DrawnSome DEF NextDays
  <2>3. Rerolls(candidates, recent, plan, day) # {}
    BY DrawnSome DEF Rerolls
  <2> QED BY <2>1, <2>2, <2>3
<1> QED BY <1>1, PTL

-----------------------------------------------------------------------------
\* A rank is the score of a candidate, for the repeats that left lacks.
LEMMA RankIsScore ==
  ASSUME NEW C, NEW repeats, NEW S, NEW m \in C
  PROVE  Rank(repeats, S, m) = Score(C \ repeats, S, recent, m)
BY DEF Rank, Score

\* The single menu and the day of a week under construction break the least
\* important rules that any candidate would, in the order the ladder gives.
THEOREM PlannerLeastRelaxed == Spec => LeastRelaxed
<1> DEFINE SinglePart ==
             single' \notin {single, NoMenu} =>
               \A m \in candidates : Rank({}, {}, single') <= Rank({}, {}, m)
           DayPart ==
             Len(draft') = Len(draft) + 1 =>
               LET week == MenuSeq(draft)
                   streaks == {m \in candidates : EndsStreak(week, m)}
                   picked == draft'[Len(draft')].menu
               IN  \A m \in candidates :
                     Rank(MenusOf(week), streaks, picked) <= Rank(MenusOf(week), streaks, m)
           Least == /\ SinglePart
                    /\ DayPart
<1>1. TypeOK /\ [Next]_vars => SinglePart
  <2> SUFFICES ASSUME TypeOK, [Next]_vars, single' \notin {single, NoMenu}
               PROVE  \A m \in candidates : Rank({}, {}, single') <= Rank({}, {}, m)
    OBVIOUS
  <2>1. AnswerSingle
    BY DEF Next, vars, Suggest, SuggestWeekly, RerollDay, Request, PickDay, AnswerWeek,
           AnswerDay, NoMenuFound, Fail, Refuse
  <2>2. single' \in Singles(candidates, recent)
    BY <2>1 DEF AnswerSingle
  <2>3. CASE candidates \ recent # {}
    BY <2>2, <2>3 DEF Singles, Rank
  <2>4. CASE candidates \ recent = {}
    BY <2>2, <2>4 DEF Singles, Rank
  <2> QED BY <2>3, <2>4
<1>2. TypeOK /\ [Next]_vars => DayPart
  <2> SUFFICES ASSUME TypeOK, [Next]_vars, Len(draft') = Len(draft) + 1 PROVE DayPart
    OBVIOUS
  <2> DEFINE week == MenuSeq(draft)
             streaks == {m \in candidates : EndsStreak(week, m)}
             picked == draft'[Len(draft')].menu
  <2>0. draft \in Seq(DayMenu) /\ Len(draft) \in Nat /\ Len(<<>>) = 0
    BY DEF TypeOK
  <2>1. PickDay
    <3>1. draft' # draft /\ draft' # <<>>
      BY <2>0
    <3> QED BY <3>1 DEF Next, vars, Suggest, SuggestWeekly, RerollDay, Request, AnswerSingle,
                        AnswerWeek, AnswerDay, NoMenuFound, Fail, Refuse, Finish
  <2>2. PICK p \in NextDays(candidates, recent, week) : draft' = Append(draft, p)
    BY <2>1 DEF PickDay
  <2>3. p \in DayMenu
        /\ p.menu \in Drawn(candidates, candidates \ MenusOf(week),
                            {m \in candidates : ContinuesStreak(week, m)}, recent)
    <3>1. Len(week) + 1 \in Days
      BY <2>0, <2>1, MenuSeqFacts, WeekAssumption DEF PickDay, Days
    <3> QED BY <2>2, <3>1, NextDay DEF TypeOK
  <2>4. picked = p.menu
    BY <2>0, <2>2, <2>3, AppendFacts
  <2>5. streaks = {m \in candidates : ContinuesStreak(week, m)}
    <3>1. week \in Seq(Menus)
      BY <2>0, MenuSeqFacts
    <3> QED BY <3>1, StreakEnded DEF TypeOK
  <2>6. ASSUME NEW m \in candidates
        PROVE  Rank(MenusOf(week), streaks, picked) <= Rank(MenusOf(week), streaks, m)
    <3> HIDE DEF week, streaks, picked
    <3>1. picked \in Drawn(candidates, candidates \ MenusOf(week), streaks, recent)
      BY <2>3, <2>4, <2>5
    <3>2. picked \in candidates
          /\ Score(candidates \ MenusOf(week), streaks, recent, picked)
               <= Score(candidates \ MenusOf(week), streaks, recent, m)
      BY <3>1, DrawnLeast
    <3> QED BY <3>2, RankIsScore
  <2> QED BY <2>6
<1>3. TypeOK /\ [Next]_vars => [Least]_vars
  BY <1>1, <1>2
<1> HIDE DEF Least
<1>4. Spec => [][Least]_vars
  BY <1>3, PlannerTypeOK, PTL DEF Spec
<1> QED BY <1>4 DEF LeastRelaxed, Least

\* A rerolled day is another menu, unlike all other days, and makes a streak or
\* brings back history only if every unused candidate would.
THEOREM PlannerRerollFresh == Spec => RerollFresh
<1> DEFINE Fresh ==
             redrawn' \notin {redrawn, NoDay} /\ candidates \ MenusOf(plan) # {} =>
               LET streaks == {m \in candidates : MakesStreak(plan, day, m)}
               IN  /\ plan'[day] \notin MenusOf(plan)
                   /\ \A m \in candidates \ MenusOf(plan) :
                        Rank({}, streaks, plan'[day]) <= Rank({}, streaks, m)
<1>1. TypeOK /\ [Next]_vars => Fresh
  <2> SUFFICES ASSUME TypeOK, [Next]_vars, redrawn' \notin {redrawn, NoDay},
                      candidates \ MenusOf(plan) # {}
               PROVE  Fresh
    OBVIOUS
  <2> DEFINE streaks == {m \in candidates : MakesStreak(plan, day, m)}
             left == candidates \ MenusOf(plan)
             new == plan'[day]
  <2>1. AnswerDay
    BY DEF Next, vars, Suggest, SuggestWeekly, RerollDay, Request, PickDay, AnswerSingle,
           AnswerWeek, NoMenuFound, Fail, Refuse
  <2>2. /\ plan \in Seq(Menus) /\ Len(plan) = WeekLength /\ day \in 1..Len(plan)
        /\ day \in Days /\ candidates \subseteq Menus
    BY <2>1 DEF AnswerDay, TypeOK, Days
  <2>3. PICK p \in Rerolls(candidates, recent, plan, day) :
          plan' = [plan EXCEPT ![day] = p.menu]
    BY <2>1 DEF AnswerDay
  <2>4. p \in DayMenu /\ p.menu \in Menus
        /\ p.menu \in Drawn(candidates, left,
                            {m \in candidates : CreatesStreak(plan, day, m)}, recent)
    <3>1. p \in Rerolls(candidates, recent, plan, day)
          /\ day \in Days /\ candidates \subseteq Menus
      BY <2>2
    <3> QED BY ONLY <3>1, RerolledDay
  <2>5. new = p.menu
    BY <2>2, <2>3, <2>4, ReplaceFacts
  <2>6. streaks = {m \in candidates : CreatesStreak(plan, day, m)}
    BY <2>2, StreakMade
  <2> HIDE DEF streaks, new
  <2>7. new \in Drawn(candidates, left, streaks, recent)
    BY <2>4, <2>5, <2>6
  <2>8. ASSUME NEW m \in left
        PROVE  new \in left /\ Rank({}, streaks, new) <= Rank({}, streaks, m)
    <3>1. /\ new \in candidates
          /\ Score(left, streaks, recent, new) <= Score(left, streaks, recent, m)
      BY <2>7, <2>8, DrawnLeast
    <3>2. new \in left
      BY <2>8, <3>1 DEF Score
    <3>3. /\ Score(left, streaks, recent, new) = Rank({}, streaks, new)
          /\ Score(left, streaks, recent, m) = Rank({}, streaks, m)
      BY <2>8, <3>2 DEF Score, Rank
    <3> QED BY <3>1, <3>2, <3>3
  <2>9. PICK m \in left : TRUE
    OBVIOUS
  <2>10. new \notin MenusOf(plan)
    BY <2>8, <2>9
  <2> QED BY <2>8, <2>10 DEF streaks, new
<1>2. TypeOK /\ [Next]_vars => [Fresh]_vars
  BY <1>1
<1> HIDE DEF Fresh
<1>3. Spec => [][Fresh]_vars
  BY <1>2, PlannerTypeOK, PTL DEF Spec
<1> QED BY <1>3 DEF RerollFresh, Fresh

-----------------------------------------------------------------------------
\* What the page's two properties need: a change that is pending knows a week,
\* and an unmixed save that is pending or was told is of the week on screen,
\* with nothing under way that could change it.
PageInv ==
  /\ TypeOKPage
  /\ reroll.pending => shown # NoWeek
  /\ save.status # "idle" => save.of \in Weeks
  /\ ~mixed /\ save.status \in {"pending", "success"} =>
       save.of = shown /\ ~create /\ ~reroll.pending
  /\ SavedIdUnlessMixed
  /\ DistinctUnlessCrossed

\* The fields of the two records, one by one.
LEMMA PageRecords ==
  ASSUME TypeOKPage
  PROVE  /\ reroll.pending \in BOOLEAN /\ reroll.day \in Days
         /\ reroll.of \in Weeks \cup {NoWeek}
         /\ save.status \in {"idle", "pending", "success", "error"}
         /\ save.of \in Weeks \cup {NoWeek}
         /\ create \in BOOLEAN /\ mixed \in BOOLEAN /\ crossed \in BOOLEAN
BY DEF TypeOKPage

LEMMA PageInit ==
  ASSUME InitPage
  PROVE  PageInv
<1>1. /\ shown \in Weeks \cup {NoWeek}
      /\ shelf \in [SavedIds -> Weeks \cup {NoWeek}]
      /\ shown # NoWeek => Distinct(shown)
  BY DEF InitPage
<1>2. savedId \in {NoId} \cup {i \in SavedIds : shelf[i] # NoWeek}
      /\ (savedId # NoId => shelf[savedId] = shown)
  BY DEF InitPage
<1>3. /\ reroll = [pending |-> FALSE, day |-> 1, of |-> NoWeek]
      /\ save = [status |-> "idle", of |-> NoWeek]
      /\ create = FALSE /\ crossed = FALSE /\ mixed = FALSE
  BY DEF InitPage, NoReroll, NoSave
<1>4. 1 \in Days
  BY WeekAssumption DEF Days
<1>5. TypeOKPage
  BY <1>1, <1>2, <1>3, <1>4 DEF TypeOKPage
<1> QED BY <1>1, <1>2, <1>3, <1>5
    DEF PageInv, SavedIdUnlessMixed, SavedIdMatches, NoticeMatches,
        DistinctUnlessCrossed, WeekDistinct

\* The notice that ClearSaved takes off the screen.
LEMMA Cleared ==
  ASSUME TypeOKPage, save' = ClearSaved
  PROVE  /\ save' = save \/ (save'.status = "idle" /\ save'.of = NoWeek)
         /\ save'.status \in {"idle", "pending"}
         /\ save.status = "pending" <=> save'.status = "pending"
         /\ save' \in [status : {"idle", "pending", "success", "error"},
                       of : Weeks \cup {NoWeek}]
<1>1. CASE save.status \in {"success", "error"}
  <2>1. save' = [status |-> "idle", of |-> NoWeek]
    BY <1>1 DEF ClearSaved, NoSave
  <2> QED BY <1>1, <2>1
<1>2. CASE save.status \notin {"success", "error"}
  <2>1. save' = save
    BY <1>2 DEF ClearSaved
  <2> QED BY <1>2, <2>1 DEF TypeOKPage
<1> QED BY <1>1, <1>2

\* A week with one day redrawn is a week; it repeats no menu when neither the
\* week nor the answer did.
LEMMA RedrawnWeek ==
  ASSUME TypeOKPage, shown # NoWeek, NEW m \in Menus
  PROVE  /\ Redrawn(m) \in Weeks
         /\ /\ Distinct(shown)
            /\ \A d \in Days \ {reroll.day} : shown[d] # m
            => Distinct(Redrawn(m))
<1>1. shown \in Weeks /\ reroll.day \in Days
  BY PageRecords DEF TypeOKPage
<1>2. /\ Redrawn(m) \in [Days -> Menus]
      /\ Redrawn(m)[reroll.day] = m
      /\ \A d \in Days \ {reroll.day} : Redrawn(m)[d] = shown[d]
  BY <1>1 DEF Redrawn, Weeks
<1> HIDE DEF Redrawn
<1>3. ASSUME Distinct(shown), \A d \in Days \ {reroll.day} : shown[d] # m
      PROVE  Distinct(Redrawn(m))
  <2> SUFFICES ASSUME NEW d \in Days, NEW e \in Days,
                      Redrawn(m)[d] = Redrawn(m)[e]
               PROVE  d = e
    BY DEF Distinct
  <2>1. CASE d = reroll.day \/ e = reroll.day
    BY <1>2, <1>3, <2>1
  <2>2. CASE d # reroll.day /\ e # reroll.day
    BY <1>2, <1>3, <2>2 DEF Distinct
  <2> QED BY <2>1, <2>2
<1> QED BY <1>2, <1>3 DEF Weeks

\* The invariant is kept, one action at a time.
LEMMA PageStep ==
  ASSUME PageInv, [NextPage]_pageVars
  PROVE  PageInv'
<1> USE DEF SavedIdUnlessMixed, SavedIdMatches, NoticeMatches,
            DistinctUnlessCrossed, WeekDistinct, SaveLingers
<1>0. /\ TypeOKPage
      /\ reroll.pending \in BOOLEAN /\ reroll.day \in Days
      /\ reroll.of \in Weeks \cup {NoWeek}
      /\ save.status \in {"idle", "pending", "success", "error"}
      /\ save.of \in Weeks \cup {NoWeek}
      /\ create \in BOOLEAN /\ mixed \in BOOLEAN /\ crossed \in BOOLEAN
      /\ 1 \in Days /\ NoWeek \notin Weeks /\ NoId \notin SavedIds
  BY PageRecords, WeekAssumption, WeeklyPageAssumption
     DEF PageInv, Days, Weeks, WeeklyPageAssumption
<1>1. CASE Submit
  <2>1. save' = ClearSaved /\ create' = TRUE
        /\ mixed' = (mixed \/ save.status = "pending")
        /\ UNCHANGED <<shown, savedId, shelf, reroll, crossed>>
    BY <1>1 DEF Submit
  <2>2. /\ save' = save \/ (save'.status = "idle" /\ save'.of = NoWeek)
        /\ save'.status \in {"idle", "pending"}
        /\ save.status = "pending" <=> save'.status = "pending"
        /\ save' \in [status : {"idle", "pending", "success", "error"},
                      of : Weeks \cup {NoWeek}]
    BY <1>0, <2>1, Cleared
  <2>3. TypeOKPage'
    BY <1>0, <2>1, <2>2 DEF TypeOKPage
  <2> QED BY <1>0, <2>1, <2>2, <2>3 DEF PageInv
<1>2. ASSUME NEW w \in Weeks, Created(w) PROVE PageInv'
  <2>1. TypeOKPage'
    <3>1. /\ create' = FALSE /\ crossed' = FALSE /\ mixed' \in BOOLEAN
          /\ shown' \in Weeks /\ savedId' = NoId
      BY <1>0, <1>2 DEF Created
    <3> QED BY <1>0, <1>2, <3>1 DEF TypeOKPage, Created
  <2> QED BY <1>0, <1>2, <2>1 DEF PageInv, Created
<1>3. CASE CreateFailed
  <2>1. TypeOKPage'
    BY <1>0, <1>3 DEF TypeOKPage, CreateFailed
  <2> QED BY <1>0, <1>3, <2>1 DEF PageInv, CreateFailed
<1>4. ASSUME NEW d \in Days, ClickReroll(d) PROVE PageInv'
  <2>1. save' = ClearSaved /\ reroll' = [pending |-> TRUE, day |-> d, of |-> shown]
        /\ mixed' = (mixed \/ save.status = "pending") /\ shown # NoWeek
        /\ UNCHANGED <<shown, savedId, shelf, create, crossed>>
    BY <1>4 DEF ClickReroll
  <2>2. /\ save' = save \/ (save'.status = "idle" /\ save'.of = NoWeek)
        /\ save'.status \in {"idle", "pending"}
        /\ save.status = "pending" <=> save'.status = "pending"
        /\ save' \in [status : {"idle", "pending", "success", "error"},
                      of : Weeks \cup {NoWeek}]
    BY <1>0, <2>1, Cleared
  <2>3. reroll' \in [pending : BOOLEAN, day : Days, of : Weeks \cup {NoWeek}]
    BY <1>0, <2>1 DEF TypeOKPage
  <2>4. TypeOKPage'
    BY <1>0, <2>1, <2>2, <2>3 DEF TypeOKPage
  <2> QED BY <1>0, <2>1, <2>2, <2>4 DEF PageInv
<1>5. ASSUME NEW m \in Menus, Rerolled(m) PROVE PageInv'
  <2>1. /\ reroll.pending /\ \A d \in Days \ {reroll.day} : reroll.of[d] # m
        /\ shown' = Redrawn(m) /\ savedId' = NoId
        /\ crossed' = (crossed \/ shown # reroll.of)
        /\ mixed' = (save.status = "pending" \/ (mixed /\ save.status = "success"))
        /\ reroll' = [pending |-> FALSE, day |-> 1, of |-> NoWeek]
        /\ UNCHANGED <<shelf, create, save>>
    BY <1>5 DEF Rerolled, NoReroll
  <2>2. shown # NoWeek /\ shown' \in Weeks
    BY <1>0, <2>1, RedrawnWeek DEF PageInv
  <2>3. ~crossed' => Distinct(shown')
    <3> SUFFICES ASSUME ~crossed' PROVE Distinct(shown')
      OBVIOUS
    <3>1. Distinct(shown) /\ \A d \in Days \ {reroll.day} : shown[d] # m
      BY <2>1, <2>2 DEF PageInv
    <3> QED BY <1>0, <2>1, <2>2, <3>1, RedrawnWeek
  <2>4. TypeOKPage'
    BY <1>0, <2>1, <2>2 DEF TypeOKPage
  <2> QED BY <1>0, <2>1, <2>2, <2>3, <2>4 DEF PageInv
<1>6. CASE RerollFailed
  <2>1. reroll' = [pending |-> FALSE, day |-> 1, of |-> NoWeek]
        /\ UNCHANGED <<shown, savedId, shelf, create, save, crossed, mixed>>
    BY <1>6 DEF RerollFailed, NoReroll
  <2>2. TypeOKPage'
    BY <1>0, <2>1 DEF TypeOKPage
  <2> QED BY <1>0, <2>1, <2>2 DEF PageInv
<1>7. CASE ClickSave
  <2>1. /\ shown # NoWeek /\ save.status # "pending"
        /\ save' = [status |-> "pending", of |-> shown]
        /\ mixed' = (mixed \/ create \/ reroll.pending)
        /\ UNCHANGED <<shown, savedId, shelf, create, reroll, crossed>>
    BY <1>7 DEF ClickSave
  <2>2. shown \in Weeks
    BY <1>0, <2>1 DEF TypeOKPage
  <2>3. TypeOKPage'
    BY <1>0, <2>1, <2>2 DEF TypeOKPage
  <2> QED BY <1>0, <2>1, <2>2, <2>3 DEF PageInv
<1>8. ASSUME NEW i \in SavedIds, Saved(i) PROVE PageInv'
  <2>1. /\ save.status = "pending" /\ shelf' = [shelf EXCEPT ![i] = save.of]
        /\ savedId' = i /\ save' = [save EXCEPT !.status = "success"]
        /\ UNCHANGED <<shown, create, reroll, crossed, mixed>>
    BY <1>8 DEF Saved
  <2>2. save.of \in Weeks
    BY <2>1 DEF PageInv
  <2>3. save'.status = "success" /\ save'.of = save.of
        /\ save' \in [status : {"idle", "pending", "success", "error"},
                      of : Weeks \cup {NoWeek}]
    BY <1>0, <2>1 DEF TypeOKPage
  <2>4. shelf' \in [SavedIds -> Weeks \cup {NoWeek}] /\ shelf'[i] = save.of
    BY <1>0, <2>1, <2>2 DEF TypeOKPage
  <2>5. TypeOKPage'
    BY <1>0, <2>1, <2>2, <2>3, <2>4 DEF TypeOKPage
  <2> QED BY <1>0, <2>1, <2>2, <2>3, <2>4, <2>5 DEF PageInv
<1>9. CASE SaveFailed
  <2>1. /\ save.status = "pending" /\ save' = [save EXCEPT !.status = "error"]
        /\ UNCHANGED <<shown, savedId, shelf, create, reroll, crossed, mixed>>
    BY <1>9 DEF SaveFailed
  <2>2. save'.status = "error" /\ save'.of = save.of
        /\ save' \in [status : {"idle", "pending", "success", "error"},
                      of : Weeks \cup {NoWeek}]
    BY <1>0, <2>1 DEF TypeOKPage
  <2>3. TypeOKPage'
    BY <1>0, <2>1, <2>2 DEF TypeOKPage
  <2> QED BY <1>0, <2>1, <2>2, <2>3 DEF PageInv
<1>10. CASE UNCHANGED pageVars
  <2>1. TypeOKPage'
    BY <1>0, <1>10 DEF pageVars, TypeOKPage
  <2> QED BY <1>0, <1>10, <2>1 DEF pageVars, PageInv
<1> QED BY <1>1, <1>2, <1>3, <1>4, <1>5, <1>6, <1>7, <1>8, <1>9, <1>10 DEF NextPage

\* The inductive invariant of the page.
THEOREM WeeklyPageInvariant == SpecPage => []PageInv
<1>1. InitPage => PageInv
  BY PageInit
<1>2. PageInv /\ [NextPage]_pageVars => PageInv'
  BY PageStep
<1> QED BY <1>1, <1>2, PTL DEF SpecPage

\* For any menus, week length and saved weeks, the id on screen and the notice
\* are of the week on screen, unless the week was being changed while its save
\* was under way.
THEOREM WeeklyPageSavedId == SpecPage => []SavedIdUnlessMixed
<1>1. PageInv => SavedIdUnlessMixed
  BY DEF PageInv
<1> QED BY <1>1, WeeklyPageInvariant, PTL

\* And the week on screen repeats no menu unless a redraw was answered into a
\* week made after its request.
THEOREM WeeklyPageDistinct == SpecPage => []DistinctUnlessCrossed
<1>1. PageInv => DistinctUnlessCrossed
  BY DEF PageInv
<1> QED BY <1>1, WeeklyPageInvariant, PTL
=============================================================================
