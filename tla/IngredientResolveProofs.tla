----------------------- MODULE IngredientResolveProofs -----------------------
(***************************************************************************)
(* Proofs about ResolveQuota and IngredientResolve, for every value of     *)
(* their constants.  First the daily limits hold, up to the requests in    *)
(* flight.  What makes TotalBound inductive is to count, with a day's      *)
(* total, every request that may still add to it: the ones charging it,    *)
(* and on the current day also those already called or allowed, and those  *)
(* whose Check reads the counters of an earlier day.  CallsCounted needs   *)
(* the sums over the rows of a table (Sums).  Then the composition         *)
(* takes only steps of ResolveQuota with the counters, so what was proved  *)
(* of the quota alone holds of the whole; the misses in the cache are told *)
(* of a catalog at least as new as the last purge; and every word of a     *)
(* text is answered once.                                                  *)
(***************************************************************************)
EXTENDS IngredientResolve, Sums, FiniteSetTheorems, TLAPS

\* Requests that may still be counted on day d, whatever the counters say.
Risky(q, now, d) ==
  \/ q.pc = "charging" /\ q.date = d
  \/ q.pc \in {"allowed", "called"} /\ now = d
  \/ q.pc = "checking" /\ q.date # now /\ now = d

AtRisk(d) == {r \in Requests : Risky(req[r], today, d)}

AtRiskOf(d, s) == {r \in AtRisk(d) : req[r].subject = s}

TotalInv ==
  TotalLimit > 0 =>
    \A d \in Dates : total[d] + Cardinality(AtRisk(d)) <= TotalLimit + Overshoot

OwnInv ==
  \A d \in Dates, s \in Subjects :
    LimitOf(s) > 0 =>
      own[d][s] + Cardinality(AtRiskOf(d, s)) <= LimitOf(s) + Overshoot

-----------------------------------------------------------------------------
\* A step of one request that counts nothing keeps the types.
LEMMA RequestStep ==
  ASSUME TypeOK, NEW r \in Requests, NEW next \in Request,
         next.pc # "idle" => next.subject \in Subjects /\ next.date <= today,
         req' = [req EXCEPT ![r] = next], UNCHANGED <<today, total, own>>,
         calls' \in Nat, lost' \in Nat
  PROVE  TypeOK'
<1>1. req' \in [Requests -> Request]
  BY DEF TypeOK
<1>2. \A o \in Requests : req'[o] = req[o] \/ req'[o] = next
  BY DEF TypeOK
<1> QED BY <1>1, <1>2 DEF TypeOK

LEMMA IdleRequest == Idle \in Request /\ Idle.pc = "idle"
BY QuotaAssumption DEF Idle, Request, Dates

\* The type invariant: a date a request holds is a day that has begun, and
\* only days that have begun are counted on.
THEOREM QuotaTypeOK == Spec => []TypeOK
<1>1. Init => TypeOK
  BY QuotaAssumption DEF Init, TypeOK, Dates, Request, Idle
<1>2. TypeOK /\ [Next]_vars => TypeOK'
  <2> SUFFICES ASSUME TypeOK, [Next]_vars PROVE TypeOK'
    OBVIOUS
  <2>1. CASE Midnight
    <3>1. today' = today + 1 /\ today' \in Dates /\ UNCHANGED <<total, own, req, calls, lost>>
      BY <2>1, QuotaAssumption DEF Midnight, TypeOK, Dates
    <3>2. \A r \in Requests : req[r].date \in Nat
      BY DEF TypeOK, Request, Dates
    <3>3. \A n \in Nat : n <= today => n <= today'
      BY <3>1 DEF TypeOK, Dates
    <3>4. \A d \in Dates : d > today' => d > today
      BY <3>1 DEF TypeOK, Dates
    <3> QED BY <3>1, <3>2, <3>3, <3>4 DEF TypeOK
  <2>2. ASSUME NEW r \in Requests, NEW s \in Subjects, Check(r, s) PROVE TypeOK'
    <3> DEFINE next ==
          [pc |-> IF TotalLimit = 0 /\ LimitOf(s) = 0 THEN "allowed" ELSE "checking",
           subject |-> s, date |-> today, gone |-> FALSE]
    <3>1. next \in Request /\ next.subject \in Subjects /\ next.date <= today
      BY DEF TypeOK, Request, Dates
    <3>2. req' = [req EXCEPT ![r] = next]
      BY <2>2 DEF Check
    <3> HIDE DEF next
    <3> QED BY <2>2, <3>1, <3>2, RequestStep DEF Check, TypeOK
  <2>3. ASSUME NEW r \in Requests,
               CountsAllow(r) \/ Call(r) \/ Disconnect(r) \/ Record(r)
        PROVE  TypeOK'
    <3>1. PICK next \in Request :
            /\ req' = [req EXCEPT ![r] = next]
            /\ next.subject = req[r].subject /\ next.date <= today
            /\ req[r].pc # "idle"
      <4>1. req[r] \in Request /\ today \in Dates /\ (req[r].pc # "idle" => req[r].date <= today)
        BY DEF TypeOK
      <4>2. CASE CountsAllow(r)
        <5> DEFINE next == [req[r] EXCEPT !.pc = "allowed"]
        <5>1. next \in Request /\ next.subject = req[r].subject /\ next.date = req[r].date
          BY <4>1 DEF Request
        <5> QED BY <4>1, <4>2, <5>1 DEF CountsAllow
      <4>3. CASE Call(r)
        <5> DEFINE next == [req[r] EXCEPT !.pc = "called"]
        <5>1. next \in Request /\ next.subject = req[r].subject /\ next.date = req[r].date
          BY <4>1 DEF Request
        <5> QED BY <4>1, <4>3, <5>1 DEF Call
      <4>4. CASE Disconnect(r)
        <5> DEFINE next == [req[r] EXCEPT !.gone = TRUE]
        <5>1. next \in Request /\ next.subject = req[r].subject /\ next.date = req[r].date
          BY <4>1 DEF Request
        <5> QED BY <4>1, <4>4, <5>1 DEF Disconnect
      <4>5. CASE Record(r)
        <5> DEFINE next == [req[r] EXCEPT !.pc = "charging", !.date = today]
        <5>1. next \in Request /\ next.subject = req[r].subject /\ next.date = today
          BY <4>1 DEF Request
        <5>2. today <= today
          BY <4>1 DEF Dates
        <5> QED BY <4>1, <4>5, <5>1, <5>2 DEF Record
      <4> QED BY <2>3, <4>2, <4>3, <4>4, <4>5
    <3>2. UNCHANGED <<today, total, own>> /\ calls' \in Nat /\ lost' \in Nat
      BY <2>3 DEF CountsAllow, Call, Disconnect, Record, TypeOK
    <3> QED BY <3>1, <3>2, RequestStep DEF TypeOK
  <2>4. ASSUME NEW r \in Requests,
               CountsDeny(r) \/ CountsFail(r) \/ NoCallNeeded(r) \/ LoseCount(r)
        PROVE  TypeOK'
    <3>1. req' = [req EXCEPT ![r] = Idle]
      BY <2>4 DEF CountsDeny, CountsFail, NoCallNeeded, LoseCount
    <3>2. UNCHANGED <<today, total, own>> /\ calls' \in Nat /\ lost' \in Nat
      BY <2>4 DEF CountsDeny, CountsFail, NoCallNeeded, LoseCount, TypeOK
    <3> QED BY <3>1, <3>2, IdleRequest, RequestStep
  <2>5. ASSUME NEW r \in Requests, Increment(r) PROVE TypeOK'
    <3> DEFINE d == req[r].date
               s == req[r].subject
    <3>1. d \in Dates /\ s \in Subjects /\ d <= today
      BY <2>5 DEF Increment, TypeOK, Request
    <3>2. total' = [total EXCEPT ![d] = total[d] + 1]
      BY <2>5 DEF Increment
    <3>3. own' = [own EXCEPT ![d] = [own[d] EXCEPT ![s] = own[d][s] + 1]]
      BY <2>5 DEF Increment
    <3>4. req' = [req EXCEPT ![r] = Idle] /\ UNCHANGED <<today, calls, lost>>
      BY <2>5 DEF Increment
    <3> HIDE DEF d, s
    <3>5. total' \in [Dates -> Nat] /\ own' \in [Dates -> [Subjects -> Nat]]
      BY <3>1, <3>2, <3>3 DEF TypeOK
    <3>6. \A e \in Dates : e > today => total'[e] = total[e] /\ own'[e] = own[e]
      BY <3>1, <3>2, <3>3 DEF TypeOK, Dates
    <3>7. /\ req' \in [Requests -> Request]
          /\ \A o \in Requests : req'[o] = req[o] \/ req'[o] = Idle
      BY <3>4, IdleRequest DEF TypeOK
    <3> QED BY <3>4, <3>5, <3>6, <3>7, IdleRequest DEF TypeOK
  <2>6. CASE UNCHANGED vars
    BY <2>6 DEF vars, TypeOK
  <2> QED BY <2>1, <2>2, <2>3, <2>4, <2>5, <2>6 DEF Next
<1> QED BY <1>1, <1>2, PTL DEF Spec

-----------------------------------------------------------------------------
\* The requests a day or a subject can still be charged by are finitely many,
\* and fewer of them is a smaller number.
LEMMA RiskFinite ==
  ASSUME NEW S, S \subseteq Requests
  PROVE  /\ IsFiniteSet(S) /\ Cardinality(S) \in Nat
         /\ Cardinality(S) <= Cardinality(Requests)
         /\ \A T \in SUBSET S :
              Cardinality(T) \in Nat /\ Cardinality(T) <= Cardinality(S)
         /\ \A r \in S :
              Cardinality(S \ {r}) = Cardinality(S) - 1
<1>1. IsFiniteSet(Requests) /\ IsFiniteSet(S)
  BY QuotaAssumption, FS_Subset
<1>2. Cardinality(S) \in Nat /\ Cardinality(Requests) \in Nat
  BY <1>1, FS_CardinalityType
<1>3. Cardinality(S) <= Cardinality(Requests)
  BY <1>1, FS_Subset
<1>4. \A T \in SUBSET S : Cardinality(T) \in Nat /\ Cardinality(T) <= Cardinality(S)
  BY <1>1, FS_Subset, FS_CardinalityType
<1>5. \A r \in S : Cardinality(S \ {r}) = Cardinality(S) - 1
  BY <1>1, FS_RemoveElement
<1> QED BY <1>1, <1>2, <1>3, <1>4, <1>5

\* How a step may move a count n with the requests S at risk of adding to it,
\* under a limit L: fewer requests, one of them counted, or a fresh decision
\* with room below the limit.
LEMMA RiskStep ==
  ASSUME NEW L \in Nat, NEW n \in Nat, NEW m \in Nat,
         NEW S, NEW T, S \subseteq Requests, T \subseteq Requests,
         n + Cardinality(S) <= L + Overshoot,
         \/ m = n /\ T \subseteq S
         \/ m = n + 1 /\ \E r \in S : T \subseteq S \ {r}
         \/ m < L
         \/ m = 0 /\ L > 0
  PROVE  m + Cardinality(T) <= L + Overshoot
<1>1. /\ Cardinality(S) \in Nat /\ Cardinality(T) \in Nat /\ Cardinality(Requests) \in Nat
      /\ Cardinality(T) <= Cardinality(Requests)
  BY RiskFinite
<1>2. Overshoot = Cardinality(Requests) - 1
  BY DEF Overshoot
<1>3. CASE m = n /\ T \subseteq S
  <2>1. Cardinality(T) <= Cardinality(S)
    BY <1>3, RiskFinite
  <2> QED BY <1>1, <1>2, <1>3, <2>1
<1>4. CASE m = n + 1 /\ \E r \in S : T \subseteq S \ {r}
  <2>1. PICK r \in S : T \subseteq S \ {r}
    BY <1>4
  <2>2. Cardinality(S \ {r}) = Cardinality(S) - 1
    BY RiskFinite
  <2>3. Cardinality(T) <= Cardinality(S \ {r})
    <3>1. S \ {r} \subseteq Requests
      OBVIOUS
    <3> QED BY <2>1, <3>1, RiskFinite
  <2> QED BY <1>1, <1>2, <1>4, <2>2, <2>3
<1>5. CASE m < L
  BY <1>1, <1>2, <1>5
<1>6. CASE m = 0 /\ L > 0
  BY <1>1, <1>2, <1>6
<1> QED BY <1>3, <1>4, <1>5, <1>6

\* What each step does to the requests at risk on day d: it leaves them, or
\* takes some away, or it is the midnight d begins with, or a request counted
\* on d, or one allowed on the counters of d.
LEMMA RiskMoves ==
  ASSUME TypeOK, [Next]_vars, NEW d \in Dates
  PROVE  \/ AtRisk(d)' \subseteq AtRisk(d) /\ UNCHANGED <<total, own>>
         \/ d > today /\ UNCHANGED <<total, own>>
         \/ \E r \in Requests :
              /\ AtRisk(d)' \subseteq AtRisk(d)
              /\ r \notin AtRisk(d)' /\ Increment(r)
         \/ \E r \in Requests :
              /\ AtRisk(d)' \subseteq AtRisk(d) \cup {r}
              /\ CountsAllow(r) /\ req[r].date = d
         \/ \E r \in Requests, s \in Subjects :
              /\ AtRisk(d)' \subseteq AtRisk(d) \cup {r}
              /\ Check(r, s) /\ TotalLimit = 0 /\ LimitOf(s) = 0
<1>1. CASE Midnight
  <2>1. today' = today + 1 /\ UNCHANGED <<total, own, req>> /\ today \in Nat /\ d \in Nat
    BY <1>1 DEF Midnight, TypeOK, Dates
  <2>2. CASE d = today \/ d < today
    <3>1. d # today'
      BY <2>1, <2>2
    <3>2. \A r \in Requests : Risky(req'[r], today', d) => Risky(req[r], today, d)
      BY <2>1, <3>1 DEF Risky
    <3> QED BY <2>1, <3>2 DEF AtRisk
  <2> QED BY <2>1, <2>2
<1>2. ASSUME NEW r \in Requests, NEW s \in Subjects, Check(r, s),
             ~(TotalLimit = 0 /\ LimitOf(s) = 0)
      PROVE  AtRisk(d)' \subseteq AtRisk(d) /\ UNCHANGED <<total, own>>
  <2>1. /\ req'[r].pc = "checking" /\ req'[r].date = today
        /\ today' = today /\ UNCHANGED <<total, own>>
        /\ \A o \in Requests \ {r} : req'[o] = req[o]
    BY <1>2 DEF Check, TypeOK
  <2> QED BY <2>1 DEF AtRisk, Risky
<1>3. ASSUME NEW r \in Requests, NEW s \in Subjects, Check(r, s)
      PROVE  AtRisk(d)' \subseteq AtRisk(d) \cup {r}
  <2>1. today' = today /\ \A o \in Requests \ {r} : req'[o] = req[o]
    BY <1>3 DEF Check, TypeOK
  <2> QED BY <2>1 DEF AtRisk
<1>4. ASSUME NEW r \in Requests, CountsAllow(r)
      PROVE  /\ AtRisk(d)' \subseteq AtRisk(d) \cup {r}
             /\ req[r].date # d => AtRisk(d)' \subseteq AtRisk(d)
             /\ UNCHANGED <<total, own>>
  <2>1. /\ req'[r].pc = "allowed" /\ req[r].pc = "checking"
        /\ today' = today /\ UNCHANGED <<total, own>>
        /\ \A o \in Requests \ {r} : req'[o] = req[o]
    BY <1>4 DEF CountsAllow, TypeOK
  <2> QED BY <2>1 DEF AtRisk, Risky
<1>5. ASSUME NEW r \in Requests,
             CountsDeny(r) \/ CountsFail(r) \/ NoCallNeeded(r) \/ LoseCount(r) \/ Increment(r)
      PROVE  AtRisk(d)' \subseteq AtRisk(d) /\ r \notin AtRisk(d)'
  <2>1. /\ req'[r] = Idle /\ today' = today
        /\ \A o \in Requests \ {r} : req'[o] = req[o]
    BY <1>5 DEF CountsDeny, CountsFail, NoCallNeeded, LoseCount, Increment, TypeOK
  <2> QED BY <2>1 DEF AtRisk, Risky, Idle
<1>6. ASSUME NEW r \in Requests, Call(r) \/ Disconnect(r) \/ Record(r)
      PROVE  AtRisk(d)' \subseteq AtRisk(d) /\ UNCHANGED <<total, own>>
  <2>1. /\ today' = today /\ UNCHANGED <<total, own>>
        /\ \A o \in Requests \ {r} : req'[o] = req[o]
    BY <1>6 DEF Call, Disconnect, Record, TypeOK
  <2>2. CASE Call(r)
    <3>1. req[r].pc = "allowed" /\ req'[r].pc = "called"
      BY <2>2 DEF Call, TypeOK
    <3> QED BY <2>1, <3>1 DEF AtRisk, Risky
  <2>3. CASE Disconnect(r)
    <3>1. /\ req[r].pc \in {"allowed", "called"}
          /\ req'[r].pc = req[r].pc
      BY <2>3 DEF Disconnect, TypeOK, Request
    <3> QED BY <2>1, <3>1 DEF AtRisk, Risky
  <2>4. CASE Record(r)
    <3>1. req[r].pc = "called" /\ req'[r].pc = "charging" /\ req'[r].date = today
      BY <2>4 DEF Record, TypeOK, Request
    <3> QED BY <2>1, <3>1 DEF AtRisk, Risky
  <2> QED BY <1>6, <2>2, <2>3, <2>4
<1>7. CASE UNCHANGED vars
  BY <1>7 DEF vars, AtRisk
<1>8. \A r \in Requests :
        CountsDeny(r) \/ CountsFail(r) \/ NoCallNeeded(r) \/ LoseCount(r)
          => UNCHANGED <<total, own>>
  BY DEF CountsDeny, CountsFail, NoCallNeeded, LoseCount
<1> QED BY <1>1, <1>2, <1>3, <1>4, <1>5, <1>6, <1>7, <1>8 DEF Next

-----------------------------------------------------------------------------
\* What a count that is kept must satisfy, for one day: the step of TotalInv.
LEMMA TotalStep ==
  ASSUME TypeOK, [Next]_vars, NEW d \in Dates, TotalLimit > 0,
         total[d] + Cardinality(AtRisk(d)) <= TotalLimit + Overshoot
  PROVE  total'[d] + Cardinality(AtRisk(d)') <= TotalLimit + Overshoot
<1> DEFINE S == AtRisk(d)
           T == AtRisk(d)'
           n == total[d]
           m == total'[d]
<1>1. S \subseteq Requests /\ T \subseteq Requests
  BY DEF AtRisk
<1>2. n \in Nat /\ TotalLimit \in Nat /\ n + Cardinality(S) <= TotalLimit + Overshoot
  BY QuotaAssumption DEF TypeOK
<1>3. m \in Nat /\ ( \/ m = n /\ T \subseteq S
                     \/ m = n + 1 /\ \E r \in S : T \subseteq S \ {r}
                     \/ m < TotalLimit
                     \/ m = 0 /\ TotalLimit > 0 )
  <2>1. CASE T \subseteq S /\ UNCHANGED <<total, own>>
    BY <1>2, <2>1
  <2>2. CASE d > today /\ UNCHANGED <<total, own>>
    BY <1>2, <2>2 DEF TypeOK
  <2>3. ASSUME NEW r \in Requests, T \subseteq S, r \notin T, Increment(r)
        PROVE  m \in Nat /\ ((m = n /\ T \subseteq S) \/ (m = n + 1 /\ \E o \in S : T \subseteq S \ {o}))
    <3>1. CASE req[r].date = d
      <4>1. r \in S
        BY <2>3, <3>1 DEF AtRisk, Risky, Increment
      <4>2. m = n + 1
        BY <2>3, <3>1 DEF Increment, TypeOK
      <4> HIDE DEF S, T, m, n
      <4> QED BY <1>2, <2>3, <4>1, <4>2
    <3>2. CASE req[r].date # d
      <4>1. m = n
        BY <2>3, <3>2 DEF Increment, TypeOK
      <4>2. m \in Nat /\ m = n /\ T \subseteq S
        BY <1>2, <2>3, <4>1
      <4> HIDE DEF S, T, m, n
      <4> QED BY <4>2
    <3> QED BY <3>1, <3>2
  <2>4. ASSUME NEW r \in Requests, CountsAllow(r), req[r].date = d
        PROVE  m \in Nat /\ m < TotalLimit
    BY <1>2, <2>4 DEF CountsAllow, Room
  <2> QED BY <2>1, <2>2, <2>3, <2>4, RiskMoves
<1> HIDE DEF S, T, m, n
<1>4. m + Cardinality(T) <= TotalLimit + Overshoot
  BY <1>1, <1>2, <1>3, RiskStep
<1> QED BY <1>4 DEF S, T, m

\* With any number of requests, users and instances, and whenever midnight
\* falls, a day's calls stay below the limit plus the requests in flight.
THEOREM QuotaTotalBound == Spec => []TotalBound
<1>1. Init => TotalInv
  <2> SUFFICES ASSUME Init, TotalLimit > 0, NEW d \in Dates
               PROVE  total[d] + Cardinality(AtRisk(d)) <= TotalLimit + Overshoot
    BY DEF TotalInv
  <2>1. AtRisk(d) = {} /\ total[d] = 0
    BY DEF Init, AtRisk, Risky, Idle
  <2>2. Cardinality(AtRisk(d)) = 0
    BY <2>1, FS_EmptySet
  <2>3. Cardinality(Requests) \in Nat /\ Cardinality(Requests) # 0
    BY QuotaAssumption, FS_CardinalityType, FS_EmptySet
  <2> QED BY <2>1, <2>2, <2>3, QuotaAssumption DEF Overshoot
<1>2. TypeOK /\ TotalInv /\ [Next]_vars => TotalInv'
  BY TotalStep DEF TotalInv, Overshoot
<1>3. TypeOK /\ TotalInv => TotalBound
  <2> SUFFICES ASSUME TypeOK, TotalInv, TotalLimit > 0, NEW d \in Dates
               PROVE  total[d] <= TotalLimit + Overshoot
    BY DEF TotalBound
  <2>1. total[d] + Cardinality(AtRisk(d)) <= TotalLimit + Overshoot
    BY DEF TotalInv
  <2>2. AtRisk(d) \subseteq Requests
    BY DEF AtRisk
  <2>3. Cardinality(AtRisk(d)) \in Nat /\ Cardinality(Requests) \in Nat
    BY <2>2, RiskFinite
  <2> QED BY <2>1, <2>3, QuotaAssumption DEF TypeOK, Overshoot
<1> QED BY <1>1, <1>2, <1>3, QuotaTypeOK, PTL DEF Spec

\* The step of OwnInv, for one day and one subject.
LEMMA OwnStep ==
  ASSUME TypeOK, [Next]_vars, NEW d \in Dates, NEW s \in Subjects, LimitOf(s) > 0,
         own[d][s] + Cardinality(AtRiskOf(d, s)) <= LimitOf(s) + Overshoot
  PROVE  own'[d][s] + Cardinality(AtRiskOf(d, s)') <= LimitOf(s) + Overshoot
<1> DEFINE S == AtRiskOf(d, s)
           T == AtRiskOf(d, s)'
           L == LimitOf(s)
           n == own[d][s]
           m == own'[d][s]
<1>1. S \subseteq Requests /\ T \subseteq Requests
  BY DEF AtRisk, AtRiskOf
<1>2. n \in Nat /\ L \in Nat /\ n + Cardinality(S) <= L + Overshoot
  BY QuotaAssumption DEF TypeOK, LimitOf
<1>3. \A r \in Requests :
        r \in T => \/ r \in S
                   \/ r \notin AtRisk(d) /\ r \in AtRisk(d)' /\ req'[r].subject = s
  <2>1. \A r \in Requests :
          \/ req'[r].subject = req[r].subject
          \/ r \notin AtRisk(d)'
          \/ r \notin AtRisk(d)
    <3>1. CASE \E o \in Requests, u \in Subjects : Check(o, u)
      <4>1. PICK o \in Requests, u \in Subjects : Check(o, u)
        BY <3>1
      <4>2. req[o].pc = "idle" /\ \A r \in Requests \ {o} : req'[r] = req[r]
        BY <4>1 DEF Check, TypeOK
      <4>3. o \notin AtRisk(d)
        BY <4>2 DEF AtRisk, Risky
      <4> QED BY <4>2, <4>3
    <3>2. ASSUME NEW o \in Requests,
                 CountsAllow(o) \/ Call(o) \/ Disconnect(o) \/ Record(o)
          PROVE  \A r \in Requests : req'[r].subject = req[r].subject
      <4>1. /\ req \in [Requests -> Request]
            /\ \A r \in Requests \ {o} : req'[r] = req[r]
        BY <3>2 DEF CountsAllow, Call, Disconnect, Record, TypeOK
      <4>2. req'[o].subject = req[o].subject
        <5>1. CASE CountsAllow(o)
          BY <4>1, <5>1 DEF CountsAllow, Request
        <5>2. CASE Call(o)
          BY <4>1, <5>2 DEF Call, Request
        <5>3. CASE Disconnect(o)
          BY <4>1, <5>3 DEF Disconnect, Request
        <5>4. CASE Record(o)
          BY <4>1, <5>4 DEF Record, Request
        <5> QED BY <3>2, <5>1, <5>2, <5>3, <5>4
      <4> QED BY <4>1, <4>2
    <3>3. ASSUME NEW o \in Requests,
                 CountsDeny(o) \/ CountsFail(o) \/ NoCallNeeded(o) \/ LoseCount(o) \/ Increment(o)
          PROVE  \A r \in Requests : req'[r] = req[r] \/ r \notin AtRisk(d)'
      <4>1. req'[o] = Idle /\ \A r \in Requests \ {o} : req'[r] = req[r]
        BY <3>3 DEF CountsDeny, CountsFail, NoCallNeeded, LoseCount, Increment, TypeOK
      <4>2. o \notin AtRisk(d)'
        BY <4>1 DEF AtRisk, Risky, Idle
      <4> QED BY <4>1, <4>2
    <3>4. CASE Midnight \/ UNCHANGED vars
      BY <3>4 DEF Midnight, vars
    <3> QED BY <3>1, <3>2, <3>3, <3>4 DEF Next
  <2> QED BY <2>1 DEF AtRiskOf
<1>4. m \in Nat /\ ( \/ m = n /\ T \subseteq S
                     \/ m = n + 1 /\ \E r \in S : T \subseteq S \ {r}
                     \/ m < L
                     \/ m = 0 /\ L > 0 )
  <2>1. CASE AtRisk(d)' \subseteq AtRisk(d) /\ UNCHANGED <<total, own>>
    BY <1>1, <1>2, <1>3, <2>1
  <2>2. CASE d > today /\ UNCHANGED <<total, own>>
    BY <1>2, <2>2 DEF TypeOK
  <2>3. ASSUME NEW r \in Requests, AtRisk(d)' \subseteq AtRisk(d), r \notin AtRisk(d)',
               Increment(r)
        PROVE  m \in Nat /\ ((m = n /\ T \subseteq S) \/ (m = n + 1 /\ \E o \in S : T \subseteq S \ {o}))
    <3>0. T \subseteq S /\ r \notin T
      BY <1>1, <1>3, <2>3 DEF AtRiskOf
    <3>1. CASE req[r].date = d /\ req[r].subject = s
      <4>1. r \in S
        BY <2>3, <3>1 DEF AtRiskOf, AtRisk, Risky, Increment
      <4>2. m = n + 1
        BY <2>3, <3>1 DEF Increment, TypeOK
      <4> HIDE DEF S, T, m, n
      <4> QED BY <1>2, <3>0, <4>1, <4>2
    <3>2. CASE ~(req[r].date = d /\ req[r].subject = s)
      <4>1. req[r].date \in Dates /\ req[r].subject \in Subjects
        BY <2>3 DEF Increment, TypeOK, Request
      <4>2. own' = [own EXCEPT ![req[r].date] =
                      [own[req[r].date] EXCEPT ![req[r].subject] = own[req[r].date][req[r].subject] + 1]]
        BY <2>3 DEF Increment
      <4>3. m = n
        BY <3>2, <4>1, <4>2 DEF TypeOK
      <4>4. m \in Nat /\ m = n /\ T \subseteq S
        BY <1>2, <3>0, <4>3
      <4> HIDE DEF S, T, m, n
      <4> QED BY <4>4
    <3> QED BY <3>1, <3>2
  <2>4. ASSUME NEW r \in Requests, AtRisk(d)' \subseteq AtRisk(d) \cup {r},
               CountsAllow(r), req[r].date = d
        PROVE  m \in Nat /\ ((m = n /\ T \subseteq S) \/ m < L)
    <3>1. UNCHANGED own /\ Room(req[r].subject, d) /\ req'[r].subject = req[r].subject
      BY <2>4 DEF CountsAllow, TypeOK, Request
    <3>2. CASE req[r].subject = s
      BY <1>2, <3>1, <3>2 DEF Room
    <3>3. CASE req[r].subject # s
      BY <1>1, <1>2, <1>3, <2>4, <3>1, <3>3
    <3> QED BY <3>2, <3>3
  <2>5. ASSUME NEW r \in Requests, NEW u \in Subjects,
               AtRisk(d)' \subseteq AtRisk(d) \cup {r}, Check(r, u), LimitOf(u) = 0
        PROVE  m \in Nat /\ m = n /\ T \subseteq S
    <3>1. UNCHANGED own /\ req'[r].subject = u /\ u # s
      BY <1>2, <2>5 DEF Check, TypeOK
    <3> QED BY <1>1, <1>2, <1>3, <2>5, <3>1
  <2> QED BY <2>1, <2>2, <2>3, <2>4, <2>5, RiskMoves
<1> HIDE DEF S, T, L, m, n
<1>5. m + Cardinality(T) <= L + Overshoot
  BY <1>1, <1>2, <1>4, RiskStep
<1> QED BY <1>5 DEF S, T, L, m

\* No user passes the limit of users, no address that of addresses, by more than
\* the other requests in flight (subjectLimit and the own count of Check).
THEOREM QuotaOwnBound == Spec => []OwnBound
<1>1. Init => OwnInv
  <2> SUFFICES ASSUME Init, NEW d \in Dates, NEW s \in Subjects, LimitOf(s) > 0
               PROVE  own[d][s] + Cardinality(AtRiskOf(d, s)) <= LimitOf(s) + Overshoot
    BY DEF OwnInv
  <2>1. AtRiskOf(d, s) = {} /\ own[d][s] = 0
    BY DEF Init, AtRiskOf, AtRisk, Risky, Idle
  <2>2. Cardinality(AtRiskOf(d, s)) = 0
    BY <2>1, FS_EmptySet
  <2>3. Cardinality(Requests) \in Nat /\ Cardinality(Requests) # 0
    BY QuotaAssumption, FS_CardinalityType, FS_EmptySet
  <2>4. LimitOf(s) \in Nat
    BY QuotaAssumption DEF LimitOf
  <2> QED BY <2>1, <2>2, <2>3, <2>4 DEF Overshoot
<1>2. TypeOK /\ OwnInv /\ [Next]_vars => OwnInv'
  BY OwnStep DEF OwnInv, Overshoot, LimitOf
<1>3. TypeOK /\ OwnInv => OwnBound
  <2> SUFFICES ASSUME TypeOK, OwnInv PROVE OwnBound
    OBVIOUS
  <2>1. ASSUME NEW d \in Dates, NEW s \in Subjects, LimitOf(s) > 0
        PROVE  own[d][s] <= LimitOf(s) + Overshoot
    <3>1. own[d][s] + Cardinality(AtRiskOf(d, s)) <= LimitOf(s) + Overshoot
      BY <2>1 DEF OwnInv
    <3>2. AtRiskOf(d, s) \subseteq Requests
      BY DEF AtRiskOf, AtRisk
    <3>3. Cardinality(AtRiskOf(d, s)) \in Nat /\ Cardinality(Requests) \in Nat
      BY <3>2, RiskFinite
    <3>4. own[d][s] \in Nat /\ LimitOf(s) \in Nat
      BY <2>1, QuotaAssumption DEF TypeOK, LimitOf
    <3> QED BY <3>1, <3>3, <3>4 DEF Overshoot
  <2>2. /\ \A u \in UserIds : u \in Subjects /\ LimitOf(u) = UserLimit
        /\ \A a \in Ips : a \in Subjects /\ LimitOf(a) = AnonLimit
    BY QuotaAssumption DEF Subjects, LimitOf
  <2> QED BY <2>1, <2>2 DEF OwnBound
<1> QED BY <1>1, <1>2, <1>3, QuotaTypeOK, PTL DEF Spec

-----------------------------------------------------------------------------
(* Every call is counted once.                                             *)

InCall == {r \in Requests : req[r].pc \in {"called", "charging"}}

LEMMA InCallFinite ==
  /\ IsFiniteSet(Dates) /\ IsFiniteSet(Subjects)
  /\ IsFiniteSet(InCall) /\ Cardinality(InCall) \in Nat
<1>1. IsFiniteSet(Dates)
  BY QuotaAssumption, FS_Interval DEF Dates
<1>2. IsFiniteSet(Subjects)
  BY QuotaAssumption, FS_Union DEF Subjects
<1>3. IsFiniteSet(InCall)
  BY QuotaAssumption, FS_Subset DEF InCall
<1> QED BY <1>1, <1>2, <1>3, FS_CardinalityType

\* What the property says, with the folds read as sums.
CountsAgree ==
  /\ calls = Sum(total, Dates) + lost + Cardinality(InCall)
  /\ \A d \in Dates : total[d] = Sum(own[d], Subjects)

LEMMA CountedIsAgreed ==
  ASSUME TypeOK
  PROVE  CallsCounted <=> CountsAgree
<1>1. DOMAIN total = Dates /\ \A d \in Dates : DOMAIN own[d] = Subjects
  BY DEF TypeOK
<1>2. FoldFunction(+, 0, total) = Sum(total, Dates)
  BY <1>1, FoldIsSum
<1>3. \A d \in Dates : FoldFunction(+, 0, own[d]) = Sum(own[d], Subjects)
  BY <1>1, FoldIsSum
<1> QED BY <1>2, <1>3 DEF CallsCounted, CountsAgree, InCall

\* The call of one request begins, ends or stays as it is.
LEMMA InCallStep ==
  ASSUME TypeOK, NEW r \in Requests, NEW next,
         req' = [req EXCEPT ![r] = next]
  PROVE  /\ req[r].pc \notin {"called", "charging"} /\ next.pc \in {"called", "charging"}
              => Cardinality(InCall') = Cardinality(InCall) + 1
         /\ req[r].pc \in {"called", "charging"} /\ next.pc \notin {"called", "charging"}
              => Cardinality(InCall') = Cardinality(InCall) - 1
         /\ (req[r].pc \in {"called", "charging"} <=> next.pc \in {"called", "charging"})
              => InCall' = InCall
<1>1. req'[r] = next /\ \A o \in Requests : o # r => req'[o] = req[o]
  BY DEF TypeOK
<1>2. ASSUME req[r].pc \notin {"called", "charging"}, next.pc \in {"called", "charging"}
      PROVE  Cardinality(InCall') = Cardinality(InCall) + 1
  <2>1. InCall' = InCall \cup {r} /\ r \notin InCall
    BY <1>1, <1>2 DEF InCall
  <2> QED BY <2>1, InCallFinite, FS_AddElement
<1>3. ASSUME req[r].pc \in {"called", "charging"}, next.pc \notin {"called", "charging"}
      PROVE  Cardinality(InCall') = Cardinality(InCall) - 1
  <2>1. InCall' = InCall \ {r} /\ r \in InCall
    BY <1>1, <1>3 DEF InCall
  <2> QED BY <2>1, InCallFinite, FS_RemoveElement
<1>4. ASSUME req[r].pc \in {"called", "charging"} <=> next.pc \in {"called", "charging"}
      PROVE  InCall' = InCall
  BY <1>1, <1>4 DEF InCall
<1> QED BY <1>2, <1>3, <1>4

LEMMA CountsStep ==
  ASSUME TypeOK, TypeOK', CountsAgree, [Next]_vars
  PROVE  CountsAgree'
<1>0. /\ Sum(total, Dates) \in Nat /\ calls \in Nat /\ lost \in Nat
      /\ Cardinality(InCall) \in Nat
  BY InCallFinite, SumNat DEF TypeOK
<1>1. CASE UNCHANGED <<total, own, calls, lost>> /\ InCall' = InCall
  BY <1>1 DEF CountsAgree
<1>2. CASE UNCHANGED vars \/ Midnight
  <2>1. UNCHANGED <<total, own, calls, lost, req>>
    BY <1>2 DEF vars, Midnight
  <2>2. InCall' = InCall
    BY <2>1 DEF InCall
  <2> QED BY <1>1, <2>1, <2>2
<1>3. ASSUME NEW r \in Requests, NEW s \in Subjects, Check(r, s) PROVE CountsAgree'
  <2> DEFINE next ==
        [pc |-> IF TotalLimit = 0 /\ LimitOf(s) = 0 THEN "allowed" ELSE "checking",
         subject |-> s, date |-> today, gone |-> FALSE]
  <2>1. req' = [req EXCEPT ![r] = next] /\ UNCHANGED <<total, own, calls, lost>>
    BY <1>3 DEF Check
  <2>2. req[r].pc = "idle" /\ next.pc \in {"allowed", "checking"}
    BY <1>3 DEF Check
  <2> HIDE DEF next
  <2> QED BY <1>1, <2>1, <2>2, InCallStep
<1>4. ASSUME NEW r \in Requests,
             \/ CountsAllow(r) \/ CountsDeny(r) \/ CountsFail(r) \/ NoCallNeeded(r)
             \/ Disconnect(r) \/ Record(r)
      PROVE  CountsAgree'
  <2>1. UNCHANGED <<total, own, calls, lost>>
    BY <1>4 DEF CountsAllow, CountsDeny, CountsFail, NoCallNeeded, Disconnect, Record
  <2>2. /\ \A o \in Requests : o # r => req'[o] = req[o]
        /\ req[r].pc \in {"called", "charging"} <=> req'[r].pc \in {"called", "charging"}
    BY <1>4 DEF CountsAllow, CountsDeny, CountsFail, NoCallNeeded, Disconnect, Record,
                Idle, TypeOK, Request
  <2>3. InCall' = InCall
    BY <2>2 DEF InCall
  <2> QED BY <1>1, <2>1, <2>3
<1>5. ASSUME NEW r \in Requests, Call(r) PROVE CountsAgree'
  <2> DEFINE next == [req[r] EXCEPT !.pc = "called"]
  <2>1. /\ req' = [req EXCEPT ![r] = next] /\ req[r].pc = "allowed"
        /\ calls' = calls + 1 /\ UNCHANGED <<total, own, lost>>
    BY <1>5 DEF Call
  <2>2. next.pc = "called"
    BY DEF TypeOK, Request
  <2> HIDE DEF next
  <2>3. Cardinality(InCall') = Cardinality(InCall) + 1
    BY <2>1, <2>2, InCallStep
  <2>4. calls' = Sum(total', Dates) + lost' + Cardinality(InCall')
    BY <1>0, <2>1, <2>3 DEF CountsAgree
  <2> QED BY <2>1, <2>4 DEF CountsAgree
<1>6. ASSUME NEW r \in Requests, LoseCount(r) PROVE CountsAgree'
  <2>1. /\ req' = [req EXCEPT ![r] = Idle] /\ req[r].pc \in {"called", "charging"}
        /\ lost' = lost + 1 /\ UNCHANGED <<total, own, calls>>
    BY <1>6 DEF LoseCount
  <2>2. Cardinality(InCall') = Cardinality(InCall) - 1
    BY <2>1, IdleRequest, InCallStep
  <2>3. calls' = Sum(total', Dates) + lost' + Cardinality(InCall')
    BY <1>0, <2>1, <2>2 DEF CountsAgree
  <2> QED BY <2>1, <2>3 DEF CountsAgree
<1>7. ASSUME NEW r \in Requests, Increment(r) PROVE CountsAgree'
  <2> DEFINE d == req[r].date
             s == req[r].subject
  <2>1. d \in Dates /\ s \in Subjects
    BY <1>7 DEF Increment, TypeOK, Request
  <2>2. /\ total' = [total EXCEPT ![d] = total[d] + 1]
        /\ own' = [own EXCEPT ![d] = [own[d] EXCEPT ![s] = own[d][s] + 1]]
        /\ req' = [req EXCEPT ![r] = Idle] /\ req[r].pc = "charging"
        /\ UNCHANGED <<calls, lost>>
    BY <1>7 DEF Increment
  <2> HIDE DEF d, s
  <2>3. Cardinality(InCall') = Cardinality(InCall) - 1
    BY <2>2, IdleRequest, InCallStep
  <2>4. /\ \A e \in Dates : total[e] \in Nat /\ total'[e] \in Nat
        /\ \A e \in Dates : e # d => total[e] = total'[e]
        /\ total'[d] = total[d] + 1
    BY <2>1, <2>2 DEF TypeOK
  <2>5. Sum(total', Dates) = Sum(total, Dates) + 1
    <3>1. Sum(total, Dates) + total'[d] = Sum(total', Dates) + total[d]
      BY <2>1, <2>4, InCallFinite, SumChange
    <3>2. Sum(total', Dates) \in Nat
      BY <2>4, InCallFinite, SumNat
    <3> QED BY <1>0, <2>1, <2>4, <3>1, <3>2
  <2>6. calls' = Sum(total', Dates) + lost' + Cardinality(InCall')
    BY <1>0, <2>2, <2>3, <2>5 DEF CountsAgree
  <2>7. /\ \A t \in Subjects : own[d][t] \in Nat /\ own'[d][t] \in Nat
        /\ \A t \in Subjects : t # s => own[d][t] = own'[d][t]
        /\ own'[d][s] = own[d][s] + 1
        /\ \A e \in Dates : e # d => own'[e] = own[e]
    BY <2>1, <2>2 DEF TypeOK
  <2>8. Sum(own'[d], Subjects) = Sum(own[d], Subjects) + 1
    <3>1. Sum(own[d], Subjects) + own'[d][s] = Sum(own'[d], Subjects) + own[d][s]
      BY <2>1, <2>7, InCallFinite, SumChange
    <3>2. Sum(own'[d], Subjects) \in Nat /\ Sum(own[d], Subjects) \in Nat
      BY <2>7, InCallFinite, SumNat
    <3> QED BY <2>1, <2>7, <3>1, <3>2
  <2>9. \A e \in Dates : total'[e] = Sum(own'[e], Subjects)
    BY <2>4, <2>7, <2>8 DEF CountsAgree
  <2> QED BY <2>6, <2>9 DEF CountsAgree
<1> QED BY <1>2, <1>3, <1>4, <1>5, <1>6, <1>7 DEF Next

\* A call of the model is counted exactly once, on one day, for the service and
\* for its subject alike, however its client behaves and whatever runs beside
\* it; only a failed Increment or a crash loses it.
THEOREM QuotaCallsCounted == Spec => []CallsCounted
<1>1. Init => CountsAgree
  <2> SUFFICES ASSUME Init PROVE CountsAgree
    OBVIOUS
  <2>1. InCall = {} /\ Cardinality(InCall) = 0
    BY FS_EmptySet DEF Init, Idle, InCall
  <2>2. /\ \A d \in Dates : total[d] = 0
        /\ \A d \in Dates : \A s \in Subjects : own[d][s] = 0
    BY DEF Init
  <2>3. Sum(total, Dates) = 0 /\ \A d \in Dates : Sum(own[d], Subjects) = 0
    BY <2>2, InCallFinite, SumZero
  <2>4. calls = 0 /\ lost = 0
    BY DEF Init
  <2>5. calls = Sum(total, Dates) + lost + Cardinality(InCall)
    BY <2>1, <2>3, <2>4
  <2>6. \A d \in Dates : total[d] = Sum(own[d], Subjects)
    BY <2>2, <2>3
  <2> QED BY <2>5, <2>6 DEF CountsAgree
<1>2. CountsAgree /\ TypeOK /\ TypeOK' /\ [Next]_vars => CountsAgree'
  BY CountsStep
<1>3. TypeOK /\ CountsAgree => CallsCounted
  BY CountedIsAgreed
<1> QED BY <1>1, <1>2, <1>3, QuotaTypeOK, PTL DEF Spec

-----------------------------------------------------------------------------

\* Spare is a step of the quota or leaves it alone.
LEMMA SpareStep ==
  ASSUME NEW r \in Requests, Spare(r)
  PROVE  [Next]_vars
BY DEF Spare, quotaVars, Next

\* Every step of the composition is a step of the quota or a stutter.
LEMMA QuotaStep ==
  ASSUME [NextResolve]_resolveVars
  PROVE  [Next]_vars
<1>1. CASE UNCHANGED resolveVars
  BY <1>1 DEF resolveVars
<1>2. CASE AtMidnight
  BY <1>2 DEF AtMidnight, Next
<1>3. CASE PurgeUnresolved \/ \E i \in Ingredients : AddIngredient(i)
  BY <1>3 DEF PurgeUnresolved, AddIngredient, quotaVars
<1>4. ASSUME NEW r \in Requests, NEW s \in Subjects, NEW ws \in Texts, Begin(r, s, ws)
      PROVE  [Next]_vars
  BY <1>4 DEF Begin, Next
<1>5. ASSUME NEW r \in Requests, Checked(r) \/ Leave(r)
      PROVE  [Next]_vars
  BY <1>5 DEF Checked, Leave, Next
<1>6. ASSUME NEW r \in Requests, ReadCatalog(r) \/ CatalogFails(r)
      PROVE  [Next]_vars
  <2>1. Spare(r) \/ UNCHANGED quotaVars
    BY <1>6 DEF ReadCatalog, CatalogFails
  <2> QED BY <2>1, SpareStep DEF quotaVars
<1>7. ASSUME NEW r \in Requests, ReadCache(r)
      PROVE  [Next]_vars
  <2>1. Spare(r) \/ UNCHANGED quotaVars
    BY <1>7 DEF ReadCache, AfterCache
  <2> QED BY <2>1, SpareStep DEF quotaVars
<1>8. ASSUME NEW r \in Requests, Ask(r) \/ TakeDay(r)
      PROVE  [Next]_vars
  BY <1>8 DEF Ask, TakeDay, Next
<1>9. ASSUME NEW r \in Requests, Counted(r) \/ Die(r)
      PROVE  [Next]_vars
  BY <1>9 DEF Counted, Die, Next
<1>10. ASSUME NEW r \in Requests, Respond(r) \/ \E w \in Words : SaveWord(r, w)
       PROVE  [Next]_vars
  BY <1>10 DEF Respond, SaveWord, quotaVars
<1> QED BY <1>1, <1>2, <1>3, <1>4, <1>5, <1>6, <1>7, <1>8, <1>9, <1>10 DEF NextResolve

\* Reading ingredients uses the quota as ResolveQuota describes it: whatever
\* the catalog, the cache and the operator do, the counters see no other step.
THEOREM ResolveImplementsQuota == SpecResolve => Spec
<1>1. InitResolve => Init
  BY DEF InitResolve
<1>2. [NextResolve]_resolveVars => [Next]_vars
  BY QuotaStep
<1> QED BY <1>1, <1>2, PTL DEF SpecResolve, Spec

\* Composed with the catalog, the cache and the operator, a day's count of the
\* whole service still passes its limit by at most the other requests.
THEOREM ResolveTotalBound == SpecResolve => []TotalBound
BY ResolveImplementsQuota, QuotaTotalBound, PTL

\* The same of every user and every address.
THEOREM ResolveOwnBound == SpecResolve => []OwnBound
BY ResolveImplementsQuota, QuotaOwnBound, PTL

\* And each call of the composed system is counted once.
THEOREM ResolveCallsCounted == SpecResolve => []CallsCounted
BY ResolveImplementsQuota, QuotaCallsCounted, PTL

-----------------------------------------------------------------------------
\* A job has the fields of NoJob.
JobFields == {"pc", "words", "gone", "items", "pending", "found", "unresolved",
              "answer", "degraded", "straddles"}

IsJob(j) ==
  /\ j = [f \in JobFields |-> j[f]]
  /\ j.degraded \in BOOLEAN /\ j.straddles \in BOOLEAN

\* Its copy of the master has been read and its misses may still be saved.
Busy(j) == j.pc \in {"cache", "asking", "counting", "saving"}

\* What a job knows: unless a purge overtook it, its copy of the master holds
\* what the last purge saw; and an answer it saves is one that came, for the
\* words it asked for.
JobOK(j) ==
  /\ IsJob(j)
  /\ j.pc # "done" => ~j.degraded
  /\ Busy(j) => j.straddles \/ purged \subseteq j.items
  /\ j.pc = "counting" => j.answer = <<>> \/ DOMAIN j.answer = j.pending
  /\ j.pc = "saving" => DOMAIN j.answer = j.pending

MissInv ==
  /\ job = [r \in Requests |-> job[r]]
  /\ cache = [w \in Words |-> cache[w]]
  /\ basis = [w \in Words |-> basis[w]]
  /\ purged \subseteq master
  /\ \A r \in Requests : JobOK(job[r])
  /\ MissAfterPurge

LEMMA NoJobOK == JobOK(NoJob)
BY DEF JobOK, IsJob, JobFields, NoJob, Busy

\* A step that changes one job, the cache and the operator left alone.
LEMMA JobStep ==
  ASSUME MissInv, NEW r \in Requests, NEW next, JobOK(next),
         job' = [job EXCEPT ![r] = next],
         UNCHANGED <<master, cache, purged, basis, late>>
  PROVE  MissInv'
<1>1. \A q \in Requests : job'[q] = IF q = r THEN next ELSE job[q]
  BY DEF MissInv
<1>2. \A q \in Requests : JobOK(job'[q])
  BY <1>1 DEF MissInv
<1>3. \A q \in Requests : JobOK(job[q])'
  BY <1>2 DEF JobOK
<1>4. job' = [q \in Requests |-> job'[q]]
  BY DEF MissInv
<1> QED BY <1>3, <1>4 DEF MissInv, MissAfterPurge

\* A job that stops, or is not yet, busy.
LEMMA BeforeCatalog ==
  ASSUME MissInv, NEW r \in Requests,
         \/ \E s \in Subjects, ws \in Texts : Begin(r, s, ws)
         \/ Checked(r) \/ Leave(r) \/ CatalogFails(r) \/ Die(r) \/ Respond(r)
  PROVE  MissInv'
<1> USE DEF JobOK, IsJob, JobFields, Busy
<1>0. JobOK(job[r])
  BY DEF MissInv
<1>1. ASSUME NEW s \in Subjects, NEW ws \in Texts, Begin(r, s, ws)
      PROVE  MissInv'
  <2> DEFINE next == [NoJob EXCEPT
               !.pc = IF req'[r].pc = "allowed" THEN "catalog" ELSE "checking",
               !.words = ws]
  <2>1. JobOK(next)
    BY DEF NoJob
  <2>2. job' = [job EXCEPT ![r] = next] /\ UNCHANGED <<master, cache, purged, basis, late>>
    BY <1>1 DEF Begin
  <2> HIDE DEF next, JobOK
  <2> QED BY <2>1, <2>2, JobStep
<1>2. CASE Checked(r)
  <2> DEFINE next == [job[r] EXCEPT !.pc = "catalog"]
  <2>1. JobOK(next)
    BY <1>0, <1>2 DEF Checked
  <2>2. job' = [job EXCEPT ![r] = next] /\ UNCHANGED <<master, cache, purged, basis, late>>
    BY <1>2 DEF Checked
  <2> HIDE DEF next, JobOK
  <2> QED BY <2>1, <2>2, JobStep
<1>3. CASE Leave(r)
  <2> DEFINE next == [job[r] EXCEPT !.gone = TRUE]
  <2>1. JobOK(next)
    BY <1>0
  <2>2. job' = [job EXCEPT ![r] = next] /\ UNCHANGED <<master, cache, purged, basis, late>>
    BY <1>3 DEF Leave
  <2> HIDE DEF next, JobOK
  <2> QED BY <2>1, <2>2, JobStep
<1>4. CASE CatalogFails(r) \/ Die(r) \/ Respond(r)
  <2>1. job' = [job EXCEPT ![r] = NoJob] /\ UNCHANGED <<master, cache, purged, basis, late>>
    BY <1>4 DEF CatalogFails, Die, Respond
  <2> HIDE DEF JobOK
  <2> QED BY <2>1, NoJobOK, JobStep
<1> QED BY <1>1, <1>2, <1>3, <1>4

\* The copy of the master is taken: it holds what the last purge saw.
LEMMA ReadCatalogMiss ==
  ASSUME MissInv, NEW r \in Requests, ReadCatalog(r)
  PROVE  MissInv'
<1> DEFINE found == Pairs(job[r].words, [w \in Words |-> NameIndex(master, w)])
           rest == job[r].words \ WordsOf(found)
           pc == IF rest = {} THEN "done" ELSE "cache"
<1>1. /\ pc \in {"done", "cache"}
      /\ job' = [job EXCEPT ![r] = [job[r] EXCEPT
                   !.pc = pc, !.items = master, !.found = found, !.pending = rest]]
  BY DEF ReadCatalog
<1> HIDE DEF found, rest, pc
<1> DEFINE next == [job[r] EXCEPT
             !.pc = pc, !.items = master, !.found = found, !.pending = rest]
<1>2. JobOK(job[r]) /\ job[r].pc = "catalog" /\ purged \subseteq master
  BY DEF MissInv, ReadCatalog
<1>3. JobOK(next)
  BY <1>1, <1>2 DEF JobOK, IsJob, JobFields, Busy
<1>4. UNCHANGED <<master, cache, purged, basis, late>>
  BY DEF ReadCatalog
<1> HIDE DEF next
<1> QED BY <1>1, <1>3, <1>4, JobStep DEF next

\* What is left for the model keeps what is known of the copy.
LEMMA ReadCacheMiss ==
  ASSUME MissInv, NEW r \in Requests, ReadCache(r)
  PROVE  MissInv'
<1>1. PICK found, misses : AfterCache(r, found, misses)
  BY DEF ReadCache
<1>2. UNCHANGED <<master, cache, purged, basis, late>>
  BY DEF ReadCache
<1> DEFINE rest == job[r].pending \ (WordsOf(found) \cup misses)
           denied == rest # {} /\ req[r].pc # "allowed"
           next == [job[r] EXCEPT
             !.pc = IF rest = {} \/ denied THEN "done" ELSE "asking",
             !.found = job[r].found \cup found,
             !.unresolved = misses \cup (IF denied THEN rest ELSE {}),
             !.pending = IF denied THEN {} ELSE rest,
             !.degraded = denied,
             !.straddles = job[r].straddles /\ rest # {} /\ ~denied]
<1>3. job' = [job EXCEPT ![r] = next]
  BY <1>1 DEF AfterCache
<1>4. JobOK(job[r]) /\ job[r].pc = "cache"
  BY DEF MissInv, ReadCache
<1>5. rest = {} \/ rest # {}
  OBVIOUS
<1> HIDE DEF rest
<1>6. JobOK(next)
  BY <1>4 DEF JobOK, IsJob, JobFields, Busy
<1> HIDE DEF next
<1> QED BY <1>2, <1>3, <1>6, JobStep

\* An answer is one for the words asked, or none.
LEMMA AskMiss ==
  ASSUME MissInv, NEW r \in Requests, Ask(r)
  PROVE  MissInv'
<1>1. PICK answer :
        /\ answer = <<>> \/ DOMAIN answer = job[r].pending
        /\ job' = [job EXCEPT ![r].pc = "counting", ![r].answer = answer]
  BY DEF Ask
<1> DEFINE next == [job[r] EXCEPT !.pc = "counting", !.answer = answer]
<1>2. JobOK(job[r]) /\ job[r].pc = "asking" /\ job = [q \in Requests |-> job[q]]
  BY DEF MissInv, Ask
<1>3. job' = [job EXCEPT ![r] = next]
  BY <1>1, <1>2
<1>4. JobOK(next)
  BY <1>1, <1>2 DEF JobOK, IsJob, JobFields, Busy
<1>5. UNCHANGED <<master, cache, purged, basis, late>>
  BY DEF Ask
<1> HIDE DEF next
<1> QED BY <1>3, <1>4, <1>5, JobStep

\* Only an answer that came is saved.
LEMMA CountedMiss ==
  ASSUME MissInv, NEW r \in Requests, Counted(r)
  PROVE  MissInv'
<1> DEFINE saving == [job[r] EXCEPT !.pc = "saving"]
           failed == [job[r] EXCEPT
             !.pc = "done", !.degraded = TRUE, !.gone = FALSE, !.straddles = FALSE,
             !.unresolved = job[r].unresolved \cup job[r].pending, !.pending = {}]
<1>1. UNCHANGED <<master, cache, purged, basis, late>>
  BY DEF Counted, AfterCall
<1>2. JobOK(job[r]) /\ job[r].pc = "counting" /\ job = [q \in Requests |-> job[q]]
  BY DEF MissInv, Counted, AfterCall
<1>3. job' = [job EXCEPT ![r] = IF job[r].answer # <<>> THEN saving ELSE failed]
  BY <1>2 DEF Counted, AfterCall
<1>4. CASE job[r].answer # <<>>
  <2>1. job' = [job EXCEPT ![r] = saving]
    BY <1>3, <1>4
  <2>2. JobOK(saving)
    BY <1>2, <1>4 DEF JobOK, IsJob, JobFields, Busy
  <2> HIDE DEF saving
  <2> QED BY <1>1, <2>1, <2>2, JobStep
<1>5. CASE job[r].answer = <<>>
  <2>1. job' = [job EXCEPT ![r] = failed]
    BY <1>3, <1>5
  <2>2. JobOK(failed)
    BY <1>2 DEF JobOK, IsJob, JobFields, Busy
  <2> HIDE DEF failed
  <2> QED BY <1>1, <2>1, <2>2, JobStep
<1> QED BY <1>4, <1>5

\* A miss is saved with the copy of the master it was told of.
LEMMA SaveWordMiss ==
  ASSUME MissInv, NEW r \in Requests, NEW w \in Words, SaveWord(r, w)
  PROVE  MissInv'
<1> DEFINE j == job[r]
           rest == j.pending \ {w}
           next == [j EXCEPT
             !.pc = IF rest = {} THEN "done" ELSE "saving",
             !.gone = j.gone /\ rest # {},
             !.straddles = j.straddles /\ rest # {},
             !.pending = rest, !.answer = Restrict(j.answer, rest),
             !.found = j.found \cup ({w} \X j.answer[w]),
             !.unresolved = j.unresolved \cup (IF j.answer[w] = {} THEN {w} ELSE {})]
<1>1. /\ job' = [job EXCEPT ![r] = next]
      /\ j.pc = "saving" /\ UNCHANGED <<master, purged>>
  BY DEF SaveWord
<1>2. JobOK(j) /\ job = [q \in Requests |-> job[q]]
  BY DEF MissInv
<1>3. DOMAIN Restrict(j.answer, rest) = rest
  BY DEF Restrict
<1>4. JobOK(next)
  <2> HIDE DEF j, rest
  <2> QED BY <1>1, <1>2, <1>3 DEF JobOK, IsJob, JobFields, Busy
<1>5. \A q \in Requests : JobOK(job[q])'
  <2>1. \A q \in Requests : job'[q] = job[q] \/ job'[q] = next
    BY <1>1, <1>2
  <2>2. \A q \in Requests : JobOK(job[q])
    BY DEF MissInv
  <2> HIDE DEF next
  <2>3. \A q \in Requests : JobOK(job'[q])
    BY <1>4, <2>1, <2>2
  <2> QED BY <1>1, <2>3 DEF JobOK
<1>6. job' = [q \in Requests |-> job'[q]]
  BY <1>1, <1>2
<1>7. j.straddles \/ purged \subseteq j.items
  BY <1>1, <1>2 DEF JobOK, Busy
<1>8. PICK row :
        \/ /\ cache' = [cache EXCEPT ![w] = row]
           /\ basis' = [basis EXCEPT ![w] = IF row = Missing THEN j.items ELSE {}]
           /\ late' = IF row = Missing /\ j.straddles
                      THEN late \cup {w} ELSE late \ {w}
        \/ UNCHANGED <<cache, basis, late>>
  BY DEF SaveWord, Save
<1>9. /\ cache = [v \in Words |-> cache[v]] /\ basis = [v \in Words |-> basis[v]]
      /\ MissAfterPurge
  BY DEF MissInv
<1> HIDE DEF j
<1>10. MissAfterPurge'
  BY <1>1, <1>7, <1>8, <1>9 DEF MissAfterPurge
<1>11. cache' = [v \in Words |-> cache'[v]] /\ basis' = [v \in Words |-> basis'[v]]
  BY <1>8, <1>9
<1> QED BY <1>1, <1>5, <1>6, <1>10, <1>11 DEF MissInv

\* The purge leaves no miss, and marks every job that it overtakes.
LEMMA PurgeMiss ==
  ASSUME MissInv, PurgeUnresolved
  PROVE  MissInv'
<1>1. \A v \in Words : cache'[v] # Missing
  BY ResolveAssumption DEF PurgeUnresolved, DeleteUnresolved
<1>2. /\ cache' = [v \in Words |-> cache'[v]] /\ basis' = [v \in Words |-> basis'[v]]
      /\ job' = [q \in Requests |-> job'[q]] /\ purged' \subseteq master'
  BY DEF PurgeUnresolved, DeleteUnresolved
<1>3. ASSUME NEW r \in Requests PROVE JobOK(job[r])'
  <2> DEFINE j == job[r]
             next == [j EXCEPT !.straddles =
               j.straddles \/ j.pc \in {"cache", "asking", "counting", "saving"}]
  <2>1. job'[r] = next
    BY DEF PurgeUnresolved
  <2>2. JobOK(j)
    BY DEF MissInv
  <2> HIDE DEF j
  <2>3. /\ IsJob(next) /\ (Busy(next) => next.straddles)
        /\ next.pc # "done" => ~next.degraded
        /\ next.pc = "counting" => next.answer = <<>> \/ DOMAIN next.answer = next.pending
        /\ next.pc = "saving" => DOMAIN next.answer = next.pending
    BY <2>2 DEF JobOK, IsJob, JobFields, Busy
  <2> HIDE DEF next
  <2> QED BY <2>1, <2>3 DEF JobOK
<1> QED BY <1>1, <1>2, <1>3 DEF MissInv, MissAfterPurge

LEMMA MissStep ==
  ASSUME MissInv, [NextResolve]_resolveVars
  PROVE  MissInv'
<1>1. CASE UNCHANGED <<master, cache, job, purged, basis, late>>
  BY <1>1 DEF MissInv, MissAfterPurge, JobOK
<1>2. CASE UNCHANGED resolveVars \/ AtMidnight \/ \E r \in Requests : TakeDay(r)
  BY <1>1, <1>2 DEF resolveVars, AtMidnight, TakeDay
<1>3. ASSUME NEW i \in Ingredients, AddIngredient(i)
      PROVE  MissInv'
  BY <1>3 DEF AddIngredient, MissInv, MissAfterPurge, JobOK
<1> QED BY <1>2, <1>3, PurgeMiss, BeforeCatalog, ReadCatalogMiss, ReadCacheMiss,
           AskMiss, CountedMiss, SaveWordMiss DEF NextResolve

LEMMA MissInvariant == SpecResolve => []MissInv
<1>1. InitResolve => MissInv
  <2> SUFFICES ASSUME InitResolve PROVE MissInv
    OBVIOUS
  <2>1. /\ job = [r \in Requests |-> job[r]] /\ cache = [w \in Words |-> cache[w]]
        /\ basis = [w \in Words |-> basis[w]] /\ purged \subseteq master
    BY DEF InitResolve
  <2>2. \A r \in Requests : JobOK(job[r])
    BY NoJobOK DEF InitResolve
  <2>3. MissAfterPurge
    BY DEF InitResolve, MissAfterPurge
  <2> QED BY <2>1, <2>2, <2>3 DEF MissInv
<1>2. MissInv /\ [NextResolve]_resolveVars => MissInv'
  BY MissStep
<1> QED BY <1>1, <1>2, PTL DEF SpecResolve

\* However many requests, words and ingredients, and in whatever order seeds,
\* purges and saves come: a miss in the cache was told of a master at least as
\* new as the last purge, unless that purge overtook the request that saved it.
THEOREM ResolveMissAfterPurge == SpecResolve => []MissAfterPurge
<1>1. MissInv => MissAfterPurge
  BY DEF MissInv
<1> QED BY <1>1, MissInvariant, PTL

\* A word enters the cache by a save only.
LEMMA SavedAnswer ==
  ASSUME MissInv, NEW r \in Requests, NEW v \in Words, SaveWord(r, v),
         NEW w \in Words, cache'[w] \notin {cache[w], Unasked}
  PROVE  w \in DOMAIN job[r].answer /\ ~job[r].gone /\ ~job'[r].degraded
<1>1. /\ JobOK(job[r]) /\ job = [q \in Requests |-> job[q]]
      /\ cache = [u \in Words |-> cache[u]]
  BY DEF MissInv
<1>2. job[r].pc = "saving" /\ v \in job[r].pending
  BY DEF SaveWord
<1>3. ~job[r].gone /\ w = v
  BY <1>1 DEF SaveWord, Save
<1>4. ~job[r].degraded /\ DOMAIN job[r].answer = job[r].pending
  BY <1>1, <1>2 DEF JobOK
<1>5. job'[r].degraded = job[r].degraded
  BY <1>1 DEF SaveWord, JobOK, IsJob, JobFields
<1> QED BY <1>2, <1>3, <1>4, <1>5

\* Whatever fails, and whoever leaves, no word enters the cache but from an
\* answer of the model that came to a request whose client is still there.
THEOREM ResolveFailureNotKept == SpecResolve => FailureNotKept
<1> DEFINE Learnt == \A w \in Words : cache'[w] \notin {cache[w], Unasked} =>
             \E r \in Requests : /\ w \in DOMAIN job[r].answer
                                 /\ ~job[r].gone /\ ~job'[r].degraded
<1>1. ASSUME MissInv, [NextResolve]_resolveVars PROVE Learnt
  <2>1. CASE \E r \in Requests, v \in Words : SaveWord(r, v)
    BY <1>1, <2>1, SavedAnswer
  <2>2. CASE PurgeUnresolved
    BY <2>2 DEF PurgeUnresolved, DeleteUnresolved
  <2>3. CASE UNCHANGED cache
    BY <2>3
  <2>4. CASE UNCHANGED resolveVars \/ AtMidnight \/ \E i \in Ingredients : AddIngredient(i)
    BY <2>3, <2>4 DEF resolveVars, AtMidnight, AddIngredient
  <2>5. ASSUME NEW r \in Requests,
               \/ \E s \in Subjects, ws \in Texts : Begin(r, s, ws)
               \/ Checked(r) \/ Leave(r) \/ ReadCatalog(r) \/ CatalogFails(r)
               \/ ReadCache(r) \/ Ask(r) \/ TakeDay(r) \/ Counted(r) \/ Die(r) \/ Respond(r)
        PROVE  UNCHANGED cache
    BY <2>5 DEF Begin, Checked, Leave, ReadCatalog, CatalogFails, ReadCache, Ask,
                TakeDay, Counted, AfterCall, Die, Respond
  <2> HIDE DEF Learnt
  <2> QED BY <1>1, <2>1, <2>2, <2>3, <2>4, <2>5 DEF NextResolve
<1>2. MissInv /\ [NextResolve]_resolveVars => [Learnt]_resolveVars
  BY <1>1
<1> QED BY <1>2, MissInvariant, PTL DEF SpecResolve, FailureNotKept

-----------------------------------------------------------------------------
(* Every word of a text is answered once.                                  *)

\* What is found is one ingredient of the copy for each word found.
OneEach(found, items) ==
  /\ \A p \in found : p = <<p[1], p[2]>> /\ p[2] \in items
  /\ \A p, q \in found : p[1] = q[1] => p = q

\* The words of a job that has read the catalog, each in one of three places.
Sorted(j) ==
  /\ j.words = WordsOf(j.found) \cup j.pending \cup j.unresolved
  /\ WordsOf(j.found) \cap j.pending = {}
  /\ WordsOf(j.found) \cap j.unresolved = {}
  /\ j.pending \cap j.unresolved = {}

Early(j) == j.pc \in {"idle", "checking", "catalog"}

\* The model names at most one ingredient for a word, out of the job's copy.
Answers(answer, ws, items) ==
  \A w \in ws : answer[w] \subseteq items /\ \A i, k \in answer[w] : i = k

WordOK(j) ==
  /\ j.pc # "idle" => j.words \subseteq Words /\ IsFiniteSet(j.words)
  /\ Early(j) \/ j.pc = "cache" => j.unresolved = {}
  /\ ~Early(j) => j.items \subseteq Ingredients /\ OneEach(j.found, j.items) /\ Sorted(j)
  /\ j.pc \in {"counting", "saving"} /\ j.answer # <<>> =>
       Answers(j.answer, j.pending, j.items)

WordInv ==
  /\ master \subseteq Ingredients
  /\ \A r \in Requests : WordOK(job[r])

\* A set of numbers has a least one.
LEMMA Least ==
  ASSUME NEW S \in SUBSET Nat, S # {}
  PROVE  Min(S) \in S /\ \A n \in S : Min(S) <= n
<1> DEFINE less == OpToRel(<, Nat)
<1>1. IsWellFoundedOn(less, Nat)
  BY NatLessThanWellFounded
<1>2. \A m, n \in Nat : <<m, n>> \in less <=> m < n
  BY DEF OpToRel
<1> HIDE DEF less
<1>3. PICK m \in S : \A n \in S : ~(<<n, m>> \in less)
  BY <1>1, WFMin
<1>4. ASSUME NEW n \in S PROVE m <= n
  <2>1. m \in Nat /\ n \in Nat /\ ~(<<n, m>> \in less)
    BY <1>3
  <2>2. ~(n < m)
    BY <1>2, <2>1
  <2> QED BY <2>1, <2>2
<1> QED BY <1>4 DEF Min

\* A finite set of numbers has a greatest one: that with the fewest above it.
LEMMA Greatest ==
  ASSUME NEW S \in SUBSET Nat, S # {}, IsFiniteSet(S)
  PROVE  Max(S) \in S
<1> DEFINE above(x) == {y \in S : y > x}
           K == {Cardinality(above(x)) : x \in S}
<1>1. \A x \in S : IsFiniteSet(above(x)) /\ Cardinality(above(x)) \in Nat
  <2> SUFFICES ASSUME NEW x \in S
               PROVE  IsFiniteSet(above(x)) /\ Cardinality(above(x)) \in Nat
    OBVIOUS
  <2>1. above(x) \subseteq S
    OBVIOUS
  <2> HIDE DEF above
  <2> QED BY <2>1, FS_Subset, FS_CardinalityType
<1>2. K \subseteq Nat /\ K # {}
  BY <1>1
<1>3. Min(K) \in K /\ \A n \in K : Min(K) <= n
  BY <1>2, Least
<1>4. PICK x \in S : Cardinality(above(x)) = Min(K)
  BY <1>3
<1>5. ASSUME NEW y \in S PROVE x >= y
  <2> SUFFICES ASSUME y > x PROVE FALSE
    OBVIOUS
  <2>1. above(y) \subseteq above(x) /\ y \in above(x) /\ y \notin above(y)
    <3>1. x \in Nat /\ y \in Nat /\ S \subseteq Nat /\ ~(y > y)
      OBVIOUS
    <3>2. \A z \in S : z > y => z > x
      BY <3>1
    <3> QED BY <3>1, <3>2
  <2>2. Cardinality(above(y)) \in K
    OBVIOUS
  <2>3. Cardinality(above(y)) \in Nat /\ Cardinality(above(x)) \in Nat
        /\ IsFiniteSet(above(x))
    BY <1>1
  <2>4. Cardinality(above(x)) <= Cardinality(above(y))
    BY <1>3, <1>4, <2>2
  <2> HIDE DEF above, K
  <2>5. above(y) # above(x)
    BY <2>1
  <2>6. Cardinality(above(y)) < Cardinality(above(x))
    BY <2>1, <2>3, <2>5, FS_Subset
  <2> QED BY <2>3, <2>4, <2>6
<1> QED BY <1>5 DEF Max

\* buildNameIndex leads a word to one ingredient of the master at most.
LEMMA IndexLeads ==
  ASSUME NEW items \in SUBSET Ingredients, NEW w
  PROVE  /\ NameIndex(items, w) \subseteq items
         /\ \A i, k \in NameIndex(items, w) : i = k
<1> DEFINE named == {i \in items : NameOf[i] = w}
           read  == {i \in items : KanaOf[i] = w}
<1>1. items \subseteq Nat /\ IsFiniteSet(items)
  BY ResolveAssumption, FS_Subset
<1>2. named # {} => Max(named) \in items
  <2>1. named \subseteq items /\ named \subseteq Nat
    BY <1>1
  <2>2. IsFiniteSet(named)
    BY <1>1, <2>1, FS_Subset
  <2> HIDE DEF named
  <2> QED BY <2>1, <2>2, Greatest
<1>3. read # {} => Min(read) \in items
  <2>1. read \subseteq items /\ read \subseteq Nat
    BY <1>1
  <2> HIDE DEF read
  <2> QED BY <2>1, Least
<1>4. /\ named # {} => NameIndex(items, w) = {Max(named)}
      /\ named = {} /\ read # {} => NameIndex(items, w) = {Min(read)}
      /\ named = {} /\ read = {} => NameIndex(items, w) = {}
  BY DEF NameIndex
<1> HIDE DEF named, read
<1> QED BY <1>2, <1>3, <1>4

\* The pairs of words that lead to one ingredient each.
LEMMA PairsOneEach ==
  ASSUME NEW ws, NEW led, NEW items,
         \A w \in ws : led[w] \subseteq items /\ \A i, k \in led[w] : i = k
  PROVE  OneEach(Pairs(ws, led), items) /\ WordsOf(Pairs(ws, led)) \subseteq ws
<1>1. \A p \in Pairs(ws, led) : /\ p = <<p[1], p[2]>>
                                /\ p[1] \in ws /\ p[2] \in led[p[1]]
  BY DEF Pairs
<1> QED BY <1>1 DEF OneEach, WordsOf

\* Found twice over, but never the same word.
LEMMA OneEachUnion ==
  ASSUME NEW F, NEW G, NEW items, OneEach(F, items), OneEach(G, items),
         WordsOf(F) \cap WordsOf(G) = {}
  PROVE  OneEach(F \cup G, items) /\ WordsOf(F \cup G) = WordsOf(F) \cup WordsOf(G)
<1>1. \A p \in F, q \in G : p[1] # q[1]
  BY DEF WordsOf
<1>2. WordsOf(F \cup G) = WordsOf(F) \cup WordsOf(G)
  BY DEF WordsOf
<1> QED BY <1>1, <1>2 DEF OneEach

\* As many pairs as words found.
LEMMA FoundCount ==
  ASSUME NEW F, NEW items, OneEach(F, items), IsFiniteSet(WordsOf(F))
  PROVE  Cardinality(F) = Cardinality(WordsOf(F))
<1> DEFINE pair == [w \in WordsOf(F) |-> CHOOSE p \in F : p[1] = w]
<1>1. \A w \in WordsOf(F) : pair[w] \in F /\ pair[w][1] = w
  BY DEF WordsOf
<1>2. \A p \in F : p[1] \in WordsOf(F) /\ pair[p[1]] = p
  <2>1. \A p \in F : p[1] \in WordsOf(F)
    BY DEF WordsOf
  <2> HIDE DEF pair
  <2> QED BY <1>1, <2>1 DEF OneEach
<1>3. pair \in [WordsOf(F) -> F]
  BY <1>1
<1> HIDE DEF pair
<1>4. pair \in Bijection(WordsOf(F), F)
  BY <1>1, <1>2, <1>3 DEF Bijection, Injection, Surjection, IsInjective
<1>5. ExistsBijection(WordsOf(F), F)
  BY <1>4 DEF ExistsBijection
<1> QED BY <1>5, FS_Bijection

LEMMA SortedCounts ==
  ASSUME NEW j, WordOK(j), ~Early(j)
  PROVE  Cardinality(j.words) = Cardinality(j.found) + Cardinality(j.pending)
                                  + Cardinality(j.unresolved)
<1> DEFINE hit == WordsOf(j.found)
<1>1. /\ j.words = hit \cup j.pending \cup j.unresolved
      /\ hit \cap j.pending = {} /\ hit \cap j.unresolved = {}
      /\ j.pending \cap j.unresolved = {}
      /\ OneEach(j.found, j.items) /\ IsFiniteSet(j.words)
  BY DEF WordOK, Sorted, Early
<1>2. IsFiniteSet(hit) /\ IsFiniteSet(j.pending) /\ IsFiniteSet(j.unresolved)
  BY <1>1, FS_Subset
<1>3. Cardinality(j.found) = Cardinality(hit)
  BY <1>1, <1>2, FoundCount
<1> HIDE DEF hit
<1>4. IsFiniteSet(hit \cup j.pending)
      /\ Cardinality(hit \cup j.pending) = Cardinality(hit) + Cardinality(j.pending)
  <2>1. Cardinality(hit \cap j.pending) = 0
    BY <1>1, FS_EmptySet
  <2>2. /\ IsFiniteSet(hit \cup j.pending)
        /\ Cardinality(hit \cup j.pending) =
             Cardinality(hit) + Cardinality(j.pending) - Cardinality(hit \cap j.pending)
    BY <1>2, FS_Union
  <2>3. Cardinality(hit) \in Nat /\ Cardinality(j.pending) \in Nat
    BY <1>2, FS_CardinalityType
  <2> HIDE DEF hit
  <2> QED BY <2>1, <2>2, <2>3
<1>5. Cardinality(j.words)
        = Cardinality(hit \cup j.pending) + Cardinality(j.unresolved)
  <2>1. (hit \cup j.pending) \cap j.unresolved = {}
    BY <1>1
  <2>2. Cardinality((hit \cup j.pending) \cap j.unresolved) = 0
    BY <2>1, FS_EmptySet
  <2> DEFINE kept == hit \cup j.pending
  <2>3. Cardinality(kept \cup j.unresolved) =
          Cardinality(kept) + Cardinality(j.unresolved) - Cardinality(kept \cap j.unresolved)
    BY <1>2, <1>4, FS_Union
  <2>4. Cardinality(kept) \in Nat /\ Cardinality(j.unresolved) \in Nat
    BY <1>2, <1>4, FS_CardinalityType
  <2> QED BY <1>1, <2>2, <2>3, <2>4
<1> QED BY <1>3, <1>4, <1>5

-----------------------------------------------------------------------------
LEMMA NoJobWords == WordOK(NoJob)
BY DEF WordOK, NoJob, Early

\* A step of one job.
LEMMA WordStep ==
  ASSUME WordInv, MissInv, NEW r \in Requests, NEW next, WordOK(next),
         job' = [job EXCEPT ![r] = next], UNCHANGED master
  PROVE  WordInv'
<1>1. \A q \in Requests : job'[q] = next \/ job'[q] = job[q]
  BY DEF MissInv
<1>2. \A q \in Requests : WordOK(job'[q])
  BY <1>1 DEF WordInv
<1> HIDE DEF WordOK
<1>3. \A q \in Requests : WordOK(job[q])'
  BY <1>2 DEF WordOK, Answers, Sorted, Early, OneEach, WordsOf
<1> QED BY <1>3 DEF WordInv

\* Up to the catalog a job has its words only.
LEMMA EarlyWords ==
  ASSUME WordInv, MissInv, NEW r \in Requests,
         \/ \E s \in Subjects, ws \in Texts : Begin(r, s, ws)
         \/ Checked(r) \/ Leave(r) \/ CatalogFails(r) \/ Die(r) \/ Respond(r)
  PROVE  WordInv'
<1>0. WordOK(job[r]) /\ IsJob(job[r])
  BY DEF WordInv, MissInv, JobOK
<1>1. ASSUME NEW s \in Subjects, NEW ws \in Texts, Begin(r, s, ws)
      PROVE  WordInv'
  <2> DEFINE pc == IF req'[r].pc = "allowed" THEN "catalog" ELSE "checking"
             next == [NoJob EXCEPT !.pc = pc, !.words = ws]
  <2>1. ws \subseteq Words /\ IsFiniteSet(ws) /\ pc \in {"catalog", "checking"}
    BY ResolveAssumption
  <2>2. job' = [job EXCEPT ![r] = next] /\ UNCHANGED master
    BY <1>1 DEF Begin
  <2> HIDE DEF pc
  <2>3. WordOK(next)
    BY <2>1 DEF WordOK, NoJob, Early
  <2> HIDE DEF next
  <2> QED BY <2>2, <2>3, WordStep
<1>2. CASE Checked(r)
  <2> DEFINE next == [job[r] EXCEPT !.pc = "catalog"]
  <2>1. WordOK(next)
    BY <1>0, <1>2 DEF Checked, WordOK, Early, IsJob, JobFields
  <2>2. job' = [job EXCEPT ![r] = next] /\ UNCHANGED master
    BY <1>2 DEF Checked
  <2> HIDE DEF next
  <2> QED BY <2>1, <2>2, WordStep
<1>3. CASE Leave(r)
  <2> DEFINE next == [job[r] EXCEPT !.gone = TRUE]
  <2>1. /\ next.pc = job[r].pc /\ next.words = job[r].words /\ next.items = job[r].items
        /\ next.found = job[r].found /\ next.pending = job[r].pending
        /\ next.unresolved = job[r].unresolved /\ next.answer = job[r].answer
    BY <1>0 DEF IsJob, JobFields
  <2>2. job' = [job EXCEPT ![r] = next] /\ UNCHANGED master
    BY <1>3 DEF Leave
  <2> HIDE DEF next
  <2>3. WordOK(next)
    BY <1>0, <2>1 DEF WordOK, Early, Sorted
  <2> QED BY <2>2, <2>3, WordStep
<1>4. CASE CatalogFails(r) \/ Die(r) \/ Respond(r)
  <2>1. job' = [job EXCEPT ![r] = NoJob] /\ UNCHANGED master
    BY <1>4 DEF CatalogFails, Die, Respond
  <2> QED BY <2>1, NoJobWords, WordStep
<1> QED BY <1>1, <1>2, <1>3, <1>4

\* The exact match splits the words in two.
LEMMA ReadCatalogWords ==
  ASSUME WordInv, MissInv, NEW r \in Requests, ReadCatalog(r)
  PROVE  WordInv'
<1> DEFINE exact == [w \in Words |-> NameIndex(master, w)]
           found == Pairs(job[r].words, exact)
           rest == job[r].words \ WordsOf(found)
           pc == IF rest = {} THEN "done" ELSE "cache"
           next == [job[r] EXCEPT
             !.pc = pc, !.items = master, !.found = found, !.pending = rest]
<1>1. job' = [job EXCEPT ![r] = next] /\ UNCHANGED master /\ job[r].pc = "catalog"
  BY DEF ReadCatalog
<1>2. /\ IsJob(job[r]) /\ WordOK(job[r]) /\ master \subseteq Ingredients
      /\ job[r].words \subseteq Words /\ IsFiniteSet(job[r].words) /\ job[r].unresolved = {}
  BY <1>1 DEF WordInv, MissInv, JobOK, WordOK, Early
<1>3. \A w \in job[r].words :
         exact[w] \subseteq master /\ \A i, k \in exact[w] : i = k
  BY <1>2, IndexLeads
<1> HIDE DEF exact
<1>4. OneEach(found, master) /\ WordsOf(found) \subseteq job[r].words
  BY <1>3, PairsOneEach
<1> HIDE DEF found
<1>5. /\ job[r].words = WordsOf(found) \cup rest
      /\ WordsOf(found) \cap rest = {} /\ pc \in {"done", "cache"}
  BY <1>4
<1> HIDE DEF rest, pc
<1>6. /\ next.pc = pc /\ next.words = job[r].words /\ next.items = master
      /\ next.found = found /\ next.pending = rest /\ next.unresolved = {}
  BY <1>2 DEF IsJob, JobFields
<1> HIDE DEF next
<1>7. WordOK(next)
  BY <1>2, <1>4, <1>5, <1>6 DEF WordOK, Early, Sorted
<1> QED BY <1>1, <1>7, WordStep

\* What the cache and the quota leave: a word found, a miss, or one to ask.
LEMMA AfterCacheWords ==
  ASSUME WordInv, MissInv, NEW r \in Requests, job[r].pc = "cache",
         NEW found, NEW misses, AfterCache(r, found, misses), UNCHANGED master,
         OneEach(found, job[r].items), WordsOf(found) \subseteq job[r].pending,
         misses \subseteq job[r].pending, WordsOf(found) \cap misses = {}
  PROVE  WordInv'
<1> DEFINE j == job[r]
           rest == j.pending \ (WordsOf(found) \cup misses)
           denied == rest # {} /\ req[r].pc # "allowed"
           pc == IF rest = {} \/ denied THEN "done" ELSE "asking"
           left == IF denied THEN {} ELSE rest
           given == misses \cup (IF denied THEN rest ELSE {})
           strays == j.straddles /\ rest # {} /\ ~denied
           next == [j EXCEPT
             !.pc = pc, !.found = j.found \cup found, !.unresolved = given,
             !.pending = left, !.degraded = denied, !.straddles = strays]
<1>1. job' = [job EXCEPT ![r] = next]
  BY DEF AfterCache
<1>2. /\ IsJob(j) /\ j.words \subseteq Words /\ IsFiniteSet(j.words)
      /\ j.items \subseteq Ingredients /\ OneEach(j.found, j.items)
      /\ j.words = WordsOf(j.found) \cup j.pending
      /\ WordsOf(j.found) \cap j.pending = {}
  BY DEF WordInv, MissInv, JobOK, WordOK, Early, Sorted
<1>3. pc \in {"done", "asking"}
  OBVIOUS
<1>4. /\ left \cup given = j.pending \ WordsOf(found)
      /\ left \cap given = {}
  OBVIOUS
<1> HIDE DEF rest, denied, pc, left, given, strays
<1>5. /\ next.pc = pc /\ next.words = j.words /\ next.items = j.items
      /\ next.found = j.found \cup found /\ next.pending = left /\ next.unresolved = given
  BY <1>2 DEF IsJob, JobFields
<1> HIDE DEF next, j
<1>6. /\ OneEach(next.found, next.items)
      /\ WordsOf(next.found) = WordsOf(j.found) \cup WordsOf(found)
  <2>1. WordsOf(j.found) \cap WordsOf(found) = {}
    BY <1>2 DEF j
  <2>2. /\ OneEach(j.found, j.items) /\ OneEach(found, j.items)
        /\ next.found = j.found \cup found /\ next.items = j.items
    BY <1>2, <1>5 DEF j
  <2>3. /\ OneEach(j.found \cup found, j.items)
        /\ WordsOf(j.found \cup found) = WordsOf(j.found) \cup WordsOf(found)
    BY <2>1, <2>2, OneEachUnion
  <2> QED BY <2>2, <2>3
<1>7. Sorted(next)
  BY <1>2, <1>4, <1>5, <1>6 DEF Sorted, j
<1>8. WordOK(next)
  BY <1>2, <1>3, <1>5, <1>6, <1>7 DEF WordOK, Early
<1> QED BY <1>1, <1>8, WordStep

LEMMA ReadCacheWords ==
  ASSUME WordInv, MissInv, NEW r \in Requests, ReadCache(r)
  PROVE  WordInv'
<1> DEFINE kept == [w \in Words |-> FromRow(r, w)]
           misses == {w \in job[r].pending : cache[w] = Missing}
<1>1. job[r].pc = "cache" /\ UNCHANGED master
  BY DEF ReadCache
<1>2. job[r].pending \subseteq Words /\ job[r].items \subseteq Ingredients
  BY <1>1 DEF WordInv, WordOK, Early, Sorted
<1>3. CASE AfterCache(r, Pairs(job[r].pending, kept), misses)
  <2>1. \A w \in job[r].pending : /\ kept[w] = job[r].items \cap {cache[w]}
                                  /\ kept[w] \subseteq job[r].items
                                  /\ \A i, k \in kept[w] : i = k
    BY <1>2 DEF FromRow
  <2> HIDE DEF kept
  <2>2. OneEach(Pairs(job[r].pending, kept), job[r].items)
        /\ WordsOf(Pairs(job[r].pending, kept)) \subseteq job[r].pending
    BY <2>1, PairsOneEach
  <2>3. \A w \in WordsOf(Pairs(job[r].pending, kept)) : w \notin misses
    <3>1. \A p \in Pairs(job[r].pending, kept) : p[1] \in job[r].pending /\ p[2] \in kept[p[1]]
      BY DEF Pairs
    <3>2. \A p \in Pairs(job[r].pending, kept) : cache[p[1]] \in Ingredients
      BY <1>2, <2>1, <3>1
    <3> QED BY <3>2, ResolveAssumption DEF WordsOf
  <2> QED BY <1>1, <1>3, <2>2, <2>3, AfterCacheWords
<1>4. CASE AfterCache(r, {}, {})
  BY <1>1, <1>4, AfterCacheWords DEF OneEach, WordsOf
<1> QED BY <1>3, <1>4 DEF ReadCache

LEMMA AskWords ==
  ASSUME WordInv, MissInv, NEW r \in Requests, Ask(r)
  PROVE  WordInv'
<1>1. PICK answer :
        /\ \/ answer = <<>>
           \/ answer \in [job[r].pending -> {{}} \cup {{i} : i \in job[r].items}]
        /\ job' = [job EXCEPT ![r].pc = "counting", ![r].answer = answer]
  BY DEF Ask
<1>2. job[r].pc = "asking" /\ UNCHANGED master
  BY DEF Ask
<1> DEFINE next == [job[r] EXCEPT !.pc = "counting", !.answer = answer]
<1>3. /\ IsJob(job[r]) /\ WordOK(job[r]) /\ job = [q \in Requests |-> job[q]]
  BY DEF WordInv, MissInv, JobOK
<1>4. job' = [job EXCEPT ![r] = next]
  BY <1>1, <1>3
<1>5. answer # <<>> => Answers(answer, job[r].pending, job[r].items)
  BY <1>1 DEF Answers
<1>6. /\ next.pc = "counting" /\ next.words = job[r].words /\ next.items = job[r].items
      /\ next.found = job[r].found /\ next.pending = job[r].pending
      /\ next.unresolved = job[r].unresolved /\ next.answer = answer
  BY <1>3 DEF IsJob, JobFields
<1> HIDE DEF next
<1>7. WordOK(next)
  BY <1>2, <1>3, <1>5, <1>6 DEF WordOK, Early, Sorted
<1> QED BY <1>2, <1>4, <1>7, WordStep

LEMMA CountedWords ==
  ASSUME WordInv, MissInv, NEW r \in Requests, Counted(r)
  PROVE  WordInv'
<1> DEFINE j == job[r]
           saving == [j EXCEPT !.pc = "saving"]
           given == j.unresolved \cup j.pending
           failed == [j EXCEPT
             !.pc = "done", !.degraded = TRUE, !.gone = FALSE, !.straddles = FALSE,
             !.unresolved = given, !.pending = {}]
<1>1. j.pc = "counting" /\ UNCHANGED master
  BY DEF Counted, AfterCall
<1>2. IsJob(j) /\ WordOK(j) /\ job = [q \in Requests |-> job[q]]
  BY DEF WordInv, MissInv, JobOK
<1>3. CASE j.answer # <<>>
  <2>1. job' = [job EXCEPT ![r] = saving]
    BY <1>2, <1>3 DEF Counted, AfterCall
  <2>2. /\ saving.pc = "saving" /\ saving.words = j.words /\ saving.items = j.items
        /\ saving.found = j.found /\ saving.pending = j.pending
        /\ saving.unresolved = j.unresolved /\ saving.answer = j.answer
    BY <1>2 DEF IsJob, JobFields
  <2> HIDE DEF saving, j
  <2>3. WordOK(saving)
    BY <1>1, <1>2, <2>2 DEF WordOK, Early, Sorted
  <2> QED BY <1>1, <2>1, <2>3, WordStep
<1>4. CASE j.answer = <<>>
  <2>1. job' = [job EXCEPT ![r] = failed]
    BY <1>2, <1>4 DEF Counted, AfterCall
  <2>2. /\ failed.pc = "done" /\ failed.words = j.words /\ failed.items = j.items
        /\ failed.found = j.found /\ failed.pending = {} /\ failed.unresolved = given
    BY <1>2 DEF IsJob, JobFields
  <2> HIDE DEF failed
  <2>3. /\ j.words \subseteq Words /\ IsFiniteSet(j.words) /\ Sorted(j)
        /\ j.items \subseteq Ingredients /\ OneEach(j.found, j.items)
    BY <1>1, <1>2 DEF WordOK, Early
  <2>4. Sorted(failed)
    BY <2>2, <2>3 DEF Sorted
  <2>5. WordOK(failed)
    BY <2>2, <2>3, <2>4 DEF WordOK, Early
  <2> QED BY <1>1, <2>1, <2>5, WordStep
<1> QED BY <1>3, <1>4

\* A word of the answer becomes found or unresolved.
LEMMA SaveWordWords ==
  ASSUME WordInv, MissInv, NEW r \in Requests, NEW w \in Words, SaveWord(r, w)
  PROVE  WordInv'
<1> DEFINE j == job[r]
           rest == j.pending \ {w}
           pc == IF rest = {} THEN "done" ELSE "saving"
           left == j.gone /\ rest # {}
           strays == j.straddles /\ rest # {}
           answer == Restrict(j.answer, rest)
           found == {w} \X j.answer[w]
           given == IF j.answer[w] = {} THEN {w} ELSE {}
           next == [j EXCEPT !.pc = pc, !.gone = left, !.straddles = strays,
             !.pending = rest, !.answer = answer,
             !.found = j.found \cup found, !.unresolved = j.unresolved \cup given]
<1>1. /\ job' = [job EXCEPT ![r] = next]
      /\ j.pc = "saving" /\ w \in j.pending /\ UNCHANGED master
  BY DEF SaveWord
<1>2. IsJob(j) /\ WordOK(j) /\ DOMAIN j.answer = j.pending
  BY <1>1 DEF WordInv, MissInv, JobOK
<1>3. /\ j.words \subseteq Words /\ IsFiniteSet(j.words) /\ Sorted(j)
      /\ j.items \subseteq Ingredients /\ OneEach(j.found, j.items)
  BY <1>1, <1>2 DEF WordOK, Early
<1>4. j.answer # <<>>
  BY <1>1, <1>2
<1>5. Answers(j.answer, j.pending, j.items)
  BY <1>1, <1>2, <1>4 DEF WordOK
<1>6. OneEach(found, j.items) /\ WordsOf(found) \cup given = {w} /\ WordsOf(found) \cap given = {}
  <2>1. j.answer[w] \subseteq j.items /\ \A i, k \in j.answer[w] : i = k
    BY <1>1, <1>5 DEF Answers
  <2>2. \A p \in found : p = <<p[1], p[2]>> /\ p[1] = w /\ p[2] \in j.answer[w]
    OBVIOUS
  <2>3. WordsOf(found) = IF j.answer[w] = {} THEN {} ELSE {w}
    <3>1. CASE j.answer[w] = {}
      BY <3>1 DEF WordsOf
    <3>2. CASE j.answer[w] # {}
      <4>1. PICK i \in j.answer[w] : <<w, i>> \in found
        BY <3>2
      <4> QED BY <2>2, <3>2, <4>1 DEF WordsOf
    <3> QED BY <3>1, <3>2
  <2>4. OneEach(found, j.items)
    <3>1. ASSUME NEW p \in found PROVE p = <<p[1], p[2]>> /\ p[2] \in j.items
      BY <2>1, <2>2
    <3>2. ASSUME NEW p \in found, NEW q \in found PROVE p = q
      <4>1. p[1] = w /\ q[1] = w /\ p[2] = q[2]
        BY <2>1, <2>2
      <4> QED BY <2>2, <4>1
    <3> HIDE DEF found
    <3> QED BY <3>1, <3>2 DEF OneEach
  <2>5. given = IF j.answer[w] = {} THEN {w} ELSE {}
    OBVIOUS
  <2> HIDE DEF found, given
  <2> QED BY <2>3, <2>4, <2>5
<1>7. /\ rest \subseteq j.pending /\ w \notin rest /\ j.pending = rest \cup {w}
      /\ pc \in {"done", "saving"}
      /\ \A v \in rest : answer[v] = j.answer[v]
  BY <1>1 DEF Restrict
<1> HIDE DEF rest, pc, left, strays, answer, found, given
<1>8. /\ next.pc = pc /\ next.words = j.words /\ next.items = j.items
      /\ next.found = j.found \cup found /\ next.pending = rest
      /\ next.unresolved = j.unresolved \cup given /\ next.answer = answer
  BY <1>2 DEF IsJob, JobFields
<1> HIDE DEF next, j
<1>9. /\ OneEach(next.found, next.items)
      /\ WordsOf(next.found) = WordsOf(j.found) \cup WordsOf(found)
  <2>1. WordsOf(j.found) \cap WordsOf(found) = {}
    BY <1>1, <1>3, <1>6 DEF Sorted
  <2> QED BY <1>3, <1>6, <1>8, <2>1, OneEachUnion
<1>10. Sorted(next)
  <2>1. /\ j.words = WordsOf(j.found) \cup j.pending \cup j.unresolved
        /\ WordsOf(j.found) \cap j.pending = {}
        /\ WordsOf(j.found) \cap j.unresolved = {}
        /\ j.pending \cap j.unresolved = {}
    BY <1>3 DEF Sorted
  <2> DEFINE old == WordsOf(j.found)
             new == WordsOf(found)
  <2>2. WordsOf(next.found) = old \cup new
    BY <1>9
  <2>3. new \cup given = {w} /\ new \cap given = {} /\ rest = j.pending \ {w} /\ w \in j.pending
    BY <1>1, <1>6, <1>7
  <2> HIDE DEF old, new
  <2>4. /\ j.words = (old \cup new) \cup rest \cup (j.unresolved \cup given)
        /\ (old \cup new) \cap rest = {}
        /\ (old \cup new) \cap (j.unresolved \cup given) = {}
        /\ rest \cap (j.unresolved \cup given) = {}
    BY <2>1, <2>3 DEF old
  <2> QED BY <1>8, <2>2, <2>4 DEF Sorted
<1>11. Answers(next.answer, next.pending, next.items)
  BY <1>5, <1>7, <1>8 DEF Answers
<1>12. WordOK(next)
  BY <1>3, <1>7, <1>8, <1>9, <1>10, <1>11 DEF WordOK, Early
<1> QED BY <1>1, <1>12, WordStep

\* A purge changes nothing of a job but that it has been overtaken.
LEMMA PurgeWords ==
  ASSUME WordInv, MissInv, PurgeUnresolved
  PROVE  WordInv'
<1>1. ASSUME NEW r \in Requests PROVE WordOK(job'[r])
  <2> DEFINE j == job[r]
             strays == j.straddles \/ j.pc \in {"cache", "asking", "counting", "saving"}
             next == [j EXCEPT !.straddles = strays]
  <2>1. job'[r] = next
    BY DEF PurgeUnresolved
  <2>2. IsJob(j) /\ WordOK(j)
    BY DEF WordInv, MissInv, JobOK
  <2> HIDE DEF strays
  <2>3. /\ next.pc = j.pc /\ next.words = j.words /\ next.items = j.items
        /\ next.found = j.found /\ next.pending = j.pending
        /\ next.unresolved = j.unresolved /\ next.answer = j.answer
    BY <2>2 DEF IsJob, JobFields
  <2> HIDE DEF next, j
  <2>4. WordOK(next)
    BY <2>2, <2>3 DEF WordOK, Early, Sorted
  <2> QED BY <2>1, <2>4
<1>2. \A r \in Requests : WordOK(job[r])'
  BY <1>1 DEF WordOK, Answers, Sorted, Early, OneEach, WordsOf
<1> QED BY <1>2 DEF WordInv, PurgeUnresolved

LEMMA WordsKept ==
  ASSUME WordInv, MissInv, [NextResolve]_resolveVars
  PROVE  WordInv'
<1>1. CASE UNCHANGED <<master, job>>
  <2>1. \A r \in Requests : WordOK(job[r])'
    BY <1>1 DEF WordInv, WordOK, Answers, Sorted, Early, OneEach, WordsOf
  <2> QED BY <1>1, <2>1 DEF WordInv
<1>2. CASE UNCHANGED resolveVars \/ AtMidnight \/ \E r \in Requests : TakeDay(r)
  BY <1>1, <1>2 DEF resolveVars, AtMidnight, TakeDay
<1>3. ASSUME NEW i \in Ingredients, AddIngredient(i)
      PROVE  WordInv'
  <2>1. \A r \in Requests : WordOK(job[r])'
    BY <1>3 DEF AddIngredient, WordInv, WordOK, Answers, Sorted, Early, OneEach, WordsOf
  <2> QED BY <1>3, <2>1 DEF WordInv, AddIngredient
<1> QED BY <1>2, <1>3, PurgeWords, EarlyWords, ReadCatalogWords, ReadCacheWords,
           AskWords, CountedWords, SaveWordWords DEF NextResolve

LEMMA WordInvariant == SpecResolve => []WordInv
<1>1. InitResolve => WordInv
  BY NoJobWords, ResolveAssumption DEF InitResolve, WordInv
<1>2. WordInv /\ MissInv /\ [NextResolve]_resolveVars => WordInv'
  BY WordsKept
<1> QED BY <1>1, <1>2, MissInvariant, PTL DEF SpecResolve

\* Whatever the master, the cache and the model say, and whatever fails, every
\* word of a text is pending, unresolved, or led to one ingredient of the copy
\* of the master its request works with.
THEOREM ResolveEveryWordOnce == SpecResolve => []EveryWordOnce
<1>1. WordInv => EveryWordOnce
  <2> SUFFICES ASSUME WordInv, NEW r \in Requests, ~Early(job[r])
               PROVE  /\ job[r].words = WordsOf(job[r].found)
                                          \cup job[r].pending \cup job[r].unresolved
                      /\ Cardinality(job[r].words) = Cardinality(job[r].found)
                           + Cardinality(job[r].pending) + Cardinality(job[r].unresolved)
                      /\ \A p \in job[r].found : p[2] \in job[r].items
    BY DEF EveryWordOnce, Early
  <2>1. WordOK(job[r])
    BY DEF WordInv
  <2>2. Sorted(job[r]) /\ OneEach(job[r].found, job[r].items)
    BY <2>1 DEF WordOK
  <2> QED BY <2>1, <2>2, SortedCounts DEF Sorted, OneEach
<1> QED BY <1>1, WordInvariant, PTL

-----------------------------------------------------------------------------
(* The types of the whole, and the call of the quota that a request holds.  *)

\* A job and its request of the quota.
Held(j, q) ==
  /\ j.pc = "checking" <=> q.pc = "checking"
  /\ j.pc = "asking" => q.pc = "allowed"
  /\ j.pc = "counting" <=> q.pc \in {"called", "charging"}

RowTypes ==
  /\ cache \in [Words -> master \cup {Missing, Unasked}]
  /\ basis \in [Words -> SUBSET Ingredients] /\ late \subseteq Words

\* Ingredients are never deleted: a copy of the master stays part of it.
HeldInv ==
  /\ RowTypes
  /\ \A r \in Requests : Held(job[r], req[r]) /\ job[r].items \subseteq master

\* A step of one request, which leaves the master alone.
LEMMA OneHeld ==
  ASSUME HeldInv, NEW r \in Requests, master' = master, RowTypes',
         \A q \in Requests \ {r} : job'[q] = job[q] /\ req'[q] = req[q],
         Held(job'[r], req'[r]), job'[r].items \subseteq master
  PROVE  HeldInv'
<1>1. ASSUME NEW q \in Requests PROVE Held(job'[q], req'[q]) /\ job'[q].items \subseteq master
  BY DEF HeldInv
<1>2. \A q \in Requests : (Held(job[q], req[q]) /\ job[q].items \subseteq master)'
  BY <1>1 DEF Held
<1> QED BY <1>2 DEF HeldInv

\* What the quota's steps make of a request.
LEMMA QuotaPcs ==
  ASSUME TypeOK, NEW r \in Requests
  PROVE  /\ \A s \in Subjects : Check(r, s) =>
              req[r].pc = "idle" /\ req'[r].pc \in {"allowed", "checking"}
         /\ CountsAllow(r) \/ CountsDeny(r) \/ CountsFail(r) =>
              req'[r].pc \in {"allowed", "idle"}
         /\ Disconnect(r) => req'[r].pc = req[r].pc
         /\ Spare(r) => req'[r].pc \in {req[r].pc, "idle"}
         /\ Call(r) => req'[r].pc = "called"
         /\ Record(r) => req'[r].pc = "charging"
         /\ Increment(r) \/ LoseCount(r) => req'[r].pc = "idle"
<1>1. req \in [Requests -> Request] /\ Idle.pc = "idle"
  BY DEF TypeOK, Idle
<1>2. \A s \in Subjects : Check(r, s) =>
        req[r].pc = "idle" /\ req'[r].pc \in {"allowed", "checking"}
  BY <1>1 DEF Check
<1>3. CountsAllow(r) \/ CountsDeny(r) \/ CountsFail(r) => req'[r].pc \in {"allowed", "idle"}
  BY <1>1 DEF CountsAllow, CountsDeny, CountsFail, Request
<1>4. Disconnect(r) => req'[r].pc = req[r].pc
  BY <1>1 DEF Disconnect, Request
<1>5. Spare(r) => req'[r].pc \in {req[r].pc, "idle"}
  BY <1>1 DEF Spare, NoCallNeeded, quotaVars, vars
<1>6. (Call(r) => req'[r].pc = "called") /\ (Record(r) => req'[r].pc = "charging")
  BY <1>1 DEF Call, Record, Request
<1>7. Increment(r) \/ LoseCount(r) => req'[r].pc = "idle"
  BY <1>1 DEF Increment, LoseCount
<1> QED BY <1>2, <1>3, <1>4, <1>5, <1>6, <1>7

\* And they touch no other request.
LEMMA QuotaOthers ==
  ASSUME TypeOK, NEW r \in Requests,
         \/ \E s \in Subjects : Check(r, s)
         \/ CountsAllow(r) \/ CountsDeny(r) \/ CountsFail(r) \/ Disconnect(r)
         \/ Spare(r) \/ Call(r) \/ Record(r) \/ Increment(r) \/ LoseCount(r)
  PROVE  \A q \in Requests \ {r} : req'[q] = req[q]
BY DEF TypeOK, Check, CountsAllow, CountsDeny, CountsFail, Disconnect, Spare, NoCallNeeded,
  Call, Record, Increment, LoseCount, quotaVars, vars

LEMMA RowsSame ==
  ASSUME RowTypes, UNCHANGED <<master, cache, basis, late>>
  PROVE  RowTypes'
BY DEF RowTypes

\* A step of a request that saves nothing.
LEMMA UnsavedHeld ==
  ASSUME HeldInv, MissInv, TypeOK, NEW r \in Requests,
         \/ \E s \in Subjects, ws \in Texts : Begin(r, s, ws)
         \/ Checked(r) \/ Leave(r) \/ ReadCatalog(r) \/ CatalogFails(r) \/ ReadCache(r)
         \/ Ask(r) \/ TakeDay(r) \/ Counted(r) \/ Die(r) \/ Respond(r)
  PROVE  HeldInv'
<1>1. /\ IsJob(job[r]) /\ job = [q \in Requests |-> job[q]]
      /\ Held(job[r], req[r]) /\ job[r].items \subseteq master /\ RowTypes
  BY DEF HeldInv, MissInv, JobOK
<1>2. UNCHANGED <<master, cache, basis, late>>
  BY DEF Begin, Checked, Leave, ReadCatalog, CatalogFails, ReadCache, Ask, TakeDay,
    Counted, AfterCall, Die, Respond
<1>3. RowTypes'
  BY <1>1, <1>2, RowsSame
<1>4. NoJob.pc = "idle" /\ NoJob.items = {}
  BY DEF NoJob
<1>5. \A q \in Requests \ {r} : job'[q] = job[q]
  BY <1>1 DEF Begin, Checked, Leave, ReadCatalog, CatalogFails, ReadCache, AfterCache, Ask,
    TakeDay, Counted, AfterCall, Die, Respond
<1>6. \A q \in Requests \ {r} : req'[q] = req[q]
  <2>1. CASE UNCHANGED req
    BY <2>1
  <2>2. CASE Respond(r)
    BY <2>2 DEF Respond, quotaVars, vars
  <2>3. CASE ReadCatalog(r) \/ CatalogFails(r) \/ ReadCache(r)
    <3>1. Spare(r) \/ UNCHANGED quotaVars
      BY <2>3 DEF ReadCatalog, CatalogFails, ReadCache, AfterCache
    <3> QED BY <3>1, QuotaOthers DEF quotaVars, vars
  <2> QED BY <2>2, <2>3, QuotaOthers DEF Begin, Checked, Leave, Ask, TakeDay, Counted, Die
<1>7. ASSUME Held(job'[r], req'[r]), job'[r].items \subseteq master PROVE HeldInv'
  BY <1>2, <1>3, <1>5, <1>6, <1>7, OneHeld
<1>8. ASSUME NEW s \in Subjects, NEW ws \in Texts, Begin(r, s, ws) PROVE HeldInv'
  <2>1. /\ job'[r].pc = (IF req'[r].pc = "allowed" THEN "catalog" ELSE "checking")
        /\ job'[r].items = {}
    BY <1>1, <1>8 DEF Begin, NoJob
  <2>2. req'[r].pc \in {"allowed", "checking"}
    BY <1>8, QuotaPcs DEF Begin
  <2> QED BY <1>7, <2>1, <2>2 DEF Held
<1>9. CASE Checked(r)
  <2>1. job'[r].pc = "catalog" /\ job'[r].items = job[r].items
    BY <1>1, <1>9 DEF Checked, IsJob, JobFields
  <2>2. req'[r].pc \in {"allowed", "idle"}
    BY <1>9, QuotaPcs DEF Checked
  <2> QED BY <1>1, <1>7, <2>1, <2>2 DEF Held
<1>10. CASE Leave(r)
  <2>1. job'[r].pc = job[r].pc /\ job'[r].items = job[r].items
    BY <1>1, <1>10 DEF Leave, IsJob, JobFields
  <2>2. req'[r].pc = req[r].pc
    BY <1>10, QuotaPcs DEF Leave
  <2> QED BY <1>1, <1>7, <2>1, <2>2 DEF Held
<1>11. CASE ReadCatalog(r)
  <2>1. job[r].pc = "catalog" /\ job'[r].pc \in {"done", "cache"} /\ job'[r].items = master
    BY <1>1, <1>11 DEF ReadCatalog, IsJob, JobFields
  <2>2. Spare(r) \/ req' = req
    BY <1>11 DEF ReadCatalog, quotaVars, vars
  <2>3. req'[r].pc \in {req[r].pc, "idle"}
    BY <2>2, QuotaPcs
  <2> QED BY <1>1, <1>7, <2>1, <2>3 DEF Held
<1>12. CASE CatalogFails(r)
  <2>1. job[r].pc = "catalog" /\ job'[r] = NoJob
    BY <1>1, <1>12 DEF CatalogFails
  <2>2. req'[r].pc \in {req[r].pc, "idle"}
    BY <1>12, QuotaPcs DEF CatalogFails
  <2> QED BY <1>1, <1>4, <1>7, <2>1, <2>2 DEF Held
<1>13. CASE ReadCache(r)
  <2>1. PICK found, misses : AfterCache(r, found, misses)
    BY <1>13 DEF ReadCache
  <2> DEFINE rest == job[r].pending \ (WordsOf(found) \cup misses)
  <2>2. /\ job[r].pc = "cache" /\ job'[r].items = job[r].items
        /\ job'[r].pc = IF rest = {} \/ req[r].pc # "allowed" THEN "done" ELSE "asking"
    BY <1>1, <1>13, <2>1 DEF ReadCache, AfterCache, IsJob, JobFields
  <2>3. IF rest = {} THEN Spare(r) ELSE req' = req
    BY <2>1 DEF AfterCache, quotaVars, vars
  <2>4. rest # {} => req' = req
    BY <2>3
  <2>5. rest = {} => req'[r].pc \in {req[r].pc, "idle"}
    BY <2>3, QuotaPcs
  <2> HIDE DEF rest
  <2> QED BY <1>1, <1>7, <2>2, <2>4, <2>5 DEF Held
<1>14. CASE Ask(r)
  <2>1. PICK answer : job' = [job EXCEPT ![r].pc = "counting", ![r].answer = answer]
    BY <1>14 DEF Ask
  <2>3. job'[r].pc = "counting" /\ job'[r].items = job[r].items
    BY <1>1, <2>1 DEF IsJob, JobFields
  <2>2. req'[r].pc = "called"
    BY <1>14, QuotaPcs DEF Ask
  <2> QED BY <1>1, <1>7, <2>2, <2>3 DEF Held
<1>15. CASE TakeDay(r)
  <2>1. job[r].pc = "counting" /\ job' = job
    BY <1>15 DEF TakeDay
  <2>2. req'[r].pc = "charging"
    BY <1>15, QuotaPcs DEF TakeDay
  <2> QED BY <1>1, <1>7, <2>1, <2>2 DEF Held
<1>16. CASE Counted(r)
  <2>1. job'[r].pc \in {"saving", "done"} /\ job'[r].items = job[r].items
    BY <1>1, <1>16 DEF Counted, AfterCall, IsJob, JobFields
  <2>2. req'[r].pc = "idle"
    BY <1>16, QuotaPcs DEF Counted
  <2> QED BY <1>1, <1>7, <2>1, <2>2 DEF Held
<1>17. CASE Die(r)
  <2>1. job'[r] = NoJob /\ req'[r].pc = "idle"
    BY <1>1, <1>17, QuotaPcs DEF Die
  <2> QED BY <1>4, <1>7, <2>1 DEF Held
<1>18. CASE Respond(r)
  <2>1. job[r].pc = "done" /\ job'[r] = NoJob /\ req' = req
    BY <1>1, <1>18 DEF Respond, quotaVars, vars
  <2> QED BY <1>1, <1>4, <1>7, <2>1 DEF Held
<1> QED BY <1>8, <1>9, <1>10, <1>11, <1>12, <1>13, <1>14, <1>15, <1>16, <1>17, <1>18

\* A saved row names an ingredient of the copy, or none.
LEMMA SaveWordHeld ==
  ASSUME HeldInv, WordInv, MissInv, NEW r \in Requests, NEW w \in Words, SaveWord(r, w)
  PROVE  HeldInv'
<1>1. /\ JobOK(job[r]) /\ WordOK(job[r]) /\ job = [q \in Requests |-> job[q]]
      /\ Held(job[r], req[r]) /\ job[r].items \subseteq master /\ RowTypes
      /\ master \subseteq Ingredients
  BY DEF HeldInv, WordInv, MissInv
<1>2. /\ job[r].pc = "saving" /\ w \in job[r].pending /\ master' = master
      /\ UNCHANGED req /\ IsJob(job[r])
  BY <1>1 DEF SaveWord, JobOK, quotaVars, vars
<1>3. job[r].answer[w] \subseteq job[r].items
  <2>1. w \in DOMAIN job[r].answer
    BY <1>1, <1>2 DEF JobOK
  <2>2. job[r].answer # <<>>
    BY <2>1
  <2> QED BY <1>1, <1>2, <2>2 DEF WordOK, Answers
<1> DEFINE row == IF job[r].answer[w] = {} THEN Missing
                  ELSE CHOOSE i \in job[r].answer[w] : TRUE
<1>4. row \in master \cup {Missing}
  BY <1>1, <1>3
<1>5. \/ /\ cache' = [cache EXCEPT ![w] = row]
         /\ basis' = [basis EXCEPT ![w] = IF row = Missing THEN job[r].items ELSE {}]
         /\ late' = IF row = Missing /\ job[r].straddles
                    THEN late \cup {w} ELSE late \ {w}
      \/ UNCHANGED <<cache, basis, late>>
  BY DEF SaveWord, Save
<1> HIDE DEF row
<1>6. RowTypes'
  BY <1>1, <1>2, <1>4, <1>5 DEF RowTypes
<1>7. /\ job'[r].pc \in {"done", "saving"} /\ job'[r].items = job[r].items
      /\ \A q \in Requests \ {r} : job'[q] = job[q]
  BY <1>1, <1>2 DEF SaveWord, IsJob, JobFields
<1> QED BY <1>1, <1>2, <1>6, <1>7, OneHeld DEF Held

\* The operator and the clock.
LEMMA OperatorHeld ==
  ASSUME HeldInv, MissInv,
         \/ AtMidnight \/ PurgeUnresolved \/ UNCHANGED resolveVars
         \/ \E i \in Ingredients : AddIngredient(i)
  PROVE  HeldInv'
<1>1. CASE UNCHANGED <<req, master, cache, job, basis, late>>
  BY <1>1 DEF HeldInv, Held, RowTypes
<1>2. CASE AtMidnight \/ UNCHANGED resolveVars
  BY <1>1, <1>2 DEF AtMidnight, Midnight, resolveVars, vars
<1>3. ASSUME NEW i \in Ingredients, AddIngredient(i) PROVE HeldInv'
  BY <1>3 DEF AddIngredient, quotaVars, vars, HeldInv, Held, RowTypes
<1>4. CASE PurgeUnresolved
  <2>1. ASSUME NEW r \in Requests
        PROVE  job'[r].pc = job[r].pc /\ job'[r].items = job[r].items
    BY <1>4 DEF MissInv, JobOK, IsJob, JobFields, PurgeUnresolved
  <2>2. req' = req /\ master' = master /\ RowTypes'
    BY <1>4 DEF PurgeUnresolved, DeleteUnresolved, quotaVars, vars, HeldInv, RowTypes
  <2>3. \A r \in Requests : (Held(job[r], req[r]) /\ job[r].items \subseteq master)'
    BY <2>1, <2>2 DEF HeldInv, Held
  <2> QED BY <2>2, <2>3 DEF HeldInv
<1> QED BY <1>2, <1>3, <1>4

\* A request holds its call of the quota exactly as long as its job is where a
\* call may still come or be counted, and what is cached names ingredients of
\* the master (the handler's quota.Check and the service's Record around
\* gateway.Resolve).
THEOREM ResolveTypeOK == SpecResolve => []TypeOKResolve
<1>1. InitResolve => HeldInv
  BY ResolveAssumption DEF InitResolve, Init, Idle, NoJob, HeldInv, Held, RowTypes
<1>2. TypeOK /\ HeldInv /\ WordInv /\ MissInv /\ [NextResolve]_resolveVars => HeldInv'
  BY UnsavedHeld, SaveWordHeld, OperatorHeld DEF NextResolve
<1>3. TypeOK /\ HeldInv /\ WordInv /\ MissInv => TypeOKResolve
  BY DEF HeldInv, Held, RowTypes, WordInv, MissInv, TypeOKResolve
<1>4. SpecResolve => []TypeOK
  BY ResolveImplementsQuota, QuotaTypeOK, PTL
<1> QED BY <1>1, <1>2, <1>3, <1>4, WordInvariant, MissInvariant, PTL DEF SpecResolve
=============================================================================
