---------------------------- MODULE ResolveQuota ----------------------------
(***************************************************************************)
(* The daily limits on calls of the language model that reads ingredient   *)
(* texts (service/resolve_quota.go, repository/resolve_usage.go, and the   *)
(* order in which handler/ingredient_resolve.go and resolveByGateway of    *)
(* service/ingredient_resolve.go use them).  Check reads the counters of   *)
(* its day; only after the call Record adds to those of its own day: both  *)
(* take the day first and touch the database afterwards, so other requests *)
(* and midnight (JST) may come between.                                    *)
(***************************************************************************)
EXTENDS Naturals, FiniteSets, Functions

CONSTANTS
  UserIds,      \* subjects of scope user
  Ips,          \* subjects of scope ip: HMACs of addresses (the scope is part
                \* of a row's key, so no subject is both)
  NoSubject,    \* the subject of an idle request
  Requests,     \* concurrent requests of all instances
  TotalLimit, UserLimit, AnonLimit,   \* ResolveQuotaLimits, 0 is unlimited
  MaxCalls,     \* bound: once so many calls were made, no request begins
  MaxDay,       \* bound: days observed
  MaxLost       \* bound: calls whose count is lost

ASSUME QuotaAssumption ==
  /\ IsFiniteSet(UserIds) /\ IsFiniteSet(Ips) /\ UserIds \cap Ips = {}
  /\ NoSubject \notin UserIds \cup Ips
  /\ IsFiniteSet(Requests) /\ Requests # {}
  /\ TotalLimit \in Nat /\ UserLimit \in Nat /\ AnonLimit \in Nat
  /\ MaxCalls \in Nat /\ MaxDay \in Nat /\ MaxLost \in Nat

VARIABLES
  today,   \* day(): the date in JST
  total,   \* per day, the count of the row of scope total
  own,     \* per day and subject, the count of its row
  req,     \* the state of each request
  calls,   \* history variable: calls of the gateway
  lost     \* history variable: calls that were never counted

vars == <<today, total, own, req, calls, lost>>

-----------------------------------------------------------------------------
Dates == 0..MaxDay
Subjects == UserIds \cup Ips

\* Mutant: the two limits change places.
LimitOfSwapped(s) == IF s \in UserIds THEN AnonLimit ELSE UserLimit

\* subjectLimit
LimitOf(s) == IF s \in UserIds THEN UserLimit ELSE AnonLimit

Idle == [pc |-> "idle", subject |-> NoSubject, date |-> 0, gone |-> FALSE]

Request == [pc : {"idle", "checking", "allowed", "called", "charging"},
            subject : Subjects \cup {NoSubject}, date : Dates, gone : BOOLEAN]

Init ==
  /\ today = 0
  /\ total = [d \in Dates |-> 0]
  /\ own = [d \in Dates |-> [s \in Subjects |-> 0]]
  /\ req = [r \in Requests |-> Idle]
  /\ calls = 0 /\ lost = 0

Midnight ==
  /\ today < MaxDay
  /\ today' = today + 1
  /\ UNCHANGED <<total, own, req, calls, lost>>

\* Check begins: with no limit at all it allows without reading, otherwise it
\* takes the day.
Check(r, s) ==
  /\ req[r].pc = "idle" /\ calls < MaxCalls
  /\ req' = [req EXCEPT ![r] =
       [pc |-> IF TotalLimit = 0 /\ LimitOf(s) = 0 THEN "allowed" ELSE "checking",
        subject |-> s, date |-> today, gone |-> FALSE]]
  /\ UNCHANGED <<today, total, own, calls, lost>>

\* Mutant: <= in the comparison.
RoomForOneMore(s, d) ==
  /\ TotalLimit > 0 => total[d] <= TotalLimit
  /\ LimitOf(s) > 0 => own[d][s] <= LimitOf(s)

\* Mutant: only the limit of the whole service is looked at.
RoomOfService(s, d) == TotalLimit > 0 => total[d] < TotalLimit

\* The decision of Check on the counts of day d.
Room(s, d) ==
  /\ TotalLimit > 0 => total[d] < TotalLimit
  /\ LimitOf(s) > 0 => own[d][s] < LimitOf(s)

\* Counts has answered.  No room: the request ends degraded, without a call.
CountsAllow(r) ==
  /\ req[r].pc = "checking"
  /\ Room(req[r].subject, req[r].date)
  /\ req' = [req EXCEPT ![r].pc = "allowed"]
  /\ UNCHANGED <<today, total, own, calls, lost>>

CountsDeny(r) ==
  /\ req[r].pc = "checking"
  /\ ~Room(req[r].subject, req[r].date)
  /\ req' = [req EXCEPT ![r] = Idle]
  /\ UNCHANGED <<today, total, own, calls, lost>>

\* Counts fails: fail closed (ReasonCounterUnavailable).
CountsFail(r) ==
  /\ req[r].pc = "checking"
  /\ req' = [req EXCEPT ![r] = Idle]
  /\ UNCHANGED <<today, total, own, calls, lost>>

\* Exact names and the cache answer every word, or the catalog cannot be read.
NoCallNeeded(r) ==
  /\ req[r].pc = "allowed"
  /\ req' = [req EXCEPT ![r] = Idle]
  /\ UNCHANGED <<today, total, own, calls, lost>>

\* gateway.Resolve, whatever comes of it.
Call(r) ==
  /\ req[r].pc = "allowed"
  /\ calls' = calls + 1
  /\ req' = [req EXCEPT ![r].pc = "called"]
  /\ UNCHANGED <<today, total, own, lost>>

\* The client goes away; its context is cancelled.
Disconnect(r) ==
  /\ req[r].pc \in {"allowed", "called"} /\ ~req[r].gone
  /\ req' = [req EXCEPT ![r].gone = TRUE]
  /\ UNCHANGED <<today, total, own, calls, lost>>

\* Mutant: Record runs under the request's own context.
RecordUnderRequest(r) ==
  /\ req[r].pc = "called"
  /\ req' = [req EXCEPT ![r] = IF req[r].gone THEN Idle
                               ELSE [req[r] EXCEPT !.pc = "charging", !.date = today]]
  /\ UNCHANGED <<today, total, own, calls, lost>>

\* Record takes the day, under a context of its own (WithoutCancel).
Record(r) ==
  /\ req[r].pc = "called"
  /\ req' = [req EXCEPT ![r].pc = "charging", ![r].date = today]
  /\ UNCHANGED <<today, total, own, calls, lost>>

\* Mutant: the two rows are added to by two statements, the second may fail.
IncrementTotalOnly(r) ==
  /\ req[r].pc = "charging"
  /\ total' = [total EXCEPT ![req[r].date] = @ + 1]
  /\ \/ own' = [own EXCEPT ![req[r].date][req[r].subject] = @ + 1]
     \/ UNCHANGED own
  /\ req' = [req EXCEPT ![r] = Idle]
  /\ UNCHANGED <<today, calls, lost>>

\* Increment: one statement for both rows.
Increment(r) ==
  /\ req[r].pc = "charging"
  /\ total' = [total EXCEPT ![req[r].date] = @ + 1]
  /\ own' = [own EXCEPT ![req[r].date][req[r].subject] = @ + 1]
  /\ req' = [req EXCEPT ![r] = Idle]
  /\ UNCHANGED <<today, calls, lost>>

\* The statement fails (only a warning is logged), or the instance dies
\* between the call and the count.
LoseCount(r) ==
  /\ req[r].pc \in {"called", "charging"}
  /\ lost < MaxLost
  /\ lost' = lost + 1
  /\ req' = [req EXCEPT ![r] = Idle]
  /\ UNCHANGED <<today, total, own, calls>>

Next ==
  \/ Midnight
  \/ \E r \in Requests :
       \/ \E s \in Subjects : Check(r, s)
       \/ CountsAllow(r)
       \/ CountsDeny(r)
       \/ CountsFail(r)
       \/ NoCallNeeded(r)
       \/ Call(r)
       \/ Disconnect(r)
       \/ Record(r)
       \/ Increment(r)
       \/ LoseCount(r)

Spec == Init /\ [][Next]_vars

-----------------------------------------------------------------------------
\* Every variable keeps its type; nothing is counted on a day to come.
TypeOK ==
  /\ today \in Dates
  /\ total \in [Dates -> Nat]
  /\ own \in [Dates -> [Subjects -> Nat]]
  /\ req \in [Requests -> Request]
  /\ \A r \in Requests :
       req[r].pc # "idle" => req[r].subject \in Subjects /\ req[r].date <= today
  /\ \A d \in Dates : d > today => total[d] = 0 /\ own[d] = [s \in Subjects |-> 0]
  /\ calls \in Nat /\ lost \in Nat

Overshoot == Cardinality(Requests) - 1

\* Requests check before any of them counts, and the count may land on another
\* day than the check.  Still no day's count passes the limit by more than the
\* other requests in flight (comment of Check: 300 + 160 at worst).
TotalBound ==
  TotalLimit > 0 => \A d \in Dates : total[d] <= TotalLimit + Overshoot

\* No user passes the limit of users, and no address that of addresses, by more
\* than the other requests in flight, whatever room the whole service has left.
OwnBound ==
  \A d \in Dates :
    /\ UserLimit > 0 => \A u \in UserIds : own[d][u] <= UserLimit + Overshoot
    /\ AnonLimit > 0 => \A a \in Ips : own[d][a] <= AnonLimit + Overshoot

\* A call is counted exactly once, on one day, for the service and for its
\* subject alike, however its client behaves; only a failed Increment or a
\* crash can lose it.
CallsCounted ==
  /\ calls = FoldFunction(+, 0, total) + lost
               + Cardinality({r \in Requests : req[r].pc \in {"called", "charging"}})
  /\ \A d \in Dates : total[d] = FoldFunction(+, 0, own[d])
=============================================================================
