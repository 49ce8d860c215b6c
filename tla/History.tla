------------------------------ MODULE History ------------------------------
(***************************************************************************)
(* The search history of the menu planner (repository/history.go over      *)
(* PostgreSQL): every proposal of a menu is one row of search_histories,   *)
(* and each user keeps the newest Limit rows (HistoryLimit, 15).           *)
(*                                                                         *)
(* A recording is a transaction under READ COMMITTED: BEGIN fixes          *)
(* searched_at, the INSERTs draw seq from the identity column, one DELETE  *)
(* trims what is visible to it, COMMIT publishes both.  The requests of    *)
(* one user (two tabs, a weekly and a single proposal) interleave at every *)
(* statement.                                                              *)
(***************************************************************************)
EXTENDS Naturals, FiniteSets

CONSTANTS
  Users,      \* users with an account
  NoUser,     \* the user field of an idle request
  Requests,   \* concurrent requests: connections of the pool
  Limit,      \* rows kept per user
  Batches,    \* sizes of a recording: 1 (single) and 7 (weekly) in the code
  MaxBatch,   \* the largest of them
  MaxClock,   \* bound: distinct transaction times
  MaxSeq      \* bound: rows ever inserted

ASSUME HistoryAssumption ==
  /\ NoUser \notin Users
  /\ IsFiniteSet(Requests) /\ Requests # {}
  /\ Limit \in Nat \ {0}
  /\ MaxBatch \in Nat
  /\ Batches \subseteq 1..MaxBatch
  /\ MaxClock \in Nat /\ MaxSeq \in Nat

VARIABLES
  rows,       \* committed rows of search_histories
  recorded,   \* history variable: every row that was ever committed
  erased,     \* history variable: every row a user deleted by hand
  req,        \* the state of each request
  clock,      \* the database clock, read once per transaction by now()
  nextSeq     \* the identity sequence of search_histories.seq

vars == <<rows, recorded, erased, req, clock, nextSeq>>

-----------------------------------------------------------------------------
Row == [user : Users, at : Nat, seq : Nat]

\* ORDER BY searched_at DESC, seq DESC
Newer(r, s) == r.at > s.at \/ (r.at = s.at /\ r.seq > s.seq)

RowsOf(S, u) == {r \in S : r.user = u}

\* Mutants of Expired: one row too many is kept; the oldest rows are kept (ASC);
\* one row too few is kept.
ExpiredOneLate(S) == {r \in S : Cardinality({s \in S : Newer(s, r)}) > Limit}
ExpiredAscending(S) == {r \in S : Cardinality({s \in S : Newer(r, s)}) >= Limit}
ExpiredOneEarly(S) == {r \in S : Cardinality({s \in S : Newer(s, r)}) >= Limit - 1}

\* id NOT IN (SELECT id ... ORDER BY searched_at DESC, seq DESC LIMIT Limit):
\* the rows of S with at least Limit newer ones beside them.
Expired(S) == {r \in S : Cardinality({s \in S : Newer(s, r)}) >= Limit}

Idle == [pc |-> "idle", user |-> NoUser, at |-> 0, left |-> 0,
         own |-> {}, doomed |-> {}]

Recording(u, now, n) == [pc |-> "open", user |-> u, at |-> now, left |-> n,
                         own |-> {}, doomed |-> {}]

Erasing(u, D) == [pc |-> "erasing", user |-> u, at |-> 0, left |-> 0,
                  own |-> {}, doomed |-> D]

\* A statement's DELETE waits while another open transaction has deleted one
\* of its rows; it skips the rows that transaction goes on to commit away.
Unlocked(t) ==
  \A o \in Requests \ {t} :
    req[o].pc = "pruned" => req[t].doomed \cap req[o].doomed \cap rows = {}

-----------------------------------------------------------------------------
Init ==
  /\ rows = {} /\ recorded = {} /\ erased = {}
  /\ req = [t \in Requests |-> Idle]
  /\ clock = 0
  /\ nextSeq = 0

\* BEGIN of RecordWithLimit / RecordManyWithLimit.  Two transactions may read
\* the same now(); an empty batch returns before BEGIN.
Begin(t, u, n) ==
  /\ req[t].pc = "idle"
  /\ clock' \in {clock, clock + 1} \cap 0..MaxClock
  /\ req' = [req EXCEPT ![t] = Recording(u, clock', n)]
  /\ UNCHANGED <<rows, recorded, erased, nextSeq>>

\* One INSERT; seq is drawn now, searched_at is that of the transaction.
Insert(t) ==
  /\ req[t].pc = "open" /\ req[t].left > 0
  /\ nextSeq < MaxSeq
  /\ nextSeq' = nextSeq + 1
  /\ req' = [req EXCEPT
       ![t].left = req[t].left - 1,
       ![t].own = req[t].own \cup
                    {[user |-> req[t].user, at |-> req[t].at, seq |-> nextSeq]}]
  /\ UNCHANGED <<rows, recorded, erased, clock>>

\* pruneToLimit's DELETE takes its snapshot: what is committed, and its own.
Prune(t) ==
  /\ req[t].pc = "open" /\ req[t].left = 0
  /\ req' = [req EXCEPT
       ![t].pc = "pruning",
       ![t].doomed = Expired(RowsOf(rows, req[t].user) \cup req[t].own)]
  /\ UNCHANGED <<rows, recorded, erased, clock, nextSeq>>

\* The DELETE holds the locks of its rows and returns.
PruneDone(t) ==
  /\ req[t].pc = "pruning"
  /\ Unlocked(t)
  /\ req' = [req EXCEPT ![t].pc = "pruned"]
  /\ UNCHANGED <<rows, recorded, erased, clock, nextSeq>>

Commit(t) ==
  /\ req[t].pc = "pruned"
  /\ rows' = (rows \cup req[t].own) \ req[t].doomed
  /\ recorded' = recorded \cup req[t].own
  /\ req' = [req EXCEPT ![t] = Idle]
  /\ UNCHANGED <<erased, clock, nextSeq>>

\* The deferred Rollback: a statement failed, the client went away, the
\* database chose this transaction as a deadlock victim, the server died.
Rollback(t) ==
  /\ req[t].pc \in {"open", "pruning", "pruned"}
  /\ req' = [req EXCEPT ![t] = Idle]
  /\ UNCHANGED <<rows, recorded, erased, clock, nextSeq>>

\* Delete: the SELECT of the owner.  A missing row is 404, another user's 403.
CheckOwner(t, u, r) ==
  /\ req[t].pc = "idle"
  /\ r \in rows /\ r.user = u
  /\ req' = [req EXCEPT ![t] = Erasing(u, {r})]
  /\ UNCHANGED <<rows, recorded, erased, clock, nextSeq>>

\* DeleteAll: its DELETE takes its snapshot.
DeleteAll(t, u) ==
  /\ req[t].pc = "idle"
  /\ req' = [req EXCEPT ![t] = Erasing(u, RowsOf(rows, u))]
  /\ UNCHANGED <<rows, recorded, erased, clock, nextSeq>>

\* The autocommitted DELETE of Delete or DeleteAll; rows gone meanwhile are
\* no error.
Erase(t) ==
  /\ req[t].pc = "erasing"
  /\ Unlocked(t)
  /\ rows' = rows \ req[t].doomed
  /\ erased' = erased \cup (req[t].doomed \cap rows)
  /\ req' = [req EXCEPT ![t] = Idle]
  /\ UNCHANGED <<recorded, clock, nextSeq>>

Next ==
  \E t \in Requests :
    \/ \E u \in Users, n \in Batches : Begin(t, u, n)
    \/ Insert(t)
    \/ Prune(t)
    \/ PruneDone(t)
    \/ Commit(t)
    \/ Rollback(t)
    \/ \E u \in Users, r \in rows : CheckOwner(t, u, r)
    \/ \E u \in Users : DeleteAll(t, u)
    \/ Erase(t)

Spec == Init /\ [][Next]_vars

-----------------------------------------------------------------------------
Request == [pc : {"idle", "open", "pruning", "pruned", "erasing"},
            user : Users \cup {NoUser}, at : Nat, left : 0..MaxBatch,
            own : SUBSET Row, doomed : SUBSET Row]

\* Every variable keeps its type.
TypeOK ==
  /\ rows \subseteq Row /\ recorded \subseteq Row /\ erased \subseteq Row
  /\ req \in [Requests -> Request]
  /\ \A t \in Requests : req[t].pc # "idle" => req[t].user \in Users
  /\ clock \in Nat
  /\ nextSeq \in Nat

\* How far "the newest Limit rows" can be missed: transactions in flight do
\* not see one another's rows, so each of them but the last to trim may leave
\* a whole batch above the limit, and never more than that.  With one request
\* at a time this is the exact limit (pruneToLimit).
CountBound ==
  \A u \in Users :
    Cardinality(RowsOf(rows, u)) <= Limit + (Cardinality(Requests) - 1) * MaxBatch

\* No interleaving of recordings loses a recent row: a row that left the
\* history without being deleted by its user has Limit newer rows of the same
\* user that were all committed (the DELETE of pruneToLimit judges by what it
\* sees, and all it sees is or becomes committed with it).
NewestKept ==
  \A r \in recorded \ (rows \cup erased) :
    Cardinality({s \in RowsOf(recorded, r.user) : Newer(s, r)}) >= Limit

\* The abstract history this implements, and the property that it does.
Feed == INSTANCE HistoryFeed WITH shown <- rows

ImplementsFeed == Feed!Spec
=============================================================================
