--------------------------- MODULE HistoryProofs ---------------------------
(***************************************************************************)
(* Proofs about the search history for any number of users, requests,      *)
(* batch sizes and any limit.                                              *)
(***************************************************************************)
EXTENDS History, FiniteSetTheorems, FunctionTheorems, TLAPS

-----------------------------------------------------------------------------
(* Pure lemmas: what the DELETE of pruneToLimit leaves of a set of rows.   *)

\* Rows are totally ordered by (searched_at, seq) when seq is unique.
LEMMA NewerTotal ==
  ASSUME NEW r \in Row, NEW s \in Row, r.seq # s.seq
  PROVE  Newer(r, s) \/ Newer(s, r)
BY DEF Row, Newer

LEMMA NewerTransitive ==
  ASSUME NEW r \in Row, NEW s \in Row, NEW x \in Row, Newer(r, s), Newer(s, x)
  PROVE  Newer(r, x)
BY DEF Row, Newer

\* At most Limit rows survive a trim: mapping a survivor to the number of
\* rows newer than it is an injection into 0..Limit-1.
LEMMA TrimLeavesLimit ==
  ASSUME NEW S \in SUBSET Row, IsFiniteSet(S),
         \A r, s \in S : r.seq = s.seq => r = s
  PROVE  Cardinality(S \ Expired(S)) <= Limit
<1> DEFINE U == S \ Expired(S)
           above(r) == {s \in S : Newer(s, r)}
           f == [r \in U |-> Cardinality(above(r))]
<1>0. Limit \in Nat \ {0}  BY HistoryAssumption
<1>1. \A r \in S : IsFiniteSet(above(r)) /\ Cardinality(above(r)) \in Nat
  <2>1. TAKE r \in S
  <2>2. IsFiniteSet(above(r))  BY FS_Subset
  <2>3. QED  BY <2>2, FS_CardinalityType
<1>2. f \in [U -> 0..(Limit - 1)]
  <2>1. SUFFICES ASSUME NEW r \in U PROVE Cardinality(above(r)) \in 0..(Limit - 1)
    OBVIOUS
  <2>2. ~(Cardinality(above(r)) >= Limit)  BY DEF Expired
  <2>3. QED  BY <1>0, <1>1, <2>2
<1>3. \A r, s \in U : Newer(r, s) => f[r] # f[s]
  <2>1. SUFFICES ASSUME NEW r \in U, NEW s \in U, Newer(r, s) PROVE f[r] # f[s]
    OBVIOUS
  <2>2. above(r) \subseteq above(s)
    BY <2>1, NewerTransitive
  <2>3. r \in above(s) /\ r \notin above(r)
    BY <2>1 DEF Newer, Row
  <2>4. Cardinality(above(r)) # Cardinality(above(s))
    BY <1>1, <2>2, <2>3, FS_Subset
  <2>5. QED  BY <2>4
<1>4. \A r, s \in U : f[r] = f[s] => r = s
  BY <1>3, NewerTotal
<1>5. f \in Injection(U, 0..(Limit - 1))
  BY <1>2, <1>4, Fun_IsInj
<1>6. IsFiniteSet(0..(Limit - 1)) /\ Cardinality(0..(Limit - 1)) = Limit
  BY <1>0, FS_Interval
<1>7. Cardinality(U) <= Cardinality(0..(Limit - 1))
  BY <1>5, <1>6, FS_Injection
<1>8. QED  BY <1>6, <1>7

\* The union of finitely many sets of at most K elements each.
LEMMA UnionBound ==
  ASSUME NEW P, IsFiniteSet(P), NEW K \in Nat, NEW g,
         \A p \in P : IsFiniteSet(g[p]) /\ Cardinality(g[p]) <= K
  PROVE  /\ IsFiniteSet(UNION {g[p] : p \in P})
         /\ Cardinality(UNION {g[p] : p \in P}) <= Cardinality(P) * K
<1> DEFINE T == UNION {g[p] : p \in P}
           card(p) == Cardinality(g[p])
           enum(p) == CHOOSE b : b \in Bijection(1..card(p), g[p])
           Cells == {c \in P \X (1..K) : c[2] <= card(c[1])}
           h == [c \in Cells |-> enum(c[1])[c[2]]]
<1>1. \A p \in P : card(p) \in Nat /\ enum(p) \in Bijection(1..card(p), g[p])
  <2>1. TAKE p \in P
  <2>2. card(p) \in Nat /\ ExistsBijection(1..card(p), g[p])
    BY FS_CardinalityType
  <2>3. QED  BY <2>2 DEF ExistsBijection
<1>2. \A p \in P, i \in 1..K : i <= card(p) => enum(p)[i] \in g[p]
  <2>1. TAKE p \in P, i \in 1..K
  <2>2. HAVE i <= card(p)
  <2>3. enum(p) \in [1..card(p) -> g[p]]
    <3> HIDE DEF enum, card
    <3>1. QED  BY <1>1, Fun_BijectionProperties
  <2>4. i \in 1..card(p)  BY <1>1, <2>2
  <2>5. QED  BY <2>3, <2>4
<1>3. h \in [Cells -> T]
  <2> HIDE DEF enum, card
  <2>1. \A c \in Cells : enum(c[1])[c[2]] \in T  BY <1>2
  <2>2. QED  BY <2>1
<1>4. \A y \in T : \E c \in Cells : h[c] = y
  <2>1. TAKE y \in T
  <2>2. PICK p \in P : y \in g[p]  OBVIOUS
  <2>3. PICK i \in 1..card(p) : enum(p)[i] = y
    <3> HIDE DEF enum, card
    <3>1. enum(p) \in Surjection(1..card(p), g[p])
      BY <1>1, Fun_BijectionProperties
    <3>2. \A x \in g[p] : \E i \in 1..card(p) : enum(p)[i] = x
      BY <3>1 DEF Surjection
    <3>3. QED  BY <2>2, <3>2
  <2>4. <<p, i>> \in Cells
    <3> HIDE DEF enum
    <3>1. card(p) <= K  OBVIOUS
    <3>2. card(p) \in Nat  BY <1>1
    <3> HIDE DEF card
    <3>3. i \in 1..K  BY <3>1, <3>2
    <3>4. QED  BY <3>3
  <2>5. h[<<p, i>>] = y
    <3> HIDE DEF enum, card, Cells
    <3>1. QED  BY <2>3, <2>4
  <2>6. QED  BY <2>4, <2>5
<1>5. h \in Surjection(Cells, T)
  <2> HIDE DEF h, Cells, T
  <2>1. QED  BY <1>3, <1>4, Fun_IsSurj
<1>6. IsFiniteSet(1..K) /\ Cardinality(1..K) = K
  BY FS_Interval
<1>7. IsFiniteSet(P \X (1..K)) /\ Cardinality(P \X (1..K)) = Cardinality(P) * K
  BY <1>6, FS_Product
<1>8. IsFiniteSet(Cells) /\ Cardinality(Cells) <= Cardinality(P) * K
  <2>1. Cells \in SUBSET (P \X (1..K))  OBVIOUS
  <2> HIDE DEF Cells
  <2>2. QED  BY <1>7, <2>1, FS_Subset
<1>9. IsFiniteSet(T) /\ Cardinality(T) <= Cardinality(Cells)
  <2> HIDE DEF h, Cells, T
  <2>1. QED  BY <1>5, <1>8, FS_Surjection
<1>10. /\ Cardinality(T) \in Nat /\ Cardinality(Cells) \in Nat
       /\ Cardinality(P) * K \in Nat
  <2> HIDE DEF Cells, T
  <2>1. Cardinality(P) \in Nat  BY FS_CardinalityType
  <2>2. QED  BY <1>8, <1>9, <2>1, FS_CardinalityType
<1>11. QED
  <2> HIDE DEF Cells, T, h
  <2>1. Cardinality(T) <= Cardinality(P) * K  BY <1>8, <1>9, <1>10
  <2>2. QED  BY <1>9, <2>1 DEF T

-----------------------------------------------------------------------------
(* The inductive invariant.                                                *)

\* The requests of u whose DELETE has taken its snapshot and that may commit.
Trimming(u) ==
  {t \in Requests : req[t].pc \in {"pruning", "pruned"} /\ req[t].user = u}

OwnOf(P) == UNION {req[t].own : t \in P}
DoomedOf(P) == UNION {req[t].doomed : t \in P}

\* The history of u once exactly the requests of P have committed.
After(u, P) == (RowsOf(rows, u) \cup OwnOf(P)) \ DoomedOf(P)

Slack == (Cardinality(Requests) - 1) * MaxBatch

\* Whichever of the trimming requests commit, the bound holds.
BoundInv ==
  \A u \in Users : \A P \in SUBSET Trimming(u) :
    Cardinality(After(u, P)) <= Limit + Slack

\* seq identifies a row; uncommitted rows belong to one request only.
IdentityInv ==
  /\ \A x \in recorded : x.seq < nextSeq
  /\ \A x, y \in recorded : x.seq = y.seq => x = y
  /\ \A t \in Requests : \A x \in req[t].own :
       /\ x.seq < nextSeq
       /\ x.user = req[t].user
       /\ \A y \in recorded : x.seq # y.seq
       /\ \A o \in Requests : \A y \in req[o].own :
            x.seq = y.seq => (t = o /\ x = y)

FiniteInv ==
  /\ IsFiniteSet(rows)
  /\ \A t \in Requests :
       /\ IsFiniteSet(req[t].own)
       /\ Cardinality(req[t].own) + req[t].left <= MaxBatch

\* What is on show was recorded; a DELETE dooms what it saw; only an open
\* recording holds rows.
VisibleInv ==
  /\ rows \subseteq recorded
  /\ \A t \in Requests :
       /\ req[t].doomed \subseteq recorded \cup req[t].own
       /\ req[t].pc \in {"idle", "erasing"} => req[t].own = {}

-----------------------------------------------------------------------------
(* Types.                                                                  *)

LEMMA TypeInit == Init => TypeOK
BY HistoryAssumption DEF Init, TypeOK, Request, Idle

LEMMA ExpiredSubset == ASSUME NEW S PROVE Expired(S) \subseteq S
BY DEF Expired

LEMMA TypeStep == TypeOK /\ [Next]_vars => TypeOK'
<1> SUFFICES ASSUME TypeOK, [Next]_vars PROVE TypeOK'
  OBVIOUS
<1> USE HistoryAssumption DEF TypeOK, Request, Idle, Recording, Erasing
<1>1. ASSUME NEW t \in Requests, NEW u \in Users, NEW n \in Batches, Begin(t, u, n)
      PROVE  TypeOK'
  <2>1. clock' \in Nat  BY <1>1 DEF Begin
  <2>2. Recording(u, clock', n) \in Request  BY <2>1
  <2>3. QED  BY <1>1, <2>1, <2>2 DEF Begin
<1>2. ASSUME NEW t \in Requests, Insert(t)
      PROVE  TypeOK'
  <2> DEFINE row == [user |-> req[t].user, at |-> req[t].at, seq |-> nextSeq]
             next == [req[t] EXCEPT !.left = req[t].left - 1,
                                    !.own = req[t].own \cup {row}]
  <2>1. req[t].left \in 0..MaxBatch /\ req[t].left - 1 \in 0..MaxBatch
    BY <1>2 DEF Insert
  <2>2. row \in Row  BY <1>2 DEF Insert, Row
  <2>3. next \in Request /\ next.pc = "open" /\ next.user \in Users
    BY <1>2, <2>1, <2>2 DEF Insert
  <2>4. req' = [req EXCEPT ![t] = next]  BY <1>2 DEF Insert
  <2> HIDE DEF next
  <2>5. req' \in [Requests -> Request]  BY <2>3, <2>4 DEF TypeOK
  <2>6. \A o \in Requests : req'[o].pc # "idle" => req'[o].user \in Users
    BY <2>3, <2>4
  <2>7. nextSeq' \in Nat  BY <1>2 DEF Insert
  <2>8. QED  BY <1>2, <2>5, <2>6, <2>7 DEF Insert
<1>3. ASSUME NEW t \in Requests, Prune(t)
      PROVE  TypeOK'
  <2>1. Expired(RowsOf(rows, req[t].user) \cup req[t].own) \subseteq Row
    BY ExpiredSubset DEF RowsOf
  <2> DEFINE next == [req[t] EXCEPT !.pc = "pruning",
                !.doomed = Expired(RowsOf(rows, req[t].user) \cup req[t].own)]
  <2>2. next \in Request /\ next.user \in Users
    BY <1>3, <2>1 DEF Prune
  <2>3. req' = [req EXCEPT ![t] = next]  BY <1>3 DEF Prune
  <2> HIDE DEF next
  <2>4. req' \in [Requests -> Request]  BY <2>2, <2>3
  <2>5. \A o \in Requests : req'[o].pc # "idle" => req'[o].user \in Users
    BY <2>2, <2>3
  <2>6. QED  BY <1>3, <2>4, <2>5 DEF Prune
<1>4. ASSUME NEW t \in Requests, PruneDone(t)
      PROVE  TypeOK'
  BY <1>4 DEF PruneDone
<1>5. ASSUME NEW t \in Requests, Commit(t)
      PROVE  TypeOK'
  BY <1>5 DEF Commit
<1>6. ASSUME NEW t \in Requests, Rollback(t)
      PROVE  TypeOK'
  BY <1>6 DEF Rollback
<1>7. ASSUME NEW t \in Requests, NEW u \in Users, NEW r \in rows, CheckOwner(t, u, r)
      PROVE  TypeOK'
  BY <1>7 DEF CheckOwner
<1>8. ASSUME NEW t \in Requests, NEW u \in Users, DeleteAll(t, u)
      PROVE  TypeOK'
  BY <1>8 DEF DeleteAll, RowsOf
<1>9. ASSUME NEW t \in Requests, Erase(t)
      PROVE  TypeOK'
  BY <1>9 DEF Erase
<1>10. CASE UNCHANGED vars
  BY <1>10 DEF vars
<1>11. QED
  BY <1>1, <1>2, <1>3, <1>4, <1>5, <1>6, <1>7, <1>8, <1>9, <1>10 DEF Next

\* Type correctness of the search history.
THEOREM HistoryTypeOK == Spec => []TypeOK
BY TypeInit, TypeStep, PTL DEF Spec

-----------------------------------------------------------------------------
(* Identity of rows, finiteness and visibility.                            *)

Support == TypeOK /\ IdentityInv /\ FiniteInv /\ VisibleInv

LEMMA SupportInit == Init => Support
<1> SUFFICES ASSUME Init PROVE Support
  OBVIOUS
<1>1. \A t \in Requests : req[t] = Idle  BY DEF Init
<1>2. IsFiniteSet({}) /\ Cardinality({}) = 0  BY FS_EmptySet
<1>3. IdentityInv  BY <1>1 DEF Init, Idle, IdentityInv
<1>4. FiniteInv
  BY <1>1, <1>2, HistoryAssumption DEF Init, Idle, FiniteInv
<1>5. VisibleInv  BY <1>1 DEF Init, Idle, VisibleInv
<1>6. QED  BY <1>3, <1>4, <1>5, TypeInit DEF Support

\* A step that commits nothing and inserts nothing: requests keep their rows
\* or drop them, and a DELETE's snapshot is of what is recorded or its own.
LEMMA QuietStep ==
  ASSUME Support, TypeOK', recorded' = recorded, nextSeq' = nextSeq,
         rows' \subseteq rows,
         \A o \in Requests :
           /\ \/ req'[o].own = {}
              \/ /\ req'[o].own = req[o].own
                 /\ req'[o].user = req[o].user /\ req'[o].left = req[o].left
                 /\ req'[o].pc \in {"idle", "erasing"} => req[o].pc \in {"idle", "erasing"}
           /\ req'[o].doomed \subseteq recorded \cup req'[o].own
  PROVE  Support'
<1> USE DEF Support
<1>1. IdentityInv'  BY DEF IdentityInv
<1>2. FiniteInv'
  <2>1. IsFiniteSet(rows')  BY FS_Subset DEF FiniteInv
  <2>2. ASSUME NEW o \in Requests
        PROVE  /\ IsFiniteSet(req'[o].own)
               /\ Cardinality(req'[o].own) + req'[o].left <= MaxBatch
    <3>1. CASE req'[o].own = {}
      <4>1. req'[o].left \in 0..MaxBatch  BY DEF TypeOK, Request
      <4>2. IsFiniteSet({}) /\ Cardinality({}) = 0  BY FS_EmptySet
      <4>3. QED  BY <3>1, <4>1, <4>2, HistoryAssumption
    <3>2. CASE req'[o].own = req[o].own /\ req'[o].left = req[o].left
      BY <3>2 DEF FiniteInv
    <3>3. QED  BY <3>1, <3>2
  <2>3. QED  BY <2>1, <2>2 DEF FiniteInv
<1>3. VisibleInv'  BY DEF VisibleInv
<1>4. QED  BY <1>1, <1>2, <1>3

LEMMA InsertSupport ==
  ASSUME Support, TypeOK', NEW t \in Requests, Insert(t)
  PROVE  Support'
<1> USE DEF Support
<1> DEFINE row == [user |-> req[t].user, at |-> req[t].at, seq |-> nextSeq]
<1>1. /\ req'[t].own = req[t].own \cup {row}
      /\ req'[t].left = req[t].left - 1
      /\ req'[t].user = req[t].user /\ req'[t].doomed = req[t].doomed
      /\ req'[t].pc = "open" /\ req[t].left > 0
  BY DEF Insert, TypeOK, Request
<1>2. \A o \in Requests \ {t} : req'[o] = req[o]
  BY DEF Insert, TypeOK
<1>3. /\ rows' = rows /\ recorded' = recorded
      /\ nextSeq' = nextSeq + 1 /\ nextSeq \in Nat
  BY DEF Insert, TypeOK
<1>4. row.seq = nextSeq /\ row.user = req[t].user  OBVIOUS
<1>5. \A x \in recorded : x.seq \in Nat  BY DEF TypeOK, Row
<1>6. \A o \in Requests : \A x \in req[o].own : x.seq \in Nat
  BY DEF TypeOK, Request, Row
<1> HIDE DEF row
<1>7. IdentityInv'
  <2>1. \A x \in recorded' : x.seq < nextSeq'
    BY <1>3, <1>5 DEF IdentityInv
  <2>2. \A x, y \in recorded' : x.seq = y.seq => x = y
    BY <1>3 DEF IdentityInv
  <2>3. ASSUME NEW o \in Requests, NEW x \in req'[o].own
        PROVE  /\ x.seq < nextSeq' /\ x.user = req'[o].user
               /\ \A y \in recorded' : x.seq # y.seq
    <3>1. CASE o = t /\ x = row
      BY <3>1, <1>1, <1>3, <1>4, <1>5 DEF IdentityInv
    <3>2. CASE x \in req[o].own
      <4>1. x.seq < nextSeq /\ x.user = req[o].user /\ \A y \in recorded : x.seq # y.seq
        BY <3>2 DEF IdentityInv
      <4>2. req'[o].user = req[o].user  BY <1>1, <1>2
      <4>3. QED  BY <3>2, <4>1, <4>2, <1>3, <1>6
    <3>3. QED  BY <3>1, <3>2, <1>1, <1>2
  <2>4. ASSUME NEW o \in Requests, NEW x \in req'[o].own,
               NEW p \in Requests, NEW y \in req'[p].own, x.seq = y.seq
        PROVE  o = p /\ x = y
    <3>1. \A q \in Requests : \A z \in req'[q].own :
             z \in req[q].own \/ (q = t /\ z = row)
      BY <1>1, <1>2
    <3>2. \A q \in Requests : \A z \in req[q].own : z.seq # nextSeq
      BY <1>3, <1>6 DEF IdentityInv
    <3>3. CASE x \in req[o].own /\ y \in req[p].own
      BY <3>3, <2>4 DEF IdentityInv
    <3>4. CASE x = row /\ o = t /\ y = row /\ p = t
      BY <3>4
    <3>5. QED  BY <3>1, <3>2, <3>3, <3>4, <2>4, <1>4
  <2>5. QED  BY <2>1, <2>2, <2>3, <2>4 DEF IdentityInv
<1>8. FiniteInv'
  <2>1. IsFiniteSet(rows')  BY <1>3 DEF FiniteInv
  <2>2. IsFiniteSet(req'[t].own) /\ Cardinality(req'[t].own) + req'[t].left <= MaxBatch
    <3>1. IsFiniteSet(req[t].own) /\ Cardinality(req[t].own) + req[t].left <= MaxBatch
      BY DEF FiniteInv
    <3>2. Cardinality(req[t].own) \in Nat  BY <3>1, FS_CardinalityType
    <3>3. /\ IsFiniteSet(req'[t].own)
          /\ \/ Cardinality(req'[t].own) = Cardinality(req[t].own)
             \/ Cardinality(req'[t].own) = Cardinality(req[t].own) + 1
      BY <1>1, <3>1, FS_AddElement
    <3>4. req[t].left \in Nat  BY HistoryAssumption DEF TypeOK, Request
    <3>5. QED  BY <1>1, <3>1, <3>2, <3>3, <3>4, HistoryAssumption
  <2>3. QED  BY <1>2, <2>1, <2>2 DEF FiniteInv
<1>9. VisibleInv'
  BY <1>1, <1>2, <1>3 DEF VisibleInv
<1>10. QED  BY <1>7, <1>8, <1>9

LEMMA CommitSupport ==
  ASSUME Support, TypeOK', NEW t \in Requests, Commit(t)
  PROVE  Support'
<1> USE DEF Support
<1>1. req'[t] = Idle /\ \A o \in Requests \ {t} : req'[o] = req[o]
  BY DEF Commit, TypeOK
<1>2. /\ rows' = (rows \cup req[t].own) \ req[t].doomed
      /\ recorded' = recorded \cup req[t].own
      /\ nextSeq' = nextSeq
  BY DEF Commit
<1>3. Idle.own = {} /\ Idle.doomed = {} /\ Idle.left = 0 /\ Idle.pc = "idle"
  BY DEF Idle
<1>4. IdentityInv'
  <2>1. \A x \in recorded' : x.seq < nextSeq'
    BY <1>2 DEF IdentityInv
  <2>2. \A x, y \in recorded' : x.seq = y.seq => x = y
    BY <1>2 DEF IdentityInv
  <2>3. ASSUME NEW o \in Requests, NEW x \in req'[o].own
        PROVE  /\ x.seq < nextSeq' /\ x.user = req'[o].user
               /\ \A y \in recorded' : x.seq # y.seq
               /\ \A p \in Requests : \A y \in req'[p].own :
                    x.seq = y.seq => (o = p /\ x = y)
    <3>1. o # t /\ x \in req[o].own /\ req'[o].user = req[o].user
      BY <1>1, <1>3
    <3>2. \A y \in req[t].own : x.seq # y.seq  BY <3>1 DEF IdentityInv
    <3>3. \A p \in Requests : \A y \in req'[p].own : y \in req[p].own
      BY <1>1, <1>3
    <3>4. QED  BY <3>1, <3>2, <3>3, <1>2 DEF IdentityInv
  <2>4. QED  BY <2>1, <2>2, <2>3 DEF IdentityInv
<1>5. FiniteInv'
  <2>1. IsFiniteSet(rows')
    BY <1>2, FS_Union, FS_Difference DEF FiniteInv
  <2>2. IsFiniteSet({}) /\ Cardinality({}) = 0  BY FS_EmptySet
  <2>3. QED
    BY <1>1, <1>3, <2>1, <2>2, HistoryAssumption DEF FiniteInv
<1>6. VisibleInv'
  BY <1>1, <1>2, <1>3 DEF VisibleInv
<1>7. QED  BY <1>4, <1>5, <1>6

LEMMA SupportStep == Support /\ [Next]_vars => Support'
<1> SUFFICES ASSUME Support, [Next]_vars PROVE Support'
  OBVIOUS
<1>0. TypeOK /\ TypeOK'  BY TypeStep DEF Support
<1> USE <1>0
<1>1. ASSUME NEW t \in Requests, NEW u \in Users, NEW n \in Batches, Begin(t, u, n)
      PROVE  Support'
  <2>1. \A o \in Requests : req'[o] = IF o = t THEN Recording(u, clock', n) ELSE req[o]
    BY <1>1 DEF Begin, TypeOK
  <2>2. QED
    BY <1>1, <2>1, QuietStep DEF Begin, Recording, Support, VisibleInv
<1>2. ASSUME NEW t \in Requests, Insert(t)
      PROVE  Support'
  BY <1>2, InsertSupport
<1>3. ASSUME NEW t \in Requests, Prune(t)
      PROVE  Support'
  <2> DEFINE D == Expired(RowsOf(rows, req[t].user) \cup req[t].own)
  <2>1. D \subseteq recorded \cup req[t].own
    BY ExpiredSubset DEF RowsOf, Support, VisibleInv
  <2>2. \A o \in Requests :
          /\ req'[o].own = req[o].own /\ req'[o].user = req[o].user
          /\ req'[o].left = req[o].left
          /\ req'[o].pc \in {"idle", "erasing"} => req[o].pc \in {"idle", "erasing"}
          /\ req'[o].doomed = IF o = t THEN D ELSE req[o].doomed
    BY <1>3 DEF Prune, TypeOK, Request
  <2> HIDE DEF D
  <2>3. \A o \in Requests : req'[o].doomed \subseteq recorded \cup req'[o].own
    BY <2>1, <2>2 DEF Support, VisibleInv
  <2>4. rows' = rows /\ recorded' = recorded /\ nextSeq' = nextSeq
    BY <1>3 DEF Prune
  <2>5. QED
    BY <2>2, <2>3, <2>4, QuietStep
<1>4. ASSUME NEW t \in Requests, PruneDone(t)
      PROVE  Support'
  <2>1. \A o \in Requests :
          /\ req'[o].own = req[o].own /\ req'[o].user = req[o].user
          /\ req'[o].left = req[o].left /\ req'[o].doomed = req[o].doomed
          /\ req'[o].pc \in {"idle", "erasing"} => req[o].pc \in {"idle", "erasing"}
    BY <1>4 DEF PruneDone, TypeOK, Request
  <2>2. QED
    BY <1>4, <2>1, QuietStep DEF PruneDone, Support, VisibleInv
<1>5. ASSUME NEW t \in Requests, Commit(t)
      PROVE  Support'
  BY <1>5, CommitSupport
<1>6. ASSUME NEW t \in Requests, Rollback(t)
      PROVE  Support'
  <2>1. \A o \in Requests : req'[o] = IF o = t THEN Idle ELSE req[o]
    BY <1>6 DEF Rollback, TypeOK
  <2>2. QED
    BY <1>6, <2>1, QuietStep DEF Rollback, Idle, Support, VisibleInv
<1>7. ASSUME NEW t \in Requests, NEW u \in Users, NEW r \in rows, CheckOwner(t, u, r)
      PROVE  Support'
  <2>1. \A o \in Requests : req'[o] = IF o = t THEN Erasing(u, {r}) ELSE req[o]
    BY <1>7 DEF CheckOwner, TypeOK
  <2>2. QED
    BY <1>7, <2>1, QuietStep DEF CheckOwner, Erasing, Support, VisibleInv
<1>8. ASSUME NEW t \in Requests, NEW u \in Users, DeleteAll(t, u)
      PROVE  Support'
  <2>1. \A o \in Requests :
          req'[o] = IF o = t THEN Erasing(u, RowsOf(rows, u)) ELSE req[o]
    BY <1>8 DEF DeleteAll, TypeOK
  <2>2. QED
    BY <1>8, <2>1, QuietStep DEF DeleteAll, Erasing, RowsOf, Support, VisibleInv
<1>9. ASSUME NEW t \in Requests, Erase(t)
      PROVE  Support'
  <2>1. \A o \in Requests : req'[o] = IF o = t THEN Idle ELSE req[o]
    BY <1>9 DEF Erase, TypeOK
  <2>2. QED
    BY <1>9, <2>1, QuietStep DEF Erase, Idle, Support, VisibleInv
<1>10. CASE UNCHANGED vars
  BY <1>10, QuietStep DEF vars, Support, VisibleInv
<1>11. QED
  BY <1>1, <1>2, <1>3, <1>4, <1>5, <1>6, <1>7, <1>8, <1>9, <1>10 DEF Next

-----------------------------------------------------------------------------
(* The bound.                                                              *)

LEMMA Arithmetic ==
  /\ Slack \in Nat
  /\ \A p \in Nat : p <= Cardinality(Requests) - 1 => p * MaxBatch <= Slack
<1>1. Cardinality(Requests) \in Nat \ {0}
  BY HistoryAssumption, FS_CardinalityType, FS_EmptySet
<1>2. \A a, b, k \in Nat : a <= b => a * k <= b * k
  OBVIOUS
<1>3. Cardinality(Requests) - 1 \in Nat  BY <1>1
<1>4. Slack \in Nat  BY <1>3, HistoryAssumption DEF Slack
<1>5. QED  BY <1>2, <1>3, <1>4, HistoryAssumption DEF Slack

\* The rows of p requests in flight are at most p batches.
LEMMA OwnBound ==
  ASSUME Support, NEW P \in SUBSET Requests
  PROVE  /\ IsFiniteSet(OwnOf(P)) /\ Cardinality(OwnOf(P)) \in Nat
         /\ Cardinality(P) \in Nat
         /\ Cardinality(OwnOf(P)) <= Cardinality(P) * MaxBatch
<1> DEFINE g == [t \in P |-> req[t].own]
<1>1. IsFiniteSet(P) /\ Cardinality(P) \in Nat
  BY HistoryAssumption, FS_Subset, FS_CardinalityType
<1>2. \A t \in P : IsFiniteSet(g[t]) /\ Cardinality(g[t]) <= MaxBatch
  <2>1. TAKE t \in P
  <2>2. IsFiniteSet(req[t].own) /\ Cardinality(req[t].own) + req[t].left <= MaxBatch
    BY DEF Support, FiniteInv
  <2>3. req[t].left \in Nat /\ Cardinality(req[t].own) \in Nat
    BY <2>2, FS_CardinalityType, HistoryAssumption DEF Support, TypeOK, Request
  <2>4. QED  BY <2>2, <2>3, HistoryAssumption
<1>3. OwnOf(P) = UNION {g[t] : t \in P}  BY DEF OwnOf
<1>4. MaxBatch \in Nat  BY HistoryAssumption
<1> HIDE DEF g
<1>5. /\ IsFiniteSet(UNION {g[t] : t \in P})
      /\ Cardinality(UNION {g[t] : t \in P}) <= Cardinality(P) * MaxBatch
  BY <1>1, <1>2, <1>4, UnionBound
<1>6. QED  BY <1>1, <1>3, <1>5, FS_CardinalityType

LEMMA AfterFinite ==
  ASSUME Support, NEW u \in Users, NEW P \in SUBSET Requests
  PROVE  IsFiniteSet(After(u, P)) /\ Cardinality(After(u, P)) \in Nat
<1>1. IsFiniteSet(RowsOf(rows, u))
  BY FS_Subset DEF RowsOf, Support, FiniteInv
<1>2. IsFiniteSet(RowsOf(rows, u) \cup OwnOf(P))
  BY <1>1, OwnBound, FS_Union
<1>3. QED  BY <1>2, FS_Difference, FS_CardinalityType DEF After

\* A step after which fewer requests trim, with the same rows and snapshots.
LEMMA ShrinkStep ==
  ASSUME Support, BoundInv, rows' \subseteq rows,
         \A o \in Requests :
           req'[o].pc \in {"pruning", "pruned"} =>
             /\ req[o].pc \in {"pruning", "pruned"}
             /\ req'[o].user = req[o].user
             /\ req'[o].own = req[o].own /\ req'[o].doomed = req[o].doomed
  PROVE  BoundInv'
<1> SUFFICES ASSUME NEW u \in Users, NEW P \in SUBSET Trimming(u)'
             PROVE  Cardinality(After(u, P)') <= Limit + Slack
  BY DEF BoundInv, Slack
<1>1. P \in SUBSET Trimming(u) /\ P \in SUBSET Requests
  BY DEF Trimming
<1>2. After(u, P)' \subseteq After(u, P)
  BY DEF After, OwnOf, DoomedOf, RowsOf, Trimming
<1>3. Cardinality(After(u, P)) <= Limit + Slack  BY <1>1 DEF BoundInv
<1>4. IsFiniteSet(After(u, P)) /\ Cardinality(After(u, P)) \in Nat
  BY <1>1, AfterFinite
<1>5. Cardinality(After(u, P)') <= Cardinality(After(u, P)) /\ Cardinality(After(u, P)') \in Nat
  BY <1>2, <1>4, FS_Subset, FS_CardinalityType
<1>6. QED  BY <1>3, <1>4, <1>5, Arithmetic, HistoryAssumption

LEMMA PruneStep ==
  ASSUME Support, BoundInv, NEW t \in Requests, Prune(t)
  PROVE  BoundInv'
<1> SUFFICES ASSUME NEW u \in Users, NEW P \in SUBSET Trimming(u)'
             PROVE  Cardinality(After(u, P)') <= Limit + Slack
  BY DEF BoundInv, Slack
<1> USE DEF Support
<1> DEFINE V == RowsOf(rows, req[t].user) \cup req[t].own
<1>1. /\ \A o \in Requests : req'[o].own = req[o].own /\ req'[o].user = req[o].user
      /\ \A o \in Requests \ {t} : req'[o] = req[o]
      /\ req'[t].doomed = Expired(V)
      /\ rows' = rows
  BY DEF Prune, TypeOK, Request
<1>2. P \in SUBSET Requests  BY DEF Trimming
<1> HIDE DEF V
<1>3. CASE t \notin P
  <2>1. P \in SUBSET Trimming(u)
    BY <1>1, <1>3 DEF Trimming
  <2>2. After(u, P)' = After(u, P)
    BY <1>1, <1>2, <1>3 DEF After, OwnOf, DoomedOf, RowsOf
  <2>3. QED  BY <2>1, <2>2 DEF BoundInv
<1>4. CASE t \in P
  <2> DEFINE Q == P \ {t}
             Kept == V \ Expired(V)
  <2>1. u = req[t].user  BY <1>1, <1>4 DEF Trimming
  <2>2. /\ V \in SUBSET Row /\ IsFiniteSet(V)
        /\ \A x, y \in V : x.seq = y.seq => x = y
    <3>1. RowsOf(rows, u) \subseteq recorded /\ RowsOf(rows, u) \subseteq rows
      BY DEF RowsOf, VisibleInv
    <3>2. IsFiniteSet(RowsOf(rows, u)) /\ IsFiniteSet(req[t].own)
      BY <3>1, FS_Subset DEF FiniteInv
    <3>3. IsFiniteSet(V)  BY <2>1, <3>2, FS_Union DEF V
    <3>4. V \in SUBSET Row  BY DEF V, RowsOf, TypeOK, Request
    <3>5. \A x, y \in V : x.seq = y.seq => x = y
      BY <2>1, <3>1 DEF V, IdentityInv
    <3>6. QED  BY <3>3, <3>4, <3>5
  <2>3. Cardinality(Kept) <= Limit  BY <2>2, TrimLeavesLimit
  <2>4. IsFiniteSet(Kept) /\ Cardinality(Kept) \in Nat
    BY <2>2, FS_Difference, FS_CardinalityType
  <2>5. /\ Q \in SUBSET Requests
        /\ Cardinality(Q) <= Cardinality(Requests) - 1
    <3>1. Q \in SUBSET (Requests \ {t})  BY <1>2
    <3>2. /\ IsFiniteSet(Requests \ {t})
          /\ Cardinality(Requests \ {t}) = Cardinality(Requests) - 1
      BY HistoryAssumption, FS_RemoveElement
    <3>3. QED  BY <3>1, <3>2, FS_Subset
  <2>6. /\ IsFiniteSet(OwnOf(Q)) /\ Cardinality(OwnOf(Q)) \in Nat
        /\ Cardinality(Q) \in Nat
        /\ Cardinality(OwnOf(Q)) <= Cardinality(Q) * MaxBatch
    BY <2>5, OwnBound
  <2>7. Cardinality(OwnOf(Q)) <= Slack
    <3>1. Cardinality(Q) * MaxBatch <= Slack  BY <2>5, <2>6, Arithmetic
    <3>2. Cardinality(Q) * MaxBatch \in Nat  BY <2>6, HistoryAssumption
    <3>3. QED  BY <2>6, <3>1, <3>2, Arithmetic
  <2>8. After(u, P)' \subseteq Kept \cup OwnOf(Q)
    <3>1. SUFFICES ASSUME NEW x, x \in After(u, P)'
                   PROVE  x \in Kept \cup OwnOf(Q)
      OBVIOUS
    <3>2. x \notin Expired(V)  BY <1>1, <1>4, <3>1 DEF After, DoomedOf
    <3>3. x \in RowsOf(rows, u) \/ \E o \in P : x \in req[o].own
      BY <1>1, <1>2, <3>1 DEF After, OwnOf, RowsOf
    <3>4. CASE x \in V  BY <3>2, <3>4
    <3>5. CASE x \notin V
      <4>1. PICK o \in P : x \in req[o].own  BY <2>1, <3>3, <3>5 DEF V
      <4>2. o # t  BY <3>5, <4>1 DEF V
      <4>3. QED  BY <4>1, <4>2 DEF OwnOf
    <3>6. QED  BY <3>4, <3>5
  <2> HIDE DEF Kept, Q
  <2>9. /\ IsFiniteSet(Kept \cup OwnOf(Q))
        /\ Cardinality(Kept \cup OwnOf(Q)) <= Cardinality(Kept) + Cardinality(OwnOf(Q))
        /\ Cardinality(Kept \cup OwnOf(Q)) \in Nat
    <3>1. IsFiniteSet(Kept \cap OwnOf(Q)) /\ Cardinality(Kept \cap OwnOf(Q)) \in Nat
      BY <2>4, FS_Intersection, FS_CardinalityType
    <3>2. /\ IsFiniteSet(Kept \cup OwnOf(Q))
          /\ Cardinality(Kept \cup OwnOf(Q))
               = Cardinality(Kept) + Cardinality(OwnOf(Q)) - Cardinality(Kept \cap OwnOf(Q))
      BY <2>4, <2>6, FS_Union
    <3>3. QED  BY <2>4, <2>6, <3>1, <3>2, FS_CardinalityType
  <2>10. Cardinality(After(u, P)') \in Nat
         /\ Cardinality(After(u, P)') <= Cardinality(Kept \cup OwnOf(Q))
    BY <2>8, <2>9, FS_Subset, FS_CardinalityType
  <2>11. QED
    BY <2>3, <2>4, <2>6, <2>7, <2>9, <2>10, Arithmetic, HistoryAssumption
<1>5. QED  BY <1>3, <1>4

LEMMA CommitStep ==
  ASSUME Support, BoundInv, NEW t \in Requests, Commit(t)
  PROVE  BoundInv'
<1> SUFFICES ASSUME NEW u \in Users, NEW P \in SUBSET Trimming(u)'
             PROVE  Cardinality(After(u, P)') <= Limit + Slack
  BY DEF BoundInv, Slack
<1> USE DEF Support
<1>1. /\ req'[t] = Idle
      /\ \A o \in Requests \ {t} : req'[o] = req[o]
      /\ rows' = (rows \cup req[t].own) \ req[t].doomed
      /\ req[t].pc = "pruned"
  BY DEF Commit, TypeOK
<1>2. t \notin P /\ P \in SUBSET Requests /\ P \in SUBSET Trimming(u)
  BY <1>1 DEF Trimming, Idle
<1>3. \A o \in P : req[o].own \cap req[t].doomed = {}
  <2>1. TAKE o \in P
  <2>2. req[t].doomed \subseteq recorded \cup req[t].own  BY DEF VisibleInv
  <2>3. \A x \in req[o].own : x \notin recorded /\ x \notin req[t].own
    BY <1>2 DEF IdentityInv
  <2>4. QED  BY <2>2, <2>3
<1>4. \A x \in req[t].own : x.user = req[t].user  BY DEF IdentityInv
<1>5. \E Q \in SUBSET Trimming(u) : After(u, P)' \subseteq After(u, Q)
  <2>1. CASE u = req[t].user
    <3>1. P \cup {t} \in SUBSET Trimming(u)
      BY <1>1, <1>2, <2>1 DEF Trimming
    <3>2. After(u, P)' \subseteq After(u, P \cup {t})
      BY <1>1, <1>2, <1>3, <1>4, <2>1 DEF After, OwnOf, DoomedOf, RowsOf
    <3>3. QED  BY <3>1, <3>2
  <2>2. CASE u # req[t].user
    <3>1. After(u, P)' \subseteq After(u, P)
      BY <1>1, <1>2, <1>4, <2>2 DEF After, OwnOf, DoomedOf, RowsOf
    <3>2. QED  BY <1>2, <3>1
  <2>3. QED  BY <2>1, <2>2
<1>6. PICK Q \in SUBSET Trimming(u) : After(u, P)' \subseteq After(u, Q)
  BY <1>5
<1>7. Q \in SUBSET Requests  BY DEF Trimming
<1>8. Cardinality(After(u, Q)) <= Limit + Slack  BY DEF BoundInv
<1>9. IsFiniteSet(After(u, Q)) /\ Cardinality(After(u, Q)) \in Nat
  BY <1>7, AfterFinite
<1>10. Cardinality(After(u, P)') \in Nat
       /\ Cardinality(After(u, P)') <= Cardinality(After(u, Q))
  BY <1>6, <1>9, FS_Subset, FS_CardinalityType
<1>11. QED  BY <1>8, <1>9, <1>10, Arithmetic, HistoryAssumption

LEMMA InvInit == Init => Support /\ BoundInv
<1> SUFFICES ASSUME Init PROVE Support /\ BoundInv
  OBVIOUS
<1>1. \A u \in Users : \A P \in SUBSET Trimming(u) : After(u, P) = {}
  BY DEF Init, Idle, Trimming, After, RowsOf, OwnOf, DoomedOf
<1>2. Cardinality({}) = 0  BY FS_EmptySet
<1>3. BoundInv
  BY <1>1, <1>2, Arithmetic, HistoryAssumption DEF BoundInv
<1>4. QED  BY <1>3, SupportInit

LEMMA BoundStep == Support /\ BoundInv /\ [Next]_vars => BoundInv'
<1> SUFFICES ASSUME Support, BoundInv, [Next]_vars PROVE BoundInv'
  OBVIOUS
<1>1. TypeOK  BY DEF Support
<1>2. ASSUME NEW t \in Requests, NEW u \in Users, NEW n \in Batches, Begin(t, u, n)
      PROVE  BoundInv'
  BY <1>1, <1>2, ShrinkStep DEF Begin, Recording, TypeOK
<1>3. ASSUME NEW t \in Requests, Insert(t)
      PROVE  BoundInv'
  BY <1>1, <1>3, ShrinkStep DEF Insert, TypeOK, Request
<1>4. ASSUME NEW t \in Requests, Prune(t)
      PROVE  BoundInv'
  BY <1>4, PruneStep
<1>5. ASSUME NEW t \in Requests, PruneDone(t)
      PROVE  BoundInv'
  BY <1>1, <1>5, ShrinkStep DEF PruneDone, TypeOK, Request
<1>6. ASSUME NEW t \in Requests, Commit(t)
      PROVE  BoundInv'
  BY <1>6, CommitStep
<1>7. ASSUME NEW t \in Requests, Rollback(t)
      PROVE  BoundInv'
  BY <1>1, <1>7, ShrinkStep DEF Rollback, Idle, TypeOK
<1>8. ASSUME NEW t \in Requests, NEW u \in Users, NEW r \in rows, CheckOwner(t, u, r)
      PROVE  BoundInv'
  BY <1>1, <1>8, ShrinkStep DEF CheckOwner, Erasing, TypeOK
<1>9. ASSUME NEW t \in Requests, NEW u \in Users, DeleteAll(t, u)
      PROVE  BoundInv'
  BY <1>1, <1>9, ShrinkStep DEF DeleteAll, Erasing, TypeOK
<1>10. ASSUME NEW t \in Requests, Erase(t)
      PROVE  BoundInv'
  BY <1>1, <1>10, ShrinkStep DEF Erase, Idle, TypeOK
<1>11. CASE UNCHANGED vars
  BY <1>11, ShrinkStep DEF vars
<1>12. QED
  BY <1>2, <1>3, <1>4, <1>5, <1>6, <1>7, <1>8, <1>9, <1>10, <1>11 DEF Next

\* The overshoot of the history limit is bounded: with N requests in flight a
\* user never has more than Limit + (N - 1) * MaxBatch rows, whatever the
\* interleaving of their transactions (pruneToLimit under READ COMMITTED).
THEOREM HistoryCountBound == Spec => []CountBound
<1>1. Support /\ BoundInv => CountBound
  <2> SUFFICES ASSUME BoundInv, NEW u \in Users
               PROVE  Cardinality(RowsOf(rows, u)) <= Limit + Slack
    BY DEF CountBound, Slack
  <2>1. After(u, {}) = RowsOf(rows, u)
    BY DEF After, OwnOf, DoomedOf
  <2>2. QED  BY <2>1 DEF BoundInv
<1>2. QED
  BY <1>1, InvInit, SupportStep, BoundStep, PTL DEF Spec

-----------------------------------------------------------------------------
(* No recent row is lost.                                                  *)

\* The rows of S that are newer than r.
AboveIn(S, r) == {s \in S : Newer(s, r)}

\* Rows that left the history, and rows a trimming request is about to take
\* away, are outdated by Limit rows of the same user that are recorded, or
\* will be by that request.
OutdatedInv ==
  /\ IsFiniteSet(recorded)
  /\ \A r \in recorded \ (rows \cup erased) :
       Cardinality(AboveIn(RowsOf(recorded, r.user), r)) >= Limit
  /\ \A t \in Requests : req[t].pc \in {"pruning", "pruned"} =>
       \A r \in req[t].doomed :
         /\ r.user = req[t].user
         /\ Cardinality(AboveIn(RowsOf(recorded, r.user) \cup req[t].own, r)) >= Limit

LEMMA AboveGrows ==
  ASSUME NEW S, NEW T, S \subseteq T, IsFiniteSet(T), NEW r,
         Cardinality(AboveIn(S, r)) >= Limit
  PROVE  Cardinality(AboveIn(T, r)) >= Limit
<1>1. AboveIn(S, r) \subseteq AboveIn(T, r) /\ AboveIn(T, r) \subseteq T
  BY DEF AboveIn
<1>2. IsFiniteSet(AboveIn(T, r)) /\ Cardinality(AboveIn(T, r)) \in Nat
  BY <1>1, FS_Subset, FS_CardinalityType
<1>3. /\ Cardinality(AboveIn(S, r)) <= Cardinality(AboveIn(T, r))
      /\ Cardinality(AboveIn(S, r)) \in Nat
  BY <1>1, <1>2, FS_Subset, FS_CardinalityType
<1>4. QED  BY <1>2, <1>3, HistoryAssumption

\* A step that records nothing and takes no row away unerased.
LEMMA OutdatedQuiet ==
  ASSUME OutdatedInv, recorded' = recorded, rows \cup erased \subseteq rows' \cup erased',
         \A o \in Requests :
           req'[o].pc \in {"pruning", "pruned"} =>
             /\ req[o].pc \in {"pruning", "pruned"}
             /\ req'[o].user = req[o].user
             /\ req'[o].own = req[o].own /\ req'[o].doomed = req[o].doomed
  PROVE  OutdatedInv'
BY DEF OutdatedInv, AboveIn, RowsOf

LEMMA OutdatedPrune ==
  ASSUME Support, OutdatedInv, NEW t \in Requests, Prune(t)
  PROVE  OutdatedInv'
<1> USE DEF Support
<1> DEFINE u == req[t].user
           V == RowsOf(rows, u) \cup req[t].own
           W == RowsOf(recorded, u) \cup req[t].own
<1>1. /\ \A o \in Requests : req'[o].own = req[o].own /\ req'[o].user = req[o].user
      /\ \A o \in Requests \ {t} : req'[o] = req[o]
      /\ req'[t].doomed = Expired(V)
      /\ rows' = rows /\ recorded' = recorded /\ erased' = erased
  BY DEF Prune, TypeOK, Request
<1>2. V \subseteq W /\ \A r \in V : r.user = u
  BY DEF RowsOf, VisibleInv, IdentityInv
<1>3. IsFiniteSet(W)
  <2>1. RowsOf(recorded, u) \subseteq recorded  BY DEF RowsOf
  <2>2. QED  BY <2>1, FS_Subset, FS_Union DEF OutdatedInv, FiniteInv
<1> HIDE DEF V
<1>4. ASSUME NEW r \in Expired(V)
      PROVE  r.user = u /\ Cardinality(AboveIn(W, r)) >= Limit
  <2>1. r \in V /\ Cardinality(AboveIn(V, r)) >= Limit
    BY DEF Expired, AboveIn
  <2>2. QED  BY <1>2, <1>3, <2>1, AboveGrows
<1>5. ASSUME NEW o \in Requests, req'[o].pc \in {"pruning", "pruned"},
             NEW r \in req'[o].doomed
      PROVE  /\ r.user = req'[o].user
             /\ Cardinality(AboveIn(RowsOf(recorded', r.user) \cup req'[o].own, r)) >= Limit
  <2>1. CASE o = t  BY <1>1, <1>4, <2>1
  <2>2. CASE o # t  BY <1>1, <1>5, <2>2 DEF OutdatedInv
  <2>3. QED  BY <2>1, <2>2
<1>6. QED
  <2>1. IsFiniteSet(recorded')  BY <1>1 DEF OutdatedInv
  <2>2. \A r \in recorded' \ (rows' \cup erased') :
           Cardinality(AboveIn(RowsOf(recorded', r.user), r)) >= Limit
    BY <1>1 DEF OutdatedInv
  <2>3. QED  BY <1>5, <2>1, <2>2 DEF OutdatedInv, AboveIn, RowsOf

LEMMA OutdatedCommit ==
  ASSUME Support, OutdatedInv, NEW t \in Requests, Commit(t)
  PROVE  OutdatedInv'
<1> USE DEF Support
<1>1. /\ req'[t] = Idle
      /\ \A o \in Requests \ {t} : req'[o] = req[o]
      /\ rows' = (rows \cup req[t].own) \ req[t].doomed
      /\ recorded' = recorded \cup req[t].own
      /\ erased' = erased
      /\ req[t].pc = "pruned"
  BY DEF Commit, TypeOK
<1>2. IsFiniteSet(recorded')
  BY <1>1, FS_Union DEF OutdatedInv, FiniteInv
<1>3. \A v : /\ RowsOf(recorded, v) \subseteq RowsOf(recorded', v)
             /\ RowsOf(recorded', v) \subseteq recorded'
  BY <1>1 DEF RowsOf
<1>4. \A v : IsFiniteSet(RowsOf(recorded', v))
  BY <1>2, <1>3, FS_Subset
<1>5. ASSUME NEW r \in recorded' \ (rows' \cup erased')
      PROVE  Cardinality(AboveIn(RowsOf(recorded', r.user), r)) >= Limit
  <2>1. CASE r \in req[t].doomed
    <3>1. /\ r.user = req[t].user
          /\ Cardinality(AboveIn(RowsOf(recorded, r.user) \cup req[t].own, r)) >= Limit
      BY <1>1, <2>1 DEF OutdatedInv
    <3>2. RowsOf(recorded, r.user) \cup req[t].own \subseteq RowsOf(recorded', r.user)
      BY <1>1, <3>1 DEF RowsOf, IdentityInv
    <3>3. QED  BY <1>4, <3>1, <3>2, AboveGrows
  <2>2. CASE r \notin req[t].doomed
    <3>1. r \in recorded \ (rows \cup erased)  BY <1>1, <2>2
    <3>2. Cardinality(AboveIn(RowsOf(recorded, r.user), r)) >= Limit
      BY <3>1 DEF OutdatedInv
    <3>3. QED  BY <1>3, <1>4, <3>2, AboveGrows
  <2>3. QED  BY <2>1, <2>2
<1>6. ASSUME NEW o \in Requests, req'[o].pc \in {"pruning", "pruned"},
             NEW r \in req'[o].doomed
      PROVE  /\ r.user = req'[o].user
             /\ Cardinality(AboveIn(RowsOf(recorded', r.user) \cup req'[o].own, r)) >= Limit
  <2>1. o # t /\ req'[o] = req[o]  BY <1>1, <1>6 DEF Idle
  <2>2. /\ r.user = req[o].user
        /\ Cardinality(AboveIn(RowsOf(recorded, r.user) \cup req[o].own, r)) >= Limit
    BY <1>6, <2>1 DEF OutdatedInv
  <2>3. RowsOf(recorded, r.user) \cup req[o].own \subseteq RowsOf(recorded', r.user) \cup req[o].own
    BY <1>3
  <2>4. IsFiniteSet(RowsOf(recorded', r.user) \cup req[o].own)
    BY <1>4, FS_Union DEF FiniteInv
  <2>5. QED  BY <2>1, <2>2, <2>3, <2>4, AboveGrows
<1>7. QED  BY <1>2, <1>5, <1>6 DEF OutdatedInv, AboveIn, RowsOf

LEMMA OutdatedStep == Support /\ OutdatedInv /\ [Next]_vars => OutdatedInv'
<1> SUFFICES ASSUME Support, OutdatedInv, [Next]_vars PROVE OutdatedInv'
  OBVIOUS
<1>1. TypeOK  BY DEF Support
<1>2. ASSUME NEW t \in Requests, NEW u \in Users, NEW n \in Batches, Begin(t, u, n)
      PROVE  OutdatedInv'
  BY <1>1, <1>2, OutdatedQuiet DEF Begin, Recording, TypeOK
<1>3. ASSUME NEW t \in Requests, Insert(t)
      PROVE  OutdatedInv'
  BY <1>1, <1>3, OutdatedQuiet DEF Insert, TypeOK, Request
<1>4. ASSUME NEW t \in Requests, Prune(t)
      PROVE  OutdatedInv'
  BY <1>4, OutdatedPrune
<1>5. ASSUME NEW t \in Requests, PruneDone(t)
      PROVE  OutdatedInv'
  BY <1>1, <1>5, OutdatedQuiet DEF PruneDone, TypeOK, Request
<1>6. ASSUME NEW t \in Requests, Commit(t)
      PROVE  OutdatedInv'
  BY <1>6, OutdatedCommit
<1>7. ASSUME NEW t \in Requests, Rollback(t)
      PROVE  OutdatedInv'
  BY <1>1, <1>7, OutdatedQuiet DEF Rollback, Idle, TypeOK
<1>8. ASSUME NEW t \in Requests, NEW u \in Users, NEW r \in rows, CheckOwner(t, u, r)
      PROVE  OutdatedInv'
  BY <1>1, <1>8, OutdatedQuiet DEF CheckOwner, Erasing, TypeOK
<1>9. ASSUME NEW t \in Requests, NEW u \in Users, DeleteAll(t, u)
      PROVE  OutdatedInv'
  BY <1>1, <1>9, OutdatedQuiet DEF DeleteAll, Erasing, TypeOK
<1>10. ASSUME NEW t \in Requests, Erase(t)
      PROVE  OutdatedInv'
  BY <1>1, <1>10, OutdatedQuiet DEF Erase, Idle, TypeOK
<1>11. CASE UNCHANGED vars
  BY <1>11, OutdatedQuiet DEF vars
<1>12. QED
  BY <1>2, <1>3, <1>4, <1>5, <1>6, <1>7, <1>8, <1>9, <1>10, <1>11 DEF Next

\* No interleaving of recordings, deletions and rollbacks loses a row that is
\* among the newest Limit of its user, unless that user erased it.
THEOREM HistoryNewestKept == Spec => []NewestKept
<1>1. Init => OutdatedInv
  <2>1. IsFiniteSet({})  BY FS_EmptySet
  <2>2. QED  BY <2>1 DEF Init, Idle, OutdatedInv
<1>2. OutdatedInv => NewestKept
  BY DEF OutdatedInv, NewestKept, AboveIn
<1>3. QED
  BY <1>1, <1>2, SupportInit, SupportStep, OutdatedStep, PTL DEF Spec

-----------------------------------------------------------------------------
(* The history implements the feed.                                        *)

\* A recording holds or will insert at least one row, and all of them once it
\* trims; a deletion by hand takes rows of its user only.
BatchOK(q) ==
  /\ q.pc \in {"open", "pruning", "pruned"} => Cardinality(q.own) + q.left >= 1
  /\ q.pc \in {"pruning", "pruned"} => q.left = 0
  /\ q.pc = "erasing" => \A r \in q.doomed : r.user = q.user

BatchInv == \A t \in Requests : BatchOK(req[t])

LEMMA BatchInit == Init => BatchInv
BY DEF Init, Idle, BatchInv, BatchOK

\* A step of one request leaves the others' batches alone.
LEMMA BatchAlone ==
  ASSUME BatchInv, TypeOK, NEW t \in Requests, NEW next,
         req' = [req EXCEPT ![t] = next], BatchOK(next)
  PROVE  BatchInv'
BY DEF BatchInv, TypeOK

LEMMA BatchStep == Support /\ BatchInv /\ [Next]_vars => BatchInv'
<1> SUFFICES ASSUME Support, BatchInv, [Next]_vars PROVE BatchInv'
  OBVIOUS
<1>1. TypeOK  BY DEF Support
<1>2. BatchOK(Idle)  BY DEF BatchOK, Idle
<1>3. ASSUME NEW t \in Requests, NEW u \in Users, NEW n \in Batches, Begin(t, u, n)
      PROVE  BatchInv'
  <2>1. Cardinality({}) = 0 /\ n \in Nat /\ n >= 1
    BY FS_EmptySet, HistoryAssumption
  <2>2. BatchOK(Recording(u, clock', n))
    BY <2>1 DEF BatchOK, Recording
  <2>3. QED  BY <1>1, <1>3, <2>2, BatchAlone DEF Begin
<1>4. ASSUME NEW t \in Requests, Insert(t)
      PROVE  BatchInv'
  <2> DEFINE row == [user |-> req[t].user, at |-> req[t].at, seq |-> nextSeq]
             next == [req[t] EXCEPT !.left = req[t].left - 1,
                                    !.own = req[t].own \cup {row}]
  <2>1. req' = [req EXCEPT ![t] = next]
    BY <1>1, <1>4 DEF Insert, TypeOK
  <2>2. IsFiniteSet(req[t].own \cup {row}) /\ Cardinality(req[t].own \cup {row}) >= 1
    <3>1. IsFiniteSet(req[t].own \cup {row})
      BY FS_AddElement DEF Support, FiniteInv
    <3>2. Cardinality(req[t].own \cup {row}) # 0 /\ Cardinality(req[t].own \cup {row}) \in Nat
      BY <3>1, FS_EmptySet, FS_CardinalityType
    <3> QED BY <3>1, <3>2
  <2>3. req[t].left - 1 \in Nat /\ req[t] \in Request /\ req[t].pc = "open"
    BY <1>1, <1>4 DEF Insert, TypeOK, Request
  <2> HIDE DEF row
  <2>4. next.own = req[t].own \cup {row} /\ next.left = req[t].left - 1 /\ next.pc = "open"
    BY <2>3 DEF Request
  <2> HIDE DEF next
  <2>5. BatchOK(next)
    <3>1. Cardinality(next.own) \in Nat
      BY <2>2, <2>4, FS_CardinalityType
    <3> QED BY <2>2, <2>3, <2>4, <3>1 DEF BatchOK
  <2>6. QED  BY <1>1, <2>1, <2>5, BatchAlone
<1>5. ASSUME NEW t \in Requests, Prune(t)
      PROVE  BatchInv'
  <2> DEFINE D == Expired(RowsOf(rows, req[t].user) \cup req[t].own)
             next == [req[t] EXCEPT !.pc = "pruning", !.doomed = D]
  <2>1. req' = [req EXCEPT ![t] = next]
    BY <1>1, <1>5 DEF Prune, TypeOK
  <2> HIDE DEF D
  <2>2. BatchOK(next)
    BY <1>1, <1>5 DEF Prune, TypeOK, Request, BatchInv, BatchOK
  <2>3. QED  BY <1>1, <2>1, <2>2, BatchAlone
<1>6. ASSUME NEW t \in Requests, PruneDone(t)
      PROVE  BatchInv'
  <2> DEFINE next == [req[t] EXCEPT !.pc = "pruned"]
  <2>1. req' = [req EXCEPT ![t] = next]
    BY <1>1, <1>6 DEF PruneDone, TypeOK
  <2>2. BatchOK(next)
    BY <1>1, <1>6 DEF PruneDone, TypeOK, Request, BatchInv, BatchOK
  <2>3. QED  BY <1>1, <2>1, <2>2, BatchAlone
<1>7. ASSUME NEW t \in Requests, Commit(t) \/ Rollback(t) \/ Erase(t)
      PROVE  BatchInv'
  BY <1>1, <1>2, <1>7, BatchAlone DEF Commit, Rollback, Erase
<1>8. ASSUME NEW t \in Requests, NEW u \in Users,
             (\E r \in rows : CheckOwner(t, u, r)) \/ DeleteAll(t, u)
      PROVE  BatchInv'
  <2>1. ASSUME NEW D, \A x \in D : x.user = u PROVE BatchOK(Erasing(u, D))
    BY <2>1 DEF BatchOK, Erasing
  <2>2. ASSUME NEW r \in rows, CheckOwner(t, u, r) PROVE BatchInv'
    <3>1. BatchOK(Erasing(u, {r}))
      BY <2>1, <2>2 DEF CheckOwner
    <3>2. QED  BY <1>1, <2>2, <3>1, BatchAlone DEF CheckOwner
  <2>3. CASE DeleteAll(t, u)
    <3>1. BatchOK(Erasing(u, RowsOf(rows, u)))
      BY <2>1 DEF RowsOf
    <3>2. QED  BY <1>1, <2>3, <3>1, BatchAlone DEF DeleteAll
  <2>4. QED  BY <1>8, <2>2, <2>3
<1>9. CASE UNCHANGED vars
  BY <1>9 DEF vars, BatchInv
<1>10. QED
  BY <1>3, <1>4, <1>5, <1>6, <1>7, <1>8, <1>9 DEF Next

\* A commit is a Record of the feed.
LEMMA CommitRecords ==
  ASSUME Support, OutdatedInv, BatchInv, NEW t \in Requests, Commit(t)
  PROVE  Feed!Record(req[t].user)
<1> USE DEF Support
<1> DEFINE u == req[t].user
<1>1. /\ rows' = (rows \cup req[t].own) \ req[t].doomed
      /\ recorded' = recorded \cup req[t].own
      /\ erased' = erased
      /\ req[t].pc = "pruned"
  BY DEF Commit
<1>2. recorded' \ recorded = req[t].own
  BY <1>1 DEF IdentityInv
<1>3. \A x \in req[t].own : x.user = u
  BY DEF IdentityInv
<1>4. \A x \in req[t].doomed : x.user = u
  BY <1>1 DEF OutdatedInv
<1>5. Cardinality(req[t].own) \in 1..MaxBatch
  <2>1. Cardinality(req[t].own) \in Nat
    BY FS_CardinalityType DEF FiniteInv
  <2>2. req[t].left = 0 /\ Cardinality(req[t].own) + req[t].left >= 1
    BY <1>1 DEF BatchInv, BatchOK
  <2>3. Cardinality(req[t].own) + req[t].left <= MaxBatch
    BY DEF FiniteInv
  <2> QED BY <2>1, <2>2, <2>3, HistoryAssumption
<1>6. ASSUME NEW r \in req[t].doomed
      PROVE  Cardinality({s \in Feed!Of(recorded', u) : Feed!Later(s, r)}) >= Limit
  <2>1. {s \in Feed!Of(recorded', u) : Feed!Later(s, r)} = AboveIn(RowsOf(recorded', u), r)
    BY DEF Feed!Of, Feed!Later, AboveIn, Newer, RowsOf
  <2>2. RowsOf(recorded, u) \cup req[t].own \subseteq RowsOf(recorded', u)
    BY <1>1, <1>3 DEF RowsOf
  <2>3. Cardinality(AboveIn(RowsOf(recorded, u) \cup req[t].own, r)) >= Limit
    BY <1>1, <1>4 DEF OutdatedInv
  <2>4. IsFiniteSet(RowsOf(recorded', u))
    <3>1. IsFiniteSet(recorded')
      BY <1>1, FS_Union DEF OutdatedInv, FiniteInv
    <3> QED BY <3>1, FS_Subset DEF RowsOf
  <2> HIDE DEF u
  <2>5. Cardinality(AboveIn(RowsOf(recorded', u), r)) >= Limit
    BY <2>2, <2>3, <2>4, AboveGrows
  <2> QED BY <2>1, <2>5
<1>7. rows \ rows' \subseteq req[t].doomed /\ req[t].own \ rows' \subseteq req[t].doomed
  BY <1>1
<1>8. rows' \ rows \subseteq req[t].own
  BY <1>1
<1>9. Feed!Of(req[t].own, u) = req[t].own /\ Feed!Of(rows \ rows', u) = rows \ rows'
  BY <1>3, <1>4, <1>7 DEF Feed!Of
<1>10. \A r \in (rows \ rows') \cup (req[t].own \ rows') :
          Cardinality({s \in Feed!Of(recorded', u) : Feed!Later(s, r)}) >= Limit
  BY <1>6, <1>7
<1> HIDE DEF u
<1>11. recorded \subseteq recorded' /\ UNCHANGED erased
  BY <1>1
<1> DEFINE new == recorded' \ recorded
           gone == rows \ rows'
<1>12. new = req[t].own
  BY <1>2
<1>13. /\ Cardinality(new) \in 1..MaxBatch
       /\ new = Feed!Of(new, u) /\ gone = Feed!Of(gone, u)
       /\ rows' \ rows \subseteq new
       /\ \A r \in gone \cup (new \ rows') :
            Cardinality({s \in Feed!Of(recorded', u) : Feed!Later(s, r)}) >= Limit
  BY <1>5, <1>8, <1>9, <1>10, <1>12
<1>14. Feed!Record(u)
  BY <1>11, <1>13 DEF Feed!Record, Feed!Cardinality, Cardinality
<1> QED BY <1>14 DEF u

\* Every other step but a deletion by hand is invisible, and that one forgets.
LEMMA FeedStep ==
  Support /\ OutdatedInv /\ BatchInv /\ [Next]_vars => [Feed!Next]_Feed!feedVars
<1> SUFFICES ASSUME Support, OutdatedInv, BatchInv, [Next]_vars
             PROVE  [Feed!Next]_Feed!feedVars
  OBVIOUS
<1>1. TypeOK  BY DEF Support
<1>2. ASSUME NEW t \in Requests, Commit(t)
      PROVE  Feed!Next
  <2>1. req[t].user \in Users  BY <1>1, <1>2 DEF Commit, TypeOK
  <2> QED BY <1>2, <2>1, CommitRecords DEF Feed!Next
<1>3. ASSUME NEW t \in Requests, Erase(t)
      PROVE  Feed!Next
  <2>1. req[t].user \in Users  BY <1>1, <1>3 DEF Erase, TypeOK
  <2>2. \A x \in req[t].doomed : x.user = req[t].user
    BY <1>3 DEF Erase, BatchInv, BatchOK
  <2>3. rows' = rows \ req[t].doomed /\ erased' = erased \cup (req[t].doomed \cap rows)
        /\ recorded' = recorded
    BY <1>3 DEF Erase
  <2>4. Feed!Forget(req[t].user)
    BY <2>2, <2>3 DEF Feed!Forget, Feed!Of
  <2> QED BY <2>1, <2>4 DEF Feed!Next
<1>4. ASSUME NEW t \in Requests,
             \/ \E u \in Users, n \in Batches : Begin(t, u, n)
             \/ Insert(t) \/ Prune(t) \/ PruneDone(t) \/ Rollback(t)
             \/ \E u \in Users, r \in rows : CheckOwner(t, u, r)
             \/ \E u \in Users : DeleteAll(t, u)
      PROVE  UNCHANGED Feed!feedVars
  BY <1>4 DEF Begin, Insert, Prune, PruneDone, Rollback, CheckOwner, DeleteAll, Feed!feedVars
<1>5. CASE UNCHANGED vars
  BY <1>5 DEF vars, Feed!feedVars
<1> QED BY <1>2, <1>3, <1>4, <1>5 DEF Next

\* The transactions of repository/history.go implement the feed: to a reader,
\* RecordWithLimit and RecordManyWithLimit are one step that adds a batch and
\* drops only outdated rows, Delete and DeleteAll one that forgets.
THEOREM HistoryImplementsFeed == Spec => ImplementsFeed
<1>1. Init => Feed!Init
  BY DEF Init, Feed!Init
<1>2. Init => OutdatedInv
  <2>1. IsFiniteSet({})  BY FS_EmptySet
  <2>2. QED  BY <2>1 DEF Init, Idle, OutdatedInv
<1>3. Spec => Feed!Spec
  BY <1>1, <1>2, SupportInit, SupportStep, OutdatedStep, BatchInit, BatchStep,
     FeedStep, PTL DEF Spec, Feed!Spec
<1>4. QED  BY <1>3 DEF ImplementsFeed
=============================================================================
