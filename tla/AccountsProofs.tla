--------------------------- MODULE AccountsProofs ---------------------------
(***************************************************************************)
(* Proofs about accounts: every user has a way in and every email and      *)
(* Google account one user, a Google sign-in ends in the account linked to *)
(* it, and it collides only with another request; the limiter in front     *)
(* lets no client pass twice the limit.  Then about the premium            *)
(* subscription of an account: premium is never shown beyond what Stripe   *)
(* owes, and a second live subscription needs a session opened blind.      *)
(***************************************************************************)
EXTENDS Accounts, Billing, Sums, FiniteSetTheorems, SequenceTheorems, WellFoundedInduction, TLAPS

Tx == [pc : {"idle", "user", "credential", "sub", "email", "identity", "commit", "done"},
       kind : {"none", "signup", "login", "google"},
       email : Emails \cup {"none"}, sub : Subs \cup {NoSub}, user : Nat,
       newUser : BOOLEAN, newIdentity : BOOLEAN, raced : BOOLEAN,
       result : {"none", "in", "conflict"}]

\* The account t signs in to is the one its Google account is linked to.
Own(t) == {i.user : i \in Linked(t.sub)} = {t.user}

\* What holds of one request, its record t, whatever it has found so far.
TxOK(t) ==
  /\ IF t.kind = "google" THEN t.sub \in Subs ELSE t.sub = NoSub
  /\ t.pc \notin {"idle", "done"} => t.email \in Emails /\ t.kind # "none"
  /\ t.pc = "credential" <=> t.kind = "login" /\ t.pc # "done"
  /\ t.pc \in {"sub", "email"} => t.kind = "google"
  /\ t.pc # "done" => t.result = "none"
  /\ t.user \in {NoUser} \cup DOMAIN users
  /\ t.newUser => t.pc \in {"identity", "commit"} /\ UserOf(t.email) = {}
  /\ t.newIdentity => t.pc = "commit" /\ (t.kind = "google" => Linked(t.sub) = {})
  /\ t.pc \in {"identity", "commit"} => t.newUser \/ t.user \in DOMAIN users
  /\ t.pc = "commit" => t.newIdentity \/ (t.kind = "google" /\ ~t.newUser /\ Own(t))

\* What a request knows as long as no other has committed beside it.
Unraced(t) ==
  t.kind = "google" /\ ~t.raced =>
    /\ t.pc = "user" => UserOf(t.email) = {}
    /\ t.pc \in {"email", "user", "identity"} => Linked(t.sub) = {}

\* What an answer says.
AnswerOK(t) ==
  /\ t.result = "in" /\ t.kind = "google" => Own(t)
  /\ t.result = "conflict" => t.raced

\* Two transactions never hold rows of one email or of one Google account.
Alone(s, t) ==
  /\ s.newUser /\ t.newUser => s.email # t.email
  /\ s.newIdentity /\ t.newIdentity /\ s.kind = "google" /\ t.kind = "google" =>
       s.sub # t.sub

\* The committed rows.
RowsOK ==
  /\ users \in Seq(Emails)
  /\ \A i \in identities :
       /\ i.user \in DOMAIN users
       /\ \/ i.provider = "password" /\ i.uid = NoSub
          \/ i.provider = "google" /\ i.uid \in Subs
  /\ \A u \in DOMAIN users : \E i \in identities : i.user = u
  /\ \A u, v \in DOMAIN users : users[u] = users[v] => u = v
  /\ \A s \in Subs : \A i, j \in Linked(s) : i = j

\* The inductive invariant.
Inv ==
  /\ RowsOK
  /\ tx \in [Requests -> Tx]
  /\ \A r \in Requests : TxOK(tx[r]) /\ Unraced(tx[r]) /\ AnswerOK(tx[r])
  /\ \A q, r \in Requests : q # r => Alone(tx[q], tx[r])

-----------------------------------------------------------------------------
LEMMA IdleFacts ==
  /\ Idle \in Tx /\ Idle.pc = "idle" /\ Idle.kind = "none" /\ Idle.sub = NoSub
  /\ Idle.user = 0 /\ ~Idle.newUser /\ ~Idle.newIdentity /\ Idle.result = "none"
BY DEF Idle, Tx, NoUser

\* An idle request satisfies whatever is asked of one, and meets no other.
LEMMA IdleOK ==
  /\ TxOK(Idle) /\ Unraced(Idle) /\ AnswerOK(Idle)
  /\ \A t : Alone(t, Idle) /\ Alone(Idle, t)
BY IdleFacts DEF TxOK, Unraced, AnswerOK, Alone, NoUser

LEMMA InitInv == Init => Inv
<1> SUFFICES ASSUME Init PROVE Inv
  OBVIOUS
<1>1. users = <<>> /\ identities = {} /\ tx = [r \in Requests |-> Idle]
  BY DEF Init
<1>2. RowsOK
  BY <1>1 DEF RowsOK, Linked
<1>3. QED BY <1>1, <1>2, IdleFacts, IdleOK DEF Inv

\* A step of one request that commits nothing keeps the invariant when the
\* request's new record does.
LEMMA OneStep ==
  ASSUME Inv, NEW r \in Requests, NEW t \in Tx, Go(r, t),
         UNCHANGED <<users, identities>>,
         TxOK(t), Unraced(t), AnswerOK(t),
         \A q \in Requests \ {r} : Alone(tx[q], t) /\ Alone(t, tx[q])
  PROVE  Inv'
<1>1. tx' \in [Requests -> Tx] /\ \A q \in Requests : tx'[q] = IF q = r THEN t ELSE tx[q]
  BY DEF Inv, Go
<1>2. RowsOK'
  BY DEF Inv, RowsOK, Linked
<1>3. ASSUME NEW q \in Requests PROVE TxOK(tx[q])' /\ Unraced(tx[q])' /\ AnswerOK(tx[q])'
  <2>1. TxOK(tx'[q]) /\ Unraced(tx'[q]) /\ AnswerOK(tx'[q])
    BY <1>1 DEF Inv
  <2>2. QED BY <2>1 DEF TxOK, Unraced, AnswerOK, Own, Linked, UserOf
<1>4. ASSUME NEW p \in Requests, NEW q \in Requests, p # q PROVE Alone(tx[p], tx[q])'
  <2>1. Alone(tx[p], tx[q])
    BY <1>4 DEF Inv
  <2>2. QED BY <2>1, <1>1, <1>4 DEF Alone
<1>5. QED BY <1>1, <1>2, <1>3, <1>4 DEF Inv

\* A request that holds no row of a unique index is alone.
LEMMA NoRows ==
  ASSUME NEW s, NEW t, ~t.newUser, ~t.newIdentity
  PROVE  Alone(s, t) /\ Alone(t, s)
BY DEF Alone

\* The answers a request is left with.
LEMMA AnsweredFacts ==
  ASSUME Inv, NEW r \in Requests, NEW a \in {"in", "conflict"}
  PROVE  LET t == Answered(r, a) IN
         /\ t \in Tx /\ t.pc = "done" /\ t.kind = tx[r].kind /\ t.sub = tx[r].sub
         /\ t.user = NoUser /\ ~t.newUser /\ ~t.newIdentity /\ t.result = a
         /\ a = "conflict" /\ tx[r].raced => t.raced
<1>1. tx[r] \in Tx
  BY DEF Inv
<1> DEFINE b == a = "conflict" /\ tx[r].raced
           t == [Idle EXCEPT !.pc = "done", !.kind = tx[r].kind, !.sub = tx[r].sub]
<1>2. b \in BOOLEAN
  OBVIOUS
<1>3. Answered(r, a) = [t EXCEPT !.raced = b, !.result = a]
  BY DEF Answered
<1>4. a = "conflict" /\ tx[r].raced => b
  OBVIOUS
<1>5. /\ t \in Tx /\ t.pc = "done" /\ t.kind = tx[r].kind /\ t.sub = tx[r].sub
      /\ t.user = NoUser /\ ~t.newUser /\ ~t.newIdentity
  BY <1>1 DEF Idle, Tx, NoUser
<1> HIDE DEF b, t
<1>6. Answered(r, a) \in Tx /\ Answered(r, a).raced = b
  BY <1>2, <1>3, <1>5 DEF Tx
<1>7. QED BY <1>3, <1>4, <1>5, <1>6 DEF Tx

\* A request that ends without a trace: refused, failed, gone or read.
LEMMA EndStep ==
  ASSUME Inv, NEW r \in Requests, Go(r, Idle), UNCHANGED <<users, identities>>
  PROVE  Inv'
BY IdleFacts, IdleOK, OneStep

\* A sign-in that collides is answered 500.
LEMMA ConflictStep ==
  ASSUME Inv, NEW r \in Requests, Go(r, Answered(r, "conflict")), tx[r].raced,
         UNCHANGED <<users, identities>>
  PROVE  Inv'
<1> DEFINE t == Answered(r, "conflict")
<1>1. /\ t \in Tx /\ t.pc = "done" /\ t.kind = tx[r].kind /\ t.sub = tx[r].sub
      /\ t.user = NoUser /\ ~t.newUser /\ ~t.newIdentity /\ t.result = "conflict" /\ t.raced
  BY AnsweredFacts
<1>2. Go(r, t)
  OBVIOUS
<1> HIDE DEF t
<1>3. TxOK(tx[r])
  BY DEF Inv
<1>4. TxOK(t) /\ Unraced(t) /\ AnswerOK(t)
  BY <1>1, <1>3 DEF TxOK, Unraced, AnswerOK
<1>5. QED BY <1>1, <1>2, <1>4, NoRows, OneStep

LEMMA StartStep ==
  ASSUME Inv, NEW r \in Requests, NEW ip, NEW e \in Emails,
         SignUp(r, ip, e) \/ Login(r, ip, e) \/ \E s \in Subs : GoogleCallback(r, ip, s, e)
  PROVE  Inv'
<1>1. CASE SignUp(r, ip, e)
  <2> DEFINE t == [Idle EXCEPT !.pc = "user", !.kind = "signup", !.email = e]
  <2>1. /\ t \in Tx /\ t.pc = "user" /\ t.kind = "signup" /\ t.email = e /\ t.sub = NoSub
        /\ t.user = 0 /\ ~t.newUser /\ ~t.newIdentity /\ t.result = "none"
    BY DEF Idle, Tx, NoUser
  <2>2. Go(r, t) /\ UNCHANGED <<users, identities>>
    BY <1>1 DEF SignUp
  <2> HIDE DEF t
  <2>3. TxOK(t) /\ Unraced(t) /\ AnswerOK(t)
    BY <2>1 DEF TxOK, Unraced, AnswerOK, NoUser
  <2>4. QED BY <2>1, <2>2, <2>3, NoRows, OneStep
<1>2. CASE Login(r, ip, e)
  <2> DEFINE t == [Idle EXCEPT !.pc = "credential", !.kind = "login", !.email = e]
  <2>1. /\ t \in Tx /\ t.pc = "credential" /\ t.kind = "login" /\ t.email = e /\ t.sub = NoSub
        /\ t.user = 0 /\ ~t.newUser /\ ~t.newIdentity /\ t.result = "none"
    BY DEF Idle, Tx, NoUser
  <2>2. Go(r, t) /\ UNCHANGED <<users, identities>>
    BY <1>2 DEF Login
  <2> HIDE DEF t
  <2>3. TxOK(t) /\ Unraced(t) /\ AnswerOK(t)
    BY <2>1 DEF TxOK, Unraced, AnswerOK, NoUser
  <2>4. QED BY <2>1, <2>2, <2>3, NoRows, OneStep
<1>3. ASSUME NEW s \in Subs, GoogleCallback(r, ip, s, e) PROVE Inv'
  <2> DEFINE t == [Idle EXCEPT !.pc = "sub", !.kind = "google", !.email = e, !.sub = s]
  <2>1. /\ t \in Tx /\ t.pc = "sub" /\ t.kind = "google" /\ t.email = e /\ t.sub = s
        /\ t.user = 0 /\ ~t.newUser /\ ~t.newIdentity /\ t.result = "none"
    BY DEF Idle, Tx, NoUser
  <2>2. Go(r, t) /\ UNCHANGED <<users, identities>>
    BY <1>3 DEF GoogleCallback
  <2> HIDE DEF t
  <2>3. TxOK(t) /\ Unraced(t) /\ AnswerOK(t)
    BY <2>1 DEF TxOK, Unraced, AnswerOK, NoUser
  <2>4. QED BY <2>1, <2>2, <2>3, NoRows, OneStep
<1>4. QED BY <1>1, <1>2, <1>3

\* A log-in has only rows it found.
LEMMA CredentialStep ==
  ASSUME Inv, NEW r \in Requests, FindCredential(r)
  PROVE  Inv'
<1>1. CASE Go(r, Idle)
  BY <1>1, EndStep DEF FindCredential
<1>2. ASSUME NEW u \in UserOf(tx[r].email), Go(r, [Answered(r, "in") EXCEPT !.user = u])
      PROVE  Inv'
  <2> DEFINE a == Answered(r, "in")
             t == [a EXCEPT !.user = u]
  <2>1. /\ a \in Tx /\ a.pc = "done" /\ a.kind = tx[r].kind /\ a.sub = tx[r].sub
        /\ ~a.newUser /\ ~a.newIdentity /\ a.result = "in"
    BY AnsweredFacts
  <2>2. u \in DOMAIN users /\ u \in Nat
    BY DEF UserOf, Inv, RowsOK
  <2> HIDE DEF a
  <2>3. /\ t \in Tx /\ t.pc = "done" /\ t.kind = tx[r].kind /\ t.sub = tx[r].sub
        /\ t.user = u /\ ~t.newUser /\ ~t.newIdentity /\ t.result = "in"
    BY <2>1, <2>2 DEF Tx
  <2>4. Go(r, t) /\ UNCHANGED <<users, identities>>
    BY <1>2 DEF a, FindCredential
  <2> HIDE DEF t
  <2>5. TxOK(tx[r]) /\ tx[r].pc = "credential"
    BY DEF Inv, FindCredential
  <2>6. tx[r].kind # "google"
    BY <2>5 DEF TxOK
  <2>7. TxOK(t) /\ Unraced(t) /\ AnswerOK(t)
    BY <2>2, <2>3, <2>5, <2>6 DEF TxOK, Unraced, AnswerOK
  <2>8. QED BY <2>3, <2>4, <2>7, NoRows, OneStep
<1>3. QED BY <1>1, <1>2 DEF FindCredential

\* A transaction that goes on with what it has found keeps the rows it holds.
LEMMA ReadStep ==
  ASSUME Inv, NEW r \in Requests, ~tx[r].newUser, ~tx[r].newIdentity,
         NEW p \in {"email", "user"}, tx[r].pc \in {"sub", "email"},
         Go(r, [tx[r] EXCEPT !.pc = p]), UNCHANGED <<users, identities>>,
         Linked(tx[r].sub) = {} \/ tx[r].raced,
         p = "user" => UserOf(tx[r].email) = {}
  PROVE  Inv'
<1> DEFINE t == [tx[r] EXCEPT !.pc = p]
<1>1. tx[r] \in Tx /\ TxOK(tx[r]) /\ AnswerOK(tx[r])
  BY DEF Inv
<1>2. /\ t \in Tx /\ t.pc = p /\ t.kind = tx[r].kind /\ t.email = tx[r].email
      /\ t.sub = tx[r].sub /\ t.user = tx[r].user /\ t.raced = tx[r].raced
      /\ ~t.newUser /\ ~t.newIdentity /\ t.result = tx[r].result
  BY <1>1 DEF Tx
<1>3. Go(r, t)
  OBVIOUS
<1> HIDE DEF t
<1>4. TxOK(t) /\ Unraced(t) /\ AnswerOK(t)
  BY <1>1, <1>2 DEF TxOK, Unraced, AnswerOK, Own
<1>5. QED BY <1>2, <1>3, <1>4, NoRows, OneStep

LEMMA FindBySubStep ==
  ASSUME Inv, NEW r \in Requests, FindBySub(r)
  PROVE  Inv'
<1>1. tx[r] \in Tx /\ TxOK(tx[r]) /\ AnswerOK(tx[r]) /\ tx[r].pc = "sub"
  BY DEF Inv, FindBySub
<1>2. ~tx[r].newUser /\ ~tx[r].newIdentity /\ tx[r].kind = "google" /\ tx[r].sub \in Subs
  BY <1>1 DEF TxOK
<1>3. CASE Linked(tx[r].sub) = {}
  BY <1>1, <1>2, <1>3, ReadStep DEF FindBySub
<1>4. ASSUME NEW i \in Linked(tx[r].sub), Go(r, [tx[r] EXCEPT !.pc = "commit", !.user = i.user])
      PROVE  Inv'
  <2> DEFINE t == [tx[r] EXCEPT !.pc = "commit", !.user = i.user]
  <2>1. i.user \in DOMAIN users /\ i.user \in Nat
    BY DEF Linked, Inv, RowsOK
  <2>2. /\ t \in Tx /\ t.pc = "commit" /\ t.kind = "google" /\ t.email = tx[r].email
        /\ t.sub = tx[r].sub /\ t.user = i.user /\ ~t.newUser /\ ~t.newIdentity
        /\ t.result = tx[r].result /\ t.raced = tx[r].raced
    BY <1>1, <1>2, <2>1 DEF Tx
  <2>3. Go(r, t) /\ UNCHANGED <<users, identities>>
    BY <1>4 DEF FindBySub
  <2> HIDE DEF t
  <2>4. Own(t)
    <3>1. \A j \in Linked(t.sub) : j = i
      BY <1>2, <2>2 DEF Inv, RowsOK
    <3>2. QED BY <3>1, <2>2 DEF Own
  <2>5. TxOK(t) /\ Unraced(t) /\ AnswerOK(t)
    BY <1>1, <1>2, <2>1, <2>2, <2>4 DEF TxOK, Unraced, AnswerOK
  <2>6. QED BY <2>2, <2>3, <2>5, NoRows, OneStep
<1>5. QED BY <1>3, <1>4 DEF FindBySub

LEMMA FindByEmailStep ==
  ASSUME Inv, NEW r \in Requests, FindByEmail(r)
  PROVE  Inv'
<1>1. /\ tx[r] \in Tx /\ TxOK(tx[r]) /\ Unraced(tx[r]) /\ AnswerOK(tx[r])
      /\ tx[r].pc = "email"
  BY DEF Inv, FindByEmail
<1>2. /\ ~tx[r].newUser /\ ~tx[r].newIdentity /\ tx[r].kind = "google" /\ tx[r].sub \in Subs
      /\ Linked(tx[r].sub) = {} \/ tx[r].raced
  BY <1>1 DEF TxOK, Unraced
<1>3. CASE UserOf(tx[r].email) = {}
  BY <1>1, <1>2, <1>3, ReadStep DEF FindByEmail
<1>4. ASSUME NEW u \in UserOf(tx[r].email), Go(r, [tx[r] EXCEPT !.pc = "identity", !.user = u])
      PROVE  Inv'
  <2> DEFINE t == [tx[r] EXCEPT !.pc = "identity", !.user = u]
  <2>1. u \in DOMAIN users /\ u \in Nat
    BY DEF UserOf, Inv, RowsOK
  <2>2. /\ t \in Tx /\ t.pc = "identity" /\ t.kind = "google" /\ t.email = tx[r].email
        /\ t.sub = tx[r].sub /\ t.user = u /\ ~t.newUser /\ ~t.newIdentity
        /\ t.result = tx[r].result /\ t.raced = tx[r].raced
    BY <1>1, <1>2, <2>1 DEF Tx
  <2>3. Go(r, t) /\ UNCHANGED <<users, identities>>
    BY <1>4 DEF FindByEmail
  <2> HIDE DEF t
  <2>4. AnswerOK(t)
    BY <1>1, <2>2 DEF AnswerOK, TxOK
  <2>5. TxOK(t) /\ Unraced(t)
    BY <1>1, <1>2, <2>1, <2>2 DEF TxOK, Unraced
  <2>6. QED BY <2>2, <2>3, <2>4, <2>5, NoRows, OneStep
<1>5. QED BY <1>3, <1>4 DEF FindByEmail

\* The user row is held, or its email taken.
LEMMA InsertUserStep ==
  ASSUME Inv, NEW r \in Requests, InsertUser(r)
  PROVE  Inv'
<1>1. /\ tx[r] \in Tx /\ TxOK(tx[r]) /\ Unraced(tx[r]) /\ AnswerOK(tx[r])
      /\ tx[r].pc = "user" /\ UNCHANGED <<users, identities>>
  BY DEF Inv, InsertUser
<1>2. CASE UserOf(tx[r].email) # {} /\ tx[r].kind = "signup"
  BY <1>2, <1>1, EndStep DEF InsertUser
<1>3. CASE UserOf(tx[r].email) # {} /\ tx[r].kind # "signup"
  <2>1. tx[r].kind = "google"
    BY <1>1, <1>3 DEF TxOK, Tx
  <2>2. tx[r].raced
    BY <1>1, <1>3, <2>1 DEF Unraced
  <2>3. Go(r, Answered(r, "conflict"))
    BY <1>3 DEF InsertUser
  <2>4. QED BY <1>1, <2>2, <2>3, ConflictStep
<1>4. CASE UserOf(tx[r].email) = {}
  <2> DEFINE t == [tx[r] EXCEPT !.pc = "identity", !.newUser = TRUE]
  <2>1. /\ t \in Tx /\ t.pc = "identity" /\ t.kind = tx[r].kind /\ t.email = tx[r].email
        /\ t.sub = tx[r].sub /\ t.user = tx[r].user /\ t.newUser
        /\ t.newIdentity = tx[r].newIdentity
        /\ t.result = tx[r].result /\ t.raced = tx[r].raced
    BY <1>1 DEF Tx
  <2>2. Go(r, t)
    BY <1>4 DEF InsertUser
  <2> HIDE DEF t
  <2>3. TxOK(t) /\ Unraced(t) /\ AnswerOK(t)
    BY <1>1, <1>4, <2>1 DEF TxOK, Unraced, AnswerOK, Own
  <2>4. ASSUME NEW q \in Requests \ {r} PROVE Alone(tx[q], t) /\ Alone(t, tx[q])
    <3>1. ~(tx[q].newUser /\ tx[q].email = tx[r].email)
      BY DEF InsertUser, EmailHeld
    <3>2. ~t.newIdentity
      BY <1>1, <2>1 DEF TxOK
    <3>3. QED BY <2>1, <3>1, <3>2 DEF Alone
  <2>5. QED BY <1>1, <2>1, <2>2, <2>3, <2>4, OneStep
<1>5. QED BY <1>2, <1>3, <1>4

\* The identity is held, or its Google account linked meanwhile.
LEMMA InsertIdentityStep ==
  ASSUME Inv, NEW r \in Requests, InsertIdentity(r)
  PROVE  Inv'
<1>1. /\ tx[r] \in Tx /\ TxOK(tx[r]) /\ Unraced(tx[r]) /\ AnswerOK(tx[r])
      /\ tx[r].pc = "identity" /\ UNCHANGED <<users, identities>>
  BY DEF Inv, InsertIdentity
<1>2. CASE tx[r].kind = "google" /\ Linked(tx[r].sub) # {}
  <2>1. tx[r].raced
    BY <1>1, <1>2 DEF Unraced
  <2>2. Go(r, Answered(r, "conflict"))
    BY <1>2 DEF InsertIdentity
  <2>3. QED BY <1>1, <2>1, <2>2, ConflictStep
<1>3. CASE ~(tx[r].kind = "google" /\ Linked(tx[r].sub) # {})
  <2> DEFINE t == [tx[r] EXCEPT !.pc = "commit", !.newIdentity = TRUE]
  <2>1. /\ t \in Tx /\ t.pc = "commit" /\ t.kind = tx[r].kind /\ t.email = tx[r].email
        /\ t.sub = tx[r].sub /\ t.user = tx[r].user /\ t.newUser = tx[r].newUser
        /\ t.newIdentity
        /\ t.result = tx[r].result /\ t.raced = tx[r].raced
    BY <1>1 DEF Tx
  <2>2. Go(r, t)
    BY <1>3 DEF InsertIdentity
  <2> HIDE DEF t
  <2>3. TxOK(t) /\ Unraced(t) /\ AnswerOK(t)
    BY <1>1, <1>3, <2>1 DEF TxOK, Unraced, AnswerOK, Own
  <2>4. ASSUME NEW q \in Requests \ {r} PROVE Alone(tx[q], t) /\ Alone(t, tx[q])
    <3>1. tx[r].kind = "google" => ~(tx[q].newIdentity /\ tx[q].sub = tx[r].sub)
      BY DEF InsertIdentity, SubHeld
    <3>2. Alone(tx[q], tx[r]) /\ Alone(tx[r], tx[q])
      BY DEF Inv
    <3>3. QED BY <2>1, <3>1, <3>2 DEF Alone
  <2>5. QED BY <1>1, <2>1, <2>2, <2>3, <2>4, OneStep
<1>4. QED BY <1>2, <1>3

-----------------------------------------------------------------------------
\* The row a commit adds to auth_identities, and the account it is of.
CommitUser(t) == IF t.newUser THEN Len(users) + 1 ELSE t.user

NewRow(t) ==
  Identity(CommitUser(t), IF t.kind = "google" THEN "google" ELSE "password", t.sub)

\* What a commit does to the committed rows.
LEMMA CommitRows ==
  ASSUME Inv, NEW r \in Requests, Commit(r), NEW t, t = tx[r]
  PROVE  /\ t \in Tx /\ TxOK(t) /\ t.pc = "commit"
         /\ users' = IF t.newUser THEN Append(users, t.email) ELSE users
         /\ identities' = IF t.newIdentity THEN identities \cup {NewRow(t)} ELSE identities
         /\ t.newUser => t.newIdentity
         /\ DOMAIN users' = IF t.newUser THEN DOMAIN users \cup {Len(users) + 1}
                            ELSE DOMAIN users
         /\ \A u \in DOMAIN users : users'[u] = users[u]
         /\ t.newUser => users'[Len(users) + 1] = t.email /\ Len(users) + 1 \notin DOMAIN users
         /\ CommitUser(t) \in DOMAIN users' /\ CommitUser(t) \in Nat
<1>1. /\ t \in Tx /\ TxOK(t) /\ t.pc = "commit"
      /\ users' = IF t.newUser THEN Append(users, t.email) ELSE users
  BY DEF Inv, Commit
<1>2. identities' = IF t.newIdentity THEN identities \cup {NewRow(t)} ELSE identities
  BY DEF Commit, NewRow, CommitUser
<1>3. t.newUser => t.newIdentity
  BY <1>1 DEF TxOK
<1>4. users \in Seq(Emails) /\ t.email \in Emails
  BY <1>1 DEF Inv, RowsOK, TxOK
<1>5. DOMAIN users = 1..Len(users) /\ Len(users) \in Nat
  BY <1>4
<1>6. CASE t.newUser
  <2>1. users' = Append(users, t.email) /\ Len(users') = Len(users) + 1
        /\ DOMAIN users' = 1..(Len(users) + 1)
    BY <1>1, <1>4, <1>6
  <2>2. /\ \A u \in DOMAIN users : users'[u] = users[u]
        /\ users'[Len(users) + 1] = t.email
    BY <2>1, <1>4, <1>5
  <2>3. QED BY <2>1, <2>2, <1>1, <1>2, <1>3, <1>5, <1>6 DEF CommitUser
<1>7. CASE ~t.newUser
  <2>1. t.user \in DOMAIN users
    BY <1>1, <1>7 DEF TxOK
  <2>2. QED BY <2>1, <1>1, <1>2, <1>3, <1>5, <1>7 DEF CommitUser
<1>8. QED BY <1>6, <1>7

\* Hence to what a statement finds: only a user or an identity that was not
\* there becomes visible.
LEMMA CommitFinds ==
  ASSUME Inv, NEW r \in Requests, Commit(r), NEW t, t = tx[r]
  PROVE  /\ \A e : ~(t.newUser /\ e = t.email) => UserOf(e)' = UserOf(e)
         /\ \A s : Linked(s)' = IF t.newIdentity /\ t.kind = "google" /\ s = t.sub
                                THEN Linked(s) \cup {NewRow(t)} ELSE Linked(s)
         /\ NewRow(t).user = CommitUser(t)
         /\ t.newIdentity /\ t.kind = "google" => Linked(t.sub) = {}
         /\ t.newUser => UserOf(t.email) = {}
<1>1. /\ t \in Tx /\ TxOK(t) /\ t.pc = "commit"
      /\ users' = IF t.newUser THEN Append(users, t.email) ELSE users
      /\ identities' = IF t.newIdentity THEN identities \cup {NewRow(t)} ELSE identities
      /\ DOMAIN users' = IF t.newUser THEN DOMAIN users \cup {Len(users) + 1}
                         ELSE DOMAIN users
      /\ \A u \in DOMAIN users : users'[u] = users[u]
      /\ t.newUser => users'[Len(users) + 1] = t.email
  BY CommitRows
<1>2. ASSUME NEW e, ~(t.newUser /\ e = t.email) PROVE UserOf(e)' = UserOf(e)
  BY <1>1, <1>2 DEF UserOf
<1>3. /\ NewRow(t).user = CommitUser(t) /\ NewRow(t).uid = t.sub
      /\ NewRow(t).provider = IF t.kind = "google" THEN "google" ELSE "password"
  BY DEF NewRow, Identity
<1>4. ASSUME NEW s
      PROVE  Linked(s)' = IF t.newIdentity /\ t.kind = "google" /\ s = t.sub
                          THEN Linked(s) \cup {NewRow(t)} ELSE Linked(s)
  <2>1. CASE t.newIdentity
    <3>1. NewRow(t).provider = "google" /\ NewRow(t).uid = s <=> t.kind = "google" /\ s = t.sub
      BY <1>3
    <3> HIDE DEF Tx
    <3>2. Linked(s)' = {i \in identities \cup {NewRow(t)} : i.provider = "google" /\ i.uid = s}
      BY <1>1, <2>1 DEF Linked
    <3>3. QED BY <3>1, <3>2, <2>1 DEF Linked
  <2>2. CASE ~t.newIdentity
    BY <1>1, <2>2 DEF Linked
  <2>3. QED BY <2>1, <2>2
<1>5. QED BY <1>1, <1>2, <1>3, <1>4 DEF TxOK

\* The committed rows stay paired and unique.
LEMMA CommitKeepsRows ==
  ASSUME Inv, NEW r \in Requests, Commit(r)
  PROVE  RowsOK'
<1> DEFINE t == tx[r]
<1>1. /\ t \in Tx /\ TxOK(t) /\ t.pc = "commit"
      /\ users' = IF t.newUser THEN Append(users, t.email) ELSE users
      /\ identities' = IF t.newIdentity THEN identities \cup {NewRow(t)} ELSE identities
      /\ t.newUser => t.newIdentity
      /\ DOMAIN users' = IF t.newUser THEN DOMAIN users \cup {Len(users) + 1}
                         ELSE DOMAIN users
      /\ \A u \in DOMAIN users : users'[u] = users[u]
      /\ t.newUser => users'[Len(users) + 1] = t.email /\ Len(users) + 1 \notin DOMAIN users
      /\ CommitUser(t) \in DOMAIN users'
  BY CommitRows
<1>2. /\ \A s : Linked(s)' = IF t.newIdentity /\ t.kind = "google" /\ s = t.sub
                             THEN Linked(s) \cup {NewRow(t)} ELSE Linked(s)
      /\ t.newIdentity /\ t.kind = "google" => Linked(t.sub) = {}
      /\ t.newUser => UserOf(t.email) = {}
  BY CommitFinds
<1> HIDE DEF t
<1>3. users' \in Seq(Emails)
  BY <1>1 DEF Inv, RowsOK, TxOK
<1>4. /\ NewRow(t).user = CommitUser(t) /\ NewRow(t).uid = t.sub
      /\ NewRow(t).provider = IF t.kind = "google" THEN "google" ELSE "password"
      /\ IF t.kind = "google" THEN t.sub \in Subs ELSE t.sub = NoSub
  BY <1>1 DEF NewRow, Identity, TxOK
<1>5. ASSUME NEW i \in identities'
      PROVE  /\ i.user \in DOMAIN users'
             /\ \/ i.provider = "password" /\ i.uid = NoSub
                \/ i.provider = "google" /\ i.uid \in Subs
  <2>1. CASE i \in identities
    BY <2>1, <1>1 DEF Inv, RowsOK
  <2>2. CASE i = NewRow(t)
    BY <2>2, <1>1, <1>4
  <2>3. QED BY <2>1, <2>2, <1>1
<1>6. ASSUME NEW u \in DOMAIN users' PROVE \E i \in identities' : i.user = u
  <2>1. CASE u \in DOMAIN users
    BY <2>1, <1>1 DEF Inv, RowsOK
  <2>2. CASE u \notin DOMAIN users
    BY <2>2, <1>1, <1>4 DEF CommitUser
  <2>3. QED BY <2>1, <2>2
<1>7. ASSUME NEW u \in DOMAIN users', NEW v \in DOMAIN users', users'[u] = users'[v]
      PROVE  u = v
  <2>1. t.newUser => \A w \in DOMAIN users : users[w] # t.email
    BY <1>2 DEF UserOf
  <2>2. \A x, y \in DOMAIN users : users[x] = users[y] => x = y
    BY DEF Inv, RowsOK
  <2>3. QED BY <2>1, <2>2, <1>1, <1>7
<1>8. ASSUME NEW s \in Subs PROVE \A i, j \in Linked(s)' : i = j
  <2>1. \A i, j \in Linked(s) : i = j
    BY DEF Inv, RowsOK
  <2>2. QED BY <2>1, <1>2
<1>9. QED BY <1>3, <1>5, <1>6, <1>7, <1>8 DEF RowsOK

\* What a commit leaves of another request, raced or not.
LEMMA CommitOther ==
  ASSUME Inv, NEW r \in Requests, Commit(r), NEW q \in Requests, q # r
  PROVE  /\ tx'[q] \in Tx /\ TxOK(tx[q])' /\ Unraced(tx[q])' /\ AnswerOK(tx[q])'
         /\ tx'[q].kind = tx[q].kind /\ tx'[q].email = tx[q].email /\ tx'[q].sub = tx[q].sub
         /\ tx'[q].newUser = tx[q].newUser /\ tx'[q].newIdentity = tx[q].newIdentity
<1> DEFINE c == tx[r]
           t == tx[q]
<1>1. /\ c \in Tx /\ TxOK(c) /\ c.pc = "commit"
      /\ identities' = IF c.newIdentity THEN identities \cup {NewRow(c)} ELSE identities
      /\ c.newUser => c.newIdentity
      /\ DOMAIN users \subseteq DOMAIN users'
  BY CommitRows
<1>2. /\ \A e : ~(c.newUser /\ e = c.email) => UserOf(e)' = UserOf(e)
      /\ \A s : Linked(s)' = IF c.newIdentity /\ c.kind = "google" /\ s = c.sub
                             THEN Linked(s) \cup {NewRow(c)} ELSE Linked(s)
      /\ c.newIdentity /\ c.kind = "google" => Linked(c.sub) = {}
  BY CommitFinds
<1>3. t \in Tx /\ TxOK(t) /\ Unraced(t) /\ AnswerOK(t) /\ Alone(c, t)
  BY DEF Inv
<1>4. tx'[q] = IF t.kind = "google" /\ t.pc \notin {"idle", "done"} /\ c.newIdentity
               THEN [t EXCEPT !.raced = TRUE] ELSE t
  BY DEF Commit, Active
<1> HIDE DEF c
<1>5. /\ tx'[q] \in Tx /\ tx'[q].pc = t.pc /\ tx'[q].kind = t.kind
      /\ tx'[q].email = t.email /\ tx'[q].sub = t.sub /\ tx'[q].user = t.user
      /\ tx'[q].newUser = t.newUser /\ tx'[q].newIdentity = t.newIdentity
      /\ tx'[q].result = t.result
      /\ t.kind = "google" /\ t.pc \notin {"idle", "done"} /\ c.newIdentity => tx'[q].raced
      /\ t.raced => tx'[q].raced
  BY <1>3, <1>4 DEF Tx
<1> HIDE DEF t
<1>6. /\ UserOf(tx[q].email)' = {u \in DOMAIN users' : users'[u] = t.email}
      /\ Linked(tx[q].sub)' = {i \in identities' : i.provider = "google" /\ i.uid = t.sub}
  BY <1>5 DEF UserOf, Linked
<1>7. ASSUME ~(c.newUser /\ t.email = c.email) PROVE UserOf(tx[q].email)' = UserOf(t.email)
  BY <1>2, <1>6, <1>7 DEF UserOf
<1>8. /\ ~(c.newIdentity /\ c.kind = "google" /\ t.sub = c.sub) =>
           Linked(tx[q].sub)' = Linked(t.sub)
      /\ c.newIdentity /\ c.kind = "google" /\ t.sub = c.sub => Linked(t.sub) = {}
  BY <1>2, <1>6 DEF Linked
<1>9. TxOK(tx[q])'
  <2>1. t.newUser => UserOf(tx[q].email)' = {}
    BY <1>3, <1>7 DEF TxOK, Alone
  <2>2. t.newIdentity /\ t.kind = "google" => Linked(tx[q].sub)' = {}
    BY <1>3, <1>8 DEF TxOK, Alone
  <2>3. Own(t) => Own(tx[q])'
    BY <1>5, <1>8 DEF Own
  <2>4. QED BY <1>1, <1>3, <1>5, <2>1, <2>2, <2>3 DEF TxOK
<1>10. Unraced(tx[q])'
  BY <1>1, <1>3, <1>5, <1>7, <1>8 DEF Unraced
<1>11. AnswerOK(tx[q])'
  <2>1. Own(t) => Own(tx[q])'
    BY <1>5, <1>8 DEF Own
  <2>2. QED BY <1>3, <1>5, <2>1 DEF AnswerOK
<1>12. QED BY <1>5, <1>9, <1>10, <1>11 DEF t

\* The committing request is done, or gone before its answer.
LEMMA CommitOwn ==
  ASSUME Inv, NEW r \in Requests, Commit(r)
  PROVE  /\ tx'[r] \in Tx /\ TxOK(tx[r])' /\ Unraced(tx[r])' /\ AnswerOK(tx[r])'
         /\ ~tx'[r].newUser /\ ~tx'[r].newIdentity
<1> DEFINE c == tx[r]
           a == Answered(r, "in")
<1>1. /\ c \in Tx /\ TxOK(c) /\ c.pc = "commit"
      /\ CommitUser(c) \in DOMAIN users' /\ CommitUser(c) \in Nat
  BY CommitRows
<1>2. /\ \A s : Linked(s)' = IF c.newIdentity /\ c.kind = "google" /\ s = c.sub
                             THEN Linked(s) \cup {NewRow(c)} ELSE Linked(s)
      /\ NewRow(c).user = CommitUser(c)
      /\ c.newIdentity /\ c.kind = "google" => Linked(c.sub) = {}
  BY CommitFinds
<1>3. tx'[r] = Idle \/ tx'[r] = [a EXCEPT !.user = CommitUser(c)]
  BY DEF Commit, CommitUser
<1>4. /\ a \in Tx /\ a.pc = "done" /\ a.kind = c.kind /\ a.sub = c.sub
      /\ ~a.newUser /\ ~a.newIdentity /\ a.result = "in"
  BY AnsweredFacts
<1> HIDE DEF c, a
<1>5. CASE tx'[r] = Idle
  BY <1>5, IdleFacts DEF TxOK, Unraced, AnswerOK, NoUser
<1>6. CASE tx'[r] = [a EXCEPT !.user = CommitUser(c)]
  <2>1. /\ tx'[r] \in Tx /\ tx'[r].pc = "done" /\ tx'[r].kind = c.kind /\ tx'[r].sub = c.sub
        /\ tx'[r].user = CommitUser(c) /\ ~tx'[r].newUser /\ ~tx'[r].newIdentity
        /\ tx'[r].result = "in"
    BY <1>1, <1>4, <1>6 DEF Tx
  <2>2. Linked(tx[r].sub)' = {i \in identities' : i.provider = "google" /\ i.uid = c.sub}
    BY <2>1 DEF Linked
  <2>3. ASSUME c.kind = "google" PROVE {i.user : i \in Linked(tx[r].sub)'} = {CommitUser(c)}
    <3>1. CASE c.newIdentity
      <4>1. Linked(tx[r].sub)' = {NewRow(c)}
        BY <1>2, <2>2, <2>3, <3>1 DEF Linked
      <4>2. QED BY <4>1, <1>2
    <3>2. CASE ~c.newIdentity
      <4>1. Linked(tx[r].sub)' = Linked(c.sub)
        BY <1>2, <2>2, <3>2 DEF Linked
      <4>2. Own(c) /\ ~c.newUser
        BY <1>1, <3>2 DEF TxOK
      <4>3. QED BY <4>1, <4>2 DEF Own, CommitUser
    <3>3. QED BY <3>1, <3>2
  <2>4. AnswerOK(tx[r])'
    BY <2>1, <2>3 DEF AnswerOK, Own
  <2>5. TxOK(tx[r])' /\ Unraced(tx[r])'
    BY <1>1, <2>1 DEF TxOK, Unraced
  <2>6. QED BY <2>1, <2>4, <2>5
<1>7. QED BY <1>3, <1>5, <1>6

LEMMA CommitStep ==
  ASSUME Inv, NEW r \in Requests, Commit(r)
  PROVE  Inv'
<1>1. RowsOK'
  BY CommitKeepsRows
<1>2. ASSUME NEW q \in Requests
      PROVE  tx'[q] \in Tx /\ TxOK(tx[q])' /\ Unraced(tx[q])' /\ AnswerOK(tx[q])'
  BY CommitOwn, CommitOther
<1>3. DOMAIN tx' = Requests /\ tx' = [q \in Requests |-> tx'[q]]
  BY DEF Commit
<1>4. tx' \in [Requests -> Tx]
  BY <1>2, <1>3
<1>5. ASSUME NEW p \in Requests, NEW q \in Requests, p # q PROVE Alone(tx[p], tx[q])'
  <2>1. CASE p = r \/ q = r
    BY <2>1, CommitOwn DEF Alone
  <2>2. CASE p # r /\ q # r
    <3>1. Alone(tx[p], tx[q])
      BY <1>5 DEF Inv
    <3>2. /\ tx'[p].kind = tx[p].kind /\ tx'[p].email = tx[p].email /\ tx'[p].sub = tx[p].sub
          /\ tx'[p].newUser = tx[p].newUser /\ tx'[p].newIdentity = tx[p].newIdentity
      BY <2>2, CommitOther
    <3>3. /\ tx'[q].kind = tx[q].kind /\ tx'[q].email = tx[q].email /\ tx'[q].sub = tx[q].sub
          /\ tx'[q].newUser = tx[q].newUser /\ tx'[q].newIdentity = tx[q].newIdentity
      BY <2>2, CommitOther
    <3>4. QED BY <3>1, <3>2, <3>3 DEF Alone
  <2>3. QED BY <2>1, <2>2
<1>6. QED BY <1>1, <1>2, <1>4, <1>5 DEF Inv

LEMMA StepInv == Inv /\ [Next]_vars => Inv'
<1> SUFFICES ASSUME Inv, [Next]_vars PROVE Inv'
  OBVIOUS
<1>1. CASE UNCHANGED <<users, identities, tx>>
  <2>1. RowsOK'
    BY <1>1 DEF Inv, RowsOK, Linked
  <2>2. ASSUME NEW r \in Requests PROVE TxOK(tx[r])' /\ Unraced(tx[r])' /\ AnswerOK(tx[r])'
    <3>1. TxOK(tx[r]) /\ Unraced(tx[r]) /\ AnswerOK(tx[r])
      BY DEF Inv
    <3>2. QED BY <1>1, <3>1 DEF TxOK, Unraced, AnswerOK, Own, Linked, UserOf
  <2>3. QED BY <1>1, <2>1, <2>2 DEF Inv, Alone
<1>2. UNCHANGED vars \/ Tick \/ (\E ip \in Clients : OtherRequest(ip)) => Inv'
  BY <1>1 DEF vars, Tick, OtherRequest
<1>3. ASSUME NEW r \in Requests, NEW ip \in Clients, NEW e \in Emails,
             SignUp(r, ip, e) \/ Login(r, ip, e) \/ \E s \in Subs : GoogleCallback(r, ip, s, e)
      PROVE  Inv'
  BY <1>3, StartStep
<1>4. ASSUME NEW r \in Requests, Fail(r) \/ Done(r) PROVE Inv'
  BY <1>4, EndStep DEF Fail, Done
<1>5. ASSUME NEW r \in Requests,
             FindCredential(r) \/ FindBySub(r) \/ FindByEmail(r)
      PROVE  Inv'
  BY <1>5, CredentialStep, FindBySubStep, FindByEmailStep
<1>6. ASSUME NEW r \in Requests, InsertUser(r) \/ InsertIdentity(r) \/ Commit(r) PROVE Inv'
  BY <1>6, InsertUserStep, InsertIdentityStep, CommitStep
<1>7. QED BY <1>2, <1>3, <1>4, <1>5, <1>6 DEF Next

\* The committed rows belong together, every request of SignUp, Login or the
\* Google callback holds what it has found, and no two transactions hold rows
\* of one email or one Google account: in every reachable state.
THEOREM AccountsInvariant == Spec => []Inv
BY InitInv, StepInv, PTL DEF Spec

\* A set of which any two members are equal.
LEMMA AtMostOne ==
  ASSUME NEW S, \A x, y \in S : x = y
  PROVE  Cardinality(S) <= 1
<1>1. CASE S = {}
  BY <1>1, FS_EmptySet
<1>2. CASE S # {}
  <2>1. PICK x \in S : TRUE
    BY <1>2
  <2>2. S = {x}
    BY <2>1
  <2>3. QED BY <2>2, FS_Singleton
<1>3. QED BY <1>1, <1>2

\* Users and identities are paired for any number of requests: no failure, at
\* whatever statement of an interleaving, leaves a user without a way in, and no
\* email or Google account gets a second user.
THEOREM AccountsPaired == Spec => []Paired
<1>1. Inv => Paired
  <2> SUFFICES ASSUME Inv PROVE Paired
    OBVIOUS
  <2>1. ASSUME NEW e \in Emails PROVE Cardinality(UserOf(e)) <= 1
    <3>1. \A u, v \in UserOf(e) : u = v
      BY DEF Inv, RowsOK, UserOf
    <3>2. QED BY <3>1, AtMostOne
  <2>2. ASSUME NEW s \in Subs PROVE Cardinality(Linked(s)) <= 1
    BY AtMostOne DEF Inv, RowsOK
  <2>3. QED BY <2>1, <2>2 DEF Inv, RowsOK, Paired
<1>2. QED BY <1>1, AccountsInvariant, PTL

\* A Google sign-in that is answered ends in the one account its sub is linked
\* to, whatever became of emails meanwhile.
THEOREM AccountsStaysWithSub == Spec => []StaysWithSub
<1>1. Inv => StaysWithSub
  BY DEF Inv, AnswerOK, Own, StaysWithSub
<1>2. QED BY <1>1, AccountsInvariant, PTL

\* A Google sign-in only collides when another transaction was committed while
\* it ran.
THEOREM AccountsConflictOnlyIfRaced == Spec => []ConflictOnlyIfRaced
<1>1. Inv => ConflictOnlyIfRaced
  BY DEF Inv, AnswerOK, ConflictOnlyIfRaced
<1>2. QED BY <1>1, AccountsInvariant, PTL

\* The rows and requests keep their types, and an identity is of a user.
THEOREM AccountsTypeOK == Spec => []TypeOK
<1>1. Inv => TypeOK
  BY DEF Inv, RowsOK, TxOK, TypeOK
<1>2. QED BY <1>1, AccountsInvariant, PTL

-----------------------------------------------------------------------------
(* The limiter, for every window and limit.                                *)

\* A window b and what was admitted by age, f.  While the window runs, its
\* count is what was admitted since it began, its first request among it; the
\* rest of the last Window units lies in the window before, whose first request
\* is too old to be counted.
WindowOK(b, f) ==
  /\ b = [count |-> b.count, age |-> b.age]
  /\ b.count \in Nat /\ b.age \in 0..Window
  /\ f \in [0..(Window - 1) -> Nat]
  /\ Limit # 0 /\ b.age = Window =>
       b.count = 0 /\ f[0] = 0 /\ SumBelow(f, Window) < Limit
  /\ Limit # 0 /\ b.age # Window =>
       /\ b.count = SumBelow(f, b.age + 1) /\ b.count <= Limit /\ f[b.age] > 0
       /\ SumBelow(f, Window) < Limit + b.count

RateInv ==
  /\ bucket = [ip \in Clients |-> bucket[ip]]
  /\ admitted = [ip \in Clients |-> admitted[ip]]
  /\ \A ip \in Clients : WindowOK(bucket[ip], admitted[ip])

Ages == 0..(Window - 1)

LEMMA AgesFinite ==
  ASSUME NEW f \in [Ages -> Nat], NEW n \in 0..Window
  PROVE  /\ IsFiniteSet(0..(n - 1)) /\ 0..(n - 1) \subseteq Ages
         /\ \A a \in 0..(n - 1) : f[a] \in Nat
         /\ SumBelow(f, n) \in Nat
<1>1. n \in Nat /\ 0..(n - 1) \subseteq Ages
  BY RateAssumption DEF Ages
<1>2. IsFiniteSet(0..(n - 1))
  BY <1>1, FS_Interval
<1>3. \A a \in 0..(n - 1) : f[a] \in Nat
  BY <1>1
<1>4. Sum(f, 0..(n - 1)) \in Nat
  BY <1>2, <1>3, SumNat
<1> QED BY <1>1, <1>2, <1>3, <1>4 DEF SumBelow

\* One unit more of the past.
LEMMA OneAgeMore ==
  ASSUME NEW f \in [Ages -> Nat], NEW n \in Ages
  PROVE  SumBelow(f, n + 1) = SumBelow(f, n) + f[n]
<1>1. n \in Nat /\ \A a \in 0..n : f[a] \in Nat
  BY RateAssumption DEF Ages
<1> QED BY <1>1, BelowStep

\* A request now counts in every stretch that reaches now.
LEMMA AdmittedNow ==
  ASSUME NEW f \in [Ages -> Nat], NEW n \in 1..Window
  PROVE  LET g == [f EXCEPT ![0] = f[0] + 1]
         IN  /\ g \in [Ages -> Nat] /\ g[0] = f[0] + 1
             /\ \A a \in Ages : g[a] >= f[a]
             /\ SumBelow(g, n) = SumBelow(f, n) + 1
<1> DEFINE g == [f EXCEPT ![0] = f[0] + 1]
<1>1. 0 \in Ages /\ n \in 0..Window /\ 0 \in 0..(n - 1)
  BY RateAssumption DEF Ages
<1>2. /\ g \in [Ages -> Nat] /\ g[0] = f[0] + 1 /\ f[0] \in Nat
      /\ \A a \in Ages : a # 0 => g[a] = f[a]
  BY <1>1
<1> HIDE DEF g
<1>3. /\ IsFiniteSet(0..(n - 1)) /\ 0..(n - 1) \subseteq Ages
      /\ SumBelow(f, n) \in Nat /\ SumBelow(g, n) \in Nat
  BY <1>1, <1>2, AgesFinite
<1>4. Sum(f, 0..(n - 1)) + g[0] = Sum(g, 0..(n - 1)) + f[0]
  <2>1. \A a \in 0..(n - 1) : f[a] \in Nat /\ g[a] \in Nat
    BY <1>2, <1>3
  <2>2. \A a \in 0..(n - 1) : a # 0 => f[a] = g[a]
    BY <1>2, <1>3
  <2> QED BY <1>1, <1>3, <2>1, <2>2, SumChange
<1>5. SumBelow(g, n) = SumBelow(f, n) + 1
  BY <1>2, <1>3, <1>4 DEF SumBelow
<1>6. \A a \in Ages : g[a] >= f[a]
  BY <1>2
<1> QED BY <1>2, <1>5, <1>6 DEF g

\* Time passes: the oldest unit leaves the stretch.
LEMMA AdmittedBefore ==
  ASSUME NEW f \in [Ages -> Nat], NEW n \in Ages
  PROVE  LET g == [a \in Ages |-> IF a = 0 THEN 0 ELSE f[a - 1]]
         IN  /\ g \in [Ages -> Nat] /\ g[0] = 0
             /\ n + 1 \in Ages => g[n + 1] = f[n]
             /\ SumBelow(g, n + 1) = SumBelow(f, n)
<1> DEFINE g == [a \in Ages |-> IF a = 0 THEN 0 ELSE f[a - 1]]
<1>1. 0 \in Ages /\ n \in Nat /\ 0..n \subseteq Ages
  BY RateAssumption DEF Ages
<1>2. \A a \in Ages : a # 0 => a - 1 \in Ages
  BY RateAssumption DEF Ages
<1>3. g \in [Ages -> Nat]
  BY <1>2
<1>4. g[0] = 0 /\ \A a \in 0..n : a > 0 => g[a] = f[a - 1]
  BY <1>1
<1>5. n + 1 \in Ages => g[n + 1] = f[n]
  BY <1>1
<1> HIDE DEF g
<1>6. \A a \in 0..n : f[a] \in Nat
  BY <1>1
<1>7. SumBelow(g, n + 1) = SumBelow(f, n)
  BY <1>1, <1>4, <1>6, BelowShift
<1> QED BY <1>3, <1>4, <1>5, <1>7 DEF g

LEMMA AdmitStep ==
  ASSUME RateInv, NEW ip \in Clients, Admit(ip)
  PROVE  RateInv'
<1> DEFINE b == bucket[ip]
           f == admitted[ip]
           g == [f EXCEPT ![0] = f[0] + 1]
           c == IF Limit = 0 THEN b
                ELSE IF b.age = Window THEN [count |-> 1, age |-> 0]
                ELSE [b EXCEPT !.count = b.count + 1]
<1>1. /\ WindowOK(b, f) /\ bucket' = [bucket EXCEPT ![ip] = c]
      /\ admitted' = [admitted EXCEPT ![ip] = g]
      /\ Limit = 0 \/ b.age = Window \/ b.count < Limit
  <2>1. WindowOK(b, f)
    BY DEF RateInv
  <2>2. admitted' = [admitted EXCEPT ![ip] = g]
    BY DEF Admit
  <2>3. bucket' = [bucket EXCEPT ![ip] = c]
    <3>1. CASE Limit = 0
      BY <3>1 DEF Admit
    <3>2. CASE Limit # 0 /\ b.age = Window
      BY <3>2 DEF Admit
    <3>3. CASE Limit # 0 /\ b.age # Window
      BY <3>3 DEF Admit
    <3> QED BY <3>1, <3>2, <3>3
  <2>4. Limit = 0 \/ b.age = Window \/ b.count < Limit
    BY DEF Admit, Allows
  <2> QED BY <2>1, <2>2, <2>3, <2>4
<1>2. /\ bucket' = [o \in Clients |-> IF o = ip THEN c ELSE bucket[o]]
      /\ admitted' = [o \in Clients |-> IF o = ip THEN g ELSE admitted[o]]
  BY <1>1 DEF RateInv
<1> HIDE DEF b, f
<1>3. /\ f \in [Ages -> Nat] /\ b.count \in Nat /\ b.age \in 0..Window
      /\ b = [count |-> b.count, age |-> b.age]
  BY <1>1 DEF WindowOK, Ages
<1>4. /\ g \in [Ages -> Nat] /\ g[0] = f[0] + 1 /\ f[0] \in Nat
      /\ \A a \in Ages : g[a] >= f[a]
      /\ \A n \in 1..Window : SumBelow(g, n) = SumBelow(f, n) + 1
  <2>1. 1 \in 1..Window /\ 0 \in Ages
    BY RateAssumption DEF Ages
  <2> QED BY <1>3, <2>1, AdmittedNow
<1> HIDE DEF g
<1>5. WindowOK(c, g)
  <2>1. CASE Limit = 0
    BY <1>3, <1>4, <2>1 DEF WindowOK, Ages
  <2>2. CASE Limit # 0 /\ b.age = Window
    <3>1. c = [count |-> 1, age |-> 0]
      BY <2>2
    <3>2. f[0] = 0 /\ SumBelow(f, Window) < Limit
      BY <1>1, <2>2 DEF WindowOK
    <3>3. Window \in 1..Window /\ 1 \in 1..Window /\ 0 \in Ages
      BY RateAssumption DEF Ages
    <3>4. SumBelow(g, Window) = SumBelow(f, Window) + 1 /\ SumBelow(f, Window) \in Nat
      BY <1>3, <1>4, <3>3, AgesFinite
    <3>5. SumBelow(g, 1) = 1
      <4>1. SumBelow(g, 0 + 1) = SumBelow(g, 0) + g[0]
        BY <1>4, <3>3, OneAgeMore
      <4>2. SumBelow(g, 0) = 0
        <5>1. \A a \in 0..0 : g[a] \in Nat
          BY <1>4, <3>3
        <5> QED BY <5>1, BelowStep
      <4> QED BY <1>4, <3>2, <4>1, <4>2
    <3>6. /\ c.count = 1 /\ c.age = 0 /\ 0 \in 0..Window /\ 0 # Window /\ 0 + 1 = 1
          /\ g[0] > 0 /\ 1 <= Limit /\ SumBelow(g, Window) < Limit + 1
      BY <1>4, <3>1, <3>2, <3>4, RateAssumption
    <3> QED BY <1>4, <3>1, <3>5, <3>6 DEF WindowOK, Ages
  <2>3. CASE Limit # 0 /\ b.age # Window
    <3>1. c = [count |-> b.count + 1, age |-> b.age]
      BY <1>3, <2>3
    <3>2. /\ b.count = SumBelow(f, b.age + 1) /\ b.count <= Limit /\ f[b.age] > 0
          /\ SumBelow(f, Window) < Limit + b.count /\ b.count < Limit
      BY <1>1, <2>3 DEF WindowOK
    <3>3. Window \in 1..Window /\ b.age + 1 \in 1..Window /\ b.age \in Ages
      BY <1>3, <2>3, RateAssumption DEF Ages
    <3>4. /\ SumBelow(g, Window) = SumBelow(f, Window) + 1 /\ SumBelow(f, Window) \in Nat
          /\ SumBelow(g, b.age + 1) = b.count + 1
      BY <1>3, <1>4, <3>2, <3>3, AgesFinite
    <3>5. g[b.age] > 0
      BY <1>3, <1>4, <3>2, <3>3
    <3>6. b.count + 1 <= Limit /\ SumBelow(g, Window) < Limit + (b.count + 1)
      BY <1>3, <3>2, <3>4, RateAssumption
    <3>7. c.count = b.count + 1 /\ c.age = b.age /\ b.count + 1 \in Nat
      BY <1>3, <3>1
    <3> HIDE DEF c
    <3> QED BY <1>3, <1>4, <2>3, <3>1, <3>4, <3>5, <3>6, <3>7 DEF WindowOK, Ages
  <2> QED BY <2>1, <2>2, <2>3
<1> HIDE DEF c
<1>6. \A o \in Clients : WindowOK(bucket'[o], admitted'[o])
  BY <1>2, <1>5 DEF RateInv
<1> QED BY <1>2, <1>6 DEF RateInv, WindowOK

LEMMA RateTickStep ==
  ASSUME RateInv, RateTick
  PROVE  RateInv'
<1>1. ASSUME NEW ip \in Clients PROVE WindowOK(bucket'[ip], admitted'[ip])
  <2> DEFINE b == bucket[ip]
             f == admitted[ip]
             g == [a \in Ages |-> IF a = 0 THEN 0 ELSE f[a - 1]]
             c == IF b.age + 1 >= Window THEN NoBucket ELSE [b EXCEPT !.age = b.age + 1]
  <2>1. WindowOK(b, f) /\ bucket'[ip] = c /\ admitted'[ip] = g
    BY DEF RateInv, RateTick, Ages
  <2> HIDE DEF b, f
  <2>2. /\ f \in [Ages -> Nat] /\ b.count \in Nat /\ b.age \in 0..Window
        /\ b = [count |-> b.count, age |-> b.age] /\ Window \in Nat /\ Limit \in Nat
    BY <2>1, RateAssumption DEF WindowOK, Ages
  <2>3. /\ g \in [Ages -> Nat] /\ g[0] = 0
        /\ \A n \in Ages : n + 1 \in Ages => g[n + 1] = f[n]
        /\ \A n \in Ages : SumBelow(g, n + 1) = SumBelow(f, n)
    <3>1. 0 \in Ages
      BY RateAssumption DEF Ages
    <3> QED BY <2>2, <3>1, AdmittedBefore
  <2> HIDE DEF g
  <2>4. /\ Window - 1 \in Ages /\ (Window - 1) + 1 = Window
        /\ Window - 1 \in 0..Window /\ Window \in 0..Window
    BY RateAssumption DEF Ages
  <2>5. /\ SumBelow(g, Window) = SumBelow(f, Window - 1)
        /\ SumBelow(f, Window) = SumBelow(f, Window - 1) + f[Window - 1]
        /\ SumBelow(f, Window - 1) \in Nat /\ f[Window - 1] \in Nat
    BY <2>2, <2>3, <2>4, OneAgeMore, AgesFinite
  <2>6. CASE b.age + 1 >= Window
    <3>1. c = NoBucket /\ NoBucket = [count |-> 0, age |-> Window]
      BY <2>6 DEF NoBucket
    <3>2. ASSUME Limit # 0 PROVE SumBelow(g, Window) < Limit
      <4>1. CASE b.age = Window
        <5>1. SumBelow(f, Window) < Limit
          BY <2>1, <3>2, <4>1 DEF WindowOK
        <5> QED BY <2>2, <2>5, <5>1
      <4>2. CASE b.age # Window
        <5>1. b.age = Window - 1 /\ b.age + 1 = Window
          BY <2>2, <2>6, <4>2
        <5>2. b.count = SumBelow(f, Window) /\ b.count <= Limit /\ f[Window - 1] > 0
          BY <2>1, <3>2, <4>2, <5>1 DEF WindowOK
        <5> QED BY <2>2, <2>5, <5>2
      <4> QED BY <4>1, <4>2
    <3>3. c.count = 0 /\ c.age = Window /\ c = [count |-> c.count, age |-> c.age]
      BY <3>1
    <3>4. g \in [0..(Window - 1) -> Nat] /\ g[0] = 0
      BY <2>3 DEF Ages
    <3>5. c.count \in Nat /\ c.age \in 0..Window
      BY <2>4, <3>3
    <3> HIDE DEF c
    <3>6. WindowOK(c, g)
      BY <3>2, <3>3, <3>4, <3>5 DEF WindowOK
    <3> QED BY <2>1, <3>6
  <2>7. CASE ~(b.age + 1 >= Window)
    <3>1. c = [count |-> b.count, age |-> b.age + 1]
      BY <2>2, <2>7
    <3>2. /\ b.age # Window /\ b.age + 1 # Window /\ b.age + 1 \in 0..Window
          /\ b.age \in Ages /\ b.age + 1 \in Ages
      BY <2>2, <2>7 DEF Ages
    <3>3. ASSUME Limit # 0
          PROVE  /\ b.count = SumBelow(g, (b.age + 1) + 1) /\ b.count <= Limit
                 /\ g[b.age + 1] > 0 /\ SumBelow(g, Window) < Limit + b.count
      <4>1. /\ b.count = SumBelow(f, b.age + 1) /\ b.count <= Limit /\ f[b.age] > 0
            /\ SumBelow(f, Window) < Limit + b.count
        BY <2>1, <3>2, <3>3 DEF WindowOK
      <4>2. SumBelow(g, Window) < Limit + b.count
        BY <2>2, <2>5, <4>1
      <4> QED BY <2>3, <3>2, <4>1, <4>2
    <3>4. c.count = b.count /\ c.age = b.age + 1 /\ c = [count |-> c.count, age |-> c.age]
      BY <3>1
    <3>5. g \in [0..(Window - 1) -> Nat]
      BY <2>3 DEF Ages
    <3>6. c.count \in Nat /\ c.age \in 0..Window /\ c.age # Window
      BY <2>2, <3>2, <3>4
    <3> HIDE DEF c
    <3>7. ASSUME Limit # 0
          PROVE  /\ c.count = SumBelow(g, c.age + 1) /\ c.count <= Limit
                 /\ g[c.age] > 0 /\ SumBelow(g, Window) < Limit + c.count
      BY <3>3, <3>4, <3>7
    <3>8. WindowOK(c, g)
      BY <3>4, <3>5, <3>6, <3>7 DEF WindowOK
    <3> QED BY <2>1, <3>8
  <2> QED BY <2>6, <2>7
<1>2. /\ bucket' = [ip \in Clients |-> bucket'[ip]]
      /\ admitted' = [ip \in Clients |-> admitted'[ip]]
  BY DEF RateTick
<1> QED BY <1>1, <1>2 DEF RateInv, WindowOK

\* Whatever the window, the limit, and the times of the requests: a client gets
\* fewer than twice the limit through in any stretch of a window's length, and
\* never more than the limit in one window.
THEOREM AccountsAdmittedBound == Spec => []AdmittedBound
<1>1. Init => RateInv
  <2> SUFFICES ASSUME Init PROVE RateInv
    OBVIOUS
  <2> DEFINE none == [a \in Ages |-> 0]
  <2>1. /\ bucket = [ip \in Clients |-> NoBucket]
        /\ admitted = [ip \in Clients |-> none]
    BY DEF Init, InitRate, Ages
  <2>2. none \in [Ages -> Nat] /\ \A a \in Ages : none[a] = 0
    OBVIOUS
  <2> HIDE DEF none
  <2>3. IsFiniteSet(0..(Window - 1)) /\ 0 \in Ages
    BY RateAssumption, FS_Interval DEF Ages
  <2>4. SumBelow(none, Window) = 0
    BY <2>2, <2>3, SumZero DEF SumBelow, Ages
  <2>5. WindowOK(NoBucket, none)
    BY <2>2, <2>3, <2>4, RateAssumption DEF WindowOK, NoBucket, Ages
  <2> QED BY <2>1, <2>5 DEF RateInv
<1>2. RateInv /\ [Next]_vars => RateInv'
  <2> SUFFICES ASSUME RateInv, [Next]_vars PROVE RateInv'
    OBVIOUS
  <2>1. CASE UNCHANGED rateVars
    BY <2>1 DEF rateVars, RateInv, WindowOK
  <2>2. CASE \E ip \in Clients : Admit(ip)
    BY <2>2, AdmitStep
  <2>3. CASE RateTick
    BY <2>3, RateTickStep
  <2> QED BY <2>1, <2>2, <2>3
       DEF Next, vars, rateVars, Tick, OtherRequest, SignUp, Login, GoogleCallback, FindCredential,
           FindBySub, FindByEmail, InsertUser, InsertIdentity, Commit, Fail, Done
<1>3. RateInv => AdmittedBound
  <2> SUFFICES ASSUME RateInv, Limit # 0, NEW ip \in Clients
               PROVE  Lately(ip) < 2 * Limit /\ bucket[ip].count <= Limit
    BY DEF AdmittedBound
  <2> DEFINE b == bucket[ip]
             f == admitted[ip]
  <2>1. WindowOK(b, f)
    BY DEF RateInv
  <2>2. Lately(ip) = SumBelow(f, Window)
    BY MapIsSum DEF Lately, SumBelow
  <2> HIDE DEF b, f
  <2>3. b.count \in Nat /\ Limit \in Nat /\ Limit > 0 /\ SumBelow(f, Window) \in Nat
    <3>1. f \in [Ages -> Nat] /\ Window \in 0..Window
      BY <2>1, RateAssumption DEF WindowOK, Ages
    <3> QED BY <2>1, <3>1, RateAssumption, AgesFinite DEF WindowOK
  <2>4. CASE b.age = Window
    <3>1. b.count = 0 /\ SumBelow(f, Window) < Limit
      BY <2>1, <2>4 DEF WindowOK
    <3> QED BY <2>2, <2>3, <3>1 DEF b
  <2>5. CASE b.age # Window
    <3>1. b.count <= Limit /\ SumBelow(f, Window) < Limit + b.count
      BY <2>1, <2>5 DEF WindowOK
    <3> QED BY <2>2, <2>3, <3>1 DEF b
  <2> QED BY <2>4, <2>5
<1> QED BY <1>1, <1>2, <1>3, PTL DEF Spec

-----------------------------------------------------------------------------
USE BillingAssumption

\* The premium subscription of a user.  What is in circulation (events, the
\* copies that deliveries and the operator's command hold) is of a subscription
\* that Stripe has, and promises no more than Stripe does by now.
HookRecord == [pc : {"idle", "parsed", "writing"}, event : States, raced : BOOLEAN]
StripeState == [status : Live \cup {"none", "canceled"}, end : Nat, version : 0..MaxVersion]

EventsOK ==
  \A e \in events :
    /\ e.state.sub \in StripeSubs
    /\ e.state.end <= stripe[e.state.sub].end
    /\ IF e.kind = "session" THEN stripe[e.state.sub].status # "none"
                             ELSE e.state.status # "none"

HooksOK ==
  \A h \in Handlers :
    hook[h].pc # "idle" =>
      /\ hook[h].event.sub \in StripeSubs /\ hook[h].event.status # "none"
      /\ hook[h].event.end <= stripe[hook[h].event.sub].end

StripeOK ==
  \A s \in StripeSubs :
    /\ stripe[s].status = "none" => stripe[s].end = 0
    /\ stripe[s].end <= now + Trial + Period

BillTypes == TypeOKBilling /\ EventsOK /\ HooksOK /\ StripeOK

\* The types, spelt out.
LEMMA BillTypeFacts ==
  ASSUME BillTypes
  PROVE  /\ now \in Nat /\ Period \in Nat /\ Trial \in Nat /\ Grace \in Nat
         /\ MaxVersion \in Nat /\ MaxTime \in Nat /\ MaxSessions \in Nat /\ MaxGrants \in Nat
         /\ NoStripeSub \notin StripeSubs
         /\ stripe \in [StripeSubs -> StripeState]
         /\ hook \in [Handlers -> HookRecord]
         /\ row \in States
         /\ cli \in [pc : {"idle", "granting", "revoking"}, seen : States, raced : BOOLEAN]
         /\ NoState \in States /\ IdleHook \in HookRecord
BY DEF BillingAssumption, BillTypes, TypeOKBilling, HookRecord, StripeState,
       NoState, IdleHook, States

LEMMA BillInitTypes ==
  ASSUME InitBilling
  PROVE  BillTypes
<1>1. NoState \in States /\ IdleHook \in HookRecord
      /\ IdleCli \in [pc : {"idle", "granting", "revoking"}, seen : States, raced : BOOLEAN]
      /\ IdleHook.pc = "idle"
  BY DEF BillingAssumption, HookRecord, NoState, NoRow, IdleHook,
         IdleCli, States
<1>2. TypeOKBilling
  <2>1. /\ now \in 0..MaxTime /\ row \in States /\ row = NoRow
        /\ \A e \in events : e.kind \in {"subscription", "session"} /\ e.state \in States
        /\ cli \in [pc : {"idle", "granting", "revoking"}, seen : States, raced : BOOLEAN]
        /\ blind \in BOOLEAN
    <3>1. now \in 0..MaxTime
      BY DEF InitBilling, BillingAssumption
    <3>2. row \in States /\ row = NoRow
      BY <1>1 DEF InitBilling, NoRow
    <3>3. \A e \in events : e.kind \in {"subscription", "session"} /\ e.state \in States
      BY DEF InitBilling
    <3>4. cli \in [pc : {"idle", "granting", "revoking"}, seen : States, raced : BOOLEAN]
      BY <1>1 DEF InitBilling
    <3>5. blind \in BOOLEAN
      BY Zenon DEF InitBilling
    <3> QED BY <3>1, <3>2, <3>3, <3>4, <3>5
  <2>2. grants \in [made : 0..MaxGrants, last : 0..MaxTime]
    BY DEF InitBilling, BillingAssumption
  <2>3. stripe \in [StripeSubs -> [status : Live \cup {"none", "canceled"}, end : Nat,
                                   version : 0..MaxVersion]]
    BY DEF InitBilling, BillingAssumption
  <2>4. sessions \in [BOOLEAN -> 0..MaxSessions]
    <3>1. 0 \in 0..MaxSessions
      BY DEF BillingAssumption
    <3> QED BY <3>1, Zenon DEF InitBilling
  <2>5. hook \in [Handlers -> [pc : {"idle", "parsed", "writing"}, event : States,
                               raced : BOOLEAN]]
    BY <1>1 DEF InitBilling, HookRecord
  <2> QED BY <2>1, <2>2, <2>3, <2>4, <2>5 DEF TypeOKBilling
<1>3. EventsOK /\ HooksOK /\ StripeOK
  BY <1>1 DEF InitBilling, EventsOK, HooksOK, StripeOK, BillingAssumption
<1> QED BY <1>2, <1>3 DEF BillTypes

\* What a write of the row does to the deliveries.
LEMMA RacedEffect ==
  ASSUME BillTypes, NEW others \in SUBSET Handlers,
         hook' = RacedHooks(others)
  PROVE  /\ hook' \in [Handlers -> HookRecord]
         /\ \A h \in others : /\ hook'[h].pc = hook[h].pc
                              /\ hook'[h].event = hook[h].event
                              /\ hook[h].pc = "writing" => hook'[h].raced
         /\ \A h \in Handlers \ others : hook'[h] = IdleHook
<1>1. /\ hook' = [h \in Handlers |-> hook'[h]]
      /\ \A h \in Handlers :
           hook'[h] = IF h \in others /\ hook[h].pc = "writing"
                      THEN [hook[h] EXCEPT !.raced = TRUE]
                      ELSE IF h \in others THEN hook[h] ELSE IdleHook
  BY DEF RacedHooks
<1>2. ASSUME NEW h \in Handlers
      PROVE  /\ hook'[h] \in HookRecord
             /\ h \in others => /\ hook'[h].pc = hook[h].pc
                                /\ hook'[h].event = hook[h].event
                                /\ hook[h].pc = "writing" => hook'[h].raced
             /\ h \notin others => hook'[h] = IdleHook
  <2>1. hook[h] \in HookRecord /\ IdleHook \in HookRecord
    BY BillTypeFacts
  <2>2. CASE h \in others /\ hook[h].pc = "writing"
    <3>1. hook'[h] = [hook[h] EXCEPT !.raced = TRUE]
      BY <1>1, <2>2
    <3>2. hook'[h] \in HookRecord /\ hook'[h].raced = TRUE
          /\ hook'[h].pc = hook[h].pc /\ hook'[h].event = hook[h].event
      BY <2>1, <3>1 DEF HookRecord
    <3> QED BY <2>2, <3>2
  <2>3. CASE ~(h \in others /\ hook[h].pc = "writing")
    BY <1>1, <2>1, <2>3
  <2> QED BY <2>2, <2>3
<1> QED BY <1>1, <1>2

\* A change of one subscription at Stripe: its end never moves back.
LEMMA ChangeEffect ==
  ASSUME BillTypes, NEW s \in StripeSubs,
         NEW status \in Live \cup {"canceled"}, NEW end \in Nat,
         stripe[s].end <= end, end <= now + Trial + Period,
         NEW more, \A e \in more :
           /\ e.kind = "session" /\ e.state \in States
           /\ e.state.sub = s /\ e.state.end = 0,
         Change(s, status, end, more)
  PROVE  /\ BillTypes' \/ ~(sessions' \in [BOOLEAN -> 0..MaxSessions])
         /\ stripe'[s].status = status /\ stripe'[s].end = end
         /\ \A u \in StripeSubs : /\ u # s => stripe'[u] = stripe[u]
                                  /\ stripe[u].end <= stripe'[u].end
         /\ UNCHANGED <<now, row, hook, cli, grants, blind>>
<1> DEFINE version == stripe[s].version + 1
           sent == [kind |-> "subscription", state |-> Subscription(s, status, end, version)]
<1>1. /\ version <= MaxVersion
      /\ stripe' = [stripe EXCEPT ![s] = [status |-> status, end |-> end, version |-> version]]
      /\ events' = events \cup more \cup {sent}
      /\ UNCHANGED <<now, row, hook, cli, grants, blind>>
  BY DEF Change
<1>2. /\ stripe \in [StripeSubs -> StripeState] /\ version \in 0..MaxVersion
      /\ now \in Nat /\ Period \in Nat /\ Trial \in Nat
  BY <1>1, BillTypeFacts DEF StripeState
<1>3. sent.kind = "subscription" /\ sent.state \in States /\ sent.state.sub = s
      /\ sent.state.end = end /\ sent.state.status = status /\ status # "none"
  BY <1>2 DEF States, Subscription, Live
<1> HIDE DEF version, sent
<1>4. /\ stripe' \in [StripeSubs -> StripeState]
      /\ stripe'[s].status = status /\ stripe'[s].end = end
      /\ \A u \in StripeSubs : u # s => stripe'[u] = stripe[u]
  BY <1>1, <1>2 DEF StripeState
<1>5. \A u \in StripeSubs : stripe[u].end <= stripe'[u].end /\ stripe[u].end \in Nat
                            /\ stripe'[u].end \in Nat
  BY <1>2, <1>4 DEF StripeState
<1>6. StripeOK'
  BY <1>1, <1>2, <1>3, <1>4 DEF StripeOK, BillTypes
<1>7. HooksOK'
  <2> SUFFICES ASSUME NEW h \in Handlers, hook[h].pc # "idle"
               PROVE  /\ hook[h].event.sub \in StripeSubs /\ hook[h].event.status # "none"
                      /\ hook[h].event.end <= stripe'[hook[h].event.sub].end
    BY <1>1 DEF HooksOK
  <2>1. hook[h].event.sub \in StripeSubs /\ hook[h].event.status # "none"
        /\ hook[h].event.end <= stripe[hook[h].event.sub].end
    BY DEF HooksOK, BillTypes
  <2>2. hook[h].event.end \in Nat
    BY BillTypeFacts DEF HookRecord, States
  <2> QED BY <1>5, <2>1, <2>2
<1>8. EventsOK' /\ \A e \in events' : e.kind \in {"subscription", "session"} /\ e.state \in States
  <2> SUFFICES ASSUME NEW e \in events'
               PROVE  /\ e.kind \in {"subscription", "session"} /\ e.state \in States
                      /\ e.state.sub \in StripeSubs
                      /\ e.state.end <= stripe'[e.state.sub].end
                      /\ IF e.kind = "session" THEN stripe'[e.state.sub].status # "none"
                                               ELSE e.state.status # "none"
    BY DEF EventsOK
  <2>1. CASE e \in events
    <3>1. /\ e.kind \in {"subscription", "session"} /\ e.state \in States
          /\ e.state.sub \in StripeSubs
          /\ e.state.end <= stripe[e.state.sub].end
          /\ IF e.kind = "session" THEN stripe[e.state.sub].status # "none"
                                   ELSE e.state.status # "none"
      BY <2>1 DEF EventsOK, BillTypes, TypeOKBilling
    <3>2. e.state.end \in Nat
      BY <3>1 DEF States
    <3>3. stripe'[e.state.sub].status # "none" \/ stripe'[e.state.sub] = stripe[e.state.sub]
      BY <1>3, <1>4, <3>1
    <3> QED BY <1>5, <3>1, <3>2, <3>3
  <2>2. CASE e = sent
    BY <1>3, <1>4, <2>2
  <2>3. CASE e \in more
    BY <1>3, <1>4, <2>3
  <2> QED BY <1>1, <2>1, <2>2, <2>3
<1>9. sessions' \in [BOOLEAN -> 0..MaxSessions] => TypeOKBilling'
  BY <1>1, <1>4, <1>8 DEF BillTypes, TypeOKBilling, StripeState
<1> QED BY <1>1, <1>4, <1>5, <1>6, <1>7, <1>8, <1>9 DEF BillTypes

\* The sessions are counted by a Boolean; a session opened, and one completed.
OpenSessions == sessions[TRUE] + sessions[FALSE]

LEMMA SessionCount ==
  ASSUME TypeOKBilling, MaxSessions \in Nat
  PROVE  /\ sessions[TRUE] \in 0..MaxSessions /\ sessions[FALSE] \in 0..MaxSessions
         /\ \A t \in BOOLEAN : t = TRUE \/ t = FALSE
         /\ OpenSessions \in Nat
<1>1. sessions[TRUE] \in 0..MaxSessions /\ sessions[FALSE] \in 0..MaxSessions
  BY DEF TypeOKBilling
<1>2. ASSUME NEW a \in 0..MaxSessions, NEW b \in 0..MaxSessions PROVE a + b \in Nat
  OBVIOUS
<1>3. OpenSessions \in Nat
  BY <1>1, <1>2, Zenon DEF OpenSessions
<1> QED BY <1>1, <1>3

LEMMA OpenEffect ==
  ASSUME BillTypes, OpenSession
  PROVE  /\ BillTypes'
         /\ OpenSessions' = OpenSessions + 1
         /\ UNCHANGED <<now, row, stripe, events, hook, cli, grants>>
<1>1. PICK t \in BOOLEAN : t = (row = NoRow)
  OBVIOUS
<1>2. /\ sessions[TRUE] + sessions[FALSE] < MaxSessions
      /\ sessions' = [sessions EXCEPT ![t] = @ + 1]
      /\ UNCHANGED <<now, row, stripe, events, hook, cli, grants>>
      /\ blind' \in BOOLEAN
  BY <1>1 DEF OpenSession, BillTypes, TypeOKBilling
<1>3. sessions \in [BOOLEAN -> 0..MaxSessions] /\ MaxSessions \in Nat
      /\ sessions[TRUE] \in 0..MaxSessions /\ sessions[FALSE] \in 0..MaxSessions
  BY BillTypeFacts, SessionCount DEF BillTypes, TypeOKBilling
<1>4. /\ sessions' \in [BOOLEAN -> 0..MaxSessions]
      /\ OpenSessions' = OpenSessions + 1
  <2> DEFINE a == sessions[TRUE]
             b == sessions[FALSE]
             c == sessions[t]
             a1 == sessions'[TRUE]
             b1 == sessions'[FALSE]
  <2>1. c = a \/ c = b
    BY Zenon
  <2>2. a \in 0..MaxSessions /\ b \in 0..MaxSessions /\ a + b < MaxSessions
    BY <1>2, <1>3, Zenon
  <2>3. sessions' = [sessions EXCEPT ![t] = c + 1]
    BY <1>2, Zenon
  <2> HIDE DEF a, b, c, a1, b1
  <2>4. c + 1 \in 0..MaxSessions
    BY <1>3, <2>1, <2>2
  <2>5. sessions' \in [BOOLEAN -> 0..MaxSessions]
    BY <1>3, <2>3, <2>4, Zenon
  <2>6. \/ a1 = a + 1 /\ b1 = b
        \/ b1 = b + 1 /\ a1 = a
    <3>1. CASE t = TRUE
      BY <1>3, <2>3, <3>1, Zenon DEF a, b, c, a1, b1
    <3>2. CASE t = FALSE
      BY <1>3, <2>3, <3>2, Zenon DEF a, b, c, a1, b1
    <3> QED BY <3>1, <3>2, SessionCount DEF BillTypes
  <2>7. a1 + b1 = a + b + 1
    BY <1>3, <2>2, <2>6
  <2> QED BY <2>5, <2>7, Zenon DEF a, b, a1, b1, OpenSessions
<1>5. TypeOKBilling'
  BY <1>2, <1>4 DEF BillTypes, TypeOKBilling
<1>6. EventsOK' /\ HooksOK' /\ StripeOK'
  BY <1>2 DEF BillTypes, EventsOK, HooksOK, StripeOK
<1> QED BY <1>2, <1>4, <1>5, <1>6 DEF BillTypes

\* A delivery moves: only its own record changes.
LEMMA HookMoves ==
  ASSUME BillTypes, NEW h \in Handlers, NEW new \in HookRecord,
         new.pc # "idle" =>
           /\ new.event.sub \in StripeSubs /\ new.event.status # "none"
           /\ new.event.end <= stripe[new.event.sub].end,
         hook' = [hook EXCEPT ![h] = new],
         UNCHANGED <<now, row, stripe, events, sessions, cli, grants, blind>>
  PROVE  /\ BillTypes'
         /\ hook'[h] = new /\ \A g \in Handlers : g # h => hook'[g] = hook[g]
<1>1. hook \in [Handlers -> HookRecord]
  BY BillTypeFacts
<1>2. hook' \in [Handlers -> HookRecord] /\ hook'[h] = new
      /\ \A g \in Handlers : g # h => hook'[g] = hook[g]
  BY <1>1
<1>3. HooksOK'
  BY <1>2 DEF BillTypes, HooksOK
<1>4. EventsOK' /\ StripeOK'
  BY DEF BillTypes, EventsOK, StripeOK
<1>5. TypeOKBilling'
  BY <1>2 DEF BillTypes, TypeOKBilling, HookRecord
<1> QED BY <1>2, <1>3, <1>4, <1>5 DEF BillTypes

\* The row is written, by a delivery or by the command: the others are raced.
LEMMA RowWritten ==
  ASSUME BillTypes, NEW others \in SUBSET Handlers,
         hook' = RacedHooks(others),
         row' \in States, row'.status # "none",
         cli' \in [pc : {"idle", "granting", "revoking"}, seen : States, raced : BOOLEAN],
         grants' \in [made : 0..MaxGrants, last : 0..MaxTime],
         UNCHANGED <<now, stripe, events, sessions, blind>>
  PROVE  BillTypes'
<1>1. /\ hook' \in [Handlers -> HookRecord]
      /\ \A h \in others : hook'[h].pc = hook[h].pc /\ hook'[h].event = hook[h].event
      /\ \A h \in Handlers \ others : hook'[h] = IdleHook
  BY RacedEffect
<1>2. IdleHook.pc = "idle"
  BY DEF IdleHook
<1>3. HooksOK'
  <2> SUFFICES ASSUME NEW h \in Handlers, hook'[h].pc # "idle"
               PROVE  /\ hook'[h].event.sub \in StripeSubs /\ hook'[h].event.status # "none"
                      /\ hook'[h].event.end <= stripe[hook'[h].event.sub].end
    BY DEF HooksOK
  <2>1. h \in others
    BY <1>1, <1>2
  <2> QED BY <1>1, <2>1 DEF HooksOK, BillTypes
<1>4. EventsOK' /\ StripeOK'
  BY DEF BillTypes, EventsOK, StripeOK
<1>5. TypeOKBilling'
  BY <1>1 DEF BillTypes, TypeOKBilling, HookRecord
<1> QED BY <1>3, <1>4, <1>5 DEF BillTypes

\* The three ways Stripe changes a subscription the user has.
LEMMA LiveChange ==
  ASSUME BillTypes, NEW s \in StripeSubs,
         Renew(s) \/ FailPayment(s) \/ End(s)
  PROVE  /\ BillTypes'
         /\ s \in LiveSubs
         /\ \A u \in StripeSubs : /\ u # s => stripe'[u] = stripe[u]
                                  /\ stripe[u].end <= stripe'[u].end
         /\ UNCHANGED <<now, row, hook, cli, grants, blind, sessions>>
<1>1. /\ stripe[s] \in StripeState /\ stripe[s].end \in Nat /\ stripe[s].end <= now + Trial + Period
      /\ now \in Nat /\ Trial \in Nat /\ Period \in Nat
      /\ "active" \in Live /\ "past_due" \in Live /\ "trialing" \in Live
  BY BillTypeFacts DEF StripeState, BillTypes, StripeOK, Live
<1>2. \A e \in {} : /\ e.kind = "session" /\ e.state \in States
                    /\ e.state.sub = s /\ e.state.end = 0
  OBVIOUS
<1>3. sessions' = sessions /\ sessions \in [BOOLEAN -> 0..MaxSessions]
  BY DEF Renew, FailPayment, End, BillTypes, TypeOKBilling
<1>4. CASE Renew(s)
  <2>1. /\ s \in LiveSubs /\ stripe[s].end <= now
        /\ Change(s, "active", stripe[s].end + Period, {})
    BY <1>4 DEF Renew
  <2>2. stripe[s].end <= stripe[s].end + Period /\ stripe[s].end + Period \in Nat
        /\ stripe[s].end + Period <= now + Trial + Period
    BY <1>1, <2>1
  <2> QED BY <1>1, <1>2, <1>3, <2>1, <2>2, ChangeEffect
<1>5. CASE FailPayment(s)
  <2>1. s \in LiveSubs /\ Change(s, "past_due", stripe[s].end, {})
    BY <1>1, <1>5 DEF FailPayment, LiveSubs
  <2>2. stripe[s].end <= stripe[s].end /\ "past_due" \in Live \cup {"canceled"}
    BY <1>1
  <2>3. /\ BillTypes' \/ ~(sessions' \in [BOOLEAN -> 0..MaxSessions])
        /\ \A u \in StripeSubs : /\ u # s => stripe'[u] = stripe[u]
                                 /\ stripe[u].end <= stripe'[u].end
        /\ UNCHANGED <<now, row, hook, cli, grants, blind>>
    BY <1>1, <1>2, <2>1, <2>2, ChangeEffect
  <2>4. BillTypes'
    BY <1>3, <2>3
  <2> QED BY <1>3, <2>1, <2>3, <2>4
<1>6. CASE End(s)
  <2>1. s \in LiveSubs /\ Change(s, "canceled", stripe[s].end, {})
    BY <1>6 DEF End
  <2>2. stripe[s].end <= stripe[s].end /\ "canceled" \in Live \cup {"canceled"}
    BY <1>1
  <2>3. /\ BillTypes' \/ ~(sessions' \in [BOOLEAN -> 0..MaxSessions])
        /\ \A u \in StripeSubs : /\ u # s => stripe'[u] = stripe[u]
                                 /\ stripe[u].end <= stripe'[u].end
        /\ UNCHANGED <<now, row, hook, cli, grants, blind>>
    BY <1>1, <1>2, <2>1, <2>2, ChangeEffect
  <2>4. BillTypes'
    BY <1>3, <2>3
  <2> QED BY <1>3, <2>1, <2>3, <2>4
<1> QED BY <1>4, <1>5, <1>6

\* A completed session is a subscription the user did not have.
LEMMA CompleteEffect ==
  ASSUME BillTypes, NEW s \in StripeSubs, NEW trial \in BOOLEAN,
         Complete(s, trial)
  PROVE  /\ BillTypes'
         /\ OpenSessions = OpenSessions' + 1
         /\ \A u \in StripeSubs : /\ u # s => stripe'[u] = stripe[u]
                                  /\ stripe[u].end <= stripe'[u].end
         /\ UNCHANGED <<now, row, hook, cli, grants, blind>>
<1> DEFINE status == IF trial THEN "trialing" ELSE "active"
           end == now + (IF trial THEN Trial ELSE Period)
           more == {[kind |-> "session", state |-> Subscription(s, "none", 0, 0)]}
<1>1. /\ sessions[trial] > 0 /\ stripe[s].status = "none"
      /\ sessions' = [sessions EXCEPT ![trial] = @ - 1]
      /\ Change(s, status, end, more)
  BY DEF Complete
<1>2. /\ stripe[s].end = 0 /\ now \in Nat /\ Trial \in Nat /\ Period \in Nat
      /\ status \in Live /\ end \in Nat /\ stripe[s].end <= end
      /\ end <= now + Trial + Period
  BY <1>1, BillTypeFacts DEF BillTypes, StripeOK, Live
<1>3. \A e \in more : /\ e.kind = "session" /\ e.state \in States
                      /\ e.state.sub = s /\ e.state.end = 0
  BY BillTypeFacts DEF Subscription, States
<1>4. sessions \in [BOOLEAN -> 0..MaxSessions] /\ MaxSessions \in Nat
      /\ sessions[TRUE] \in 0..MaxSessions /\ sessions[FALSE] \in 0..MaxSessions
  BY BillTypeFacts, SessionCount DEF BillTypes, TypeOKBilling
<1>5. /\ sessions' \in [BOOLEAN -> 0..MaxSessions]
      /\ OpenSessions = OpenSessions' + 1
  <2> DEFINE a == sessions[TRUE]
             b == sessions[FALSE]
             c == sessions[trial]
             a1 == sessions'[TRUE]
             b1 == sessions'[FALSE]
  <2>1. c = a \/ c = b
    BY Zenon
  <2>2. a \in 0..MaxSessions /\ b \in 0..MaxSessions
    BY <1>4, Zenon
  <2>3. sessions' = [sessions EXCEPT ![trial] = c - 1] /\ c > 0
    BY <1>1, Zenon
  <2> HIDE DEF a, b, c, a1, b1
  <2>4. c - 1 \in 0..MaxSessions
    BY <1>4, <2>1, <2>2, <2>3
  <2>5. sessions' \in [BOOLEAN -> 0..MaxSessions]
    BY <1>4, <2>3, <2>4, Zenon
  <2>6. \/ a1 = a - 1 /\ b1 = b
        \/ b1 = b - 1 /\ a1 = a
    <3>1. CASE trial = TRUE
      BY <1>4, <2>3, <3>1, Zenon DEF a, b, c, a1, b1
    <3>2. CASE trial = FALSE
      BY <1>4, <2>3, <3>2, Zenon DEF a, b, c, a1, b1
    <3> QED BY <3>1, <3>2, SessionCount DEF BillTypes
  <2>7. a + b = a1 + b1 + 1
    BY <1>4, <2>2, <2>6
  <2> QED BY <2>5, <2>7, Zenon DEF a, b, a1, b1, OpenSessions
<1> HIDE DEF status, end, more
<1>6. /\ BillTypes' \/ ~(sessions' \in [BOOLEAN -> 0..MaxSessions])
      /\ \A u \in StripeSubs : /\ u # s => stripe'[u] = stripe[u]
                               /\ stripe[u].end <= stripe'[u].end
      /\ UNCHANGED <<now, row, hook, cli, grants, blind>>
  BY <1>1, <1>2, <1>3, ChangeEffect
<1> QED BY <1>5, <1>6

\* What each step of a delivery makes of its record.
LEMMA ReceiveEffect ==
  ASSUME BillTypes, NEW h \in Handlers, NEW e \in events,
         Receive(h, e)
  PROVE  /\ BillTypes' /\ hook'[h].pc = "parsed"
         /\ \A g \in Handlers : g # h => hook'[g] = hook[g]
         /\ UNCHANGED <<now, row, stripe, events, sessions, cli, grants, blind>>
<1> DEFINE s == e.state.sub
           event == IF e.kind = "session"
                    THEN Subscription(s, stripe[s].status, stripe[s].end, stripe[s].version)
                    ELSE e.state
           new == [pc |-> "parsed", event |-> event, raced |-> hook[h].raced]
<1>1. /\ e.state \in States /\ s \in StripeSubs /\ e.state.end <= stripe[s].end
      /\ IF e.kind = "session" THEN stripe[s].status # "none" ELSE e.state.status # "none"
  BY DEF BillTypes, EventsOK, TypeOKBilling
<1>2. /\ stripe[s] \in StripeState /\ hook[h] \in HookRecord /\ hook \in [Handlers -> HookRecord]
  BY <1>1, BillTypeFacts
<1>3. event \in States /\ event.sub = s /\ event.status # "none" /\ event.end <= stripe[s].end
  <2>1. CASE e.kind = "session"
    <3>1. event = [sub |-> s, status |-> stripe[s].status, end |-> stripe[s].end,
                   version |-> stripe[s].version]
      BY <2>1 DEF Subscription
    <3> QED BY <1>1, <1>2, <2>1, <3>1 DEF StripeState, States
  <2>2. CASE e.kind # "session"
    BY <1>1, <2>2
  <2> QED BY <2>1, <2>2
<1>4. hook' = [hook EXCEPT ![h].pc = "parsed", ![h].event = event]
      /\ UNCHANGED <<now, row, stripe, events, sessions, cli, grants, blind>>
  BY DEF Receive
<1> HIDE DEF event, s
<1>5. hook' = [hook EXCEPT ![h] = new]
  <2>1. new = [[hook[h] EXCEPT !.pc = "parsed"] EXCEPT !.event = event]
    <3>1. hook[h] = [pc |-> hook[h].pc, event |-> hook[h].event, raced |-> hook[h].raced]
      BY <1>2 DEF HookRecord
    <3> DEFINE r == hook[h]
               q == [r EXCEPT !.pc = "parsed"]
    <3>2. new = [pc |-> "parsed", event |-> event, raced |-> r.raced]
      OBVIOUS
    <3>3. r = [pc |-> r.pc, event |-> r.event, raced |-> r.raced]
      BY <3>1
    <3> HIDE DEF r, new
    <3>4. q = [pc |-> "parsed", event |-> r.event, raced |-> r.raced]
      BY <3>3
    <3> HIDE DEF q
    <3>5. new = [q EXCEPT !.event = event]
      BY <3>2, <3>4
    <3> QED BY <3>5 DEF q, r
  <2>2. hook' = [[hook EXCEPT ![h].pc = "parsed"] EXCEPT ![h].event = event]
    BY <1>4
  <2> HIDE DEF new
  <2> QED BY <1>2, <2>1, <2>2
<1>6. new \in HookRecord /\ new.pc = "parsed" /\ new.event = event
  BY <1>2, <1>3 DEF HookRecord
<1> HIDE DEF new
<1> QED BY <1>1, <1>3, <1>4, <1>5, <1>6, HookMoves

LEMMA FindEffect ==
  ASSUME BillTypes, NEW h \in Handlers, Find(h)
  PROVE  /\ BillTypes'
         /\ hook'[h].event = hook[h].event \/ hook'[h].pc = "idle"
         /\ hook'[h].pc = "writing" => ~Protected(hook[h].event)
         /\ \A g \in Handlers : g # h => hook'[g] = hook[g]
         /\ UNCHANGED <<now, row, stripe, events, sessions, cli, grants, blind>>
<1> DEFINE new == IF Protected(hook[h].event) THEN IdleHook
                  ELSE [hook[h] EXCEPT !.pc = "writing"]
<1>1. /\ hook[h].pc = "parsed" /\ hook' = [hook EXCEPT ![h] = new]
      /\ UNCHANGED <<now, row, stripe, events, sessions, cli, grants, blind>>
  BY DEF Find
<1>2. hook[h] \in HookRecord /\ IdleHook \in HookRecord /\ IdleHook.pc = "idle"
  BY BillTypeFacts DEF IdleHook
<1>3. /\ new \in HookRecord
      /\ new.pc = "idle" \/ new.event = hook[h].event
      /\ new.pc = "writing" => ~Protected(hook[h].event)
  <2>1. CASE Protected(hook[h].event)
    BY <1>2, <2>1
  <2>2. CASE ~Protected(hook[h].event)
    <3>1. new = [hook[h] EXCEPT !.pc = "writing"]
      BY <2>2
    <3> QED BY <1>2, <2>2, <3>1 DEF HookRecord
  <2> QED BY <2>1, <2>2
<1>4. new.pc # "idle" =>
        /\ new.event.sub \in StripeSubs /\ new.event.status # "none"
        /\ new.event.end <= stripe[new.event.sub].end
  BY <1>1, <1>3 DEF BillTypes, HooksOK
<1> HIDE DEF new
<1> QED BY <1>1, <1>3, <1>4, HookMoves

LEMMA FailsEffect ==
  ASSUME BillTypes, NEW h \in Handlers, HookFails(h)
  PROVE  /\ BillTypes' /\ hook'[h].pc = "idle"
         /\ \A g \in Handlers : g # h => hook'[g] = hook[g]
         /\ UNCHANGED <<now, row, stripe, events, sessions, cli, grants, blind>>
<1>1. hook' = [hook EXCEPT ![h] = IdleHook]
      /\ UNCHANGED <<now, row, stripe, events, sessions, cli, grants, blind>>
  BY DEF HookFails
<1>2. IdleHook \in HookRecord /\ IdleHook.pc = "idle"
  BY BillTypeFacts DEF IdleHook
<1> QED BY <1>1, <1>2, HookMoves

\* A delivery writes the row.
LEMMA UpsertEffect ==
  ASSUME BillTypes, NEW h \in Handlers, Upsert(h)
  PROVE  /\ BillTypes' /\ row' = hook[h].event /\ hook[h].pc = "writing"
         /\ \A g \in Handlers : hook'[g].pc = "writing" => hook'[g].raced
         /\ cli'.pc = cli.pc /\ cli'.seen = cli.seen /\ (cli.pc # "idle" => cli'.raced)
         /\ UNCHANGED <<now, stripe, events, sessions, blind, grants>>
<1>1. /\ hook[h].pc = "writing" /\ row' = hook[h].event
      /\ hook' = RacedHooks(Handlers \ {h})
      /\ cli' = [cli EXCEPT !.raced = cli.pc # "idle"]
      /\ UNCHANGED <<now, stripe, events, sessions, grants, blind>>
  BY DEF Upsert
<1>2. hook[h].event \in States /\ hook[h].event.status # "none"
  BY <1>1, BillTypeFacts DEF HookRecord, BillTypes, HooksOK
<1>3. /\ cli'.pc = cli.pc /\ cli'.seen = cli.seen /\ cli'.raced = (cli.pc # "idle")
      /\ cli' \in [pc : {"idle", "granting", "revoking"}, seen : States, raced : BOOLEAN]
  <2>1. (cli.pc # "idle") \in BOOLEAN
        /\ cli \in [pc : {"idle", "granting", "revoking"}, seen : States, raced : BOOLEAN]
    BY BillTypeFacts
  <2> DEFINE flag == cli.pc # "idle"
  <2>2. cli' = [cli EXCEPT !.raced = flag]
    BY <1>1
  <2> HIDE DEF flag
  <2>3. /\ cli'.pc = cli.pc /\ cli'.seen = cli.seen /\ cli'.raced = flag
        /\ (flag \in BOOLEAN => cli' \in [pc : {"idle", "granting", "revoking"},
                                          seen : States, raced : BOOLEAN])
    BY <2>1, <2>2
  <2> QED BY <2>1, <2>3 DEF flag
<1>4. grants' \in [made : 0..MaxGrants, last : 0..MaxTime]
  BY <1>1 DEF BillTypes, TypeOKBilling
<1>5. BillTypes'
  BY <1>1, <1>2, <1>3, <1>4, RowWritten
<1>6. \A g \in Handlers : hook'[g].pc = "writing" => hook'[g].raced
  <2> DEFINE others == Handlers \ {h}
  <2>1. others \in SUBSET Handlers /\ h \in Handlers \ others /\ hook' = RacedHooks(others)
        /\ \A g \in Handlers : g = h \/ g \in others
    BY <1>1
  <2> HIDE DEF others
  <2>2. /\ \A g \in others : /\ hook'[g].pc = hook[g].pc
                             /\ hook[g].pc = "writing" => hook'[g].raced
        /\ hook'[h] = IdleHook
    BY <2>1, RacedEffect
  <2> SUFFICES ASSUME NEW g \in Handlers, hook'[g].pc = "writing" PROVE hook'[g].raced
    OBVIOUS
  <2>3. CASE g \in others
    BY <2>2, <2>3
  <2>4. CASE g = h
    BY <2>2, <2>4 DEF IdleHook
  <2> QED BY <2>1, <2>3, <2>4
<1> QED BY <1>1, <1>3, <1>5, <1>6

\* The operator's command reads the row, and writes on what it read.
LEMMA StartEffect ==
  ASSUME BillTypes, NEW pc \in {"granting", "revoking"},
         StartCli(pc)
  PROVE  /\ BillTypes' /\ cli'.pc # "idle" /\ cli'.seen = row
         /\ UNCHANGED <<now, row, stripe, events, sessions, hook, grants, blind>>
<1>1. cli' = [pc |-> pc, seen |-> row, raced |-> FALSE]
      /\ UNCHANGED <<now, row, stripe, events, sessions, hook, grants, blind>>
  BY DEF StartCli
<1>2. cli' \in [pc : {"idle", "granting", "revoking"}, seen : States, raced : BOOLEAN]
  BY <1>1, BillTypeFacts
<1>3. TypeOKBilling'
  BY <1>1, <1>2 DEF BillTypes, TypeOKBilling
<1>4. EventsOK' /\ HooksOK' /\ StripeOK'
  BY <1>1 DEF BillTypes, EventsOK, HooksOK, StripeOK
<1> QED BY <1>1, <1>3, <1>4 DEF BillTypes

LEMMA CliEffect ==
  ASSUME BillTypes, cli.pc = "granting" => grants.made < MaxGrants,
         Grant \/ Revoke
  PROVE  /\ BillTypes' /\ cli.pc # "idle" /\ cli'.pc = "idle" /\ row'.sub = cli.seen.sub
         /\ \A g \in Handlers : hook'[g].pc = "writing" => hook'[g].raced
         /\ \/ /\ row'.end = GrantBase + Period
               /\ grants'.made = grants.made + 1 /\ grants'.last = now
            \/ row'.end = cli.seen.end /\ UNCHANGED grants
         /\ UNCHANGED <<now, stripe, events, sessions, blind>>
<1>1. /\ cli' = IdleCli /\ hook' = RacedHooks(Handlers) /\ cli.pc # "idle"
      /\ UNCHANGED <<now, stripe, events, sessions, blind>>
  BY DEF Grant, Revoke, CliWrites
<1>2. /\ cli.seen \in States
      /\ GrantBase + Period \in Nat
      /\ grants \in [made : 0..MaxGrants, last : 0..MaxTime] /\ MaxGrants \in Nat
      /\ now \in 0..MaxTime
  BY BillTypeFacts DEF GrantBase, States, BillTypes, TypeOKBilling
<1>3. /\ row' \in States /\ row'.status # "none" /\ row'.sub = cli.seen.sub
      /\ grants' \in [made : 0..MaxGrants, last : 0..MaxTime]
      /\ \/ /\ row'.end = GrantBase + Period
            /\ grants'.made = grants.made + 1 /\ grants'.last = now
         \/ row'.end = cli.seen.end /\ UNCHANGED grants
  <2>1. CASE Grant
    <3>1. /\ cli.pc = "granting"
          /\ row' = [cli.seen EXCEPT !.status = "active", !.end = GrantBase + Period]
          /\ grants' = [made |-> grants.made + 1, last |-> now]
      BY <2>1 DEF Grant, CliWrites
    <3> DEFINE base == GrantBase + Period
    <3> HIDE DEF base
    <3>2. row' = [cli.seen EXCEPT !.status = "active", !.end = base] /\ base \in Nat
      BY <1>2, <3>1 DEF base
    <3>3. row' \in States /\ row'.status # "none" /\ row'.sub = cli.seen.sub /\ row'.end = base
      BY <1>2, <3>2 DEF States, Live
    <3>4. grants' \in [made : 0..MaxGrants, last : 0..MaxTime]
          /\ grants'.made = grants.made + 1 /\ grants'.last = now
      BY <1>2, <3>1
    <3> QED BY <3>3, <3>4 DEF base
  <2>2. CASE Revoke
    <3>1. row' = [cli.seen EXCEPT !.status = "canceled"] /\ UNCHANGED grants
      BY <2>2 DEF Revoke, CliWrites
    <3> QED BY <1>2, <3>1 DEF States
  <2> QED BY <2>1, <2>2
<1>4. cli' \in [pc : {"idle", "granting", "revoking"}, seen : States, raced : BOOLEAN]
      /\ cli'.pc = "idle"
  BY <1>1, BillTypeFacts DEF IdleCli, NoRow
<1>5. BillTypes'
  BY <1>1, <1>3, <1>4, RowWritten
<1>6. \A g \in Handlers : hook'[g].pc = "writing" => hook'[g].raced
  <2>1. \A g \in Handlers : /\ hook'[g].pc = hook[g].pc
                            /\ hook[g].pc = "writing" => hook'[g].raced
    BY <1>1, RacedEffect
  <2> QED BY <2>1
<1> QED BY <1>1, <1>3, <1>4, <1>5, <1>6

-----------------------------------------------------------------------------
\* A bounded set of numbers that is not empty has a greatest one.
Below == {p \in Nat \X Nat : p[1] < p[2]}

LEMMA Greatest ==
  ASSUME NEW T \in SUBSET Nat, T # {}, NEW N \in Nat, \A t \in T : t <= N
  PROVE  \E m \in T : \A t \in T : t <= m
<1> DEFINE D == {n \in Nat : \E t \in T : n = N - t}
<1>1. D \subseteq Nat /\ D # {}
  <2>1. PICK t \in T : t \in Nat
    OBVIOUS
  <2>2. N - t \in D
    BY <2>1
  <2> QED BY <2>2
<1>2. PICK d \in D : \A n \in D : ~(<<n, d>> \in Below)
  <2>1. IsWellFoundedOn(Below, Nat)
    BY NatLessThanWellFounded DEF OpToRel, Below
  <2> HIDE DEF D
  <2> QED BY <1>1, <2>1, WFMin
<1>3. PICK m \in T : d = N - m
  BY <1>2
<1>4. ASSUME NEW t \in T PROVE t <= m
  <2>1. N - t \in D /\ N - t \in Nat /\ d \in Nat
    BY <1>1
  <2>2. ~(N - t < d)
    BY <1>2, <2>1 DEF Below
  <2> QED BY <1>3, <2>1, <2>2
<1> QED BY <1>4

\* A write that nothing overtook is on the row as it was read; a command that
\* grants has a grant left.
CurrentOK ==
  /\ cli.pc = "granting" => grants.made < MaxGrants
  /\ cli.pc # "idle" /\ ~cli.raced => cli.seen = row
  /\ \A h \in Handlers :
       hook[h].pc = "writing" /\ ~hook[h].raced => ~Protected(hook[h].event)

\* Until a session is opened blindly, one session or one live subscription is
\* all there is.
OneLive ==
  ~blind =>
    /\ OpenSessions <= 1
    /\ OpenSessions = 1 => LiveSubs = {}
    /\ \A s, u \in LiveSubs : s = u

\* A time up to which premium is paid for or was granted.
Owed(t) ==
  \/ t <= grants.last + grants.made * Period
  \/ \E s \in StripeSubs : t <= stripe[s].end + grants.made * Period

OwedOK ==
  /\ Owed(row.end)
  /\ cli.pc # "idle" => Owed(cli.seen.end)
  /\ grants.last <= now

BillInv == BillTypes /\ CurrentOK /\ OneLive /\ OwedOK

LEMMA OwedFacts ==
  ASSUME BillTypes
  PROVE  /\ grants.made \in Nat /\ grants.last \in Nat /\ now \in Nat /\ Period \in Nat
         /\ grants.made * Period \in Nat
         /\ (grants.made + 1) * Period = grants.made * Period + Period
         /\ \A s \in StripeSubs : stripe[s].end \in Nat
         /\ row.end \in Nat /\ cli.seen.end \in Nat
<1>1. /\ grants.made \in Nat /\ grants.last \in Nat /\ now \in Nat /\ Period \in Nat
      /\ \A s \in StripeSubs : stripe[s].end \in Nat
      /\ row.end \in Nat /\ cli.seen.end \in Nat
  BY BillTypeFacts DEF BillTypes, TypeOKBilling, StripeState, States
<1>2. ASSUME NEW n \in Nat, NEW p \in Nat
      PROVE  n * p \in Nat /\ (n + 1) * p = n * p + p
  OBVIOUS
<1> QED BY <1>1, <1>2

\* What is owed stays owed: ends at Stripe, grants and their time only grow.
LEMMA OwedGrows ==
  ASSUME BillTypes, BillTypes',
         \A s \in StripeSubs : stripe[s].end <= stripe'[s].end,
         \/ UNCHANGED grants
         \/ grants'.made = grants.made + 1 /\ grants.last <= grants'.last,
         NEW t \in Nat, Owed(t)
  PROVE  Owed(t)'
<1>1. /\ grants.made \in Nat /\ grants.last \in Nat /\ Period \in Nat
      /\ grants.made * Period \in Nat
      /\ (grants.made + 1) * Period = grants.made * Period + Period
      /\ \A s \in StripeSubs : stripe[s].end \in Nat
  BY OwedFacts
<1>2. /\ grants'.made \in Nat /\ grants'.last \in Nat
      /\ grants'.made * Period \in Nat
      /\ \A s \in StripeSubs : stripe'[s].end \in Nat
  <2>1. /\ grants'.made \in Nat /\ grants'.last \in Nat
        /\ \A s \in StripeSubs : stripe'[s].end \in Nat
    BY DEF BillTypes, TypeOKBilling, BillingAssumption
  <2>2. ASSUME NEW n \in Nat, NEW p \in Nat PROVE n * p \in Nat
    OBVIOUS
  <2> QED BY <1>1, <2>1, <2>2
<1>3. /\ grants.made * Period <= grants'.made * Period
      /\ grants.last <= grants'.last
  <2>1. CASE UNCHANGED grants
    BY <1>1, <2>1
  <2>2. CASE grants'.made = grants.made + 1 /\ grants.last <= grants'.last
    <3>1. grants'.made * Period = grants.made * Period + Period
      BY <1>1, <2>2
    <3> QED BY <1>1, <1>2, <2>2, <3>1
  <2> QED BY <2>1, <2>2
<1> DEFINE x == grants.made * Period
           y == grants'.made * Period
<1>4. CASE t <= grants.last + x
  <2>1. t <= grants'.last + y
    <3>1. x \in Nat /\ y \in Nat /\ x <= y
      BY <1>1, <1>2, <1>3
    <3> HIDE DEF x, y
    <3> QED BY <1>1, <1>2, <1>3, <1>4, <3>1
  <2> QED BY <2>1 DEF Owed
<1>5. ASSUME NEW s \in StripeSubs, t <= stripe[s].end + x PROVE Owed(t)'
  <2>1. t <= stripe'[s].end + y
    <3>1. x \in Nat /\ y \in Nat /\ x <= y
      BY <1>1, <1>2, <1>3
    <3> HIDE DEF x, y
    <3> QED BY <1>1, <1>2, <1>5, <3>1
  <2> QED BY <2>1 DEF Owed
<1> QED BY <1>4, <1>5 DEF Owed

LEMMA BillInitInv ==
  ASSUME InitBilling
  PROVE  BillInv
<1>1. BillTypes
  BY BillInitTypes
<1>2. CurrentOK
  BY DEF InitBilling, CurrentOK, IdleCli, IdleHook
<1>3. OneLive
  <2>1. LiveSubs = {}
    BY DEF InitBilling, LiveSubs, Live
  <2>2. sessions[TRUE] = 0 /\ sessions[FALSE] = 0
    BY Zenon DEF InitBilling
  <2>3. OpenSessions = 0
    <3>1. OpenSessions = 0 + 0
      BY <2>2, Zenon DEF OpenSessions
    <3> QED BY <3>1
  <2> QED BY <2>1, <2>3 DEF OneLive
<1>4. OwedOK
  <2>1. row.end = 0 /\ cli.pc = "idle" /\ grants.last = 0 /\ now = 0
    BY DEF InitBilling, NoRow, NoState, IdleCli
  <2>2. 0 <= grants.last + grants.made * Period
    BY <1>1, <2>1, OwedFacts
  <2> QED BY <2>1, <2>2 DEF OwedOK, Owed
<1> QED BY <1>1, <1>2, <1>3, <1>4 DEF BillInv

\* A row that does not give premium does not come to give it by waiting.
LEMMA PremiumEnds ==
  ASSUME BillTypes, NEW t \in Nat, t <= now,
         GivesPremium(row, now)
  PROVE  GivesPremium(row, t)
<1>1. row.end \in Nat /\ now \in Nat /\ Grace \in Nat
  BY BillTypeFacts DEF States
<1> QED BY <1>1 DEF GivesPremium

\* The steps that leave the row, the command and the grants alone.
LEMMA RowAlone ==
  ASSUME BillTypes, BillTypes', CurrentOK, OwedOK,
         UNCHANGED <<row, cli, grants>>, now <= now',
         \A s \in StripeSubs : stripe[s].end <= stripe'[s].end,
         \A h \in Handlers :
           hook'[h].pc = "writing" /\ ~hook'[h].raced =>
             \/ hook'[h] = hook[h]
             \/ ~Protected(hook'[h].event) /\ now' = now
  PROVE  CurrentOK' /\ OwedOK'
<1>1. OwedOK'
  <2>1. row.end \in Nat /\ cli.seen.end \in Nat /\ grants.last \in Nat /\ now \in Nat
    BY OwedFacts
  <2>2. now' \in Nat
    BY DEF BillTypes, TypeOKBilling, BillingAssumption
  <2>3. \A t \in Nat : Owed(t) => Owed(t)'
    BY OwedGrows
  <2> QED BY <2>1, <2>2, <2>3 DEF OwedOK
<1>2. ASSUME NEW h \in Handlers, hook'[h].pc = "writing", ~hook'[h].raced,
             Protected(hook[h].event)'
      PROVE  FALSE
  <2>1. row'.sub # NoStripeSub /\ row'.sub # hook'[h].event.sub /\ GivesPremium(row', now')
    BY <1>2 DEF Protected
  <2>2. GivesPremium(row, now')
    BY <2>1
  <2>3. now \in Nat /\ now' \in Nat /\ row.end \in Nat /\ Grace \in Nat
    BY OwedFacts DEF BillTypes, TypeOKBilling, BillingAssumption
  <2>4. GivesPremium(row, now)
    BY <2>2, <2>3 DEF GivesPremium
  <2>5. Protected(hook'[h].event)
    BY <2>1, <2>4 DEF Protected
  <2>6. hook'[h] = hook[h]
    BY <1>2, <2>5
  <2> QED BY <1>2, <2>5, <2>6 DEF CurrentOK
<1>3. CurrentOK'
  BY <1>2 DEF CurrentOK
<1> QED BY <1>1, <1>3

\* OneLive sees only the sessions, who is live and blind.
LEMMA OneLiveSame ==
  ASSUME OneLive, UNCHANGED <<sessions, stripe, blind>>
  PROVE  OneLive'
BY DEF OneLive, LiveSubs, OpenSessions

LEMMA BillStep ==
  ASSUME BillInv, [NextBilling]_billingVars
  PROVE  BillInv'
<1> USE DEF BillInv
<1>0. /\ row.end \in Nat /\ now \in Nat /\ Period \in Nat
      /\ \A s \in StripeSubs : stripe[s].end \in Nat /\ stripe[s].end <= stripe[s].end
      /\ now <= now
  BY OwedFacts
<1>1. CASE UNCHANGED billingVars
  <2>1. UNCHANGED <<now, row, stripe, events, sessions, hook, cli, grants, blind>>
    BY <1>1 DEF billingVars
  <2>2. BillTypes'
    BY <2>1 DEF BillTypes, TypeOKBilling, EventsOK, HooksOK, StripeOK
  <2> QED BY <1>0, <2>1, <2>2, RowAlone, OneLiveSame
<1>2. CASE BillingTick
  <2>1. now' = now + 1 /\ now < MaxTime
        /\ UNCHANGED <<row, stripe, events, sessions, hook, cli, grants, blind>>
    BY <1>2 DEF BillingTick
  <2>2. now' \in 0..MaxTime /\ now <= now'
    BY <1>0, <2>1 DEF BillingAssumption
  <2>3. StripeOK'
    <3>1. Trial \in Nat
      BY BillTypeFacts
    <3> QED BY <1>0, <2>1, <3>1 DEF BillTypes, StripeOK
  <2>4. TypeOKBilling' /\ EventsOK' /\ HooksOK'
    BY <2>1, <2>2 DEF BillTypes, TypeOKBilling, EventsOK, HooksOK
  <2>5. BillTypes'
    BY <2>3, <2>4 DEF BillTypes
  <2> QED BY <1>0, <2>1, <2>2, <2>5, RowAlone, OneLiveSame
<1>3. CASE Checkout
  <2>1. /\ ~GivesPremium(row, now) /\ row.status \in {"none", "canceled"}
        /\ OpenSession
    BY <1>3 DEF Checkout
  <2>2. /\ BillTypes'
        /\ OpenSessions' = OpenSessions + 1
        /\ UNCHANGED <<now, row, stripe, events, hook, cli, grants>>
    BY <2>1, OpenEffect
  <2>3. OneLive'
    <3> SUFFICES ASSUME ~blind'
                 PROVE  /\ OpenSessions' <= 1
                        /\ LiveSubs = {}
      BY <2>2 DEF OneLive, LiveSubs
    <3>1. /\ ~(OpenSessions > 0)
          /\ \A s \in LiveSubs : row.sub = s /\ row.status # "canceled"
      BY <2>1 DEF OpenSession, OpenSessions
    <3>2. OpenSessions \in Nat
      BY BillTypeFacts, SessionCount DEF BillTypes
    <3>3. row.status = "none" => row.sub = NoStripeSub
      BY DEF BillTypes, TypeOKBilling, NoRow, NoState
    <3>4. LiveSubs \subseteq StripeSubs
      BY DEF LiveSubs
    <3>5. LiveSubs = {}
      BY <2>1, <3>1, <3>3, <3>4, BillTypeFacts
    <3> QED BY <2>2, <3>1, <3>2, <3>5
  <2> QED BY <1>0, <2>2, <2>3, RowAlone
<1>4. ASSUME NEW s \in StripeSubs, NEW trial \in BOOLEAN, Complete(s, trial)
      PROVE  BillInv'
  <2>1. /\ BillTypes'
        /\ OpenSessions = OpenSessions' + 1
        /\ \A u \in StripeSubs : /\ u # s => stripe'[u] = stripe[u]
                                 /\ stripe[u].end <= stripe'[u].end
        /\ UNCHANGED <<now, row, hook, cli, grants, blind>>
    BY <1>4, CompleteEffect
  <2>2. OneLive'
    <3> SUFFICES ASSUME ~blind
                 PROVE  OpenSessions' = 0 /\ \A u \in LiveSubs' : u = s
      BY <2>1 DEF OneLive
    <3>1. OpenSessions \in Nat /\ OpenSessions' \in Nat
      <4>1. MaxSessions \in Nat
        BY BillTypeFacts
      <4>2. OpenSessions \in Nat
        BY <4>1, SessionCount DEF BillTypes
      <4>3. OpenSessions' \in Nat
        <5>1. TypeOKBilling'
          BY <2>1 DEF BillTypes
        <5>2. /\ sessions'[TRUE] \in 0..MaxSessions /\ sessions'[FALSE] \in 0..MaxSessions
          BY <5>1 DEF TypeOKBilling
        <5>3. ASSUME NEW a \in 0..MaxSessions, NEW b \in 0..MaxSessions PROVE a + b \in Nat
          BY <4>1
        <5> QED BY <5>2, <5>3, Zenon DEF OpenSessions
      <4> QED BY <4>2, <4>3
    <3>2. OpenSessions' = 0 /\ OpenSessions = 1
      <4>1. OpenSessions <= 1
        BY DEF OneLive
      <4>2. OpenSessions = OpenSessions' + 1
        BY <2>1
      <4>3. ASSUME NEW a \in Nat, NEW b \in Nat, b = a + 1, b <= 1 PROVE a = 0 /\ b = 1
        BY <4>3
      <4> QED BY <3>1, <4>1, <4>2, <4>3
    <3>3. LiveSubs = {}
      BY <3>2 DEF OneLive
    <3>4. \A u \in LiveSubs' : u = s
      BY <2>1, <3>3 DEF LiveSubs
    <3> QED BY <3>2, <3>4
  <2> QED BY <1>0, <2>1, <2>2, RowAlone
<1>5. ASSUME NEW s \in StripeSubs, Renew(s) \/ FailPayment(s) \/ End(s)
      PROVE  BillInv'
  <2>1. /\ BillTypes' /\ s \in LiveSubs
        /\ \A u \in StripeSubs : /\ u # s => stripe'[u] = stripe[u]
                                 /\ stripe[u].end <= stripe'[u].end
        /\ UNCHANGED <<now, row, hook, cli, grants, blind, sessions>>
    BY <1>5, LiveChange
  <2>2. LiveSubs' \subseteq LiveSubs
    BY <2>1 DEF LiveSubs
  <2>3. OneLive'
    <3>1. OpenSessions' = OpenSessions
      BY <2>1 DEF OpenSessions
    <3> QED BY <2>1, <2>2, <3>1 DEF OneLive
  <2> QED BY <1>0, <2>1, <2>3, RowAlone
<1>6. ASSUME NEW h \in Handlers, NEW e \in events, Receive(h, e)
      PROVE  BillInv'
  <2>1. /\ BillTypes' /\ hook'[h].pc = "parsed"
        /\ \A g \in Handlers : g # h => hook'[g] = hook[g]
        /\ UNCHANGED <<now, row, stripe, events, sessions, cli, grants, blind>>
    BY <1>6, ReceiveEffect
  <2> QED BY <1>0, <2>1, RowAlone, OneLiveSame
<1>7. ASSUME NEW h \in Handlers, Find(h) PROVE BillInv'
  <2>1. /\ BillTypes'
        /\ hook'[h].event = hook[h].event \/ hook'[h].pc = "idle"
        /\ hook'[h].pc = "writing" => ~Protected(hook[h].event)
        /\ \A g \in Handlers : g # h => hook'[g] = hook[g]
        /\ UNCHANGED <<now, row, stripe, events, sessions, cli, grants, blind>>
    BY <1>7, FindEffect
  <2>2. \A g \in Handlers :
          hook'[g].pc = "writing" /\ ~hook'[g].raced =>
            \/ hook'[g] = hook[g]
            \/ ~Protected(hook'[g].event) /\ now' = now
    BY <2>1
  <2> QED BY <1>0, <2>1, <2>2, RowAlone, OneLiveSame
<1>8. ASSUME NEW h \in Handlers, HookFails(h) PROVE BillInv'
  <2>1. /\ BillTypes' /\ hook'[h].pc = "idle"
        /\ \A g \in Handlers : g # h => hook'[g] = hook[g]
        /\ UNCHANGED <<now, row, stripe, events, sessions, cli, grants, blind>>
    BY <1>8, FailsEffect
  <2> QED BY <1>0, <2>1, RowAlone, OneLiveSame
<1>9. ASSUME NEW h \in Handlers, Upsert(h) PROVE BillInv'
  <2>1. /\ BillTypes' /\ row' = hook[h].event /\ hook[h].pc = "writing"
        /\ \A g \in Handlers : hook'[g].pc = "writing" => hook'[g].raced
        /\ cli'.pc = cli.pc /\ cli'.seen = cli.seen /\ (cli.pc # "idle" => cli'.raced)
        /\ UNCHANGED <<now, stripe, events, sessions, blind, grants>>
    BY <1>9, UpsertEffect
  <2>2. CurrentOK'
    BY <2>1 DEF CurrentOK
  <2>3. Owed(row'.end)
    <3>1. /\ row'.end \in Nat /\ hook[h].event.sub \in StripeSubs
          /\ row'.end <= stripe[hook[h].event.sub].end
      BY <2>1, BillTypeFacts DEF BillTypes, HooksOK, HookRecord, States
    <3>2. row'.end <= stripe[hook[h].event.sub].end + grants.made * Period
      BY <1>0, <3>1, OwedFacts
    <3> QED BY <3>1, <3>2 DEF Owed
  <2>4. OwedOK'
    BY <2>1, <2>3 DEF OwedOK, Owed
  <2> QED BY <2>1, <2>2, <2>4, OneLiveSame
<1>10. ASSUME NEW pc \in {"granting", "revoking"}, StartCli(pc) PROVE BillInv'
  <2>1. /\ BillTypes' /\ cli'.pc # "idle" /\ cli'.seen = row
        /\ UNCHANGED <<now, row, stripe, events, sessions, hook, grants, blind>>
    BY <1>10, StartEffect
  <2>2. cli'.pc = "granting" => grants.made < MaxGrants
    BY <1>10 DEF StartCli
  <2>3. CurrentOK'
    BY <2>1, <2>2 DEF CurrentOK, Protected
  <2>4. OwedOK'
    BY <2>1 DEF OwedOK, Owed
  <2> QED BY <2>1, <2>3, <2>4, OneLiveSame
<1>11. CASE Grant \/ Revoke
  <2>1. /\ BillTypes' /\ cli.pc # "idle" /\ cli'.pc = "idle"
        /\ \A g \in Handlers : hook'[g].pc = "writing" => hook'[g].raced
        /\ \/ /\ row'.end = GrantBase + Period
              /\ grants'.made = grants.made + 1 /\ grants'.last = now
           \/ row'.end = cli.seen.end /\ UNCHANGED grants
        /\ UNCHANGED <<now, stripe, events, sessions, blind>>
    BY <1>11, CliEffect DEF CurrentOK
  <2>2. CurrentOK'
    BY <2>1 DEF CurrentOK
  <2>3. OwedOK'
    <3>1. CASE row'.end = cli.seen.end /\ UNCHANGED grants
      BY <2>1, <3>1 DEF OwedOK, Owed
    <3>2. CASE /\ row'.end = GrantBase + Period
               /\ grants'.made = grants.made + 1 /\ grants'.last = now
      <4> DEFINE x == grants.made * Period
                 y == grants'.made * Period
      <4>1. /\ grants.last \in Nat /\ x \in Nat /\ y = x + Period
            /\ \A s \in StripeSubs : stripe[s].end \in Nat
            /\ cli.seen.end \in Nat /\ grants.last <= now /\ stripe' = stripe
        BY <2>1, <3>2, OwedFacts DEF OwedOK
      <4>2. CASE GrantBase = now
        <5>1. row'.end <= grants'.last + y
          <6> HIDE DEF x, y
          <6> QED BY <1>0, <3>2, <4>1, <4>2
        <5> QED BY <1>0, <2>1, <3>2, <4>1, <5>1 DEF OwedOK, Owed
      <4>3. CASE GrantBase = cli.seen.end
        <5>1. cli.seen.end <= grants.last + x
              \/ \E s \in StripeSubs : cli.seen.end <= stripe[s].end + x
          BY <2>1 DEF OwedOK, Owed
        <5>2. row'.end <= grants'.last + y
              \/ \E s \in StripeSubs : row'.end <= stripe'[s].end + y
          <6> HIDE DEF x, y
          <6> QED BY <1>0, <3>2, <4>1, <4>3, <5>1
        <5> QED BY <1>0, <2>1, <3>2, <4>1, <5>2 DEF OwedOK, Owed
      <4> QED BY <4>2, <4>3 DEF GrantBase
    <3> QED BY <2>1, <3>1, <3>2
  <2> QED BY <2>1, <2>2, <2>3, OneLiveSame
<1> QED BY <1>1, <1>2, <1>3, <1>4, <1>5, <1>6, <1>7, <1>8, <1>9, <1>10, <1>11 DEF NextBilling

\* The inductive invariant of the subscription.
THEOREM BillingInvariant == SpecBilling => []BillInv
<1>1. InitBilling => BillInv
  BY BillInitInv
<1>2. BillInv /\ [NextBilling]_billingVars => BillInv'
  BY BillStep
<1> QED BY <1>1, <1>2, PTL DEF SpecBilling

\* The row, Stripe's state and every copy of them keep their types; a row
\* without a status is no row.
THEOREM BillingTypeOK == SpecBilling => []TypeOKBilling
<1>1. BillInv => TypeOKBilling
  BY DEF BillInv, BillTypes
<1> QED BY <1>1, BillingInvariant, PTL

\* Two live subscriptions come only from a session opened while the row hid a
\* live one, or beside another open session, for any number of deliveries and
\* any delays of the events.
THEOREM BillingDoubleOnlyIfBlind == SpecBilling => []DoubleOnlyIfBlind
<1>1. BillInv => DoubleOnlyIfBlind
  BY DEF BillInv, OneLive, DoubleOnlyIfBlind
<1> QED BY <1>1, BillingInvariant, PTL

\* Nobody is premium longer than the last period paid at Stripe, the months
\* granted and, after a failed payment, the grace allow, whichever old event or
\* stale copy of the row is written last.
THEOREM BillingPremiumIsOwed == SpecBilling => []PremiumIsOwed
<1>1. BillInv => PremiumIsOwed
  <2> SUFFICES ASSUME BillInv, GivesPremium(row, now)
               PROVE  now < Later(PaidEnd, grants.last) + grants.made * Period
                              + (IF row.status = "past_due" THEN Grace ELSE 0)
    BY DEF PremiumIsOwed
  <2> DEFINE x == grants.made * Period
             Ends == {stripe[s].end : s \in StripeSubs}
             paid == PaidEnd
  <2>1. /\ grants.last \in Nat /\ now \in Nat /\ x \in Nat /\ row.end \in Nat
        /\ \A s \in StripeSubs : stripe[s].end \in Nat
        /\ Trial \in Nat /\ Period \in Nat /\ Grace \in Nat
    BY OwedFacts, BillTypeFacts DEF BillInv
  <2>2. /\ Ends \in SUBSET Nat /\ Ends # {} /\ now + Trial + Period \in Nat
        /\ \A t \in Ends : t <= now + Trial + Period
    BY <2>1 DEF BillInv, BillTypes, StripeOK, BillingAssumption
  <2>3. PICK m \in Ends : \A t \in Ends : t <= m
    <3> HIDE DEF Ends
    <3> QED BY <2>2, Greatest
  <2>4. \A s \in StripeSubs : stripe[s].end <= m
    BY <2>3
  <2>5. paid \in Ends /\ \A s \in StripeSubs : stripe[s].end <= paid
    BY <2>3, <2>4 DEF PaidEnd
  <2>6. paid \in Nat
    BY <2>2, <2>5
  <2> HIDE DEF paid, Ends
  <2>7. row.end <= grants.last + x \/ \E s \in StripeSubs : row.end <= stripe[s].end + x
    BY DEF BillInv, OwedOK, Owed
  <2>8. row.end <= Later(paid, grants.last) + x
    <3> HIDE DEF x
    <3>1. Later(paid, grants.last) \in Nat /\ paid <= Later(paid, grants.last)
          /\ grants.last <= Later(paid, grants.last)
      BY <2>1, <2>6 DEF Later
    <3> QED BY <2>1, <2>5, <2>6, <2>7, <3>1
  <2>9. now < row.end + (IF row.status = "past_due" THEN Grace ELSE 0)
    BY <2>1 DEF GivesPremium
  <2>10. Later(paid, grants.last) \in Nat
    BY <2>1, <2>6 DEF Later
  <2>11. now < Later(paid, grants.last) + x + (IF row.status = "past_due" THEN Grace ELSE 0)
    <3> HIDE DEF x
    <3> QED BY <2>1, <2>8, <2>9, <2>10
  <2> QED BY <2>11 DEF paid
<1> QED BY <1>1, BillingInvariant, PTL

\* A subscription that gives premium gives way to another's event only if it
\* was written between that delivery's two statements.
THEOREM BillingProtectedUnlessRaced == SpecBilling => ProtectedUnlessRaced
<1> DEFINE Guarded ==
             \A h \in Handlers :
               /\ hook[h].pc = "writing" /\ ~hook[h].raced
               /\ row.sub # NoStripeSub /\ row.sub # hook[h].event.sub /\ GivesPremium(row, now)
               => row' # hook[h].event
<1>1. BillInv => Guarded
  BY DEF BillInv, CurrentOK, Protected
<1>2. BillInv /\ [NextBilling]_billingVars => [Guarded]_row
  BY <1>1
<1> HIDE DEF Guarded
<1>3. SpecBilling => [][Guarded]_row
  BY <1>2, BillingInvariant, PTL DEF SpecBilling
<1> QED BY <1>3 DEF ProtectedUnlessRaced, Guarded

\* The link to Stripe's subscription is lost only by a command that a delivery
\* overtook between its two statements.
THEOREM BillingLinkKept == SpecBilling => LinkKept
<1> DEFINE Kept == row.sub # NoStripeSub /\ ~cli.raced => row'.sub # NoStripeSub
<1>1. BillInv /\ [NextBilling]_billingVars => [Kept]_row
  <2> SUFFICES ASSUME BillInv, NextBilling, row' # row, row.sub # NoStripeSub, ~cli.raced
               PROVE  row'.sub # NoStripeSub
    BY DEF billingVars
  <2>1. CASE \E h \in Handlers : Upsert(h)
    <3>1. PICK h \in Handlers : row' = hook[h].event /\ hook[h].pc = "writing"
      BY <2>1 DEF Upsert
    <3>2. hook[h].event.sub \in StripeSubs
      BY <3>1 DEF BillInv, BillTypes, HooksOK
    <3> QED BY <3>1, <3>2 DEF BillingAssumption
  <2>2. CASE Grant \/ Revoke
    <3>1. cli.pc # "idle" /\ row'.sub = cli.seen.sub
      BY <2>2, CliEffect DEF BillInv, CurrentOK
    <3> QED BY <3>1 DEF BillInv, CurrentOK
  <2>3. \/ \E h \in Handlers : Upsert(h)
        \/ Grant \/ Revoke
    BY DEF NextBilling, BillingTick, Checkout, OpenSession, Complete, Renew,
           FailPayment, End, Change, Receive, Find, HookFails,
           StartCli
  <2> QED BY <2>1, <2>2, <2>3
<1> HIDE DEF Kept
<1>2. SpecBilling => [][Kept]_row
  BY <1>1, BillingInvariant, PTL DEF SpecBilling
<1> QED BY <1>2 DEF LinkKept, Kept
=============================================================================
