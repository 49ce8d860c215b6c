------------------------------ MODULE Accounts ------------------------------
(***************************************************************************)
(* Accounts and the ways into them: SignUp, Login and the Google callback  *)
(* (handler/auth.go, handler/google.go, service/auth.go) behind the rate   *)
(* limiter, down to the transactions of repository/user.go.  Statements of *)
(* overlapping transactions interleave under READ COMMITTED: each sees     *)
(* what is committed, and an INSERT that meets an uncommitted row of its   *)
(* unique index waits for the other transaction to end.                    *)
(***************************************************************************)
EXTENDS RateLimit, Sequences, FiniteSets

CONSTANTS
  Requests,
  Emails,   \* normalised addresses (domain.NewEmail)
  Subs,     \* Google's ids of its accounts
  NoSub     \* the provider_uid of a password identity (NULL)

ASSUME AccountsAssumption == NoSub \notin Subs

VARIABLES
  users,       \* users: the emails, in the order of creation; a user is its index
  identities,  \* auth_identities
  tx           \* each request, with the uncommitted rows of its transaction

vars == <<users, identities, tx, rateVars>>

-----------------------------------------------------------------------------
NoUser == 0

Identity(user, provider, uid) == [user |-> user, provider |-> provider, uid |-> uid]

\* user: the account found, NoUser before and while it is yet to be made;
\* newUser, newIdentity: rows this transaction has inserted; raced: another
\* transaction was committed meanwhile (history variable).
Idle == [pc |-> "idle", kind |-> "none", email |-> "none", sub |-> NoSub,
         user |-> NoUser, newUser |-> FALSE, newIdentity |-> FALSE,
         raced |-> FALSE, result |-> "none"]

Init ==
  /\ InitRate
  /\ users = <<>> /\ identities = {}
  /\ tx = [r \in Requests |-> Idle]

Active(r) == tx[r].pc \notin {"idle", "done"}
UserOf(email) == {u \in DOMAIN users : users[u] = email}
Linked(sub) == {i \in identities : i.provider = "google" /\ i.uid = sub}

Go(r, new) == tx' = [tx EXCEPT ![r] = new]

\* The request is over; a transaction that was not committed is rolled back.
\* What it answered is kept for a moment, as far as a property asks for it.
Answered(r, result) ==
  [Idle EXCEPT !.pc = "done", !.kind = tx[r].kind, !.sub = tx[r].sub,
               !.raced = result = "conflict" /\ tx[r].raced, !.result = result]

\* SignUp with a well-formed email and password.
SignUp(r, ip, e) ==
  /\ tx[r].pc = "idle"
  /\ Admit(ip)
  /\ Go(r, [Idle EXCEPT !.pc = "user", !.kind = "signup", !.email = e])
  /\ UNCHANGED <<users, identities>>

\* Login with the password of the account; any other is refused alike.
Login(r, ip, e) ==
  /\ tx[r].pc = "idle"
  /\ Admit(ip)
  /\ Go(r, [Idle EXCEPT !.pc = "credential", !.kind = "login", !.email = e])
  /\ UNCHANGED <<users, identities>>

\* GoogleCallback once Exchange has answered with a verified email.  The email
\* of a Google account can be another than last time.
GoogleCallback(r, ip, s, e) ==
  /\ tx[r].pc = "idle"
  /\ Admit(ip)
  /\ Go(r, [Idle EXCEPT !.pc = "sub", !.kind = "google", !.email = e, !.sub = s])
  /\ UNCHANGED <<users, identities>>

\* The group's other endpoints (refresh, logout, the start of the way to Google,
\* me) count against the same limit and touch no account.
OtherRequest(ip) ==
  /\ Admit(ip)
  /\ UNCHANGED <<users, identities, tx>>

-----------------------------------------------------------------------------
\* FindPasswordCredential, and the comparison with the hash.
FindCredential(r) ==
  /\ tx[r].pc = "credential"
  /\ \/ \E u \in UserOf(tx[r].email) :
          /\ Identity(u, "password", NoSub) \in identities
          /\ Go(r, [Answered(r, "in") EXCEPT !.user = u])
     \/ Go(r, Idle)
  /\ UNCHANGED <<users, identities, rateVars>>

\* Mutant: the email is asked first, and the sub not at all.
SkipSub(r) ==
  /\ tx[r].pc = "sub"
  /\ Go(r, [tx[r] EXCEPT !.pc = "email"])
  /\ UNCHANGED <<users, identities, rateVars>>

\* findUserByGoogleSub.
FindBySub(r) ==
  /\ tx[r].pc = "sub"
  /\ IF Linked(tx[r].sub) = {} THEN Go(r, [tx[r] EXCEPT !.pc = "email"])
     ELSE \E i \in Linked(tx[r].sub) :
            Go(r, [tx[r] EXCEPT !.pc = "commit", !.user = i.user])
  /\ UNCHANGED <<users, identities, rateVars>>

\* Mutant: whoever has the email is signed in, the sub is not linked.
SignInByEmail(r) ==
  /\ tx[r].pc = "email"
  /\ IF UserOf(tx[r].email) = {} THEN Go(r, [tx[r] EXCEPT !.pc = "user"])
     ELSE \E u \in UserOf(tx[r].email) :
            Go(r, [tx[r] EXCEPT !.pc = "commit", !.user = u])
  /\ UNCHANGED <<users, identities, rateVars>>

\* findUserByEmail.
FindByEmail(r) ==
  /\ tx[r].pc = "email"
  /\ IF UserOf(tx[r].email) = {} THEN Go(r, [tx[r] EXCEPT !.pc = "user"])
     ELSE \E u \in UserOf(tx[r].email) :
            Go(r, [tx[r] EXCEPT !.pc = "identity", !.user = u])
  /\ UNCHANGED <<users, identities, rateVars>>

\* users.email is UNIQUE.
EmailHeld(r) ==
  \E q \in Requests \ {r} : tx[q].newUser /\ tx[q].email = tx[r].email

\* Mutant: the user is inserted outside the transaction.
InsertUserAtOnce(r) ==
  /\ tx[r].pc = "user" /\ ~EmailHeld(r)
  /\ IF UserOf(tx[r].email) # {}
     THEN /\ Go(r, IF tx[r].kind = "signup" THEN Idle ELSE Answered(r, "conflict"))
          /\ UNCHANGED users
     ELSE /\ Go(r, [tx[r] EXCEPT !.pc = "identity", !.user = Len(users) + 1])
          /\ users' = Append(users, tx[r].email)
  /\ UNCHANGED <<identities, rateVars>>

\* INSERT INTO users.  A taken email is ErrEmailTaken (409) in SignUp and an
\* internal error (500) in the Google callback.
InsertUser(r) ==
  /\ tx[r].pc = "user" /\ ~EmailHeld(r)
  /\ Go(r, IF UserOf(tx[r].email) # {}
           THEN IF tx[r].kind = "signup" THEN Idle ELSE Answered(r, "conflict")
           ELSE [tx[r] EXCEPT !.pc = "identity", !.newUser = TRUE])
  /\ UNCHANGED <<users, identities, rateVars>>

\* auth_identities is UNIQUE in (provider, provider_uid); NULLs never collide.
SubHeld(r) ==
  \E q \in Requests \ {r} : tx[q].newIdentity /\ tx[q].sub = tx[r].sub

\* INSERT INTO auth_identities, of SignUp or insertGoogleIdentity.
InsertIdentity(r) ==
  /\ tx[r].pc = "identity"
  /\ tx[r].kind = "google" => ~SubHeld(r)
  /\ Go(r, IF tx[r].kind = "google" /\ Linked(tx[r].sub) # {}
           THEN Answered(r, "conflict")
           ELSE [tx[r] EXCEPT !.pc = "commit", !.newIdentity = TRUE])
  /\ UNCHANGED <<users, identities, rateVars>>

\* Commit; its answer may be lost on the way.
Commit(r) ==
  /\ tx[r].pc = "commit"
  /\ LET user == IF tx[r].newUser THEN Len(users) + 1 ELSE tx[r].user
         provider == IF tx[r].kind = "google" THEN "google" ELSE "password"
         rows == IF tx[r].newIdentity
                 THEN {Identity(user, provider, tx[r].sub)} ELSE {}
     IN  /\ users' = IF tx[r].newUser THEN Append(users, tx[r].email) ELSE users
         /\ identities' = identities \cup rows
         /\ \E answer \in {Idle, [Answered(r, "in") EXCEPT !.user = user]} :
              tx' = [q \in Requests |->
                IF q = r THEN answer
                ELSE IF tx[q].kind = "google" /\ Active(q) /\ rows # {}
                THEN [tx[q] EXCEPT !.raced = TRUE]
                ELSE tx[q]]
  /\ UNCHANGED rateVars

\* A statement fails, the client goes, the server stops: nothing is kept.
Fail(r) ==
  /\ Active(r)
  /\ Go(r, Idle)
  /\ UNCHANGED <<users, identities, rateVars>>

Done(r) ==
  /\ tx[r].pc = "done"
  /\ Go(r, Idle)
  /\ UNCHANGED <<users, identities, rateVars>>

Tick ==
  /\ RateTick
  /\ UNCHANGED <<users, identities, tx>>

Next ==
  \/ Tick
  \/ (\E ip \in Clients : OtherRequest(ip))
  \/ \E r \in Requests :
       \/ \E ip \in Clients, e \in Emails :
            SignUp(r, ip, e) \/ Login(r, ip, e) \/ \E s \in Subs : GoogleCallback(r, ip, s, e)
       \/ FindCredential(r) \/ FindBySub(r) \/ FindByEmail(r)
       \/ InsertUser(r) \/ InsertIdentity(r) \/ Commit(r)
       \/ Fail(r) \/ Done(r)

Spec == Init /\ [][Next]_vars

-----------------------------------------------------------------------------
\* Every variable has its type; an identity is that of a user.
TypeOK ==
  /\ users \in Seq(Emails)
  /\ \A i \in identities :
       /\ i.user \in DOMAIN users
       /\ \/ i.provider = "password" /\ i.uid = NoSub
          \/ i.provider = "google" /\ i.uid \in Subs
  /\ \A r \in Requests : tx[r].user \in {NoUser} \cup DOMAIN users

\* "users と auth_identities は必ず対で存在すべき": whatever fails wherever, no user
\* is without a way in, and no email or Google account leads to two users.
Paired ==
  /\ \A u \in DOMAIN users : \E i \in identities : i.user = u
  /\ \A e \in Emails : Cardinality(UserOf(e)) <= 1
  /\ \A s \in Subs : Cardinality(Linked(s)) <= 1

\* Signing in with Google always ends in the account the sub is linked to,
\* however the email has changed since and whoever signed up beside it.
StaysWithSub ==
  \A r \in Requests :
    tx[r].kind = "google" /\ tx[r].result = "in" =>
      {i.user : i \in Linked(tx[r].sub)} = {tx[r].user}

\* A Google sign-in that collides (500) lost a race against another request:
\* alone, the same sign-in finds its account or makes it.
ConflictOnlyIfRaced ==
  \A r \in Requests : tx[r].result = "conflict" => tx[r].raced
=============================================================================
