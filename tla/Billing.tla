------------------------------ MODULE Billing ------------------------------
(***************************************************************************)
(* One user's premium subscription: service/billing.go (checkout and       *)
(* webhooks), service/subscription.go (the operator's grant and revoke)    *)
(* and the row both keep through repository/subscription.go.  Stripe is    *)
(* the environment: it owns the subscriptions, and delivers an event for   *)
(* each change at least once, in any order.  Handlers read the row and     *)
(* write it in two statements without a transaction.                       *)
(***************************************************************************)
EXTENDS Naturals, FiniteSets

CONSTANTS
  StripeSubs,  \* bound: Stripe subscriptions the user can come to have
  NoStripeSub, \* ProviderSubscriptionID of a manual grant: empty
  Handlers,    \* concurrent webhook deliveries
  Period,      \* ticks of a paid period, and of the month of a grant
  Trial,       \* ticks of the free trial
  Grace,       \* ticks of PaymentGracePeriod
  MaxTime,     \* bound: ticks observed
  MaxVersion,  \* bound: changes of one subscription
  MaxSessions, \* bound: checkout sessions open at once
  MaxGrants    \* bound: grants by the operator

ASSUME BillingAssumption ==
  /\ NoStripeSub \notin StripeSubs /\ StripeSubs # {}
  /\ Period \in Nat \ {0} /\ Trial \in Nat \ {0} /\ Grace \in Nat
  /\ MaxTime \in Nat /\ MaxVersion \in Nat /\ MaxSessions \in Nat /\ MaxGrants \in Nat

VARIABLES
  now,
  row,       \* the row of subscriptions; its version is a history field
  stripe,    \* the subscriptions at Stripe
  events,    \* customer.subscription.* events sent, and completed sessions
  sessions,  \* open checkout sessions, by WithTrial
  hook,      \* each webhook delivery; raced: the row changed since its Find
  cli,       \* the grant command; raced likewise
  grants,    \* history variable: the grants made, and when the last one was
  blind      \* history variable: some session was opened while the row hid a live
             \* subscription or another session was open

billingVars == <<now, row, stripe, events, sessions, hook, cli, grants, blind>>

-----------------------------------------------------------------------------
Live == {"trialing", "active", "past_due"}

\* Mutant of GivesPremium: the grace is given to every live status.
GivesPremiumWithGrace(s, t) == s.status \in Live /\ t < s.end + Grace

\* GivesPremiumAt.
GivesPremium(s, t) ==
  \/ s.status \in {"active", "trialing"} /\ t < s.end
  \/ s.status = "past_due" /\ t < s.end + Grace

NoState == [sub |-> NoStripeSub, status |-> "none", end |-> 0, version |-> 0]

\* No row at all means free.
NoRow == NoState

IdleHook == [pc |-> "idle", event |-> NoState, raced |-> FALSE]
IdleCli == [pc |-> "idle", seen |-> NoRow, raced |-> FALSE]

\* The row as a subscription's event describes it.
Subscription(s, status, end, version) ==
  [sub |-> s, status |-> status, end |-> end, version |-> version]

\* A write of the row leaves every other pending write with a stale read.
RacedHooks(others) ==
  [h \in Handlers |-> IF h \in others /\ hook[h].pc = "writing"
                      THEN [hook[h] EXCEPT !.raced = TRUE]
                      ELSE IF h \in others THEN hook[h] ELSE IdleHook]

-----------------------------------------------------------------------------
InitBilling ==
  /\ now = 0
  /\ row = NoRow
  /\ stripe = [s \in StripeSubs |-> [status |-> "none", end |-> 0, version |-> 0]]
  /\ events = {}
  /\ sessions = [trial \in BOOLEAN |-> 0]
  /\ hook = [h \in Handlers |-> IdleHook]
  /\ cli = IdleCli
  /\ grants = [made |-> 0, last |-> 0]
  /\ blind = FALSE

BillingTick ==
  /\ now < MaxTime
  /\ now' = now + 1
  /\ UNCHANGED <<row, stripe, events, sessions, hook, cli, grants, blind>>

LiveSubs == {s \in StripeSubs : stripe[s].status \in Live}

\* The session CreateCheckoutSession opens: the first one with a trial.
OpenSession ==
  /\ sessions[TRUE] + sessions[FALSE] < MaxSessions
  /\ sessions' = [sessions EXCEPT ![row = NoRow] = @ + 1]
  /\ blind' = (blind \/ sessions[TRUE] + sessions[FALSE] > 0
                     \/ \E s \in LiveSubs : row.sub # s \/ row.status = "canceled")
  /\ UNCHANGED <<now, row, stripe, events, hook, cli, grants>>

\* Mutant: any row that does not give premium may subscribe again.
CheckoutUnlessPremium == ~GivesPremium(row, now) /\ OpenSession

\* CreateCheckoutSession: only without a row or with a canceled one; anything
\* else is ErrAlreadySubscribed.
Checkout ==
  /\ ~GivesPremium(row, now)
  /\ row.status \in {"none", "canceled"}
  /\ OpenSession

-----------------------------------------------------------------------------
\* Stripe: a change of a subscription and the event about it.
Change(s, status, end, more) ==
  LET version == stripe[s].version + 1
  IN  /\ version <= MaxVersion
      /\ stripe' = [stripe EXCEPT ![s] = [status |-> status, end |-> end, version |-> version]]
      /\ events' = events \cup more
           \cup {[kind |-> "subscription", state |-> Subscription(s, status, end, version)]}
      /\ UNCHANGED <<now, row, hook, cli, grants, blind>>

\* The user pays at an open session: a new subscription, and the event of the
\* completed session, which carries no state of its own.
Complete(s, trial) ==
  /\ sessions[trial] > 0 /\ stripe[s].status = "none"
  /\ sessions' = [sessions EXCEPT ![trial] = @ - 1]
  /\ Change(s, IF trial THEN "trialing" ELSE "active", now + (IF trial THEN Trial ELSE Period),
            {[kind |-> "session", state |-> Subscription(s, "none", 0, 0)]})

\* An invoice is paid when the period is over, or late; it fails; the
\* subscription is ended, by the user or after the last retry.
Renew(s) ==
  /\ s \in LiveSubs /\ stripe[s].end <= now
  /\ Change(s, "active", stripe[s].end + Period, {})
  /\ UNCHANGED sessions

FailPayment(s) ==
  /\ stripe[s].status \in {"active", "trialing"} /\ stripe[s].end <= now
  /\ Change(s, "past_due", stripe[s].end, {})
  /\ UNCHANGED sessions

End(s) ==
  /\ s \in LiveSubs
  /\ Change(s, "canceled", stripe[s].end, {})
  /\ UNCHANGED sessions

-----------------------------------------------------------------------------

\* ParseWebhookEvent: a completed session is looked up at Stripe, the other
\* events bring the state they were sent with.  (A failed look-up is answered
\* 400 and an unusable event is ignored: nothing changes.)
Receive(h, e) ==
  /\ hook[h].pc = "idle"
  /\ hook' = [hook EXCEPT ![h].pc = "parsed", ![h].event =
       LET s == e.state.sub
       IN  IF e.kind = "session"
           THEN Subscription(s, stripe[s].status, stripe[s].end, stripe[s].version)
           ELSE e.state]
  /\ UNCHANGED <<now, row, stripe, events, sessions, cli, grants, blind>>

\* Mutant: no row is protected.
ProtectedNever(event) == FALSE

\* The row belongs to another subscription of Stripe that gives premium now.
Protected(event) ==
  /\ row.sub # NoStripeSub /\ row.sub # event.sub
  /\ GivesPremium(row, now)

\* HandleWebhook's Find; a protected row ends the delivery.
Find(h) ==
  /\ hook[h].pc = "parsed"
  /\ hook' = [hook EXCEPT ![h] =
       IF Protected(hook[h].event) THEN IdleHook ELSE [hook[h] EXCEPT !.pc = "writing"]]
  /\ UNCHANGED <<now, row, stripe, events, sessions, cli, grants, blind>>

\* HandleWebhook's Upsert of every column.
Upsert(h) ==
  /\ hook[h].pc = "writing"
  /\ row' = hook[h].event
  /\ hook' = RacedHooks(Handlers \ {h})
  /\ cli' = [cli EXCEPT !.raced = cli.pc # "idle"]
  /\ UNCHANGED <<now, stripe, events, sessions, grants, blind>>

\* A database error (500, Stripe sends again) or a crash.
HookFails(h) ==
  /\ hook[h].pc # "idle"
  /\ hook' = [hook EXCEPT ![h] = IdleHook]
  /\ UNCHANGED <<now, row, stripe, events, sessions, cli, grants, blind>>

-----------------------------------------------------------------------------
\* The operator's command reads the row; Revoke without one does nothing.
StartCli(pc) ==
  /\ cli.pc = "idle"
  /\ pc = "granting" => grants.made < MaxGrants
  /\ pc = "revoking" => row # NoRow
  /\ cli' = [pc |-> pc, seen |-> row, raced |-> FALSE]
  /\ UNCHANGED <<now, row, stripe, events, sessions, hook, grants, blind>>

\* The command's Upsert.
CliWrites(pc, new) ==
  /\ cli.pc = pc
  /\ row' = new
  /\ cli' = IdleCli
  /\ hook' = RacedHooks(Handlers)
  /\ UNCHANGED <<now, stripe, events, sessions, blind>>

\* IsActiveAt decides whether there is a remainder to extend.
GrantBase == IF cli.seen.status = "active" /\ now < cli.seen.end THEN cli.seen.end ELSE now

\* Mutant: a fresh row, without the columns Grant does not decide.
GrantFresh ==
  /\ CliWrites("granting", Subscription(NoStripeSub, "active", GrantBase + Period, 0))
  /\ grants' = [made |-> grants.made + 1, last |-> now]

\* Grant: a month on top of what an active subscription has left, on the row it
\* read.
Grant ==
  /\ CliWrites("granting", [cli.seen EXCEPT !.status = "active", !.end = GrantBase + Period])
  /\ grants' = [made |-> grants.made + 1, last |-> now]

\* Revoke: the status only.
Revoke ==
  /\ CliWrites("revoking", [cli.seen EXCEPT !.status = "canceled"])
  /\ UNCHANGED grants

NextBilling ==
  \/ BillingTick
  \/ Checkout
  \/ \E s \in StripeSubs :
       \/ \E trial \in BOOLEAN : Complete(s, trial)
       \/ Renew(s)
       \/ FailPayment(s)
       \/ End(s)
  \/ \E h \in Handlers :
       \/ \E e \in events : Receive(h, e)
       \/ Find(h)
       \/ Upsert(h)
       \/ HookFails(h)
  \/ \E pc \in {"granting", "revoking"} : StartCli(pc)
  \/ Grant
  \/ Revoke

SpecBilling == InitBilling /\ [][NextBilling]_billingVars

-----------------------------------------------------------------------------
States == [sub : StripeSubs \cup {NoStripeSub}, status : Live \cup {"none", "canceled"},
           end : Nat, version : 0..MaxVersion]

\* The row, the requests' copies of it and Stripe's state have their types.
TypeOKBilling ==
  /\ now \in 0..MaxTime
  /\ row \in States /\ (row.status = "none" => row = NoRow)
  /\ stripe \in [StripeSubs -> [status : Live \cup {"none", "canceled"}, end : Nat,
                          version : 0..MaxVersion]]
  /\ \A e \in events : e.kind \in {"subscription", "session"} /\ e.state \in States
  /\ sessions \in [BOOLEAN -> 0..MaxSessions]
  /\ hook \in [Handlers -> [pc : {"idle", "parsed", "writing"}, event : States, raced : BOOLEAN]]
  /\ cli \in [pc : {"idle", "granting", "revoking"}, seen : States, raced : BOOLEAN]
  /\ grants \in [made : 0..MaxGrants, last : 0..MaxTime]
  /\ blind \in BOOLEAN

Later(a, b) == IF a > b THEN a ELSE b
PaidEnd == CHOOSE t \in {stripe[s].end : s \in StripeSubs} : \A s \in StripeSubs : stripe[s].end <= t

\* GivesPremiumAt with the writes of Grant, Revoke and the webhooks in any
\* order: nobody is premium after the last period paid at Stripe, extended by
\* the months granted and, for a failed payment only, by the grace.
PremiumIsOwed ==
  GivesPremium(row, now) =>
    now < Later(PaidEnd, grants.last) + grants.made * Period
            + (IF row.status = "past_due" THEN Grace ELSE 0)

\* CreateCheckoutSession refuses a second subscription whenever the row shows
\* the first (also one whose grace is over): two live subscriptions come only
\* from a session opened while the row did not show a live one, or beside
\* another open session.
DoubleOnlyIfBlind == (\E s, u \in LiveSubs : s # u) => blind

\* HandleWebhook's protection of the current subscription: one that gives
\* premium gives way to another's event only if it was written between that
\* delivery's Find and its Upsert.
ProtectedUnlessRaced ==
  [][\A h \in Handlers :
       /\ hook[h].pc = "writing" /\ ~hook[h].raced
       /\ row.sub # NoStripeSub /\ row.sub # hook[h].event.sub /\ GivesPremium(row, now)
       => row' # hook[h].event]_row

\* Grant and Revoke write on the row they read: the link to Stripe's
\* subscription is lost only if a webhook wrote it between their two steps.
LinkKept == [][row.sub # NoStripeSub /\ ~cli.raced => row'.sub # NoStripeSub]_row

=============================================================================
