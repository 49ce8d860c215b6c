# Verification of menu-planner

menu-planner proposes menus (one, or a week), saves weeks, derives shopping lists, finds menus by ingredients, reads free
text about ingredients with a language model, shows recipe pages found by a search API, and (dormant since 2026-08-02)
sells a premium plan. A Go backend (`backend/`) over PostgreSQL and a React client (`frontend/`). This directory holds TLA+
models of its parts, TLC runs on small instances, and TLAPS proofs for all values of the constants. `PROJECT.json` lists
components, runs, mutants, the lines every definition stands for, findings, hazards and theorems.

## The system

| Part | State | Operations | What is hard | What makes it correct |
|---|---|---|---|---|
| Search history (`repository/history.go`) | rows per user, newest 15 kept | record 1 or 7, trim, delete one, delete all | overlapping transactions under READ COMMITTED | no recent row lost, excess bounded, other users untouched |
| Weekly planning, single suggestion (`service/menu.go`) | none on the server; the caller holds the week | suggest one or a week, reroll a day | eight levels of relaxation, streaks on both sides of a day | no repeat or streak that could be avoided, none unmarked, least relaxation, always an answer |
| Saved weeks (`*/saved_weekly.go`) | weeks and their 7 days | save (limit 50), list, find, delete | count then write; two-statement reads; partial failure | whole weeks only, bounded excess, owner only |
| Shopping list overrides (`*/…override.go`, `saved_shopping_list.go`) | rows per saved week | replace all, read | delete-then-insert against itself and against deletion of the week | nothing older survives a PUT, bounded excess |
| Shopping list page (`ShoppingListPage.tsx`) | ticks, hidden and added items; PUTs in flight | tick, add, remove, hide, refetch | a PUT of the whole list per click, none waiting for the former | what is clicked is what is stored and shown |
| Ingredient reader (`ingredient_resolve.go`, `resolve_quota.go`) | counters per day; cache of words | check, resolve, call, record; purge | check-then-act, midnight, disconnects, a purge beside requests | bounded overshoot, every call counted once, no word lost, no failure or outdated miss cached |
| Ingredient search, shopping list (`service/ingredient.go`, `shopping_list.go`) | none | rank, cut, aggregate | two-statement reads beside a seed; order and cut | the best answers kept, what is missing told in full |
| Billing (`service/billing.go`, `subscription.go`) | one row per user; Stripe's state | checkout, webhook, grant, revoke | events late, repeated, reordered; read-then-write | nobody premium unpaid, no double subscription |
| Recipe links (`service/menu.go`, `gateway/brave.go`) | cache of 7 days | look up, search with retries | time budget against retries; what is cached and how old it is | failures never cached, attempts bounded, links fresh, every request answered |
| Accounts (`repository/user.go`, `auth/`) | users, identities; stateless tokens | sign up, log in, Google sign-in | concurrent first sign-ins | one user per e-mail and per identity |
| Rate limiter (`handler/ratelimit.go`) | a bucket per address | allow | edge of the window | less than two limits in any window |
| Client session (`api/client.ts`, `hooks/`) | two cookies, one shared refresh, what the tab stores | refresh once, retry once, log in and out | many 401s at a time; answers crossing log-in and log-out | no refresh loop, cookies and stored week of the user signed in |
| Weekly page (`WeeklyPage.tsx`) | week, filter, saved id; mutations in flight | create, redraw, save | answers in any order | the id on screen belongs to the week on screen |
| Favorites, entitlements, other pages, infrastructure | rows; none; query cache; – | – | idempotent, dormant, rendering, I/O | not modelled |

They interact so: the pages call the handlers; `Suggest`/`SuggestWeekly` read the recent menus of the history and record
what they propose; `saved_shopping_list.go` checks the owner through the saved weeks and its rows are deleted with
them by a foreign key; `ingredient_resolve.go` asks the quota, then the cache, then the gateway, and records the
call; webhooks, checkout and the operator's `cmd/grant` share the row of a subscription; sign-up, log-in and the Google
callback stand behind one rate limiter; every call of the client passes through `client.ts` and its refresh.

## The modules

**History** (`repository/history.go`). `rows` is the committed table; `req[t]` is a transaction: `Begin` reads
`now()`, each `Insert` draws `seq`, `Prune` computes the trimming DELETE on what it can see (committed rows and its
own), `PruneDone` passes the locks (a row another transaction has deleted and not yet committed is waited for), `Commit`
publishes, `Rollback` stands for every error, deadlock victim and crash. `Delete` of one row is two statements
(`CheckOwner`, `Erase`); `DeleteAll` one. `recorded` and `erased` are history variables. The limit is the constant
`Limit` (15 in the code), a batch is 1 or 7.

**HistoryFeed** is what a user is promised, without transactions. `History` implements it with
`shown <- rows` (`ImplementsFeed`).

**WeekPlan** holds the pure choice of a day or of a single menu (pools, streak tests, marks), **WeekPlanner** the requests. A
random pick is a choice among the first pool that is not empty. `Suggest` takes one menu, without the recent ones as long as
others are left; `SuggestWeekly` picks day after day (`PickDay`); a reroll replaces one day of the week that its caller
holds. The handler's requests and answers carry ids only, so `plan` holds menus; the marks of `domain.DayMenu` exist on the days
of a `draft` and on the day just `redrawn`, where the service returns them. `forced` is a history variable: the rules that no
candidate could keep when a day was drawn. No code deletes a menu (migration 000008), so `weekGenres` finds every day's genre. The candidates and the recent menus are chosen anew for each request. Validation errors (400) change nothing and
are left out. The recording of what was proposed is `Begin` of History.

**SavedWeeks**. `Count`, then `InsertWeek`, `InsertDay` × 7 and `Commit`; `Delete` with its cascade; `List` and `Find` take
the parents, `FillDays` the days in a second statement, `answered` is what the user sees.

**ShoppingOverlay**. `Find` (owner, payload), `Clear` (snapshot of the DELETE), `ClearDone` (its locks), `Insert` per item
(the primary key lets it pass, wait or fail), `Commit`/`Rollback`; `DeleteWeek` cascades and waits for the locks of inserted
children. `after[p]` is the set of PUTs that were committed before p's DELETE.

**ShoppingPage** composes it with the page: `Toggle`, `AddManual`, `RemoveManual` and `Hide` change `local` and send the whole of
it (`BuildOverlay`) as a PUT, which arrives at any time (`Arrive` is ShoppingOverlay's `Find`); `Saved` invalidates the query;
`GetFind`, `GetOverrides` and `GetAnswered` are the refetch with the server's `mergeOverlay` (`Screen`) and the page's effect, which
runs only when the answer differs from the last one. `wanted` and `spoilt` are history variables: what the clicks add
up to, and whether a request failed or a click came before the former was saved and fetched again.

**ResolveQuota**. `Check` takes the day and `CountsAllow`/`CountsDeny`/`CountsFail` decide later; `Call` is the paid call;
`Record` takes the day again and `Increment` adds to both rows in one statement; `LoseCount` is a failed statement or a
crash; `Midnight` may come at any time; `Disconnect` cancels the request's context.

**IngredientResolve** composes it with the resolution: each step of `job[r]` carries the quota's step that the handler and the
service take with it. `ReadCatalog` reads the master once and matches names and readings, `ReadCache` the cache, `Ask` the model,
and `SaveWord` upserts one answer after another; of ingredients with one normalised name or reading the code's index decides (the
last name, the first reading: `NameIndex`); `AddIngredient` is the seed and `PurgeUnresolved` the operator's command, at any
time. `purged`, `basis` and `late` are history variables: the master at the last purge, the catalog behind each
cached miss, and the misses written by requests that a purge overtook.

**Billing**. One user's `row`; `stripe`, `events` and `sessions` are the environment: an event is never taken away, so it may be
delivered late, repeatedly and in any order. `Receive`, `Find`, `Upsert` are the three stages of a delivery; `StartCli` and
`Grant`/`Revoke` the two of the operator's command. A tick of `now` is abstract: a period, a trial and the grace are a few
ticks. Checkout's reads of the row are one step with the opening of the session; what can come between is already
covered by a session's completion at any later time. `version` (a change counter of a subscription) and `raced` are history.

**RecipeLinks**. One menu's `row` and the requests for it. `FindMenu`, `FindRow`, then the attempts of the gateway: `BeginAttempt`,
`Succeed`, `AttemptFails`, `AttemptRefused`, `AfterWait`, and `Report`/`Save`/`Respond`. Intervals are kept as what is left of them
and ages, so that `Tick` needs no clock: `left` is the budget, `timer` the attempt's time limit or the wait. `made` is the age
of links since the API was asked, which the program does not keep.

**RateLimit** is the fixed window; **Accounts** the endpoints behind it. `SignUp`, `Login` and `GoogleCallback` are admitted and
then go through the statements of their transaction (`FindBySub`, `FindByEmail`, `InsertUser`, `InsertIdentity`, `Commit`). An INSERT
that meets an uncommitted row of its unique index waits (`EmailHeld`, `SubHeld`). `OtherRequest` stands for the group's
other endpoints, which share the limit.

**Session**. One tab: the cookies, each call with the user it was sent as, the shared refresh, a log-in or log-out under way,
and the week stored in the tab. A cookie lives as long as its token. `Unauthorized` joins or starts the refresh, `Refreshed` and
`RefreshFails` wake all who wait. `GoogleLogin` is a navigation: what is in flight is dropped and what is stored stays.

**Catalog**. `SearchByIngredients`, `Build`, `MenuIngredients` and `All` as operators (`Matches`, `Rank`, `Aggregate`, `Display`) and as statements:
`Seed` may be committed between the two of a search. The properties state the answer anew from the relation `uses`.

**WeeklyPage**. The three mutations of the page with their guards (each button is disabled only by its own mutation), the
`onSuccess` handlers, and `clearSaved`. The server is the environment: a new week has distinct menus, a redraw avoids
the other days of the week it was sent (with enough candidates: `LeastRelaxed` and `RerollFresh` of WeekPlanner).

**Week** holds the days of a week, which the planner and the page share; **Sums** lemmas about the sums over tables that the models
write with the folds of the community modules.

The `MC` modules give the instances; each module's mutants (plausible slips of the code, next to what they replace) are
used by nothing else.

## Runs: questions, bounds, results

| Run | Question | Bounds and why they are enough |
|---|---|---|
| History_pair | Overlapping recordings: excess, retention, refinement | 2 requests, each of either of 2 users; limit 1 and batches {1,2}: a batch at and over the limit; 2 times (equal and different `searched_at`); 4 rows: two full batches over each other |
| WeekPlanner_week | Repeats and streaks, rerolls, order of relaxation, refusal | weeks of 4 with streaks of more than 2, so that windows overlap; no candidate, one, and exactly as many as days, three of them of one genre: the rules conflict with each other |
| SavedWeeks_shelf | Whole weeks, reads, excess | 2 users, 2 requests, limit 1, 3 ids (one more than the bound), 2 days (one can be missing) |
| ShoppingPage_clicks | Clicks kept, overlapping PUTs | 1 week, a derived name and another, 3 PUTs (the third can meet both an answer and a PUT under way), 2 requests, 1 added item per PUT |
| IngredientResolve_fridge | Each limit, counting, words, cache | 2 users with a limit of 1 under a limit of 2 for all (and another for addresses), so that own limit and total are reached apart; 2 requests, used again until 3 calls were made (a fourth may overlap the third); one text with a reading and an alias; one ingredient, not in the master at first; one midnight, one lost count. Addresses, and ingredients of one name, are left to the theorems (`ResolveOwnBound`, `ResolveEveryWordOnce`) |
| Billing_row | Who is premium, who may subscribe, what overwrites what | 2 subscriptions, 2 changes each, 2 checkouts open (a second beside the first, and one after the first is paid), 1 grant, 2 ticks; one delivery at a time beside the operator's command (overlapping deliveries are left to the theorems, which hold for any number) |
| WeeklyPage_screen | The id and the days on screen | weeks of 2 days, 3 menus, 2 ids |
| RecipeLinks_budget | Budget, freshness, failures, answers | 2 requests, 3 attempts, budget 4 against attempts of 2 and waits of 1 and 2: the budget cuts the second attempt, the second wait or none; a row is fresh for 1 unit |
| Accounts_race | One account per person, the limiter | 3 requests (two that race and one that has been before), 2 e-mails, 2 Google accounts, limit 2 in a window of 2 |
| Session_tab | Cookies, refresh, what the tab stores | 2 users, 2 calls: two share a refresh, or one of each user |
| Catalog_search | Ranking, cut, missing, aggregation | every master of 4 menus and 3 ingredients, with equal readings; a limit of 2, so that answers are cut; one seed |
| Session_expiry | (a violation, below) | as Session_tab |

Weeks of 4 days and limits of 1 or 2 stand for 7 days, 15 rows, 20 answers and 50 weeks: the code compares with these numbers
and does nothing else with them. The proofs cover every value, for every module.

Deadlock is checked except in ShoppingPage_clicks, where every PUT may have been sent and the week be deleted, and in
IngredientResolve_fridge, where every call may have been made and the last day be over. The symmetry
sets permute interchangeable model values; no run with symmetry checks liveness (`ImplementsFeed` is a safety property).

Fairness is assumed in two modules. RecipeLinks: time passes (strong fairness of `Tick`, which an
immediate step of some request may disable again and again) and the service takes its own steps (`Proceed`); the search API owes nothing,
an attempt it never answers ends by its timer. Session: a call that was sent, and a refresh, is answered or fails, as every
`fetch` does. Clients, failures and deliveries are never fair.

Session_expiry refutes a comment of `client.ts` (quoted in `PROJECT.json`): an expired access token is a log-out after all for
the endpoints behind `OptionalAuth`, which serve the call as nobody, so that no 401 ever starts the refresh.

Where a promise does not hold in full, it is checked in the form in which it does, which says exactly how far it is kept:

- the history and the shelf exceed their limits by what the other requests in flight add (`CountBound`, `ShelfBound`); so do the
  manual items of a list (`ManualBound`), because two overlapping PUTs on an empty list are stored as their union;
- the quota is passed by the other requests in flight, not more (`TotalBound`, and `OwnBound` for each user and each address);
- a week deleted between the two SELECTs of a read is shown without days, and only such a week (`ShownWholeOrGone`);
- an event of another subscription replaces the current one only through a race (`ProtectedUnlessRaced`), and two live
  subscriptions come only from checkouts opened before the first webhook (`DoubleOnlyIfBlind`);
- the id on the weekly page and the distinctness of its days fail only when answers cross (`SavedIdUnlessMixed`: a save answered
  after a redraw leaves the id of another week on screen; `DistinctUnlessCrossed`); a new week sets both right,
  and a redraw the id, when no save is pending;
- a week repeats a menu, or a genre too long, only where a day could not be drawn otherwise (`RelaxedOnlyIfForced`); the service marks
  it (`RelaxationsShown`), the handler's answer does not carry the mark;
- on the shopping page clicks are lost only when a request failed or a click came before the former was fetched again
  (`ClicksKept`);
- a miss older than the last purge is kept only by a request that the purge overtook (`MissAfterPurge`);
- a first Google sign-in fails with a conflict only when it lost a race (`ConflictOnlyIfRaced`);
- the cookies and the stored week are the signed-in user's unless a refresh or a call crossed the log-in or log-out, or the
  next user came in with Google without a log-out (`CookiesFollowUser`, `WeekIsOwn`); the cookies are right again after the next
  log-in or log-out with nothing else under way, or through Google.

Nothing is claimed of the order of events of one subscription: `Upsert` writes whichever comes last, and `PremiumIsOwed` says what
is left: in whatever order they come, nobody is premium beyond the last period paid, the months granted and, after a failed
payment, the grace.

The type invariants are in no run, since a wrong type stops TLC at the first operator that meets it; they are proved (the
theorems `*TypeOK`). Those of RateLimit and Catalog are part of the invariants of their proofs (`WindowOK`, `CatalogTypes`), those
of the shopping list and the weekly page are proved together with the page's (`ShoppingPageTypeOK`, `WeeklyPageInvariant`).

## Proofs

Every safety property that a run checks is a theorem, for all constants that satisfy the modules' named assumptions, and
for all behaviours of the specification as it stands: no theorem has a hypothesis of its own. `tlapm` checks the seven modules
`*Proofs` (History; IngredientResolve with the quota; SavedWeeks; WeekPlanner with the weekly page; Accounts with the limiter and
billing; Search: catalog and recipe links; Browser: shopping page and session) and the lemma module `Sums`. The assumptions:
finitely many requests where they are counted (history, quota, shelf, overrides), finitely many users and addresses of the quota, and
finite masters, filters and texts; lengths, limits and times that are numbers, positive where the code's are; names, readings and
categories as numbers, whose order is all that is used of them; users and addresses that are apart (the code counts them by kind
and id); and model values (no user, no day, missing, unasked, none) that are none of the things they stand beside. The bounds of the runs
(`MaxSeq`, `MaxCalls`, `MaxDay`, ...) are numbers without a limit in the proofs.

*History.* `HistoryTypeOK` by one step per action. `HistoryCountBound` and `HistoryNewestKept` share a supporting invariant
`Support`: the committed rows and the rows of open transactions are finite, have distinct `seq` below `nextSeq`, and
belong to their transaction's user. The bound is not inductive: a commit adds rows, and only rows its own trim has seen leave. `BoundInv`
therefore speaks of every set P of a user's requests that are trimming: what the table would hold of that user if exactly
those of P committed now (`After(u, P)`) is at most `Limit` plus `Slack`, a batch for each other request. A trim keeps at most
`Limit` of what it sees (`TrimLeavesLimit`, an injection of the survivors into `0..Limit-1`) and what it does not see are
the rows of other requests in flight (`OwnBound`, from `UnionBound`); a commit only turns a P with it into a P without it.
`OutdatedInv` carries retention over the open transactions: each row a pending DELETE will remove already has `Limit`
newer ones among those recorded and its transaction's own. `HistoryImplementsFeed` maps every step to one of the feed or a
stutter: a commit of a recording to the feed's recording, one of a deletion to its deletion. `BatchInv` says what makes these
enabled there: an open recording has a batch, one that trims has inserted all of it, and a deletion by hand takes its user's rows.

*ResolveQuota.* `TotalBound` alone is not inductive, because requests have been allowed and not counted yet. `TotalInv` counts,
with a day's total, every request that may still add to it (`AtRisk`): those charging it, and on the current day those
called or allowed and those whose check reads an older day. A check of the current day that allows finds the total
below the limit, so the sum is below the limit plus the requests. `OwnInv` is the same per subject. `CallsCounted` speaks of folds over
the tables; `CountsAgree` is the same with sums (`FoldIsSum`), and a step that adds one to an entry adds one to its sum.

*IngredientResolve.* Every step of the composition is a step of the quota or leaves it alone (`QuotaStep`, one case per
action), so that `SpecResolve` implements the quota's `Spec` and both bounds hold of the whole. `MissAfterPurge` is not inductive: what a
request will save depends on the copy of the master it took earlier. `MissInv` adds that the copy of every busy request no
purge has overtaken holds what the last purge saw (`JobOK`), and that the answer of a request that saves is one for the words
it asked. From the latter follows `FailureNotKept`, an action property. `EveryWordOnce` rests on `WordInv`: the words of a text are
partitioned into those pending, unresolved and found (`Sorted`), those found are the domain of a function into the ingredients
(`OneEach`), and an answer that is not yet saved is one for the pending (`Answers`); its counts are those of that partition
(`SortedCounts`). `ResolveTypeOK` has `HeldInv`: a request holds its call of the quota exactly while its job is where the call may come or
be counted, and what jobs and cache name is in the master, which only grows.

*RecipeLinks.* `LinksInv` holds of every request (`ReqOK`) that what it has spent and what is left are within the budget, and of an
attempt under way that its age and its timer are within the time limit; a row is at most one attempt older than its date
(`RowOK`). Time is what disturbs it: `TickReq` takes from what is left what it adds to what is spent, because an attempt
or a wait that is over lets no time pass. `WithinBudget`, `ServedFresh` and `FailureNotCached` follow. `TryInv` (`RecipeTypeOK`) bounds the
attempts and the ages.

*Catalog.* A list in order has at each place the element that so many others precede; `InOrderSorts` shows that there is one for each
place and that the list holds every element once, for any finite set with distinct keys, and `DisplaySorts` and `KeyOrder` that
shelves and ranks have such keys. `CatalogInv` adds to the properties that the menus a search found first are those that shared something
when it began (`InService`): `BestKept` and `MissingTold` then hold of whatever a seed leaves the second statement to read.

*SavedWeeks.* In `Inv` the week of a save under way has an id of its own, drawn and not on the shelf, that nobody has read
(`RequestOK`, `Apart`); what a request has read and is not there any more is empty because it was deleted (`ShownOK`). `ShelfBound` is not
inductive: `RoomInv` adds to a user's weeks the saves that have counted. A count below the limit leaves room for the one who counts.

*ShoppingOverlay and ShoppingPage.* `NothingOlder` rests on what a transaction's DELETE has not seen: those rows are of no PUT that was
stored before it (`TxOK`). For `ManualBound`, what a PUT still has to insert and what it has inserted are within what it was checked
for (`BoundInv`). `ClicksKept` needs both ends (`KeptInv`, while nothing is spoilt and the week is there): the page holds
what was clicked, or what it showed last when it was visited anew meanwhile (`PageSide`); and the transaction of the PUT on its way
says what was clicked and has seen all older rows, or, with no PUT on its way, the stored rows say it (`ServerSide`).

*WeekPlanner.* The eight pools are shown to be one order: a menu's `Score` is the rank of the rules it breaks, and what is drawn has the
least (`DrawnLeast`). From this follow `LeastRelaxed`, `RerollFresh` and, no candidate being lost, `NeverStuck`. `RelaxationsShown` is
an invariant of the draft, which an added day keeps (`AppendTells`), and a fact about the day just redrawn. `RelaxedOnlyIfForced` is one of
the draft and of the caller's week: a drawn day repeats or runs on only where `forced` says so (`DrawnForced`), and neither a day that is
added (`AppendExcused`) nor one replaced in the middle, with runs on both sides (`RerollExcused`), takes an excuse away from the days it
leaves.

*WeeklyPage.* `PageInv`: a save that is pending or was told, and met no change, is of the week on screen, and nothing is under way
that would change it.

*Accounts.* `Paired` holds of committed rows because of what open transactions hold: no two hold a user of one email or
an identity of one Google account (`Alone`, the unique indexes' waits), and none holds what is already committed (`TxOK`). `Unraced` is
what a request knows as long as no other commits: what it did not find is not there; so an INSERT that finds it after all has
been raced (`ConflictOnlyIfRaced`).

*RateLimit.* `WindowOK`: the count of the running window is what was admitted since it began, and the rest of any stretch of a window's length
lies in the window before, in which fewer than the limit are left once its first request is too old (`AdmittedBound`).

*Billing.* `BillInv` has one part per property: what a handler or the command has read and nothing overtook is still on the row
(`CurrentOK`); while no session was opened blindly, one open session or one live subscription is all there is (`OneLive`); the
end on the row, and the one the command read, are paid for or granted (`OwedOK`, with as many periods as were granted).

*Session.* `SessionInv` has one part for the time in which no refresh has crossed a log-in or log-out (`Uncrossed`: the cookies
and the refresh under way are the signed-in user's, a call in flight without a session behind it is known as one) and
one for the time in which besides no call of a former user is pending (`Punctual`). It gives `CookiesFollowUser`, `UnauthorizedIsTrue` and
`WeekIsOwn`.

*Sums.* The library's induction theorems take an operator, which no installed prover can instantiate. Its theorem that a
well-founded relation has least elements (`WFMin`) does not: it gives induction over the numbers and over the subsets of a
finite set as statements about a set (`StepByStep`, `SetBySet`), and with them that a fold of `+` is a sum in whatever order CHOOSE
takes the elements.

Only proved: `RelaxationsShown`, since the marks it speaks of are dropped by the handler and every repeat or run they would tell of is a matter of
`RelaxedOnlyIfForced`. Only model-checked: `Answered` and `EveryCallEnds`, liveness under fairness, which is out of the prover's reach; and what the
violation refutes. TLC alone also shows that each action can be taken and that each property fails under its mutant.

## Plan

Done: 1 History, HistoryFeed; 2 WeekPlan, WeekPlanner; 3 SavedWeeks, ShoppingOverlay; 4 ResolveQuota; 5 Billing; 6 WeeklyPage;
7 IngredientResolve over ResolveQuota; 8 RecipeLinks; 9 RateLimit, Accounts; 10 Session, ShoppingPage over ShoppingOverlay; 11 Catalog.

Proved: every safety invariant, action property and refinement of the runs, and every type invariant.

To do next: an atomic register as the abstract specification of the overrides, implemented by a lone client (with two, `NothingOlder` and
`ManualBound` say what remains of it) and proved so; a promise for the shelf in the manner of HistoryFeed.

To model, if the code grows there: leaving the weekly page with an answer pending.

## Not modelled

Favorites (each operation one idempotent statement), entitlements (everyone has all of them since 2026-08-02), pages without
state of their own, and infrastructure (wiring, migrations, logging, CORS, problem responses, proxy). Of modelled parts: the
list of a week that is not saved (it sends nothing), `DeleteOlderThan` of the quota's counters (days nothing reads any more),
leaving the weekly page or opening a saved week with an answer pending. Out of reach or without protocol: token
cryptography, password hashing, SQL text, HTTP encoding, rendering.
