----------------------------- MODULE RecipeLinks -----------------------------
(***************************************************************************)
(* The recipe pages of one menu (RecipeLinks and cachedLinks of            *)
(* service/menu.go, gateway/brave.go, repository/recipe_link_cache.go).    *)
(* Requests of the menu share its cached row.  A search has a budget, each *)
(* attempt on the search API a timeout of its own inside it, and the       *)
(* attempts are separated by a growing wait; the client may leave at any   *)
(* time.  Time is kept as what is left of each interval and as ages, so no *)
(* clock runs away: Tick lets one unit pass.                               *)
(***************************************************************************)
EXTENDS Naturals

CONSTANTS
  Requests,
  TTL,         \* recipeTTL
  Budget,      \* recipeBudget
  Timeout,     \* of one attempt
  Backoff,     \* the first wait; doubled each time
  MaxRetries

ASSUME RecipeAssumption ==
  /\ TTL \in Nat /\ Budget \in Nat \ {0} /\ Timeout \in Nat \ {0}
  /\ Backoff \in Nat \ {0} /\ MaxRetries \in Nat

VARIABLES
  row,   \* the menu's row of recipe_link_caches
  req    \* the state of each request

vars == <<row, req>>

-----------------------------------------------------------------------------
\* Ages stop being counted where they no longer make a difference.
Oldest == TTL + Timeout + 1

\* Links: the time since the search API was asked for them, the time since
\* fetchedAt, and whether they are the result of a search at all.
NoLinks == [made |-> 0, fetched |-> 0, real |-> FALSE, known |-> FALSE]
Found(made) == [made |-> made, fetched |-> 0, real |-> TRUE, known |-> TRUE]

Idle == [pc |-> "idle", gone |-> FALSE, left |-> 0, spent |-> 0, attempt |-> 0,
         timer |-> 0, links |-> NoLinks, result |-> "none"]

Init ==
  /\ row = NoLinks
  /\ req = [r \in Requests |-> Idle]

Least(m, n) == IF m < n THEN m ELSE n
Older(links) == [links EXCEPT !.made = Least(@ + 1, Oldest),
                              !.fetched = Least(@ + 1, Oldest)]
Down(n) == IF n = 0 THEN 0 ELSE n - 1

Go(r, new) == req' = [req EXCEPT ![r] = new]

\* Handler Recipes.
Ask(r) ==
  /\ req[r].pc = "idle"
  /\ Go(r, [Idle EXCEPT !.pc = "menu"])
  /\ UNCHANGED row

\* The client leaves.  (Before the menu was read the request ends in an error
\* either way.)
Leave(r) ==
  /\ req[r].pc \notin {"idle", "menu", "done"} /\ ~req[r].gone
  /\ Go(r, [req[r] EXCEPT !.gone = TRUE])
  /\ UNCHANGED row

End(r, result, links) ==
  [Idle EXCEPT !.pc = "done", !.result = result,
               !.links = [links EXCEPT !.fetched = 0]]

\* FindByID: a menu that does not exist, or a failing database, ends the
\* request before anything is searched for.
FindMenu(r) ==
  /\ req[r].pc = "menu"
  /\ \/ Go(r, [req[r] EXCEPT !.pc = "cache"])
     \/ Go(r, End(r, "error", NoLinks))
  /\ UNCHANGED row

\* context.WithTimeout(ctx, recipeBudget), then recipes.Search.
StartSearch(r) ==
  Go(r, [req[r] EXCEPT !.pc = "trying", !.left = Budget, !.spent = 0,
                       !.attempt = 0, !.links = NoLinks])

\* cachedLinks: no row, a row that cannot be read, a failing database and a row
\* older than TTL (exactly TTL is still valid) all lead to a search.
FindRow(r) ==
  /\ req[r].pc = "cache"
  /\ \/ /\ row.known /\ row.fetched <= TTL /\ ~req[r].gone
        /\ Go(r, End(r, "cached", row))
     \/ StartSearch(r)
  /\ UNCHANGED row

-----------------------------------------------------------------------------
\* The context of the search, and that of one attempt inside it.
SearchOver(r) == req[r].gone \/ req[r].left = 0
\* Mutant: the attempt's context does not descend from the search's.
OwnTimerOver(r) == req[r].timer = 0
\* Mutant: no deadline at all, only the client's leaving ends the attempt.
NoDeadline(r) == req[r].gone
AttemptOver(r) == SearchOver(r) \/ req[r].timer = 0

\* The top of fetch's loop.
BeginAttempt(r) ==
  /\ req[r].pc = "trying"
  /\ Go(r, IF SearchOver(r) THEN [req[r] EXCEPT !.pc = "failed"]
           ELSE [req[r] EXCEPT !.pc = "calling", !.timer = Timeout,
                               !.links = [NoLinks EXCEPT !.real = TRUE]])
  /\ UNCHANGED row

\* 200 with a body that parses, however many links it holds; fetchedAt is taken.
Succeed(r) ==
  /\ req[r].pc = "calling"
  /\ Go(r, [req[r] EXCEPT !.pc = "saving", !.links = Found(@.made),
                          !.left = 0, !.spent = 0, !.attempt = 0, !.timer = 0])
  /\ UNCHANGED row

Wait(attempt) == Backoff * 2 ^ attempt

\* A network error, a status of 5xx or 429, a broken body, a context that
\* ended: worth another attempt while there are attempts left.
AttemptFails(r) ==
  /\ req[r].pc = "calling"
  /\ Go(r, IF req[r].attempt = MaxRetries
           THEN [req[r] EXCEPT !.pc = "failed", !.links = NoLinks, !.timer = 0]
           ELSE [req[r] EXCEPT !.pc = "waiting", !.links = NoLinks,
                               !.timer = Wait(req[r].attempt)])
  /\ UNCHANGED row

\* Any other status.
AttemptRefused(r) ==
  /\ req[r].pc = "calling"
  /\ Go(r, [req[r] EXCEPT !.pc = "failed", !.links = NoLinks, !.timer = 0])
  /\ UNCHANGED row

\* The select between the context and the timer: when both are ready Go takes
\* either.
WaitEnds(r) == SearchOver(r) \/ req[r].timer = 0

AfterWait(r) ==
  /\ req[r].pc = "waiting" /\ WaitEnds(r)
  /\ \/ /\ SearchOver(r)
        /\ Go(r, [req[r] EXCEPT !.pc = "failed"])
     \/ /\ req[r].timer = 0
        /\ Go(r, [req[r] EXCEPT !.pc = "trying", !.attempt = @ + 1])
  /\ UNCHANGED row

-----------------------------------------------------------------------------
\* Mutant: a failure is saved as "no links".
ReportAndSave(r) ==
  /\ req[r].pc = "failed"
  /\ Go(r, End(r, IF req[r].gone THEN "interrupted" ELSE "failed", NoLinks))
  /\ row' = IF req[r].gone THEN row ELSE [NoLinks EXCEPT !.known = TRUE]

\* The search failed: the client's own leaving is told apart from a failure of
\* the search, a budget that ran out included (502).
Report(r) ==
  /\ req[r].pc = "failed"
  /\ Go(r, End(r, IF req[r].gone THEN "interrupted" ELSE "failed", NoLinks))
  /\ UNCHANGED row

\* Mutant: the row is dated by the database when it is written.
SaveDatedNow(r) ==
  /\ req[r].pc = "saving"
  /\ Go(r, End(r, "searched", req[r].links))
  /\ \/ ~req[r].gone /\ row' = [req[r].links EXCEPT !.fetched = 0]
     \/ UNCHANGED row

\* recipeCache.Save, an upsert; a failure is only logged.
Save(r) ==
  /\ req[r].pc = "saving"
  /\ Go(r, End(r, "searched", req[r].links))
  /\ \/ ~req[r].gone /\ row' = req[r].links
     \/ UNCHANGED row

Respond(r) ==
  /\ req[r].pc = "done"
  /\ Go(r, Idle)
  /\ UNCHANGED row

\* Steps that only compute take no time; a wait or an attempt that is over ends
\* before more time passes.  The database takes its time.
MayWait(r) ==
  /\ req[r].pc \notin {"trying", "failed", "done"}
  /\ req[r].pc = "calling" => ~AttemptOver(r)
  /\ req[r].pc = "waiting" => ~WaitEnds(r)

Tick ==
  /\ \A r \in Requests : MayWait(r)
  /\ row' = IF row.known THEN Older(row) ELSE row
  /\ req' = [r \in Requests |-> [req[r] EXCEPT
       !.left = Down(@), !.timer = Down(@),
       !.spent = IF req[r].pc \in {"calling", "waiting"} THEN Least(@ + 1, Budget + 1)
                 ELSE @,
       !.links = CASE req[r].pc = "calling" -> [Older(req[r].links) EXCEPT !.fetched = 0]
                   [] req[r].pc = "saving"  -> Older(req[r].links)
                   [] OTHER                 -> req[r].links]]

\* What the service does of itself for a request.
Proceed(r) ==
  \/ FindMenu(r) \/ FindRow(r)
  \/ BeginAttempt(r) \/ AfterWait(r)
  \/ AttemptOver(r) /\ AttemptFails(r)
  \/ Report(r) \/ Save(r) \/ Respond(r)

Next ==
  \/ Tick
  \/ \E r \in Requests :
       \/ Ask(r) \/ Leave(r) \/ Proceed(r)
       \/ Succeed(r) \/ AttemptFails(r) \/ AttemptRefused(r)

\* Time passes, and the database answers; the search API owes nothing.
Spec ==
  /\ Init /\ [][Next]_vars
  /\ SF_vars(Tick)
  /\ \A r \in Requests : WF_vars(Proceed(r))

-----------------------------------------------------------------------------
TypeOK ==
  /\ row \in [made : 0..Oldest, fetched : 0..Oldest, real : BOOLEAN, known : BOOLEAN]
  /\ \A r \in Requests :
       /\ req[r].left <= Budget /\ req[r].attempt <= MaxRetries
       /\ req[r].pc = "calling" => req[r].timer <= Timeout
       /\ req[r].pc = "saving" => req[r].links.fetched <= req[r].links.made

\* Attempts, their timeouts and the waits between them stay together within
\* the budget of the search, whatever the API does and however late the
\* attempt that is cut began.
WithinBudget == \A r \in Requests : req[r].spent <= Budget

\* The links a request is given from the cache were asked for at most TTL and
\* one attempt ago, however long the save of their row was held up and however
\* overlapping searches overwrote each other.
ServedFresh ==
  \A r \in Requests : req[r].result = "cached" => req[r].links.made <= TTL + Timeout

\* Only what a search has found (possibly nothing) is ever kept or shown, never
\* a failure, an interruption or a budget that ran out.
FailureNotCached ==
  /\ row.known => row.real
  /\ \A r \in Requests : req[r].result \in {"cached", "searched"} => req[r].links.real

\* Every request is answered, though the API may never answer.
Answered == \A r \in Requests : req[r].pc = "menu" ~> req[r].pc = "idle"
=============================================================================
