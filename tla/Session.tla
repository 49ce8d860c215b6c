------------------------------ MODULE Session ------------------------------
(***************************************************************************)
(* The session of one browser tab: the two cookies, the calls of           *)
(* frontend api/client.ts with their shared refresh and single retry, and  *)
(* the endpoints that write the cookies (handler/auth.go, session.go,      *)
(* google.go, auth/jwt.go).  The server keeps no session: what a request   *)
(* is served as depends on the cookies it left the browser with, and its   *)
(* answer writes cookies when it arrives, in any order.  A cookie lives as *)
(* long as its token, so an expired token is a cookie that is gone.        *)
(***************************************************************************)
EXTENDS Naturals, FiniteSets

CONSTANTS
  Users, NoUser,
  Calls        \* the calls of the API that can be under way together

ASSUME SessionAssumption == NoUser \notin Users

VARIABLES
  access,      \* whose token the access cookie holds
  refresh,     \* whose token the refresh cookie holds
  call,        \* the calls under way
  refreshing,  \* the promise of client.ts, and the request behind it
  entry,       \* the login or logout under way
  stored,      \* whose week the tab keeps in sessionStorage (useSessionState)
  signedIn,    \* history variable: whom the last answered login, or logout, left
  crossed,     \* history variable: a refresh was under way together with a login
               \* or logout, and the session was not begun afresh since
  late         \* history variable: since stored was last cleared for another user,
               \* a call made before may still write it; or it was not cleared

sessionVars == <<access, refresh, call, refreshing, entry, stored, signedIn, crossed, late>>

-----------------------------------------------------------------------------
MaybeUser == Users \cup {NoUser}

\* retry: client.ts may still refresh and send again.  over: there was no
\* session when this call was sent, or while it was under way its session
\* ended, a refresh failed, or the token it was sent again with expired
\* (history).
NoCall == [pc |-> "idle", needs |-> "none", as |-> NoUser, retry |-> TRUE, over |-> FALSE]
NoRefresh == [pc |-> "none", as |-> NoUser]
NoEntry == [kind |-> "none", user |-> NoUser]

InitSession ==
  /\ access = NoUser /\ refresh = NoUser
  /\ call = [c \in Calls |-> NoCall]
  /\ refreshing = NoRefresh
  /\ entry = NoEntry
  /\ stored = NoUser /\ signedIn = NoUser
  /\ crossed = FALSE /\ late = FALSE

InFlight(c) == call[c].pc \in {"sent", "waiting"}

\* The session ends, or a refresh fails, while calls are under way.
Excused(k) == [c \in Calls |-> IF InFlight(c) THEN [k[c] EXCEPT !.over = TRUE]
                                   ELSE k[c]]

\* An endpoint behind RequireAuth, or behind OptionalAuth.
Send(c, needs) ==
  /\ call[c].pc = "idle"
  /\ call' = [call EXCEPT ![c] = [NoCall EXCEPT !.pc = "sent", !.needs = needs,
                                     !.as = access, !.over = refresh = NoUser]]
  /\ UNCHANGED <<access, refresh, refreshing, entry, stored, signedIn, crossed, late>>

\* request(path, init, false), once the refresh has succeeded.
Resend(k, cookie) == [k EXCEPT !.pc = "sent", !.as = cookie, !.retry = FALSE]

-----------------------------------------------------------------------------
\* RequireAuth and OptionalAuth let the call through: as its user, or, without
\* a valid token, as nobody where that is allowed.
Served(c) ==
  /\ call[c].pc = "sent"
  /\ call[c].as # NoUser \/ call[c].needs = "optional"
  /\ call' = [call EXCEPT ![c].pc = IF call[c].as = NoUser THEN "anonymous" ELSE "served"]
  /\ UNCHANGED <<access, refresh, refreshing, entry, stored, signedIn, crossed, late>>

\* 401: wait for the refresh that is under way, or start one; a promise that
\* is settled and still there would be taken at its word.
Unauthorized(c) ==
  /\ call[c].pc = "sent" /\ call[c].as = NoUser /\ call[c].needs = "required"
  /\ IF ~call[c].retry
     THEN /\ call' = [call EXCEPT ![c].pc = "unauthorized"]
          /\ UNCHANGED <<refreshing, crossed>>
     ELSE IF refreshing.pc = "settled"
     THEN /\ call' = [call EXCEPT ![c] = Resend(@, access)]
          /\ UNCHANGED <<refreshing, crossed>>
     ELSE /\ call' = [call EXCEPT ![c].pc = "waiting"]
          /\ refreshing' = IF refreshing.pc = "none"
                           THEN [pc |-> "sent", as |-> refresh] ELSE refreshing
          /\ crossed' = (crossed \/ entry.kind # "none")
  /\ UNCHANGED <<access, refresh, entry, stored, signedIn, late>>

\* The call fails on the network (NetworkError), or its outcome is taken: that
\* of making a week is kept in the tab, by whoever is signed in by then.
End(c) ==
  /\ call[c].pc \in {"sent", "served", "anonymous", "unauthorized"}
  /\ call' = [call EXCEPT ![c] = NoCall]
  /\ \/ call[c].pc = "served" /\ stored' = call[c].as
     \/ UNCHANGED stored
  /\ UNCHANGED <<access, refresh, refreshing, entry, signedIn, crossed, late>>

-----------------------------------------------------------------------------
\* What becomes of the calls that wait for the refresh.
Wake(woken) == [c \in Calls |-> IF call[c].pc = "waiting" THEN woken[c] ELSE call[c]]

\* Mutant: the promise is not forgotten when it is settled.
RefreshedAndKept ==
  /\ refreshing.pc = "sent" /\ refreshing.as # NoUser
  /\ access' = refreshing.as
  /\ call' = Wake([c \in Calls |-> Resend(call[c], refreshing.as)])
  /\ refreshing' = [refreshing EXCEPT !.pc = "settled"]
  /\ UNCHANGED <<refresh, entry, stored, signedIn, crossed, late>>

\* Refresh: 204 and a new access cookie, of the user of the refresh token.  All
\* calls that wait are sent again.
Refreshed ==
  /\ refreshing.pc = "sent" /\ refreshing.as # NoUser
  /\ access' = refreshing.as
  /\ call' = Wake([c \in Calls |-> Resend(call[c], refreshing.as)])
  /\ refreshing' = NoRefresh
  /\ UNCHANGED <<refresh, entry, stored, signedIn, crossed, late>>

GiveUp(k) == [k EXCEPT !.pc = "unauthorized", !.over = @ \/ refreshing.as # NoUser]

\* Mutant: a refresh that failed leaves its callers waiting.
RefreshFailsSilently ==
  /\ refreshing.pc = "sent"
  /\ refreshing' = NoRefresh
  /\ UNCHANGED <<access, call, refresh, entry, stored, signedIn, crossed, late>>

\* 401 for want of a valid refresh token, another status, or no answer.
RefreshFails ==
  /\ refreshing.pc = "sent"
  /\ call' = Wake([c \in Calls |-> GiveUp(call[c])])
  /\ refreshing' = NoRefresh
  /\ UNCHANGED <<access, refresh, entry, stored, signedIn, crossed, late>>

-----------------------------------------------------------------------------
\* The form of LoginPage (login or sign-up) and the button of AuthMenu.
SubmitLogin(u) ==
  /\ entry.kind = "none"
  /\ entry' = [kind |-> "login", user |-> u]
  /\ crossed' = (crossed \/ refreshing.pc = "sent")
  /\ UNCHANGED <<access, refresh, call, refreshing, stored, signedIn, late>>

ClickLogout ==
  /\ entry.kind = "none"
  /\ entry' = [kind |-> "logout", user |-> NoUser]
  /\ crossed' = (crossed \/ refreshing.pc = "sent")
  /\ UNCHANGED <<access, refresh, call, refreshing, stored, signedIn, late>>

\* clearSessionState: what is stored and shown is dropped, what is under way is
\* not.
ClearStored ==
  /\ stored' = NoUser
  /\ late' = \E c \in Calls : call[c].pc # "idle"

\* The cookies are written while nothing else is under way that could write
\* them, or was sent with the former ones.
BegunAfresh == refreshing.pc = "none" /\ \A c \in Calls : call[c].pc = "idle"

\* Mutant: the week in the tab is left as it is.
LoggedInKeepingWeek ==
  /\ entry.kind = "login"
  /\ access' = entry.user /\ refresh' = entry.user
  /\ signedIn' = entry.user
  /\ late' = \E c \in Calls : call[c].pc # "idle"
  /\ crossed' = (crossed /\ ~BegunAfresh)
  /\ entry' = NoEntry
  /\ UNCHANGED <<call, refreshing, stored>>

\* issueSession, and onSuccess of LoginPage.
LoggedIn ==
  /\ entry.kind = "login"
  /\ access' = entry.user /\ refresh' = entry.user
  /\ signedIn' = entry.user
  /\ ClearStored
  /\ crossed' = (crossed /\ ~BegunAfresh)
  /\ entry' = NoEntry
  /\ UNCHANGED <<call, refreshing>>

\* Mutant: the refresh cookie is cleared under another path.
LoggedOutHalf ==
  /\ entry.kind = "logout"
  /\ access' = NoUser
  /\ signedIn' = NoUser
  /\ call' = Excused(call)
  /\ ClearStored
  /\ crossed' = (crossed /\ ~BegunAfresh)
  /\ entry' = NoEntry
  /\ UNCHANGED <<refresh, refreshing>>

\* clearSession, and onSettled of useLogout.
LoggedOut ==
  /\ entry.kind = "logout"
  /\ access' = NoUser /\ refresh' = NoUser
  /\ signedIn' = NoUser
  /\ call' = Excused(call)
  /\ ClearStored
  /\ crossed' = (crossed /\ ~BegunAfresh)
  /\ entry' = NoEntry
  /\ UNCHANGED refreshing

\* Refused, or lost on the network; onSettled of useLogout runs all the same.
EntryFails ==
  /\ entry.kind # "none"
  /\ IF entry.kind = "logout" THEN ClearStored ELSE UNCHANGED <<stored, late>>
  /\ entry' = NoEntry
  /\ UNCHANGED <<access, refresh, call, refreshing, signedIn, crossed>>

\* GoogleCallback is a navigation: what the page had under way is dropped, what
\* the tab has stored is kept.
GoogleLogin(u) ==
  /\ access' = u /\ refresh' = u
  /\ signedIn' = u
  /\ call' = [c \in Calls |-> NoCall]
  /\ refreshing' = NoRefresh /\ entry' = NoEntry
  /\ late' = (late \/ crossed \/ signedIn # NoUser)
  /\ crossed' = FALSE
  /\ UNCHANGED stored

\* accessTTL passes: a call under way may or may not have been verified before.
AccessExpires(unverified) ==
  /\ access # NoUser /\ access' = NoUser
  /\ \A c \in unverified : call[c].pc = "sent" /\ call[c].as # NoUser
  /\ call' = [c \in Calls |->
       IF c \in unverified
       THEN [call[c] EXCEPT !.as = NoUser, !.over = @ \/ ~call[c].retry]
       ELSE call[c]]
  /\ UNCHANGED <<refresh, refreshing, entry, stored, signedIn, crossed, late>>

\* refreshTTL passes.
RefreshExpires ==
  /\ refresh # NoUser /\ refresh' = NoUser
  /\ call' = Excused(call)
  /\ UNCHANGED <<access, refreshing, entry, stored, signedIn, crossed, late>>

NextSession ==
  \/ \E c \in Calls :
       \/ Send(c, "required") \/ Send(c, "optional")
       \/ Served(c) \/ Unauthorized(c) \/ End(c)
  \/ Refreshed \/ RefreshFails
  \/ (\E u \in Users : SubmitLogin(u) \/ GoogleLogin(u))
  \/ ClickLogout \/ LoggedIn \/ LoggedOut \/ EntryFails
  \/ (\E unverified \in SUBSET Calls : AccessExpires(unverified))
  \/ RefreshExpires

\* A request that was sent is answered, or fails.
SpecSession ==
  /\ InitSession /\ [][NextSession]_sessionVars
  /\ \A c \in Calls : WF_sessionVars(Served(c) \/ Unauthorized(c) \/ End(c))
  /\ WF_sessionVars(Refreshed \/ RefreshFails)

-----------------------------------------------------------------------------
TypeOKSession ==
  /\ access \in MaybeUser /\ refresh \in MaybeUser /\ signedIn \in MaybeUser
  /\ call \in [Calls ->
       [pc : {"idle", "sent", "waiting", "served", "anonymous", "unauthorized"},
        needs : {"none", "required", "optional"}, as : MaybeUser,
        retry : BOOLEAN, over : BOOLEAN]]
  /\ refreshing \in [pc : {"none", "sent", "settled"}, as : MaybeUser]
  /\ entry \in [kind : {"none", "login", "logout"}, user : MaybeUser]
  /\ stored \in MaybeUser
  /\ crossed \in BOOLEAN /\ late \in BOOLEAN

\* The cookies are those of the user who signed in last, and none are left by a
\* logout, unless a refresh was under way together with a login or a logout:
\* its answer, arriving last, brings the former user's access cookie back.  That
\* lasts until the next login or logout with nothing else under way, or through
\* Google, at the latest.
CookiesFollowUser == ~crossed => {access, refresh} \subseteq {signedIn, NoUser}

\* An expired access token is no logout (comment of request: 「期限切れは利用者に
\* とってログアウトではない」): a call behind RequireAuth is told 401 only when its
\* session ended meanwhile or a refresh failed, however many calls meet the
\* expiry together and share the refresh.
UnauthorizedIsTrue ==
  ~crossed => \A c \in Calls : call[c].pc = "unauthorized" => call[c].over

\* A week made by one user is not left in the tab for the next (comment of
\* clearSessionState), unless a call of the former was answered after the
\* change, or the next came in with Google and no logout before.
WeekIsOwn == ~late /\ ~crossed => stored \in {signedIn, NoUser}

\* Every call ends: no refresh leaves its callers waiting, and a call is not
\* sent again and again.
EveryCallEnds == \A c \in Calls : InFlight(c) ~> ~InFlight(c)

\* The same comment, of every call: none that was sent within a session is
\* told 401, or served as nobody.
ExpiryIsNoLogout ==
  ~crossed => \A c \in Calls :
    call[c].pc \in {"anonymous", "unauthorized"} => call[c].over
=============================================================================
