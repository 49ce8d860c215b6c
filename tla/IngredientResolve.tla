-------------------------- MODULE IngredientResolve --------------------------
(***************************************************************************)
(* Reading a text of ingredients (service/ingredient_resolve.go,           *)
(* repository/ingredient_resolution.go, cmd/resolutions, the resolvers of  *)
(* gateway/), composed with the quota of its calls: every step of a        *)
(* request carries the step of ResolveQuota that the handler and the       *)
(* service take with it.  A request reads the master once, then the cache  *)
(* once, and works with both copies to its end, while other requests save  *)
(* answers and the operator adds ingredients and purges the misses.        *)
(***************************************************************************)
EXTENDS ResolveQuota, FiniteSetsExt

CONSTANTS
  Ingredients,  \* numbers, in the order of FindAll (kana, then name)
  Words,        \* normalised words (NormalizeIngredientWord)
  Texts,        \* the texts users write, as sets of words: not empty
  NameOf, KanaOf,  \* the normalised name and reading of each ingredient
  NoWord,       \* the reading of an ingredient that has none
  FirstMaster,  \* the master at the start
  Missing,      \* a NULL row: not in the master
  Unasked       \* no row

ASSUME ResolveAssumption ==
  /\ Ingredients \subseteq Nat /\ IsFiniteSet(Ingredients)
  /\ FirstMaster \subseteq Ingredients
  /\ \A ws \in Texts : ws \subseteq Words /\ ws # {} /\ IsFiniteSet(ws)
  /\ DOMAIN NameOf = Ingredients
  /\ DOMAIN KanaOf = Ingredients
  /\ NoWord \notin Words
  /\ Missing \notin Ingredients /\ Unasked \notin Ingredients \cup {Missing}

VARIABLES
  master,   \* the table ingredients
  cache,    \* the table ingredient_resolutions, by word
  job,      \* what each request has read and found so far
  purged,   \* history variable: what the master held at the last purge
  basis,    \* history variable: the catalog behind each miss in the cache
  late      \* history variable: misses of requests that a purge overtook

quotaVars == vars
resolveVars == <<vars, master, cache, job, purged, basis, late>>

-----------------------------------------------------------------------------
NoJob == [pc |-> "idle", words |-> {}, gone |-> FALSE,
          items |-> {}, pending |-> {}, found |-> {}, unresolved |-> {},
          answer |-> <<>>, degraded |-> FALSE, straddles |-> FALSE]

InitResolve ==
  /\ Init
  /\ master = FirstMaster
  /\ cache = [w \in Words |-> Unasked]
  /\ job = [r \in Requests |-> NoJob]
  /\ purged = {}
  /\ basis = [w \in Words |-> {}]
  /\ late = {}

\* buildNameIndex: at most one ingredient for a word.  A name wins over a
\* reading; of two names that are the same once normalised the last in the
\* order of the master stays, of two readings the first.
NameIndex(items, w) ==
  LET named == {i \in items : NameOf[i] = w}
      read  == {i \in items : KanaOf[i] = w}
  IN CASE named # {} -> {Max(named)}
       [] named = {} /\ read # {} -> {Min(read)}
       [] OTHER -> {}

\* The words in ws that lead to an ingredient, with that ingredient.  The
\* answer lists an ingredient once however many words lead to it (seen).
Pairs(ws, led) == UNION {{w} \X led[w] : w \in ws}
WordsOf(pairs) == {p[1] : p \in pairs}

\* The end of a request that was allowed a call and needs none.
Spare(r) ==
  IF req[r].pc = "allowed" THEN NoCallNeeded(r) ELSE UNCHANGED quotaVars

\* Resolve of the handler: the text holds at least one word.
Begin(r, s, ws) ==
  /\ job[r].pc = "idle"
  /\ Check(r, s)
  /\ job' = [job EXCEPT ![r] = [NoJob EXCEPT
       !.pc = IF req'[r].pc = "allowed" THEN "catalog" ELSE "checking",
       !.words = ws]]
  /\ UNCHANGED <<master, cache, purged, basis, late>>

\* quota.Check answers; without room, or without its counters, the request
\* goes on without the model.
Checked(r) ==
  /\ job[r].pc = "checking"
  /\ CountsAllow(r) \/ CountsDeny(r) \/ CountsFail(r)
  /\ job' = [job EXCEPT ![r].pc = "catalog"]
  /\ UNCHANGED <<master, cache, purged, basis, late>>

\* The client closes the connection around the call: from then on the call and
\* the saves, made under the request's context, fail.  (Gone earlier or later,
\* it is one of the failures the reads and the saves may meet at any time.)
Leave(r) ==
  /\ job[r].pc \in {"asking", "counting"}
  /\ Disconnect(r)
  /\ job' = [job EXCEPT ![r].gone = TRUE]
  /\ UNCHANGED <<master, cache, purged, basis, late>>

\* Step 1, exact match: FindAll, then every word that is a name or a reading.
ReadCatalog(r) ==
  /\ job[r].pc = "catalog"
  /\ LET exact == [w \in Words |-> NameIndex(master, w)]
         found == Pairs(job[r].words, exact)
         rest  == job[r].words \ WordsOf(found)
     IN /\ job' = [job EXCEPT ![r] = [job[r] EXCEPT
             !.pc = IF rest = {} THEN "done" ELSE "cache",
             !.items = master, !.found = found, !.pending = rest]]
        /\ IF rest = {} THEN Spare(r) ELSE UNCHANGED quotaVars
  /\ UNCHANGED <<master, cache, purged, basis, late>>

\* FindAll fails: the request ends with an error.
CatalogFails(r) ==
  /\ job[r].pc = "catalog"
  /\ Spare(r)
  /\ job' = [job EXCEPT ![r] = NoJob]
  /\ UNCHANGED <<master, cache, purged, basis, late>>

\* Mutant: the cached ingredient is taken without looking it up in the master.
TrustRow(r, w) == IF cache[w] \in Ingredients THEN {cache[w]} ELSE {}

\* applyCache: the ingredient a cached row gives, unless this request's copy of
\* the master has lost it.
FromRow(r, w) == job[r].items \cap {cache[w]}

\* Step 2.  With words left the request asks the model, or ends degraded when
\* it may not (DenyReason).
AfterCache(r, found, misses) ==
  LET j == job[r]
      rest == j.pending \ (WordsOf(found) \cup misses)
      denied == rest # {} /\ req[r].pc # "allowed"
  IN /\ job' = [job EXCEPT ![r] = [j EXCEPT
          !.pc = IF rest = {} \/ denied THEN "done" ELSE "asking",
          !.found = j.found \cup found,
          !.unresolved = misses \cup (IF denied THEN rest ELSE {}),
          !.pending = IF denied THEN {} ELSE rest,
          !.degraded = denied, !.straddles = j.straddles /\ rest # {} /\ ~denied]]
     /\ IF rest = {} THEN Spare(r) ELSE UNCHANGED quotaVars

\* FindByWords answers, or fails and every word goes on to the model.
ReadCache(r) ==
  /\ job[r].pc = "cache"
  /\ LET kept == [w \in Words |-> FromRow(r, w)]
     IN \/ AfterCache(r, Pairs(job[r].pending, kept),
                      {w \in job[r].pending : cache[w] = Missing})
        \/ AfterCache(r, {}, {})
  /\ UNCHANGED <<master, cache, purged, basis, late>>

\* Step 3, gateway.Resolve with the words left and the names of the catalog.
\* An answer that is empty, that names no ingredient of the catalog, or that
\* leaves a word out, comes to the same: {}.  A failure (of both attempts, of
\* the parser, or of the cancelled context) answers nothing.
Ask(r) ==
  /\ job[r].pc = "asking"
  /\ Call(r)
  /\ \E answer \in
         {<<>>} \cup (IF job[r].gone THEN {}
                      ELSE [job[r].pending -> {{}} \cup {{i} : i \in job[r].items}]) :
       job' = [job EXCEPT ![r].pc = "counting", ![r].answer = answer]
  /\ UNCHANGED <<master, cache, purged, basis, late>>

TakeDay(r) ==
  /\ job[r].pc = "counting"
  /\ Record(r)
  /\ UNCHANGED <<master, cache, job, purged, basis, late>>

\* Mutant: a failed call is saved as a miss of every word it asked for.
BurnFailure(r) ==
  /\ job[r].pc = "counting"
  /\ IF job[r].answer = <<>>
     THEN /\ job' = [job EXCEPT ![r] = [job[r] EXCEPT
               !.pc = "done", !.degraded = TRUE, !.gone = FALSE, !.straddles = FALSE,
               !.unresolved = job[r].unresolved \cup job[r].pending, !.pending = {}]]
          /\ cache' = [w \in Words |-> IF w \in job[r].pending THEN Missing
                                       ELSE cache[w]]
     ELSE job' = [job EXCEPT ![r].pc = "saving"] /\ UNCHANGED cache

\* After the count: a failed call leaves its words unresolved, the answer
\* degraded and the cache as it was.
AfterCall(r) ==
  /\ job[r].pc = "counting"
  /\ LET j == job[r]
     IN  job' = [job EXCEPT ![r] =
           IF j.answer # <<>> THEN [j EXCEPT !.pc = "saving"]
           ELSE [j EXCEPT !.pc = "done", !.degraded = TRUE,
                          !.gone = FALSE, !.straddles = FALSE,
                          !.unresolved = j.unresolved \cup j.pending, !.pending = {}]]
  /\ UNCHANGED cache

Counted(r) ==
  /\ Increment(r) \/ LoseCount(r)
  /\ AfterCall(r)
  /\ UNCHANGED <<master, purged, basis, late>>

\* The instance dies before it has counted the call.
Die(r) ==
  /\ LoseCount(r)
  /\ job' = [job EXCEPT ![r] = NoJob]
  /\ UNCHANGED <<master, cache, purged, basis, late>>

\* saveResolution: an upsert.  It fails when the client is gone; a failure is
\* only logged.
Save(r, w) ==
  LET row == IF job[r].answer[w] = {} THEN Missing
             ELSE CHOOSE i \in job[r].answer[w] : TRUE
  IN \/ /\ ~job[r].gone
        /\ cache' = [cache EXCEPT ![w] = row]
        /\ basis' = [basis EXCEPT ![w] = IF row = Missing THEN job[r].items ELSE {}]
        /\ late' = IF row = Missing /\ job[r].straddles
                   THEN late \cup {w} ELSE late \ {w}
     \/ UNCHANGED <<cache, basis, late>>

SaveWord(r, w) ==
  /\ job[r].pc = "saving" /\ w \in job[r].pending
  /\ Save(r, w)
  /\ LET j == job[r]
         rest == j.pending \ {w}
     IN  job' = [job EXCEPT ![r] = [j EXCEPT
           !.pc = IF rest = {} THEN "done" ELSE "saving",
           !.gone = j.gone /\ rest # {},
           !.straddles = j.straddles /\ rest # {},
           !.pending = rest, !.answer = Restrict(j.answer, rest),
           !.found = j.found \cup ({w} \X j.answer[w]),
           !.unresolved = j.unresolved \cup (IF j.answer[w] = {} THEN {w} ELSE {})]]
  /\ UNCHANGED <<quotaVars, master, purged>>

Respond(r) ==
  /\ job[r].pc = "done"
  /\ job' = [job EXCEPT ![r] = NoJob]
  /\ UNCHANGED <<quotaVars, master, cache, purged, basis, late>>

-----------------------------------------------------------------------------
\* cmd/seed adds an ingredient (ON CONFLICT DO NOTHING).
AddIngredient(i) ==
  /\ i \notin master
  /\ master' = master \cup {i}
  /\ UNCHANGED <<quotaVars, cache, job, purged, basis, late>>

\* Mutant: the rows that were resolved are deleted, the misses stay.
DeleteResolved ==
  cache' = [w \in Words |-> IF cache[w] \in Ingredients THEN Unasked ELSE cache[w]]

\* DeleteUnresolved.
DeleteUnresolved ==
  cache' = [w \in Words |-> IF cache[w] = Missing THEN Unasked ELSE cache[w]]

\* resolutions purge-unresolved, run after an update of the master.
PurgeUnresolved ==
  /\ purged # master
  /\ DeleteUnresolved
  /\ purged' = master
  /\ basis' = [w \in Words |-> {}] /\ late' = {}
  /\ job' = [r \in Requests |-> [job[r] EXCEPT
       !.straddles = job[r].straddles
                       \/ job[r].pc \in {"cache", "asking", "counting", "saving"}]]
  /\ UNCHANGED <<quotaVars, master>>

AtMidnight ==
  /\ Midnight
  /\ UNCHANGED <<master, cache, job, purged, basis, late>>

NextResolve ==
  \/ AtMidnight
  \/ PurgeUnresolved
  \/ \E i \in Ingredients : AddIngredient(i)
  \/ \E r \in Requests :
       \/ \E s \in Subjects, ws \in Texts : Begin(r, s, ws)
       \/ Checked(r)
       \/ Leave(r)
       \/ ReadCatalog(r)
       \/ CatalogFails(r)
       \/ ReadCache(r)
       \/ Ask(r)
       \/ TakeDay(r)
       \/ Counted(r)
       \/ Die(r)
       \/ \E w \in Words : SaveWord(r, w)
       \/ Respond(r)

SpecResolve == InitResolve /\ [][NextResolve]_resolveVars

-----------------------------------------------------------------------------
\* Every variable keeps its type, and a request holds its call of the quota
\* exactly as long as its job is where a call may still come or be counted.
TypeOKResolve ==
  /\ TypeOK
  /\ master \subseteq Ingredients
  /\ cache \in [Words -> master \cup {Missing, Unasked}]
  /\ \A r \in Requests :
       /\ job[r].pc = "checking" <=> req[r].pc = "checking"
       /\ job[r].pc = "asking" => req[r].pc = "allowed"
       /\ job[r].pc = "counting" <=> req[r].pc \in {"called", "charging"}
  /\ purged \subseteq Ingredients
  /\ basis \in [Words -> SUBSET Ingredients]
  /\ late \subseteq Words

\* Through exact match, cache and model no word of the text is lost or
\* answered twice: each is still pending, unresolved, or led to one ingredient
\* of the request's own catalog, whatever the cache held and however the model
\* and the saves failed.
EveryWordOnce ==
  \A r \in Requests : job[r].pc \notin {"idle", "checking", "catalog"} =>
    LET hit == WordsOf(job[r].found)
    IN /\ job[r].words = hit \cup job[r].pending \cup job[r].unresolved
       /\ Cardinality(job[r].words) = Cardinality(job[r].found)
            + Cardinality(job[r].pending) + Cardinality(job[r].unresolved)
       /\ \A p \in job[r].found : p[2] \in job[r].items

\* A miss kept in the cache was said of a catalog that held everything the
\* master held at the last purge; only a request that was under way across the
\* purge brings an older one back (and it stays until the next purge).
MissAfterPurge ==
  \A w \in Words \ late : cache[w] = Missing => purged \subseteq basis[w]

\* The cache only learns from a call that answered: a failed, refused or
\* abandoned one leaves no word as "not in the master".
FailureNotKept ==
  [][\A w \in Words : cache'[w] \notin {cache[w], Unasked} =>
       \E r \in Requests : /\ w \in DOMAIN job[r].answer
                           /\ ~job[r].gone /\ ~job'[r].degraded]_resolveVars
=============================================================================
