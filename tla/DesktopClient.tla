---------------------------- MODULE DesktopClient ----------------------------
(***************************************************************************)
(* One browser tab of the web client: its token, the page it shows, the    *)
(* query cache, the requests under way and the saves the user makes, with  *)
(* the server they go to.  Sources: desktop/src/context.ts, api/client.ts, *)
(* api/queries.ts, auth/, pages/LoginPage.tsx, pages/Layout.tsx.  How the  *)
(* cache fetches, cancels and refetches is TanStack Query, modelled from   *)
(* the options the source gives it (no staleTime, so a query is fetched    *)
(* again whenever it is mounted or the window gets the focus).             *)
(***************************************************************************)
EXTENDS DesktopQueries, FiniteSets

CONSTANTS
  Tokens,        \* values the user may type on the login page
  Key,           \* the one the server takes at first
  None,          \* no token, no data, nothing under way
  Tours,         \* sets of pages; the user of a behaviour stays within one
  MaxMoves, MaxFocus, MaxSaves, MaxElsewhere,
  MaxMishaps,    \* bounds; a mishap is a request that fails, its retry too, or a changed token
  MaxEvents      \* bound of all these together, for each tour

ASSUME DesktopAssumption ==
  /\ Key \in Tokens /\ None \notin Tokens
  /\ \A pages \in Tours : pages \subseteq Pages \ {Login} /\ MaxEvents[pages] \in Nat

VARIABLES
  server,    \* the version of each table
  accepted,  \* the token the server takes (WIO_API_TOKEN)
  token,     \* the token in the local storage
  tour, at,  \* the pages of this behaviour, and the one shown
  from,      \* where a login leads back to
  data,      \* each query's cached data: the versions it was read at
  failed,    \* queries whose last fetch ended in an error
  fetch,     \* each query's request under way
  call,      \* the save under way
  acked,     \* the version of each table the client's own saves made, once told
  blind,     \* queries whose first answer was read before a save told since
  left,      \* a save was unanswered when the token went
  spent      \* the bounds used up

vars == <<server, accepted, token, tour, at, from, data, failed, fetch, call, acked,
          blind, left, spent>>

Snapshot(q) == [t \in Reads[q] |-> server[t]]

(* A read as it is made, and what may come of it.                          *)
Answers ==
  [how : {"unauthorized", "refused", "broken"}, what : {None}]
    \cup UNION {[how : {"ok"}, what : [Reads[q] -> Nat]] : q \in Queries}
Requests == [token : Tokens \cup {None}, tries : {0, 1}, got : {None} \cup Answers]

ASSUME NoneAssumption ==
  /\ None \notin Requests
  /\ \A q \in Queries : None \notin [Reads[q] -> Nat]

Loaded == {q \in Queries : data[q] # None}
Active == Observed(at, Loaded)
SpentInAll == spent.moves + spent.focus + spent.saves + spent.elsewhere + spent.mishaps
Spend(what, most) ==
  /\ spent[what] < most
  /\ SpentInAll < MaxEvents[tour]
  /\ spent' = [spent EXCEPT ![what] = @ + 1]

(* A request as it leaves: it carries the token of that moment.            *)
Request(t, tries) == [token |-> t, tries |-> tries, got |-> None]

(* The requests once the queries in "wanted" are asked for afresh.         *)
Asked(wanted) == [q \in Queries |-> IF q \in wanted THEN Request(token, 0) ELSE fetch[q]]

Init ==
  /\ server = [t \in Tables |-> 0]
  /\ accepted = Key
  /\ token = Key
  /\ tour \in Tours
  /\ at \in tour
  /\ from = List
  /\ data = [q \in Queries |-> None]
  /\ failed = {}
  /\ fetch = [q \in Queries |->
       IF q \in Observed(at, {}) THEN Request(token, 0) ELSE None]
  /\ call = None
  /\ acked = [t \in Tables |-> 0]
  /\ blind = {}
  /\ left = FALSE
  /\ spent = [moves |-> 0, focus |-> 0, saves |-> 0, elsewhere |-> 0, mishaps |-> 0]

(* Another page is shown: the requests only the old page waited for are    *)
(* aborted, and everything the new page shows is asked for again.          *)
Show(page, with) ==
  /\ at' = page
  /\ fetch' = [q \in Queries |->
       IF q \in Observed(page, Loaded) THEN Request(with, 0) ELSE None]
  /\ blind' = blind \ Observed(page, Loaded)
  /\ failed' = {q \in failed : q \in Observed(page, Loaded) => q \in Loaded}

Visit(page) ==
  /\ at # Login
  /\ page \in tour \ {at}
  /\ Spend("moves", MaxMoves)
  /\ Show(page, token)
  /\ UNCHANGED <<server, accepted, token, tour, from, data, call, acked, left>>

(* The cache is emptied, which aborts the requests of its queries; a save  *)
(* under way is not one of them.                                           *)
ClearCache ==
  /\ data' = [q \in Queries |-> None]
  /\ fetch' = [q \in Queries |-> None]
  /\ failed' = {}
  /\ blind' = {}

Logout ==
  /\ at # Login
  /\ Spend("moves", MaxMoves)
  /\ token' = None
  /\ ClearCache
  /\ at' = Login
  /\ from' = List
  /\ left' = (left \/ call # None)
  /\ UNCHANGED <<server, accepted, tour, call, acked>>

(* An address to come back to; the login page itself is not one.           *)
SafeReturn(page) == IF page = Login THEN List ELSE page

(* The page shown stays open and only the token goes.                      *)
FaultyUnauthorized ==
  /\ token' = None
  /\ at' = Login
  /\ from' = SafeReturn(at)
  /\ left' = (left \/ call # None)
  /\ UNCHANGED <<data, fetch, failed, blind>>

(* What any answer 401 does, whatever token the request carried.           *)
Unauthorized ==
  /\ token' = None
  /\ ClearCache
  /\ from' = SafeReturn(at)
  /\ at' = Login
  /\ left' = (left \/ call # None)

LogIn(t) ==
  /\ at = Login
  /\ Spend("moves", MaxMoves)
  /\ token' = t
  /\ Show(from, t)
  /\ UNCHANGED <<server, accepted, tour, from, data, call, acked, left>>

(* The window gets the focus back, or the operations page's interval is    *)
(* over: what is shown is asked for again unless it is being asked for.    *)
Refocus ==
  LET idle == {q \in Active : fetch[q] = None} IN
  /\ idle # {}
  /\ Spend("focus", MaxFocus)
  /\ fetch' = Asked(idle)
  /\ blind' = blind \ idle
  /\ failed' = {q \in failed : q \in idle => q \in Loaded}
  /\ UNCHANGED <<server, accepted, token, tour, at, from, data, call, acked, left>>

(* The server: it answers a read, turns it down, or the request is lost.   *)
Ok(what) == [how |-> "ok", what |-> what]
Problem(how) == [how |-> how, what |-> None]
Reply(req, what) == IF req.token = accepted THEN Ok(what) ELSE Problem("unauthorized")
Answered(req, hows) == req # None /\ req.got # None /\ req.got.how \in hows

ServeRead(q) ==
  /\ fetch[q] # None
  /\ fetch[q].got = None
  /\ fetch' = [fetch EXCEPT ![q].got = Reply(fetch[q], Snapshot(q))]
  /\ UNCHANGED <<server, accepted, token, tour, at, from, data, failed, call, acked,
                 blind, left, spent>>

FailRead(q) ==
  /\ fetch[q] # None
  /\ fetch[q].got = None
  /\ \/ fetch[q].tries = 0 /\ Spend("mishaps", MaxMishaps)
     \/ fetch[q].tries = 1 /\ UNCHANGED spent   \* bound: one mishap may spoil both tries
  /\ \E how \in {"refused", "broken"} : fetch' = [fetch EXCEPT ![q].got = Problem(how)]
  /\ UNCHANGED <<server, accepted, token, tour, at, from, data, failed, call, acked,
                 blind, left>>

(* The queries of the page are known when it opens. *)
FaultyMounted(now) == {}
(* A query that gets its data may mount what depends on it.                *)
Mounted(now) == Observed(at, {q \in Queries : now[q] # None}) \ Active

ReadOk(q) ==
  /\ Answered(fetch[q], {"ok"})
  /\ data' = [data EXCEPT ![q] = fetch[q].got.what]
  /\ failed' = failed \ {q}
  /\ fetch' = [Asked(Mounted(data')) EXCEPT ![q] = None]
  /\ blind' = blind \ Mounted(data')
  /\ UNCHANGED <<server, accepted, token, tour, at, from, call, acked, left, spent>>

(* What the server could not answer is tried again, however often. *)
FaultyRetries(q) == fetch[q].got.how = "broken"
(* Only what the server could not answer is tried again, and once.         *)
Retries(q) == fetch[q].got.how = "broken" /\ fetch[q].tries < 1

ReadFailed(q) ==
  /\ Answered(fetch[q], {"refused", "broken"})
  /\ IF Retries(q)
       THEN /\ fetch' = [fetch EXCEPT ![q] = Request(token, 1)]
            /\ UNCHANGED failed
       ELSE /\ fetch' = [fetch EXCEPT ![q] = None]
            /\ failed' = failed \cup {q}
  /\ UNCHANGED <<server, accepted, token, tour, at, from, data, call, acked, blind, left, spent>>

ReadUnauthorized(q) ==
  /\ Answered(fetch[q], {"unauthorized"})
  /\ Unauthorized
  /\ UNCHANGED <<server, accepted, tour, call, acked, spent>>

(* What must be shown for there to be a form to save from: an error takes  *)
(* the place of the page, also when there is data from before.             *)
FormOf(m) ==
  (IF at[1] \in {"detail", "edit"} THEN {RouteOf(at[2])}
   ELSE IF at[1] = "trip" THEN {DayOf(at[2])} ELSE {}) \cup StoredIn(m)

(* The user saves something: one save at a time. *)
Save(m) ==
  /\ at # Login
  /\ call = None
  /\ m \in Offered(at)
  /\ FormOf(m) \subseteq Loaded \ failed
  /\ Spend("saves", MaxSaves)
  /\ call' = [does |-> m, token |-> token, got |-> None]
  /\ UNCHANGED <<server, accepted, token, tour, at, from, data, failed, fetch, acked,
                 blind, left>>

Written(m) == [t \in Tables |-> IF t \in Writes(m) THEN server[t] + 1 ELSE server[t]]

(* The answer to an accepted save: the versions it wrote, and what of the  *)
(* entry it is stored in it tells.                                         *)
Told(m, now) ==
  LET tables == IF Patches(m) THEN Writes(m) ELSE Writes(m) \cup UNION {Reads[q] : q \in StoredIn(m)}
  IN [t \in tables |-> now[t]]

ServeSave ==
  /\ call # None
  /\ call.got = None
  /\ IF call.token = accepted
       THEN /\ server' = Written(call.does)
            /\ call' = [call EXCEPT !.got = Ok(Told(call.does, server'))]
       ELSE call' = [call EXCEPT !.got = Problem("unauthorized")] /\ UNCHANGED server
  /\ UNCHANGED <<accepted, token, tour, at, from, data, failed, fetch, acked, blind, left,
                 spent>>

(* Turned down, not reached, or done with the answer lost.                 *)
FailSave ==
  /\ call # None
  /\ call.got = None
  /\ Spend("mishaps", MaxMishaps)
  /\ call' = [call EXCEPT !.got = Problem("refused")]
  /\ server' \in {server, Written(call.does)}
  /\ UNCHANGED <<accepted, token, tour, at, from, data, failed, fetch, acked, blind, left>>

(* The cache once the answer is written into it. *)
Stored(m, told) ==
  [q \in Queries |->
     IF q \notin StoredIn(m) \/ (Patches(m) /\ data[q] = None) THEN data[q]
     ELSE [t \in Reads[q] |-> IF t \in DOMAIN told THEN told[t] ELSE data[q][t]]]

(* The answer is stored and what it was stored in is not asked for.        *)
FaultyRestarted(m, now) ==
  {q \in (Invalidated(m) \ StoredIn(m)) \cap Active : fetch[q] = None \/ now[q] # None}
(* A request under way is kept, as if its answer could not be older.       *)
FaultyRestartedIdle(m, now) == {q \in Invalidated(m) \cap Active : fetch[q] = None}

(* Marking stale what is shown asks for it again.  A request under way is  *)
(* dropped for a new one only if there is data to show meanwhile.          *)
Restarted(m, now) == {q \in Invalidated(m) \cap Active : fetch[q] = None \/ now[q] # None}

SaveAccepted ==
  /\ Answered(call, {"ok"})
  /\ LET m == call.does
         told == call.got.what
         now == Stored(m, told)
         again == Restarted(m, now) \cup Mounted(now)
         created == m[1] = "createRoute" /\ at[1] = "create"
     IN /\ data' = now
        /\ acked' = [t \in Tables |->
             IF t \in Writes(m) /\ told[t] > acked[t] THEN told[t] ELSE acked[t]]
        /\ \E r \in Routes :    \* the route created is opened for editing
             LET page == IF created THEN <<"edit", r>> ELSE at
                 wanted == IF created THEN Observed(page, Loaded) ELSE again
             IN /\ at' = page
                /\ fetch' = Asked(wanted)
                /\ failed' = {q \in failed : now[q] = data[q] /\ (q \in wanted => q \in Loaded)}
                /\ blind' = (blind \cup {q \in Invalidated(m) \cap Active :
                                           now[q] = None /\ fetch[q] # None /\ fetch[q].got # None}) \ wanted
        /\ call' = None
  /\ UNCHANGED <<server, accepted, token, tour, from, left, spent>>

SaveFailed ==
  /\ Answered(call, {"refused"})
  /\ call' = None
  /\ UNCHANGED <<server, accepted, token, tour, at, from, data, failed, fetch, acked,
                 blind, left, spent>>

SaveUnauthorized ==
  /\ Answered(call, {"unauthorized"})
  /\ call' = None
  /\ Unauthorized
  /\ UNCHANGED <<server, accepted, tour, acked, spent>>

(* The phone, another tab or a nightly batch writes; the token is changed. *)
Elsewhere(t) ==
  /\ Spend("elsewhere", MaxElsewhere)
  /\ t \in UNION {Reads[q] : q \in Active}     \* bound: what nobody looks at is no news
  /\ server' = [server EXCEPT ![t] = @ + 1]
  /\ UNCHANGED <<accepted, token, tour, at, from, data, failed, fetch, call, acked, blind,
                 left>>

Rotate(t) ==
  /\ t # accepted
  /\ Spend("mishaps", MaxMishaps)
  /\ accepted' = t
  /\ UNCHANGED <<server, token, tour, at, from, data, failed, fetch, call, acked, blind,
                 left>>

(* An entry nobody observes is dropped after five minutes. *)
Collect(q) ==
  /\ q \in Loaded \ Active
  /\ data' = [data EXCEPT ![q] = None]
  /\ failed' = failed \ {q}
  /\ blind' = blind \ {q}
  /\ UNCHANGED <<server, accepted, token, tour, at, from, fetch, call, acked, left, spent>>

Proceed(q) == ServeRead(q) \/ ReadOk(q) \/ ReadFailed(q) \/ ReadUnauthorized(q)

Next ==
  \/ \E page \in Pages : Visit(page)
  \/ \E t \in Tokens : LogIn(t) \/ Rotate(t)
  \/ Logout \/ Refocus
  \/ \E q \in Queries : Proceed(q) \/ FailRead(q) \/ Collect(q)
  \/ \E m \in Offered(at) : Save(m)
  \/ ServeSave \/ FailSave \/ SaveAccepted \/ SaveFailed \/ SaveUnauthorized
  \/ \E t \in Tables : Elsewhere(t)

(* The server and the network go on, and so does the event loop that takes *)
(* an answer in; what the user, the phone and the operator do is theirs.   *)
Fairness == WF_vars(\E q \in Queries : Proceed(q))

Spec == Init /\ [][Next]_vars
FairSpec == Spec /\ Fairness

-----------------------------------------------------------------------------
(* What the client was told it saved it shows (useUpdateRoute, useReplace- *)
(* Legs, useReplaceCrossings, useUpdateTrip ...): a page with nothing      *)
(* under way shows no version older than one of its own accepted saves.    *)
(* Two cases are left out, and are real: a first answer read before the    *)
(* save, which invalidateQueries does not drop ("blind"), and the signal   *)
(* cycles, which are stored but never asked for again.                     *)
SeesSaved ==
  \A q \in (Active \cap Loaded) \ (failed \cup blind) :
    fetch[q] = None =>
      \A t \in Reads[q] : data[q][t] >= acked[t] \/ t \in {CyclesAt(s) : s \in Signals}

(* Without a token nothing is kept and nothing is asked for (Layout.logout *)
(* and the 401 handler of context.ts), unless a save was unanswered when   *)
(* the token went: its answer is stored in the emptied cache.              *)
LoggedOutEmpty ==
  /\ token = None => at = Login /\ \A q \in Queries : fetch[q] = None
  /\ token = None /\ ~left => Loaded = {}

(* A page may go back to an older version for a moment, when a save's      *)
(* answer is stored over a newer read, but then a read is on its way       *)
(* (setQueryData is followed by invalidateQueries); the cycles are not.    *)
Older(now, was) == \E t \in DOMAIN was : now[t] < was[t]
OlderIsReloaded ==
  [][\A q \in Active \cap Loaded :
       /\ at' = at
       /\ data'[q] # None
       /\ q \notin {CyclesOf(s) : s \in Signals}
       /\ Older(data'[q], data[q])
       => fetch'[q] # None]_vars

(* No page is "loading" for ever: once the user leaves it alone, each     *)
(* query it observes has data or an error (isPending ends), after at most  *)
(* two tries, also the ones mounted only when another has its data.        *)
LoadEnds == []<>(\A q \in Active : fetch[q] = None /\ q \in Loaded \cup failed)

-----------------------------------------------------------------------------
(* What the repository says, and the code does not keep in every case.     *)

(* "after a 401, logging in again returns to the page that got the 401"    *)
(* (pages.test.tsx): a second 401 takes the login page for that page.      *)
ReturnPathKept == [][at = Login /\ at' = Login => from' = from]_vars

(* "401이면 캐시를 비우고 로그인 화면으로 보낸다" (context.ts): a save's answer  *)
(* that comes later is stored in the cache that was emptied.               *)
CacheEmptiedOnLogout == token = None => Loaded = {}

(* A key the user has just typed is not thrown away because of a request   *)
(* that carried another one (authMiddleware of client.ts).                 *)
FreshTokenStays ==
  [][token = accepted /\ token' = None => at # Login /\ (call' # call => call.token = token)]_vars

(* The cycles shown are not older than the ones saved (useReplaceSignal-   *)
(* Cycles of queries.ts).                                                  *)
CyclesShownAreStored ==
  \A s \in Signals : LET q == CyclesOf(s) IN
    q \in Active \cap Loaded /\ fetch[q] = None /\ q \notin failed =>
      data[q][CyclesAt(s)] >= acked[CyclesAt(s)]
=============================================================================
