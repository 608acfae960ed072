------------------------- MODULE DesktopClientProofs -------------------------
(***************************************************************************)
(* Proofs about DesktopClient, for any routes, trips, signals, tokens,     *)
(* tours and bounds.                                                       *)
(***************************************************************************)
EXTENDS DesktopClient, SequenceTheorems, TLAPS

(* What holds once the token is gone: the login page is shown, nothing is  *)
(* asked for, a save that is still unanswered was so when the token went,  *)
(* and unless there was one the cache is empty.                            *)
Emptied ==
  token = None =>
    /\ at = Login
    /\ \A q \in Queries : fetch[q] = None
    /\ call # None => left
    /\ ~left => \A q \in Queries : data[q] = None

Safe ==
  /\ fetch = [q \in Queries |-> fetch[q]]
  /\ data = [q \in Queries |-> data[q]]
  /\ Emptied

(* The login page observes nothing.                                        *)
LEMMA LoginObservesNothing == \A loaded : Observed(Login, loaded) = {}
BY DEF Observed, Login, List

(* Opening a page that may not be the login page asks for what it shows.   *)
LEMMA ShowKeepsType ==
  ASSUME NEW page, NEW with, Show(page, with)
  PROVE  fetch' = [q \in Queries |-> fetch'[q]]
BY DEF Show

(* Emptying the cache leaves nothing.                                      *)
LEMMA ClearCacheEmpties ==
  ASSUME ClearCache
  PROVE  /\ fetch' = [q \in Queries |-> fetch'[q]]
         /\ data' = [q \in Queries |-> data'[q]]
         /\ \A q \in Queries : fetch'[q] = None /\ data'[q] = None
BY DEF ClearCache

(* Initially there is a token.                                             *)
LEMMA InitialClient == Init => Safe
<1> SUFFICES ASSUME Init PROVE Safe
  OBVIOUS
<1>1. token # None
  BY DesktopAssumption DEF Init
<1>2. /\ fetch = [q \in Queries |-> fetch[q]]
      /\ data = [q \in Queries |-> data[q]]
  BY DEF Init
<1> QED BY <1>1, <1>2 DEF Safe, Emptied

(* An answer to a save that comes when the token is gone asks for nothing, *)
(* because the login page shows nothing, and finds "left" set.             *)
LEMMA SaveAcceptedSafe ==
  ASSUME Safe, SaveAccepted
  PROVE  Safe'
<1> DEFINE m == call.does
           now == Stored(m, call.got.what)
           again == Restarted(m, now) \cup Mounted(now)
           created == m[1] = "createRoute" /\ at[1] = "create"
<1>1. /\ call # None /\ call' = None
      /\ data' = now
      /\ UNCHANGED <<token, left>>
      /\ \E r \in Routes :
           LET page == IF created THEN <<"edit", r>> ELSE at
               wanted == IF created THEN Observed(page, Loaded) ELSE again
           IN at' = page /\ fetch' = Asked(wanted)
  BY DEF SaveAccepted, Answered
<1>2. data' = [q \in Queries |-> data'[q]]
  BY <1>1 DEF Stored
<1>3. PICK wanted : fetch' = Asked(wanted)
  BY <1>1
<1>4. fetch' = [q \in Queries |-> fetch'[q]]
  BY <1>3 DEF Asked
<1>5. ASSUME token' = None PROVE Emptied'
  <2>1. token = None /\ at = Login /\ left /\ \A q \in Queries : fetch[q] = None
    BY <1>1, <1>5 DEF Safe, Emptied
  <2>2. ~created
    BY <2>1 DEF Login
  <2>3. again = {}
    BY <2>1, LoginObservesNothing DEF Restarted, Mounted, Active
  <2>4. at' = at /\ fetch' = Asked({})
    BY <1>1, <2>2, <2>3
  <2>5. \A q \in Queries : fetch'[q] = None
    BY <2>1, <2>4 DEF Asked
  <2> QED BY <1>1, <2>1, <2>4, <2>5 DEF Emptied
<1> QED BY <1>2, <1>4, <1>5 DEF Safe, Emptied

(* A 401 and a logout leave nothing.                                       *)
LEMMA UnauthorizedSafe ==
  ASSUME Unauthorized, call' # None => call # None
  PROVE  Safe'
<1>1. /\ ClearCache
      /\ at' = Login
      /\ left' = (left \/ call # None)
  BY DEF Unauthorized
<1> QED BY <1>1, ClearCacheEmpties DEF Safe, Emptied

(* Reads: without a token there is none that could be answered.            *)
LEMMA ReadSafe ==
  ASSUME Safe, NEW q \in Queries, Proceed(q) \/ FailRead(q)
  PROVE  Safe'
<1>1. CASE ReadUnauthorized(q)
  BY <1>1, UnauthorizedSafe DEF ReadUnauthorized
<1>2. CASE ServeRead(q) \/ FailRead(q) \/ ReadOk(q) \/ ReadFailed(q)
  <2>1. fetch[q] # None /\ token' = token
    BY <1>2 DEF ServeRead, FailRead, ReadOk, ReadFailed, Answered
  <2>2. token' # None
    BY <2>1 DEF Safe, Emptied
  <2>3. fetch' = [p \in Queries |-> fetch'[p]]
    <3>1. CASE ServeRead(q)
      BY <3>1 DEF ServeRead, Safe
    <3>2. CASE FailRead(q)
      <4>1. PICK how \in {"refused", "broken"} :
              fetch' = [fetch EXCEPT ![q].got = Problem(how)]
        BY <3>2 DEF FailRead
      <4> QED BY <4>1 DEF Safe
    <3>3. CASE ReadOk(q)
      BY <3>3 DEF ReadOk, Asked
    <3>4. CASE ReadFailed(q)
      BY <3>4 DEF ReadFailed, Safe
    <3> QED BY <1>2, <3>1, <3>2, <3>3, <3>4
  <2>4. data' = [p \in Queries |-> data'[p]]
    BY <1>2 DEF ServeRead, FailRead, ReadOk, ReadFailed, Safe
  <2> QED BY <2>2, <2>3, <2>4 DEF Safe, Emptied
<1> QED BY <1>1, <1>2 DEF Proceed

(* What the user does in the pages.                                        *)
LEMMA UserSafe ==
  ASSUME Safe,
         \/ \E page \in Pages : Visit(page)
         \/ \E t \in Tokens : LogIn(t)
         \/ Logout \/ Refocus
         \/ \E m \in Offered(at) : Save(m)
  PROVE  Safe'
<1>1. ASSUME NEW page \in Pages, Visit(page) PROVE Safe'
  <2>1. at # Login /\ token' = token /\ data' = data /\ Show(page, token)
    BY <1>1 DEF Visit
  <2> QED BY <2>1, ShowKeepsType DEF Safe, Emptied
<1>2. ASSUME NEW t \in Tokens, LogIn(t) PROVE Safe'
  <2>1. token' = t /\ t # None /\ data' = data /\ Show(from, t)
    BY <1>2, DesktopAssumption DEF LogIn
  <2> QED BY <2>1, ShowKeepsType DEF Safe, Emptied
<1>3. CASE Logout
  <2>1. ClearCache /\ at' = Login /\ call' = call /\ left' = (left \/ call # None)
    BY <1>3 DEF Logout
  <2> QED BY <2>1, ClearCacheEmpties DEF Safe, Emptied
<1>4. CASE Refocus
  <2>1. /\ \E q \in Active : fetch[q] = None
        /\ UNCHANGED <<token, at, data, call, left>>
        /\ \E idle : fetch' = Asked(idle)
    BY <1>4 DEF Refocus
  <2>2. token # None
    BY <2>1, LoginObservesNothing DEF Safe, Emptied, Active
  <2> QED BY <2>1, <2>2 DEF Safe, Emptied, Asked
<1>5. ASSUME NEW m \in Offered(at), Save(m) PROVE Safe'
  BY <1>5 DEF Save, Safe, Emptied
<1> QED BY <1>1, <1>2, <1>3, <1>4, <1>5

(* Everything else.                                                        *)
LEMMA RestSafe ==
  ASSUME Safe,
         \/ \E t \in Tokens : Rotate(t)
         \/ \E q \in Queries : Collect(q)
         \/ ServeSave \/ FailSave \/ SaveFailed \/ SaveUnauthorized
         \/ \E t \in Tables : Elsewhere(t)
         \/ UNCHANGED vars
  PROVE  Safe'
<1>1. ASSUME NEW q \in Queries, Collect(q) PROVE Safe'
  <2>1. /\ UNCHANGED <<token, at, fetch, call, left>>
        /\ data' = [data EXCEPT ![q] = None]
    BY <1>1 DEF Collect
  <2> QED BY <2>1 DEF Safe, Emptied
<1>2. CASE SaveUnauthorized
  BY <1>2, UnauthorizedSafe DEF SaveUnauthorized
<1>3. CASE \/ \E t \in Tokens : Rotate(t)
           \/ ServeSave \/ FailSave \/ SaveFailed
           \/ \E t \in Tables : Elsewhere(t)
           \/ UNCHANGED vars
  <2>1. /\ UNCHANGED <<token, at, fetch, data, left>>
        /\ call' # None => call # None
    BY <1>3 DEF Rotate, ServeSave, FailSave, SaveFailed, Elsewhere, vars
  <2> QED BY <2>1 DEF Safe, Emptied
<1> QED BY <1>1, <1>2, <1>3

(* After a logout or a 401, whichever request it answers and whatever else *)
(* is under way, the login page is shown, nothing is asked for without a   *)
(* token, and nothing of what was shown is kept, unless a save was         *)
(* unanswered when the token went.                                         *)
THEOREM LogoutEmpties == Spec => []LoggedOutEmpty
<1>1. ASSUME Safe, [Next]_vars PROVE Safe'
  <2>1. CASE \E q \in Queries : Proceed(q) \/ FailRead(q)
    BY <1>1, <2>1, ReadSafe
  <2>2. CASE SaveAccepted
    BY <1>1, <2>2, SaveAcceptedSafe
  <2>3. CASE \/ \E page \in Pages : Visit(page)
             \/ \E t \in Tokens : LogIn(t)
             \/ Logout \/ Refocus
             \/ \E m \in Offered(at) : Save(m)
    BY <1>1, <2>3, UserSafe
  <2>4. CASE \/ \E t \in Tokens : Rotate(t)
             \/ \E q \in Queries : Collect(q)
             \/ ServeSave \/ FailSave \/ SaveFailed \/ SaveUnauthorized
             \/ \E t \in Tables : Elsewhere(t)
             \/ UNCHANGED vars
    BY <1>1, <2>4, RestSafe
  <2> QED BY <1>1, <2>1, <2>2, <2>3, <2>4 DEF Next
<1>2. Safe => LoggedOutEmpty
  BY DEF Safe, Emptied, LoggedOutEmpty, Loaded
<1> QED BY <1>1, <1>2, InitialClient, PTL DEF Spec

-----------------------------------------------------------------------------
(* The keys of the cache, and what a save writes and marks stale.          *)

(* A sequence that agrees with a longer one as far as it goes is its prefix.*)
LEMMA PrefixRule ==
  ASSUME NEW S, NEW s \in Seq(S), NEW t \in Seq(S), Len(s) <= Len(t),
         \A i \in 1..Len(s) : s[i] = t[i]
  PROVE  IsPrefix(s, t)
<1>1. SubSeq(s, 1, Len(s)) = s
  BY SubSeqFull
<1>2. /\ SubSeq(t, 1, Len(s)) \in Seq(S)
      /\ Len(SubSeq(t, 1, Len(s))) = Len(s)
      /\ \A i \in 1..Len(s) : SubSeq(t, 1, Len(s))[i] = t[i]
  BY SubSeqProperties
<1>3. SubSeq(t, 1, Len(s)) = s
  BY <1>2, SeqEqual
<1> QED BY <1>1, <1>3 DEF IsPrefix

(* A key that says more than another begins with it: what a save marks     *)
(* stale it marks by the beginning of the key.                             *)
LEMMA LongerKey ==
  ASSUME NEW a, NEW r, NEW c
  PROVE  /\ IsPrefix(<<a>>, <<a, r>>) /\ IsPrefix(<<a>>, <<a, r, c>>) /\ IsPrefix(<<a>>, <<a>>)
         /\ IsPrefix(<<a, r>>, <<a, r>>) /\ IsPrefix(<<a, r>>, <<a, r, c>>)
<1> DEFINE S == {a, r, c}
           one == <<a>>
           two == <<a, r>>
           three == <<a, r, c>>
<1>1. one \in Seq(S) /\ two \in Seq(S) /\ three \in Seq(S)
  OBVIOUS
<1>2. Len(one) = 1 /\ Len(two) = 2 /\ Len(three) = 3
  OBVIOUS
<1>3. /\ \A i \in 1..1 : one[i] = two[i] /\ one[i] = three[i]
      /\ \A i \in 1..2 : two[i] = three[i]
  OBVIOUS
<1> HIDE DEF S, one, two, three
<1>4. IsPrefix(one, one) /\ IsPrefix(two, two)
  BY <1>1, PrefixRule, <1>2
<1>5. IsPrefix(one, two) /\ IsPrefix(one, three)
  BY <1>1, <1>2, <1>3, PrefixRule
<1>6. IsPrefix(two, three)
  BY <1>1, <1>2, <1>3, PrefixRule
<1> QED BY <1>4, <1>5, <1>6 DEF one, two, three

(* The queries, each with what it reads.                                   *)
LEMMA Kinds ==
  ASSUME NEW q \in Queries, NEW t \in Reads[q]
  PROVE  \/ q = RouteList /\ (t = Table("routes") \/ \E r \in Routes : t = Settings(r))
         \/ \E r \in Routes : q = RouteOf(r) /\ t \in {Settings(r), Legs(r)}
         \/ \E r \in Routes : q = CalibrationOf(r) /\ t \in {Legs(r), Table("batch")}
         \/ \E r \in Routes : q = HistoryOf(r) /\ t \in {Table("advice"), Table("trips")}
         \/ \E r \in Routes : q = EvaluationsOf(r) /\ t = Table("batch")
         \/ q = TripList /\ t = Table("trips")
         \/ \E u \in Trips : q = DayOf(u) /\ t = Table("trips")
         \/ \E u \in Trips : q = TracksOf(u) /\ t = Table("tracks")
         \/ q \in {LineSearch, NearbyStops} /\ t = Table("masters")
         \/ q = NearbySignals /\ t = Table("signals")
         \/ \E s \in Signals : q = CyclesOf(s) /\ t = CyclesAt(s)
         \/ q = NextDepartures /\ t = Table("timetable")
         \/ q = OpsStatus /\ t = Table("calls")
BY DEF Queries, Reads, OnRoute, RouteList, RouteOf, CalibrationOf, HistoryOf, EvaluationsOf,
       TripList, DayOf, TracksOf, LineSearch, NearbyStops, NearbySignals, CyclesOf,
       NextDepartures, OpsStatus

(* Whatever a save writes, each query that reads it is marked stale, but   *)
(* the signal cycles (queries.ts): no page shows it without asking again.  *)
LEMMA WrittenIsMarked ==
  ASSUME NEW page, NEW m \in Offered(page), NEW q \in Queries,
         NEW t \in Reads[q], t \in Writes(m)
  PROVE  q \in Invalidated(m) \/ t \in {CyclesAt(s) : s \in Signals}
<1>1. CASE m[1] = "createRoute"
  <2>1. t = <<"routes">>
    BY <1>1 DEF Writes, Table
  <2>2. q = RouteList
    BY <2>1, Kinds DEF Settings, Legs, Table, CyclesAt
  <2> QED BY <1>1, <2>2 DEF Invalidated
<1>2. CASE m[1] = "updateRoute"
  <2>1. t = <<"route", m[2]>>
    BY <1>2 DEF Writes, Settings
  <2>2. q = RouteList \/ q = RouteOf(m[2])
    BY <2>1, Kinds DEF Settings, Legs, Table, CyclesAt
  <2>3. IsPrefix(RouteOf(m[2]), RouteOf(m[2]))
    BY LongerKey DEF RouteOf
  <2> QED BY <1>2, <2>2, <2>3 DEF Invalidated, InvalidateRoute, Under
<1>3. CASE m[1] \in {"replaceLegs", "replaceCrossings"}
  <2>1. t = <<"legs", m[2]>>
    BY <1>3 DEF Writes, Legs
  <2>2. q = CalibrationOf(m[2]) \/ q = RouteOf(m[2])
    BY <2>1, Kinds DEF Settings, Legs, Table, CyclesAt
  <2>3. IsPrefix(RouteOf(m[2]), RouteOf(m[2])) /\ IsPrefix(RouteOf(m[2]), CalibrationOf(m[2]))
    BY LongerKey DEF RouteOf, CalibrationOf
  <2> QED BY <1>3, <2>2, <2>3 DEF Invalidated, InvalidateRoute, Under
<1>4. CASE m[1] \in {"updateTrip", "updateAttempt"}
  <2>1. t = <<"trips">>
    BY <1>4 DEF Writes, Table
  <2>2. \/ \E r \in Routes : q = HistoryOf(r)
        \/ q = TripList
        \/ \E u \in Trips : q = DayOf(u)
    BY <2>1, Kinds DEF Settings, Legs, Table, CyclesAt
  <2>3. \A u : IsPrefix(<<"commute-trips">>, <<"commute-trips", u>>)
    BY LongerKey
  <2>4. \A r : Len(HistoryOf(r)) >= 3 /\ HistoryOf(r)[3] = "recommendation-history"
    BY DEF HistoryOf
  <2>5. q \in InvalidateTrips
    BY <2>2, <2>3, <2>4 DEF InvalidateTrips, Under, TripList, DayOf
  <2> QED BY <1>4, <2>5 DEF Invalidated
<1>5. CASE m[1] = "createSignal"
  <2>1. t = <<"signals">>
    BY <1>5 DEF Writes, Table
  <2>2. q = NearbySignals
    BY <2>1, Kinds DEF Settings, Legs, Table, CyclesAt
  <2>3. IsPrefix(<<"traffic-signals">>, NearbySignals)
    BY LongerKey DEF NearbySignals
  <2> QED BY <1>5, <2>2, <2>3 DEF Invalidated, Under
<1>6. CASE m[1] = "importSchedules"
  <2>1. t = <<"timetable">>
    BY <1>6 DEF Writes, Table
  <2>2. q = NextDepartures
    BY <2>1, Kinds DEF Settings, Legs, Table, CyclesAt
  <2>3. IsPrefix(NextDepartures, NextDepartures)
    BY LongerKey DEF NextDepartures
  <2> QED BY <1>6, <2>2, <2>3 DEF Invalidated, Under
<1>7. CASE m[1] = "replaceCycles"
  <2>1. t = <<"cycles", m[2]>>
    BY <1>7 DEF Writes, CyclesAt
  <2> QED BY <2>1, Kinds DEF Settings, Legs, Table, CyclesAt
<1> QED BY <1>1, <1>2, <1>3, <1>4, <1>5, <1>6, <1>7 DEF Offered

-----------------------------------------------------------------------------
(* What is shown, what is being read and what the saves were told.         *)

(* The signal cycles, which a save stores and does not ask for again.      *)
CycleTables == {CyclesAt(s) : s \in Signals}
CycleQueries == {CyclesOf(s) : s \in Signals}

(* Versions of what a query reads: as new as others, not newer, and the    *)
(* whole answer to a save.                                                 *)
AtLeast(q, versions, least) ==
  \A t \in Reads[q] : versions[t] >= least[t] \/ t \in CycleTables

UpTo(q, versions, most) ==
  versions \in [Reads[q] -> Nat] /\ \A t \in Reads[q] : versions[t] <= most[t]

ToldUpTo(m, told, most) ==
  /\ \A t \in Tables \cap DOMAIN told : told[t] \in Nat /\ told[t] <= most[t]
  /\ Writes(m) \subseteq DOMAIN told
  /\ ~Patches(m) => \A q \in StoredIn(m) : Reads[q] \subseteq DOMAIN told

(* Types; nothing was saved that the server does not hold.                 *)
Typed ==
  /\ server \in [Tables -> Nat]
  /\ acked \in [Tables -> Nat]
  /\ \A t \in Tables : acked[t] <= server[t]
  /\ token \in Tokens \cup {None}
  /\ fetch \in [Queries -> Requests \cup {None}]
  /\ data = [q \in Queries |-> data[q]]

(* Only what is shown is being asked for.                                  *)
AskedIsShown == \A q \in Queries : fetch[q] # None => q \in Active

(* The answer to a save is a save's of some page, and of the server.       *)
ToldBySave ==
  call # None =>
    /\ call = [does |-> call.does, token |-> call.token, got |-> call.got]
    /\ \E page : call.does \in Offered(page)
    /\ Answered(call, {"ok"}) => ToldUpTo(call.does, call.got.what, server)

(* What is cached the server had.                                          *)
Known == \A q \in Loaded : UpTo(q, data[q], server)

(* A read that was answered is not older than the entry it will replace,   *)
(* nor, unless it is blind, than what was saved: a save that is accepted   *)
(* later asks again for what it wrote.                                     *)
ReadsKnown ==
  \A q \in Queries : Answered(fetch[q], {"ok"}) =>
    /\ UpTo(q, fetch[q].got.what, server)
    /\ q \in Loaded \ CycleQueries => AtLeast(q, fetch[q].got.what, data[q])
    /\ q \notin blind => AtLeast(q, fetch[q].got.what, acked)

(* What is shown and not being asked for is as new as what was saved.      *)
ShownIsCurrent ==
  \A q \in Loaded \ (failed \cup blind) :
    q \in Active /\ fetch[q] = None => AtLeast(q, data[q], acked)

(* The inductive invariant.                                                *)
Sound ==
  /\ Typed
  /\ AskedIsShown
  /\ ToldBySave
  /\ Known
  /\ ReadsKnown
  /\ ShownIsCurrent

(* A query reads tables of the server.                                     *)
LEMMA ReadsTables == \A q \in Queries : Reads[q] \subseteq Tables
BY Kinds DEF Tables, OnRoute, Settings, Legs, CyclesAt, Table

(* A request just made is one, and has no answer.                          *)
LEMMA NewRequest ==
  ASSUME NEW t \in Tokens \cup {None}, NEW n \in {0, 1}
  PROVE  /\ Request(t, n) \in Requests
         /\ Request(t, n) # None
         /\ Request(t, n).got = None
BY NoneAssumption DEF Request, Requests

(* Opening a page asks for all it shows.                                   *)
LEMMA ShowSound ==
  ASSUME Sound, NEW page, NEW with \in Tokens \cup {None}, Show(page, with),
         token' = with, UNCHANGED <<server, data, call, acked>>
  PROVE  Sound'
<1>1. Loaded' = Loaded
  BY DEF Loaded
<1>2. Active' = Observed(page, Loaded)
  BY <1>1 DEF Active, Show
<1>3. \A q \in Queries : fetch'[q] = IF q \in Active' THEN Request(with, 0) ELSE None
  BY <1>2 DEF Show
<1>4. Typed'
  <2>1. fetch' = [q \in Queries |-> IF q \in Observed(page, Loaded) THEN Request(with, 0) ELSE None]
    BY DEF Show
  <2> QED BY <2>1, NewRequest DEF Sound, Typed
<1>5. AskedIsShown'
  BY <1>3 DEF AskedIsShown
<1>6. ToldBySave' /\ Known'
  BY <1>1 DEF Sound, ToldBySave, Answered, Known
<1>7. ReadsKnown'
  BY <1>3, NewRequest DEF ReadsKnown, Answered
<1>8. ShownIsCurrent'
  BY <1>3, NewRequest DEF ShownIsCurrent, Loaded
<1> QED BY <1>4, <1>5, <1>6, <1>7, <1>8 DEF Sound

(* Nothing is wrong with an empty cache.                                   *)
LEMMA ClearSound ==
  ASSUME Sound, ClearCache, at' = Login, token' \in Tokens \cup {None},
         UNCHANGED <<server, acked>>, call' = call \/ call' = None
  PROVE  Sound'
<1>1. \A q \in Queries : fetch'[q] = None /\ data'[q] = None
  BY DEF ClearCache
<1>2. Typed'
  BY DEF ClearCache, Sound, Typed
<1>3. ToldBySave'
  BY DEF Sound, ToldBySave, Answered
<1> QED BY <1>1, <1>2, <1>3
        DEF Sound, AskedIsShown, Known, ReadsKnown, Answered, ShownIsCurrent, Loaded

(* What is asked for again is read later than every save told so far.      *)
LEMMA RefocusSound ==
  ASSUME Sound, Refocus
  PROVE  Sound'
<1> DEFINE idle == {q \in Active : fetch[q] = None}
<1>1. /\ fetch' = Asked(idle)
      /\ blind' = blind \ idle
      /\ failed' = {q \in failed : q \in idle => q \in Loaded}
      /\ UNCHANGED <<server, token, at, data, call, acked>>
  BY DEF Refocus
<1>2. Loaded' = Loaded /\ Active' = Active
  BY <1>1 DEF Loaded, Active
<1>3. \A q \in Queries : fetch'[q] = IF q \in idle THEN Request(token, 0) ELSE fetch[q]
  BY <1>1 DEF Asked
<1>4. Typed'
  BY <1>1, NewRequest DEF Sound, Typed, Asked
<1>5. AskedIsShown'
  BY <1>2, <1>3 DEF Sound, AskedIsShown
<1>6. ToldBySave' /\ Known'
  BY <1>1, <1>2 DEF Sound, ToldBySave, Answered, Known
<1>7. ReadsKnown'
  BY <1>1, <1>2, <1>3, NewRequest DEF Sound, Typed, ReadsKnown, Answered
<1>8. ShownIsCurrent'
  <2>1. \A q \in Loaded :
          /\ fetch'[q] = None => q \notin idle /\ fetch[q] = None
          /\ q \in failed => q \in failed'
    BY <1>1, <1>3, NewRequest DEF Sound, Typed, Loaded
  <2>2. \A q \in Loaded' \ (failed' \cup blind') : q \in Active' /\ fetch'[q] = None =>
          q \in Loaded \ (failed \cup blind) /\ q \in Active /\ fetch[q] = None
    BY <2>1, <1>1, <1>2
  <2> QED BY <2>2, <1>1 DEF Sound, ShownIsCurrent
<1> QED BY <1>4, <1>5, <1>6, <1>7, <1>8 DEF Sound

(* A read answered now is as new as the server, and so not older than what *)
(* is cached nor than what was saved.                                      *)
LEMMA AnsweredReadSound ==
  ASSUME Sound, NEW q \in Queries, fetch[q] # None, fetch[q].got = None,
         NEW answer \in Answers,
         fetch' = [fetch EXCEPT ![q].got = answer],
         answer.how = "ok" => answer.what = Snapshot(q),
         UNCHANGED <<server, token, at, data, failed, call, acked, blind>>
  PROVE  Sound'
<1>1. fetch[q] \in Requests
  BY DEF Sound, Typed
<1>2. PICK t \in Tokens \cup {None}, n \in {0, 1} :
        fetch[q] = [token |-> t, tries |-> n, got |-> None]
  BY <1>1 DEF Requests
<1>3. /\ fetch'[q] = [token |-> t, tries |-> n, got |-> answer]
      /\ \A p \in Queries \ {q} : fetch'[p] = fetch[p]
      /\ fetch' = [p \in Queries |-> fetch'[p]]
  <2>1. fetch'[q] = [fetch[q] EXCEPT !.got = answer]
    BY DEF Sound, Typed
  <2>2. [[token |-> t, tries |-> n, got |-> None] EXCEPT !.got = answer]
          = [token |-> t, tries |-> n, got |-> answer]
    OBVIOUS
  <2>3. fetch'[q] = [token |-> t, tries |-> n, got |-> answer]
    BY <2>1, <2>2, <1>2
  <2> QED BY <2>3 DEF Sound, Typed
<1>4. fetch'[q] \in Requests /\ fetch'[q] # None
  BY <1>3, NoneAssumption DEF Requests
<1>5. Active' = Active /\ Loaded' = Loaded
  BY DEF Active, Loaded
<1>6. Typed'
  BY <1>3, <1>4 DEF Sound, Typed
<1>7. AskedIsShown'
  BY <1>3, <1>5 DEF Sound, AskedIsShown
<1>8. ToldBySave' /\ Known'
  BY <1>5 DEF Sound, ToldBySave, Answered, Known
<1>9. ReadsKnown'
  <2>1. ASSUME answer.how = "ok"
        PROVE  /\ UpTo(q, answer.what, server)
               /\ q \in Loaded => AtLeast(q, answer.what, data[q])
               /\ AtLeast(q, answer.what, acked)
    <3>1. answer.what = [x \in Reads[q] |-> server[x]]
      BY <2>1 DEF Snapshot
    <3>2. \A x \in Reads[q] :
            /\ server[x] \in Nat /\ acked[x] \in Nat /\ acked[x] <= server[x]
            /\ q \in Loaded => data[q][x] \in Nat /\ data[q][x] <= server[x]
      BY ReadsTables DEF Sound, Typed, Known, UpTo
    <3>3. answer.what \in [Reads[q] -> Nat] /\ \A x \in Reads[q] : answer.what[x] = server[x]
      BY <3>1, <3>2
    <3>4. UpTo(q, answer.what, server)
      BY <3>2, <3>3 DEF UpTo
    <3> QED BY <3>2, <3>3, <3>4 DEF AtLeast
  <2>2. \A p \in Queries : Answered(fetch[p], {"ok"})' =>
        \/ p # q /\ Answered(fetch[p], {"ok"}) /\ fetch'[p] = fetch[p]
        \/ p = q /\ answer.how = "ok" /\ fetch'[p].got.what = answer.what
    BY <1>3 DEF Answered
  <2> QED BY <2>1, <2>2, <1>5 DEF Sound, ReadsKnown
<1>10. ShownIsCurrent'
  BY <1>3, <1>4, <1>5 DEF Sound, ShownIsCurrent
<1> QED BY <1>6, <1>7, <1>8, <1>9, <1>10 DEF Sound

(* The server answers a read, turns it down, or the request is lost.       *)
LEMMA ServedReadSound ==
  ASSUME Sound, NEW q \in Queries, ServeRead(q) \/ FailRead(q)
  PROVE  Sound'
<1>1. Snapshot(q) \in [Reads[q] -> Nat]
  BY ReadsTables DEF Snapshot, Sound, Typed
<1>2. CASE ServeRead(q)
  <2> DEFINE answer == Reply(fetch[q], Snapshot(q))
  <2>1. answer \in Answers /\ (answer.how = "ok" => answer.what = Snapshot(q))
    <3>1. Ok(Snapshot(q)) \in Answers
      BY <1>1 DEF Ok, Answers
    <3>2. Problem("unauthorized") \in Answers
      BY DEF Problem, Answers
    <3> QED BY <3>1, <3>2 DEF Reply, Ok, Problem
  <2>2. /\ fetch[q] # None /\ fetch[q].got = None
        /\ fetch' = [fetch EXCEPT ![q].got = answer]
        /\ UNCHANGED <<server, token, at, data, failed, call, acked, blind>>
    BY <1>2 DEF ServeRead
  <2> HIDE DEF answer
  <2> QED BY <2>1, <2>2, AnsweredReadSound
<1>3. CASE FailRead(q)
  <2>1. PICK how \in {"refused", "broken"} : fetch' = [fetch EXCEPT ![q].got = Problem(how)]
    BY <1>3 DEF FailRead
  <2>2. Problem(how) \in Answers /\ Problem(how).how # "ok"
    BY DEF Problem, Answers
  <2>3. /\ fetch[q] # None /\ fetch[q].got = None
        /\ UNCHANGED <<server, token, at, data, failed, call, acked, blind>>
    BY <1>3 DEF FailRead
  <2> QED BY <2>1, <2>2, <2>3, AnsweredReadSound
<1> QED BY <1>2, <1>3

(* With more data a page observes more.                                    *)
LEMMA MoreIsObserved ==
  ASSUME NEW page, NEW few, NEW many, few \subseteq many
  PROVE  Observed(page, few) \subseteq Observed(page, many)
BY DEF Observed

(* What a page observes does not depend on an entry it does not observe.   *)
LEMMA CollectedIsNotNeeded ==
  ASSUME NEW page, NEW loaded, NEW q, q \notin Observed(page, loaded)
  PROVE  Observed(page, loaded \ {q}) = Observed(page, loaded)
BY DEF Observed

(* The answer to a read replaces the entry; what is mounted by it is asked *)
(* for.                                                                    *)
LEMMA ReadOkSound ==
  ASSUME Sound, NEW q \in Queries, ReadOk(q)
  PROVE  Sound'
<1> DEFINE mounted == Mounted(data')
<1>1. /\ Answered(fetch[q], {"ok"})
      /\ data' = [data EXCEPT ![q] = fetch[q].got.what]
      /\ failed' = failed \ {q}
      /\ fetch' = [Asked(mounted) EXCEPT ![q] = None]
      /\ blind' = blind \ mounted
      /\ UNCHANGED <<server, token, at, call, acked>>
  BY DEF ReadOk
<1>2. /\ \A p \in Queries : data'[p] = IF p = q THEN fetch[q].got.what ELSE data[p]
      /\ data' = [p \in Queries |-> data'[p]]
  BY <1>1 DEF Sound, Typed
<1>3. /\ \A p \in Queries :
           fetch'[p] = IF p = q THEN None
                       ELSE IF p \in mounted THEN Request(token, 0) ELSE fetch[p]
      /\ fetch' = [p \in Queries |-> fetch'[p]]
  BY <1>1 DEF Asked
<1>4. Loaded' = {p \in Queries : data'[p] # None} /\ Active' = Observed(at, Loaded')
  BY <1>1 DEF Loaded, Active
<1>5. mounted = Active' \ Active
  BY <1>1, <1>4 DEF Mounted
<1>6. q \in Active
  BY <1>1 DEF Answered, Sound, AskedIsShown
<1> HIDE DEF mounted
<1>7. Typed'
  BY <1>1, <1>2, <1>3, NewRequest DEF Sound, Typed
<1>8. /\ UpTo(q, data'[q], server)
      /\ q \notin blind => AtLeast(q, data'[q], acked)
      /\ data'[q] # None
  BY <1>1, <1>2, NoneAssumption DEF Sound, ReadsKnown, UpTo
<1>9. Loaded' = Loaded \cup {q} /\ Active \subseteq Active'
  <2>1. Loaded' = Loaded \cup {q}
    BY <1>2, <1>4, <1>8 DEF Loaded
  <2> QED BY <2>1, <1>4, MoreIsObserved DEF Active
<1>10. AskedIsShown'
  BY <1>3, <1>5, <1>9 DEF Sound, AskedIsShown
<1>11. ToldBySave'
  BY <1>1 DEF Sound, ToldBySave, Answered
<1>12. Known'
  BY <1>1, <1>2, <1>8, <1>9 DEF Sound, Known
<1>13. ReadsKnown'
  <2>1. \A p \in Queries : Answered(fetch[p], {"ok"})' =>
          p # q /\ p \notin mounted /\ fetch'[p] = fetch[p] /\ Answered(fetch[p], {"ok"})
    BY <1>3, NewRequest DEF Answered, Sound, Typed
  <2> QED BY <2>1, <1>1, <1>2, <1>9 DEF Sound, ReadsKnown
<1>14. ShownIsCurrent'
  <2>1. \A p \in Queries : fetch'[p] = None => p = q \/ (p \notin mounted /\ fetch[p] = None)
    BY <1>3, NewRequest DEF Sound, Typed
  <2>2. SUFFICES ASSUME NEW p \in Loaded', p \notin failed', p \notin blind', p \in Active',
                        fetch'[p] = None
                 PROVE  AtLeast(p, data'[p], acked)
    BY <1>1 DEF ShownIsCurrent
  <2>3. p \in Queries
    BY DEF Loaded
  <2>4. CASE p = q
    BY <2>2, <2>4, <1>1, <1>5, <1>6, <1>8
  <2>5. CASE p # q
    <3>1. p \in Active /\ fetch[p] = None /\ p \notin failed /\ p \notin blind /\ p \in Loaded
      BY <2>1, <2>2, <2>3, <2>5, <1>1, <1>5, <1>9
    <3> QED BY <3>1, <2>3, <2>5, <1>2 DEF Sound, ShownIsCurrent
  <2> QED BY <2>4, <2>5
<1> QED BY <1>7, <1>10, <1>11, <1>12, <1>13, <1>14 DEF Sound

(* A read that failed is tried again, or its query counts as failed.       *)
LEMMA ReadFailedSound ==
  ASSUME Sound, NEW q \in Queries, ReadFailed(q)
  PROVE  Sound'
<1>1. /\ UNCHANGED <<server, token, at, data, call, acked, blind>>
      /\ Answered(fetch[q], {"refused", "broken"})
      /\ \/ fetch' = [fetch EXCEPT ![q] = Request(token, 1)] /\ failed' = failed
         \/ fetch' = [fetch EXCEPT ![q] = None] /\ failed' = failed \cup {q}
  BY DEF ReadFailed
<1>2. /\ \A p \in Queries \ {q} : fetch'[p] = fetch[p]
      /\ \/ /\ fetch'[q] \in Requests /\ fetch'[q] # None /\ fetch'[q].got = None
            /\ failed' = failed
         \/ fetch'[q] = None /\ failed' = failed \cup {q}
      /\ fetch' \in [Queries -> Requests \cup {None}]
  BY <1>1, NewRequest DEF Sound, Typed
<1>3. Loaded' = Loaded /\ Active' = Active /\ Loaded \subseteq Queries
  BY <1>1 DEF Loaded, Active
<1>4. fetch[q] # None
  BY <1>1 DEF Answered
<1>5. Typed' /\ AskedIsShown'
  BY <1>1, <1>2, <1>3, <1>4 DEF Sound, Typed, AskedIsShown
<1>6. ToldBySave' /\ Known'
  BY <1>1, <1>3 DEF Sound, ToldBySave, Answered, Known
<1>7. ReadsKnown'
  <2>1. \A p \in Queries : Answered(fetch[p], {"ok"})' =>
          p # q /\ fetch'[p] = fetch[p] /\ Answered(fetch[p], {"ok"})
    BY <1>2 DEF Answered
  <2> QED BY <2>1, <1>1, <1>3 DEF Sound, ReadsKnown
<1>8. ShownIsCurrent'
  <2>1. \A p \in Loaded' \ (failed' \cup blind') : fetch'[p] = None =>
          p \in Loaded \ (failed \cup blind) /\ fetch[p] = None
    BY <1>1, <1>2, <1>3
  <2> QED BY <2>1, <1>1, <1>3 DEF Sound, ShownIsCurrent
<1> QED BY <1>5, <1>6, <1>7, <1>8 DEF Sound

(* Steps of the server and of a save that leave the cache alone.           *)
LEMMA CacheLeftAlone ==
  ASSUME Sound, UNCHANGED <<token, at, data, failed, fetch, acked, blind>>,
         server' \in [Tables -> Nat], \A t \in Tables : server[t] <= server'[t],
         ToldBySave'
  PROVE  Sound'
<1>1. Loaded' = Loaded /\ Active' = Active /\ Loaded \subseteq Queries
  BY DEF Loaded, Active
<1>2. \A t \in Tables : server[t] \in Nat /\ server'[t] \in Nat /\ acked[t] \in Nat
  BY DEF Sound, Typed
<1>3. Typed' /\ AskedIsShown'
  BY <1>1, <1>2 DEF Sound, Typed, AskedIsShown
<1>4. ASSUME NEW q \in Queries, NEW v, UpTo(q, v, server) PROVE UpTo(q, v, server')
  BY <1>2, <1>4, ReadsTables DEF UpTo
<1>5. Known'
  BY <1>1, <1>4 DEF Sound, Known
<1>6. ReadsKnown'
  BY <1>1, <1>4 DEF Sound, ReadsKnown, Answered
<1>7. ShownIsCurrent'
  BY <1>1 DEF Sound, ShownIsCurrent
<1> QED BY <1>3, <1>5, <1>6, <1>7 DEF Sound

(* A save only raises versions.                                            *)
LEMMA WrittenIsLater ==
  ASSUME Sound, NEW m
  PROVE  /\ Written(m) \in [Tables -> Nat]
         /\ \A t \in Tables : server[t] <= Written(m)[t]
BY DEF Sound, Typed, Written

(* A save leaves, is answered or lost; others write; the token is changed. *)
LEMMA SavingSound ==
  ASSUME Sound,
         (\E m \in Offered(at) : Save(m)) \/ ServeSave \/ FailSave \/ SaveFailed
           \/ (\E t \in Tokens : Rotate(t)) \/ (\E t \in Tables : Elsewhere(t)) \/ UNCHANGED vars
  PROVE  Sound'
<1>1. UNCHANGED <<token, at, data, failed, fetch, acked, blind>>
  BY DEF Save, ServeSave, FailSave, SaveFailed, Rotate, Elsewhere, vars
<1>2. server \in [Tables -> Nat]
  BY DEF Sound, Typed
<1>3. \/ server' = server
      \/ server' = Written(call.does)
      \/ \E t \in Tables : server' = [server EXCEPT ![t] = @ + 1]
  BY DEF Save, ServeSave, FailSave, SaveFailed, Rotate, Elsewhere, vars
<1>4. server' \in [Tables -> Nat] /\ \A t \in Tables : server[t] <= server'[t]
  <2>1. CASE server' = server
    BY <2>1, <1>2
  <2>2. CASE server' = Written(call.does)
    BY <2>2, WrittenIsLater
  <2>3. CASE \E t \in Tables : server' = [server EXCEPT ![t] = @ + 1]
    BY <2>3, <1>2
  <2> QED BY <1>3, <2>1, <2>2, <2>3
<1>5. ToldBySave'
  <2>1. CASE ServeSave /\ call.token = accepted
    <3> DEFINE told == Told(call.does, server')
    <3>1. call # None /\ call.got = None /\ call' = [call EXCEPT !.got = Ok(told)]
      BY <2>1 DEF ServeSave
    <3>2. ToldUpTo(call.does, told, server')
      BY <1>4 DEF ToldUpTo, Told
    <3> HIDE DEF told
    <3>3. call' = [does |-> call.does, token |-> call.token, got |-> Ok(told)]
      BY <3>1 DEF Sound, ToldBySave
    <3>4. call'.does = call.does /\ (Answered(call, {"ok"})' => call'.got.what = told)
      BY <3>3 DEF Answered, Ok
    <3> QED BY <3>1, <3>2, <3>3, <3>4 DEF Sound, ToldBySave
  <2>2. CASE (ServeSave /\ call.token # accepted) \/ FailSave
    <3>1. PICK how \in {"unauthorized", "refused"} :
            call # None /\ call' = [call EXCEPT !.got = Problem(how)]
      BY <2>2 DEF ServeSave, FailSave
    <3>2. call' = [does |-> call.does, token |-> call.token, got |-> Problem(how)]
      BY <3>1 DEF Sound, ToldBySave
    <3>3. call'.does = call.does /\ ~Answered(call, {"ok"})'
      BY <3>2 DEF Answered, Problem
    <3> QED BY <3>1, <3>2, <3>3 DEF Sound, ToldBySave
  <2>3. ASSUME NEW m \in Offered(at), Save(m) PROVE ToldBySave'
    <3>1. call' = [does |-> m, token |-> token, got |-> None]
      BY <2>3 DEF Save
    <3> QED BY <3>1 DEF ToldBySave, Answered
  <2>4. CASE SaveFailed
    BY <2>4 DEF SaveFailed, ToldBySave
  <2>5. CASE (\E t \in Tokens : Rotate(t)) \/ (\E t \in Tables : Elsewhere(t)) \/ UNCHANGED vars
    <3>1. call' = call
      BY <2>5 DEF Rotate, Elsewhere, vars
    <3>2. \A m, told : ToldUpTo(m, told, server) => ToldUpTo(m, told, server')
      BY <1>2, <1>4 DEF ToldUpTo
    <3> QED BY <3>1, <3>2 DEF Sound, ToldBySave, Answered
  <2> QED BY <2>1, <2>2, <2>3, <2>4, <2>5
<1> QED BY <1>1, <1>4, <1>5, CacheLeftAlone

(* An entry nobody observes is dropped.                                    *)
LEMMA CollectSound ==
  ASSUME Sound, NEW q \in Queries, Collect(q)
  PROVE  Sound'
<1>1. /\ q \in Loaded \ Active
      /\ data' = [data EXCEPT ![q] = None]
      /\ failed' = failed \ {q}
      /\ blind' = blind \ {q}
      /\ UNCHANGED <<server, token, at, fetch, call, acked>>
  BY DEF Collect
<1>2. /\ \A p \in Queries : data'[p] = IF p = q THEN None ELSE data[p]
      /\ data' = [p \in Queries |-> data'[p]]
  BY <1>1 DEF Sound, Typed
<1>3. Loaded' = Loaded \ {q}
  BY <1>2 DEF Loaded
<1>4. Active' = Active
  BY <1>1, <1>3, CollectedIsNotNeeded DEF Active
<1>5. Typed' /\ AskedIsShown' /\ ToldBySave'
  BY <1>1, <1>2, <1>4 DEF Sound, Typed, AskedIsShown, ToldBySave, Answered
<1>6. \A p \in Loaded' : p \in Loaded /\ p # q /\ data'[p] = data[p] /\ p \in Queries
  BY <1>2, <1>3 DEF Loaded
<1>7. Known' /\ ShownIsCurrent'
  BY <1>1, <1>4, <1>6 DEF Sound, Known, ShownIsCurrent
<1>8. ReadsKnown'
  <2>1. \A p \in Queries : Answered(fetch[p], {"ok"})' => p # q /\ Answered(fetch[p], {"ok"})
    BY <1>1 DEF Answered, Sound, AskedIsShown
  <2> QED BY <2>1, <1>1, <1>6 DEF Sound, ReadsKnown
<1> QED BY <1>5, <1>7, <1>8 DEF Sound

(* Where a save stores its answer it also marks what is there stale, but   *)
(* for the signal cycles.                                                  *)
LEMMA StoredIsMarked ==
  ASSUME NEW page, NEW m \in Offered(page), NEW q \in StoredIn(m)
  PROVE  q \in Queries => q \in Invalidated(m) \cup CycleQueries
<1>1. CASE m[1] \in {"updateRoute", "replaceLegs"}
  <2>1. q = RouteOf(m[2])
    BY <1>1 DEF StoredIn
  <2>2. IsPrefix(RouteOf(m[2]), RouteOf(m[2]))
    BY LongerKey DEF RouteOf
  <2> QED BY <1>1, <2>1, <2>2 DEF Invalidated, InvalidateRoute, Under
<1>2. CASE m[1] = "replaceCycles"
  <2>1. q = CyclesOf(m[2])
    BY <1>2 DEF StoredIn
  <2> QED BY <2>1 DEF Queries, CycleQueries, CyclesOf, OnRoute, RouteList, RouteOf,
       CalibrationOf, HistoryOf, EvaluationsOf, TripList, DayOf, TracksOf, LineSearch,
       NearbyStops, NearbySignals, NextDepartures, OpsStatus
<1> QED BY <1>1, <1>2 DEF Offered, StoredIn

(* The cycles of a signal are all their query reads.                       *)
LEMMA CyclesReadCycles ==
  \A q \in CycleQueries \cap Queries : Reads[q] \subseteq CycleTables
BY Kinds DEF CycleQueries, CycleTables, CyclesOf, RouteList, RouteOf, CalibrationOf,
   HistoryOf, EvaluationsOf, TripList, DayOf, TracksOf, LineSearch, NearbyStops,
   NearbySignals, NextDepartures, OpsStatus

(* An entry an answer is stored in is whole, and not newer than the server:*)
(* what the answer does not tell was there before.                         *)
LEMMA StoredKnown ==
  ASSUME Sound, Answered(call, {"ok"}), NEW q \in Queries,
         data[q] # None \/ Stored(call.does, call.got.what)[q] # None
  PROVE  UpTo(q, Stored(call.does, call.got.what)[q], server)
<1> DEFINE m == call.does
           told == call.got.what
<1>1. ToldUpTo(m, told, server)
  BY DEF Sound, ToldBySave, Answered
<1>2. Stored(m, told)[q] =
        IF q \notin StoredIn(m) \/ (Patches(m) /\ data[q] = None) THEN data[q]
        ELSE [t \in Reads[q] |-> IF t \in DOMAIN told THEN told[t] ELSE data[q][t]]
  BY DEF Stored
<1>3. data[q] # None => UpTo(q, data[q], server)
  BY DEF Sound, Known, Loaded
<1>6. data[q] # None \/ Stored(m, told)[q] # None
  OBVIOUS
<1> HIDE DEF m, told
<1>4. CASE q \notin StoredIn(m) \/ (Patches(m) /\ data[q] = None)
  BY <1>2, <1>3, <1>4, <1>6 DEF m, told
<1>5. CASE ~(q \notin StoredIn(m) \/ (Patches(m) /\ data[q] = None))
  <2>1. \A t \in Reads[q] \cap DOMAIN told : told[t] \in Nat /\ told[t] <= server[t]
    BY <1>1, ReadsTables DEF ToldUpTo
  <2>2. \A t \in Reads[q] \ DOMAIN told : data[q][t] \in Nat /\ data[q][t] <= server[t]
    BY <1>1, <1>3, <1>5 DEF ToldUpTo, UpTo
  <2> DEFINE new == [t \in Reads[q] |-> IF t \in DOMAIN told THEN told[t] ELSE data[q][t]]
  <2>3. new \in [Reads[q] -> Nat] /\ \A t \in Reads[q] : new[t] <= server[t]
    BY <2>1, <2>2
  <2>4. Stored(m, told)[q] = new
    BY <1>2, <1>5
  <2> QED BY <2>3, <2>4 DEF UpTo, m, told
<1> QED BY <1>4, <1>5

(* What an accepted save does to the cache: what it marks stale and is     *)
(* shown is asked for again, unless it has no data and a request under     *)
(* way, which makes it blind if that request is answered.                  *)
Restocked(m, told, wanted) ==
  /\ data' = Stored(m, told)
  /\ acked' = [t \in Tables |->
                IF t \in Writes(m) /\ told[t] > acked[t] THEN told[t] ELSE acked[t]]
  /\ fetch' = Asked(wanted)
  /\ \A q \in Queries :
       q \in failed /\ data'[q] = data[q] /\ (q \in wanted => q \in Loaded) => q \in failed'
  /\ \A q \in Active \ wanted : q \in Invalidated(m) => data'[q] = None
  /\ \A q \in Active \ wanted : q \in Invalidated(m) => fetch[q] # None
  /\ \A q \in Queries \ wanted : q \in blind => q \in blind'
  /\ \A q \in Active \ wanted :
       q \in Invalidated(m) /\ fetch[q] # None /\ fetch[q].got # None => q \in blind'
  /\ Loaded \subseteq Loaded'
  /\ Active' \subseteq Active \cup wanted
  /\ wanted \subseteq Active'
  /\ Active \subseteq Active'
  /\ UNCHANGED <<server, token>>
  /\ call' = None

(* Other entries stay, and creating a route stores nothing.                *)
LEMMA StoredStays ==
  ASSUME Sound, NEW page, NEW m \in Offered(page), NEW told, NEW q \in Queries
  PROVE  /\ Stored(m, told)[q] # data[q] => q \in StoredIn(m)
         /\ m[1] = "createRoute" => Stored(m, told)[q] = data[q]
BY DEF Stored, StoredIn

(* The handlers of an accepted save do that (onSuccess in queries.ts).     *)
LEMMA SaveAcceptedRestocks ==
  ASSUME Sound, SaveAccepted
  PROVE  \E wanted : Restocked(call.does, call.got.what, wanted)
<1> DEFINE m == call.does
           told == call.got.what
           now == Stored(m, told)
           again == Restarted(m, now) \cup Mounted(now)
           created == m[1] = "createRoute" /\ at[1] = "create"
<1>1. /\ Answered(call, {"ok"}) /\ data' = now /\ call' = None /\ UNCHANGED <<server, token>>
      /\ acked' = [t \in Tables |->
                    IF t \in Writes(m) /\ told[t] > acked[t] THEN told[t] ELSE acked[t]]
  BY DEF SaveAccepted
<1>2. PICK r \in Routes :
        LET page == IF created THEN <<"edit", r>> ELSE at
            wanted == IF created THEN Observed(page, Loaded) ELSE again
        IN /\ at' = page
           /\ fetch' = Asked(wanted)
           /\ failed' = {q \in failed : now[q] = data[q] /\ (q \in wanted => q \in Loaded)}
           /\ blind' = (blind \cup {q \in Invalidated(m) \cap Active :
                                      /\ now[q] = None
                                      /\ fetch[q] # None /\ fetch[q].got # None}) \ wanted
  BY DEF SaveAccepted
<1> DEFINE wanted == IF created THEN Observed(<<"edit", r>>, Loaded) ELSE again
<1>3. /\ at' = IF created THEN <<"edit", r>> ELSE at
      /\ fetch' = Asked(wanted)
      /\ failed' = {q \in failed : now[q] = data[q] /\ (q \in wanted => q \in Loaded)}
      /\ blind' = (blind \cup {q \in Invalidated(m) \cap Active :
                                 now[q] = None /\ fetch[q] # None /\ fetch[q].got # None}) \ wanted
  BY <1>2
<1>4. Loaded' = {q \in Queries : now[q] # None} /\ Loaded \subseteq Loaded'
  <2>1. ASSUME NEW q \in Queries, data[q] # None PROVE now[q] # None
    <3>1. now[q] \in [Reads[q] -> Nat]
      BY <1>1, <2>1, StoredKnown DEF UpTo
    <3> QED BY <3>1, NoneAssumption
  <2> QED BY <2>1, <1>1 DEF Loaded
<1>5. \E page : m \in Offered(page)
  BY <1>1 DEF Sound, ToldBySave, Answered
<1>6. CASE created
  <2>1. \A q \in Queries : now[q] = data[q]
    BY <1>5, <1>6, StoredStays
  <2>2. Loaded' = Loaded
    BY <1>4, <2>1 DEF Loaded
  <2>3. Active = {}
    BY <1>6 DEF Active, Observed, List
  <2>4. Active' = wanted
    BY <1>3, <1>6, <2>2 DEF Active
  <2> HIDE DEF wanted, again, created, now
  <2>5. /\ \A q \in Queries :
             q \in failed /\ data'[q] = data[q] /\ (q \in wanted => q \in Loaded) => q \in failed'
        /\ \A q \in Queries \ wanted : q \in blind => q \in blind'
    BY <1>1, <1>3
  <2> QED BY <1>1, <1>3, <1>4, <2>3, <2>4, <2>5 DEF Restocked, now
<1>7. CASE ~created
  <2>1. wanted = again /\ at' = at
    BY <1>7, <1>3
  <2>2. Active \subseteq Active' /\ Active' = Observed(at, {q \in Queries : now[q] # None})
    BY <1>4, <2>1, MoreIsObserved DEF Active
  <2>3. Mounted(now) = Active' \ Active
    BY <2>2 DEF Mounted
  <2>4. Restarted(m, now) = {q \in Invalidated(m) \cap Active : fetch[q] = None \/ now[q] # None}
    BY DEF Restarted
  <2> HIDE DEF wanted, created, now
  <2>5. Active' \subseteq Active \cup wanted /\ wanted \subseteq Active'
    BY <2>1, <2>2, <2>3, <2>4
  <2>6. \A q \in Active \ wanted : q \in Invalidated(m) => now[q] = None /\ fetch[q] # None
    BY <2>1, <2>4
  <2>7. \A q \in Active \ wanted :
          q \in Invalidated(m) /\ fetch[q] # None /\ fetch[q].got # None => q \in blind'
    BY <1>3, <2>6
  <2>8. /\ \A q \in Queries :
             q \in failed /\ data'[q] = data[q] /\ (q \in wanted => q \in Loaded) => q \in failed'
        /\ \A q \in Queries \ wanted : q \in blind => q \in blind'
    BY <1>1, <1>3
  <2> QED BY <1>1, <1>3, <1>4, <2>2, <2>5, <2>6, <2>7, <2>8 DEF Restocked, now
<1> QED BY <1>6, <1>7

(* What is marked stale is asked for again, or is blind; what is not marked*)
(* reads nothing of what was written.                                      *)
LEMMA SaveAcceptedSound ==
  ASSUME Sound, SaveAccepted
  PROVE  Sound'
<1> DEFINE m == call.does
           told == call.got.what
<1>1. PICK wanted : Restocked(m, told, wanted)
  BY SaveAcceptedRestocks
<1>2. PICK page : m \in Offered(page)
  BY DEF Sound, ToldBySave, Answered, SaveAccepted
<1>3. ToldUpTo(m, told, server) /\ Answered(call, {"ok"})
  BY DEF Sound, ToldBySave, Answered, SaveAccepted
<1>4. \A q \in Loaded' : UpTo(q, data'[q], server) /\ q \in Queries
  BY <1>1, <1>3, StoredKnown DEF Restocked, Loaded
<1>5. \A q \in Queries : data'[q] # data[q] => q \in Invalidated(m) \cup CycleQueries
  BY <1>1, <1>2, StoredStays, StoredIsMarked DEF Restocked
<1> HIDE DEF m, told
<1>6. \A q \in Queries : fetch'[q] = IF q \in wanted THEN Request(token, 0) ELSE fetch[q]
  BY <1>1 DEF Restocked, Asked
<1>7. Typed'
  <2>1. acked' \in [Tables -> Nat] /\ \A t \in Tables : acked'[t] <= server[t]
    <3>1. \A t \in Tables \cap Writes(m) : told[t] \in Nat /\ told[t] <= server[t]
      BY <1>3 DEF ToldUpTo
    <3> QED BY <1>1, <3>1 DEF Restocked, Sound, Typed
  <2>2. fetch' \in [Queries -> Requests \cup {None}]
    BY <1>1, NewRequest DEF Restocked, Asked, Sound, Typed
  <2>3. data' = [q \in Queries |-> data'[q]]
    BY <1>1 DEF Restocked, Stored
  <2> QED BY <2>1, <2>2, <2>3, <1>1 DEF Restocked, Sound, Typed
<1>8. AskedIsShown'
  BY <1>1, <1>6 DEF Restocked, Sound, AskedIsShown
<1>9. ToldBySave' /\ Known'
  BY <1>1, <1>4 DEF Restocked, ToldBySave, Known
<1>10. ASSUME NEW q \in Queries, NEW v, AtLeast(q, v, acked), q \notin Invalidated(m)
       PROVE  AtLeast(q, v, acked')
  <2>1. \A t \in Reads[q] : t \in Writes(m) => t \in CycleTables
    BY <1>2, <1>10, WrittenIsMarked DEF CycleTables
  <2>2. \A t \in Reads[q] : t \notin CycleTables => acked'[t] = acked[t]
    BY <1>1, <2>1, ReadsTables DEF Restocked
  <2> QED BY <2>2, <1>10 DEF AtLeast
<1>11. ASSUME NEW q \in CycleQueries \cap Queries, NEW v, NEW least PROVE AtLeast(q, v, least)
  BY CyclesReadCycles DEF AtLeast
<1>12. ReadsKnown'
  <2>1. SUFFICES ASSUME NEW q \in Queries, Answered(fetch[q], {"ok"})'
        PROVE /\ UpTo(q, fetch'[q].got.what, server')
              /\ q \in Loaded' \ CycleQueries => AtLeast(q, fetch'[q].got.what, data'[q])
              /\ q \notin blind' => AtLeast(q, fetch'[q].got.what, acked')
    BY DEF ReadsKnown
  <2>2. q \notin wanted /\ fetch'[q] = fetch[q] /\ Answered(fetch[q], {"ok"})
    BY <1>6, <2>1, NewRequest DEF Answered, Sound, Typed
  <2>3. q \in Active /\ fetch[q] # None /\ fetch[q].got # None
    BY <2>2 DEF Answered, Sound, AskedIsShown
  <2>4. server' = server
    BY <1>1 DEF Restocked
  <2>5. /\ UpTo(q, fetch[q].got.what, server)
        /\ q \in Loaded \ CycleQueries => AtLeast(q, fetch[q].got.what, data[q])
        /\ q \notin blind => AtLeast(q, fetch[q].got.what, acked)
    BY <2>2 DEF Sound, ReadsKnown
  <2>6. q \in Loaded' \ CycleQueries => AtLeast(q, fetch[q].got.what, data'[q])
    <3>1. q \in Loaded' => q \notin Invalidated(m)
      BY <1>1, <2>2, <2>3 DEF Restocked, Loaded
    <3> QED BY <1>5, <2>5, <3>1 DEF Loaded
  <2>7. q \notin blind' => AtLeast(q, fetch[q].got.what, acked')
    <3>1. q \notin blind' => q \notin blind /\ q \notin Invalidated(m)
      BY <1>1, <2>2, <2>3 DEF Restocked
    <3> QED BY <3>1, <2>5, <1>10
  <2> QED BY <2>2, <2>4, <2>5, <2>6, <2>7
<1>13. ShownIsCurrent'
  <2>1. SUFFICES ASSUME NEW q \in Loaded', q \notin failed', q \notin blind', q \in Active',
                        fetch'[q] = None
                 PROVE  AtLeast(q, data'[q], acked')
    BY DEF ShownIsCurrent
  <2>2. q \in Queries
    BY DEF Loaded
  <2>3. q \notin wanted /\ fetch[q] = None /\ q \in Active
    BY <1>1, <1>6, <2>1, <2>2, NewRequest DEF Restocked, Sound, Typed
  <2>4. q \notin Invalidated(m)
    BY <1>1, <2>3 DEF Restocked
  <2>5. CASE q \notin CycleQueries
    <3>1. data'[q] = data[q]
      BY <1>5, <2>2, <2>4, <2>5
    <3>2. q \in Loaded /\ q \notin failed /\ q \notin blind
      BY <1>1, <2>1, <2>2, <2>3, <3>1 DEF Restocked, Loaded
    <3>3. AtLeast(q, data[q], acked)
      BY <3>2, <2>3 DEF Sound, ShownIsCurrent
    <3> QED BY <3>1, <3>3, <1>10, <2>2, <2>4
  <2> QED BY <2>2, <2>5, <1>11
<1> QED BY <1>7, <1>8, <1>9, <1>12, <1>13 DEF Sound

(* The first page asks for all it shows.                                   *)
LEMMA InitSound == Init => Sound
<1> SUFFICES ASSUME Init PROVE Sound
  OBVIOUS
<1>1. Loaded = {} /\ Active = Observed(at, {})
  BY DEF Init, Loaded, Active
<1>2. \A q \in Queries : fetch[q] = IF q \in Active THEN Request(token, 0) ELSE None
  BY <1>1 DEF Init
<1>3. token \in Tokens \cup {None}
  BY DesktopAssumption DEF Init
<1>4. Typed
  BY <1>2, <1>3, NewRequest DEF Init, Typed
<1>5. AskedIsShown
  BY <1>2 DEF AskedIsShown
<1>6. ReadsKnown
  BY <1>2, <1>3, NewRequest DEF ReadsKnown, Answered
<1> QED BY <1>1, <1>4, <1>5, <1>6 DEF Init, Sound, ToldBySave, Known, ShownIsCurrent

(* Every step keeps it.                                                    *)
LEMMA StepSound == Sound /\ [Next]_vars => Sound'
<1> SUFFICES ASSUME Sound, [Next]_vars PROVE Sound'
  OBVIOUS
<1>1. token \in Tokens \cup {None}
  BY DEF Sound, Typed
<1>2. ASSUME NEW page \in Pages, Visit(page) PROVE Sound'
  <2>1. Show(page, token) /\ token' = token /\ UNCHANGED <<server, data, call, acked>>
    BY <1>2 DEF Visit
  <2> QED BY <1>1, <2>1, ShowSound
<1>3. ASSUME NEW t \in Tokens, LogIn(t) PROVE Sound'
  <2>1. Show(from, t) /\ token' = t /\ UNCHANGED <<server, data, call, acked>>
    BY <1>3 DEF LogIn
  <2> QED BY <2>1, ShowSound
<1>4. CASE Logout \/ SaveUnauthorized \/ \E q \in Queries : ReadUnauthorized(q)
  <2>1. /\ ClearCache /\ at' = Login /\ token' = None
        /\ UNCHANGED <<server, acked>>
        /\ call' = call \/ call' = None
    BY <1>4 DEF Logout, SaveUnauthorized, ReadUnauthorized, Unauthorized
  <2> QED BY <2>1, ClearSound
<1>5. ASSUME NEW q \in Queries, Proceed(q) \/ FailRead(q), ~ReadUnauthorized(q) PROVE Sound'
  BY <1>5, ServedReadSound, ReadOkSound, ReadFailedSound DEF Proceed
<1>6. CASE \/ \E m \in Offered(at) : Save(m)
           \/ ServeSave \/ FailSave \/ SaveFailed
           \/ \E t \in Tokens : Rotate(t)
           \/ \E t \in Tables : Elsewhere(t)
           \/ UNCHANGED vars
  BY <1>6, SavingSound
<1> QED BY <1>2, <1>3, <1>4, <1>5, <1>6, RefocusSound, SaveAcceptedSound, CollectSound DEF Next

(* What a page shows while nothing is under way is not older than any save *)
(* of its own the client was told of, whatever fails, is repeated or comes *)
(* late, and whoever else writes; blind queries and cycles apart.          *)
THEOREM SavedIsSeen == Spec => []SeesSaved
<1>1. Sound => SeesSaved
  BY DEF Sound, ShownIsCurrent, SeesSaved, AtLeast, CycleTables
<1> QED BY <1>1, InitSound, StepSound, PTL DEF Spec

(* No other query reads them.                                              *)
LEMMA OthersReadNoCycles ==
  \A q \in Queries \ CycleQueries : \A t \in Reads[q] : t \notin CycleTables
BY Kinds DEF CycleQueries, CycleTables, CyclesAt, Settings, Legs, Table

(* A step that shows an older version than before is the storing of a      *)
(* save's answer, and what it stored is on its way again.                  *)
LEMMA StepReloads ==
  ASSUME Sound, Next, NEW q \in Active \cap Loaded, data'[q] # None,
         q \notin CycleQueries, Older(data'[q], data[q])
  PROVE  fetch'[q] # None
<1>1. UpTo(q, data[q], server) /\ q \in Queries
  BY DEF Sound, Known, Loaded
<1>2. PICK t \in Reads[q] : data'[q][t] < data[q][t]
  BY <1>1 DEF Older, UpTo
<1>3. data[q][t] \in Nat
  BY <1>1, <1>2 DEF UpTo
<1>4. data'[q] # data[q]
  BY <1>2, <1>3
<1>5. CASE SaveAccepted
  <2>1. PICK wanted : Restocked(call.does, call.got.what, wanted)
    BY <1>5, SaveAcceptedRestocks
  <2>2. PICK page : call.does \in Offered(page)
    BY <1>5 DEF Sound, ToldBySave, Answered, SaveAccepted
  <2>3. q \in Invalidated(call.does)
    BY <1>1, <1>4, <2>1, <2>2, StoredStays, StoredIsMarked DEF Restocked
  <2>4. q \in wanted
    BY <2>1, <2>3 DEF Restocked
  <2>5. token \in Tokens \cup {None}
    BY DEF Sound, Typed
  <2> QED BY <1>1, <2>1, <2>4, <2>5, NewRequest DEF Restocked, Asked
<1>6. ASSUME NEW p \in Queries, ReadOk(p) PROVE FALSE
  <2>1. Answered(fetch[p], {"ok"}) /\ data' = [data EXCEPT ![p] = fetch[p].got.what]
    BY <1>6 DEF ReadOk
  <2>2. p = q /\ data'[q] = fetch[q].got.what
    BY <1>1, <1>4, <2>1 DEF Sound, Typed
  <2>3. UpTo(q, data'[q], server) /\ AtLeast(q, data'[q], data[q])
    BY <2>1, <2>2 DEF Sound, ReadsKnown
  <2>4. data'[q][t] \in Nat /\ data'[q][t] >= data[q][t]
    BY <1>1, <1>2, <2>3, OthersReadNoCycles DEF UpTo, AtLeast
  <2> QED BY <1>2, <1>3, <2>4
<1>7. ASSUME ClearCache \/ \E p \in Queries : data' = [data EXCEPT ![p] = None] PROVE FALSE
  BY <1>1, <1>4, <1>7 DEF ClearCache, Sound, Typed
<1>8. ASSUME NEW p \in Queries, Proceed(p) \/ FailRead(p) \/ Collect(p) PROVE FALSE
  BY <1>4, <1>6, <1>7, <1>8
     DEF Proceed, ServeRead, ReadFailed, ReadUnauthorized, Unauthorized, FailRead, Collect
<1>9. ASSUME NEW u \in Tokens, LogIn(u) \/ Rotate(u) PROVE FALSE
  BY <1>4, <1>9 DEF LogIn, Rotate
<1>10. CASE \/ \E page \in Pages : Visit(page)
            \/ Logout \/ Refocus
            \/ \E m \in Offered(at) : Save(m)
            \/ ServeSave \/ FailSave \/ SaveFailed \/ SaveUnauthorized
            \/ \E x \in Tables : Elsewhere(x)
  BY <1>4, <1>7, <1>10 DEF Visit, Logout, Refocus, Save, ServeSave, FailSave, SaveFailed,
     SaveUnauthorized, Unauthorized, Elsewhere
<1> QED BY <1>5, <1>8, <1>9, <1>10 DEF Next

(* No step shows an older version of what it showed, on the same page,     *)
(* unless a read is on its way that will replace it.                       *)
THEOREM OlderIsReloadedHolds == Spec => OlderIsReloaded
<1> DEFINE Reloads ==
      \A q \in Active \cap Loaded :
        /\ at' = at
        /\ data'[q] # None
        /\ q \notin {CyclesOf(s) : s \in Signals}
        /\ Older(data'[q], data[q])
        => fetch'[q] # None
<1>1. ASSUME Sound, [Next]_vars PROVE [Reloads]_vars
  BY <1>1, StepReloads DEF CycleQueries
<1>2. Spec => [][Reloads]_vars
  BY <1>1, InitSound, StepSound, PTL DEF Spec
<1> QED BY <1>2 DEF OlderIsReloaded
=============================================================================
