--------------------------- MODULE DesktopQueries ---------------------------
(***************************************************************************)
(* The keys of the web client's query cache, what each query reads of the  *)
(* server, which queries a page has mounted, and what each save writes,    *)
(* marks stale and stores (desktop/src/api/queries.ts).  A key is a tuple, *)
(* as in the source; a filter, a date range or a search word is one value. *)
(* The server is a set of tables, each with one version number.            *)
(***************************************************************************)
EXTENDS Naturals, SequencesExt

CONSTANTS
  Routes, Trips, Signals,
  Opened      \* the searches and lists of cycles the user has opened on a page

RouteList == <<"commute-routes">>
RouteOf(r) == <<"commute-routes", r>>
CalibrationOf(r) == <<"commute-routes", r, "calibration">>
HistoryOf(r) == <<"commute-routes", r, "recommendation-history">>
EvaluationsOf(r) == <<"commute-routes", r, "recommendation-evaluations">>
TripList == <<"commute-trips", "all">>
DayOf(t) == <<"commute-trips", t>>   \* the list narrowed to the trip's route and date
TracksOf(t) == <<"commute-trips", t, "gps-traces">>
LineSearch == <<"transit-lines", "search">>
NearbyStops == <<"transit-stops", "nearby">>
NearbySignals == <<"traffic-signals", "nearby">>
CyclesOf(s) == <<"traffic-signals", s, "cycles">>
NextDepartures == <<"schedules-next">>
OpsStatus == <<"admin-ops", "external-apis">>

OnRoute(Key(_)) == {Key(r) : r \in Routes}

(* The tables of the server, as far as the client can tell them apart. *)
Settings(r) == <<"route", r>>
Legs(r) == <<"legs", r>>
CyclesAt(s) == <<"cycles", s>>
Table(name) == <<name>>
Tables == OnRoute(Settings) \cup OnRoute(Legs) \cup {CyclesAt(s) : s \in Signals}
  \cup {Table(n) : n \in {"routes", "trips", "tracks", "advice", "batch", "signals",
                          "masters", "timetable", "calls"}}

Queries ==
  {RouteList, TripList, LineSearch, NearbyStops, NearbySignals, NextDepartures, OpsStatus}
    \cup OnRoute(RouteOf) \cup OnRoute(CalibrationOf)
    \cup OnRoute(HistoryOf) \cup OnRoute(EvaluationsOf)
    \cup {DayOf(t) : t \in Trips} \cup {TracksOf(t) : t \in Trips}
    \cup {CyclesOf(s) : s \in Signals}

Reads == [q \in Queries |->
  CASE q = RouteList -> {Table("routes")} \cup OnRoute(Settings)
    [] q \in OnRoute(RouteOf) -> {Settings(q[2]), Legs(q[2])}
    [] q \in OnRoute(CalibrationOf) -> {Legs(q[2]), Table("batch")}
    [] q \in OnRoute(HistoryOf) -> {Table("advice"), Table("trips")}
    [] q \in OnRoute(EvaluationsOf) -> {Table("batch")}
    [] q \in {TripList} \cup {DayOf(t) : t \in Trips} -> {Table("trips")}
    [] q \in {TracksOf(t) : t \in Trips} -> {Table("tracks")}
    [] q \in {LineSearch, NearbyStops} -> {Table("masters")}
    [] q = NearbySignals -> {Table("signals")}
    [] q \in {CyclesOf(s) : s \in Signals} -> {CyclesAt(q[2])}
    [] q = NextDepartures -> {Table("timetable")}
    [] q = OpsStatus -> {Table("calls")}]

(* Pages, each with the route or trip of its address. *)
List == <<"list">>
Login == <<"login">>
Pages == {List, Login} \cup {<<n>> : n \in {"create", "trips", "schedules", "ops"}}
  \cup {<<n, r>> : n \in {"detail", "edit", "calibration", "recommendations"}, r \in Routes}
  \cup {<<"trip", t, r>> : t \in Trips, r \in Routes}

(* The queries a page observes, given the ones that have data: the details *)
(* of the routes are asked for once the list that names them is there.     *)
Observed(page, loaded) ==
  CASE page = List -> {RouteList}
    [] page[1] = "detail" -> {RouteOf(page[2])}
    [] page[1] = "edit" -> {RouteOf(page[2])}
         \cup (IF RouteOf(page[2]) \in loaded
                 THEN Opened \cap ({NearbySignals, NearbyStops, LineSearch}
                                  \cup {CyclesOf(s) : s \in Signals})
                 ELSE {})
    [] page[1] = "calibration" -> {RouteOf(page[2]), CalibrationOf(page[2])}
    [] page[1] = "recommendations" ->
         {RouteOf(page[2]), HistoryOf(page[2]), EvaluationsOf(page[2])}
    [] page[1] = "trips" -> {RouteList, TripList}
         \cup (IF TripList \in loaded THEN OnRoute(RouteOf) ELSE {})
    [] page[1] = "trip" -> {DayOf(page[2])}
         \cup (IF DayOf(page[2]) \in loaded THEN {RouteOf(page[3]), TracksOf(page[2])} ELSE {})
    [] page[1] = "schedules" -> {RouteList} \cup (Opened \cap {NextDepartures, LineSearch})
         \cup (IF RouteList \in loaded THEN OnRoute(RouteOf) ELSE {})
    [] page[1] = "ops" -> {OpsStatus}
    [] OTHER -> {}

(* The saves a page offers, what each writes, and the page it is made on. *)
Offered(page) ==
  CASE page[1] = "create" -> {<<"createRoute">>}
    [] page[1] = "detail" -> {<<"updateRoute", page[2]>>}
    [] page[1] = "edit" -> {<<"replaceLegs", page[2]>>, <<"replaceCrossings", page[2]>>,
                            <<"createSignal">>} \cup {<<"replaceCycles", s>> : s \in Signals}
    [] page[1] = "trip" -> {<<"updateTrip">>, <<"updateAttempt">>}
    [] page[1] = "schedules" -> {<<"importSchedules">>}
    [] OTHER -> {}

Writes(m) ==
  CASE m[1] = "createRoute" -> {Table("routes")}
    [] m[1] = "updateRoute" -> {Settings(m[2])}
    [] m[1] \in {"replaceLegs", "replaceCrossings"} -> {Legs(m[2])}
    [] m[1] \in {"updateTrip", "updateAttempt"} -> {Table("trips")}
    [] m[1] = "createSignal" -> {Table("signals")}
    [] m[1] = "replaceCycles" -> {CyclesAt(m[2])}
    [] m[1] = "importSchedules" -> {Table("timetable")}

Under(prefix) == {q \in Queries : IsPrefix(prefix, q)}

InvalidateRoute(r) == Under(RouteOf(r))

InvalidateTrips ==
  Under(<<"commute-trips">>)
    \cup {q \in Queries : Len(q) >= 3 /\ q[3] = "recommendation-history"}

(* The queries a save marks stale once it is accepted. *)
Invalidated(m) ==
  CASE m[1] = "createRoute" -> {RouteList}
    [] m[1] = "updateRoute" -> {RouteList} \cup InvalidateRoute(m[2])
    [] m[1] \in {"replaceLegs", "replaceCrossings"} -> InvalidateRoute(m[2])
    [] m[1] \in {"updateTrip", "updateAttempt"} -> InvalidateTrips
    [] m[1] = "createSignal" -> Under(<<"traffic-signals">>)
    [] m[1] = "importSchedules" -> Under(NextDepartures)
    [] m[1] = "replaceCycles" -> {}

(* The cache entry a save writes its own answer into, and the part of the  *)
(* entry the answer covers: a changed route only replaces the route of a   *)
(* detail that is there, legs and cycles replace the entry as a whole.     *)
StoredIn(m) ==
  CASE m[1] \in {"updateRoute", "replaceLegs"} -> {RouteOf(m[2])}
    [] m[1] = "replaceCycles" -> {CyclesOf(m[2])}
    [] OTHER -> {}
Patches(m) == m[1] = "updateRoute"
=============================================================================
