----------------------------- MODULE TripServer -----------------------------
(***************************************************************************)
(* The backend's trip records: CommuteTripService (trips and boarding      *)
(* attempts) and GpsTraceService.  One action serves one request, in one   *)
(* transaction.                                                            *)
(*                                                                         *)
(* Instants are integers and Nil is a missing value.  The vehicle that     *)
(* NextVehicleSnapshotResolver finds after an instant is the constant      *)
(* function NextVehicle; result and notes, which no rule reads, are one    *)
(* field.  The single user and the ownership checks are left out.          *)
(***************************************************************************)
EXTENDS Integers, FiniteSets, Outcomes

CONSTANTS
  Routes,       \* commute routes of the user
  Legs,         \* TRANSIT legs of those routes
  RouteOf,      \* the route a leg belongs to
  Times,        \* instants
  Dates,        \* trip dates
  Points,       \* GPS points, named by (user, recordedAt)
  Nil,          \* a missing value, or a field the request leaves alone
  NoTrip,       \* tripId of GPS collected outside a trip
  NextVehicle,  \* what the timetable says leaves next after an instant
  TripIds,      \* ids of the sequence (bound)
  Seqs,         \* attemptSeq values clients send (bound)
  SentBodies    \* attempt bodies clients send (bound)

ASSUME TripServerAssumption ==
  /\ Times \subseteq Int
  /\ Nil \notin Int
  /\ NoTrip \notin Nat
  /\ RouteOf \in [Legs -> Routes]
  /\ NextVehicle \in [Times -> Times \cup {Nil}]
  /\ TripIds \subseteq Nat \ {0}
  /\ Seqs \subseteq Nat \ {0}
  /\ SentBodies \subseteq
       [{"arrivedAtStopAt", "vehicleScheduledOrPredictedAt",
         "vehicleActualDepartureAt", "alightedAt", "result"}
          -> Times \cup {Nil}]

VARIABLE server

TripFields == {"leftHomeAt", "arrivedDestinationAt"}

AttemptFields ==
  {"arrivedAtStopAt", "vehicleScheduledOrPredictedAt",
   "vehicleActualDepartureAt", "alightedAt", "result"}

(* What was observed; the prediction and the result are not (l. 337).      *)
Observed == {"arrivedAtStopAt", "vehicleActualDepartureAt", "alightedAt"}

TripBodies == [TripFields -> Times \cup {Nil}]
AttemptBodies == [AttemptFields -> Times \cup {Nil}]

(* server.trips   the rows of commute_trips by id, each with its attempts  *)
(*                by (leg, attemptSeq)                                     *)
(* server.gps     the rows of gps_traces: the trip of each stored point    *)
(* server.lastId  the id sequence                                          *)
NewServer == [trips |-> << >>, gps |-> << >>, lastId |-> 0]

Ids(s) == DOMAIN s.trips

Overlay(old, new) ==
  [f \in DOMAIN old |-> IF new[f] # Nil THEN new[f] ELSE old[f]]

-----------------------------------------------------------------------------
(* The rules. *)

Ordered(earlier, later) == earlier = Nil \/ later = Nil \/ earlier <= later

WithinTrip(trip, attempt) ==
  \A f \in Observed :
    /\ Ordered(trip.fields.leftHomeAt, attempt[f])
    /\ Ordered(attempt[f], trip.fields.arrivedDestinationAt)

TripOrdered(trip) ==
  /\ Ordered(trip.fields.leftHomeAt, trip.fields.arrivedDestinationAt)
  /\ \A k \in DOMAIN trip.attempts : WithinTrip(trip, trip.attempts[k])

RideOrdered(attempt) ==
  Ordered(attempt.vehicleActualDepartureAt, attempt.alightedAt)

AfterEarlierAttempts(attempts, leg) ==
  \A j, k \in DOMAIN attempts :
    (j[1] = leg /\ k[1] = leg /\ j[2] < k[2])
      => Ordered(attempts[j].vehicleActualDepartureAt,
                 attempts[k].vehicleActualDepartureAt)

(* The unique index on (commute_route_id, left_home_at), V4.               *)
HasKey(trip, route, leftHomeAt) ==
  trip.route = route /\ trip.fields.leftHomeAt = leftHomeAt

-----------------------------------------------------------------------------
(* The operations.  Each returns the new state and the answer; a request   *)
(* that is refused rolls back.                                             *)

Answer(s, outcome) == [state |-> s, outcome |-> outcome]

WithTrip(s, id, trip) ==
  [s EXCEPT !.trips = [i \in Ids(s) \cup {id} |->
                         IF i = id THEN trip ELSE s.trips[i]]]

SameKey(s, req) ==
  {i \in Ids(s) : req.leftHomeAt # Nil
                  /\ HasKey(s.trips[i], req.route, req.leftHomeAt)}

NewTrip(req) ==
  [route |-> req.route, tripDate |-> req.tripDate,
   fields |-> [f \in TripFields |->
                 IF f = "leftHomeAt" THEN req.leftHomeAt ELSE Nil],
   attempts |-> << >>]

(* Faulty: a resent request makes another trip.                            *)
CreateTripAgain(s, req) ==
  LET id == s.lastId + 1
  IN  Answer([WithTrip(s, id, NewTrip(req)) EXCEPT !.lastId = id], TripCreated(id))

(* Faulty: a resent request is a conflict.                                 *)
CreateTripOnce(s, req) ==
  IF SameKey(s, req) # {} THEN Answer(s, Refused) ELSE CreateTripAgain(s, req)

(* create: a resent request finds the trip it made before.                 *)
CreateTrip(s, req) ==
  IF req.route \notin Routes THEN Answer(s, NotFound)
  ELSE IF SameKey(s, req) # {}
  THEN LET id == CHOOSE i \in SameKey(s, req) : TRUE
       IN  IF s.trips[id].tripDate # req.tripDate THEN Answer(s, Refused)
           ELSE Answer(s, TripCreated(id))
  ELSE LET id == s.lastId + 1
       IN  Answer([WithTrip(s, id, NewTrip(req)) EXCEPT !.lastId = id],
                  TripCreated(id))

(* Faulty: the key of another trip may be taken.                           *)
UpdateTripOntoAnother(s, req) ==
  IF req.tripId \notin Ids(s) THEN Answer(s, NotFound)
  ELSE LET trip == [s.trips[req.tripId] EXCEPT !.fields = Overlay(@, req.body)]
       IN  IF TripOrdered(trip) THEN Answer(WithTrip(s, req.tripId, trip), Delivered)
           ELSE Answer(s, Refused)

(* Faulty: the times of the trip are not compared with its attempts.       *)
UpdateTripAlone(s, req) ==
  IF req.tripId \notin Ids(s) THEN Answer(s, NotFound)
  ELSE LET trip == [s.trips[req.tripId] EXCEPT !.fields = Overlay(@, req.body)]
       IN  IF Ordered(trip.fields.leftHomeAt, trip.fields.arrivedDestinationAt)
           THEN Answer(WithTrip(s, req.tripId, trip), Delivered)
           ELSE Answer(s, Refused)

UpdateTrip(s, req) ==
  IF req.tripId \notin Ids(s) THEN Answer(s, NotFound)
  ELSE LET trip == [s.trips[req.tripId] EXCEPT !.fields = Overlay(@, req.body)]
           clash == \E i \in Ids(s) \ {req.tripId} :
                      /\ trip.fields.leftHomeAt # Nil
                      /\ HasKey(s.trips[i], trip.route, trip.fields.leftHomeAt)
       IN  IF TripOrdered(trip) /\ ~clash
           THEN Answer(WithTrip(s, req.tripId, trip), Delivered)
           ELSE Answer(s, Refused)

(* Faulty: ON DELETE SET NULL keeps the points of the trip.                *)
DeleteTripKeepingGps(s, req) ==
  IF req.tripId \notin Ids(s) THEN Answer(s, NotFound)
  ELSE Answer([s EXCEPT !.trips = [i \in Ids(s) \ {req.tripId} |-> s.trips[i]],
                        !.gps = [p \in DOMAIN s.gps |->
                                   IF s.gps[p] = req.tripId THEN NoTrip
                                   ELSE s.gps[p]]],
              Delivered)

DeleteTrip(s, req) ==
  IF req.tripId \notin Ids(s) THEN Answer(s, NotFound)
  ELSE Answer([s EXCEPT !.trips = [i \in Ids(s) \ {req.tripId} |-> s.trips[i]],
                        !.gps = [p \in {q \in DOMAIN s.gps : s.gps[q] # req.tripId}
                                   |-> s.gps[p]]],
              Delivered)

BlankAttempt == [f \in AttemptFields |-> Nil]

SeqsOf(attempts, leg) == {k[2] : k \in {j \in DOMAIN attempts : j[1] = leg}}

(* The instant whose next vehicle is the attempt's prediction.             *)
Reference(attempts, k) ==
  IF k[2] = 1 THEN attempts[k].arrivedAtStopAt
  ELSE IF <<k[1], k[2] - 1>> \in DOMAIN attempts
       THEN attempts[<<k[1], k[2] - 1>>].vehicleActualDepartureAt
       ELSE Nil

(* Faulty: the prediction follows the times it was derived from.           *)
RefreshPredictedSnapshots(attempts, S) ==
  [k \in DOMAIN attempts |->
     IF k \in S /\ Reference(attempts, k) # Nil
     THEN [attempts[k] EXCEPT !.vehicleScheduledOrPredictedAt =
                                 NextVehicle[Reference(attempts, k)]]
     ELSE attempts[k]]

(* fillPredictedSnapshot, for the attempts in S                            *)
FillPredictedSnapshots(attempts, S) ==
  [k \in DOMAIN attempts |->
     IF /\ k \in S
        /\ attempts[k].vehicleScheduledOrPredictedAt = Nil
        /\ Reference(attempts, k) # Nil
     THEN [attempts[k] EXCEPT !.vehicleScheduledOrPredictedAt =
                                 NextVehicle[Reference(attempts, k)]]
     ELSE attempts[k]]

(* applyChanges, on an attempt that exists or on the new row's blank       *)
ApplyChanges(s, id, k, attempt, body) ==
  LET trip == s.trips[id]
      changed == Overlay(attempt, body)
      attempts == [j \in DOMAIN trip.attempts \cup {k} |->
                     IF j = k THEN changed ELSE trip.attempts[j]]
      filled == FillPredictedSnapshots(attempts, {k, <<k[1], k[2] + 1>>})
  IN  IF /\ RideOrdered(changed)
         /\ WithinTrip(trip, changed)
         /\ AfterEarlierAttempts(attempts, k[1])
      THEN Answer(WithTrip(s, id, [trip EXCEPT !.attempts = filled]), Delivered)
      ELSE Answer(s, Refused)

(* Faulty: the first attempt of a leg may have any number.                 *)
SkipsAheadOfSome(attempts, k) == \E n \in SeqsOf(attempts, k[1]) : n + 1 < k[2]

SkipsAhead(attempts, k) == \A n \in SeqsOf(attempts, k[1]) : n + 1 < k[2]

UpsertAttempt(s, req) ==
  IF req.tripId \notin Ids(s) THEN Answer(s, NotFound)
  ELSE LET trip == s.trips[req.tripId]
           k == req.attempt
       IN  IF k \in DOMAIN trip.attempts
           THEN ApplyChanges(s, req.tripId, k, trip.attempts[k], req.body)
           ELSE IF \/ SkipsAhead(trip.attempts, k) /\ k[2] > 1
                   \/ k[1] \notin Legs
                   \/ RouteOf[k[1]] # trip.route
           THEN Answer(s, Refused)
           ELSE ApplyChanges(s, req.tripId, k, BlankAttempt, req.body)

(* updateBoardingAttempt; the row's id stands for its trip and key         *)
UpdateAttempt(s, req) ==
  IF \/ req.tripId \notin Ids(s)
     \/ req.attempt \notin DOMAIN s.trips[req.tripId].attempts
  THEN Answer(s, NotFound)
  ELSE ApplyChanges(s, req.tripId, req.attempt,
                    s.trips[req.tripId].attempts[req.attempt], req.body)

(* saveBatch, ON CONFLICT DO NOTHING                                       *)
UploadGps(s, req) ==
  IF req.tripId # NoTrip /\ req.tripId \notin Ids(s) THEN Answer(s, NotFound)
  ELSE Answer([s EXCEPT !.gps = [p \in DOMAIN s.gps \cup req.points |->
                                   IF p \in DOMAIN s.gps THEN s.gps[p]
                                   ELSE req.tripId]],
              Delivered)

Served(s, req) ==
  CASE req.type = "createTrip"    -> CreateTrip(s, req)
    [] req.type = "updateTrip"    -> UpdateTrip(s, req)
    [] req.type = "deleteTrip"    -> DeleteTrip(s, req)
    [] req.type = "upsertAttempt" -> UpsertAttempt(s, req)
    [] req.type = "updateAttempt" -> UpdateAttempt(s, req)
    [] req.type = "uploadGps"     -> UploadGps(s, req)

-----------------------------------------------------------------------------
(* Requests of any number of clients, in any order and any number of times.*)

CreateRequests ==
  [type : {"createTrip"}, route : Routes, leftHomeAt : Times \cup {Nil},
   tripDate : Dates]

AttemptRequests ==
  [type : {"upsertAttempt", "updateAttempt"}, tripId : TripIds,
   attempt : Legs \X Seqs, body : SentBodies]

Requests ==
  CreateRequests
    \cup [type : {"updateTrip"}, tripId : TripIds, body : TripBodies]
    \cup [type : {"deleteTrip"}, tripId : TripIds]
    \cup AttemptRequests
    \cup [type : {"uploadGps"}, tripId : TripIds \cup {NoTrip},
          points : SUBSET Points]

InBounds(s) == s.lastId = 0 \/ s.lastId \in TripIds

Serve(req) ==
  /\ server' = Served(server, req).state
  /\ InBounds(server')

Init == server = NewServer

Next == \E req \in Requests : Serve(req)

Spec == Init /\ [][Next]_server

-----------------------------------------------------------------------------
(* Properties. *)

IsTrip(trip) ==
  /\ trip = [route |-> trip.route, tripDate |-> trip.tripDate,
             fields |-> trip.fields, attempts |-> trip.attempts]
  /\ trip.route \in Routes
  /\ trip.tripDate \in Dates
  /\ trip.fields \in TripBodies
  /\ DOMAIN trip.attempts \subseteq Legs \X Seqs
  /\ trip.attempts \in [DOMAIN trip.attempts -> AttemptBodies]

(* Types of the rows.                                                      *)
TypeOK ==
  /\ server = [trips |-> server.trips, gps |-> server.gps,
               lastId |-> server.lastId]
  /\ server.lastId \in Nat
  /\ Ids(server) \subseteq 1..server.lastId
  /\ server.trips = [i \in Ids(server) |-> server.trips[i]]
  /\ \A i \in Ids(server) : IsTrip(server.trips[i])
  /\ DOMAIN server.gps \subseteq Points
  /\ server.gps \in [DOMAIN server.gps -> Nat \cup {NoTrip}]

(* No point refers to a trip that is gone: a deletion leaves none behind,  *)
(* and no later upload brings one in (CommuteTripService.kt:125-130).      *)
PointsHaveTrips ==
  \A p \in DOMAIN server.gps : server.gps[p] \in Ids(server) \cup {NoTrip}

(* The times of a stored trip never contradict one another, whichever of   *)
(* trip and attempts is written last and however often each is corrected   *)
(* (#37, #38): every observed time is between leaving home and arriving,   *)
(* nobody alights before departing, and the vehicles of a leg depart in    *)
(* the order of their attemptSeq.                                          *)
TimesConsistent ==
  \A i \in Ids(server) :
    LET trip == server.trips[i] IN
      /\ TripOrdered(trip)
      /\ \A k \in DOMAIN trip.attempts : RideOrdered(trip.attempts[k])
      /\ \A leg \in Legs : AfterEarlierAttempts(trip.attempts, leg)

(* No vehicle is missing from the record of a leg: its attempts are        *)
(* numbered from 1 without a gap (#38).                                    *)
SeqsContiguous ==
  \A i \in Ids(server) : \A k \in DOMAIN server.trips[i].attempts :
    \A n \in 1..k[2] : <<k[1], n>> \in DOMAIN server.trips[i].attempts

(* A route has one trip for an instant of leaving home, also after the     *)
(* instant of another trip was corrected (V4).                             *)
KeysUnique ==
  \A i, j \in Ids(server) :
    (/\ server.trips[i].fields.leftHomeAt # Nil
     /\ HasKey(server.trips[j], server.trips[i].route,
               server.trips[i].fields.leftHomeAt)) => i = j

(* A point stays with the trip it was collected in as long as the trip is  *)
(* there, and goes with it: it neither dangles nor turns into a point      *)
(* collected outside a trip, nor into one of another trip (#88).           *)
GpsFollowsTrip ==
  [][\A p \in DOMAIN server'.gps :
       /\ server'.gps[p] \in DOMAIN server'.trips \cup {NoTrip}
       /\ p \in DOMAIN server.gps => server'.gps[p] = server.gps[p]]_server

(* The prediction stored for an attempt is a snapshot: once set it stays,  *)
(* however the times it was derived from are corrected (#54).  For clients *)
(* that do not send the field themselves.                                  *)
SnapshotKept ==
  [][\A i \in Ids(server) \cap DOMAIN server'.trips :
       \A k \in DOMAIN server.trips[i].attempts :
         LET old == server.trips[i].attempts[k].vehicleScheduledOrPredictedAt
         IN  old # Nil =>
               server'.trips[i].attempts[k].vehicleScheduledOrPredictedAt = old
    ]_server

(* What was stored stays as it is while others write: the trip of a point  *)
(* and the prediction of an attempt.                                       *)
StoredStays == GpsFollowsTrip /\ SnapshotKept

(* A request whose answer was lost can be sent again: the second time      *)
(* changes nothing and gives the same answer, except that a trip deleted   *)
(* before is not found (OutboxCommand.swift:20-28).                        *)
ResendIsHarmless ==
  \A req \in Requests :
    (req.type = "createTrip" => req.leftHomeAt # Nil) =>
      LET first == Served(server, req)
          again == Served(first.state, req)
      IN  /\ again.state = first.state
          /\ \/ again.outcome = first.outcome
             \/ req.type = "deleteTrip" /\ again.outcome = NotFound
=============================================================================
