--------------------------- MODULE RecorderSystem ---------------------------
(***************************************************************************)
(* The recorder and the trip service: every record reaches the server, in  *)
(* the order it was made (what OutboxSystem shows of the outbox), with its *)
(* instants in milliseconds (Timestamp.format).                            *)
(***************************************************************************)
EXTENDS Recorder

CONSTANTS
  MaxTrips,     \* trips of a behaviour (bound)
  SampleTimes   \* instants of GPS samples (bound)

ASSUME RecorderSystemAssumption ==
  MaxTrips \in Nat /\ SampleTimes \subseteq Times

VARIABLES
  server,      \* the trip service
  tripId,      \* server id of the trip being recorded, or of the last one
  screen,      \* boarding prompts on the screen
  reviews,     \* what the user is asked to look at
  turnedDown,  \* records the server refused
  walked       \* history: GPS samples of the trips not cancelled

systemVars == <<server, tripId, screen, reviews, turnedDown>>
vars == <<recorderVars, systemVars, walked>>

Today == 1
Seqs == 1..MaxAttemptSeq

RouteOfLeg == [leg \in Legs |-> CHOOSE r \in Routes : leg \in Range(LegsOf[r])]
NoTimetable == [t \in Times |-> Nil]

S == INSTANCE TripServer WITH
       RouteOf <- RouteOfLeg, Dates <- {Today}, Points <- SampleTimes,
       NextVehicle <- NoTimetable,
       TripIds <- 1..MaxTrips, SentBodies <- {}

-----------------------------------------------------------------------------
(* What the app does with an effect (RecordingSession.perform). *)

System ==
  [server |-> server, tripId |-> tripId, screen |-> screen,
   reviews |-> reviews, turnedDown |-> turnedDown]

Formatted(body) ==
  [f \in DOMAIN body |-> IF f = "result" \/ body[f] = Nil THEN body[f]
                         ELSE Rounded(body[f])]

RequestOf(sys, e) ==
  CASE e.type = "createTrip" ->
         [type |-> "createTrip", route |-> e.key[1], leftHomeAt |-> e.key[2],
          tripDate |-> Today]
    [] e.type = "updateTrip" ->
         [type |-> "updateTrip", tripId |-> sys.tripId, body |-> Formatted(e.body)]
    [] e.type = "upsertAttempt" ->
         [type |-> "upsertAttempt", tripId |-> sys.tripId, attempt |-> e.attempt,
          body |-> Formatted(e.body)]
    [] e.type = "uploadGps" ->
         [type |-> "uploadGps", tripId |-> sys.tripId, points |-> e.points]
    [] e.type = "discardOutbox" ->
         [type |-> "deleteTrip", tripId |-> sys.tripId]

Recorded(sys, e) ==
  LET answer == S!Served(sys.server, RequestOf(sys, e))
      refused == answer.outcome \in S!Failures
      created == answer.outcome.type = "tripCreated"
  IN  [sys EXCEPT !.server = answer.state,
                  !.tripId = IF created THEN answer.outcome.tripId ELSE @,
                  !.turnedDown = IF refused THEN @ \cup {e.type} ELSE @]

Performed(sys, e) ==
  CASE e.type = "prompt" ->
         [sys EXCEPT !.screen = {p \in @ : p[1] # e.leg} \cup {<<e.leg, e.seq>>}]
    [] e.type = "dismiss" -> [sys EXCEPT !.screen = {p \in @ : p[1] # e.leg}]
    [] e.type = "review" ->
         [sys EXCEPT !.reviews =
            @ \cup {[trip |-> sys.tripId,
                     about |-> IF e.leg = Nil THEN e.kind ELSE e.leg]}]
    [] e.type \in {"startLocationUpdates", "stopLocationUpdates", "tripEnded",
                   "confirmTripStart"} -> sys
    [] OTHER -> Recorded(sys, e)

(* No two trips of a route leave home in the same millisecond.             *)
LeavesAlone(x) ==
  x.trip # NoTrip /\ (trip = NoTrip \/ trip.leftHomeAt # x.trip.leftHomeAt) =>
    S!SameKey(server, [route |-> x.trip.route,
                       leftHomeAt |-> Rounded(x.trip.leftHomeAt)])
      \subseteq (IF trip = NoTrip THEN {} ELSE {tripId})

(* An event takes the machine to next, and the app performs its effects.   *)
Handled(next) ==
  \E x \in {next} : \E sys \in {FoldLeft(Performed, System, x.effects)} :
    /\ LeavesAlone(x)
    /\ trip' = x.trip
    /\ endedAt' = x.endedAt
    /\ server' = sys.server
    /\ tripId' = sys.tripId
    /\ screen' = sys.screen
    /\ reviews' = sys.reviews
    /\ turnedDown' = sys.turnedDown
    /\ server'.lastId <= MaxTrips

-----------------------------------------------------------------------------
Init ==
  /\ RecorderInit
  /\ server = S!NewServer
  /\ tripId = 0
  /\ screen = {}
  /\ reviews = {}
  /\ turnedDown = {}
  /\ walked = {}

RegionExited(region, at) ==
  /\ Handled(ExitRegion(Machine, region, at))
  /\ UNCHANGED walked

RegionEntered(region, at) ==
  /\ Handled(EnterRegion(Machine, region, at))
  /\ UNCHANGED walked

(* From the screen, with leg and seq Nil, or from a notification, which    *)
(* may be an old one.                                                      *)
Answer(leg, seq, departedAt) ==
  /\ trip # NoTrip
  /\ leg = Nil <=> seq = Nil
  /\ \E caught \in BOOLEAN :
       Handled(UserAnswered(Machine, leg, seq, departedAt, caught))
  /\ UNCHANGED walked

OfTrip(points) ==
  Range(trip.gpsBuffer) \cup {p \in DOMAIN points : points[p] = tripId}

Cancel ==
  /\ trip # NoTrip
  /\ Handled(UserCancelled(Machine, trip.key))
  /\ walked' = walked \ OfTrip(server.gps)

Sample(at) ==
  /\ trip # NoTrip
  /\ Handled(Located(Machine, at))
  /\ walked' = walked \cup {at}

Tick(at) ==
  /\ trip # NoTrip
  /\ Handled(Ticked(Machine, at))
  /\ UNCHANGED walked

Next ==
  \/ \E region \in Regions, at \in Times :
       RegionExited(region, at) \/ RegionEntered(region, at)
  \/ \E leg \in Legs \cup {Nil}, seq \in Seqs \cup {Nil}, at \in Times :
       Answer(leg, seq, at)
  \/ Cancel
  \/ \E at \in SampleTimes \ walked : Sample(at)
  \/ \E at \in Times : Tick(at)

Spec == Init /\ [][Next]_vars

-----------------------------------------------------------------------------
(* Properties. *)

Phases == {"notStarted", "waiting", "riding", "done"}

IsTrip(t) ==
  /\ t.key \in Routes \X {Rounded(at) : at \in Times}
  /\ t.route = t.key[1]
  /\ t.legs \in Seq([phase : Phases, seq : Seqs, departureAt : Times \cup {Nil},
                     lastMissedDepartureAt : Times \cup {Nil}])
  /\ Len(t.legs) = Len(LegsOf[t.route])
  /\ t.gpsBuffer \in Seq(SampleTimes)

(* Types; the buffer of GPS points stays below its limit.                  *)
TypeOK ==
  /\ trip # NoTrip => IsTrip(trip) /\ Len(trip.gpsBuffer) < GpsBatchSize
  /\ endedAt \in [Routes -> Times \cup {Nil}]
  /\ tripId \in 0..MaxTrips
  /\ screen \subseteq Legs \X Seqs
  /\ S!Ids(server) \subseteq 1..MaxTrips

(* The recorder never sends what the server refuses, however late and out  *)
(* of order events are reported: it leaves out a time that would break the *)
(* rules of the server and never skips an attemptSeq (Recorder.swift:      *)
(* 164-173).                                                               *)
NeverRefused == turnedDown = {}

(* What was recorded stands: an arrival, a departure or a result is        *)
(* written once and no later event writes it again, be it a region entered *)
(* twice, an answer given twice or an answer to an old notification.       *)
RecordsStand ==
  [][\A id \in S!Ids(server) \cap S!Ids(server') :
       \A k \in DOMAIN server.trips[id].attempts :
         \A f \in S!AttemptFields :
           LET old == server.trips[id].attempts[k][f]
           IN  old # Nil => server'.trips[id].attempts[k][f] = old]_vars

(* A trip that is over is whole, or the user is told: for each leg there   *)
(* is a ride with its departure and its alighting, or a note on that leg   *)
(* or on the trip (Recorder.swift:62-85, 173).                             *)
RideKnown(row, leg) ==
  \E k \in DOMAIN row.attempts :
    /\ k[1] = leg
    /\ row.attempts[k].result = "caught"
    /\ row.attempts[k].vehicleActualDepartureAt # Nil
    /\ row.attempts[k].alightedAt # Nil

Noted(id, leg) ==
  \E note \in reviews :
    /\ note.trip = id
    /\ note.about \in {leg, "tripAbandoned", "timeOutOfOrder"}

GapsAreReviewed ==
  \A id \in S!Ids(server) :
    (trip = NoTrip \/ id # tripId) =>
      LET row == server.trips[id] IN
        /\ \A leg \in Range(LegsOf[row.route]) : RideKnown(row, leg) \/ Noted(id, leg)
        /\ \/ row.fields.arrivedDestinationAt # Nil
           \/ \E note \in reviews :
                /\ note.trip = id
                /\ note.about \in {"tripAbandoned", "timeOutOfOrder", "tripTimedOut"}

(* A boarding prompt is on the screen exactly for the attempt that is      *)
(* waited for: none is forgotten when its leg or its trip is over, and     *)
(* none asks for an attempt that was answered.                             *)
PromptsAreCurrent ==
  screen = IF trip = NoTrip THEN {}
           ELSE {<<LegsOf[trip.route][i], trip.legs[i].seq>> :
                   i \in {j \in DOMAIN trip.legs : trip.legs[j].phase = "waiting"}}

(* No GPS sample of a trip is lost: it is buffered or on the server, also  *)
(* when the trip ends.                                                     *)
SamplesKept ==
  \A p \in walked :
    \/ p \in DOMAIN server.gps
    \/ trip # NoTrip /\ p \in Range(trip.gpsBuffer)

(* A trip that starts at its first stop, because leaving home went         *)
(* unnoticed, has that arrival recorded (Recorder.swift:279-281).          *)
FirstStopRecorded ==
  \A note \in reviews :
    (note.about = "leftHomeApproximated" /\ note.trip \in S!Ids(server)) =>
      LET row == server.trips[note.trip] IN
        \E k \in DOMAIN row.attempts : row.attempts[k].arrivedAtStopAt # Nil
=============================================================================
