------------------------------ MODULE Recorder ------------------------------
(***************************************************************************)
(* The phone's recording state machine (Recorder.swift, with the choice of *)
(* a route in DirectionPolicy.swift): it turns the regions a person enters *)
(* and leaves, the answers to "did you get on" and the clock into records  *)
(* of trips and boarding attempts.  One operator handles one event: it     *)
(* takes the machine to its next state and appends to its effects, in      *)
(* order, what the app has to do.                                          *)
(*                                                                         *)
(* Instants count half milliseconds, because a trip's key is rounded to    *)
(* milliseconds and the other instants are not.  Events may be reported    *)
(* late and in any order, so an event's instant is any instant.  The plan  *)
(* of regions is fixed, and coordinates, notes and names are left out.     *)
(***************************************************************************)
EXTENDS Integers, Sequences, FiniteSets, SequencesExt

CONSTANTS
  Routes,          \* ids of the routes
  LegsOf,          \* the TRANSIT legs of a route, in order
  DirectionOf,     \* "toWork" or "toHome"
  UsualDirection,  \* the direction of an instant's hour
  Regions,         \* monitored regions
  RolesOf,         \* what a region is to the routes
  Times,           \* instants
  NoTrip, Nil,
  MaxAttemptSeq, GpsBatchSize, GpsBatchInterval, AbandonAfterReturnHome,
  MaxTripDuration, QuietAfterTripEnd

Legs == UNION {Range(LegsOf[r]) : r \in Routes}

ASSUME RecorderAssumption ==
  /\ Routes \subseteq Nat
  /\ Times \subseteq Nat
  /\ Nil \notin Times \cup Legs
  /\ LegsOf \in [Routes -> Seq(Legs)]
  /\ DirectionOf \in [Routes -> {"toWork", "toHome"}]
  /\ UsualDirection \in [Times -> {"toWork", "toHome"}]
  /\ \A region \in Regions : \A role \in RolesOf[region] :
       /\ role.kind \in {"origin", "destination", "boardStop", "alightStop"}
       /\ role.route \in Routes
       /\ role.kind \in {"boardStop", "alightStop"} =>
            role.leg \in Range(LegsOf[role.route])
  /\ {MaxAttemptSeq, GpsBatchSize, GpsBatchInterval, AbandonAfterReturnHome,
      MaxTripDuration, QuietAfterTripEnd} \subseteq Nat

VARIABLES
  trip,      \* ActiveTrip, or NoTrip
  endedAt    \* when the last trip of each route ended

recorderVars == <<trip, endedAt>>

-----------------------------------------------------------------------------
(* The machine while it handles an event: its state, and the effects so    *)
(* far.                                                                    *)
Machine == [trip |-> trip, endedAt |-> endedAt, effects |-> << >>]

Rounded(t) == t + (t % 2)

Later(s, t) == IF s < t THEN t ELSE s

Emit(x, more) == [x EXCEPT !.effects = @ \o more]

Leg(x, i) == LegsOf[x.trip.route][i]

LegCount(x) == Len(LegsOf[x.trip.route])

Review(x, leg, kind) ==
  Emit(x, <<[type |-> "review", key |-> x.trip.key, leg |-> leg, kind |-> kind]>>)

Dismiss(leg) == [type |-> "dismiss", leg |-> leg]

Prompt(x, i) ==
  [type |-> "prompt", leg |-> Leg(x, i), seq |-> x.trip.legs[i].seq]

Blank ==
  [arrivedAtStopAt |-> Nil, vehicleScheduledOrPredictedAt |-> Nil,
   vehicleActualDepartureAt |-> Nil, alightedAt |-> Nil, result |-> Nil]

Upsert(x, i, seq, body) ==
  [type |-> "upsertAttempt", attempt |-> <<Leg(x, i), seq>>, body |-> body]

UpdateTrip(leftHomeAt, arrivedDestinationAt) ==
  [type |-> "updateTrip",
   body |-> [leftHomeAt |-> leftHomeAt,
             arrivedDestinationAt |-> arrivedDestinationAt]]

AnyLegStarted(t) == \E i \in DOMAIN t.legs : t.legs[i].phase # "notStarted"

NewLeg ==
  [phase |-> "notStarted", seq |-> 1, departureAt |-> Nil,
   lastMissedDepartureAt |-> Nil]

StartTrip(x, route, at) ==
  LET key == <<route, Rounded(at)>>
      started == [key |-> key, route |-> route, leftHomeAt |-> key[2],
                  legs |-> [i \in DOMAIN LegsOf[route] |-> NewLeg],
                  returnedToOriginAt |-> Nil, latestRecordedAt |-> key[2],
                  gpsBuffer |-> << >>]
  IN  Emit([x EXCEPT !.trip = started],
           <<[type |-> "createTrip", key |-> key],
             [type |-> "startLocationUpdates"]>>)

-----------------------------------------------------------------------------
(* Which route a person sets out on. *)

Roles(region, kind) == {role \in RolesOf[region] : role.kind = kind}

(* The first of prioritized(candidates, at).                               *)
Foremost(candidates, at) ==
  LET usual == {r \in candidates : DirectionOf[r] = UsualDirection[at]}
      best == IF usual # {} THEN usual ELSE candidates
  IN  CHOOSE r \in best : \A s \in best : r <= s

RoutesToStart(region) == {role.route : role \in Roles(region, "origin")}

FirstStopRoutes(x, region, at) ==
  {r \in Routes :
     /\ DirectionOf[r] = UsualDirection[at]
     /\ LegsOf[r] # << >>
     /\ [kind |-> "boardStop", route |-> r, leg |-> LegsOf[r][1]] \in RolesOf[region]
     /\ x.endedAt[r] # Nil => at >= x.endedAt[r] + QuietAfterTripEnd}

StartTripFromFirstStop(x, region, at) ==
  LET candidates == FirstStopRoutes(x, region, at)
  IN  IF candidates = {} THEN x
      ELSE Review(StartTrip(x, Foremost(candidates, at), at), Nil,
                  "leftHomeApproximated")

-----------------------------------------------------------------------------
(* Legs. *)

(* Faulty: a leg is closed without a word.                                 *)
CloseLegSilently(x, i) == [x EXCEPT !.trip.legs[i].phase = "done"]

CloseLeg(x, i) ==
  LET leg == Leg(x, i)
      phase == x.trip.legs[i].phase
      caught == [Blank EXCEPT !.result = "caught"]
      told == CASE phase = "notStarted" -> Review(x, leg, "legSkipped")
                [] phase = "waiting" ->
                     Review(Emit(x, <<Dismiss(leg),
                                      Upsert(x, i, x.trip.legs[i].seq, caught)>>),
                            leg, "caughtInferred")
                [] phase = "riding" -> Review(x, leg, "alightMissed")
                [] phase = "done" -> x
  IN  [told EXCEPT !.trip.legs[i].phase = "done"]

CloseEarlierLegs(x, i) == FoldLeft(CloseLeg, x, [j \in 1..(i - 1) |-> j])

WaitAtStop(x, i, at) ==
  LET y == [CloseEarlierLegs(x, i) EXCEPT
              !.trip.legs[i].phase = "waiting",
              !.trip.returnedToOriginAt = Nil,
              !.trip.latestRecordedAt = Later(@, at)]
  IN  Emit(y, <<Upsert(y, i, 1, [Blank EXCEPT !.arrivedAtStopAt = at]),
                Prompt(y, i)>>)

(* Faulty: entering the stop again while waiting is another arrival.       *)
EnterBoardStopAgain(x, i, at) ==
  IF x.trip.legs[i].phase \notin {"notStarted", "waiting"} THEN x
  ELSE IF at < x.trip.leftHomeAt THEN Review(x, Leg(x, i), "timeOutOfOrder")
  ELSE WaitAtStop(x, i, at)

EnterBoardStop(x, i, at) ==
  IF x.trip.legs[i].phase # "notStarted" THEN x
  ELSE IF at < x.trip.leftHomeAt THEN Review(x, Leg(x, i), "timeOutOfOrder")
  ELSE WaitAtStop(x, i, at)

EnterAlightStop(x, i, at) ==
  LET leg == Leg(x, i)
      progress == x.trip.legs[i]
  IN  IF progress.phase = "done" THEN x
      ELSE IF at < x.trip.leftHomeAt THEN Review(x, leg, "timeOutOfOrder")
      ELSE LET closed == CloseEarlierLegs(x, i)
               tooEarly == /\ progress.phase = "riding"
                           /\ progress.departureAt # Nil
                           /\ at < progress.departureAt
               body == [Blank EXCEPT
                          !.alightedAt = IF tooEarly THEN Nil ELSE at,
                          !.result = IF progress.phase = "riding" THEN Nil
                                     ELSE "caught"]
               told == CASE progress.phase = "notStarted" ->
                              Review(closed, leg, "boardStopMissed")
                         [] progress.phase = "waiting" ->
                              Review(Emit(closed, <<Dismiss(leg)>>), leg,
                                     "caughtInferred")
                         [] tooEarly -> Review(closed, leg, "timeOutOfOrder")
                         [] OTHER -> closed
               y == [told EXCEPT
                       !.trip.legs[i].phase = "done",
                       !.trip.returnedToOriginAt = Nil,
                       !.trip.latestRecordedAt = IF tooEarly THEN @ ELSE Later(@, at)]
           IN  IF tooEarly THEN y
               ELSE Emit(y, <<Upsert(y, i, progress.seq, body)>>)

EnterStop(x, stop, at) ==
  IF stop.alight THEN EnterAlightStop(x, stop.leg, at)
  ELSE EnterBoardStop(x, stop.leg, at)

StopRole(x, stop) ==
  [kind |-> IF stop.alight THEN "alightStop" ELSE "boardStop",
   route |-> x.trip.route, leg |-> Leg(x, stop.leg)]

(* The stops of the trip's route in a region, in the order of the legs.    *)
StopsAt(x, region) ==
  SelectSeq([n \in 1..(2 * LegCount(x)) |->
               [leg |-> (n + 1) \div 2, alight |-> n % 2 = 0]],
            LAMBDA stop : StopRole(x, stop) \in RolesOf[region])

-----------------------------------------------------------------------------
(* The end of a trip. *)

FlushGps(x) ==
  IF x.trip.gpsBuffer = << >> THEN x
  ELSE Emit([x EXCEPT !.trip.gpsBuffer = << >>],
            <<[type |-> "uploadGps", points |-> Range(x.trip.gpsBuffer)]>>)

(* Faulty: the prompts stay on the screen.                                 *)
DismissNone(x) == << >>

Dismissals(x) ==
  LET waiting == SelectSeq([i \in 1..LegCount(x) |-> i],
                           LAMBDA i : x.trip.legs[i].phase = "waiting")
  IN  [n \in DOMAIN waiting |-> Dismiss(Leg(x, waiting[n]))]

Final(x) ==
  <<[type |-> "stopLocationUpdates"], [type |-> "tripEnded", key |-> x.trip.key]>>

(* Faulty: what is buffered is dropped.                                    *)
EndTripUnflushed(x, at) ==
  [Emit(x, Dismissals(x) \o Final(x)) EXCEPT
     !.endedAt[x.trip.route] = at, !.trip = NoTrip]

EndTrip(x, at) ==
  LET y == FlushGps(x)
  IN  [Emit(y, Dismissals(y) \o Final(y)) EXCEPT
         !.endedAt[x.trip.route] = at, !.trip = NoTrip]

CancelTrip(x) ==
  [Emit(x, Dismissals(x) \o <<[type |-> "discardOutbox", key |-> x.trip.key]>>
             \o Final(x)) EXCEPT !.trip = NoTrip]

Arrive(x, at) ==
  IF at < x.trip.latestRecordedAt
  THEN EndTrip(Review(x, Nil, "timeOutOfOrder"), at)
  ELSE EndTrip(Emit(CloseEarlierLegs(x, LegCount(x) + 1),
                    <<UpdateTrip(Nil, at)>>), at)

-----------------------------------------------------------------------------
(* Events. *)

ExitRegion(x, region, at) ==
  IF x.trip = NoTrip
  THEN IF RoutesToStart(region) = {} THEN x
       ELSE LET route == Foremost(RoutesToStart(region), at)
                y == StartTrip(x, route, at)
            IN  IF DirectionOf[route] = UsualDirection[at] THEN y
                ELSE Review(Emit(y, <<[type |-> "confirmTripStart",
                                       key |-> y.trip.key]>>),
                            Nil, "unusualDirection")
  ELSE IF /\ x.trip.route \in RoutesToStart(region)
          /\ x.trip.returnedToOriginAt # Nil
          /\ ~AnyLegStarted(x.trip)
          /\ at > x.trip.leftHomeAt
  THEN Emit([x EXCEPT !.trip.returnedToOriginAt = Nil, !.trip.leftHomeAt = at,
                      !.trip.latestRecordedAt = at],
            <<UpdateTrip(at, Nil)>>)
  ELSE x

BackAtOrigin(x, region, at) ==
  IF /\ x.trip.route \in RoutesToStart(region)
     /\ ~AnyLegStarted(x.trip)
     /\ x.trip.returnedToOriginAt = Nil
  THEN [x EXCEPT !.trip.returnedToOriginAt = at]
  ELSE x

EnterRegion(x, region, at) ==
  LET y == IF x.trip = NoTrip THEN StartTripFromFirstStop(x, region, at) ELSE x
  IN  IF y.trip = NoTrip THEN y
      ELSE LET back == BackAtOrigin(y, region, at)
               z == FoldLeft(LAMBDA m, stop : EnterStop(m, stop, at), back,
                             StopsAt(back, region))
           IN  IF \E role \in Roles(region, "destination") :
                    role.route = z.trip.route
               THEN Arrive(z, at)
               ELSE z

(* The leg an answer is for: the one that waits, or else the first that    *)
(* has not started, unless a vehicle is being ridden.                      *)
AnsweredLeg(t) ==
  LET In(phase) == {i \in DOMAIN t.legs : t.legs[i].phase = phase}
      asked == IF In("waiting") # {} THEN In("waiting")
               ELSE IF In("riding") # {} THEN {} ELSE In("notStarted")
  IN  {i \in asked : \A j \in asked : i <= j}

(* Faulty: a departure is not compared with those of earlier attempts.     *)
DepartsBeforeTrip(t, i, departedAt) == departedAt < t.leftHomeAt

(* Such a departure is not sent.                                           *)
DepartsTooEarly(t, i, departedAt) ==
  \/ departedAt < t.leftHomeAt
  \/ /\ t.legs[i].lastMissedDepartureAt # Nil
     /\ departedAt < t.legs[i].lastMissedDepartureAt

AttemptsUsedUp(seq) == seq >= MaxAttemptSeq

Answered(x, i, departedAt, caught) ==
  LET leg == Leg(x, i)
      progress == x.trip.legs[i]
      opened == IF progress.phase = "notStarted" THEN CloseEarlierLegs(x, i) ELSE x
      tooEarly == DepartsTooEarly(x.trip, i, departedAt)
      departure == IF tooEarly THEN Nil ELSE departedAt
      told == IF tooEarly THEN Review(opened, leg, "timeOutOfOrder") ELSE opened
      sent == Emit([told EXCEPT
                      !.trip.returnedToOriginAt = Nil,
                      !.trip.latestRecordedAt =
                         IF tooEarly THEN @ ELSE Later(@, departedAt)],
                   <<Upsert(told, i, progress.seq,
                       [Blank EXCEPT !.vehicleActualDepartureAt = departure,
                          !.result = IF caught THEN "caught" ELSE "missed"])>>)
  IN  IF caught
      THEN Emit([sent EXCEPT !.trip.legs[i].phase = "riding",
                             !.trip.legs[i].departureAt = departure],
                <<Dismiss(leg)>>)
      ELSE IF AttemptsUsedUp(progress.seq)
      THEN Review(Emit([sent EXCEPT !.trip.legs[i].phase = "done"],
                       <<Dismiss(leg)>>), leg, "attemptLimitReached")
      ELSE LET next == [sent EXCEPT
                          !.trip.legs[i].phase = "waiting",
                          !.trip.legs[i].seq = @ + 1,
                          !.trip.legs[i].lastMissedDepartureAt =
                             IF tooEarly THEN @
                             ELSE IF @ = Nil THEN departure
                             ELSE Later(@, departure)]
           IN  Emit(next, <<Prompt(next, i)>>)

(* leg and seq come from the notification that was answered, or are Nil.   *)
UserAnswered(x, leg, seq, departedAt, caught) ==
  IF \/ x.trip = NoTrip
     \/ AnsweredLeg(x.trip) = {}
  THEN x
  ELSE LET i == CHOOSE j \in AnsweredLeg(x.trip) : TRUE
       IN  IF \/ leg # Nil /\ leg # Leg(x, i)
              \/ seq # Nil /\ seq # x.trip.legs[i].seq
           THEN x
           ELSE Answered(x, i, departedAt, caught)

(* key comes from the notification, or is Nil.                             *)
UserCancelled(x, key) ==
  IF x.trip = NoTrip \/ (key # Nil /\ key # x.trip.key) THEN x ELSE CancelTrip(x)

GpsDue(t, at) ==
  t.gpsBuffer # << >> /\ at - t.gpsBuffer[1] >= GpsBatchInterval

BatchFull(t) == Len(t.gpsBuffer) >= GpsBatchSize

(* A sample that is accurate enough; others are dropped.                   *)
Located(x, at) ==
  IF x.trip = NoTrip THEN x
  ELSE LET y == [x EXCEPT !.trip.gpsBuffer = Append(@, at)]
       IN  IF BatchFull(y.trip) \/ GpsDue(y.trip, at)
           THEN FlushGps(y) ELSE y

Ticked(x, at) ==
  IF x.trip = NoTrip THEN x
  ELSE IF /\ x.trip.returnedToOriginAt # Nil
          /\ at - x.trip.returnedToOriginAt >= AbandonAfterReturnHome
  THEN EndTrip(Review(x, Nil, "tripAbandoned"), at)
  ELSE IF at - x.trip.leftHomeAt >= MaxTripDuration
  THEN EndTrip(Review(CloseEarlierLegs(x, LegCount(x) + 1), Nil, "tripTimedOut"), at)
  ELSE IF GpsDue(x.trip, at) THEN FlushGps(x) ELSE x

RecorderInit ==
  /\ trip = NoTrip
  /\ endedAt = [r \in Routes |-> Nil]
=============================================================================
