-------------------------- MODULE TripServerProofs --------------------------
(***************************************************************************)
(* Proofs about TripServer, for any routes, legs, instants, ids, points    *)
(* and bodies, and for any requests in any order.                          *)
(***************************************************************************)
EXTENDS TripServer, TLAPS

(* The parts of the invariant, of one trip, of the trips and of the points.*)
TimesAgree(trip) ==
  /\ TripOrdered(trip)
  /\ \A k \in DOMAIN trip.attempts : RideOrdered(trip.attempts[k])
  /\ \A leg \in Legs : AfterEarlierAttempts(trip.attempts, leg)

Contiguous(attempts) ==
  \A k \in DOMAIN attempts : \A n \in 1..k[2] : <<k[1], n>> \in DOMAIN attempts

GoodTrip(trip) == IsTrip(trip) /\ TimesAgree(trip) /\ Contiguous(trip.attempts)

KeyTaken(s, id, trip) ==
  \E i \in Ids(s) \ {id} :
    /\ trip.fields.leftHomeAt # Nil
    /\ HasKey(s.trips[i], trip.route, trip.fields.leftHomeAt)

GoodTrips(s) ==
  /\ s.lastId \in Nat
  /\ Ids(s) \subseteq 1..s.lastId
  /\ s.trips = [i \in Ids(s) |-> s.trips[i]]
  /\ \A i \in Ids(s) : GoodTrip(s.trips[i]) /\ ~KeyTaken(s, i, s.trips[i])

GoodGps(s) ==
  /\ DOMAIN s.gps \subseteq Points
  /\ s.gps \in [DOMAIN s.gps -> Ids(s) \cup {NoTrip}]

Good(s) ==
  /\ s = [trips |-> s.trips, gps |-> s.gps, lastId |-> s.lastId]
  /\ GoodTrips(s)
  /\ GoodGps(s)

(* What a step leaves alone.                                               *)
PointsStay(s, t) == \A p \in DOMAIN s.gps \cap DOMAIN t.gps : t.gps[p] = s.gps[p]

SnapshotsStay(old, new) ==
  \A k \in DOMAIN old :
    LET before == old[k].vehicleScheduledOrPredictedAt
    IN  before # Nil => new[k].vehicleScheduledOrPredictedAt = before

AllSnapshotsStay(s, t) ==
  \A i \in Ids(s) \cap Ids(t) :
    SnapshotsStay(s.trips[i].attempts, t.trips[i].attempts)

(* Clients leave the prediction to the server.                             *)
NoneSendsPrediction ==
  \A body \in SentBodies : body.vehicleScheduledOrPredictedAt = Nil

Fine(s, t) ==
  Good(t) /\ PointsStay(s, t) /\ (NoneSendsPrediction => AllSnapshotsStay(s, t))

-----------------------------------------------------------------------------
(* Writing one trip. *)

(* A state that is refused or only read stays as it is.                    *)
LEMMA SameIsFine == ASSUME NEW s, Good(s) PROVE Fine(s, s)
BY DEF Fine, PointsStay, AllSnapshotsStay, SnapshotsStay

(* A trip that is fine by itself and whose key no other trip has may be    *)
(* written over a stored one, or as the next of the sequence.              *)
LEMMA WriteIsFine ==
  ASSUME NEW s, Good(s), NEW id, NEW trip, GoodTrip(trip), ~KeyTaken(s, id, trip),
         NEW last \in Nat,
         \/ id \in Ids(s) /\ last = s.lastId
         \/ id = s.lastId + 1 /\ last = id,
         (id \in Ids(s) /\ NoneSendsPrediction) =>
            SnapshotsStay(s.trips[id].attempts, trip.attempts)
  PROVE  Fine(s, [WithTrip(s, id, trip) EXCEPT !.lastId = last])
<1> DEFINE w == WithTrip(s, id, trip)
           t == [w EXCEPT !.lastId = last]
           trips == [i \in Ids(s) \cup {id} |-> IF i = id THEN trip ELSE s.trips[i]]
<1>a. w = [trips |-> trips, gps |-> s.gps, lastId |-> s.lastId]
  BY DEF Good, WithTrip
<1> HIDE DEF w, trips
<1>b. t = [trips |-> trips, gps |-> s.gps, lastId |-> last]
  BY <1>a
<1> HIDE DEF t
<1>1. /\ t = [trips |-> t.trips, gps |-> s.gps, lastId |-> last]
      /\ t.trips = [i \in Ids(s) \cup {id} |-> IF i = id THEN trip ELSE s.trips[i]]
      /\ t.gps = s.gps
      /\ t.lastId = last
  BY <1>b DEF trips
<1>2. Ids(t) = Ids(s) \cup {id}
  BY <1>1 DEF Ids
<1>3. Ids(t) \subseteq 1..last
  BY <1>2 DEF Good, GoodTrips
<1>4. ASSUME NEW i \in Ids(t)
      PROVE  GoodTrip(t.trips[i]) /\ ~KeyTaken(t, i, t.trips[i])
  <2>1. CASE i = id
    BY <2>1, <1>1, <1>2 DEF KeyTaken
  <2>2. CASE i # id
    <3>1. i \in Ids(s) /\ t.trips[i] = s.trips[i]
      BY <2>2, <1>1, <1>2
    <3>2. GoodTrip(s.trips[i]) /\ ~KeyTaken(s, i, s.trips[i])
      BY <3>1 DEF Good, GoodTrips
    <3>3. ~(/\ s.trips[i].fields.leftHomeAt # Nil
            /\ HasKey(trip, s.trips[i].route, s.trips[i].fields.leftHomeAt))
      BY <2>2, <3>1 DEF KeyTaken, HasKey
    <3> QED BY <3>1, <3>2, <3>3, <1>1, <1>2 DEF KeyTaken
  <2> QED BY <2>1, <2>2
<1>5. GoodTrips(t)
  BY <1>1, <1>2, <1>3, <1>4 DEF GoodTrips
<1>6. GoodGps(t)
  BY <1>1, <1>2 DEF Good, GoodGps
<1>7. Good(t)
  BY <1>1, <1>5, <1>6 DEF Good
<1>8. PointsStay(s, t)
  BY <1>1 DEF PointsStay
<1>9. ASSUME NoneSendsPrediction PROVE AllSnapshotsStay(s, t)
  BY <1>1, <1>2, <1>9 DEF AllSnapshotsStay, SnapshotsStay
<1> QED BY <1>7, <1>8, <1>9 DEF Fine, t, w

(* The same, for a trip that is there.                                     *)
LEMMA OverwriteIsFine ==
  ASSUME NEW s, Good(s), NEW id \in Ids(s), NEW trip, GoodTrip(trip),
         ~KeyTaken(s, id, trip),
         NoneSendsPrediction => SnapshotsStay(s.trips[id].attempts, trip.attempts)
  PROVE  Fine(s, WithTrip(s, id, trip))
<1>1. WithTrip(s, id, trip) = [WithTrip(s, id, trip) EXCEPT !.lastId = s.lastId]
  BY DEF Good, WithTrip
<1>2. s.lastId \in Nat
  BY DEF Good, GoodTrips
<1> QED BY <1>1, <1>2, WriteIsFine

-----------------------------------------------------------------------------
(* Trips. *)

(* create                                                                  *)
LEMMA CreateTripFine ==
  ASSUME NEW s, Good(s), NEW req \in CreateRequests
  PROVE  Fine(s, CreateTrip(s, req).state)
<1> DEFINE id == s.lastId + 1
<1>1. CASE req.route \notin Routes \/ SameKey(s, req) # {}
  <2>1. CreateTrip(s, req).state = s
    BY <1>1 DEF CreateTrip, Answer
  <2> QED BY <2>1, SameIsFine
<1>2. CASE req.route \in Routes /\ SameKey(s, req) = {}
  <2>1. CreateTrip(s, req).state = [WithTrip(s, id, NewTrip(req)) EXCEPT !.lastId = id]
    BY <1>2 DEF CreateTrip, Answer
  <2>2. /\ NewTrip(req).attempts = << >>
        /\ NewTrip(req).route = req.route
        /\ NewTrip(req).fields.leftHomeAt = req.leftHomeAt
        /\ NewTrip(req).fields.arrivedDestinationAt = Nil
    BY DEF NewTrip, TripFields
  <2>3. IsTrip(NewTrip(req))
    BY <1>2, <2>2 DEF CreateRequests, NewTrip, IsTrip, TripBodies, TripFields
  <2>4. TimesAgree(NewTrip(req)) /\ Contiguous(NewTrip(req).attempts)
    BY <2>2 DEF TimesAgree, TripOrdered, Ordered, AfterEarlierAttempts, Contiguous
  <2>5. ~KeyTaken(s, id, NewTrip(req))
    BY <1>2, <2>2 DEF SameKey, KeyTaken
  <2>6. id \in Nat /\ id \notin Ids(s)
    BY DEF Good, GoodTrips
  <2> QED BY <2>1, <2>3, <2>4, <2>5, <2>6, WriteIsFine DEF GoodTrip
<1> QED BY <1>1, <1>2

(* update: the times are compared with the attempts the trip has.          *)
LEMMA UpdateTripFine ==
  ASSUME NEW s, Good(s),
         NEW req \in [type : {"updateTrip"}, tripId : TripIds, body : TripBodies]
  PROVE  Fine(s, UpdateTrip(s, req).state)
<1> DEFINE old == s.trips[req.tripId]
           trip == [old EXCEPT !.fields = Overlay(@, req.body)]
<1>1. CASE UpdateTrip(s, req).state = s
  BY <1>1, SameIsFine
<1>2. CASE UpdateTrip(s, req).state # s
  <2>1. /\ req.tripId \in Ids(s)
        /\ TripOrdered(trip)
        /\ ~KeyTaken(s, req.tripId, trip)
        /\ UpdateTrip(s, req).state = WithTrip(s, req.tripId, trip)
    BY <1>2 DEF UpdateTrip, Answer, KeyTaken
  <2>2. GoodTrip(old)
    BY <2>1 DEF Good, GoodTrips
  <2>3. /\ trip.route = old.route
        /\ trip.tripDate = old.tripDate
        /\ trip.attempts = old.attempts
        /\ trip.fields = Overlay(old.fields, req.body)
        /\ trip = [route |-> trip.route, tripDate |-> trip.tripDate,
                   fields |-> trip.fields, attempts |-> trip.attempts]
    BY <2>2 DEF GoodTrip, IsTrip
  <2>4. Overlay(old.fields, req.body) \in TripBodies
    BY <2>2 DEF GoodTrip, IsTrip, TripBodies, Overlay
  <2>5. GoodTrip(trip)
    BY <2>1, <2>2, <2>3, <2>4 DEF GoodTrip, IsTrip, TimesAgree
  <2>6. SnapshotsStay(old.attempts, trip.attempts)
    BY <2>3 DEF SnapshotsStay
  <2> HIDE DEF trip
  <2>7. Fine(s, WithTrip(s, req.tripId, trip))
    BY <2>1, <2>5, <2>6, OverwriteIsFine
  <2> QED BY <2>1, <2>7
<1> QED BY <1>1, <1>2

(* delete: the points of the trip go with it.                              *)
LEMMA DeleteTripFine ==
  ASSUME NEW s, Good(s), NEW req
  PROVE  Fine(s, DeleteTrip(s, req).state)
<1> DEFINE t == DeleteTrip(s, req).state
<1>1. CASE req.tripId \notin Ids(s)
  <2>1. t = s
    BY <1>1 DEF DeleteTrip, Answer
  <2> QED BY <2>1, SameIsFine
<1>2. CASE req.tripId \in Ids(s)
  <2>1. /\ t = [trips |-> t.trips, gps |-> t.gps, lastId |-> s.lastId]
        /\ t.trips = [i \in Ids(s) \ {req.tripId} |-> s.trips[i]]
        /\ t.gps = [p \in {q \in DOMAIN s.gps : s.gps[q] # req.tripId} |-> s.gps[p]]
        /\ t.lastId = s.lastId
    BY <1>2 DEF DeleteTrip, Answer, Good
  <2>2. Ids(t) = Ids(s) \ {req.tripId}
    BY <2>1 DEF Ids
  <2>3. \A i \in Ids(t) : i \in Ids(s) /\ t.trips[i] = s.trips[i]
    BY <2>1, <2>2
  <2>4. GoodTrips(t)
    BY <2>1, <2>2, <2>3 DEF Good, GoodTrips, KeyTaken
  <2>5. GoodGps(t)
    BY <2>1, <2>2 DEF Good, GoodGps
  <2>6. Good(t)
    BY <2>1, <2>4, <2>5 DEF Good
  <2> QED BY <2>1, <2>3, <2>6 DEF Fine, PointsStay, AllSnapshotsStay, SnapshotsStay
<1> QED BY <1>1, <1>2

-----------------------------------------------------------------------------
(* Attempts. *)

(* A body keeps what it does not send.                                     *)
LEMMA OverlayType ==
  ASSUME NEW old \in AttemptBodies, NEW body \in AttemptBodies
  PROVE  /\ Overlay(old, body) \in AttemptBodies
         /\ body.vehicleScheduledOrPredictedAt = Nil =>
              Overlay(old, body).vehicleScheduledOrPredictedAt
                = old.vehicleScheduledOrPredictedAt
BY DEF AttemptBodies, AttemptFields, Overlay

(* What filling in predictions leaves alone.                               *)
LEMMA FillKeeps ==
  ASSUME NEW attempts, attempts \in [DOMAIN attempts -> AttemptBodies], NEW S
  PROVE  LET filled == FillPredictedSnapshots(attempts, S) IN
         /\ DOMAIN filled = DOMAIN attempts
         /\ filled \in [DOMAIN attempts -> AttemptBodies]
         /\ \A k \in DOMAIN attempts :
              /\ \A f \in AttemptFields \ {"vehicleScheduledOrPredictedAt"} :
                   filled[k][f] = attempts[k][f]
              /\ attempts[k].vehicleScheduledOrPredictedAt # Nil =>
                   filled[k] = attempts[k]
<1> DEFINE filled == FillPredictedSnapshots(attempts, S)
<1>1. DOMAIN filled = DOMAIN attempts
  BY DEF FillPredictedSnapshots
<1>2. ASSUME NEW k \in DOMAIN attempts
      PROVE  /\ filled[k] \in AttemptBodies
             /\ \A f \in AttemptFields \ {"vehicleScheduledOrPredictedAt"} :
                  filled[k][f] = attempts[k][f]
             /\ attempts[k].vehicleScheduledOrPredictedAt # Nil =>
                  filled[k] = attempts[k]
  <2>1. attempts[k] \in AttemptBodies
    OBVIOUS
  <2>2. CASE filled[k] = attempts[k]
    BY <2>1, <2>2
  <2>3. CASE filled[k] # attempts[k]
    <3>1. /\ Reference(attempts, k) # Nil
          /\ attempts[k].vehicleScheduledOrPredictedAt = Nil
          /\ filled[k] = [attempts[k] EXCEPT !.vehicleScheduledOrPredictedAt =
                                               NextVehicle[Reference(attempts, k)]]
      BY <2>3 DEF FillPredictedSnapshots
    <3>2. Reference(attempts, k) \in Times
      BY <2>1, <3>1 DEF Reference, AttemptBodies, AttemptFields
    <3>3. NextVehicle[Reference(attempts, k)] \in Times \cup {Nil}
      BY <3>2, TripServerAssumption
    <3> QED BY <2>1, <3>1, <3>3 DEF AttemptBodies, AttemptFields
  <2> QED BY <2>2, <2>3
<1>3. filled = [k \in DOMAIN attempts |-> filled[k]]
  BY DEF FillPredictedSnapshots
<1> HIDE DEF filled
<1>4. filled \in [DOMAIN attempts -> AttemptBodies]
  BY <1>2, <1>3
<1>5. QED BY <1>1, <1>2, <1>4 DEF filled

(* The rules read nothing that filling in predictions changes.             *)
LEMMA RulesIgnorePredictions ==
  ASSUME NEW trip, NEW old, NEW new,
         \A f \in AttemptFields \ {"vehicleScheduledOrPredictedAt"} : new[f] = old[f]
  PROVE  /\ WithinTrip(trip, new) <=> WithinTrip(trip, old)
         /\ RideOrdered(new) <=> RideOrdered(old)
         /\ new.vehicleActualDepartureAt = old.vehicleActualDepartureAt
<1>1. /\ new.arrivedAtStopAt = old.arrivedAtStopAt
      /\ new.vehicleActualDepartureAt = old.vehicleActualDepartureAt
      /\ new.alightedAt = old.alightedAt
  BY DEF AttemptFields
<1> QED BY <1>1 DEF WithinTrip, RideOrdered, Observed

(* An attempt that passes the rules leaves a good trip, whether it was     *)
(* there or is the next of its leg.                                        *)
LEMMA ApplyChangesFine ==
  ASSUME NEW s, Good(s), NEW id \in Ids(s), NEW k \in Legs \X Seqs,
         NEW attempt \in AttemptBodies, NEW body \in SentBodies,
         k \in DOMAIN s.trips[id].attempts => attempt = s.trips[id].attempts[k],
         \A n \in 1..k[2] : n # k[2] => <<k[1], n>> \in DOMAIN s.trips[id].attempts
  PROVE  Fine(s, ApplyChanges(s, id, k, attempt, body).state)
<1> DEFINE trip == s.trips[id]
           changed == Overlay(attempt, body)
           attempts == [j \in DOMAIN trip.attempts \cup {k} |->
                          IF j = k THEN changed ELSE trip.attempts[j]]
           filled == FillPredictedSnapshots(attempts, {k, <<k[1], k[2] + 1>>})
           new == [trip EXCEPT !.attempts = filled]
           fits == /\ RideOrdered(changed)
                   /\ WithinTrip(trip, changed)
                   /\ AfterEarlierAttempts(attempts, k[1])
<1>1. CASE ~fits
  <2>1. ApplyChanges(s, id, k, attempt, body).state = s
    BY <1>1 DEF ApplyChanges, Answer
  <2> QED BY <2>1, SameIsFine
<1>2. CASE fits
  <2>1. ApplyChanges(s, id, k, attempt, body).state = WithTrip(s, id, new)
    BY <1>2 DEF ApplyChanges, Answer
  <2>2. /\ RideOrdered(changed)
        /\ WithinTrip(trip, changed)
        /\ AfterEarlierAttempts(attempts, k[1])
    BY <1>2
  <2>3. body \in AttemptBodies
    BY TripServerAssumption DEF AttemptBodies, AttemptFields
  <2>4. changed \in AttemptBodies
    BY <2>3, OverlayType
  <2>5. /\ GoodTrip(trip)
        /\ ~KeyTaken(s, id, trip)
    BY DEF Good, GoodTrips
  <2>6. /\ DOMAIN trip.attempts \subseteq Legs \X Seqs
        /\ trip.attempts \in [DOMAIN trip.attempts -> AttemptBodies]
        /\ trip = [route |-> trip.route, tripDate |-> trip.tripDate,
                   fields |-> trip.fields, attempts |-> trip.attempts]
    BY <2>5 DEF GoodTrip, IsTrip
  <2>7. NoneSendsPrediction /\ k \in DOMAIN trip.attempts =>
          changed.vehicleScheduledOrPredictedAt
            = trip.attempts[k].vehicleScheduledOrPredictedAt
    BY <2>3, OverlayType DEF NoneSendsPrediction
  <2>8. /\ DOMAIN attempts = DOMAIN trip.attempts \cup {k}
        /\ attempts[k] = changed
        /\ \A j \in DOMAIN trip.attempts : j # k => attempts[j] = trip.attempts[j]
    OBVIOUS
  <2> HIDE DEF trip, changed
  <2>9. attempts \in [DOMAIN attempts -> AttemptBodies]
    BY <2>4, <2>6
  <2> HIDE DEF attempts
  <2>10. /\ DOMAIN filled = DOMAIN attempts
         /\ filled \in [DOMAIN attempts -> AttemptBodies]
         /\ \A j \in DOMAIN attempts :
              /\ \A f \in AttemptFields \ {"vehicleScheduledOrPredictedAt"} :
                   filled[j][f] = attempts[j][f]
              /\ attempts[j].vehicleScheduledOrPredictedAt # Nil =>
                   filled[j] = attempts[j]
    BY <2>9, FillKeeps
  <2> HIDE DEF filled
  <2>11. /\ new.route = trip.route
         /\ new.tripDate = trip.tripDate
         /\ new.fields = trip.fields
         /\ new.attempts = filled
         /\ new = [route |-> new.route, tripDate |-> new.tripDate,
                   fields |-> new.fields, attempts |-> new.attempts]
    BY <2>6
  <2> HIDE DEF new
  <2>12. IsTrip(new)
    BY <2>5, <2>6, <2>8, <2>10, <2>11 DEF GoodTrip, IsTrip
  <2>13. ASSUME NEW j \in DOMAIN filled
         PROVE  /\ WithinTrip(new, filled[j])
                /\ RideOrdered(filled[j])
                /\ filled[j].vehicleActualDepartureAt
                     = attempts[j].vehicleActualDepartureAt
    <3>1. j \in DOMAIN attempts
      BY <2>10
    <3>2. WithinTrip(trip, attempts[j]) /\ RideOrdered(attempts[j])
      BY <2>2, <2>5, <2>8, <3>1 DEF GoodTrip, TimesAgree, TripOrdered
    <3>3. WithinTrip(trip, filled[j]) /\ RideOrdered(filled[j])
      BY <2>10, <3>1, <3>2, RulesIgnorePredictions
    <3>4. WithinTrip(new, filled[j])
      BY <2>11, <3>3 DEF WithinTrip
    <3> QED BY <2>10, <3>1, <3>3, <3>4, RulesIgnorePredictions
  <2>14. ASSUME NEW leg \in Legs PROVE AfterEarlierAttempts(attempts, leg)
    <3>1. CASE leg = k[1]
      BY <2>2, <3>1
    <3>2. CASE leg # k[1]
      <4>1. AfterEarlierAttempts(trip.attempts, leg)
        BY <2>5 DEF GoodTrip, TimesAgree
      <4> QED BY <2>8, <3>2, <4>1 DEF AfterEarlierAttempts
    <3> QED BY <3>1, <3>2
  <2>15. TimesAgree(new)
    <3>1. TripOrdered(new)
      BY <2>5, <2>11, <2>13 DEF GoodTrip, TimesAgree, TripOrdered
    <3>2. \A leg \in Legs : AfterEarlierAttempts(filled, leg)
      BY <2>10, <2>13, <2>14 DEF AfterEarlierAttempts
    <3> QED BY <2>11, <2>13, <3>1, <3>2 DEF TimesAgree
  <2>16. Contiguous(filled)
    <3>1. Contiguous(trip.attempts)
      BY <2>5 DEF GoodTrip
    <3>2. \A n \in 1..k[2] : <<k[1], n>> \in DOMAIN filled
      <4>1. k = <<k[1], k[2]>>
        OBVIOUS
      <4>2. \A n \in 1..k[2] : n # k[2] => <<k[1], n>> \in DOMAIN trip.attempts
        BY DEF trip
      <4> QED BY <2>8, <2>10, <4>1, <4>2
    <3> QED BY <2>8, <2>10, <3>1, <3>2 DEF Contiguous
  <2>17. GoodTrip(new)
    BY <2>11, <2>12, <2>15, <2>16 DEF GoodTrip
  <2>18. ~KeyTaken(s, id, new)
    BY <2>5, <2>11 DEF KeyTaken
  <2>19. ASSUME NoneSendsPrediction PROVE SnapshotsStay(trip.attempts, new.attempts)
    <3>1. ASSUME NEW j \in DOMAIN trip.attempts,
                 trip.attempts[j].vehicleScheduledOrPredictedAt # Nil
          PROVE  filled[j].vehicleScheduledOrPredictedAt
                   = trip.attempts[j].vehicleScheduledOrPredictedAt
      <4>1. attempts[j].vehicleScheduledOrPredictedAt
              = trip.attempts[j].vehicleScheduledOrPredictedAt
        BY <2>7, <2>8, <2>19
      <4>2. j \in DOMAIN attempts
        BY <2>8
      <4> QED BY <2>10, <3>1, <4>1, <4>2
    <3> QED BY <2>11, <3>1 DEF SnapshotsStay
  <2> QED BY <2>1, <2>17, <2>18, <2>19, OverwriteIsFine DEF trip
<1> QED BY <1>1, <1>2

(* Clients name an attempt by leg and number.                              *)
LEMMA AttemptRequestType ==
  ASSUME NEW req \in AttemptRequests
  PROVE  /\ req.attempt \in Legs \X Seqs
         /\ req.body \in SentBodies
BY DEF AttemptRequests

(* A stored attempt is a body, and its earlier ones are stored too.        *)
LEMMA StoredAttempt ==
  ASSUME NEW s, Good(s), NEW id \in Ids(s), NEW k \in DOMAIN s.trips[id].attempts
  PROVE  /\ s.trips[id].attempts[k] \in AttemptBodies
         /\ \A n \in 1..k[2] : <<k[1], n>> \in DOMAIN s.trips[id].attempts
<1>1. GoodTrip(s.trips[id])
  BY DEF Good, GoodTrips
<1> QED BY <1>1 DEF GoodTrip, IsTrip, Contiguous

(* upsertBoardingAttempt: a new attempt follows the last one of its leg.   *)
LEMMA UpsertAttemptFine ==
  ASSUME NEW s, Good(s), NEW req \in AttemptRequests
  PROVE  Fine(s, UpsertAttempt(s, req).state)
<1> DEFINE trip == s.trips[req.tripId]
           k == req.attempt
<1>1. CASE UpsertAttempt(s, req).state = s
  BY <1>1, SameIsFine
<1>2. CASE UpsertAttempt(s, req).state # s
  <2>1. req.tripId \in Ids(s)
    BY <1>2 DEF UpsertAttempt, Answer
  <2>2. CASE k \in DOMAIN trip.attempts
    <3>1. UpsertAttempt(s, req).state
            = ApplyChanges(s, req.tripId, k, trip.attempts[k], req.body).state
      BY <2>1, <2>2 DEF UpsertAttempt
    <3> QED BY <2>1, <2>2, <3>1, AttemptRequestType, StoredAttempt, ApplyChangesFine
  <2>3. CASE k \notin DOMAIN trip.attempts
    <3>1. /\ ~(SkipsAhead(trip.attempts, k) /\ k[2] > 1)
          /\ UpsertAttempt(s, req).state
               = ApplyChanges(s, req.tripId, k, BlankAttempt, req.body).state
      BY <1>2, <2>1, <2>3 DEF UpsertAttempt, Answer
    <3>2. BlankAttempt \in AttemptBodies
      BY DEF BlankAttempt, AttemptBodies
    <3>3. k \in Legs \X Seqs /\ k[2] \in Nat \ {0}
      BY AttemptRequestType, TripServerAssumption
    <3>4. ASSUME NEW n \in 1..k[2], n # k[2]
          PROVE  <<k[1], n>> \in DOMAIN trip.attempts
      <4>1. PICK m \in SeqsOf(trip.attempts, k[1]) : ~(m + 1 < k[2])
        BY <3>1, <3>3, <3>4 DEF SkipsAhead
      <4>2. PICK j \in DOMAIN trip.attempts : j[1] = k[1] /\ j[2] = m
        BY <4>1 DEF SeqsOf
      <4>3. GoodTrip(trip)
        BY <2>1 DEF Good, GoodTrips
      <4>4. j[2] \in Nat
        BY <4>3, TripServerAssumption DEF GoodTrip, IsTrip
      <4>5. n \in 1..j[2]
        BY <3>3, <3>4, <4>1, <4>2, <4>4
      <4> QED BY <2>1, <4>2, <4>5, StoredAttempt
    <3> QED BY <2>1, <2>3, <3>1, <3>2, <3>3, <3>4, AttemptRequestType,
               ApplyChangesFine
  <2> QED BY <2>2, <2>3
<1> QED BY <1>1, <1>2

(* updateBoardingAttempt                                                   *)
LEMMA UpdateAttemptFine ==
  ASSUME NEW s, Good(s), NEW req \in AttemptRequests
  PROVE  Fine(s, UpdateAttempt(s, req).state)
<1>1. CASE UpdateAttempt(s, req).state = s
  BY <1>1, SameIsFine
<1>2. CASE UpdateAttempt(s, req).state # s
  <2>1. /\ req.tripId \in Ids(s)
        /\ req.attempt \in DOMAIN s.trips[req.tripId].attempts
        /\ UpdateAttempt(s, req).state
             = ApplyChanges(s, req.tripId, req.attempt,
                            s.trips[req.tripId].attempts[req.attempt], req.body).state
    BY <1>2 DEF UpdateAttempt, Answer
  <2> QED BY <2>1, AttemptRequestType, StoredAttempt, ApplyChangesFine
<1> QED BY <1>1, <1>2

-----------------------------------------------------------------------------
(* Points. *)

(* saveBatch: a point that is there stays with its trip.                   *)
LEMMA UploadGpsFine ==
  ASSUME NEW s, Good(s),
         NEW req \in [type : {"uploadGps"}, tripId : TripIds \cup {NoTrip},
                      points : SUBSET Points]
  PROVE  Fine(s, UploadGps(s, req).state)
<1> DEFINE t == UploadGps(s, req).state
<1>1. CASE t = s
  BY <1>1, SameIsFine
<1>2. CASE t # s
  <2>1. /\ req.tripId = NoTrip \/ req.tripId \in Ids(s)
        /\ t = [s EXCEPT !.gps = [p \in DOMAIN s.gps \cup req.points |->
                                    IF p \in DOMAIN s.gps THEN s.gps[p]
                                    ELSE req.tripId]]
    BY <1>2 DEF UploadGps, Answer
  <2>2. /\ t = [trips |-> s.trips, gps |-> t.gps, lastId |-> s.lastId]
        /\ t.gps = [p \in DOMAIN s.gps \cup req.points |->
                      IF p \in DOMAIN s.gps THEN s.gps[p] ELSE req.tripId]
    BY <2>1 DEF Good
  <2> HIDE DEF t
  <2>3. GoodTrips(t)
    BY <2>2 DEF Good, GoodTrips, Ids, KeyTaken
  <2>4. GoodGps(t)
    BY <2>1, <2>2 DEF Good, GoodGps, Ids
  <2>5. Good(t)
    BY <2>2, <2>3, <2>4 DEF Good
  <2> QED BY <2>2, <2>5 DEF Fine, PointsStay, AllSnapshotsStay, SnapshotsStay, Ids, t
<1> QED BY <1>1, <1>2

-----------------------------------------------------------------------------
(* The specification. *)

(* Every request leaves what is stored fine.                               *)
LEMMA ServedFine ==
  ASSUME NEW s, Good(s), NEW req \in Requests
  PROVE  Fine(s, Served(s, req).state)
<1>1. CASE req \in CreateRequests
  <2>1. Served(s, req) = CreateTrip(s, req)
    BY <1>1 DEF Served, CreateRequests
  <2> QED BY <1>1, <2>1, CreateTripFine
<1>2. CASE req \in [type : {"updateTrip"}, tripId : TripIds, body : TripBodies]
  <2>1. Served(s, req) = UpdateTrip(s, req)
    BY <1>2 DEF Served
  <2> QED BY <1>2, <2>1, UpdateTripFine
<1>3. CASE req \in [type : {"deleteTrip"}, tripId : TripIds]
  <2>1. Served(s, req) = DeleteTrip(s, req)
    BY <1>3 DEF Served
  <2> QED BY <2>1, DeleteTripFine
<1>4. CASE req \in AttemptRequests /\ req.type = "upsertAttempt"
  <2>1. Served(s, req) = UpsertAttempt(s, req)
    BY <1>4 DEF Served
  <2> QED BY <1>4, <2>1, UpsertAttemptFine
<1>5. CASE req \in AttemptRequests /\ req.type = "updateAttempt"
  <2>1. Served(s, req) = UpdateAttempt(s, req)
    BY <1>5 DEF Served
  <2> QED BY <1>5, <2>1, UpdateAttemptFine
<1>6. CASE req \in [type : {"uploadGps"}, tripId : TripIds \cup {NoTrip},
                    points : SUBSET Points]
  <2>1. Served(s, req) = UploadGps(s, req)
    BY <1>6 DEF Served
  <2> QED BY <1>6, <2>1, UploadGpsFine
<1>7. req \in AttemptRequests => req.type \in {"upsertAttempt", "updateAttempt"}
  BY DEF AttemptRequests
<1> QED BY <1>1, <1>2, <1>3, <1>4, <1>5, <1>6, <1>7 DEF Requests

(* The invariant, and what a step leaves alone.                            *)
LEMMA InitialServer == Init => Good(server)
BY DEF Init, NewServer, Good, GoodTrips, GoodGps, Ids

LEMMA Steps ==
  ASSUME Good(server), [Next]_server
  PROVE  Fine(server, server')
<1>1. CASE Next
  <2>1. PICK req \in Requests : Serve(req)
    BY <1>1 DEF Next
  <2> QED BY <2>1, ServedFine DEF Serve
<1>2. CASE UNCHANGED server
  BY <1>2, SameIsFine
<1> QED BY <1>1, <1>2

LEMMA AlwaysGood == Spec => []Good(server)
<1>1. ASSUME Good(server), [Next]_server PROVE Good(server)'
  BY <1>1, Steps DEF Fine
<1> QED BY <1>1, InitialServer, PTL DEF Spec

(* The rows have their types, and every stored point refers to a trip that *)
(* is there or to none: no deletion leaves one behind.                     *)
THEOREM TypeCorrect == Spec => [](TypeOK /\ PointsHaveTrips)
<1>1. Good(server) => TypeOK /\ PointsHaveTrips
  <2> SUFFICES ASSUME Good(server) PROVE TypeOK /\ PointsHaveTrips
    OBVIOUS
  <2>1. Ids(server) \subseteq Nat
    BY DEF Good, GoodTrips
  <2>2. TypeOK
    BY <2>1 DEF Good, GoodTrips, GoodGps, GoodTrip, TypeOK
  <2>3. PointsHaveTrips
    BY DEF Good, GoodGps, PointsHaveTrips
  <2> QED BY <2>2, <2>3
<1> QED BY <1>1, AlwaysGood, PTL

(* The times of a stored trip never contradict one another, for any number *)
(* of clients, trips, legs and attempts, whoever writes last.              *)
THEOREM TimesStayConsistent == Spec => []TimesConsistent
<1>1. Good(server) => TimesConsistent
  BY DEF Good, GoodTrips, GoodTrip, TimesAgree, TimesConsistent
<1> QED BY <1>1, AlwaysGood, PTL

(* The attempts of a leg are numbered from 1 without a gap, with any       *)
(* number of them.                                                         *)
THEOREM SeqsStayContiguous == Spec => []SeqsContiguous
<1>1. Good(server) => SeqsContiguous
  BY DEF Good, GoodTrips, GoodTrip, Contiguous, SeqsContiguous
<1> QED BY <1>1, AlwaysGood, PTL

(* No two trips of a route have the same instant of leaving home, however  *)
(* trips are created again and corrected.                                  *)
THEOREM KeysStayUnique == Spec => []KeysUnique
<1>1. Good(server) => KeysUnique
  BY DEF Good, GoodTrips, KeyTaken, KeysUnique
<1> QED BY <1>1, AlwaysGood, PTL

(* For clients that leave the prediction to the server, a point stays with *)
(* its trip and goes with it, and a prediction stays once it is set.       *)
THEOREM StoredStaysPut ==
  ASSUME NoneSendsPrediction
  PROVE  Spec => StoredStays
<1>1. ASSUME Good(server), [Next]_server
      PROVE  [\A p \in DOMAIN server'.gps :
                /\ server'.gps[p] \in DOMAIN server'.trips \cup {NoTrip}
                /\ p \in DOMAIN server.gps => server'.gps[p] = server.gps[p]]_server
  BY <1>1, Steps DEF Fine, Good, GoodGps, PointsStay, Ids
<1>2. ASSUME Good(server), [Next]_server
      PROVE  [\A i \in Ids(server) \cap DOMAIN server'.trips :
                \A k \in DOMAIN server.trips[i].attempts :
                  LET old == server.trips[i].attempts[k].vehicleScheduledOrPredictedAt
                  IN  old # Nil =>
                        server'.trips[i].attempts[k].vehicleScheduledOrPredictedAt = old
             ]_server
  BY <1>2, Steps DEF Fine, AllSnapshotsStay, SnapshotsStay, Ids
<1> QED BY <1>1, <1>2, AlwaysGood, PTL DEF Spec, StoredStays, GpsFollowsTrip, SnapshotKept

-----------------------------------------------------------------------------
(* Requests sent again. *)

(* Writing a trip where it is already changes nothing.                     *)
LEMMA WrittenTwice ==
  ASSUME NEW s, Good(s), NEW id, NEW trip
  PROVE  /\ Ids(WithTrip(s, id, trip)) = Ids(s) \cup {id}
         /\ \A i \in Ids(s) \cup {id} :
              WithTrip(s, id, trip).trips[i] = IF i = id THEN trip ELSE s.trips[i]
         /\ WithTrip(WithTrip(s, id, trip), id, trip) = WithTrip(s, id, trip)
<1> DEFINE w == WithTrip(s, id, trip)
           trips == [i \in Ids(s) \cup {id} |-> IF i = id THEN trip ELSE s.trips[i]]
<1>1. w = [trips |-> trips, gps |-> s.gps, lastId |-> s.lastId]
  BY DEF Good, WithTrip
<1>2. /\ DOMAIN trips = Ids(s) \cup {id}
      /\ \A i \in Ids(s) \cup {id} : trips[i] = IF i = id THEN trip ELSE s.trips[i]
  OBVIOUS
<1>3. trips = [i \in Ids(s) \cup {id} |-> IF i = id THEN trip ELSE trips[i]]
  OBVIOUS
<1> HIDE DEF w, trips
<1>4. Ids(w) = Ids(s) \cup {id} /\ w.trips = trips
  BY <1>1, <1>2 DEF Ids
<1>5. WithTrip(w, id, trip) = [w EXCEPT !.trips = [i \in Ids(s) \cup {id} |->
                                 IF i = id THEN trip ELSE trips[i]]]
  BY <1>4 DEF WithTrip
<1>6. WithTrip(w, id, trip) = w
  BY <1>1, <1>3, <1>5
<1> QED BY <1>2, <1>4, <1>6 DEF w

(* create: the trip made the first time is found.                          *)
LEMMA CreateTripAgainSame ==
  ASSUME NEW s, Good(s), NEW req \in CreateRequests, req.leftHomeAt # Nil
  PROVE  CreateTrip(CreateTrip(s, req).state, req) = CreateTrip(s, req)
<1> DEFINE id == s.lastId + 1
           w == WithTrip(s, id, NewTrip(req))
           t == [w EXCEPT !.lastId = id]
<1>1. CASE req.route \notin Routes \/ SameKey(s, req) # {}
  <2>1. CreateTrip(s, req).state = s
    BY <1>1 DEF CreateTrip, Answer
  <2> QED BY <2>1
<1>2. CASE req.route \in Routes /\ SameKey(s, req) = {}
  <2>1. CreateTrip(s, req) = Answer(t, TripCreated(id))
    BY <1>2 DEF CreateTrip
  <2>2. /\ NewTrip(req).route = req.route
        /\ NewTrip(req).tripDate = req.tripDate
        /\ NewTrip(req).fields.leftHomeAt = req.leftHomeAt
    BY DEF NewTrip, TripFields
  <2>3. /\ Ids(w) = Ids(s) \cup {id}
        /\ \A i \in Ids(s) \cup {id} :
             w.trips[i] = IF i = id THEN NewTrip(req) ELSE s.trips[i]
    BY WrittenTwice
  <2>4. t.trips = w.trips /\ Ids(t) = Ids(w)
    BY DEF Good, WithTrip, Ids
  <2> HIDE DEF w, t
  <2>5. HasKey(NewTrip(req), req.route, req.leftHomeAt)
    BY <2>2 DEF HasKey
  <2>6. SameKey(t, req) = {id}
    BY <1>2, <2>3, <2>4, <2>5 DEF SameKey
  <2>7. (CHOOSE i \in SameKey(t, req) : TRUE) = id
    BY <2>6
  <2>8. t.trips[id].tripDate = req.tripDate
    BY <2>2, <2>3, <2>4
  <2>9. CreateTrip(t, req) = Answer(t, TripCreated(id))
    BY <1>2, <2>6, <2>7, <2>8 DEF CreateTrip
  <2> QED BY <2>1, <2>9 DEF Answer
<1> QED BY <1>1, <1>2

(* A field set twice to the same value is set.                             *)
LEMMA OverlayTwice ==
  ASSUME NEW old, NEW body
  PROVE  Overlay(Overlay(old, body), body) = Overlay(old, body)
BY DEF Overlay

(* update                                                                  *)
LEMMA UpdateTripAgainSame ==
  ASSUME NEW s, Good(s), NEW req
  PROVE  UpdateTrip(UpdateTrip(s, req).state, req) = UpdateTrip(s, req)
<1> DEFINE id == req.tripId
           old == s.trips[id]
           new == [old EXCEPT !.fields = Overlay(@, req.body)]
           t == WithTrip(s, id, new)
<1>1. CASE UpdateTrip(s, req).state = s
  BY <1>1
<1>2. CASE UpdateTrip(s, req).state # s
  <2>1. /\ id \in Ids(s)
        /\ UpdateTrip(s, req) = Answer(t, Delivered)
        /\ TripOrdered(new)
        /\ ~ \E i \in Ids(s) \ {id} :
               /\ new.fields.leftHomeAt # Nil
               /\ HasKey(s.trips[i], new.route, new.fields.leftHomeAt)
    BY <1>2 DEF UpdateTrip, Answer
  <2>2. old = [route |-> old.route, tripDate |-> old.tripDate,
               fields |-> old.fields, attempts |-> old.attempts]
    BY <2>1 DEF Good, GoodTrips, GoodTrip, IsTrip
  <2>3. [new EXCEPT !.fields = Overlay(@, req.body)] = new
    <3>1. new = [route |-> old.route, tripDate |-> old.tripDate,
                 fields |-> Overlay(old.fields, req.body), attempts |-> old.attempts]
      BY <2>2
    <3> HIDE DEF old, new
    <3>2. [new EXCEPT !.fields = Overlay(@, req.body)]
            = [route |-> old.route, tripDate |-> old.tripDate,
               fields |-> Overlay(new.fields, req.body), attempts |-> old.attempts]
      BY <3>1
    <3> QED BY <3>1, <3>2, OverlayTwice
  <2> HIDE DEF new
  <2>4. /\ Ids(t) = Ids(s)
        /\ t.trips[id] = new
        /\ \A i \in Ids(s) \ {id} : t.trips[i] = s.trips[i]
        /\ WithTrip(t, id, new) = t
    BY <2>1, WrittenTwice
  <2> HIDE DEF t
  <2>5. UpdateTrip(t, req) = Answer(t, Delivered)
    BY <2>1, <2>3, <2>4 DEF UpdateTrip
  <2> QED BY <2>1, <2>5 DEF Answer
<1> QED BY <1>1, <1>2

(* delete: the trip is gone the second time.                               *)
LEMMA DeleteTripAgain ==
  ASSUME NEW s, Good(s), NEW req
  PROVE  DeleteTrip(DeleteTrip(s, req).state, req)
           = Answer(DeleteTrip(s, req).state, NotFound)
<1>1. CASE req.tripId \notin Ids(s)
  BY <1>1 DEF DeleteTrip, Answer
<1>2. CASE req.tripId \in Ids(s)
  <2> DEFINE t == DeleteTrip(s, req).state
  <2>1. t.trips = [i \in Ids(s) \ {req.tripId} |-> s.trips[i]]
    BY <1>2 DEF DeleteTrip, Answer, Good
  <2>2. req.tripId \notin Ids(t)
    BY <2>1 DEF Ids
  <2> QED BY <2>2 DEF DeleteTrip
<1> QED BY <1>1, <1>2

(* The points of a batch that are stored are left alone.                   *)
LEMMA UploadGpsAgainSame ==
  ASSUME NEW s, Good(s), NEW req
  PROVE  UploadGps(UploadGps(s, req).state, req) = UploadGps(s, req)
<1>1. CASE req.tripId # NoTrip /\ req.tripId \notin Ids(s)
  BY <1>1 DEF UploadGps, Answer
<1>2. CASE ~(req.tripId # NoTrip /\ req.tripId \notin Ids(s))
  <2> DEFINE gps == [p \in DOMAIN s.gps \cup req.points |->
                       IF p \in DOMAIN s.gps THEN s.gps[p] ELSE req.tripId]
             t == [trips |-> s.trips, gps |-> gps, lastId |-> s.lastId]
  <2>1. UploadGps(s, req) = Answer(t, Delivered)
    BY <1>2 DEF UploadGps, Good
  <2>2. /\ DOMAIN gps = DOMAIN s.gps \cup req.points
        /\ gps = [p \in DOMAIN gps |-> gps[p]]
    OBVIOUS
  <2> HIDE DEF gps
  <2>3. gps = [p \in DOMAIN t.gps \cup req.points |->
                 IF p \in DOMAIN t.gps THEN t.gps[p] ELSE req.tripId]
    BY <2>2
  <2>4. Ids(t) = Ids(s)
    BY DEF Ids
  <2>5. t = [t EXCEPT !.gps = gps]
    OBVIOUS
  <2> HIDE DEF t
  <2>6. UploadGps(t, req) = Answer(t, Delivered)
    BY <1>2, <2>3, <2>4, <2>5 DEF UploadGps
  <2> QED BY <2>1, <2>6 DEF Answer
<1> QED BY <1>1, <1>2

(* Predictions that were filled in are not filled in again: the instants   *)
(* they follow from are the same.                                          *)
LEMMA FilledTwice ==
  ASSUME NEW attempts, attempts \in [DOMAIN attempts -> AttemptBodies], NEW S
  PROVE  FillPredictedSnapshots(FillPredictedSnapshots(attempts, S), S)
           = FillPredictedSnapshots(attempts, S)
<1> DEFINE filled == FillPredictedSnapshots(attempts, S)
           again == FillPredictedSnapshots(filled, S)
<1>1. /\ DOMAIN filled = DOMAIN attempts
      /\ filled \in [DOMAIN attempts -> AttemptBodies]
      /\ \A k \in DOMAIN attempts :
           \A f \in AttemptFields \ {"vehicleScheduledOrPredictedAt"} :
             filled[k][f] = attempts[k][f]
  BY FillKeeps
<1>2. ASSUME NEW k \in DOMAIN attempts PROVE Reference(filled, k) = Reference(attempts, k)
  BY <1>1 DEF Reference, AttemptFields
<1>3. ASSUME NEW k \in DOMAIN attempts PROVE again[k] = filled[k]
  <2>1. CASE /\ k \in S
             /\ filled[k].vehicleScheduledOrPredictedAt = Nil
             /\ Reference(filled, k) # Nil
    <3>1. attempts[k].vehicleScheduledOrPredictedAt = Nil
      BY <2>1, FillKeeps
    <3>2. filled[k] = [attempts[k] EXCEPT !.vehicleScheduledOrPredictedAt =
                                            NextVehicle[Reference(attempts, k)]]
      BY <2>1, <3>1, <1>2 DEF FillPredictedSnapshots
    <3>3. /\ attempts[k] \in AttemptBodies
          /\ filled[k] \in AttemptBodies
      BY <1>1
    <3>4. NextVehicle[Reference(attempts, k)] = Nil
      BY <2>1, <3>2, <3>3 DEF AttemptBodies, AttemptFields
    <3>5. again[k] = [filled[k] EXCEPT !.vehicleScheduledOrPredictedAt =
                                         NextVehicle[Reference(filled, k)]]
      BY <2>1, <1>1 DEF FillPredictedSnapshots
    <3> HIDE DEF filled, again
    <3>6. again[k] = [filled[k] EXCEPT !.vehicleScheduledOrPredictedAt = Nil]
      BY <3>4, <3>5, <1>2
    <3> QED BY <2>1, <3>3, <3>6 DEF AttemptBodies
  <2>2. CASE ~(/\ k \in S
               /\ filled[k].vehicleScheduledOrPredictedAt = Nil
               /\ Reference(filled, k) # Nil)
    <3>1. again = [j \in DOMAIN filled |-> again[j]]
      BY DEF FillPredictedSnapshots
    <3> HIDE DEF filled
    <3> QED BY <2>2, <1>1 DEF FillPredictedSnapshots
  <2> QED BY <2>1, <2>2
<1>4. again = [k \in DOMAIN filled |-> again[k]]
  BY DEF FillPredictedSnapshots
<1>5. filled = [k \in DOMAIN filled |-> filled[k]]
  BY DEF FillPredictedSnapshots
<1> HIDE DEF again, filled
<1>6. again = filled
  BY <1>1, <1>3, <1>4, <1>5
<1> QED BY <1>6 DEF again, filled

(* A change of an attempt that was accepted is accepted again, of the      *)
(* attempt as it is stored then.                                           *)
LEMMA ApplyChangesAgain ==
  ASSUME NEW s, Good(s), NEW id \in Ids(s), NEW k \in Legs \X Seqs,
         NEW attempt \in AttemptBodies, NEW body \in SentBodies,
         ApplyChanges(s, id, k, attempt, body).state # s
  PROVE  LET first == ApplyChanges(s, id, k, attempt, body)
             t == first.state
         IN  /\ id \in Ids(t)
             /\ k \in DOMAIN t.trips[id].attempts
             /\ ApplyChanges(t, id, k, t.trips[id].attempts[k], body) = first
<1> DEFINE trip == s.trips[id]
           changed == Overlay(attempt, body)
           attempts == [j \in DOMAIN trip.attempts \cup {k} |->
                          IF j = k THEN changed ELSE trip.attempts[j]]
           S == {k, <<k[1], k[2] + 1>>}
           filled == FillPredictedSnapshots(attempts, S)
           new == [trip EXCEPT !.attempts = filled]
           t == WithTrip(s, id, new)
<1>1. /\ ApplyChanges(s, id, k, attempt, body) = Answer(t, Delivered)
      /\ RideOrdered(changed)
      /\ WithinTrip(trip, changed)
      /\ AfterEarlierAttempts(attempts, k[1])
  BY DEF ApplyChanges, Answer
<1>2. /\ GoodTrip(trip)
      /\ trip.attempts \in [DOMAIN trip.attempts -> AttemptBodies]
      /\ trip = [route |-> trip.route, tripDate |-> trip.tripDate,
                 fields |-> trip.fields, attempts |-> trip.attempts]
  BY DEF Good, GoodTrips, GoodTrip, IsTrip
<1>3. body \in AttemptBodies
  BY TripServerAssumption DEF AttemptBodies, AttemptFields
<1>4. changed \in AttemptBodies
  BY <1>3, OverlayType
<1>5. changed = [f \in AttemptFields |-> IF body[f] # Nil THEN body[f] ELSE attempt[f]]
  BY DEF Overlay, AttemptBodies
<1> HIDE DEF trip, changed
<1>6. attempts[k] = changed /\ k \in DOMAIN attempts
  OBVIOUS
<1>7. attempts \in [DOMAIN attempts -> AttemptBodies]
  BY <1>2, <1>4
<1> HIDE DEF attempts, S
<1>8. /\ DOMAIN filled = DOMAIN attempts
      /\ filled \in [DOMAIN attempts -> AttemptBodies]
      /\ \A j \in DOMAIN attempts :
           /\ \A f \in AttemptFields \ {"vehicleScheduledOrPredictedAt"} :
                filled[j][f] = attempts[j][f]
           /\ attempts[j].vehicleScheduledOrPredictedAt # Nil => filled[j] = attempts[j]
  BY <1>7, FillKeeps
<1>9. FillPredictedSnapshots(filled, S) = filled
  BY <1>7, FilledTwice
<1> HIDE DEF filled
<1>10. Overlay(filled[k], body) = filled[k]
  <2>1. filled[k] \in AttemptBodies
    BY <1>6, <1>8
  <2>2. \A f \in AttemptFields : body[f] # Nil => changed[f] = body[f]
    BY <1>5
  <2>3. ASSUME NEW f \in AttemptFields, body[f] # Nil PROVE filled[k][f] = body[f]
    <3>1. CASE f = "vehicleScheduledOrPredictedAt"
      BY <1>6, <1>8, <2>2, <2>3, <3>1
    <3>2. CASE f # "vehicleScheduledOrPredictedAt"
      BY <1>6, <1>8, <2>2, <2>3, <3>2
    <3> QED BY <3>1, <3>2
  <2> QED BY <2>1, <2>3 DEF Overlay, AttemptBodies
<1>11. /\ RideOrdered(filled[k])
       /\ WithinTrip(new, filled[k])
       /\ AfterEarlierAttempts(filled, k[1])
  <2>1. new.fields = trip.fields
    BY <1>2
  <2>2. RideOrdered(filled[k]) /\ WithinTrip(trip, filled[k])
    BY <1>1, <1>6, <1>8, RulesIgnorePredictions
  <2>3. WithinTrip(new, filled[k])
    BY <2>1, <2>2 DEF WithinTrip
  <2>4. \A j \in DOMAIN attempts :
          filled[j].vehicleActualDepartureAt = attempts[j].vehicleActualDepartureAt
    BY <1>8 DEF AttemptFields
  <2>5. AfterEarlierAttempts(filled, k[1])
    BY <1>1, <1>8, <2>4 DEF AfterEarlierAttempts
  <2> QED BY <2>2, <2>3, <2>5
<1>12. new.attempts = filled /\ [new EXCEPT !.attempts = filled] = new
  BY <1>2
<1> HIDE DEF new
<1>13. /\ id \in Ids(t)
       /\ t.trips[id] = new
       /\ WithTrip(t, id, new) = t
  BY WrittenTwice
<1> HIDE DEF t
<1>14. [j \in DOMAIN filled \cup {k} |-> IF j = k THEN filled[k] ELSE filled[j]] = filled
  BY <1>6, <1>8
<1>15. ApplyChanges(t, id, k, filled[k], body) = Answer(t, Delivered)
  BY <1>9, <1>10, <1>11, <1>12, <1>13, <1>14 DEF ApplyChanges, S
<1> QED BY <1>1, <1>6, <1>8, <1>12, <1>13, <1>15 DEF Answer

(* upsertBoardingAttempt and updateBoardingAttempt: the second time the    *)
(* attempt is there.                                                       *)
LEMMA AttemptAgainSame ==
  ASSUME NEW s, Good(s), NEW req \in AttemptRequests
  PROVE  /\ UpsertAttempt(UpsertAttempt(s, req).state, req) = UpsertAttempt(s, req)
         /\ UpdateAttempt(UpdateAttempt(s, req).state, req) = UpdateAttempt(s, req)
<1> DEFINE id == req.tripId
           k == req.attempt
           up(attempt) == ApplyChanges(s, id, k, attempt, req.body)
<1>1. k \in Legs \X Seqs /\ req.body \in SentBodies
  BY AttemptRequestType
<1>2. BlankAttempt \in AttemptBodies
  BY DEF BlankAttempt, AttemptBodies
<1>3. ASSUME id \in Ids(s), k \in DOMAIN s.trips[id].attempts
      PROVE  s.trips[id].attempts[k] \in AttemptBodies
  BY <1>3, StoredAttempt
<1>4. UpsertAttempt(UpsertAttempt(s, req).state, req) = UpsertAttempt(s, req)
  <2> DEFINE t == UpsertAttempt(s, req).state
  <2>1. CASE t = s
    BY <2>1
  <2>2. CASE t # s
    <3>1. PICK attempt \in AttemptBodies :
            id \in Ids(s) /\ UpsertAttempt(s, req) = up(attempt)
      BY <2>2, <1>2, <1>3 DEF UpsertAttempt, Answer
    <3>2. /\ id \in Ids(t)
          /\ k \in DOMAIN t.trips[id].attempts
          /\ ApplyChanges(t, id, k, t.trips[id].attempts[k], req.body)
               = UpsertAttempt(s, req)
      BY <2>2, <3>1, <1>1, ApplyChangesAgain
    <3> HIDE DEF t
    <3> QED BY <3>2 DEF UpsertAttempt, t
  <2> QED BY <2>1, <2>2
<1>5. UpdateAttempt(UpdateAttempt(s, req).state, req) = UpdateAttempt(s, req)
  <2> DEFINE t == UpdateAttempt(s, req).state
  <2>1. CASE t = s
    BY <2>1
  <2>2. CASE t # s
    <3>1. PICK attempt \in AttemptBodies :
            id \in Ids(s) /\ UpdateAttempt(s, req) = up(attempt)
      BY <2>2, <1>3 DEF UpdateAttempt, Answer
    <3>2. /\ id \in Ids(t)
          /\ k \in DOMAIN t.trips[id].attempts
          /\ ApplyChanges(t, id, k, t.trips[id].attempts[k], req.body)
               = UpdateAttempt(s, req)
      BY <2>2, <3>1, <1>1, ApplyChangesAgain
    <3> HIDE DEF t
    <3> QED BY <3>2 DEF UpdateAttempt, t
  <2> QED BY <2>1, <2>2
<1> QED BY <1>4, <1>5

(* Any request of any client can be sent again, to a server any history of *)
(* requests has brought about: the second time changes nothing and gives   *)
(* the same answer, except that a deleted trip is not found.               *)
THEOREM ResendChangesNothing == Spec => []ResendIsHarmless
<1>1. ASSUME Good(server), NEW req \in Requests,
             req.type = "createTrip" => req.leftHomeAt # Nil
      PROVE  LET first == Served(server, req)
                 again == Served(first.state, req)
             IN  /\ again.state = first.state
                 /\ \/ again.outcome = first.outcome
                    \/ req.type = "deleteTrip" /\ again.outcome = NotFound
  <2>1. CASE req \in CreateRequests
    <3>1. req.type = "createTrip"
      BY <2>1 DEF CreateRequests
    <3>2. \A s : Served(s, req) = CreateTrip(s, req)
      BY <3>1 DEF Served
    <3> QED BY <1>1, <2>1, <3>1, <3>2, CreateTripAgainSame
  <2>2. CASE req \in [type : {"updateTrip"}, tripId : TripIds, body : TripBodies]
    <3>1. \A s : Served(s, req) = UpdateTrip(s, req)
      BY <2>2 DEF Served
    <3> QED BY <1>1, <3>1, UpdateTripAgainSame
  <2>3. CASE req \in [type : {"deleteTrip"}, tripId : TripIds]
    <3>1. req.type = "deleteTrip"
      BY <2>3
    <3>2. \A s : Served(s, req) = DeleteTrip(s, req)
      BY <3>1 DEF Served
    <3>3. DeleteTrip(DeleteTrip(server, req).state, req)
            = Answer(DeleteTrip(server, req).state, NotFound)
      BY <1>1, DeleteTripAgain
    <3>4. /\ DeleteTrip(DeleteTrip(server, req).state, req).state
               = DeleteTrip(server, req).state
          /\ DeleteTrip(DeleteTrip(server, req).state, req).outcome = NotFound
      BY <3>3 DEF Answer
    <3> QED BY <3>1, <3>2, <3>4
  <2>4. CASE req \in AttemptRequests /\ req.type = "upsertAttempt"
    <3>1. \A s : Served(s, req) = UpsertAttempt(s, req)
      BY <2>4 DEF Served
    <3> QED BY <1>1, <2>4, <3>1, AttemptAgainSame
  <2>5. CASE req \in AttemptRequests /\ req.type = "updateAttempt"
    <3>1. \A s : Served(s, req) = UpdateAttempt(s, req)
      BY <2>5 DEF Served
    <3> QED BY <1>1, <2>5, <3>1, AttemptAgainSame
  <2>6. CASE req \in [type : {"uploadGps"}, tripId : TripIds \cup {NoTrip},
                      points : SUBSET Points]
    <3>1. \A s : Served(s, req) = UploadGps(s, req)
      BY <2>6 DEF Served
    <3> QED BY <1>1, <3>1, UploadGpsAgainSame
  <2>7. req \in AttemptRequests => req.type \in {"upsertAttempt", "updateAttempt"}
    BY DEF AttemptRequests
  <2> QED BY <2>1, <2>2, <2>3, <2>4, <2>5, <2>6, <2>7 DEF Requests
<1>2. Good(server) => ResendIsHarmless
  BY <1>1 DEF ResendIsHarmless
<1> QED BY <1>2, AlwaysGood, PTL
=============================================================================
