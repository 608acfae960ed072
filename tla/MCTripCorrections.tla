-------------------------- MODULE MCTripCorrections --------------------------
(* A trip in progress: one vehicle was missed and one caught on the first  *)
(* leg, and the phone has yet to send the getting off, the second leg and  *)
(* the arrival.                                                            *)
EXTENDS TripCorrections

CONSTANTS r1, leg1, leg2, walk

MCRouteOf == [l \in Legs |-> r1]
MCNextVehicle == [t \in Times |-> Nil]

Ride(departs, alights, result) ==
  [S!BlankAttempt EXCEPT !.arrivedAtStopAt = 3, !.vehicleActualDepartureAt = departs,
                         !.alightedAt = alights, !.result = result]

MCTrip ==
  [route |-> r1, tripDate |-> 1,
   fields |-> [leftHomeAt |-> 3, arrivedDestinationAt |-> Nil],
   attempts |-> <<leg1, 1>> :> Ride(3, Nil, "MISSED")
                @@ <<leg1, 2>> :> Ride(4, 4, "CAUGHT")]
MCStoredTrips == {MCTrip}

MCRouteVersions ==
  {NotLoaded,
   <<[id |-> walk, type |-> "WALK"], [id |-> leg1, type |-> "TRANSIT"]>>,
   <<[id |-> walk, type |-> "WALK"], [id |-> leg2, type |-> "TRANSIT"],
     [id |-> leg1, type |-> "TRANSIT"]>>}

(* Seconds.                                                                *)
MCTypedTimes == {Blank, 0, 2}

MCPhoneRequests ==
  {[type |-> "upsertAttempt", tripId |-> 1, attempt |-> <<leg2, 1>>,
    body |-> Ride(Nil, Nil, "UNKNOWN")],
   [type |-> "updateTrip", tripId |-> 1,
    body |-> [leftHomeAt |-> Nil, arrivedDestinationAt |-> 7]],
   [type |-> "upsertAttempt", tripId |-> 1, attempt |-> <<leg1, 1>>,
    body |-> [S!BlankAttempt EXCEPT !.alightedAt = 5, !.result = "CAUGHT"]],
   [type |-> "deleteTrip", tripId |-> 1]}
=============================================================================
