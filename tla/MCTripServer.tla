---------------------------- MODULE MCTripServer ----------------------------
(* Small instances of TripServer.                                          *)
EXTENDS TripServer

CONSTANTS r1, leg1

(* One field per request: combinations arise over several.                 *)
MCBodies ==
  {[BlankAttempt EXCEPT ![c[1]] = c[2]] :
     c \in {<<"vehicleActualDepartureAt", 1>>, <<"vehicleActualDepartureAt", 2>>,
            <<"alightedAt", 1>>}}

MCRouteOf == [l \in Legs |-> r1]

(* The last run of the day has no next vehicle.                            *)
MCNextVehicle == [t \in Times |-> IF t + 1 \in Times THEN t + 1 ELSE Nil]
=============================================================================
