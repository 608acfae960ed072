--------------------------- MODULE MCOutboxSystem ---------------------------
(* Small instances of OutboxSystem: one route with one TRANSIT leg.        *)
EXTENDS OutboxSystem

CONSTANTS r1, leg1

MCKeys == Routes \X Times
MCAttempts == Legs \X {1, 2}

(* The first vehicle is awaited and missed, the second taken and left.     *)
MCScript ==
  <<<<<<leg1, 1>>, "arrivedAtStopAt">>,
    <<<<leg1, 1>>, "vehicleActualDepartureAt">>,
    <<<<leg1, 2>>, "vehicleActualDepartureAt">>,
    <<<<leg1, 2>>, "alightedAt">>>>

(* What the proof about NoneTurnedDown asks of a script.                   *)
ASSUME MCScriptInTurn == ScriptInTurn

MCRouteOf == [l \in Legs |-> r1]
MCNextVehicle == [t \in Times |-> IF t + 1 \in Times THEN t + 1 ELSE Nil]

(* A server that refuses the token, one that refuses requests or speaks a  *)
(* newer contract.                                                         *)
MCTokenRefused == {Unauthorized}
MCRejections == {Refused, Unreadable}
MCUnreadable == {Unreadable}
=============================================================================
