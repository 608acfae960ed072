--------------------------- MODULE MCOutboxAlone ----------------------------
(* A small instance of OutboxAlone: one trip with every kind of command,   *)
(* and GPS outside a trip.                                                 *)
EXTENDS OutboxAlone

CONSTANTS k1

MCAttempts == {1, 2}

Arrived(v) == [f \in AttemptFields |-> IF f = "arrivedAtStopAt" THEN v ELSE Nil]
Left(v) == [f \in TripFields |-> IF f = "leftHomeAt" THEN v ELSE Nil]

MCAppCommands ==
  {[type |-> "createTrip", key |-> k1],
   [type |-> "updateTrip", key |-> k1, body |-> Left(1)],
   [type |-> "uploadGps", key |-> k1, points |-> <<1, 2>>],
   [type |-> "uploadGps", key |-> NoKey, points |-> << >>]}
    \cup [type : {"upsertAttempt"}, key : {k1}, attempt : {1},
          body : {Arrived(1), Arrived(2)}]
=============================================================================
