------------------------------ MODULE Outcomes ------------------------------
(***************************************************************************)
(* What a request to the server comes to, grouped the way the phone's      *)
(* RetryPolicy.decide tells the answers apart (Outbox.swift:102-122).      *)
(***************************************************************************)

TripCreated(id) == [type |-> "tripCreated", tripId |-> id]
Delivered    == [type |-> "delivered"]
Transient    == [type |-> "transient"]     \* transport, 408, 425, 429, 5xx
Unauthorized == [type |-> "unauthorized"]  \* 401, 403
NotFound     == [type |-> "notFound"]      \* 404
Unreadable   == [type |-> "unreadable"]    \* 2xx whose body is not decoded
Refused      == [type |-> "refused"]       \* any other status, invalidRequest

Failures == {Transient, Unauthorized, NotFound, Unreadable, Refused}
=============================================================================
