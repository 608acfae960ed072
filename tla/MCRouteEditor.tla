--------------------------- MODULE MCRouteEditor ----------------------------
(* A small instance of RouteEditor: two stops of a bus and one of a train. *)
EXTENDS RouteEditor

CONSTANTS home, office, sea, s1, s2, u1, bus, train, nt, et

MCModeOf == s1 :> "BUS" @@ s2 :> "BUS" @@ u1 :> "SUBWAY"
            @@ bus :> "BUS" @@ train :> "SUBWAY"
MCStopAt == s1 :> home @@ s2 :> office @@ u1 :> home
MCDistance == [d \in Points \X Points |-> IF d[1] = d[2] THEN 1 ELSE 2]

Leg(id, type) == [Blank EXCEPT !.start = None] @@
  [id |-> id, type |-> type, crossings |-> << >>]
Walk(id, start, end, crossings) ==
  [Leg(id, "WALK") EXCEPT !.start = start, !.end = end, !.dist = 2,
                          !.crossings = crossings]
Ride(id) ==
  [Leg(id, "TRANSIT") EXCEPT !.line = bus, !.board = s1, !.alight = s2, !.sec = 5]

MCStoredLegs ==
  {<< >>,
   <<Walk(1, home, home, <<FirstCrossing>>), Ride(2), Walk(3, office, office, << >>)>>}
=============================================================================
