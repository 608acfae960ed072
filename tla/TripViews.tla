------------------------------ MODULE TripViews ------------------------------
(***************************************************************************)
(* A trip as the web client shows it: the timeline, the numbers and the    *)
(* ticket (desktop/src/trips/timeline.ts and ticket.ts).  A trip has the   *)
(* shape it has in TripServer; its attempts are found by (leg, attemptSeq).*)
(* The legs are those of the route as the page has them: a sequence of     *)
(* [id, type], or NotLoaded.                                               *)
(***************************************************************************)
EXTENDS Integers, SequencesExt

CONSTANT NotLoaded

LegsWithAttempts(trip) == {k[1] : k \in DOMAIN trip.attempts}
KnownLegs(legs) == IF legs = NotLoaded THEN << >> ELSE legs
TransitIds(legs) ==
  LET Ridden(l) == l.type = "TRANSIT"
      ids == SelectSeq(KnownLegs(legs), Ridden)
  IN  [i \in DOMAIN ids |-> ids[i].id]

BySeq(trip, leg) ==
  SetToSortSeq({k[2] : k \in {j \in DOMAIN trip.attempts : j[1] = leg}}, <)
HasResult(trip, leg, result) ==
  LET Is(n) == trip.attempts[<<leg, n>>].result = result
  IN  SelectSeq(BySeq(trip, leg), Is)

-----------------------------------------------------------------------------
(* The timeline                                                            *)

(* Legs of the route in order, then the ones that only the trip knows of.  *)
LegRefs(trip, legs) ==
  TransitIds(legs)
    \o SetToSeq(LegsWithAttempts(trip) \ ToSet(TransitIds(legs)))

Event(kind, leg, seq, at) == [kind |-> kind, leg |-> leg, seq |-> seq, at |-> at]

AttemptEvents(trip, leg, n) ==
  LET a == trip.attempts[<<leg, n>>]
      Left(kind) == Event(kind, leg, n, a.vehicleActualDepartureAt)
  IN  CASE a.result = "MISSED" -> <<Left("MISSED")>>
        [] a.result = "CAUGHT" ->
             <<Left("DEPARTED"), Event("ALIGHTED", leg, n, a.alightedAt)>>
        [] OTHER -> <<Left("UNKNOWN")>>

LegEvents(trip, leg) ==
  LET seqs == BySeq(trip, leg)
  IN  IF seqs = << >> THEN <<Event("NO_ATTEMPT", leg, 0, NotLoaded)>>
      ELSE <<Event("ARRIVED_STOP", leg, 0,
                   trip.attempts[<<leg, Head(seqs)>>].arrivedAtStopAt)>>
           \o FlattenSeq([i \in DOMAIN seqs |-> AttemptEvents(trip, leg, seqs[i])])

BuildTimeline(trip, legs) ==
  LET refs == LegRefs(trip, legs)
  IN  <<Event("LEFT_HOME", NotLoaded, 0, trip.fields.leftHomeAt)>>
      \o FlattenSeq([i \in DOMAIN refs |-> LegEvents(trip, refs[i])])
      \o <<Event("ARRIVED_DESTINATION", NotLoaded, 0,
                 trip.fields.arrivedDestinationAt)>>

-----------------------------------------------------------------------------
(* The numbers                                                             *)

SummarizeTrip(trip, legs) ==
  LET legIds == LegsWithAttempts(trip) \cup ToSet(TransitIds(legs))
      caught == {leg \in LegsWithAttempts(trip) :
                   HasResult(trip, leg, "CAUGHT") # << >>}
  IN  [caughtLegs |-> Cardinality(caught),
       transitLegs |-> Cardinality(legIds),
       allCaught |-> legIds # {} /\ caught = legIds,
       missed |-> Cardinality({k \in DOMAIN trip.attempts :
                                 trip.attempts[k].result = "MISSED"})]

-----------------------------------------------------------------------------
(* The ticket                                                              *)

TransitSegment(trip, leg) ==
  LET caught == HasResult(trip, leg, "CAUGHT")
  IN  [kind |-> "transit", leg |-> leg,
       departedAt |-> IF caught = << >> THEN NotLoaded
                      ELSE trip.attempts[<<leg, Head(caught)>>].vehicleActualDepartureAt,
       status |-> IF caught # << >> THEN "caught"
                  ELSE IF BySeq(trip, leg) # << >> THEN "unknown" ELSE "none",
       missed |-> HasResult(trip, leg, "MISSED")]

(* Faulty: a leg that the route does not have is left out.                 *)
FaultyTicketSegments(trip, legs) ==
  LET known == KnownLegs(legs)
  IN  [i \in DOMAIN known |->
         IF known[i].type = "WALK" THEN [kind |-> "walk", leg |-> known[i].id]
         ELSE TransitSegment(trip, known[i].id)]

TicketSegments(trip, legs) ==
  LET known == KnownLegs(legs)
      own == SetToSeq(LegsWithAttempts(trip) \ {known[i].id : i \in DOMAIN known})
  IN  [i \in DOMAIN known |->
         IF known[i].type = "WALK" THEN [kind |-> "walk", leg |-> known[i].id]
         ELSE TransitSegment(trip, known[i].id)]
      \o [i \in DOMAIN own |-> TransitSegment(trip, own[i])]
=============================================================================
