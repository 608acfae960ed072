----------------------------- MODULE RouteLegs ------------------------------
(***************************************************************************)
(* The legs of one commute route on the server: RouteLegService, which     *)
(* replaces the whole list of legs, or the crossings of one walk.          *)
(*                                                                         *)
(* The legs are a sequence: the place of a leg is its seqOrder.  A row and *)
(* a request have the fields of both kinds of leg; those of the other kind *)
(* are None.                                                               *)
(***************************************************************************)
EXTENDS Integers, Sequences, FiniteSets, TLC

CONSTANTS
  None,       \* null
  Points,     \* places on the map
  OffMap,     \* those of them outside of WGS84
  Lines,      \* transit lines
  Stops,      \* transit stops
  ModeOf      \* the mode (BUS, SUBWAY, ...) of a line or a stop

ASSUME LegData ==
  /\ OffMap \subseteq Points
  /\ None \notin Points \cup Lines \cup Stops
  /\ Lines \cup Stops \subseteq DOMAIN ModeOf

Positive(amount) == amount # None => amount > 0

(* The annotations of RouteLegRequest and ReplaceRouteLegsRequest.         *)
WellFormed(reqs) ==
  /\ reqs # << >>
  /\ \A i \in DOMAIN reqs :
       /\ {reqs[i].start, reqs[i].end} \cap OffMap = {}
       /\ Positive(reqs[i].dist) /\ Positive(reqs[i].sec)

(* Walks at both ends, walks and rides in turns.                           *)
ValidSequence(reqs) ==
  /\ reqs[1].type = "WALK" /\ reqs[Len(reqs)].type = "WALK"
  /\ \A i \in 1 .. Len(reqs) - 1 : reqs[i].type # reqs[i + 1].type

WalkApplies(r) ==
  /\ None \notin {r.start, r.end}
  /\ {r.line, r.board, r.alight, r.sec} = {None}

TransitApplies(r) ==
  /\ None \notin {r.line, r.board, r.alight, r.sec}
  /\ {r.start, r.end, r.dist} = {None}
  /\ r.board # r.alight
  /\ {ModeOf[r.board], ModeOf[r.alight]} = {ModeOf[r.line]}

Ids(rows) == {rows[i].id : i \in DOMAIN rows} \ {None}

(* Every id that is sent is one of the route's legs, and is sent once.     *)
IdsKnown(rows, reqs) ==
  /\ Ids(reqs) \subseteq Ids(rows)
  /\ \A i, j \in DOMAIN reqs :
       reqs[i].id = reqs[j].id /\ reqs[i].id # None => i = j

(* The leg that request i edits in place: the one it names, or the one of  *)
(* its kind at its place that no other request names.                      *)
MatchExisting(rows, reqs) ==
  [i \in DOMAIN reqs |->
     IF reqs[i].id # None THEN reqs[i].id
     ELSE IF /\ i \in DOMAIN rows
             /\ rows[i].id \notin Ids(reqs)
             /\ rows[i].type = reqs[i].type
     THEN rows[i].id
     ELSE None]

Row(rows, id) == CHOOSE row \in {rows[i] : i \in DOMAIN rows} : row.id = id

Bad      == [status |-> "bad", legs |-> << >>]       \* 400
Conflict == [status |-> "conflict", legs |-> << >>]  \* 409
NotFound == [status |-> "notFound", legs |-> << >>]  \* 404
Ok(legs) == [status |-> "ok", legs |-> legs]

(* A leg that is kept keeps its crossings, and whatever was measured on    *)
(* its id; a new one gets the next ids.                                    *)
Applied(rows, reqs, nextId) ==
  LET matched == MatchExisting(rows, reqs)
      added(i) == Cardinality({j \in 1 .. i - 1 : matched[j] = None})
  IN [i \in DOMAIN reqs |->
        [reqs[i] EXCEPT
           !.id = IF matched[i] # None THEN matched[i] ELSE nextId + added(i)]
        @@ [crossings |-> IF matched[i] # None
                          THEN Row(rows, matched[i]).crossings
                          ELSE << >>]]

(* Faulty: a leg may go although trips were recorded on it.                *)
BrokenOnlyRetyped(rows, reqs) ==
  LET matched == MatchExisting(rows, reqs)
  IN {matched[i] : i \in {j \in DOMAIN reqs :
        matched[j] # None /\ Row(rows, matched[j]).type # reqs[j].type}}

(* The legs that go, and those that turn into the other kind.              *)
Broken(rows, reqs) ==
  LET matched == MatchExisting(rows, reqs)
  IN (Ids(rows) \ {matched[i] : i \in DOMAIN reqs})
     \cup {matched[i] : i \in {j \in DOMAIN reqs :
            matched[j] # None /\ Row(rows, matched[j]).type # reqs[j].type}}

ReplaceLegs(rows, reqs, measured, nextId) ==
  IF ~ (WellFormed(reqs) /\ ValidSequence(reqs) /\ IdsKnown(rows, reqs))
  THEN Bad
  ELSE IF Broken(rows, reqs) \cap measured # {} THEN Conflict
  ELSE IF \E i \in DOMAIN reqs :
            ~ IF reqs[i].type = "WALK" THEN WalkApplies(reqs[i])
                                       ELSE TransitApplies(reqs[i])
  THEN Bad
  ELSE Ok(Applied(rows, reqs, nextId))

ReplaceSignalCrossings(rows, legId, items) ==
  IF legId \notin Ids(rows) THEN NotFound
  ELSE IF Row(rows, legId).type # "WALK" THEN Bad
  ELSE Ok([i \in DOMAIN rows |->
             IF rows[i].id = legId THEN [rows[i] EXCEPT !.crossings = items]
                                   ELSE rows[i]])
=============================================================================
