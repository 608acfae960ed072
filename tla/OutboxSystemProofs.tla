------------------------- MODULE OutboxSystemProofs -------------------------
(***************************************************************************)
(* Proofs about OutboxSystem: phone, outbox, driver, network and server    *)
(* together, for any routes, legs, scripts and bounds.  In three parts:    *)
(* the driver (types, requests, timers), the queue (it never locks up),    *)
(* and the trips (which trip of the server a trip id of the phone means,   *)
(* through crashes, retries and requests that arrive late).                *)
(***************************************************************************)
EXTENDS OutboxSystem, OutboxLemmas

-----------------------------------------------------------------------------
(* Commands and the requests made of them. *)

(* The parts of a command, by its type.                                    *)
LEMMA CommandParts ==
  ASSUME NEW cmd \in Commands
  PROVE  /\ cmd.type \in {"createTrip", "deleteTrip", "updateTrip",
                          "upsertAttempt", "uploadGps"}
         /\ cmd.key \in Keys \cup {NoKey}
         /\ cmd.type # "uploadGps" => cmd.key \in Keys
         /\ cmd.type = "updateTrip" => cmd.body \in TripBodies
         /\ cmd.type = "upsertAttempt" =>
              cmd.attempt \in Attempts /\ cmd.body \in AttemptBodies
         /\ cmd.type = "uploadGps" => cmd.points \in Seq(Points)
BY DEF Commands

(* What can go out becomes a request of the same type.                     *)
LEMMA RequestType ==
  ASSUME NEW cmd \in Commands, IsState(box), Resolvable(box, cmd)
  PROVE  RequestOf(cmd) \in PhoneRequests /\ RequestOf(cmd).type = cmd.type
<1> DEFINE req == RequestOf(cmd)
<1>1. \A k \in DOMAIN box.tripIds : box.tripIds[k] \in Nat
  BY DEF IsState
<1>2. CASE cmd.type = "createTrip"
  <2>1. req = [type |-> "createTrip", route |-> cmd.key[1],
               leftHomeAt |-> cmd.key[2], tripDate |-> Today]
    BY <1>2 DEF RequestOf
  <2>2. cmd.key[1] \in Routes /\ cmd.key[2] \in Times
    BY <1>2, CommandParts, OutboxSystemAssumption
  <2> QED BY <1>2, <2>1, <2>2 DEF PhoneRequests
<1>3. CASE cmd.type = "updateTrip"
  <2>1. req = [type |-> "updateTrip", tripId |-> box.tripIds[cmd.key],
               body |-> cmd.body]
    BY <1>3 DEF RequestOf
  <2>2. box.tripIds[cmd.key] \in Nat /\ cmd.body \in TripBodies
    BY <1>1, <1>3, CommandParts DEF Resolvable
  <2> QED BY <1>3, <2>1, <2>2 DEF PhoneRequests
<1>4. CASE cmd.type = "upsertAttempt"
  <2>1. req = [type |-> "upsertAttempt", tripId |-> box.tripIds[cmd.key],
               attempt |-> cmd.attempt, body |-> cmd.body]
    BY <1>4 DEF RequestOf
  <2>2. /\ box.tripIds[cmd.key] \in Nat
        /\ cmd.attempt \in Attempts
        /\ cmd.body \in AttemptBodies
    BY <1>1, <1>4, CommandParts DEF Resolvable
  <2> QED BY <1>4, <2>1, <2>2 DEF PhoneRequests
<1>5. CASE cmd.type = "uploadGps"
  <2> DEFINE points == {cmd.points[i] : i \in DOMAIN cmd.points}
             id == IF cmd.key = NoKey THEN NoTrip ELSE box.tripIds[cmd.key]
  <2>1. req = [type |-> "uploadGps", tripId |-> id, points |-> points]
    BY <1>5 DEF RequestOf
  <2>2. id \in Nat \cup {NoTrip}
    BY <1>1, <1>5 DEF Resolvable
  <2>3. cmd.points \in Seq(Points)
    BY <1>5, CommandParts
  <2>4. \A i \in DOMAIN cmd.points : cmd.points[i] \in Points
    BY <2>3
  <2>5. points \in SUBSET Points
    BY <2>4
  <2> HIDE DEF points, id
  <2> QED BY <1>5, <2>1, <2>2, <2>5 DEF PhoneRequests
<1>6. CASE cmd.type = "deleteTrip"
  <2>1. req = [type |-> "deleteTrip", tripId |-> box.tripIds[cmd.key]]
    BY <1>6 DEF RequestOf
  <2>2. box.tripIds[cmd.key] \in Nat
    BY <1>1, <1>6 DEF Resolvable
  <2> QED BY <1>6, <2>1, <2>2 DEF PhoneRequests
<1> QED BY <1>2, <1>3, <1>4, <1>5, <1>6, CommandParts

-----------------------------------------------------------------------------
(* The server. *)

IsServer(s) ==
  /\ s = [trips |-> s.trips, gps |-> s.gps, lastId |-> s.lastId]
  /\ s.lastId \in Nat
  /\ S!Ids(s) \subseteq 1..s.lastId
  /\ s.trips = [i \in S!Ids(s) |-> s.trips[i]]
  /\ \A i \in S!Ids(s) : S!IsTrip(s.trips[i])
  /\ DOMAIN s.gps \subseteq Points
  /\ s.gps \in [DOMAIN s.gps -> Nat \cup {NoTrip}]

(* The outcomes the server is instantiated with are those of the phone.    *)
LEMMA SameOutcomes ==
  /\ S!Delivered = Delivered
  /\ S!NotFound = NotFound
  /\ S!Refused = Refused
  /\ \A id : S!TripCreated(id) = TripCreated(id)
BY DEF S!Delivered, S!NotFound, S!Refused, S!TripCreated, Delivered, NotFound,
       Refused, TripCreated

(* Writing a row leaves the others.                                        *)
LEMMA WriteParts ==
  ASSUME NEW s, IsServer(s), NEW id, NEW row
  PROVE  LET w == S!WithTrip(s, id, row) IN
         /\ w = [trips |-> w.trips, gps |-> s.gps, lastId |-> s.lastId]
         /\ S!Ids(w) = S!Ids(s) \cup {id}
         /\ w.trips = [i \in S!Ids(w) |-> w.trips[i]]
         /\ w.trips[id] = row
         /\ \A i \in S!Ids(s) \ {id} : w.trips[i] = s.trips[i]
<1> DEFINE w == S!WithTrip(s, id, row)
           trips == [i \in S!Ids(s) \cup {id} |-> IF i = id THEN row ELSE s.trips[i]]
<1>1. w = [trips |-> trips, gps |-> s.gps, lastId |-> s.lastId]
  BY DEF IsServer, S!WithTrip
<1>2. /\ DOMAIN trips = S!Ids(s) \cup {id}
      /\ trips[id] = row
      /\ \A i \in S!Ids(s) \ {id} : trips[i] = s.trips[i]
      /\ trips = [i \in DOMAIN trips |-> trips[i]]
  OBVIOUS
<1> HIDE DEF w, trips
<1> QED BY <1>1, <1>2 DEF w, S!Ids

(* create makes a row, unless there is one of that key.                    *)
LEMMA CreateParts ==
  ASSUME NEW s, IsServer(s), NEW req \in PhoneRequests, req.type = "createTrip"
  PROVE  LET t == S!Served(s, req).state
             outcome == S!Served(s, req).outcome
             id == s.lastId + 1
         IN  \/ /\ t = s
                /\ \E i \in S!SameKey(s, req) :
                     outcome = IF s.trips[i].tripDate = Today THEN TripCreated(i)
                               ELSE Refused
             \/ /\ S!SameKey(s, req) = {}
                /\ outcome = TripCreated(id)
                /\ t = [trips |-> t.trips, gps |-> s.gps, lastId |-> id]
                /\ S!Ids(t) = S!Ids(s) \cup {id}
                /\ t.trips = [i \in S!Ids(t) |-> t.trips[i]]
                /\ t.trips[id] = S!NewTrip(req)
                /\ \A i \in S!Ids(s) : i # id /\ t.trips[i] = s.trips[i]
<1>1. /\ req.route \in Routes
      /\ req.leftHomeAt \in Times
      /\ req.tripDate = Today
  BY DEF PhoneRequests
<1>2. S!Served(s, req) = S!CreateTrip(s, req)
  BY DEF S!Served
<1>3. CASE S!SameKey(s, req) # {}
  <2> DEFINE i == CHOOSE j \in S!SameKey(s, req) : TRUE
  <2>1. i \in S!SameKey(s, req)
    BY <1>3
  <2>2. S!CreateTrip(s, req) =
          IF s.trips[i].tripDate # req.tripDate THEN S!Answer(s, Refused)
          ELSE S!Answer(s, TripCreated(i))
    BY <1>1, <1>3, SameOutcomes DEF S!CreateTrip
  <2> HIDE DEF i
  <2> QED BY <1>1, <1>2, <2>1, <2>2 DEF S!Answer
<1>4. CASE S!SameKey(s, req) = {}
  <2> DEFINE id == s.lastId + 1
             w == S!WithTrip(s, id, S!NewTrip(req))
             t == [w EXCEPT !.lastId = id]
  <2>1. S!CreateTrip(s, req) = S!Answer(t, TripCreated(id))
    BY <1>1, <1>4, SameOutcomes DEF S!CreateTrip
  <2>2. \A i \in S!Ids(s) : i # id
    BY DEF IsServer
  <2>3. /\ w = [trips |-> w.trips, gps |-> s.gps, lastId |-> s.lastId]
        /\ S!Ids(w) = S!Ids(s) \cup {id}
        /\ w.trips = [i \in S!Ids(w) |-> w.trips[i]]
        /\ w.trips[id] = S!NewTrip(req)
        /\ \A i \in S!Ids(s) \ {id} : w.trips[i] = s.trips[i]
    BY WriteParts
  <2> HIDE DEF w
  <2>4. t = [trips |-> w.trips, gps |-> s.gps, lastId |-> id]
    BY <2>3
  <2> HIDE DEF t
  <2>5. t.trips = w.trips /\ S!Ids(t) = S!Ids(w)
    BY <2>4 DEF S!Ids
  <2>6. S!Served(s, req).state = t /\ S!Served(s, req).outcome = TripCreated(id)
    BY <1>2, <2>1 DEF S!Answer
  <2> QED BY <1>4, <2>2, <2>3, <2>4, <2>5, <2>6
<1> QED BY <1>3, <1>4

(* update sets fields of one row, or nothing.                              *)
LEMMA UpdateParts ==
  ASSUME NEW s, IsServer(s), NEW req \in PhoneRequests, req.type = "updateTrip"
  PROVE  LET t == S!Served(s, req).state
             outcome == S!Served(s, req).outcome
             id == req.tripId
             fields == S!Overlay(s.trips[id].fields, req.body)
             row == [s.trips[id] EXCEPT !.fields = fields]
         IN  \/ /\ id \notin S!Ids(s)
                /\ t = s
                /\ outcome = NotFound
             \/ /\ id \in S!Ids(s)
                /\ t = s
                /\ outcome = Refused
                /\ \/ ~S!TripOrdered(row)
                   \/ \E i \in S!Ids(s) \ {id} :
                        S!HasKey(s.trips[i], row.route, row.fields.leftHomeAt)
             \/ /\ id \in S!Ids(s)
                /\ outcome = Delivered
                /\ t = [trips |-> t.trips, gps |-> s.gps, lastId |-> s.lastId]
                /\ S!Ids(t) = S!Ids(s)
                /\ t.trips = [i \in S!Ids(t) |-> t.trips[i]]
                /\ t.trips[id] =
                     [route |-> s.trips[id].route, tripDate |-> s.trips[id].tripDate,
                      fields |-> fields, attempts |-> s.trips[id].attempts]
                /\ \A i \in S!Ids(s) \ {id} : t.trips[i] = s.trips[i]
<1> DEFINE id == req.tripId
           fields == S!Overlay(s.trips[id].fields, req.body)
           row == [s.trips[id] EXCEPT !.fields = fields]
           clash == \E i \in S!Ids(s) \ {id} :
                      /\ row.fields.leftHomeAt # Nil
                      /\ S!HasKey(s.trips[i], row.route, row.fields.leftHomeAt)
           w == S!WithTrip(s, id, row)
<1>1. S!Served(s, req) = S!UpdateTrip(s, req)
  BY DEF S!Served
<1>2. CASE id \notin S!Ids(s)
  BY <1>1, <1>2, SameOutcomes DEF S!UpdateTrip, S!Answer
<1>3. CASE id \in S!Ids(s)
  <2>1. S!UpdateTrip(s, req) =
          IF S!TripOrdered(row) /\ ~clash THEN S!Answer(w, Delivered)
          ELSE S!Answer(s, Refused)
    BY <1>3, SameOutcomes DEF S!UpdateTrip
  <2>2. s.trips[id] = [route |-> s.trips[id].route, tripDate |-> s.trips[id].tripDate,
                       fields |-> s.trips[id].fields,
                       attempts |-> s.trips[id].attempts]
    BY <1>3 DEF IsServer, S!IsTrip
  <2> HIDE DEF fields
  <2>3. row = [route |-> s.trips[id].route, tripDate |-> s.trips[id].tripDate,
               fields |-> fields, attempts |-> s.trips[id].attempts]
    BY <2>2
  <2> HIDE DEF row
  <2>4. /\ w = [trips |-> w.trips, gps |-> s.gps, lastId |-> s.lastId]
        /\ S!Ids(w) = S!Ids(s) \cup {id}
        /\ w.trips = [i \in S!Ids(w) |-> w.trips[i]]
        /\ w.trips[id] = row
        /\ \A i \in S!Ids(s) \ {id} : w.trips[i] = s.trips[i]
    BY WriteParts
  <2> HIDE DEF w
  <2>5. CASE S!TripOrdered(row) /\ ~clash
    <3>1. S!Served(s, req).state = w /\ S!Served(s, req).outcome = Delivered
      BY <1>1, <2>1, <2>5 DEF S!Answer
    <3> QED BY <1>3, <2>3, <2>4, <3>1 DEF fields
  <2>6. CASE ~(S!TripOrdered(row) /\ ~clash)
    <3>1. S!Served(s, req).state = s /\ S!Served(s, req).outcome = Refused
      BY <1>1, <2>1, <2>6 DEF S!Answer
    <3> QED BY <1>3, <2>6, <3>1 DEF fields, row
  <2> QED BY <2>5, <2>6
<1> QED BY <1>2, <1>3

(* delete takes a row and its points away.                                 *)
LEMMA DeleteParts ==
  ASSUME NEW s, IsServer(s), NEW req \in PhoneRequests, req.type = "deleteTrip"
  PROVE  LET t == S!Served(s, req).state
             outcome == S!Served(s, req).outcome
             id == req.tripId
         IN  /\ outcome = IF id \in S!Ids(s) THEN Delivered ELSE NotFound
             /\ id \notin S!Ids(s) => t = s
             /\ t = [trips |-> t.trips, gps |-> t.gps, lastId |-> s.lastId]
             /\ S!Ids(t) = S!Ids(s) \ {id}
             /\ t.trips = [i \in S!Ids(t) |-> t.trips[i]]
             /\ \A i \in S!Ids(t) : t.trips[i] = s.trips[i]
             /\ DOMAIN t.gps \subseteq DOMAIN s.gps
             /\ t.gps = [p \in DOMAIN t.gps |-> s.gps[p]]
             /\ id \in S!Ids(s) =>
                  DOMAIN t.gps = {p \in DOMAIN s.gps : s.gps[p] # id}
<1> DEFINE id == req.tripId
           trips == [i \in S!Ids(s) \ {id} |-> s.trips[i]]
           gps == [p \in {q \in DOMAIN s.gps : s.gps[q] # id} |-> s.gps[p]]
           d == [s EXCEPT !.trips = trips]
           t == [d EXCEPT !.gps = gps]
<1>1. S!Served(s, req) = S!DeleteTrip(s, req)
  BY DEF S!Served
<1>2. CASE id \notin S!Ids(s)
  <2>1. S!Served(s, req).state = s /\ S!Served(s, req).outcome = NotFound
    BY <1>1, <1>2, SameOutcomes DEF S!DeleteTrip, S!Answer
  <2> QED BY <1>2, <2>1 DEF IsServer
<1>3. CASE id \in S!Ids(s)
  <2>1. S!DeleteTrip(s, req) = S!Answer(t, Delivered)
    BY <1>3, SameOutcomes DEF S!DeleteTrip
  <2>2. /\ DOMAIN trips = S!Ids(s) \ {id}
        /\ \A i \in DOMAIN trips : trips[i] = s.trips[i]
        /\ trips = [i \in DOMAIN trips |-> trips[i]]
        /\ DOMAIN gps = {p \in DOMAIN s.gps : s.gps[p] # id}
        /\ gps = [p \in DOMAIN gps |-> s.gps[p]]
    OBVIOUS
  <2> HIDE DEF trips, gps
  <2>3. d = [trips |-> trips, gps |-> s.gps, lastId |-> s.lastId]
    BY DEF IsServer
  <2> HIDE DEF d
  <2>4. t = [trips |-> trips, gps |-> gps, lastId |-> s.lastId]
    BY <2>3
  <2> HIDE DEF t
  <2>5. S!Served(s, req).state = t /\ S!Served(s, req).outcome = Delivered
    BY <1>1, <2>1 DEF S!Answer
  <2> QED BY <1>3, <2>2, <2>4, <2>5 DEF S!Ids
<1> QED BY <1>2, <1>3

(* uploadGps stores the points that are not stored yet.                    *)
LEMMA GpsParts ==
  ASSUME NEW s, IsServer(s), NEW req \in PhoneRequests, req.type = "uploadGps"
  PROVE  LET t == S!Served(s, req).state
             outcome == S!Served(s, req).outcome
             id == req.tripId
         IN  \/ /\ id # NoTrip /\ id \notin S!Ids(s)
                /\ t = s
                /\ outcome = NotFound
             \/ /\ id = NoTrip \/ id \in S!Ids(s)
                /\ outcome = Delivered
                /\ t = [trips |-> s.trips, gps |-> t.gps, lastId |-> s.lastId]
                /\ S!Ids(t) = S!Ids(s)
                /\ DOMAIN t.gps = DOMAIN s.gps \cup req.points
                /\ t.gps = [p \in DOMAIN t.gps |->
                              IF p \in DOMAIN s.gps THEN s.gps[p] ELSE id]
<1> DEFINE id == req.tripId
           gps == [p \in DOMAIN s.gps \cup req.points |->
                     IF p \in DOMAIN s.gps THEN s.gps[p] ELSE id]
           t == [s EXCEPT !.gps = gps]
<1>1. S!Served(s, req) = S!UploadGps(s, req)
  BY DEF S!Served
<1>2. CASE id # NoTrip /\ id \notin S!Ids(s)
  BY <1>1, <1>2, SameOutcomes DEF S!UploadGps, S!Answer
<1>3. CASE id = NoTrip \/ id \in S!Ids(s)
  <2>1. S!UploadGps(s, req) = S!Answer(t, Delivered)
    BY <1>3, SameOutcomes DEF S!UploadGps
  <2>2. /\ DOMAIN gps = DOMAIN s.gps \cup req.points
        /\ gps = [p \in DOMAIN gps |-> IF p \in DOMAIN s.gps THEN s.gps[p] ELSE id]
    OBVIOUS
  <2> HIDE DEF gps
  <2>3. t = [trips |-> s.trips, gps |-> gps, lastId |-> s.lastId]
    BY DEF IsServer
  <2> HIDE DEF t
  <2>4. S!Served(s, req).state = t /\ S!Served(s, req).outcome = Delivered
    BY <1>1, <2>1 DEF S!Answer
  <2> QED BY <1>3, <2>2, <2>3, <2>4 DEF S!Ids
<1> QED BY <1>2, <1>3

(* What an upsert leaves in the attempts of a row, and when it is accepted.*)
Before(attempts, k) == IF k \in DOMAIN attempts THEN attempts[k] ELSE S!BlankAttempt

Upserted(attempts, k, body) ==
  [j \in DOMAIN attempts \cup {k} |->
     IF j = k THEN S!Overlay(Before(attempts, k), body) ELSE attempts[j]]

Accepts(row, k, body) ==
  LET changed == S!Overlay(Before(row.attempts, k), body) IN
  /\ k \in DOMAIN row.attempts \/ /\ k[2] > 1 => ~S!SkipsAhead(row.attempts, k)
                                  /\ k[1] \in Legs
                                  /\ RouteOf[k[1]] = row.route
  /\ S!RideOrdered(changed)
  /\ S!WithinTrip(row, changed)
  /\ S!AfterEarlierAttempts(Upserted(row.attempts, k, body), k[1])

Attempted(attempts, filled) ==
  /\ DOMAIN filled = DOMAIN attempts
  /\ filled \in [DOMAIN attempts -> S!AttemptBodies]
  /\ \A j \in DOMAIN attempts :
       \A f \in S!AttemptFields \ {"vehicleScheduledOrPredictedAt"} :
         filled[j][f] = attempts[j][f]

(* Filling in predictions changes predictions only.                        *)
LEMMA FillParts ==
  ASSUME NEW attempts, attempts \in [DOMAIN attempts -> S!AttemptBodies], NEW T
  PROVE  Attempted(attempts, S!FillPredictedSnapshots(attempts, T))
<1> DEFINE filled == S!FillPredictedSnapshots(attempts, T)
<1>1. DOMAIN filled = DOMAIN attempts
  BY DEF S!FillPredictedSnapshots
<1>2. ASSUME NEW k \in DOMAIN attempts
      PROVE  /\ filled[k] \in S!AttemptBodies
             /\ \A f \in S!AttemptFields \ {"vehicleScheduledOrPredictedAt"} :
                  filled[k][f] = attempts[k][f]
  <2>1. attempts[k] \in S!AttemptBodies
    OBVIOUS
  <2>2. CASE filled[k] = attempts[k]
    BY <2>1, <2>2
  <2>3. CASE filled[k] # attempts[k]
    <3>1. /\ S!Reference(attempts, k) # Nil
          /\ filled[k] = [attempts[k] EXCEPT !.vehicleScheduledOrPredictedAt =
                                               NextVehicle[S!Reference(attempts, k)]]
      BY <2>3 DEF S!FillPredictedSnapshots
    <3>2. S!Reference(attempts, k) \in Times
      BY <2>1, <3>1 DEF S!Reference, S!AttemptBodies, S!AttemptFields
    <3>3. NextVehicle[S!Reference(attempts, k)] \in Times \cup {Nil}
      BY <3>2, OutboxSystemAssumption
    <3> QED BY <2>1, <3>1, <3>3 DEF S!AttemptBodies, S!AttemptFields
  <2> QED BY <2>2, <2>3
<1>3. filled = [k \in DOMAIN filled |-> filled[k]]
  BY DEF S!FillPredictedSnapshots
<1> HIDE DEF filled
<1>4. filled \in [DOMAIN attempts -> S!AttemptBodies]
  BY <1>1, <1>2, <1>3
<1>5. QED BY <1>1, <1>2, <1>4 DEF filled, Attempted

(* The bodies of the phone are those of the server.                        *)
LEMMA SameBodies ==
  /\ TripFields = S!TripFields
  /\ AttemptFields = S!AttemptFields
  /\ TripBodies = S!TripBodies
  /\ AttemptBodies = S!AttemptBodies
BY OutboxSystemAssumption DEF TripFields, AttemptFields, TripBodies, AttemptBodies,
       S!TripFields, S!AttemptFields, S!TripBodies, S!AttemptBodies

(* upsert changes one attempt of one row, or adds it, or does nothing.     *)
LEMMA UpsertParts ==
  ASSUME NEW s, IsServer(s), NEW req \in PhoneRequests, req.type = "upsertAttempt"
  PROVE  LET t == S!Served(s, req).state
             outcome == S!Served(s, req).outcome
             id == req.tripId
             k == req.attempt
             old == s.trips[id]
             new == t.trips[id]
         IN  \/ /\ id \notin S!Ids(s)
                /\ t = s
                /\ outcome = NotFound
             \/ /\ id \in S!Ids(s)
                /\ t = s
                /\ outcome = Refused
                /\ ~Accepts(old, k, req.body)
             \/ /\ id \in S!Ids(s)
                /\ outcome = Delivered
                /\ t = [trips |-> t.trips, gps |-> s.gps, lastId |-> s.lastId]
                /\ S!Ids(t) = S!Ids(s)
                /\ t.trips = [i \in S!Ids(t) |-> t.trips[i]]
                /\ \A i \in S!Ids(s) \ {id} : t.trips[i] = s.trips[i]
                /\ new = [route |-> old.route, tripDate |-> old.tripDate,
                          fields |-> old.fields, attempts |-> new.attempts]
                /\ k[1] \in Legs
                /\ Attempted(Upserted(old.attempts, k, req.body), new.attempts)
<1> DEFINE id == req.tripId
           k == req.attempt
           body == req.body
           old == s.trips[id]
           before == Before(old.attempts, k)
           changed == S!Overlay(before, body)
           attempts == Upserted(old.attempts, k, body)
           T == {k, <<k[1], k[2] + 1>>}
           filled == S!FillPredictedSnapshots(attempts, T)
           new == [old EXCEPT !.attempts = filled]
           w == S!WithTrip(s, id, new)
           fits == /\ S!RideOrdered(changed)
                   /\ S!WithinTrip(old, changed)
                   /\ S!AfterEarlierAttempts(attempts, k[1])
           applied == S!ApplyChanges(s, id, k, before, body)
<1>1. S!Served(s, req) = S!UpsertAttempt(s, req)
  BY DEF S!Served
<1>2. /\ k \in Attempts
      /\ body \in S!AttemptBodies
  BY SameBodies DEF PhoneRequests
<1>3. CASE id \notin S!Ids(s)
  BY <1>1, <1>3, SameOutcomes DEF S!UpsertAttempt, S!Answer
<1>4. CASE id \in S!Ids(s)
  <2>1. /\ old = [route |-> old.route, tripDate |-> old.tripDate,
                  fields |-> old.fields, attempts |-> old.attempts]
        /\ DOMAIN old.attempts \subseteq Legs \X {a[2] : a \in Attempts}
        /\ old.attempts \in [DOMAIN old.attempts -> S!AttemptBodies]
    BY <1>4 DEF IsServer, S!IsTrip
  <2>2. before \in S!AttemptBodies
    BY <2>1 DEF Before, S!BlankAttempt, S!AttemptBodies
  <2>3. changed \in S!AttemptBodies
    BY <1>2, <2>2 DEF S!Overlay, S!AttemptBodies
  <2>4. /\ DOMAIN attempts = DOMAIN old.attempts \cup {k}
        /\ attempts \in [DOMAIN attempts -> S!AttemptBodies]
    BY <2>1, <2>3 DEF Upserted
  <2>5. applied = IF fits THEN S!Answer(w, Delivered) ELSE S!Answer(s, Refused)
    <3>1. attempts = [j \in DOMAIN old.attempts \cup {k} |->
                        IF j = k THEN changed ELSE old.attempts[j]]
      BY DEF Upserted
    <3> HIDE DEF attempts, changed, before
    <3> QED BY <3>1, SameOutcomes DEF S!ApplyChanges, changed
  <2> HIDE DEF attempts, changed, applied
  <2>6. Attempted(attempts, filled)
    BY <2>4, FillParts
  <2> HIDE DEF filled
  <2>7. new = [route |-> old.route, tripDate |-> old.tripDate,
               fields |-> old.fields, attempts |-> filled]
    BY <2>1
  <2> HIDE DEF new
  <2>8. /\ w = [trips |-> w.trips, gps |-> s.gps, lastId |-> s.lastId]
        /\ S!Ids(w) = S!Ids(s) \cup {id}
        /\ w.trips = [i \in S!Ids(w) |-> w.trips[i]]
        /\ w.trips[id] = new
        /\ \A i \in S!Ids(s) \ {id} : w.trips[i] = s.trips[i]
    BY WriteParts
  <2> HIDE DEF w, fits
  <2> DEFINE admitted == \/ k \in DOMAIN old.attempts
                         \/ /\ k[2] > 1 => ~S!SkipsAhead(old.attempts, k)
                            /\ k[1] \in Legs
                            /\ RouteOf[k[1]] = old.route
  <2>9. S!UpsertAttempt(s, req) =
          IF admitted THEN applied ELSE S!Answer(s, Refused)
    <3>1. CASE k \in DOMAIN old.attempts
      <4>1. before = old.attempts[k]
        BY <3>1 DEF Before
      <4> HIDE DEF before
      <4> QED BY <1>4, <3>1, <4>1 DEF S!UpsertAttempt, applied
    <3>2. CASE k \notin DOMAIN old.attempts
      <4>1. before = S!BlankAttempt
        BY <3>2 DEF Before
      <4> HIDE DEF before
      <4> QED BY <1>4, <3>2, <4>1, SameOutcomes DEF S!UpsertAttempt, applied
    <3> QED BY <3>1, <3>2
  <2>10. Accepts(old, k, body) <=> admitted /\ fits
    BY DEF Accepts, fits, changed, attempts
  <2>11. CASE admitted /\ fits
    <3>1. S!Served(s, req).state = w /\ S!Served(s, req).outcome = Delivered
      BY <1>1, <2>5, <2>9, <2>11 DEF S!Answer
    <3>2. k[1] \in Legs
      BY <2>1, <2>11
    <3> HIDE DEF admitted
    <3> QED BY <1>4, <2>6, <2>7, <2>8, <3>1, <3>2 DEF attempts
  <2>12. CASE ~(admitted /\ fits)
    <3>1. S!Served(s, req).state = s /\ S!Served(s, req).outcome = Refused
      BY <1>1, <2>5, <2>9, <2>12 DEF S!Answer
    <3> HIDE DEF admitted
    <3> QED BY <1>4, <2>10, <2>12, <3>1
  <2> QED BY <2>11, <2>12
<1> QED BY <1>3, <1>4

(* What the server answers to anything but a create.                       *)
LEMMA PlainOutcomes ==
  ASSUME NEW s, IsServer(s), NEW req \in PhoneRequests, req.type # "createTrip"
  PROVE  S!Served(s, req).outcome \in {NotFound, Refused, Delivered}
<1> DEFINE outcome == S!Served(s, req).outcome
<1>1. CASE req.type = "updateTrip"
  <2>1. outcome = NotFound \/ outcome = Refused \/ outcome = Delivered
    BY <1>1, UpdateParts
  <2> QED BY <2>1
<1>2. CASE req.type = "upsertAttempt"
  <2>1. outcome = NotFound \/ outcome = Refused \/ outcome = Delivered
    BY <1>2, UpsertParts
  <2> QED BY <2>1
<1>3. CASE req.type = "uploadGps"
  <2>1. outcome \in {NotFound, Delivered}
    BY <1>3, SameOutcomes DEF S!Served, S!UploadGps, S!Answer
  <2> QED BY <2>1
<1>4. CASE req.type = "deleteTrip"
  <2>1. outcome = IF req.tripId \in S!Ids(s) THEN Delivered ELSE NotFound
    BY <1>4, DeleteParts
  <2> QED BY <2>1
<1> QED BY <1>1, <1>2, <1>3, <1>4 DEF PhoneRequests

(* Any request leaves rows of their types and is answered in its kind.     *)
LEMMA ServedType ==
  ASSUME NEW s, IsServer(s), NEW req \in PhoneRequests
  PROVE  /\ IsServer(S!Served(s, req).state)
         /\ S!Served(s, req).outcome \in
              {NotFound, Refused}
                \cup IF req.type = "createTrip" THEN {TripCreated(id) : id \in Nat}
                     ELSE {Delivered}
<1> DEFINE t == S!Served(s, req).state
           outcome == S!Served(s, req).outcome
<1>1. /\ s.lastId \in Nat
      /\ S!Ids(s) \subseteq 1..s.lastId
      /\ \A i \in S!Ids(s) : S!IsTrip(s.trips[i])
      /\ DOMAIN s.gps \subseteq Points
      /\ s.gps \in [DOMAIN s.gps -> Nat \cup {NoTrip}]
  BY DEF IsServer
<1>2. CASE t = s
  <2>1. outcome \in {NotFound, Refused}
                \cup IF req.type = "createTrip" THEN {TripCreated(id) : id \in Nat}
                     ELSE {Delivered}
    <3>1. CASE req.type = "createTrip"
      <4>1. \A i \in S!SameKey(s, req) : i \in Nat
        BY <1>1 DEF S!SameKey
      <4>2. \/ outcome = Refused
            \/ \E i \in S!SameKey(s, req) : outcome = TripCreated(i)
            \/ outcome = TripCreated(s.lastId + 1)
        BY <3>1, CreateParts
      <4> QED BY <1>1, <3>1, <4>1, <4>2
    <3>2. CASE req.type # "createTrip"
      <4>1. outcome \in {NotFound, Refused, Delivered}
        BY <3>2, PlainOutcomes
      <4> HIDE DEF outcome
      <4> QED BY <3>2, <4>1
    <3> QED BY <3>1, <3>2
  <2> QED BY <1>2, <2>1
<1>3. CASE t # s /\ req.type = "createTrip"
  <2> DEFINE id == s.lastId + 1
  <2> HIDE DEF t, outcome
  <2>1. /\ outcome = TripCreated(id)
        /\ t = [trips |-> t.trips, gps |-> s.gps, lastId |-> id]
        /\ S!Ids(t) = S!Ids(s) \cup {id}
        /\ t.trips = [i \in S!Ids(t) |-> t.trips[i]]
        /\ t.trips[id] = S!NewTrip(req)
        /\ \A i \in S!Ids(s) : i # id /\ t.trips[i] = s.trips[i]
    BY <1>3, CreateParts DEF t, outcome
  <2>2. /\ req.route \in Routes
        /\ req.leftHomeAt \in Times
        /\ req.tripDate = Today
    BY <1>3 DEF PhoneRequests
  <2>3. S!IsTrip(S!NewTrip(req))
    BY <2>2 DEF S!NewTrip, S!IsTrip, S!TripBodies, S!TripFields
  <2>4. \A i \in S!Ids(t) : S!IsTrip(t.trips[i])
    BY <1>1, <2>1, <2>3
  <2>5. id \in Nat /\ S!Ids(t) \subseteq 1..id
    BY <1>1, <2>1
  <2>6. t = [trips |-> t.trips, gps |-> t.gps, lastId |-> t.lastId]
        /\ t.lastId = id /\ t.gps = s.gps
    BY <2>1
  <2>7. IsServer(t)
    BY <1>1, <2>1, <2>4, <2>5, <2>6 DEF IsServer
  <2> QED BY <1>3, <2>1, <2>5, <2>7 DEF t, outcome
<1>4. CASE t # s /\ req.type \in {"updateTrip", "upsertAttempt"}
  <2> DEFINE id == req.tripId
  <2> HIDE DEF t, outcome
  <2>1. /\ id \in S!Ids(s)
        /\ outcome = Delivered
        /\ t = [trips |-> t.trips, gps |-> s.gps, lastId |-> s.lastId]
        /\ S!Ids(t) = S!Ids(s)
        /\ t.trips = [i \in S!Ids(t) |-> t.trips[i]]
        /\ \A i \in S!Ids(s) \ {id} : t.trips[i] = s.trips[i]
    <3>1. CASE req.type = "updateTrip"
      BY <1>4, <3>1, UpdateParts DEF t, outcome
    <3>2. CASE req.type = "upsertAttempt"
      BY <1>4, <3>2, UpsertParts DEF t, outcome
    <3> QED BY <1>4, <3>1, <3>2
  <2>2. S!IsTrip(s.trips[id])
    BY <1>1, <2>1
  <2>3. S!IsTrip(t.trips[id])
    <3>1. CASE req.type = "updateTrip"
      <4> DEFINE fields == S!Overlay(s.trips[id].fields, req.body)
      <4>1. t.trips[id] =
              [route |-> s.trips[id].route, tripDate |-> s.trips[id].tripDate,
               fields |-> fields, attempts |-> s.trips[id].attempts]
        BY <1>4, <3>1, UpdateParts DEF t
      <4>2. req.body \in S!TripBodies
        BY <3>1, SameBodies DEF PhoneRequests
      <4>3. fields \in S!TripBodies
        BY <2>2, <4>2 DEF S!IsTrip, S!Overlay, S!TripBodies
      <4> HIDE DEF fields
      <4> QED BY <2>2, <4>1, <4>3 DEF S!IsTrip
    <3>2. CASE req.type = "upsertAttempt"
      <4> DEFINE old == s.trips[id]
                 attempts == t.trips[id].attempts
                 k == req.attempt
      <4>1. /\ t.trips[id] = [route |-> old.route, tripDate |-> old.tripDate,
                              fields |-> old.fields, attempts |-> attempts]
            /\ k[1] \in Legs
            /\ Attempted(Upserted(old.attempts, k, req.body), attempts)
        BY <1>4, <3>2, UpsertParts DEF t
      <4>2. /\ DOMAIN attempts = DOMAIN old.attempts \cup {k}
            /\ attempts \in [DOMAIN attempts -> S!AttemptBodies]
        BY <4>1 DEF Attempted, Upserted
      <4>3. k \in Legs \X {a[2] : a \in Attempts}
        BY <3>2, OutboxSystemAssumption DEF PhoneRequests
      <4> HIDE DEF attempts
      <4> QED BY <2>2, <4>1, <4>2, <4>3 DEF S!IsTrip
    <3> QED BY <1>4, <3>1, <3>2
  <2>4. \A i \in S!Ids(t) : S!IsTrip(t.trips[i])
    BY <1>1, <2>1, <2>3
  <2>5. t = [trips |-> t.trips, gps |-> t.gps, lastId |-> t.lastId]
        /\ t.lastId = s.lastId /\ t.gps = s.gps
    BY <2>1
  <2>6. IsServer(t)
    BY <1>1, <2>1, <2>4, <2>5 DEF IsServer
  <2> QED BY <1>4, <2>1, <2>6 DEF t, outcome
<1>5. CASE t # s /\ req.type = "deleteTrip"
  <2> HIDE DEF t, outcome
  <2>1. /\ outcome = Delivered
        /\ t = [trips |-> t.trips, gps |-> t.gps, lastId |-> s.lastId]
        /\ S!Ids(t) \subseteq S!Ids(s)
        /\ t.trips = [i \in S!Ids(t) |-> t.trips[i]]
        /\ \A i \in S!Ids(t) : t.trips[i] = s.trips[i]
        /\ DOMAIN t.gps \subseteq DOMAIN s.gps
        /\ t.gps = [p \in DOMAIN t.gps |-> s.gps[p]]
    BY <1>5, DeleteParts DEF t, outcome
  <2>2. t.lastId = s.lastId
    BY <2>1
  <2>3. IsServer(t)
    BY <1>1, <2>1, <2>2 DEF IsServer
  <2> QED BY <1>5, <2>1, <2>3 DEF t, outcome
<1>6. CASE t # s /\ req.type = "uploadGps"
  <2> HIDE DEF t, outcome
  <2>1. /\ outcome = Delivered
        /\ t = [trips |-> s.trips, gps |-> t.gps, lastId |-> s.lastId]
        /\ S!Ids(t) = S!Ids(s)
        /\ DOMAIN t.gps = DOMAIN s.gps \cup req.points
        /\ t.gps = [p \in DOMAIN t.gps |->
                      IF p \in DOMAIN s.gps THEN s.gps[p] ELSE req.tripId]
    BY <1>6, GpsParts DEF t, outcome
  <2>2. t.lastId = s.lastId /\ t.trips = s.trips
    BY <2>1
  <2>3. req.points \subseteq Points /\ req.tripId \in Nat \cup {NoTrip}
    BY <1>6 DEF PhoneRequests
  <2>4. t.gps \in [DOMAIN t.gps -> Nat \cup {NoTrip}]
    BY <1>1, <2>1, <2>3
  <2>5. IsServer(t)
    BY <1>1, <2>1, <2>2, <2>3, <2>4 DEF IsServer
  <2> QED BY <1>6, <2>1, <2>5 DEF t, outcome
<1>7. req.type \in {"createTrip", "updateTrip", "upsertAttempt", "uploadGps",
                    "deleteTrip"}
  BY DEF PhoneRequests
<1> QED BY <1>2, <1>3, <1>4, <1>5, <1>6, <1>7

-----------------------------------------------------------------------------
(* Types. *)

(* The parts of the type invariant, by who keeps them.                     *)
BoxTyped == IsState(box) /\ IsState(saved)

RecorderTyped ==
  /\ trip \in Trips \cup {NoTrip}
  /\ savedTrip \in Trips \cup {NoTrip}
  /\ diary \in Seq(Writings)
  /\ clock <= MaxClock
  /\ cancelled \subseteq Keys

DriverTyped ==
  /\ turn \in {"free", "persist", "loop", "ending"}
  /\ client \in BOOLEAN
  /\ drain \in {"none", "running", "awaiting"}
  /\ wake \in BOOLEAN
  /\ call \in Calls \cup {NoCall}
  /\ drain = "awaiting" <=> call # NoCall
  /\ late \subseteq PhoneRequests
  /\ crashes \in Nat
  /\ reviewed \subseteq DeadLetters

(* The type invariant is its parts, before and after a step.               *)
LEMMA TypeParts ==
  /\ TypeOK <=> BoxTyped /\ RecorderTyped /\ DriverTyped /\ IsServer(server)
  /\ TypeOK' <=> BoxTyped' /\ RecorderTyped' /\ DriverTyped' /\ IsServer(server')
<1>1. (S!TypeOK <=> IsServer(server)) /\ (S!TypeOK' <=> IsServer(server'))
  BY DEF S!TypeOK, IsServer
<1> QED BY <1>1 DEF TypeOK, BoxTyped, RecorderTyped, DriverTyped

(* The call that is awaited belongs to an entry that is in flight, and its *)
(* answer is one that entry can get.                                       *)
Awaited ==
  call # NoCall =>
    /\ call.id \in Ids(box)
    /\ box.entries[call.id].inFlight
    /\ call.req.type = box.entries[call.id].cmd.type
    /\ call.answer # NoAnswer =>
         call.answer \in OutcomesOf(box.entries[call.id].cmd, Nat)

(* The driver is at work while it is in the middle of its loop.            *)
Looping == turn \in {"loop", "ending"} => drain = "running"

(* The call stays so as long as what is under way stays.                   *)
LEMMA AwaitedStays ==
  ASSUME Awaited, Holds(box, box'), call' = call
  PROVE  Awaited'
BY DEF Awaited, Holds

(* What a command leaves behind in memory and on disk.                     *)
LEMMA EnqueueStep ==
  ASSUME BoxTyped, NEW cmd \in Commands, Enqueue(cmd)
  PROVE  BoxTyped' /\ Gentle(box, box') /\ Holds(box, box')
<1>1. box' = Enqueued(box, cmd) /\ saved' \in {box', saved}
  BY DEF Enqueue, Persist
<1>2. Gentle(box, Enqueued(box, cmd)) /\ Holds(box, Enqueued(box, cmd))
  BY EnqueuedGentle, EnqueuedHolds DEF BoxTyped
<1> QED BY <1>1, <1>2 DEF BoxTyped, Gentle

(* A writing is numbered by the clock, which stays within its bound.       *)
LEMMA WritesStep ==
  ASSUME RecorderTyped, NEW key \in Keys,
         NEW slot \in {TripSlot, GpsSlot} \cup Attempts,
         NEW field \in TripFields \cup AttemptFields \cup {"point"},
         Writes(key, slot, field)
  PROVE  /\ now \in Times
         /\ diary' \in Seq(Writings)
         /\ Len(diary') = now
         /\ \A n \in 1..clock : diary'[n] = diary[n]
         /\ diary'[now] = [key |-> key, slot |-> slot, field |-> field]
         /\ cancelled' = cancelled
         /\ reviewed' = reviewed
<1> DEFINE w == [key |-> key, slot |-> slot, field |-> field]
<1>1. w \in Writings
  BY DEF Writings
<1>2. diary' = Append(diary, w) /\ clock < MaxClock /\ cancelled' = cancelled
      /\ reviewed' = reviewed
  BY DEF Writes
<1>3. diary \in Seq(Writings) /\ MaxClock \in Nat
  BY OutboxSystemAssumption DEF RecorderTyped
<1> HIDE DEF w
<1>4. /\ diary' \in Seq(Writings)
      /\ Len(diary') = Len(diary) + 1
      /\ \A n \in 1..Len(diary) : diary'[n] = diary[n]
      /\ diary'[Len(diary) + 1] = w
  BY <1>1, <1>2, <1>3
<1> QED BY <1>2, <1>3, <1>4 DEF now, clock, Times, w

(* The bodies the phone sends set one field to the instant of the command. *)
LEMMA BodyTypes ==
  ASSUME now \in Times
  PROVE  /\ \A field : TripBody(field) \in TripBodies
         /\ \A field : AttemptBody(field) \in AttemptBodies
BY OutboxSystemAssumption DEF TripBody, AttemptBody, TripBodies, AttemptBodies

(* What the script brings to record.                                       *)
Brought == {Script[pos][2] : pos \in DOMAIN Script}

(* A command the recorder issues, with what the diary says of it.          *)
Issues(cmd, key, slot, field) ==
  /\ Recording
  /\ Writes(key, slot, field)
  /\ Enqueue(cmd)
  /\ cmd \in Commands /\ ~IsDelete(cmd) /\ cmd.key = key
  /\ key \in Keys
  /\ slot \in {TripSlot, GpsSlot} \cup Attempts
  /\ field \in TripFields \cup AttemptFields \cup {"point"}
  /\ trip' \in Trips /\ trip'.key = key
  /\ IF cmd.type = "createTrip"
     THEN trip = NoTrip /\ key[2] = now /\ slot = TripSlot /\ field = "leftHomeAt"
     ELSE trip # NoTrip /\ trip.key = key
  /\ cmd.type = "updateTrip" =>
       slot = TripSlot /\ field \in TripFields /\ cmd.body = TripBody(field)
  /\ cmd.type = "upsertAttempt" =>
       /\ slot = cmd.attempt
       /\ field \in AttemptFields /\ field \in Brought
       /\ cmd.body = AttemptBody(field)
  /\ cmd.type = "uploadGps" => slot = GpsSlot /\ cmd.points = <<now>>

(* What the recorder can do in a step.                                     *)
LEMMA RecordSteps ==
  ASSUME RecorderTyped, Record
  PROVE  \/ \E cmd, key, slot, field : Issues(cmd, key, slot, field)
         \/ EndTrip
         \/ CancelTrip
         \/ NothingToRecord
         \/ PersistRecorder
<1>1. Arrived \in Nat
  BY OutboxSystemAssumption DEF Arrived
<1>2. ASSUME clock < MaxClock PROVE now \in Times
  BY <1>2, OutboxSystemAssumption DEF RecorderTyped, now, clock, Times
<1>3. ASSUME NEW route \in Routes, StartTrip(route)
      PROVE  \E cmd, key, slot, field : Issues(cmd, key, slot, field)
  <2> DEFINE key == <<route, now>>
             cmd == [type |-> "createTrip", key |-> key]
  <2>1. /\ trip = NoTrip /\ Recording /\ Writes(key, TripSlot, "leftHomeAt")
        /\ Enqueue(cmd) /\ trip' = [key |-> key, pos |-> 0]
    BY <1>3 DEF StartTrip
  <2>2. key \in Keys /\ key[2] = now
    BY <1>2, <2>1, OutboxSystemAssumption DEF Writes
  <2>3. cmd \in Commands /\ cmd.type = "createTrip" /\ cmd.key = key
    BY <2>2 DEF Commands
  <2>4. trip' \in Trips /\ trip'.key = key
    BY <1>1, <2>1, <2>2 DEF Trips
  <2> HIDE DEF cmd, key
  <2>5. Issues(cmd, key, TripSlot, "leftHomeAt")
    BY <2>1, <2>2, <2>3, <2>4 DEF Issues, IsDelete, TripFields
  <2> QED BY <2>5
<1>4. ASSUME trip # NoTrip, Recording, trip' \in Trips, trip'.key = trip.key,
             NEW field \in TripFields, Writes(trip.key, TripSlot, field),
             Enqueue([type |-> "updateTrip", key |-> trip.key,
                      body |-> TripBody(field)])
      PROVE  \E cmd, key, slot, f : Issues(cmd, key, slot, f)
  <2> DEFINE cmd == [type |-> "updateTrip", key |-> trip.key, body |-> TripBody(field)]
  <2>1. trip.key \in Keys
    BY <1>4 DEF RecorderTyped, Trips
  <2>2. TripBody(field) \in TripBodies
    BY <1>2, <1>4, BodyTypes DEF Writes
  <2>3. /\ cmd \in Commands /\ cmd.type = "updateTrip" /\ cmd.key = trip.key
        /\ cmd.body = TripBody(field)
    BY <2>1, <2>2 DEF Commands
  <2>4. Enqueue(cmd)
    BY <1>4
  <2> HIDE DEF cmd
  <2>5. Issues(cmd, trip.key, TripSlot, field)
    BY <1>4, <2>1, <2>3, <2>4 DEF Issues, IsDelete
  <2> QED BY <2>5
<1>5. CASE LeaveAgain
  <2>1. trip' \in Trips /\ trip'.key = trip.key
    BY <1>5 DEF LeaveAgain, RecorderTyped
  <2> QED BY <1>4, <1>5, <2>1 DEF LeaveAgain, TripFields
<1>6. CASE Arrive
  <2>1. trip \in Trips /\ trip' = [trip EXCEPT !.pos = Arrived]
    BY <1>6 DEF Arrive, RecorderTyped
  <2>2. trip' \in Trips /\ trip'.key = trip.key
    BY <1>1, <2>1 DEF Trips
  <2> QED BY <1>4, <1>6, <2>2 DEF Arrive, TripFields
<1>7. ASSUME NEW pos \in DOMAIN Script, RecordAttempt(pos)
      PROVE  \E cmd, key, slot, field : Issues(cmd, key, slot, field)
  <2> DEFINE attempt == Script[pos][1]
             field == Script[pos][2]
             cmd == [type |-> "upsertAttempt", key |-> trip.key,
                     attempt |-> attempt, body |-> AttemptBody(field)]
  <2>1. /\ trip # NoTrip /\ Recording /\ Writes(trip.key, attempt, field)
        /\ Enqueue(cmd) /\ trip' = [trip EXCEPT !.pos = pos]
    BY <1>7 DEF RecordAttempt
  <2>2. /\ attempt \in Attempts /\ field \in AttemptFields /\ field \in Brought
        /\ pos \in 0..Arrived
    BY <1>7, OutboxSystemAssumption DEF Arrived, Brought
  <2>3. trip \in Trips /\ trip.key \in Keys
    BY <2>1 DEF RecorderTyped, Trips
  <2>4. AttemptBody(field) \in AttemptBodies
    BY <1>2, <2>1, BodyTypes DEF Writes
  <2> HIDE DEF attempt, field
  <2>5. /\ cmd \in Commands /\ cmd.type = "upsertAttempt" /\ cmd.key = trip.key
        /\ cmd.attempt = attempt /\ cmd.body = AttemptBody(field)
    BY <2>2, <2>3, <2>4 DEF Commands
  <2>6. trip' \in Trips /\ trip'.key = trip.key
    BY <2>1, <2>2, <2>3 DEF Trips
  <2> HIDE DEF cmd
  <2>7. Issues(cmd, trip.key, attempt, field)
    BY <2>1, <2>2, <2>3, <2>5, <2>6 DEF Issues, IsDelete
  <2> QED BY <2>7
<1>8. CASE FlushGps
  <2> DEFINE cmd == [type |-> "uploadGps", key |-> trip.key, points |-> <<now>>]
  <2>1. /\ trip # NoTrip /\ Recording /\ Writes(trip.key, GpsSlot, "point")
        /\ Enqueue(cmd) /\ trip' = trip
    BY <1>8 DEF FlushGps
  <2>2. trip \in Trips /\ trip.key \in Keys
    BY <2>1 DEF RecorderTyped, Trips
  <2>3. <<now>> \in Seq(Points)
    BY <1>2, <2>1, OutboxSystemAssumption DEF Writes
  <2>4. /\ cmd \in Commands /\ cmd.type = "uploadGps" /\ cmd.key = trip.key
        /\ cmd.points = <<now>>
    BY <2>2, <2>3 DEF Commands
  <2> HIDE DEF cmd
  <2>5. Issues(cmd, trip.key, GpsSlot, "point")
    BY <2>1, <2>2, <2>4 DEF Issues, IsDelete
  <2> QED BY <2>5
<1> QED BY <1>3, <1>5, <1>6, <1>7, <1>8 DEF Record

(* Recording keeps the types, and leaves what is under way.                *)
LEMMA RecordTyped ==
  ASSUME TypeOK, Awaited, Looping, Record
  PROVE  TypeOK' /\ Awaited' /\ Looping'
<1>0. Looping'
  BY DEF Looping, Record, StartTrip, LeaveAgain, RecordAttempt, FlushGps, Arrive,
         EndTrip, CancelTrip, NothingToRecord, PersistRecorder, Recording
<1> SUFFICES TypeOK' /\ Awaited'
  BY <1>0
<1>1. BoxTyped /\ RecorderTyped /\ DriverTyped /\ IsServer(server)
  BY TypeParts
<1>2. ASSUME NEW cmd, NEW key, NEW slot, NEW field, Issues(cmd, key, slot, field)
      PROVE  TypeOK' /\ Awaited'
  <2>1. /\ Recording /\ Writes(key, slot, field) /\ Enqueue(cmd)
        /\ cmd \in Commands /\ key \in Keys /\ trip' \in Trips
        /\ slot \in {TripSlot, GpsSlot} \cup Attempts
        /\ field \in TripFields \cup AttemptFields \cup {"point"}
    BY <1>2 DEF Issues
  <2>2. BoxTyped' /\ Holds(box, box')
    BY <1>1, <2>1, EnqueueStep
  <2>3. /\ diary' \in Seq(Writings) /\ Len(diary') = now /\ now \in Times
        /\ cancelled' = cancelled /\ reviewed' = reviewed
    BY <1>1, <2>1, WritesStep
  <2>4. /\ turn' = "persist" /\ savedTrip' = savedTrip /\ server' = server
        /\ client' = client /\ drain' = drain /\ wake' = wake /\ call' = call
        /\ late' = late /\ crashes' = crashes
    BY <2>1 DEF Recording, serverVars, driverVars
  <2>5. RecorderTyped'
    BY <1>1, <2>1, <2>3, <2>4 DEF RecorderTyped, Times, clock
  <2>6. DriverTyped'
    BY <1>1, <2>3, <2>4 DEF DriverTyped
  <2>7. IsServer(server')
    BY <1>1, <2>4
  <2>8. Awaited'
    BY <2>2, <2>4, AwaitedStays
  <2> QED BY <2>2, <2>5, <2>6, <2>7, <2>8, TypeParts
<1>3. CASE EndTrip \/ NothingToRecord
  <2>1. /\ box' = box /\ saved' = saved /\ diary' = diary /\ cancelled' = cancelled
        /\ reviewed' = reviewed /\ trip' \in {trip, NoTrip} /\ turn' = "persist"
        /\ savedTrip' = savedTrip /\ server' = server
        /\ client' = client /\ drain' = drain /\ wake' = wake /\ call' = call
        /\ late' = late /\ crashes' = crashes
    BY <1>3 DEF EndTrip, NothingToRecord, Recording, serverVars, driverVars, historyVars
  <2>2. BoxTyped' /\ IsServer(server')
    BY <1>1, <2>1 DEF BoxTyped
  <2>3. RecorderTyped'
    BY <1>1, <2>1 DEF RecorderTyped, clock
  <2>4. DriverTyped'
    BY <1>1, <2>1 DEF DriverTyped
  <2>5. Awaited'
    BY <2>1 DEF Awaited
  <2> QED BY <2>2, <2>3, <2>4, <2>5, TypeParts
<1>4. CASE CancelTrip
  <2>1. /\ trip # NoTrip /\ Discard(trip.key) /\ diary' = diary
        /\ cancelled' = cancelled \cup {trip.key}
        /\ reviewed' = reviewed /\ trip' = NoTrip /\ turn' = "persist"
        /\ savedTrip' = savedTrip /\ server' = server
        /\ client' = client /\ drain' = drain /\ wake' = wake /\ call' = call
        /\ late' = late /\ crashes' = crashes
    BY <1>4 DEF CancelTrip, Recording, serverVars, driverVars
  <2>2. trip.key \in Keys
    BY <1>1, <2>1 DEF RecorderTyped, Trips
  <2>3. box' = Discarded(box, trip.key) /\ saved' \in {box', saved}
    BY <2>1 DEF Discard, Persist
  <2>4. BoxTyped' /\ Holds(box, box')
    BY <1>1, <2>2, <2>3, DiscardedGentle, DiscardedHolds DEF BoxTyped, Gentle
  <2>5. RecorderTyped'
    BY <1>1, <2>1, <2>2 DEF RecorderTyped, clock
  <2>6. DriverTyped'
    BY <1>1, <2>1 DEF DriverTyped
  <2>7. IsServer(server')
    BY <1>1, <2>1
  <2>8. Awaited'
    BY <2>1, <2>4, AwaitedStays
  <2> QED BY <2>4, <2>5, <2>6, <2>7, <2>8, TypeParts
<1>5. CASE PersistRecorder
  <2>1. /\ box' = box /\ saved' = saved /\ diary' = diary /\ cancelled' = cancelled
        /\ reviewed' = reviewed /\ trip' = trip /\ savedTrip' = trip
        /\ turn' = "free" /\ drain' = Kicked(drain) /\ server' = server
        /\ client' = client /\ wake' = wake /\ call' = call
        /\ late' = late /\ crashes' = crashes
    BY <1>5 DEF PersistRecorder, serverVars, historyVars
  <2>2. BoxTyped' /\ IsServer(server')
    BY <1>1, <2>1 DEF BoxTyped
  <2>3. RecorderTyped'
    BY <1>1, <2>1 DEF RecorderTyped, clock
  <2>4. DriverTyped'
    BY <1>1, <2>1 DEF DriverTyped, Kicked
  <2>5. Awaited'
    BY <2>1 DEF Awaited
  <2> QED BY <2>2, <2>3, <2>4, <2>5, TypeParts
<1> QED BY <1>1, <1>2, <1>3, <1>4, <1>5, RecordSteps

(* So does the driver.                                                     *)
LEMMA DriveTyped ==
  ASSUME TypeOK, Awaited, Looping, Drive
  PROVE  TypeOK' /\ Awaited' /\ Looping'
<1>0. Looping'
  <2>1. CASE SendOne \/ SendFailsToSave \/ FindsNothing
    BY <2>1 DEF SendOne, SendFailsToSave, FindsNothing, Driving, Looping
  <2>2. CASE DrainEnds \/ Return \/ WakeFires
    BY <2>2 DEF DrainEnds, Ending, Return, WakeFires, Looping
  <2>3. CASE \E i \in Ids(box) : TimePasses(i)
    BY <2>3 DEF TimePasses, driverVars, Looping
  <2>4. CASE Expedite \/ SaveToken \/ ClearReviews
    BY <2>4 DEF Expedite, SaveToken, ClearReviews, driverVars, Looping
  <2> QED BY <2>1, <2>2, <2>3, <2>4 DEF Drive
<1> SUFFICES TypeOK' /\ Awaited'
  BY <1>0
<1>1. BoxTyped /\ RecorderTyped /\ DriverTyped /\ IsServer(server)
  BY TypeParts
<1>2. Drive => /\ UNCHANGED <<trip, savedTrip, diary, cancelled, server>>
               /\ late' = late /\ crashes' = crashes
  BY DEF Drive, SendOne, SendFailsToSave, FindsNothing, DrainEnds, Ending, Driving,
         Return, WakeFires, TimePasses, Expedite, SaveToken, ClearReviews,
         serverVars, recorderVars, historyVars
<1>3. RecorderTyped' /\ IsServer(server')
  BY <1>1, <1>2 DEF RecorderTyped, clock
<1>4. CASE SendOne
  <2>1. PICK i \in Dispatchable(box) :
          /\ box' = Dispatched(box, i)
          /\ saved' = box'
          /\ call' = [id |-> i, key |-> box.entries[i].cmd.key,
                      req |-> RequestOf(box.entries[i].cmd), answer |-> NoAnswer]
    BY <1>4 DEF SendOne
  <2>2. /\ drain' = "awaiting" /\ turn' = "free" /\ client' = client /\ wake' = wake
        /\ reviewed' = reviewed
    BY <1>4 DEF SendOne, Driving, historyVars
  <2>3. BoxTyped'
    BY <1>1, <2>1, DispatchedState DEF BoxTyped
  <2>4. i \in Ids(box) /\ Resolvable(box, box.entries[i].cmd)
    BY DEF Dispatchable, Ready
  <2>5. i \in Nat /\ box.entries[i].cmd \in Commands
    <3>1. box.nextId \in Nat /\ i \in 1..(box.nextId - 1) /\ box.entries[i] \in Entries
      BY <1>1, <2>4, StateFields DEF BoxTyped
    <3> QED BY <3>1, EntryFields
  <2>6. /\ RequestOf(box.entries[i].cmd) \in PhoneRequests
        /\ RequestOf(box.entries[i].cmd).type = box.entries[i].cmd.type
    BY <1>1, <2>4, <2>5, RequestType DEF BoxTyped
  <2>7. box.entries[i].cmd.key \in Keys \cup {NoKey}
    BY <2>5, CommandParts
  <2>8. call' \in Calls /\ call' # NoCall
    BY <2>1, <2>5, <2>6, <2>7, NoCallAssumption DEF Calls
  <2>9. DriverTyped'
    BY <1>1, <1>2, <2>2, <2>8 DEF DriverTyped
  <2>10. Awaited'
    <3>1. /\ i \in Ids(box') /\ box'.entries[i].inFlight
          /\ box'.entries[i].cmd = box.entries[i].cmd
      BY <1>1, <2>1, <2>4, DispatchedParts DEF BoxTyped
    <3> QED BY <2>1, <2>6, <3>1 DEF Awaited
  <2> QED BY <1>3, <2>3, <2>9, <2>10, TypeParts
<1>5. CASE SendFailsToSave
  <2>1. PICK i \in Dispatchable(box) : box' = Dispatched(box, i)
    BY <1>5 DEF SendFailsToSave
  <2>2. /\ saved' = saved /\ drain' = drain /\ call' = call /\ drain = "running"
        /\ turn' = "ending" /\ client' = client /\ wake' = wake /\ reviewed' = reviewed
    BY <1>5 DEF SendFailsToSave, Driving, historyVars
  <2>3. BoxTyped'
    BY <1>1, <2>1, <2>2, DispatchedState DEF BoxTyped
  <2>4. DriverTyped' /\ Awaited'
    BY <1>1, <1>2, <2>2 DEF DriverTyped, Awaited
  <2> QED BY <1>3, <2>3, <2>4, TypeParts
<1>6. CASE FindsNothing
  <2>1. /\ box' = box /\ saved' = saved /\ drain' = drain /\ call' = call
        /\ turn' = "ending" /\ client' = client /\ wake' = wake /\ reviewed' = reviewed
    BY <1>6 DEF FindsNothing, Driving, historyVars
  <2>2. BoxTyped' /\ DriverTyped' /\ Awaited'
    BY <1>1, <1>2, <2>1 DEF BoxTyped, DriverTyped, Awaited
  <2> QED BY <1>3, <2>2, TypeParts
<1>7. CASE DrainEnds
  <2>1. /\ box' = box /\ saved' = saved /\ drain' = "none" /\ call' = call
        /\ turn = "ending" /\ turn' = "free" /\ client' = client
        /\ wake' = HasWake(box) /\ reviewed' = reviewed
    BY <1>7 DEF DrainEnds, Ending, historyVars
  <2>2. HasWake(box) \in BOOLEAN
    BY DEF HasWake
  <2>3. BoxTyped' /\ Awaited'
    BY <1>1, <2>1 DEF BoxTyped, Awaited
  <2>4. DriverTyped'
    BY <1>1, <1>2, <2>1, <2>2 DEF DriverTyped, Looping
  <2> QED BY <1>3, <2>3, <2>4, TypeParts
<1>8. CASE Return
  <2>1. /\ call # NoCall /\ call.answer # NoAnswer
        /\ Complete(call.id, call.answer) /\ call' = NoCall
        /\ turn' = "loop" /\ drain' = "running" /\ client' = client /\ wake' = wake
        /\ reviewed' = reviewed
    BY <1>8 DEF Return, historyVars
  <2>2. /\ call.id \in Ids(box) /\ box' = Completed(box, call.id, call.answer)
        /\ saved' \in {box', saved}
    BY <2>1 DEF Complete, Persist
  <2>3. call.answer \in OutcomesOf(box.entries[call.id].cmd, Nat)
    BY <2>1 DEF Awaited
  <2>4. IsState(Completed(box, call.id, call.answer))
    BY <1>1, <2>2, <2>3, CompletedGentle DEF Gentle, BoxTyped
  <2>5. BoxTyped'
    BY <1>1, <2>2, <2>4 DEF BoxTyped
  <2>6. DriverTyped' /\ Awaited'
    BY <1>1, <1>2, <2>1 DEF DriverTyped, Awaited
  <2> QED BY <1>3, <2>5, <2>6, TypeParts
<1>9. CASE WakeFires
  <2>1. /\ box' = box /\ saved' = saved /\ drain' = Kicked(drain) /\ call' = call
        /\ turn' = turn /\ client' = client /\ wake' = FALSE /\ reviewed' = reviewed
    BY <1>9 DEF WakeFires, historyVars
  <2>2. BoxTyped' /\ DriverTyped' /\ Awaited'
    BY <1>1, <1>2, <2>1 DEF BoxTyped, DriverTyped, Awaited, Kicked
  <2> QED BY <1>3, <2>2, TypeParts
<1>10. ASSUME NEW i \in Ids(box), TimePasses(i) PROVE TypeOK' /\ Awaited'
  <2>1. /\ box' = Due(box, i) /\ saved' \in {Due(saved, i), saved}
        /\ i \notin Ids(saved) => saved' = saved
        /\ drain' = drain /\ call' = call /\ turn' = turn /\ client' = client
        /\ wake' = wake /\ reviewed' = reviewed
    BY <1>10 DEF TimePasses, RetryDue, driverVars, historyVars
  <2>2. IsState(box') /\ Holds(box, box')
    BY <1>1, <2>1, DueGentle, FlagsHold DEF BoxTyped, Gentle
  <2>3. IsState(saved')
    BY <1>1, <2>1, DueGentle DEF BoxTyped, Gentle
  <2>4. DriverTyped'
    BY <1>1, <1>2, <2>1 DEF DriverTyped
  <2>5. Awaited'
    BY <2>1, <2>2, AwaitedStays
  <2> QED BY <1>3, <2>2, <2>3, <2>4, <2>5, TypeParts DEF BoxTyped
<1>11. CASE Expedite
  <2>1. /\ box' = Expedited(box) /\ saved' \in {box', saved}
        /\ drain' = Kicked(drain) /\ call' = call /\ turn' = turn /\ client' = client
        /\ wake' = wake /\ reviewed' = reviewed
    BY <1>11 DEF Expedite, ExpediteRetries, Persist, historyVars
  <2>2. BoxTyped' /\ Holds(box, box')
    BY <1>1, <2>1, ExpeditedGentle, FlagsHold DEF BoxTyped, Gentle
  <2>3. DriverTyped'
    BY <1>1, <1>2, <2>1 DEF DriverTyped, Kicked
  <2>4. Awaited'
    BY <2>1, <2>2, AwaitedStays
  <2> QED BY <1>3, <2>2, <2>3, <2>4, TypeParts
<1>12. CASE SaveToken
  <2>1. /\ box' = Resumed(box) /\ saved' \in {box', saved}
        /\ drain' = (IF drain = "none" THEN "running" ELSE drain)
        /\ call' = call /\ turn' = turn /\ client' = TRUE
        /\ wake' = wake /\ reviewed' = reviewed
    BY <1>12 DEF SaveToken, Resume, Persist, historyVars
  <2>2. BoxTyped' /\ Holds(box, box')
    BY <1>1, <2>1, ResumedGentle, FlagsHold DEF BoxTyped, Gentle
  <2>3. DriverTyped'
    BY <1>1, <1>2, <2>1 DEF DriverTyped
  <2>4. Awaited'
    BY <2>1, <2>2, AwaitedStays
  <2> QED BY <1>3, <2>2, <2>3, <2>4, TypeParts
<1>13. CASE ClearReviews
  <2>1. /\ box' = Cleared(box) /\ saved' \in {box', saved}
        /\ drain' = drain /\ call' = call /\ turn' = turn /\ client' = client
        /\ wake' = wake /\ reviewed' = reviewed \cup box.deadLetters
    BY <1>13 DEF ClearReviews, ClearDeadLetters, Persist, driverVars
  <2>2. BoxTyped' /\ Holds(box, box')
    BY <1>1, <2>1, ClearedGentle, FlagsHold DEF BoxTyped, Gentle
  <2>3. box.deadLetters \subseteq DeadLetters
    BY <1>1 DEF BoxTyped, IsState
  <2>4. DriverTyped'
    BY <1>1, <1>2, <2>1, <2>3 DEF DriverTyped
  <2>5. Awaited'
    BY <2>1, <2>2, AwaitedStays
  <2> QED BY <1>3, <2>2, <2>4, <2>5, TypeParts
<1> QED BY <1>4, <1>5, <1>6, <1>7, <1>8, <1>9, <1>10, <1>11, <1>12, <1>13
        DEF Drive

(* What the phone makes of an answer of the server is an answer its        *)
(* command can get.                                                        *)
LEMMA AnswerKinds ==
  ASSUME NEW cmd \in Commands, NEW req \in PhoneRequests, req.type = cmd.type,
         IsServer(server), NEW answer \in Understood(S!Served(server, req).outcome)
  PROVE  answer \in OutcomesOf(cmd, Nat)
<1>1. S!Served(server, req).outcome \in
        {NotFound, Refused}
          \cup IF req.type = "createTrip" THEN {TripCreated(id) : id \in Nat}
               ELSE {Delivered}
  BY ServedType
<1>2. answer = S!Served(server, req).outcome \/ answer \in {Transient, Unreadable}
  BY DEF Understood
<1> QED BY <1>1, <1>2 DEF OutcomesOf, Failures

(* And so does the network.                                                *)
LEMMA NetworkTyped ==
  ASSUME TypeOK, Awaited, Looping, Network
  PROVE  TypeOK' /\ Awaited' /\ Looping'
<1>1. BoxTyped /\ RecorderTyped /\ DriverTyped /\ IsServer(server)
  BY TypeParts
<1>2. /\ box' = box /\ saved' = saved /\ trip' = trip /\ savedTrip' = savedTrip
      /\ diary' = diary /\ cancelled' = cancelled /\ turn' = turn
      /\ client' = client /\ drain' = drain /\ wake' = wake
      /\ crashes' = crashes /\ reviewed' = reviewed
  BY DEF Network, Served, TurnedAway, TimesOut, ArrivesLate, Networking,
         recorderVars, historyVars
<1>3. BoxTyped' /\ RecorderTyped' /\ Looping'
  BY <1>1, <1>2 DEF BoxTyped, RecorderTyped, Looping, clock
<1>4. ASSUME Waiting, NEW answer \in OutcomesOf(box.entries[call.id].cmd, Nat),
             call' = [call EXCEPT !.answer = answer]
      PROVE  call' \in Calls /\ call' # NoCall /\ Awaited'
  <2>1. call \in Calls /\ call # NoCall
    BY <1>1, <1>4 DEF Waiting, DriverTyped
  <2>2. answer \in Answers
    BY DEF OutcomesOf, Answers, TripCreated
  <2>3. /\ call' \in Calls /\ call'.id = call.id /\ call'.req = call.req
        /\ call'.answer = answer
    BY <1>4, <2>1, <2>2 DEF Calls
  <2> QED BY <1>2, <2>1, <2>3, NoCallAssumption DEF Awaited
<1>5. ASSUME Waiting
      PROVE  /\ call.req \in PhoneRequests
             /\ box.entries[call.id].cmd \in Commands
             /\ call.req.type = box.entries[call.id].cmd.type
             /\ Failures \subseteq OutcomesOf(box.entries[call.id].cmd, Nat)
  <2>1. call \in Calls /\ call.id \in Ids(box)
    BY <1>1, <1>5 DEF Waiting, DriverTyped, Awaited
  <2>2. box.entries[call.id] \in Entries
    BY <1>1, <2>1, StateFields DEF BoxTyped
  <2> QED BY <1>5, <2>1, <2>2, EntryFields DEF Waiting, Awaited, Calls, OutcomesOf
<1>6. ASSUME NEW req \in PhoneRequests, Handles(req) PROVE IsServer(server')
  BY <1>1, <1>6, ServedType DEF Handles
<1>7. CASE Served
  <2>1. /\ Waiting /\ Handles(call.req) /\ late' = late
        /\ \E answer \in Understood(S!Served(server, call.req).outcome) :
             call' = [call EXCEPT !.answer = answer]
    BY <1>7 DEF Served
  <2>2. IsServer(server')
    BY <1>5, <1>6, <2>1
  <2>3. PICK answer \in Understood(S!Served(server, call.req).outcome) :
          call' = [call EXCEPT !.answer = answer]
    BY <2>1
  <2>4. answer \in OutcomesOf(box.entries[call.id].cmd, Nat)
    BY <1>1, <1>5, <2>1, AnswerKinds
  <2>5. call' \in Calls /\ call' # NoCall /\ Awaited'
    BY <1>4, <2>1, <2>3, <2>4
  <2>6. DriverTyped'
    BY <1>1, <1>2, <2>1, <2>5 DEF DriverTyped, Waiting
  <2> QED BY <1>3, <2>2, <2>5, <2>6, TypeParts
<1>8. CASE TurnedAway \/ TimesOut
  <2>1. /\ Waiting /\ server' = server
        /\ \E answer \in Failures : call' = [call EXCEPT !.answer = answer]
    BY <1>8, OutboxSystemAssumption DEF TurnedAway, TimesOut, Failures, serverVars
  <2>2. late' \subseteq PhoneRequests
    BY <1>1, <1>5, <1>8, <2>1 DEF TurnedAway, TimesOut, DriverTyped
  <2>3. PICK answer \in Failures : call' = [call EXCEPT !.answer = answer]
    BY <2>1
  <2>4. call' \in Calls /\ call' # NoCall /\ Awaited'
    BY <1>4, <1>5, <2>1, <2>3
  <2>5. DriverTyped'
    BY <1>1, <1>2, <2>1, <2>2, <2>4 DEF DriverTyped, Waiting
  <2> QED BY <1>1, <1>3, <2>1, <2>4, <2>5, TypeParts
<1>9. CASE ArrivesLate
  <2>1. call' = call /\ \E req \in late : Handles(req) /\ late' = late \ {req}
    BY <1>9 DEF ArrivesLate
  <2>2. IsServer(server')
    BY <1>1, <1>6, <2>1 DEF DriverTyped
  <2>3. late' \subseteq PhoneRequests
    BY <1>1, <2>1 DEF DriverTyped
  <2>4. DriverTyped'
    BY <1>1, <1>2, <2>1, <2>3 DEF DriverTyped
  <2>5. Awaited'
    BY <1>2, <2>1 DEF Awaited
  <2> QED BY <1>3, <2>2, <2>4, <2>5, TypeParts
<1> QED BY <1>7, <1>8, <1>9 DEF Network

(* And a crash.                                                            *)
LEMMA CrashTyped ==
  ASSUME TypeOK, Crash
  PROVE  TypeOK' /\ Awaited' /\ Looping'
<1>1. BoxTyped /\ RecorderTyped /\ DriverTyped /\ IsServer(server)
  BY TypeParts
<1>2. /\ box' = Reloaded(saved) /\ saved' = saved /\ trip' = savedTrip
      /\ savedTrip' = savedTrip /\ diary' = diary /\ cancelled' = cancelled
      /\ turn' = "free" /\ client' = client /\ wake' = FALSE /\ call' = NoCall
      /\ drain' = (IF client THEN "running" ELSE "none") /\ late' = late
      /\ crashes' = crashes + 1 /\ reviewed' = reviewed /\ server' = server
  BY DEF Crash, Relaunch, serverVars, historyVars
<1>3. BoxTyped'
  BY <1>1, <1>2, ReloadedGentle DEF BoxTyped, Gentle
<1>4. RecorderTyped'
  BY <1>1, <1>2 DEF RecorderTyped, clock
<1>5. DriverTyped'
  <2>1. drain' \in {"running", "none"} /\ client' \in BOOLEAN
    BY <1>1, <1>2 DEF DriverTyped
  <2>2. crashes' \in Nat
    BY <1>1, <1>2 DEF DriverTyped
  <2> QED BY <1>1, <1>2, <2>1, <2>2 DEF DriverTyped
<1>6. Awaited' /\ Looping' /\ IsServer(server')
  BY <1>1, <1>2 DEF Awaited, Looping
<1> QED BY <1>3, <1>4, <1>5, <1>6, TypeParts

(* The types hold at the start,                                             *)
LEMMA InitTyped == Init => TypeOK /\ Awaited /\ Looping
<1> SUFFICES ASSUME Init PROVE TypeOK /\ Awaited /\ Looping
  OBVIOUS
<1>1. BoxTyped
  BY DEF Init, BoxTyped, IsState, Empty
<1>2. diary \in Seq(Writings) /\ clock <= MaxClock
  BY OutboxSystemAssumption DEF Init, clock
<1>3. RecorderTyped
  BY <1>2 DEF Init, RecorderTyped
<1>4. DriverTyped
  BY OutboxSystemAssumption DEF Init, DriverTyped
<1>5. IsServer(server)
  BY DEF Init, S!NewServer, IsServer, S!Ids
<1>6. Awaited /\ Looping
  BY DEF Init, Awaited, Looping
<1> QED BY <1>1, <1>3, <1>4, <1>5, <1>6, TypeParts

(* and every step keeps them.                                             *)
LEMMA StepTyped ==
  TypeOK /\ Awaited /\ Looping /\ [Next]_vars => (TypeOK /\ Awaited /\ Looping)'
<1> SUFFICES ASSUME TypeOK, Awaited, Looping, [Next]_vars
             PROVE  TypeOK' /\ Awaited' /\ Looping'
  OBVIOUS
<1>1. CASE UNCHANGED vars
  <2>1. BoxTyped /\ RecorderTyped /\ DriverTyped /\ IsServer(server)
    BY TypeParts
  <2>2. /\ UNCHANGED <<box, saved, server, trip, savedTrip, turn, client, drain, wake>>
        /\ UNCHANGED <<call, late, crashes, diary, cancelled, reviewed>>
    BY <1>1 DEF vars, serverVars, recorderVars, driverVars, historyVars
  <2>3. BoxTyped' /\ RecorderTyped' /\ DriverTyped' /\ IsServer(server')
    BY <2>1, <2>2 DEF BoxTyped, RecorderTyped, DriverTyped, clock
  <2> QED BY <2>2, <2>3, TypeParts DEF Awaited, Looping
<1> QED BY <1>1, RecordTyped, DriveTyped, NetworkTyped, CrashTyped DEF Next

(* Whatever happens to the phone, the network and the server, every part of*)
(* the system holds what its type allows, for any routes, scripts and      *)
(* bounds, also with saves that fail and with answers the server would not *)
(* give.                                                                   *)
THEOREM SystemTypeCorrect == Spec => []TypeOK
BY InitTyped, StepTyped, PTL DEF Spec

-----------------------------------------------------------------------------
(* Nothing is forgotten. *)

(* A sleeping driver has nothing to send and, for what is still to be      *)
(* retried, a timer; unless a handler is about to wake it.                 *)
Rested ==
  client /\ drain = "none" /\ turn = "free" =>
    \/ wake
    \/ box.paused
    \/ Ready(box) = {} /\ \A i \in Ids(box) : ~box.entries[i].waiting

(* The loop ends when it finds nothing to send, and until the timer is set *)
(* nothing turns up.                                                       *)
Exhausted == turn = "ending" /\ client => Ready(box) = {}

Minded == TypeOK /\ Awaited /\ Looping /\ InFlightIsAwaited /\ Rested /\ Exhausted

(* What a step leaves alone keeps what was known of the driver.            *)
LEMMA MindedStays ==
  ASSUME InFlightIsAwaited, Gentle(box, box'), call' = call
  PROVE  InFlightIsAwaited'
BY DEF InFlightIsAwaited, Gentle, KeepsSent, NewComeLast

(* Recording is followed by the saving of the recorder, which wakes the    *)
(* driver.                                                                 *)
LEMMA RecordMinds ==
  ASSUME Minded, Record
  PROVE  InFlightIsAwaited' /\ Rested' /\ Exhausted'
<1>1. BoxTyped /\ RecorderTyped /\ DriverTyped /\ IsServer(server)
  BY TypeParts DEF Minded
<1>2. ASSUME turn' = "persist", Gentle(box, box'), call' = call
      PROVE  InFlightIsAwaited' /\ Rested' /\ Exhausted'
  BY <1>2, MindedStays DEF Minded, Rested, Exhausted
<1>3. ASSUME NEW cmd, NEW key, NEW slot, NEW field, Issues(cmd, key, slot, field)
      PROVE  InFlightIsAwaited' /\ Rested' /\ Exhausted'
  <2>1. Recording /\ Enqueue(cmd) /\ cmd \in Commands
    BY <1>3 DEF Issues
  <2> QED BY <1>1, <1>2, <2>1, EnqueueStep DEF Recording, driverVars
<1>4. CASE EndTrip \/ NothingToRecord
  <2>1. turn' = "persist" /\ box' = box /\ call' = call
    BY <1>4 DEF EndTrip, NothingToRecord, Recording, driverVars
  <2> QED BY <2>1 DEF Minded, InFlightIsAwaited, Rested, Exhausted
<1>5. CASE CancelTrip
  <2>1. /\ trip.key \in Keys /\ turn' = "persist" /\ call' = call
        /\ box' = Discarded(box, trip.key)
    BY <1>1, <1>5 DEF CancelTrip, Recording, driverVars, Discard, Persist,
                      RecorderTyped, Trips
  <2>2. Gentle(box, box')
    BY <1>1, <2>1, DiscardedGentle DEF BoxTyped
  <2> QED BY <1>2, <2>1, <2>2
<1>6. CASE PersistRecorder
  <2>1. /\ box' = box /\ call' = call /\ turn' = "free" /\ client' = client
        /\ drain' = Kicked(drain)
    BY <1>6 DEF PersistRecorder
  <2>2. client' => drain' # "none"
    BY <1>1, <2>1 DEF Kicked, DriverTyped
  <2> QED BY <2>1, <2>2 DEF Minded, InFlightIsAwaited, Rested, Exhausted
<1> QED BY <1>1, <1>3, <1>4, <1>5, <1>6, RecordSteps

(* The driver stops only when there is nothing to send, and sets the timer *)
(* for what is to be retried.                                              *)
LEMMA DriveMinds ==
  ASSUME Minded, Drive, ~SavesMayFail, ~ClockMoves
  PROVE  InFlightIsAwaited' /\ Rested' /\ Exhausted'
<1>1. BoxTyped /\ RecorderTyped /\ DriverTyped /\ IsServer(server)
  BY TypeParts DEF Minded
<1>2. CASE SendOne
  <2>1. PICK i \in Dispatchable(box) :
          /\ box' = Dispatched(box, i)
          /\ call' = [id |-> i, key |-> box.entries[i].cmd.key,
                      req |-> RequestOf(box.entries[i].cmd), answer |-> NoAnswer]
    BY <1>2 DEF SendOne
  <2>2. drain = "running" /\ drain' = "awaiting" /\ turn' = "free"
    BY <1>2 DEF SendOne, Driving
  <2>3. call = NoCall
    BY <1>1, <2>2 DEF DriverTyped
  <2>4. i \in Ids(box)
    BY DEF Dispatchable, Ready
  <2>5. Ids(box') = Ids(box) /\ \A j \in Ids(box) \ {i} : box'.entries[j] = box.entries[j]
    BY <1>1, <2>1, <2>4, DispatchedParts DEF BoxTyped
  <2>6. \A j \in Ids(box') : box'.entries[j].inFlight => j = i
    BY <2>3, <2>5 DEF Minded, InFlightIsAwaited
  <2>7. call'.id = i
    BY <2>1
  <2>8. call' # NoCall
    <3>1. TypeOK' /\ drain' = "awaiting"
      BY <2>2, DriveTyped DEF Minded
    <3> QED BY <3>1 DEF TypeOK
  <2>9. InFlightIsAwaited'
    BY <2>6, <2>7, <2>8 DEF InFlightIsAwaited
  <2> QED BY <2>2, <2>9 DEF Rested, Exhausted
<1>3. CASE SendFailsToSave
  BY <1>3 DEF SendFailsToSave
<1>4. CASE FindsNothing
  <2>1. /\ box' = box /\ call' = call /\ turn' = "ending" /\ client' = client
        /\ ~client \/ Dispatchable(box) = {}
    BY <1>4 DEF FindsNothing, Driving
  <2>2. client => Ready(box) = {}
    BY <1>1, <2>1, SomethingGoes DEF BoxTyped
  <2> QED BY <2>1, <2>2 DEF Minded, InFlightIsAwaited, Rested, Exhausted
<1>5. CASE DrainEnds
  <2>1. /\ box' = box /\ call' = call /\ turn = "ending" /\ turn' = "free"
        /\ client' = client /\ wake' = HasWake(box)
    BY <1>5 DEF DrainEnds, Ending
  <2>2. client => Ready(box) = {}
    BY <2>1 DEF Minded, Exhausted
  <2>3. InFlightIsAwaited' /\ Exhausted'
    BY <2>1 DEF Minded, InFlightIsAwaited, Exhausted
  <2>4. CASE HasWake(box)
    BY <2>1, <2>3, <2>4 DEF Rested
  <2>5. CASE ~HasWake(box)
    BY <2>1, <2>2, <2>3, <2>5 DEF Rested, HasWake
  <2> QED BY <2>4, <2>5
<1>6. CASE Return
  <2>1. /\ call # NoCall /\ call.answer # NoAnswer
        /\ Complete(call.id, call.answer) /\ call' = NoCall
        /\ turn' = "loop"
    BY <1>6 DEF Return
  <2>2. call.id \in Ids(box) /\ box' = Completed(box, call.id, call.answer)
    BY <2>1 DEF Complete, Persist
  <2>3. call.answer \in OutcomesOf(box.entries[call.id].cmd, Nat)
    BY <2>1 DEF Awaited, Minded
  <2>4. Gentle(box, box')
    BY <1>1, <2>2, <2>3, CompletedGentle DEF BoxTyped
  <2>5. call.id \in Ids(box') => ~box'.entries[call.id].inFlight
    BY <1>1, <2>2, <2>3, CompletedEnds DEF BoxTyped
  <2>6. \A i \in Ids(box') : ~box'.entries[i].inFlight
    BY <2>4, <2>5 DEF Minded, InFlightIsAwaited, Gentle, KeepsSent, NewComeLast
  <2> QED BY <2>1, <2>6 DEF InFlightIsAwaited, Rested, Exhausted
<1>7. CASE WakeFires
  <2>1. /\ box' = box /\ call' = call /\ turn = "free" /\ turn' = turn
        /\ client' = client /\ drain' = Kicked(drain)
    BY <1>7 DEF WakeFires
  <2>2. client' => drain' # "none"
    BY <1>1, <2>1 DEF Kicked, DriverTyped
  <2> QED BY <2>1, <2>2 DEF Minded, InFlightIsAwaited, Rested, Exhausted
<1>8. ASSUME NEW i \in Ids(box), TimePasses(i)
      PROVE  InFlightIsAwaited' /\ Rested' /\ Exhausted'
  <2>1. /\ box' = Due(box, i) /\ call' = call /\ turn' = turn /\ turn # "ending"
        /\ client' = client /\ drain' = drain /\ wake' = wake
        /\ box.entries[i].waiting
    BY <1>8 DEF TimePasses, RetryDue, driverVars
  <2>2. Gentle(box, box')
    BY <1>1, <2>1, DueGentle DEF BoxTyped
  <2>3. box'.paused = box.paused
    BY <2>1 DEF Due
  <2>4. InFlightIsAwaited'
    BY <2>1, <2>2, MindedStays DEF Minded
  <2>5. Rested' /\ Exhausted'
    BY <2>1, <2>3 DEF Minded, Rested, Exhausted
  <2> QED BY <2>4, <2>5
<1>9. CASE Expedite
  <2>1. /\ box' = Expedited(box) /\ call' = call /\ turn = "free" /\ turn' = turn
        /\ client' = client /\ drain' = Kicked(drain)
    BY <1>9 DEF Expedite, ExpediteRetries, Persist
  <2>2. client' => drain' # "none"
    BY <1>1, <2>1 DEF Kicked, DriverTyped
  <2>3. InFlightIsAwaited'
    BY <1>1, <2>1, ExpeditedGentle, MindedStays DEF Minded, BoxTyped
  <2> QED BY <2>1, <2>2, <2>3 DEF Rested, Exhausted
<1>10. CASE SaveToken
  <2>1. /\ box' = Resumed(box) /\ call' = call /\ turn = "free" /\ turn' = turn
        /\ drain' = IF drain = "none" THEN "running" ELSE drain
    BY <1>10 DEF SaveToken, Resume, Persist
  <2>2. drain' # "none"
    BY <1>1, <2>1 DEF DriverTyped
  <2>3. InFlightIsAwaited'
    BY <1>1, <2>1, ResumedGentle, MindedStays DEF Minded, BoxTyped
  <2> QED BY <2>1, <2>2, <2>3 DEF Rested, Exhausted
<1>11. CASE ClearReviews
  <2>1. /\ box' = Cleared(box) /\ call' = call /\ turn' = turn
        /\ client' = client /\ drain' = drain /\ wake' = wake
    BY <1>11 DEF ClearReviews, ClearDeadLetters, Persist, driverVars
  <2>2. /\ Ready(box') = Ready(box) /\ box'.entries = box.entries
        /\ box'.paused = box.paused
    BY <1>1, <2>1, ClearedReady DEF BoxTyped
  <2>3. InFlightIsAwaited'
    BY <1>1, <2>1, ClearedGentle, MindedStays DEF Minded, BoxTyped
  <2>4. Ids(box') = Ids(box) /\ \A i \in Ids(box) : box'.entries[i] = box.entries[i]
    BY <2>2 DEF Ids
  <2>5. Rested'
    BY <2>1, <2>2, <2>4 DEF Minded, Rested
  <2>6. Exhausted'
    BY <2>1, <2>2 DEF Minded, Exhausted
  <2> QED BY <2>3, <2>5, <2>6
<1> QED BY <1>2, <1>3, <1>4, <1>5, <1>6, <1>7, <1>8, <1>9, <1>10, <1>11 DEF Drive

(* Neither the network nor a crash leaves anything behind that nobody      *)
(* looks at.                                                               *)
LEMMA RestMinds ==
  ASSUME Minded, Network \/ Crash
  PROVE  InFlightIsAwaited' /\ Rested' /\ Exhausted'
<1>1. BoxTyped /\ RecorderTyped /\ DriverTyped /\ IsServer(server)
  BY TypeParts DEF Minded
<1>2. CASE Network
  <2>1. /\ box' = box /\ turn' = turn /\ client' = client /\ drain' = drain
        /\ wake' = wake
    BY <1>2 DEF Network, Served, TurnedAway, TimesOut, ArrivesLate, Networking
  <2>2. Rested' /\ Exhausted'
    BY <2>1 DEF Minded, Rested, Exhausted
  <2>3. ASSUME NEW a, call # NoCall, call' = [call EXCEPT !.answer = a]
        PROVE  call' # NoCall /\ call'.id = call.id
    <3>1. call \in Calls
      BY <1>1, <2>3 DEF DriverTyped
    <3>2. TypeOK' /\ drain' = "awaiting"
      BY <1>1, <1>2, <2>1, <2>3, NetworkTyped DEF Minded, DriverTyped
    <3> QED BY <2>3, <3>1, <3>2 DEF Calls, TypeOK
  <2>4. call' = call \/ (call' # NoCall /\ call'.id = call.id)
    BY <1>2, <2>3 DEF Network, Served, TurnedAway, TimesOut, ArrivesLate, Waiting
  <2>5. InFlightIsAwaited'
    BY <2>1, <2>4 DEF Minded, InFlightIsAwaited
  <2> QED BY <2>2, <2>5
<1>3. CASE Crash
  <2>1. /\ box' = Reloaded(saved) /\ turn' = "free" /\ client' = client
        /\ drain' = IF client THEN "running" ELSE "none"
    BY <1>3 DEF Crash, Relaunch
  <2>2. \A i \in Ids(box') : ~box'.entries[i].inFlight
    BY <1>1, <2>1, ReloadedGentle DEF BoxTyped
  <2> QED BY <2>1, <2>2 DEF InFlightIsAwaited, Rested, Exhausted
<1> QED BY <1>2, <1>3

(* At the start there is nothing to forget,                                *)
LEMMA InitMinded == Init => Minded
<1> SUFFICES ASSUME Init PROVE Minded
  OBVIOUS
<1>1. Ids(box) = {}
  BY DEF Init, Empty, Ids
<1>2. InFlightIsAwaited /\ Rested /\ Exhausted
  BY <1>1 DEF Init, InFlightIsAwaited, Rested, Exhausted, Ready
<1> QED BY <1>2, InitTyped DEF Minded

(* and no step forgets anything.                                           *)
LEMMA StepMinded ==
  ASSUME ~SavesMayFail, ~ClockMoves
  PROVE  Minded /\ [Next]_vars => Minded'
<1> SUFFICES ASSUME Minded, [Next]_vars PROVE Minded'
  OBVIOUS
<1>1. (TypeOK /\ Awaited /\ Looping)'
  BY StepTyped DEF Minded
<1>2. CASE UNCHANGED vars
  <2>1. UNCHANGED <<box, turn, client, drain, wake, call>>
    BY <1>2 DEF vars, driverVars
  <2> QED BY <1>1, <2>1 DEF Minded, InFlightIsAwaited, Rested, Exhausted
<1>3. CASE Next
  BY <1>1, <1>3, RecordMinds, DriveMinds, RestMinds DEF Next, Minded
<1> QED BY <1>2, <1>3

(* Nothing in the queue is forgotten: what is marked in flight is the      *)
(* request the driver awaits, and the driver never sleeps on something it  *)
(* could send.  For any number of trips, crashes, answers and late         *)
(* requests; as long as the file can be written, and the clock is read     *)
(* once for the end of the loop and the timer (Outbox.swift:139).          *)
THEOREM QueueIsMinded ==
  ASSUME ~SavesMayFail, ~ClockMoves
  PROVE  Spec => []NothingForgotten
<1>1. Minded => NothingForgotten
  BY DEF Minded, NothingForgotten, NoForgottenRetry, Rested, Ready
<1> QED BY <1>1, InitMinded, StepMinded, PTL DEF Spec

(***************************************************************************)
(* The queue never locks up.                                               *)
(***************************************************************************)

-----------------------------------------------------------------------------
(* An orderly queue. *)

TypeAt(b, i) == b.entries[i].cmd.type

KeyAt(b, i) == b.entries[i].cmd.key

CreateWaits(b, k) ==
  \E i \in Ids(b) : TypeAt(b, i) = "createTrip" /\ KeyAt(b, i) = k

(* The outbox knows the trip of a key, or is about to make it.             *)
HasTrip(b, k) == k \in DOMAIN b.tripIds \/ CreateWaits(b, k)

CreateFirst(b) ==
  \A i, j \in Ids(b) :
    TypeAt(b, i) = "createTrip" /\ KeyAt(b, j) = KeyAt(b, i) => i <= j

DeleteLast(b) ==
  \A i, j \in Ids(b) :
    TypeAt(b, i) = "deleteTrip" /\ KeyAt(b, j) = KeyAt(b, i) => j <= i

Founded(b) ==
  \A i \in Ids(b) : KeyAt(b, i) \in Keys => HasTrip(b, KeyAt(b, i))

SentDeleteAlone(b) ==
  \A i, j \in Ids(b) :
    /\ TypeAt(b, i) = "deleteTrip"
    /\ b.entries[i].inFlight
    /\ KeyAt(b, j) = KeyAt(b, i)
    => j = i

SentFounded(b) ==
  \A i \in Ids(b) :
    /\ b.entries[i].inFlight
    /\ TypeAt(b, i) # "createTrip"
    /\ KeyAt(b, i) \in Keys
    => KeyAt(b, i) \in DOMAIN b.tripIds

Orderly(b) ==
  /\ CreateFirst(b)
  /\ DeleteLast(b)
  /\ Founded(b)
  /\ SentDeleteAlone(b)
  /\ SentFounded(b)

(* Every trip in the queue was begun at or before instant n.               *)
Dated(b, n) == \A i \in Ids(b) : KeyAt(b, i) \in Keys => KeyAt(b, i)[2] <= n

Deletes(b, k) == \E i \in Ids(b) : TypeAt(b, i) = "deleteTrip" /\ KeyAt(b, i) = k

(* The two ways to say that a delete of the trip is queued agree.          *)
LEMMA DeletingIsDeletes ==
  ASSUME NEW b, NEW k
  PROVE  Deleting(b, k) <=> Deletes(b, k)
BY DEF Deleting, Deletes, OfTrip, IsDelete, TypeAt, KeyAt

(* An operation that touches flags only.                                   *)
SameQueue(b, c) ==
  /\ Ids(c) = Ids(b)
  /\ c.tripIds = b.tripIds
  /\ \A i \in Ids(b) : /\ c.entries[i].cmd = b.entries[i].cmd
                       /\ c.entries[i].inFlight => b.entries[i].inFlight

(* It leaves the queue as orderly as it was.                               *)
LEMMA SameQueueOrderly ==
  ASSUME NEW b, NEW c, SameQueue(b, c)
  PROVE  /\ Orderly(b) => Orderly(c)
         /\ \A k : HasTrip(c, k) <=> HasTrip(b, k)
         /\ \A k : Deletes(c, k) <=> Deletes(b, k)
         /\ \A n : Dated(b, n) => Dated(c, n)
<1>0. /\ Ids(c) = Ids(b) /\ c.tripIds = b.tripIds
      /\ \A i \in Ids(b) : /\ TypeAt(c, i) = TypeAt(b, i)
                           /\ KeyAt(c, i) = KeyAt(b, i)
                           /\ c.entries[i].inFlight => b.entries[i].inFlight
  BY DEF SameQueue, TypeAt, KeyAt
<1>1. \A k : HasTrip(c, k) <=> HasTrip(b, k)
  BY <1>0 DEF HasTrip, CreateWaits
<1>2. \A k : Deletes(c, k) <=> Deletes(b, k)
  BY <1>0 DEF Deletes
<1>3. \A n : Dated(b, n) => Dated(c, n)
  BY <1>0 DEF Dated
<1>4. ASSUME Orderly(b) PROVE Orderly(c)
  <2>1. CreateFirst(c) /\ DeleteLast(c)
    BY <1>0, <1>4 DEF Orderly, CreateFirst, DeleteLast
  <2>2. Founded(c)
    BY <1>0, <1>1, <1>4 DEF Orderly, Founded
  <2>3. SentDeleteAlone(c) /\ SentFounded(c)
    BY <1>0, <1>4 DEF Orderly, SentDeleteAlone, SentFounded
  <2> QED BY <2>1, <2>2, <2>3 DEF Orderly
<1> QED BY <1>1, <1>2, <1>3, <1>4

(* An entry is done with: what depends on its trip still knows the trip.   *)
LEMMA OneLessOrderly ==
  ASSUME NEW b, NEW c, NEW i \in Ids(b), Orderly(b),
         Ids(c) = Ids(b) \ {i},
         \A j \in Ids(c) : c.entries[j] = b.entries[j],
         TypeAt(b, i) = "createTrip" => KeyAt(b, i) \in DOMAIN c.tripIds,
         \/ DOMAIN b.tripIds \subseteq DOMAIN c.tripIds
         \/ /\ TypeAt(b, i) = "deleteTrip"
            /\ b.entries[i].inFlight
            /\ DOMAIN c.tripIds = DOMAIN b.tripIds \ {KeyAt(b, i)}
  PROVE  /\ Orderly(c)
         /\ \A k : HasTrip(b, k) =>
              HasTrip(c, k) \/ (TypeAt(b, i) = "deleteTrip" /\ k = KeyAt(b, i))
         /\ \A k : Deletes(c, k) => Deletes(b, k)
         /\ \A n : Dated(b, n) => Dated(c, n)
<1>1. \A j \in Ids(c) : /\ j \in Ids(b)
                        /\ TypeAt(c, j) = TypeAt(b, j)
                        /\ KeyAt(c, j) = KeyAt(b, j)
                        /\ c.entries[j].inFlight = b.entries[j].inFlight
  BY DEF TypeAt, KeyAt
<1>2. \A j \in Ids(b) : j # i => j \in Ids(c)
  OBVIOUS
<1>3. ASSUME NEW k, HasTrip(b, k), ~(TypeAt(b, i) = "deleteTrip" /\ k = KeyAt(b, i))
      PROVE  HasTrip(c, k)
  <2>1. CASE k \in DOMAIN b.tripIds
    BY <1>3, <2>1 DEF HasTrip
  <2>2. ASSUME NEW j \in Ids(b), TypeAt(b, j) = "createTrip", KeyAt(b, j) = k
        PROVE  HasTrip(c, k)
    BY <1>1, <1>2, <2>2 DEF HasTrip, CreateWaits
  <2> QED BY <1>3, <2>1, <2>2 DEF HasTrip, CreateWaits
<1>4. \A j \in Ids(c) : TypeAt(b, i) = "deleteTrip" /\ b.entries[i].inFlight
                          => KeyAt(b, j) # KeyAt(b, i)
  BY <1>1 DEF Orderly, SentDeleteAlone
<1>5. CreateFirst(c) /\ DeleteLast(c) /\ SentDeleteAlone(c)
  BY <1>1 DEF Orderly, CreateFirst, DeleteLast, SentDeleteAlone
<1>6. \A j \in Ids(c) : KeyAt(b, j) \in DOMAIN b.tripIds =>
                          KeyAt(b, j) \in DOMAIN c.tripIds
  BY <1>4
<1>7. SentFounded(c)
  BY <1>1, <1>6 DEF Orderly, SentFounded
<1>8. Founded(c)
  <2> SUFFICES ASSUME NEW j \in Ids(c), KeyAt(c, j) \in Keys
               PROVE  HasTrip(c, KeyAt(c, j))
    BY DEF Founded
  <2>1. j \in Ids(b) /\ KeyAt(c, j) = KeyAt(b, j) /\ HasTrip(b, KeyAt(b, j))
    BY <1>1 DEF Orderly, Founded
  <2>2. CASE KeyAt(b, j) \in DOMAIN b.tripIds
    BY <1>6, <2>1, <2>2 DEF HasTrip
  <2>3. CASE CreateWaits(b, KeyAt(b, j))
    <3>1. PICK m \in Ids(b) : TypeAt(b, m) = "createTrip" /\ KeyAt(b, m) = KeyAt(b, j)
      BY <2>3 DEF CreateWaits
    <3> QED BY <1>1, <1>2, <2>1, <3>1 DEF HasTrip, CreateWaits
  <2> QED BY <2>1, <2>2, <2>3 DEF HasTrip
<1>9. \A k : Deletes(c, k) => Deletes(b, k)
  BY <1>1 DEF Deletes
<1>10. \A n : Dated(b, n) => Dated(c, n)
  BY <1>1 DEF Dated
<1> QED BY <1>3, <1>5, <1>7, <1>8, <1>9, <1>10 DEF Orderly

-----------------------------------------------------------------------------
(* The operations keep the queue orderly. *)

(* A command of a trip that is known and not being deleted.                *)
LEMMA EnqueuedOrderly ==
  ASSUME NEW b, IsState(b), Orderly(b), NEW cmd \in Commands,
         cmd.type \notin {"createTrip", "deleteTrip"},
         cmd.key \in Keys, HasTrip(b, cmd.key), ~Deletes(b, cmd.key)
  PROVE  LET c == Enqueued(b, cmd) IN
         /\ Orderly(c)
         /\ \A k : HasTrip(b, k) => HasTrip(c, k)
         /\ \A k : Deletes(c, k) => Deletes(b, k)
         /\ \A n : Dated(b, n) /\ cmd.key[2] <= n => Dated(c, n)
<1> DEFINE c == Enqueued(b, cmd)
<1>1. /\ c.tripIds = b.tripIds
      /\ Ids(b) \subseteq Ids(c)
      /\ \A i \in Ids(b) :
           /\ c.entries[i].cmd.type = b.entries[i].cmd.type
           /\ c.entries[i].cmd.key = b.entries[i].cmd.key
           /\ c.entries[i].inFlight = b.entries[i].inFlight
      /\ \A i \in Ids(c) \ Ids(b) :
           /\ i >= b.nextId
           /\ c.entries[i].cmd.type = cmd.type
           /\ c.entries[i].cmd.key = cmd.key
           /\ ~c.entries[i].inFlight
  BY EnqueuedParts
<1> HIDE DEF c
<1>2. \A i \in Ids(b) : /\ i \in Ids(c)
                        /\ TypeAt(c, i) = TypeAt(b, i)
                        /\ KeyAt(c, i) = KeyAt(b, i)
                        /\ c.entries[i].inFlight = b.entries[i].inFlight
  BY <1>1 DEF TypeAt, KeyAt
<1>3. \A i \in Ids(c) \ Ids(b) : /\ TypeAt(c, i) = cmd.type
                                 /\ KeyAt(c, i) = cmd.key
                                 /\ ~c.entries[i].inFlight
  BY <1>1 DEF TypeAt, KeyAt
<1>4. \A i \in Ids(b), j \in Ids(c) \ Ids(b) : i <= j
  <2>1. b.nextId \in Nat /\ Ids(b) \subseteq 1..(b.nextId - 1)
    BY StateFields
  <2>2. IsState(c)
    BY EnqueuedGentle DEF c, Gentle
  <2>3. Ids(c) \subseteq Nat
    <3>1. c.nextId \in Nat /\ Ids(c) \subseteq 1..(c.nextId - 1)
      BY <2>2, StateFields
    <3> QED BY <3>1
  <2> QED BY <1>1, <2>1, <2>3
<1>5. \A k : HasTrip(b, k) => HasTrip(c, k)
  BY <1>1, <1>2 DEF HasTrip, CreateWaits
<1>6. \A k : Deletes(c, k) => Deletes(b, k)
  BY <1>2, <1>3 DEF Deletes
<1>7. CreateFirst(c)
  BY <1>2, <1>3, <1>4 DEF Orderly, CreateFirst
<1>8. DeleteLast(c) /\ SentDeleteAlone(c)
  BY <1>2, <1>3 DEF Orderly, DeleteLast, SentDeleteAlone, Deletes
<1>9. Founded(c)
  BY <1>2, <1>3, <1>5 DEF Orderly, Founded
<1>10. SentFounded(c)
  BY <1>1, <1>2, <1>3 DEF Orderly, SentFounded
<1>11. \A n : Dated(b, n) /\ cmd.key[2] <= n => Dated(c, n)
  BY <1>2, <1>3 DEF Dated
<1> QED BY <1>5, <1>6, <1>7, <1>8, <1>9, <1>10, <1>11 DEF Orderly, c

(* The create of a trip the queue has never seen.                          *)
LEMMA CreateOrderly ==
  ASSUME NEW b, IsState(b), Orderly(b), NEW cmd, cmd.type = "createTrip",
         cmd.key \in Keys, \A i \in Ids(b) : KeyAt(b, i) # cmd.key
  PROVE  LET c == Enqueued(b, cmd) IN
         /\ Orderly(c)
         /\ HasTrip(c, cmd.key)
         /\ \A k : HasTrip(b, k) => HasTrip(c, k)
         /\ \A k : Deletes(c, k) => Deletes(b, k)
         /\ \A n : Dated(b, n) /\ cmd.key[2] <= n => Dated(c, n)
<1> DEFINE c == AppendOne(b, cmd)
           new == b.nextId
<1>1. /\ c = [entries |-> c.entries, tripIds |-> b.tripIds,
                 deadLetters |-> b.deadLetters, nextId |-> b.nextId + 1,
                 paused |-> b.paused]
      /\ Ids(c) = Ids(b) \cup {new}
      /\ new \notin Ids(b)
      /\ c.entries[new] = NewEntry(cmd)
      /\ \A i \in Ids(b) : c.entries[i] = b.entries[i]
  BY AppendOneParts
<1>2. Enqueued(b, cmd) = c
  BY CreateQueued
<1> HIDE DEF c, new
<1>3. c.tripIds = b.tripIds
  BY <1>1
<1>4. /\ TypeAt(c, new) = "createTrip"
      /\ KeyAt(c, new) = cmd.key
      /\ ~c.entries[new].inFlight
  BY <1>1 DEF TypeAt, KeyAt, NewEntry
<1>5. \A i \in Ids(b) : /\ TypeAt(c, i) = TypeAt(b, i)
                        /\ KeyAt(c, i) = KeyAt(b, i)
                        /\ KeyAt(c, i) # cmd.key
                        /\ c.entries[i].inFlight = b.entries[i].inFlight
  BY <1>1 DEF TypeAt, KeyAt
<1>6. new <= new
  <2>1. new \in Nat
    BY StateFields DEF new
  <2> QED BY <2>1
<1>7. \A k : HasTrip(b, k) => HasTrip(c, k)
  BY <1>1, <1>3, <1>5 DEF HasTrip, CreateWaits
<1>8. HasTrip(c, cmd.key)
  BY <1>1, <1>4 DEF HasTrip, CreateWaits
<1>9. \A k : Deletes(c, k) => Deletes(b, k)
  BY <1>1, <1>4, <1>5 DEF Deletes
<1>10. CreateFirst(c) /\ DeleteLast(c) /\ SentDeleteAlone(c)
  BY <1>1, <1>4, <1>5, <1>6 DEF Orderly, CreateFirst, DeleteLast, SentDeleteAlone
<1>11. Founded(c) /\ SentFounded(c)
  BY <1>1, <1>3, <1>4, <1>5, <1>7, <1>8 DEF Orderly, Founded, SentFounded
<1>12. \A n : Dated(b, n) /\ cmd.key[2] <= n => Dated(c, n)
  BY <1>1, <1>4, <1>5 DEF Dated
<1> QED BY <1>2, <1>7, <1>8, <1>9, <1>10, <1>11, <1>12 DEF Orderly

(* Discarding a trip: what stays is under way or may have reached the      *)
(* server, and then the outbox knows the trip, or makes it first.          *)
LEMMA DiscardedOrderly ==
  ASSUME NEW b, IsState(b), Orderly(b), NEW key \in Keys,
         HasTrip(b, key), ~Deletes(b, key)
  PROVE  LET c == Discarded(b, key) IN
         /\ Orderly(c)
         /\ \A n : Dated(b, n) /\ key[2] <= n => Dated(c, n)
<1> DEFINE c == Discarded(b, key)
           new == b.nextId
           landed == CreateMayHaveLanded(b, key)
           gone == Discardable(b, key)
           needed == ~Deleting(b, key) /\ (key \in DOMAIN b.tripIds \/ landed)
<1>1. /\ c.tripIds = b.tripIds
      /\ new \notin Ids(b)
      /\ Ids(c) = (Ids(b) \ gone) \cup IF needed THEN {new} ELSE {}
      /\ \A i \in Ids(b) \ gone : c.entries[i] = b.entries[i]
      /\ needed => c.entries[new] = NewEntry([type |-> "deleteTrip", key |-> key])
  BY DiscardedParts
<1>2. needed <=> key \in DOMAIN b.tripIds \/ landed
  BY DeletingIsDeletes
<1>3. new <= new /\ \A i \in Ids(b) : i <= new
  <2>1. b.nextId \in Nat /\ Ids(b) \subseteq 1..(b.nextId - 1)
    BY StateFields
  <2> QED BY <2>1
<1>4. landed <=> \E i \in Ids(b) : /\ KeyAt(b, i) = key
                                   /\ TypeAt(b, i) = "createTrip"
                                   /\ b.entries[i].inFlight \/ b.entries[i].failures > 0
  BY DEF CreateMayHaveLanded, OfTrip, TypeAt, KeyAt
<1>5. \A i \in Ids(b) :
        i \in gone <=> /\ KeyAt(b, i) = key
                       /\ ~b.entries[i].inFlight
                       /\ TypeAt(b, i) # "deleteTrip"
                       /\ TypeAt(b, i) = "createTrip" => ~landed
  BY DEF Discardable, OfTrip, TypeAt, KeyAt, IsDelete
<1> HIDE DEF c, new, needed, gone, landed
<1>6. \A i \in Ids(b) \ gone : /\ i \in Ids(c)
                               /\ TypeAt(c, i) = TypeAt(b, i)
                               /\ KeyAt(c, i) = KeyAt(b, i)
                               /\ c.entries[i].inFlight = b.entries[i].inFlight
  BY <1>1 DEF TypeAt, KeyAt
<1>7. needed => /\ new \in Ids(c)
                /\ TypeAt(c, new) = "deleteTrip"
                /\ KeyAt(c, new) = key
                /\ ~c.entries[new].inFlight
  BY <1>1 DEF TypeAt, KeyAt, NewEntry
<1>8. \A i \in Ids(c) : i \in Ids(b) \ gone \/ (needed /\ i = new)
  BY <1>1
<1>9. CreateFirst(c)
  BY <1>3, <1>6, <1>7, <1>8 DEF Orderly, CreateFirst
<1>10. DeleteLast(c)
  BY <1>3, <1>6, <1>7, <1>8 DEF Orderly, DeleteLast, Deletes
<1>11. SentDeleteAlone(c)
  BY <1>6, <1>7, <1>8 DEF Orderly, SentDeleteAlone, Deletes
<1>12. SentFounded(c)
  BY <1>1, <1>6, <1>7, <1>8 DEF Orderly, SentFounded
<1>13. landed => CreateWaits(c, key)
  BY <1>4, <1>5, <1>6 DEF CreateWaits
<1>14. Founded(c)
  <2> SUFFICES ASSUME NEW i \in Ids(c), KeyAt(c, i) \in Keys
               PROVE  HasTrip(c, KeyAt(c, i))
    BY DEF Founded
  <2>1. CASE needed /\ i = new
    BY <1>1, <1>2, <1>7, <1>13, <2>1 DEF HasTrip
  <2>2. CASE i \in Ids(b) \ gone /\ KeyAt(b, i) # key
    <3>1. KeyAt(c, i) = KeyAt(b, i) /\ HasTrip(b, KeyAt(b, i))
      BY <1>6, <2>2 DEF Orderly, Founded
    <3>2. ASSUME NEW j \in Ids(b), TypeAt(b, j) = "createTrip",
                 KeyAt(b, j) = KeyAt(b, i)
          PROVE  CreateWaits(c, KeyAt(b, i))
      BY <1>5, <1>6, <2>2, <3>2 DEF CreateWaits
    <3> QED BY <1>1, <3>1, <3>2 DEF HasTrip, CreateWaits
  <2>3. CASE i \in Ids(b) \ gone /\ KeyAt(b, i) = key /\ TypeAt(b, i) = "createTrip"
    BY <1>6, <2>3 DEF HasTrip, CreateWaits
  <2>4. CASE i \in Ids(b) \ gone /\ KeyAt(b, i) = key /\ TypeAt(b, i) # "createTrip"
    <3>1. TypeAt(b, i) # "deleteTrip"
      BY <2>4 DEF Deletes
    <3>2. b.entries[i].inFlight
      BY <1>5, <2>4, <3>1
    <3>3. key \in DOMAIN b.tripIds
      BY <2>4, <3>2 DEF Orderly, SentFounded
    <3> QED BY <1>1, <1>6, <2>4, <3>3 DEF HasTrip
  <2> QED BY <1>8, <2>1, <2>2, <2>3, <2>4
<1>15. \A n : Dated(b, n) /\ key[2] <= n => Dated(c, n)
  BY <1>6, <1>7, <1>8 DEF Dated
<1> QED BY <1>9, <1>10, <1>11, <1>12, <1>14, <1>15 DEF Orderly, c

(* What goes out knows its trip, and a delete goes out alone.              *)
LEMMA DispatchedOrderly ==
  ASSUME NEW b, IsState(b), Orderly(b), NEW i \in Dispatchable(b)
  PROVE  LET c == Dispatched(b, i) IN
         /\ Orderly(c)
         /\ \A k : HasTrip(b, k) => HasTrip(c, k)
         /\ \A k : Deletes(c, k) => Deletes(b, k)
         /\ \A n : Dated(b, n) => Dated(c, n)
<1> DEFINE c == Dispatched(b, i)
<1>1. /\ i \in Ids(b)
      /\ IsDelete(b.entries[i].cmd) => AloneInTrip(b, i)
      /\ Resolvable(b, b.entries[i].cmd)
  BY DEF Dispatchable, Ready
<1>2. /\ TypeAt(b, i) = "deleteTrip" =>
           \A j \in Ids(b) : KeyAt(b, j) = KeyAt(b, i) => j = i
      /\ TypeAt(b, i) # "createTrip" /\ KeyAt(b, i) \in Keys =>
           KeyAt(b, i) \in DOMAIN b.tripIds
  BY <1>1, OutboxAssumption DEF IsDelete, AloneInTrip, Resolvable, TypeAt, KeyAt
<1>3. /\ c = [entries |-> c.entries, tripIds |-> b.tripIds,
                 deadLetters |-> b.deadLetters, nextId |-> b.nextId,
                 paused |-> b.paused]
      /\ Ids(c) = Ids(b)
      /\ \A j \in Ids(b) \ {i} : c.entries[j] = b.entries[j]
      /\ c.entries[i].cmd = b.entries[i].cmd
  BY <1>1, DispatchedParts
<1> HIDE DEF c
<1>4. c.tripIds = b.tripIds
  BY <1>3
<1>5. \A j \in Ids(b) : /\ TypeAt(c, j) = TypeAt(b, j)
                        /\ KeyAt(c, j) = KeyAt(b, j)
                        /\ j # i => c.entries[j].inFlight = b.entries[j].inFlight
  BY <1>3 DEF TypeAt, KeyAt
<1>6. \A k : HasTrip(c, k) <=> HasTrip(b, k)
  BY <1>3, <1>4, <1>5 DEF HasTrip, CreateWaits
<1>7. \A k : Deletes(c, k) => Deletes(b, k)
  BY <1>3, <1>5 DEF Deletes
<1>8. \A n : Dated(b, n) => Dated(c, n)
  BY <1>3, <1>5 DEF Dated
<1>9. CreateFirst(c) /\ DeleteLast(c) /\ Founded(c)
  BY <1>3, <1>5, <1>6 DEF Orderly, CreateFirst, DeleteLast, Founded
<1>10. SentDeleteAlone(c)
  BY <1>2, <1>3, <1>5 DEF Orderly, SentDeleteAlone
<1>11. SentFounded(c)
  BY <1>2, <1>3, <1>4, <1>5 DEF Orderly, SentFounded
<1> QED BY <1>6, <1>7, <1>8, <1>9, <1>10, <1>11 DEF Orderly, c

(* A create is never refused for good, so what an answer does leaves the   *)
(* rest of the queue with its trips.                                       *)
Accepted(cmd, outcome) ==
  cmd.type = "createTrip" => outcome \notin {NotFound, Refused, Unreadable}

(* So does the completion of what was in flight, unless it refuses a       *)
(* create.                                                                 *)
LEMMA CompletedOrderly ==
  ASSUME NEW b, IsState(b), Orderly(b), NEW i \in Ids(b), b.entries[i].inFlight,
         NEW outcome \in OutcomesOf(b.entries[i].cmd, Nat),
         Accepted(b.entries[i].cmd, outcome)
  PROVE  LET c == Completed(b, i, outcome) IN
         /\ Orderly(c)
         /\ \A k : HasTrip(b, k) => HasTrip(c, k) \/ Deletes(b, k)
         /\ \A k : Deletes(c, k) => Deletes(b, k)
         /\ \A n : Dated(b, n) => Dated(c, n)
<1> DEFINE c == Completed(b, i, outcome)
           cmd == b.entries[i].cmd
<1>0. TypeAt(b, i) = cmd.type /\ KeyAt(b, i) = cmd.key
  BY DEF TypeAt, KeyAt
<1>1. CASE \E id \in Nat : c = AfterTripCreated(b, i, id)
  <2>1. PICK id \in Nat : c = AfterTripCreated(b, i, id)
    BY <1>1
  <2> DEFINE d == AfterTripCreated(b, i, id)
  <2>2. /\ Ids(d) = Ids(b) \ {i}
        /\ \A j \in Ids(d) : d.entries[j] = b.entries[j]
        /\ DOMAIN d.tripIds = DOMAIN b.tripIds \cup {b.entries[i].cmd.key}
    BY TripCreatedParts
  <2> HIDE DEF c, d
  <2>3. c = d
    BY <2>1 DEF d
  <2> HIDE DEF cmd
  <2>4. /\ Orderly(d)
        /\ \A k : HasTrip(b, k) =>
              HasTrip(d, k) \/ (TypeAt(b, i) = "deleteTrip" /\ k = KeyAt(b, i))
        /\ \A k : Deletes(d, k) => Deletes(b, k)
        /\ \A n : Dated(b, n) => Dated(d, n)
    BY <2>2, OneLessOrderly DEF TypeAt, KeyAt
  <2> QED BY <2>3, <2>4 DEF Deletes, c
<1>2. CASE c = AfterDelivered(b, i) /\ cmd.type # "createTrip"
  <2> DEFINE d == AfterDelivered(b, i)
  <2>1. /\ Ids(d) = Ids(b) \ {i}
        /\ \A j \in Ids(d) : d.entries[j] = b.entries[j]
        /\ DOMAIN d.tripIds = IF IsDelete(b.entries[i].cmd)
                              THEN DOMAIN b.tripIds \ {b.entries[i].cmd.key}
                              ELSE DOMAIN b.tripIds
    BY DeliveredParts
  <2> HIDE DEF c, d
  <2>2. c = d
    BY <1>2 DEF d
  <2>3. TypeAt(b, i) # "createTrip"
    BY <1>0, <1>2
  <2>4. \/ DOMAIN b.tripIds \subseteq DOMAIN d.tripIds
        \/ /\ TypeAt(b, i) = "deleteTrip"
           /\ b.entries[i].inFlight
           /\ DOMAIN d.tripIds = DOMAIN b.tripIds \ {KeyAt(b, i)}
    BY <2>1 DEF IsDelete, TypeAt, KeyAt
  <2> HIDE DEF cmd
  <2>5. /\ Orderly(d)
        /\ \A k : HasTrip(b, k) =>
              HasTrip(d, k) \/ (TypeAt(b, i) = "deleteTrip" /\ k = KeyAt(b, i))
        /\ \A k : Deletes(d, k) => Deletes(b, k)
        /\ \A n : Dated(b, n) => Dated(d, n)
    BY <2>1, <2>3, <2>4, OneLessOrderly
  <2> QED BY <2>2, <2>5 DEF Deletes, c
<1>3. CASE c \in {AfterRetry(b, i), AfterPause(b, i)}
  <2> HIDE DEF c
  <2>1. /\ c = [entries |-> c.entries, tripIds |-> b.tripIds,
                 deadLetters |-> b.deadLetters, nextId |-> b.nextId,
                 paused |-> c.paused]
        /\ Ids(c) = Ids(b)
        /\ \A j \in Ids(b) \ {i} : c.entries[j] = b.entries[j]
        /\ c.entries[i].cmd = b.entries[i].cmd
        /\ ~c.entries[i].inFlight
    BY <1>3, PutBackParts
  <2>2. c.tripIds = b.tripIds
    BY <2>1
  <2>3. SameQueue(b, c)
    BY <2>1, <2>2 DEF SameQueue, TypeAt, KeyAt
  <2> QED BY <2>3, SameQueueOrderly DEF c
<1>4. CASE c = AfterReject(b, i) /\ cmd.type # "createTrip"
  <2> DEFINE d == AfterReject(b, i)
  <2>1. /\ d = [entries |-> d.entries, tripIds |-> b.tripIds,
                 deadLetters |-> d.deadLetters, nextId |-> b.nextId,
                 paused |-> b.paused]
        /\ Ids(d) = Ids(b) \ ({i} \cup Dependents(b, i))
        /\ \A j \in Ids(d) : d.entries[j] = b.entries[j]
    BY RejectParts
  <2>2. Dependents(b, i) = {}
    BY <1>4 DEF Dependents
  <2> HIDE DEF c, d
  <2>3. c = d /\ d.tripIds = b.tripIds
    BY <1>4, <2>1 DEF d
  <2>4. TypeAt(b, i) # "createTrip" /\ Ids(d) = Ids(b) \ {i}
    BY <1>0, <1>4, <2>1, <2>2
  <2> HIDE DEF cmd
  <2>5. /\ Orderly(d)
        /\ \A k : HasTrip(b, k) =>
              HasTrip(d, k) \/ (TypeAt(b, i) = "deleteTrip" /\ k = KeyAt(b, i))
        /\ \A k : Deletes(d, k) => Deletes(b, k)
        /\ \A n : Dated(b, n) => Dated(d, n)
    BY <2>1, <2>3, <2>4, OneLessOrderly
  <2> QED BY <2>3, <2>5 DEF Deletes, c
<1>5. \/ \E id \in Nat : c = AfterTripCreated(b, i, id)
      \/ c = AfterDelivered(b, i) /\ cmd.type # "createTrip"
      \/ c \in {AfterRetry(b, i), AfterPause(b, i)}
      \/ c = AfterReject(b, i) /\ cmd.type # "createTrip"
  BY CompletedCases DEF Accepted
<1> QED BY <1>1, <1>2, <1>3, <1>4, <1>5

(* The flags do not matter.                                                *)
LEMMA FlagsOrderly ==
  ASSUME NEW b, IsState(b)
  PROVE  /\ SameQueue(b, Resumed(b))
         /\ SameQueue(b, Cleared(b))
         /\ SameQueue(b, Expedited(b))
         /\ SameQueue(b, Reloaded(b))
         /\ \A i \in Ids(b) : SameQueue(b, Due(b, i))
<1>1. \A i \in Ids(b) : b.entries[i] \in Entries
  BY StateFields
<1>2. SameQueue(b, Resumed(b)) /\ SameQueue(b, Cleared(b))
  <2>1. /\ Resumed(b).entries = b.entries /\ Resumed(b).tripIds = b.tripIds
        /\ Cleared(b).entries = b.entries /\ Cleared(b).tripIds = b.tripIds
    BY StateDomain DEF IsState, Resumed, Cleared
  <2> QED BY <2>1 DEF SameQueue, Ids, TypeAt, KeyAt
<1>3. SameQueue(b, Expedited(b))
  <2> DEFINE f == [i \in Ids(b) |-> [b.entries[i] EXCEPT !.waiting = FALSE]]
  <2>1. Expedited(b).entries = f /\ Expedited(b).tripIds = b.tripIds
    BY StateDomain DEF IsState, Expedited
  <2>2. DOMAIN f = Ids(b) /\ \A i \in Ids(b) : /\ f[i].cmd = b.entries[i].cmd
                                              /\ f[i].inFlight = b.entries[i].inFlight
    BY <1>1 DEF Entries
  <2> HIDE DEF f
  <2> QED BY <2>1, <2>2 DEF SameQueue, Ids, TypeAt, KeyAt
<1>4. SameQueue(b, Reloaded(b))
  <2> DEFINE c == Reloaded(b)
  <2>1. /\ c = [entries |-> c.entries, tripIds |-> b.tripIds,
                 deadLetters |-> b.deadLetters, nextId |-> b.nextId,
                 paused |-> b.paused]
         /\ Ids(c) = Ids(b)
         /\ \A i \in Ids(b) : /\ c.entries[i].cmd = b.entries[i].cmd
                              /\ ~c.entries[i].inFlight
    BY ReloadedParts
  <2> HIDE DEF c
  <2>2. c.tripIds = b.tripIds
    BY <2>1
  <2>3. SameQueue(b, c)
    BY <2>1, <2>2 DEF SameQueue, TypeAt, KeyAt
  <2> QED BY <2>3 DEF c
<1>5. ASSUME NEW i \in Ids(b) PROVE SameQueue(b, Due(b, i))
  <2> DEFINE f == [b.entries EXCEPT ![i] = [b.entries[i] EXCEPT !.waiting = FALSE]]
  <2>1. Due(b, i).entries = f /\ Due(b, i).tripIds = b.tripIds
    BY StateDomain DEF IsState, Due
  <2>2. DOMAIN f = Ids(b) /\ \A j \in Ids(b) : /\ f[j].cmd = b.entries[j].cmd
                                              /\ f[j].inFlight = b.entries[j].inFlight
    BY <1>1 DEF Entries, Ids
  <2> HIDE DEF f
  <2> QED BY <2>1, <2>2 DEF SameQueue, Ids, TypeAt, KeyAt
<1> QED BY <1>2, <1>3, <1>4, <1>5

(* An orderly queue moves: take any entry.  The oldest record of its trip  *)
(* can go out if it is the create, or if the trip's id is known; only a    *)
(* delete must wait, for the GPS points of the trip, and the oldest of     *)
(* these can go out then.                                                  *)
LEMMA OrderlyMoves ==
  ASSUME NEW b, IsState(b), Orderly(b), Ids(b) # {}, ~b.paused,
         \A i \in Ids(b) : ~b.entries[i].inFlight /\ ~b.entries[i].waiting
  PROVE  Ready(b) # {}
<1> DEFINE Sendable(i) == /\ IsLaneHead(b, i)
                          /\ TypeAt(b, i) = "deleteTrip" => AloneInTrip(b, i)
                          /\ Resolvable(b, b.entries[i].cmd)
<1>1. ASSUME NEW i \in Ids(b), Sendable(i) PROVE Ready(b) # {}
  BY <1>1 DEF Ready, IsDelete, TypeAt
<1>2. ASSUME NEW i \in Ids(b)
      PROVE  \E h \in Ids(b) : LaneOf(b, h) = LaneOf(b, i) /\ IsLaneHead(b, h)
  <2> DEFINE T == {j \in Ids(b) : LaneOf(b, j) = LaneOf(b, i)}
  <2>1. b.nextId \in Nat /\ Ids(b) \subseteq 1..(b.nextId - 1)
    BY StateFields
  <2>2. T # {} /\ T \subseteq Nat
    BY <2>1
  <2>3. PICK h \in T : \A j \in T : h <= j
    BY <2>2, Least
  <2> QED BY <2>3 DEF IsLaneHead
<1>3. \A i, j \in Ids(b) :
        LaneOf(b, j) = LaneOf(b, i) <=>
          /\ KeyAt(b, j) = KeyAt(b, i)
          /\ TypeAt(b, j) = "uploadGps" <=> TypeAt(b, i) = "uploadGps"
  BY DEF LaneOf, Lane, TypeAt, KeyAt
<1>4. \A i \in Ids(b) : /\ KeyAt(b, i) \in Keys \cup {NoKey}
                        /\ TypeAt(b, i) # "uploadGps" => KeyAt(b, i) \in Keys
  <2> TAKE i \in Ids(b)
  <2>1. b.entries[i].cmd \in Commands
    BY StateFields, EntryFields
  <2> QED BY <2>1, CommandParts DEF KeyAt, TypeAt
<1>5. \A i \in Ids(b) :
        \/ TypeAt(b, i) = "createTrip"
        \/ TypeAt(b, i) = "uploadGps" /\ KeyAt(b, i) = NoKey
        \/ KeyAt(b, i) \in DOMAIN b.tripIds
        => Resolvable(b, b.entries[i].cmd)
  BY DEF Resolvable, TypeAt, KeyAt
<1> HIDE DEF Sendable
<1>6. ASSUME NEW g \in Ids(b), IsLaneHead(b, g), TypeAt(b, g) = "uploadGps",
             KeyAt(b, g) = NoKey \/ KeyAt(b, g) \in DOMAIN b.tripIds
      PROVE  Sendable(g)
  BY <1>5, <1>6 DEF Sendable
<1>7. ASSUME NEW c \in Ids(b), TypeAt(b, c) = "createTrip"
      PROVE  Sendable(c)
  <2>1. IsLaneHead(b, c)
    BY <1>3, <1>7 DEF Orderly, CreateFirst, IsLaneHead
  <2> QED BY <1>5, <1>7, <2>1 DEF Sendable
<1>8. ASSUME NEW k \in DOMAIN b.tripIds, NEW g \in Ids(b),
             TypeAt(b, g) = "uploadGps", KeyAt(b, g) = k
      PROVE  Ready(b) # {}
  <2>1. PICK h \in Ids(b) : LaneOf(b, h) = LaneOf(b, g) /\ IsLaneHead(b, h)
    BY <1>2
  <2>2. TypeAt(b, h) = "uploadGps" /\ KeyAt(b, h) = k
    BY <1>3, <1>8, <2>1
  <2> QED BY <1>1, <1>6, <2>1, <2>2
<1>9. ASSUME NEW i \in Ids(b), KeyAt(b, i) \in DOMAIN b.tripIds,
             TypeAt(b, i) # "uploadGps"
      PROVE  Ready(b) # {}
  <2>1. PICK h \in Ids(b) : LaneOf(b, h) = LaneOf(b, i) /\ IsLaneHead(b, h)
    BY <1>2
  <2>2. KeyAt(b, h) = KeyAt(b, i) /\ TypeAt(b, h) # "uploadGps"
    BY <1>3, <1>9, <2>1
  <2>3. CASE TypeAt(b, h) # "deleteTrip" \/ AloneInTrip(b, h)
    BY <1>1, <1>5, <1>9, <2>1, <2>2, <2>3 DEF Sendable
  <2>4. CASE TypeAt(b, h) = "deleteTrip" /\ ~AloneInTrip(b, h)
    <3>1. PICK g \in Ids(b) \ {h} : KeyAt(b, g) = KeyAt(b, h)
      BY <2>4 DEF AloneInTrip, KeyAt
    <3>2. g <= h
      BY <2>4, <3>1 DEF Orderly, DeleteLast
    <3>3. g \in Nat /\ h \in Nat
      <4>1. b.nextId \in Nat /\ Ids(b) \subseteq 1..(b.nextId - 1)
        BY StateFields
      <4> QED BY <4>1
    <3>4. TypeAt(b, g) = "uploadGps"
      <4> SUFFICES ASSUME TypeAt(b, g) # "uploadGps" PROVE FALSE
        OBVIOUS
      <4>1. LaneOf(b, g) = LaneOf(b, h)
        BY <1>3, <2>2, <3>1
      <4>2. h <= g
        BY <2>1, <4>1 DEF IsLaneHead
      <4> QED BY <3>1, <3>2, <3>3, <4>2
    <3> QED BY <1>8, <1>9, <2>2, <3>1, <3>4
  <2> QED BY <2>3, <2>4
<1>10. PICK i \in Ids(b) : TRUE
  OBVIOUS
<1>11. CASE KeyAt(b, i) = NoKey
  <2>1. PICK h \in Ids(b) : LaneOf(b, h) = LaneOf(b, i) /\ IsLaneHead(b, h)
    BY <1>2
  <2>2. TypeAt(b, h) = "uploadGps" /\ KeyAt(b, h) = NoKey
    BY <1>3, <1>4, <1>11, <2>1, OutboxAssumption
  <2> QED BY <1>1, <1>6, <2>1, <2>2
<1>12. CASE CreateWaits(b, KeyAt(b, i))
  BY <1>1, <1>7, <1>12 DEF CreateWaits
<1>13. CASE KeyAt(b, i) \in DOMAIN b.tripIds
  BY <1>8, <1>9, <1>13
<1> QED BY <1>4, <1>11, <1>12, <1>13 DEF Orderly, Founded, HasTrip

-----------------------------------------------------------------------------
(* The outbox and its file. *)

(* Two outboxes that differ in what is marked as under way only.           *)
SameRecords(b, c) ==
  /\ Ids(c) = Ids(b)
  /\ c.tripIds = b.tripIds
  /\ c.deadLetters = b.deadLetters
  /\ c.paused = b.paused
  /\ \A i \in Ids(b) : /\ c.entries[i].cmd = b.entries[i].cmd
                       /\ c.entries[i].failures = b.entries[i].failures
                       /\ c.entries[i].waiting = b.entries[i].waiting

(* A retry falls due in the file as well as in memory.                     *)
LEMMA DueInFile ==
  ASSUME NEW b, IsState(b), NEW c, IsState(c), SameRecords(b, c), NEW i \in Ids(b)
  PROVE  SameRecords(Due(b, i), Due(c, i))
<1>1. ASSUME NEW s, IsState(s), i \in Ids(s)
      PROVE  /\ Ids(Due(s, i)) = Ids(s)
             /\ Due(s, i).tripIds = s.tripIds
             /\ Due(s, i).deadLetters = s.deadLetters
             /\ Due(s, i).paused = s.paused
             /\ \A j \in Ids(s) :
                  /\ Due(s, i).entries[j].cmd = s.entries[j].cmd
                  /\ Due(s, i).entries[j].failures = s.entries[j].failures
                  /\ Due(s, i).entries[j].waiting =
                       IF j = i THEN FALSE ELSE s.entries[j].waiting
  <2> DEFINE f == [s.entries EXCEPT ![i] = [s.entries[i] EXCEPT !.waiting = FALSE]]
  <2>1. /\ Due(s, i).entries = f /\ Due(s, i).tripIds = s.tripIds
        /\ Due(s, i).deadLetters = s.deadLetters /\ Due(s, i).paused = s.paused
    BY <1>1, StateDomain DEF IsState, Due
  <2>2. \A j \in Ids(s) : s.entries[j] \in Entries
    BY <1>1, StateFields
  <2>3. DOMAIN f = Ids(s)
    BY DEF Ids
  <2>4. \A j \in Ids(s) : /\ f[j].cmd = s.entries[j].cmd
                          /\ f[j].failures = s.entries[j].failures
                          /\ f[j].waiting = IF j = i THEN FALSE ELSE s.entries[j].waiting
    BY <1>1, <2>2 DEF Ids, Entries
  <2> HIDE DEF f
  <2> QED BY <2>1, <2>3, <2>4 DEF Ids
<1>2. i \in Ids(c)
  BY DEF SameRecords
<1> DEFINE d == Due(b, i)
           e == Due(c, i)
<1>3. /\ Ids(d) = Ids(b) /\ d.tripIds = b.tripIds
      /\ d.deadLetters = b.deadLetters /\ d.paused = b.paused
      /\ \A j \in Ids(b) :
           /\ d.entries[j].cmd = b.entries[j].cmd
           /\ d.entries[j].failures = b.entries[j].failures
           /\ d.entries[j].waiting = IF j = i THEN FALSE ELSE b.entries[j].waiting
  BY <1>1
<1>4. /\ Ids(e) = Ids(c) /\ e.tripIds = c.tripIds
      /\ e.deadLetters = c.deadLetters /\ e.paused = c.paused
      /\ \A j \in Ids(c) :
           /\ e.entries[j].cmd = c.entries[j].cmd
           /\ e.entries[j].failures = c.entries[j].failures
           /\ e.entries[j].waiting = IF j = i THEN FALSE ELSE c.entries[j].waiting
  BY <1>1, <1>2
<1> HIDE DEF d, e
<1>5. SameRecords(d, e)
  BY <1>3, <1>4 DEF SameRecords
<1> QED BY <1>5 DEF d, e

(* A relaunch brings back what is in the file, with nothing under way.     *)
LEMMA RelaunchKeeps ==
  ASSUME NEW b, NEW c, IsState(c), SameRecords(b, c)
  PROVE  /\ SameRecords(Reloaded(c), c)
         /\ SameQueue(b, Reloaded(c))
<1> DEFINE d == Reloaded(c)
<1>1. /\ d = [entries |-> d.entries, tripIds |-> c.tripIds,
                 deadLetters |-> c.deadLetters, nextId |-> c.nextId,
                 paused |-> c.paused]
      /\ Ids(d) = Ids(c)
      /\ \A i \in Ids(c) : /\ d.entries[i].cmd = c.entries[i].cmd
                           /\ d.entries[i].failures = c.entries[i].failures
                           /\ d.entries[i].waiting = c.entries[i].waiting
                           /\ ~d.entries[i].inFlight
  BY ReloadedParts
<1> HIDE DEF d
<1>2. d.tripIds = c.tripIds /\ d.deadLetters = c.deadLetters /\ d.paused = c.paused
  BY <1>1
<1>3. SameRecords(d, c)
  BY <1>1, <1>2 DEF SameRecords
<1>4. SameQueue(b, d)
  BY <1>1, <1>2 DEF SameRecords, SameQueue, TypeAt, KeyAt
<1> QED BY <1>3, <1>4 DEF d

-----------------------------------------------------------------------------
(* The phone keeps its queue orderly. *)

(* The trip being recorded is known to the outbox, and not being deleted.  *)
Tracked ==
  trip # NoTrip => /\ HasTrip(box, trip.key)
                   /\ ~Deletes(box, trip.key)
                   /\ trip.key[2] <= clock

(* Between two events the recorder's file is up to date.                   *)
RecorderSaved == turn # "persist" => savedTrip = trip

(* No create is refused for good.                                          *)
CreatesAccepted ==
  call # NoCall /\ call.req.type = "createTrip" =>
    call.answer \notin {NotFound, Refused, Unreadable}

QueueKept ==
  /\ Orderly(box)
  /\ Dated(box, clock)
  /\ Tracked
  /\ RecorderSaved
  /\ SameRecords(box, saved)
  /\ CreatesAccepted

Kept == TypeOK /\ Awaited /\ Looping /\ QueueKept

(* Files are written, an app does not die between the saves of one event,  *)
(* and beside the server only the network and the check of the token answer*)
Reliable ==
  /\ ~SavesMayFail
  /\ ~CrashInEvent
  /\ OtherAnswers \subseteq {Transient, Unauthorized}

(* An outbox has the records it has.                                       *)
LEMMA SameAsItself == ASSUME NEW b PROVE SameRecords(b, b)
BY DEF SameRecords

(* Recording: a command belongs to the trip being recorded, which is new,  *)
(* or known and not being deleted.                                         *)
LEMMA RecordKeeps ==
  ASSUME Reliable, Kept, Record
  PROVE  QueueKept'
<1>1. BoxTyped /\ RecorderTyped /\ DriverTyped /\ IsServer(server)
  BY TypeParts DEF Kept
<1>2. ASSUME NEW cmd, NEW key, NEW slot, NEW field, Issues(cmd, key, slot, field)
      PROVE  QueueKept'
  <2>1. /\ Recording /\ Writes(key, slot, field) /\ Enqueue(cmd)
        /\ cmd \in Commands /\ cmd.type # "deleteTrip" /\ cmd.key = key
        /\ key \in Keys
        /\ slot \in {TripSlot, GpsSlot} \cup Attempts
        /\ field \in TripFields \cup AttemptFields \cup {"point"}
        /\ trip' \in Trips /\ trip'.key = key
        /\ IF cmd.type = "createTrip" THEN trip = NoTrip /\ key[2] = now
           ELSE trip # NoTrip /\ trip.key = key
    BY <1>2 DEF Issues, IsDelete
  <2>2. Len(diary') = now /\ now \in Times
    BY <1>1, <2>1, WritesStep
  <2>3. clock \in Nat /\ clock' \in Nat /\ clock <= clock' /\ now = clock'
    BY <1>1, <2>2 DEF RecorderTyped, clock, now
  <2>4. box' = Enqueued(box, cmd) /\ saved' = box' /\ IsState(box)
    BY <1>1, <2>1 DEF Enqueue, Persist, Reliable, BoxTyped
  <2>5. Orderly(box) /\ Dated(box, clock) /\ Tracked
    BY DEF Kept, QueueKept
  <2>6. Dated(box, clock')
    <3> SUFFICES ASSUME NEW i \in Ids(box), KeyAt(box, i) \in Keys
                 PROVE  KeyAt(box, i)[2] <= clock'
      BY DEF Dated
    <3>1. KeyAt(box, i)[2] <= clock /\ KeyAt(box, i)[2] \in Int
      BY <2>5, OutboxSystemAssumption DEF Dated, Times
    <3> QED BY <2>3, <3>1
  <2>7. CASE cmd.type = "createTrip"
    <3>1. \A i \in Ids(box) : KeyAt(box, i) # key
      <4> SUFFICES ASSUME NEW i \in Ids(box), KeyAt(box, i) = key PROVE FALSE
        OBVIOUS
      <4>1. key[2] <= clock
        BY <2>1, <2>5 DEF Dated
      <4> QED BY <2>1, <2>3, <2>7, <4>1 DEF now
    <3>2. /\ Orderly(box') /\ HasTrip(box', key)
          /\ \A k : Deletes(box', k) => Deletes(box, k)
          /\ Dated(box, clock') /\ key[2] <= clock' => Dated(box', clock')
      BY <2>1, <2>4, <2>5, <2>7, <3>1, CreateOrderly
    <3>3. key[2] <= clock'
      BY <2>1, <2>3, <2>7
    <3>4. ~Deletes(box', key)
      BY <3>1, <3>2 DEF Deletes
    <3>5. Dated(box', clock') /\ Tracked'
      BY <2>1, <2>6, <3>2, <3>3, <3>4 DEF Tracked
    <3> QED BY <2>1, <2>4, <3>2, <3>5, SameAsItself
            DEF QueueKept, Kept, RecorderSaved, CreatesAccepted, Recording, driverVars
  <2>8. CASE cmd.type # "createTrip"
    <3>1. trip # NoTrip /\ trip.key = key
      BY <2>1, <2>8
    <3>2. HasTrip(box, key) /\ ~Deletes(box, key) /\ key[2] <= clock
      BY <2>5, <3>1 DEF Tracked
    <3>3. /\ Orderly(box') /\ \A k : HasTrip(box, k) => HasTrip(box', k)
          /\ \A k : Deletes(box', k) => Deletes(box, k)
          /\ Dated(box, clock') /\ key[2] <= clock' => Dated(box', clock')
      BY <2>1, <2>4, <2>5, <2>8, <3>2, EnqueuedOrderly
    <3>4. key[2] <= clock'
      <4>1. key[2] \in Int
        BY <2>1, OutboxSystemAssumption DEF Times
      <4> QED BY <2>3, <3>2, <4>1
    <3>5. Dated(box', clock') /\ Tracked'
      BY <2>1, <2>6, <3>2, <3>3, <3>4 DEF Tracked
    <3> QED BY <2>1, <2>4, <3>3, <3>5, SameAsItself
            DEF QueueKept, Kept, RecorderSaved, CreatesAccepted, Recording, driverVars
  <2> QED BY <2>7, <2>8
<1>3. CASE EndTrip \/ NothingToRecord
  <2>1. /\ box' = box /\ saved' = saved /\ diary' = diary
        /\ trip' \in {trip, NoTrip} /\ turn' = "persist"
        /\ call' = call
    BY <1>3 DEF EndTrip, NothingToRecord, Recording, driverVars, historyVars
  <2> QED BY <2>1 DEF Kept, QueueKept, Tracked, RecorderSaved, CreatesAccepted, clock
<1>4. CASE CancelTrip
  <2>1. /\ trip # NoTrip /\ Discard(trip.key) /\ diary' = diary
        /\ trip' = NoTrip /\ turn' = "persist" /\ call' = call
    BY <1>4 DEF CancelTrip, Recording, driverVars
  <2>2. trip.key \in Keys
    BY <1>1, <2>1 DEF RecorderTyped, Trips
  <2>3. box' = Discarded(box, trip.key) /\ saved' = box' /\ IsState(box)
    BY <1>1, <2>1 DEF Discard, Persist, Reliable, BoxTyped
  <2>4. /\ Orderly(box) /\ Dated(box, clock) /\ HasTrip(box, trip.key)
        /\ ~Deletes(box, trip.key) /\ trip.key[2] <= clock
    BY <2>1 DEF Kept, QueueKept, Tracked
  <2>5. Orderly(box') /\ Dated(box', clock)
    BY <2>2, <2>3, <2>4, DiscardedOrderly
  <2> QED BY <2>1, <2>3, <2>5, SameAsItself
          DEF Kept, QueueKept, Tracked, RecorderSaved, CreatesAccepted, clock
<1>5. CASE PersistRecorder
  <2>1. /\ box' = box /\ saved' = saved /\ diary' = diary
        /\ trip' = trip /\ savedTrip' = trip /\ call' = call
    BY <1>5 DEF PersistRecorder, historyVars
  <2> QED BY <2>1 DEF Kept, QueueKept, Tracked, RecorderSaved, CreatesAccepted, clock
<1> QED BY <1>1, <1>2, <1>3, <1>4, <1>5, RecordSteps

(* The driver: what goes out knows its trip, and what comes back leaves the*)
(* rest of the queue with theirs.                                          *)
LEMMA DriveKeeps ==
  ASSUME Reliable, Kept, Drive
  PROVE  QueueKept'
<1>1. BoxTyped /\ RecorderTyped /\ DriverTyped /\ IsServer(server)
  BY TypeParts DEF Kept
<1>2. /\ IsState(box) /\ IsState(saved) /\ Orderly(box) /\ Dated(box, clock)
      /\ Tracked /\ RecorderSaved /\ SameRecords(box, saved) /\ CreatesAccepted
  BY <1>1 DEF BoxTyped, Kept, QueueKept
<1>3. trip' = trip /\ savedTrip' = savedTrip /\ diary' = diary
  BY DEF Drive, SendOne, SendFailsToSave, FindsNothing, DrainEnds, Ending, Driving,
         Return, WakeFires, TimePasses, Expedite, SaveToken, ClearReviews,
         recorderVars, historyVars
<1>4. RecorderSaved'
  <2>1. turn # "persist"  \/ turn' = turn
    BY DEF Drive, SendOne, SendFailsToSave, FindsNothing, DrainEnds, Ending, Driving,
           Return, WakeFires, TimePasses, Expedite, SaveToken, ClearReviews
  <2> QED BY <1>2, <1>3, <2>1 DEF RecorderSaved
<1>5. ASSUME SameQueue(box, box'), SameRecords(box', saved')
      PROVE  /\ Orderly(box') /\ Dated(box', clock') /\ Tracked'
             /\ SameRecords(box, saved)'
  <2>1. /\ Orderly(box) => Orderly(box')
        /\ \A k : HasTrip(box', k) <=> HasTrip(box, k)
        /\ \A k : Deletes(box', k) <=> Deletes(box, k)
        /\ \A n : Dated(box, n) => Dated(box', n)
    BY <1>5, SameQueueOrderly
  <2> QED BY <1>2, <1>3, <1>5, <2>1 DEF Tracked, clock
<1>6. CASE SendOne
  <2>1. PICK i \in Dispatchable(box) :
          /\ box' = Dispatched(box, i)
          /\ saved' = box'
          /\ call' = [id |-> i, key |-> box.entries[i].cmd.key,
                      req |-> RequestOf(box.entries[i].cmd), answer |-> NoAnswer]
    BY <1>6 DEF SendOne
  <2>2. /\ Orderly(box')
        /\ \A k : HasTrip(box, k) => HasTrip(box', k)
        /\ \A k : Deletes(box', k) => Deletes(box, k)
        /\ \A n : Dated(box, n) => Dated(box', n)
    BY <1>2, <2>1, DispatchedOrderly
  <2>3. Dated(box', clock') /\ Tracked'
    BY <1>2, <1>3, <2>2 DEF Tracked, clock
  <2>4. call'.answer = NoAnswer
    BY <2>1
  <2>5. CreatesAccepted'
    BY <2>4, NoCallAssumption DEF CreatesAccepted, Answers, Failures
  <2> QED BY <1>4, <2>1, <2>2, <2>3, <2>5, SameAsItself DEF QueueKept
<1>7. CASE SendFailsToSave
  BY <1>7 DEF SendFailsToSave, Reliable
<1>8. CASE FindsNothing \/ DrainEnds \/ WakeFires
  <2>1. box' = box /\ saved' = saved /\ call' = call
    BY <1>8 DEF FindsNothing, DrainEnds, Ending, WakeFires
  <2> QED BY <1>2, <1>3, <1>4, <2>1 DEF QueueKept, Tracked, CreatesAccepted, clock
<1>9. CASE Return
  <2>1. /\ call # NoCall /\ call.answer # NoAnswer
        /\ Complete(call.id, call.answer) /\ call' = NoCall
    BY <1>9 DEF Return
  <2>2. /\ call.id \in Ids(box) /\ box.entries[call.id].inFlight
        /\ box' = Completed(box, call.id, call.answer) /\ saved' = box'
    BY <2>1 DEF Complete, Persist, Reliable
  <2>3. /\ call.answer \in OutcomesOf(box.entries[call.id].cmd, Nat)
        /\ call.req.type = box.entries[call.id].cmd.type
    BY <2>1 DEF Awaited, Kept
  <2>4. Accepted(box.entries[call.id].cmd, call.answer)
    BY <1>2, <2>1, <2>3 DEF Accepted, CreatesAccepted
  <2>5. /\ Orderly(box')
        /\ \A k : HasTrip(box, k) => HasTrip(box', k) \/ Deletes(box, k)
        /\ \A k : Deletes(box', k) => Deletes(box, k)
        /\ \A n : Dated(box, n) => Dated(box', n)
    BY <1>2, <2>2, <2>3, <2>4, CompletedOrderly
  <2>6. Dated(box', clock') /\ Tracked'
    BY <1>2, <1>3, <2>5 DEF Tracked, clock
  <2>7. CreatesAccepted'
    BY <2>1 DEF CreatesAccepted
  <2> QED BY <1>4, <2>2, <2>5, <2>6, <2>7, SameAsItself DEF QueueKept
<1>10. ASSUME NEW i \in Ids(box), TimePasses(i) PROVE QueueKept'
  <2>1. /\ box' = Due(box, i) /\ call' = call
        /\ saved' = IF i \in Ids(saved) THEN Due(saved, i) ELSE saved
    BY <1>10 DEF TimePasses, RetryDue, driverVars
  <2>2. i \in Ids(saved)
    BY <1>2 DEF SameRecords
  <2>3. SameRecords(box', saved')
    BY <1>2, <2>1, <2>2, DueInFile
  <2>4. SameQueue(box, box')
    BY <1>2, <2>1, FlagsOrderly
  <2> QED BY <1>2, <1>4, <1>5, <2>1, <2>3, <2>4 DEF QueueKept, CreatesAccepted
<1>11. CASE Expedite \/ SaveToken \/ ClearReviews
  <2>1. /\ box' \in {Expedited(box), Resumed(box), Cleared(box)}
        /\ saved' = box' /\ call' = call
    BY <1>11 DEF Expedite, ExpediteRetries, SaveToken, Resume, ClearReviews,
                 ClearDeadLetters, Persist, Reliable, driverVars
  <2>2. SameQueue(box, box')
    BY <1>2, <2>1, FlagsOrderly
  <2> QED BY <1>2, <1>4, <1>5, <2>1, <2>2, SameAsItself DEF QueueKept, CreatesAccepted
<1> QED BY <1>6, <1>7, <1>8, <1>9, <1>10, <1>11 DEF Drive

(* The server makes a trip of every create, or finds the one it made.      *)
LEMMA CreateAccepted ==
  ASSUME NEW s, IsServer(s), NEW req \in PhoneRequests, req.type = "createTrip"
  PROVE  \E id : S!Served(s, req).outcome = TripCreated(id)
<1> DEFINE outcome == S!Served(s, req).outcome
<1>1. \A i \in S!SameKey(s, req) : s.trips[i].tripDate = Today
  BY DEF S!SameKey, IsServer, S!IsTrip
<1>2. \/ \E i \in S!SameKey(s, req) :
           outcome = IF s.trips[i].tripDate = Today THEN TripCreated(i) ELSE Refused
      \/ outcome = TripCreated(s.lastId + 1)
  BY CreateParts
<1> HIDE DEF outcome
<1>3. \E id : outcome = TripCreated(id)
  BY <1>1, <1>2
<1> QED BY <1>3 DEF outcome

(* The network gives a create the server's answer, or one that lets it be  *)
(* sent again.                                                             *)
LEMMA NetworkKeeps ==
  ASSUME Reliable, Kept, Network
  PROVE  QueueKept'
<1>1. BoxTyped /\ RecorderTyped /\ DriverTyped /\ IsServer(server)
  BY TypeParts DEF Kept
<1>2. /\ box' = box /\ saved' = saved /\ trip' = trip /\ savedTrip' = savedTrip
      /\ diary' = diary /\ turn' = turn
  BY DEF Network, Served, TurnedAway, TimesOut, ArrivesLate, Networking,
         recorderVars, historyVars
<1>3. /\ Orderly(box') /\ Dated(box', clock') /\ Tracked' /\ RecorderSaved'
      /\ SameRecords(box, saved)'
  BY <1>2 DEF Kept, QueueKept, Tracked, RecorderSaved, clock
<1>4. ASSUME Waiting, NEW answer, call' = [call EXCEPT !.answer = answer],
             call.req.type = "createTrip" =>
               answer \notin {NotFound, Refused, Unreadable}
      PROVE  CreatesAccepted'
  <2>1. call \in Calls
    BY <1>1, <1>4 DEF Waiting, DriverTyped
  <2>2. call'.req = call.req /\ call'.answer = answer
    BY <1>4, <2>1 DEF Calls
  <2> QED BY <1>4, <2>2 DEF CreatesAccepted
<1>5. CASE Served
  <2>1. Waiting
    BY <1>5 DEF Served
  <2>2. PICK answer \in Understood(S!Served(server, call.req).outcome) :
          call' = [call EXCEPT !.answer = answer]
    BY <1>5 DEF Served
  <2>3. call.req \in PhoneRequests
    BY <1>1, <2>1 DEF Waiting, DriverTyped, Calls
  <2>4. answer \in {S!Served(server, call.req).outcome, Transient}
    BY DEF Understood, Reliable, Transient, Unauthorized, Unreadable
  <2>5. ASSUME call.req.type = "createTrip"
        PROVE  answer \notin {NotFound, Refused, Unreadable}
    <3>1. PICK id : S!Served(server, call.req).outcome = TripCreated(id)
      BY <1>1, <2>3, <2>5, CreateAccepted
    <3>2. answer.type \in {"tripCreated", "transient"}
      BY <2>4, <3>1 DEF TripCreated, Transient
    <3> QED BY <3>2 DEF NotFound, Refused, Unreadable
  <2>6. CreatesAccepted'
    BY <1>4, <2>1, <2>2, <2>5
  <2> QED BY <1>3, <2>6 DEF QueueKept
<1>6. CASE TurnedAway \/ TimesOut
  <2>1. Waiting
    BY <1>6 DEF TurnedAway, TimesOut
  <2>2. PICK answer \in {Transient, Unauthorized} : call' = [call EXCEPT !.answer = answer]
    BY <1>6 DEF TurnedAway, TimesOut, Reliable
  <2>3. answer \notin {NotFound, Refused, Unreadable}
    BY DEF Transient, Unauthorized, NotFound, Refused, Unreadable
  <2>4. CreatesAccepted'
    BY <1>4, <2>1, <2>2, <2>3
  <2> QED BY <1>3, <2>4 DEF QueueKept
<1>7. CASE ArrivesLate
  <2>1. call' = call
    BY <1>7 DEF ArrivesLate
  <2>2. CreatesAccepted'
    BY <2>1 DEF Kept, QueueKept, CreatesAccepted
  <2> QED BY <1>3, <2>2 DEF QueueKept
<1> QED BY <1>5, <1>6, <1>7 DEF Network

(* A crash leaves the queue and the trip being recorded as the files have  *)
(* them, and these belong together.                                        *)
LEMMA CrashKeeps ==
  ASSUME Reliable, Kept, Crash
  PROVE  QueueKept'
<1>1. BoxTyped /\ RecorderTyped /\ DriverTyped /\ IsServer(server)
  BY TypeParts DEF Kept
<1>2. /\ box' = Reloaded(saved) /\ saved' = saved /\ trip' = savedTrip
      /\ savedTrip' = savedTrip /\ diary' = diary /\ call' = NoCall
      /\ turn # "persist"
  BY DEF Crash, Relaunch, historyVars, Reliable
<1>3. SameRecords(box', saved') /\ SameQueue(box, box')
  BY <1>1, <1>2, RelaunchKeeps DEF BoxTyped, Kept, QueueKept
<1>4. /\ Orderly(box) => Orderly(box')
      /\ \A k : HasTrip(box', k) <=> HasTrip(box, k)
      /\ \A k : Deletes(box', k) <=> Deletes(box, k)
      /\ \A n : Dated(box, n) => Dated(box', n)
  BY <1>3, SameQueueOrderly
<1>5. trip' = trip /\ savedTrip' = trip'
  BY <1>2 DEF Kept, QueueKept, RecorderSaved
<1>6. Tracked'
  BY <1>2, <1>4, <1>5 DEF Kept, QueueKept, Tracked, clock
<1>7. Dated(box', clock') /\ RecorderSaved' /\ CreatesAccepted'
  BY <1>2, <1>4, <1>5 DEF Kept, QueueKept, RecorderSaved, CreatesAccepted, clock
<1> QED BY <1>3, <1>4, <1>6, <1>7 DEF Kept, QueueKept

(* The queue is empty at the start,                                        *)
LEMMA InitKept == Init => Kept
<1> SUFFICES ASSUME Init PROVE QueueKept
  BY InitTyped DEF Kept
<1>1. Ids(box) = {} /\ saved = box
  BY DEF Init, Empty, Ids
<1>2. Orderly(box) /\ Dated(box, clock)
  BY <1>1 DEF Orderly, CreateFirst, DeleteLast, Founded, SentDeleteAlone,
              SentFounded, Dated
<1> QED BY <1>1, <1>2, SameAsItself
        DEF Init, QueueKept, Tracked, RecorderSaved, CreatesAccepted

(* and every step keeps it orderly.                                        *)
LEMMA StepKept ==
  ASSUME Reliable
  PROVE  Kept /\ [Next]_vars => Kept'
<1> SUFFICES ASSUME Kept, [Next]_vars PROVE Kept'
  OBVIOUS
<1>1. (TypeOK /\ Awaited /\ Looping)'
  BY StepTyped DEF Kept
<1>2. CASE UNCHANGED vars
  <2>1. UNCHANGED <<box, saved, trip, savedTrip, turn, call, diary>>
    BY <1>2 DEF vars, recorderVars, driverVars, historyVars
  <2>2. QueueKept'
    BY <2>1 DEF Kept, QueueKept, Tracked, RecorderSaved, CreatesAccepted, clock
  <2> QED BY <1>1, <2>2 DEF Kept
<1>3. CASE Next
  BY <1>1, <1>3, RecordKeeps, DriveKeeps, NetworkKeeps, CrashKeeps DEF Next, Kept
<1> QED BY <1>2, <1>3

(* The queue never locks up: as long as it holds anything and is not       *)
(* paused, something in it is under way, can go out, or waits for its      *)
(* retry.  For any routes and scripts, any number of trips, crashes and    *)
(* requests that arrive late, and any interleaving of recording, sending   *)
(* and cancelling (Outbox.swift:251-275, 307-334).                         *)
THEOREM QueueKeepsMoving ==
  ASSUME Reliable
  PROVE  Spec => []QueueMoves
<1>1. Kept => QueueMoves
  <2> SUFFICES ASSUME Kept, Ids(box) # {}, ~box.paused,
                      \A i \in Ids(box) : ~box.entries[i].inFlight
                                            /\ ~box.entries[i].waiting
               PROVE  Ready(box) # {}
    BY DEF QueueMoves
  <2> QED BY OrderlyMoves DEF Kept, QueueKept, TypeOK
<1> QED BY <1>1, InitKept, StepKept, PTL DEF Spec

(***************************************************************************)
(* Trip ids mean the right trip.                                           *)
(***************************************************************************)

-----------------------------------------------------------------------------
(* What phone and server mean by a trip; d is the diary, s the server, r   *)
(* the trips it removed, b the outbox.                                     *)

(* A trip the diary knows, by the instant it was begun.                    *)
Known(d, k) == k \in Keys /\ k[2] \in 1..Len(d) /\ d[k[2]].key = k

DiaryKnown(d) == \A n \in 1..Len(d) : Known(d, d[n].key)

BoxKnown(d, b) ==
  /\ \A i \in Ids(b) : KeyAt(b, i) \in Keys => Known(d, KeyAt(b, i))
  /\ \A k \in DOMAIN b.tripIds : Known(d, k)

(* An instant of leaving home that was recorded for the trip.              *)
Leaves(d, body, k) ==
  body.leftHomeAt # Nil =>
    body.leftHomeAt \in 1..Len(d) /\ d[body.leftHomeAt].key = k

BodiesKnown(d, b) ==
  \A i \in Ids(b) :
    TypeAt(b, i) = "updateTrip" => Leaves(d, b.entries[i].cmd.body, KeyAt(b, i))

RowKey(d, s, id) == d[s.trips[id].fields.leftHomeAt].key

RowsDated(d, s) ==
  \A id \in S!Ids(s) : s.trips[id].fields.leftHomeAt \in 1..Len(d)

(* The outbox gets rid of the trip, or has done so.                        *)
Doomed(b, k) == Deletes(b, k) \/ ~HasTrip(b, k)

(* The id was given to the trip of this key.                               *)
Names(d, s, id, k) ==
  id <= s.lastId /\ (id \in S!Ids(s) => RowKey(d, s, id) = k)

RightId(d, s, r, b, id, k) ==
  Names(d, s, id, k) /\ (id \notin S!Ids(s) => k \in r /\ Deletes(b, k))

IdsRight(d, s, r, b) ==
  \A k \in DOMAIN b.tripIds : RightId(d, s, r, b, b.tripIds[k], k)

(* A request under way does what its command meant, whenever it arrives.   *)
Fits(d, s, b, req) ==
  /\ req.type = "createTrip" => Known(d, <<req.route, req.leftHomeAt>>)
  /\ req.type = "updateTrip" =>
       \E k \in Keys : Names(d, s, req.tripId, k) /\ Leaves(d, req.body, k)
  /\ req.type = "deleteTrip" =>
       \E k \in Keys : /\ Names(d, s, req.tripId, k)
                       /\ req.tripId \in S!Ids(s) => Doomed(b, k)

-----------------------------------------------------------------------------
(* The diary goes on. *)

Grows(d, e) ==
  /\ Len(d) \in Nat /\ Len(e) \in Nat /\ Len(d) <= Len(e)
  /\ \A n \in 1..Len(d) : e[n] = d[n]

(* What was recorded stays so.                                             *)
LEMMA LaterKnown ==
  ASSUME NEW d, NEW e, Grows(d, e)
  PROVE  /\ \A k : Known(d, k) => Known(e, k)
         /\ \A body, k : Leaves(d, body, k) => Leaves(e, body, k)
         /\ \A s : RowsDated(d, s) => RowsDated(e, s)
         /\ \A s : RowsDated(d, s) =>
              \A id \in S!Ids(s) : RowKey(e, s, id) = RowKey(d, s, id)
         /\ \A b : BoxKnown(d, b) => BoxKnown(e, b)
         /\ \A b : BodiesKnown(d, b) => BodiesKnown(e, b)
<1>1. \A n \in 1..Len(d) : n \in 1..Len(e) /\ e[n] = d[n]
  BY DEF Grows
<1>2. /\ \A k : Known(d, k) => Known(e, k)
      /\ \A body, k : Leaves(d, body, k) => Leaves(e, body, k)
  BY <1>1 DEF Known, Leaves
<1>3. \A b : BoxKnown(d, b) => BoxKnown(e, b)
  BY <1>2 DEF BoxKnown
<1>4. \A b : BodiesKnown(d, b) => BodiesKnown(e, b)
  BY <1>2 DEF BodiesKnown
<1> QED BY <1>1, <1>2, <1>3, <1>4 DEF RowsDated, RowKey

(* A step of the phone: the trips it knows are those it knew, and those it *)
(* deletes it goes on deleting until it knows nothing of them.             *)
LEMMA PhoneStep ==
  ASSUME NEW d, NEW e, NEW s, NEW r, NEW b, NEW c,
         Grows(d, e), DiaryKnown(d), RowsDated(d, s),
         \A k : Known(d, k) /\ HasTrip(c, k) => HasTrip(b, k),
         \A k : Known(d, k) /\ Deletes(b, k) => Deletes(c, k) \/ ~HasTrip(c, k)
  PROVE  /\ \A id, k : Names(d, s, id, k) => Names(e, s, id, k)
         /\ \A id, k : /\ Known(d, k) /\ HasTrip(c, k)
                       /\ RightId(d, s, r, b, id, k)
                       => RightId(e, s, r, c, id, k)
         /\ \A req : Fits(d, s, b, req) => Fits(e, s, c, req)
<1>1. /\ \A k : Known(d, k) => Known(e, k)
      /\ \A body, k : Leaves(d, body, k) => Leaves(e, body, k)
      /\ \A id \in S!Ids(s) : RowKey(e, s, id) = RowKey(d, s, id)
  BY LaterKnown
<1>2. \A id, k : Names(d, s, id, k) => Names(e, s, id, k)
  BY <1>1 DEF Names
<1>3. ASSUME NEW id, NEW k, Known(d, k), HasTrip(c, k), RightId(d, s, r, b, id, k)
      PROVE  RightId(e, s, r, c, id, k)
  BY <1>2, <1>3 DEF RightId
<1>4. ASSUME NEW req, Fits(d, s, b, req) PROVE Fits(e, s, c, req)
  <2>1. ASSUME NEW k, Names(d, s, req.tripId, k), req.tripId \in S!Ids(s), Doomed(b, k)
        PROVE  Doomed(c, k)
    <3>1. Known(d, k)
      BY <2>1 DEF Names, RowKey, RowsDated, DiaryKnown
    <3> QED BY <2>1, <3>1 DEF Doomed
  <2> QED BY <1>1, <1>2, <1>4, <2>1 DEF Fits
<1> QED BY <1>2, <1>3, <1>4

-----------------------------------------------------------------------------
(* The server goes on. *)

(* Rows keep their trip, new ones come with new ids, and those that go were*)
(* deleted by the phone.                                                   *)
Evolves(d, s, t, b) ==
  /\ s.lastId <= t.lastId
  /\ RowsDated(d, t)
  /\ \A id \in S!Ids(t) : \/ id \in S!Ids(s) /\ RowKey(d, t, id) = RowKey(d, s, id)
                          \/ ~(id <= s.lastId)
  /\ \A id \in S!Ids(s) \ S!Ids(t) : Doomed(b, RowKey(d, s, id))

RemovedBy(d, s, t) == {RowKey(d, s, id) : id \in S!Ids(s) \ S!Ids(t)}

(* The server serves a request that does what its command meant.           *)
LEMMA ServedEvolves ==
  ASSUME NEW d, NEW s, IsServer(s), NEW b, NEW req \in PhoneRequests,
         Len(d) \in Nat, RowsDated(d, s), Fits(d, s, b, req)
  PROVE  Evolves(d, s, S!Served(s, req).state, b)
<1> DEFINE t == S!Served(s, req).state
<1>1. s.lastId \in Nat /\ \A id \in S!Ids(s) : id \in Nat /\ id <= s.lastId
  BY DEF IsServer
<1>2. ASSUME t = s PROVE Evolves(d, s, t, b)
  BY <1>1, <1>2 DEF Evolves
<1>3. CASE req.type = "createTrip"
  <2>1. \/ t = s
        \/ /\ t = [trips |-> t.trips, gps |-> s.gps, lastId |-> s.lastId + 1]
           /\ S!Ids(t) = S!Ids(s) \cup {s.lastId + 1}
           /\ t.trips[s.lastId + 1] = S!NewTrip(req)
           /\ \A i \in S!Ids(s) : i # s.lastId + 1 /\ t.trips[i] = s.trips[i]
    BY <1>3, CreateParts
  <2> HIDE DEF t
  <2>2. ASSUME t # s PROVE Evolves(d, s, t, b)
    <3>1. t.lastId = s.lastId + 1
      BY <2>1, <2>2
    <3>2. req.leftHomeAt \in 1..Len(d)
      BY <1>3 DEF Fits, Known
    <3>3. t.trips[s.lastId + 1].fields.leftHomeAt = req.leftHomeAt
      BY <2>1, <2>2 DEF S!NewTrip, S!TripFields
    <3>4. RowsDated(d, t)
      BY <2>1, <2>2, <3>2, <3>3 DEF RowsDated
    <3>5. s.lastId <= t.lastId /\ ~(s.lastId + 1 <= s.lastId)
      BY <1>1, <3>1
    <3>6. \A i \in S!Ids(s) : i \in S!Ids(t) /\ RowKey(d, t, i) = RowKey(d, s, i)
      BY <2>1, <2>2 DEF RowKey
    <3>7. \A i \in S!Ids(t) : i \in S!Ids(s) \/ i = s.lastId + 1
      BY <2>1, <2>2
    <3> QED BY <3>4, <3>5, <3>6, <3>7 DEF Evolves
  <2> QED BY <1>2, <2>2 DEF t
<1>4. CASE req.type = "updateTrip"
  <2> DEFINE id == req.tripId
             fields == S!Overlay(s.trips[id].fields, req.body)
  <2>1. \/ t = s
        \/ /\ id \in S!Ids(s)
           /\ t = [trips |-> t.trips, gps |-> s.gps, lastId |-> s.lastId]
           /\ S!Ids(t) = S!Ids(s)
           /\ t.trips[id] =
                [route |-> s.trips[id].route, tripDate |-> s.trips[id].tripDate,
                 fields |-> fields, attempts |-> s.trips[id].attempts]
           /\ \A i \in S!Ids(s) \ {id} : t.trips[i] = s.trips[i]
    BY <1>4, UpdateParts
  <2>2. PICK k \in Keys : Names(d, s, id, k) /\ Leaves(d, req.body, k)
    BY <1>4 DEF Fits
  <2>3. ASSUME id \in S!Ids(s)
        PROVE  fields.leftHomeAt = IF req.body.leftHomeAt # Nil THEN req.body.leftHomeAt
                                   ELSE s.trips[id].fields.leftHomeAt
    BY <2>3 DEF IsServer, S!IsTrip, S!TripBodies, S!TripFields, S!Overlay
  <2> HIDE DEF t, id, fields
  <2>4. ASSUME t # s PROVE Evolves(d, s, t, b)
    <3>1. t.lastId = s.lastId /\ t.trips[id].fields = fields /\ id \in S!Ids(s)
      BY <2>1, <2>4
    <3>2. fields.leftHomeAt \in 1..Len(d) /\ d[fields.leftHomeAt].key = RowKey(d, s, id)
      BY <2>2, <2>3, <3>1 DEF Names, Leaves, RowsDated, RowKey
    <3>3. RowsDated(d, t)
      BY <2>1, <2>4, <3>1, <3>2 DEF RowsDated
    <3>4. \A i \in S!Ids(s) : RowKey(d, t, i) = RowKey(d, s, i)
      BY <2>1, <2>4, <3>1, <3>2 DEF RowKey
    <3>5. s.lastId <= t.lastId /\ S!Ids(t) = S!Ids(s)
      BY <1>1, <2>1, <2>4, <3>1
    <3> QED BY <3>3, <3>4, <3>5 DEF Evolves
  <2> QED BY <1>2, <2>4 DEF t
<1>5. CASE req.type = "deleteTrip"
  <2> DEFINE id == req.tripId
  <2>1. /\ t = [trips |-> t.trips, gps |-> t.gps, lastId |-> s.lastId]
        /\ S!Ids(t) = S!Ids(s) \ {id}
        /\ t.trips = [i \in S!Ids(t) |-> t.trips[i]]
        /\ \A i \in S!Ids(t) : t.trips[i] = s.trips[i]
        /\ DOMAIN t.gps \subseteq DOMAIN s.gps
        /\ t.gps = [p \in DOMAIN t.gps |-> s.gps[p]]
    BY <1>5, DeleteParts
  <2> HIDE DEF t
  <2>2. t.lastId = s.lastId
    BY <2>1
  <2>3. RowsDated(d, t)
    BY <2>1 DEF RowsDated
  <2>4. req.tripId \in S!Ids(s) => Doomed(b, RowKey(d, s, req.tripId))
    <3>1. PICK k \in Keys : /\ Names(d, s, req.tripId, k)
                            /\ req.tripId \in S!Ids(s) => Doomed(b, k)
      BY <1>5 DEF Fits
    <3> QED BY <3>1 DEF Names
  <2>5. Evolves(d, s, t, b)
    <3>1. s.lastId <= t.lastId
      BY <1>1, <2>2
    <3>2. \A i \in S!Ids(t) : i \in S!Ids(s) /\ RowKey(d, t, i) = RowKey(d, s, i)
      BY <2>1 DEF RowKey
    <3>3. \A i \in S!Ids(s) \ S!Ids(t) : Doomed(b, RowKey(d, s, i))
      BY <2>1, <2>4
    <3> QED BY <2>3, <3>1, <3>2, <3>3 DEF Evolves
  <2> QED BY <2>5 DEF t
<1>6. CASE req.type = "upsertAttempt"
  <2> DEFINE id == req.tripId
  <2>1. \/ t = s
        \/ /\ id \in S!Ids(s)
           /\ t = [trips |-> t.trips, gps |-> s.gps, lastId |-> s.lastId]
           /\ S!Ids(t) = S!Ids(s)
           /\ \A i \in S!Ids(s) \ {id} : t.trips[i] = s.trips[i]
           /\ t.trips[id] =
                [route |-> s.trips[id].route, tripDate |-> s.trips[id].tripDate,
                 fields |-> s.trips[id].fields, attempts |-> t.trips[id].attempts]
    BY <1>6, UpsertParts
  <2> HIDE DEF t, id
  <2>2. ASSUME t # s PROVE Evolves(d, s, t, b)
    <3>1. t.lastId = s.lastId /\ t.trips[id].fields = s.trips[id].fields
      BY <2>1, <2>2
    <3>2. \A i \in S!Ids(s) : t.trips[i].fields = s.trips[i].fields
      BY <2>1, <2>2, <3>1
    <3>3. RowsDated(d, t)
      BY <2>1, <2>2, <3>2 DEF RowsDated
    <3>4. s.lastId <= t.lastId /\ S!Ids(t) = S!Ids(s)
      BY <1>1, <2>1, <2>2, <3>1
    <3> QED BY <3>2, <3>3, <3>4 DEF Evolves, RowKey
  <2> QED BY <1>2, <2>2 DEF t
<1>7. CASE req.type = "uploadGps"
  <2>1. \/ t = s
        \/ t = [trips |-> s.trips, gps |-> t.gps, lastId |-> s.lastId]
    BY <1>7, GpsParts
  <2> HIDE DEF t
  <2>2. t.trips = s.trips /\ t.lastId = s.lastId
    BY <2>1
  <2>3. Evolves(d, s, t, b)
    BY <1>1, <2>2 DEF Evolves, RowsDated, RowKey, S!Ids
  <2> QED BY <2>3 DEF t
<1> QED BY <1>3, <1>4, <1>5, <1>6, <1>7 DEF PhoneRequests

(* Ids and requests mean what they meant.                                  *)
LEMMA ServerStep ==
  ASSUME NEW d, NEW s, NEW t, NEW r, NEW b, IsServer(s), IsServer(t),
         Evolves(d, s, t, b)
  PROVE  /\ \A id \in Int : \A k : Names(d, s, id, k) => Names(d, t, id, k)
         /\ \A id \in Int : \A k :
              RightId(d, s, r, b, id, k) /\ HasTrip(b, k)
                => RightId(d, t, r \cup RemovedBy(d, s, t), b, id, k)
         /\ \A req \in PhoneRequests : Fits(d, s, b, req) => Fits(d, t, b, req)
<1>1. s.lastId \in Nat /\ t.lastId \in Nat /\ s.lastId <= t.lastId
  BY DEF IsServer, Evolves
<1>2. ASSUME NEW id \in Int, NEW k, Names(d, s, id, k) PROVE Names(d, t, id, k)
  <2>1. id <= t.lastId
    BY <1>1, <1>2 DEF Names
  <2> QED BY <1>2, <2>1 DEF Names, Evolves
<1>3. ASSUME NEW id \in Int, NEW k, RightId(d, s, r, b, id, k), HasTrip(b, k),
             id \notin S!Ids(t)
      PROVE  k \in r \cup RemovedBy(d, s, t) /\ Deletes(b, k)
  <2>1. CASE id \notin S!Ids(s)
    BY <1>3, <2>1 DEF RightId
  <2>2. CASE id \in S!Ids(s)
    <3>1. RowKey(d, s, id) = k /\ Doomed(b, k)
      BY <1>3, <2>2 DEF RightId, Names, Evolves
    <3> QED BY <1>3, <2>2, <3>1 DEF Doomed, RemovedBy
  <2> QED BY <2>1, <2>2
<1>4. \A id \in Int : \A k :
        RightId(d, s, r, b, id, k) /\ HasTrip(b, k)
          => RightId(d, t, r \cup RemovedBy(d, s, t), b, id, k)
  BY <1>2, <1>3 DEF RightId
<1>5. ASSUME NEW req \in PhoneRequests, Fits(d, s, b, req) PROVE Fits(d, t, b, req)
  <2>1. CASE req.type = "createTrip"
    BY <1>5, <2>1 DEF Fits
  <2>2. CASE req.type = "updateTrip"
    <3>1. req.tripId \in Int
      BY <2>2 DEF PhoneRequests
    <3> QED BY <1>2, <1>5, <2>2, <3>1 DEF Fits
  <2>3. CASE req.type = "deleteTrip"
    <3>1. req.tripId \in Int
      BY <2>3 DEF PhoneRequests
    <3>2. PICK k \in Keys : /\ Names(d, s, req.tripId, k)
                            /\ req.tripId \in S!Ids(s) => Doomed(b, k)
      BY <1>5, <2>3 DEF Fits
    <3>3. req.tripId \in S!Ids(t) => req.tripId \in S!Ids(s)
      BY <3>2 DEF Names, Evolves
    <3>4. Names(d, t, req.tripId, k)
      BY <1>2, <3>1, <3>2
    <3> QED BY <2>3, <3>2, <3>3, <3>4 DEF Fits
  <2> QED BY <2>1, <2>2, <2>3 DEF Fits
<1> QED BY <1>2, <1>4, <1>5

(* The id a create is answered with is the id of its trip.                 *)
LEMMA CreatedId ==
  ASSUME NEW d, NEW s, IsServer(s), NEW r, NEW b, NEW req \in PhoneRequests,
         req.type = "createTrip", Fits(d, s, b, req), NEW id,
         S!Served(s, req).outcome = TripCreated(id)
  PROVE  RightId(d, S!Served(s, req).state, r, b, id, <<req.route, req.leftHomeAt>>)
<1> DEFINE t == S!Served(s, req).state
           outcome == S!Served(s, req).outcome
           k == <<req.route, req.leftHomeAt>>
<1>1. d[req.leftHomeAt].key = k
  BY DEF Fits, Known
<1>2. \/ /\ t = s
         /\ \E i \in S!SameKey(s, req) :
              outcome = IF s.trips[i].tripDate = Today THEN TripCreated(i) ELSE Refused
      \/ /\ outcome = TripCreated(s.lastId + 1)
         /\ t = [trips |-> t.trips, gps |-> s.gps, lastId |-> s.lastId + 1]
         /\ S!Ids(t) = S!Ids(s) \cup {s.lastId + 1}
         /\ t.trips[s.lastId + 1] = S!NewTrip(req)
  BY CreateParts
<1>3. outcome = TripCreated(id)
  OBVIOUS
<1> HIDE DEF t, outcome, k
<1>4. s.lastId \in Nat /\ \A i \in S!Ids(s) : i <= s.lastId
  BY DEF IsServer
<1>5. CASE t = s /\ id \in S!SameKey(s, req)
  <2>1. id \in S!Ids(s) /\ s.trips[id].fields.leftHomeAt = req.leftHomeAt
    BY <1>5 DEF S!SameKey, S!HasKey
  <2>2. RightId(d, t, r, b, id, k)
    BY <1>1, <1>4, <1>5, <2>1 DEF RightId, Names, RowKey
  <2> QED BY <2>2 DEF t, k
<1>6. CASE /\ id = s.lastId + 1
           /\ t = [trips |-> t.trips, gps |-> s.gps, lastId |-> s.lastId + 1]
           /\ S!Ids(t) = S!Ids(s) \cup {s.lastId + 1}
           /\ t.trips[s.lastId + 1] = S!NewTrip(req)
  <2>1. t.lastId = id /\ id \in S!Ids(t) /\ id <= id
    BY <1>4, <1>6
  <2>2. t.trips[id].fields.leftHomeAt = req.leftHomeAt
    BY <1>6 DEF S!NewTrip, S!TripFields
  <2>3. RightId(d, t, r, b, id, k)
    BY <1>1, <2>1, <2>2 DEF RightId, Names, RowKey
  <2> QED BY <2>3 DEF t, k
<1>7. \A i : outcome = TripCreated(i) => i = id
  BY <1>3 DEF TripCreated
<1>8. outcome # Refused
  BY <1>3 DEF TripCreated, Refused
<1> QED BY <1>2, <1>5, <1>6, <1>7, <1>8

-----------------------------------------------------------------------------
(* The outbox goes on. *)

(* An operation that takes entries and trip ids away, and no delete of a   *)
(* trip that is still known.                                               *)
Shrinks(b, c) ==
  /\ \A i \in Ids(c) : i \in Ids(b) /\ c.entries[i].cmd = b.entries[i].cmd
  /\ \A k \in DOMAIN c.tripIds : k \in DOMAIN b.tripIds /\ c.tripIds[k] = b.tripIds[k]
  /\ \A k : Deletes(b, k) => Deletes(c, k) \/ ~HasTrip(c, k)

(* What is left in the outbox is as well known as it was.                  *)
LEMMA ShrinksKnown ==
  ASSUME NEW d, NEW b, NEW c, Shrinks(b, c), BoxKnown(d, b), BodiesKnown(d, b)
  PROVE  /\ BoxKnown(d, c)
         /\ BodiesKnown(d, c)
         /\ \A k : HasTrip(c, k) => HasTrip(b, k)
<1>1. \A i \in Ids(c) : /\ i \in Ids(b)
                        /\ TypeAt(c, i) = TypeAt(b, i)
                        /\ KeyAt(c, i) = KeyAt(b, i)
                        /\ c.entries[i].cmd.body = b.entries[i].cmd.body
  BY DEF Shrinks, TypeAt, KeyAt
<1>2. BoxKnown(d, c)
  BY <1>1 DEF BoxKnown, Shrinks
<1>3. BodiesKnown(d, c)
  BY <1>1 DEF BodiesKnown
<1>4. \A k : HasTrip(c, k) => HasTrip(b, k)
  BY <1>1 DEF HasTrip, CreateWaits, Shrinks
<1> QED BY <1>2, <1>3, <1>4

(* Flags are no matter.                                                    *)
LEMMA SameQueueShrinks ==
  ASSUME NEW b, NEW c, SameQueue(b, c)
  PROVE  Shrinks(b, c)
<1>1. \A k : Deletes(b, k) => Deletes(c, k)
  BY DEF SameQueue, Deletes, TypeAt, KeyAt
<1> QED BY <1>1 DEF SameQueue, Shrinks

(* Nor is what goes out.                                                   *)
LEMMA DispatchedShrinks ==
  ASSUME NEW b, IsState(b), NEW i \in Ids(b)
  PROVE  Shrinks(b, Dispatched(b, i))
<1> DEFINE c == Dispatched(b, i)
<1>1. /\ c = [entries |-> c.entries, tripIds |-> b.tripIds,
                 deadLetters |-> b.deadLetters, nextId |-> b.nextId,
                 paused |-> b.paused]
      /\ Ids(c) = Ids(b)
      /\ \A j \in Ids(b) \ {i} : c.entries[j] = b.entries[j]
      /\ c.entries[i].cmd = b.entries[i].cmd
  BY DispatchedParts
<1> HIDE DEF c
<1>2. c.tripIds = b.tripIds
  BY <1>1
<1>3. \A j \in Ids(b) : c.entries[j].cmd = b.entries[j].cmd
  BY <1>1
<1>4. \A k : Deletes(b, k) => Deletes(c, k)
  BY <1>1, <1>3 DEF Deletes, TypeAt, KeyAt
<1>5. Shrinks(b, c)
  BY <1>1, <1>2, <1>3, <1>4 DEF Shrinks
<1> QED BY <1>5 DEF c

(* An answer takes its entry away, and a delete the last of its trip.      *)
LEMMA CompletedShrinks ==
  ASSUME NEW b, IsState(b), Orderly(b), NEW i \in Ids(b), b.entries[i].inFlight,
         NEW outcome \in OutcomesOf(b.entries[i].cmd, Nat),
         Accepted(b.entries[i].cmd, outcome),
         IsDelete(b.entries[i].cmd) => outcome # Refused,
         TypeAt(b, i) # "createTrip" \/ \A id \in Nat : outcome # TripCreated(id)
  PROVE  Shrinks(b, Completed(b, i, outcome))
<1> DEFINE c == Completed(b, i, outcome)
           cmd == b.entries[i].cmd
<1>0. TypeAt(b, i) = cmd.type /\ KeyAt(b, i) = cmd.key
  BY DEF TypeAt, KeyAt
<1>1. \/ c = AfterDelivered(b, i) /\ cmd.type # "createTrip"
      \/ c \in {AfterRetry(b, i), AfterPause(b, i)}
      \/ c = AfterReject(b, i) /\ cmd.type # "createTrip" /\ ~IsDelete(cmd)
  <2>1. \/ /\ cmd.type = "createTrip"
           /\ \E id \in Nat : outcome = TripCreated(id) /\ c = AfterTripCreated(b, i, id)
        \/ cmd.type # "createTrip" /\ c = AfterDelivered(b, i)
        \/ c = AfterRetry(b, i)
        \/ c = AfterPause(b, i)
        \/ /\ \/ outcome = Refused
              \/ outcome = NotFound /\ ~IsDelete(cmd)
              \/ outcome = Unreadable /\ cmd.type = "createTrip"
           /\ c = AfterReject(b, i)
    BY CompletedCases
  <2> HIDE DEF c, cmd
  <2> QED BY <1>0, <2>1 DEF Accepted, cmd
<1>2. CASE c = AfterDelivered(b, i) /\ cmd.type # "createTrip"
  <2> DEFINE d == AfterDelivered(b, i)
  <2>1. /\ Ids(d) = Ids(b) \ {i}
        /\ \A j \in Ids(d) : d.entries[j] = b.entries[j]
        /\ DOMAIN d.tripIds = IF IsDelete(b.entries[i].cmd)
                              THEN DOMAIN b.tripIds \ {b.entries[i].cmd.key}
                              ELSE DOMAIN b.tripIds
        /\ \A k \in DOMAIN d.tripIds : d.tripIds[k] = b.tripIds[k]
    BY DeliveredParts
  <2> HIDE DEF c, d, cmd
  <2>2. \A j \in Ids(d) : /\ d.entries[j].cmd = b.entries[j].cmd
                          /\ TypeAt(d, j) = TypeAt(b, j)
                          /\ KeyAt(d, j) = KeyAt(b, j)
    BY <2>1 DEF TypeAt, KeyAt
  <2>3. ASSUME NEW k, Deletes(b, k), HasTrip(d, k) PROVE Deletes(d, k)
    <3>1. PICK j \in Ids(b) : TypeAt(b, j) = "deleteTrip" /\ KeyAt(b, j) = k
      BY <2>3 DEF Deletes
    <3>2. CASE j # i
      BY <2>1, <2>2, <3>1, <3>2 DEF Deletes
    <3>3. CASE j = i
      <4>1. k \notin DOMAIN d.tripIds
        BY <2>1, <3>1, <3>3 DEF IsDelete, TypeAt, KeyAt
      <4>2. PICK m \in Ids(d) : TypeAt(d, m) = "createTrip" /\ KeyAt(d, m) = k
        BY <2>3, <4>1 DEF HasTrip, CreateWaits
      <4>3. m \in Ids(b) /\ m # i /\ KeyAt(b, m) = KeyAt(b, i)
        BY <2>1, <2>2, <3>1, <3>3, <4>2
      <4> QED BY <3>1, <3>3, <4>3 DEF Orderly, SentDeleteAlone
    <3> QED BY <3>2, <3>3
  <2>4. Shrinks(b, d)
    BY <2>1, <2>2, <2>3 DEF Shrinks
  <2>5. c = d
    BY <1>2 DEF d
  <2> QED BY <2>4, <2>5 DEF c
<1>3. CASE c \in {AfterRetry(b, i), AfterPause(b, i)}
  <2> HIDE DEF c
  <2>1. /\ c = [entries |-> c.entries, tripIds |-> b.tripIds,
                 deadLetters |-> b.deadLetters, nextId |-> b.nextId,
                 paused |-> c.paused]
        /\ Ids(c) = Ids(b)
        /\ \A j \in Ids(b) \ {i} : c.entries[j] = b.entries[j]
        /\ c.entries[i].cmd = b.entries[i].cmd
        /\ ~c.entries[i].inFlight
    BY <1>3, PutBackParts
  <2>2. c.tripIds = b.tripIds
    BY <2>1
  <2>3. SameQueue(b, c)
    BY <2>1, <2>2 DEF SameQueue
  <2> QED BY <2>3, SameQueueShrinks DEF c
<1>4. CASE c = AfterReject(b, i) /\ cmd.type # "createTrip" /\ ~IsDelete(cmd)
  <2> DEFINE d == AfterReject(b, i)
  <2>1. /\ d = [entries |-> d.entries, tripIds |-> b.tripIds,
                 deadLetters |-> d.deadLetters, nextId |-> b.nextId,
                 paused |-> b.paused]
        /\ Ids(d) = Ids(b) \ ({i} \cup Dependents(b, i))
        /\ \A j \in Ids(d) : d.entries[j] = b.entries[j]
    BY RejectParts
  <2>2. Dependents(b, i) = {}
    BY <1>4 DEF Dependents
  <2>3. TypeAt(b, i) # "deleteTrip"
    BY <1>0, <1>4 DEF IsDelete
  <2> HIDE DEF c, d, cmd
  <2>4. d.tripIds = b.tripIds /\ Ids(d) = Ids(b) \ {i}
    BY <2>1, <2>2
  <2>5. \A j \in Ids(d) : d.entries[j].cmd = b.entries[j].cmd
    BY <2>1
  <2>6. \A k : Deletes(b, k) => Deletes(d, k)
    BY <2>3, <2>4, <2>5 DEF Deletes, TypeAt, KeyAt
  <2>7. Shrinks(b, d)
    BY <2>4, <2>5, <2>6 DEF Shrinks
  <2>8. c = d
    BY <1>4 DEF d
  <2> QED BY <2>7, <2>8 DEF c
<1> QED BY <1>1, <1>2, <1>3, <1>4

(* A trip that is made is known by its id, and the rest stays.             *)
LEMMA CreatedKnown ==
  ASSUME NEW d, NEW b, IsState(b), NEW i \in Ids(b), NEW id \in Nat,
         TypeAt(b, i) = "createTrip", Known(d, KeyAt(b, i)),
         BoxKnown(d, b), BodiesKnown(d, b)
  PROVE  LET c == AfterTripCreated(b, i, id) IN
         /\ BoxKnown(d, c)
         /\ BodiesKnown(d, c)
         /\ \A k : HasTrip(c, k) => HasTrip(b, k)
         /\ \A k : Deletes(b, k) => Deletes(c, k)
         /\ \A k \in DOMAIN c.tripIds :
              \/ k = KeyAt(b, i) /\ c.tripIds[k] = id
              \/ k \in DOMAIN b.tripIds /\ c.tripIds[k] = b.tripIds[k]
<1> DEFINE c == AfterTripCreated(b, i, id)
           key == b.entries[i].cmd.key
<1>1. /\ Ids(c) = Ids(b) \ {i}
      /\ \A j \in Ids(c) : c.entries[j] = b.entries[j]
      /\ DOMAIN c.tripIds = DOMAIN b.tripIds \cup {key}
      /\ c.tripIds[key] = id
      /\ \A k \in DOMAIN b.tripIds \ {key} : c.tripIds[k] = b.tripIds[k]
  BY TripCreatedParts
<1>2. KeyAt(b, i) = key
  BY DEF KeyAt
<1> HIDE DEF c, key
<1>3. \A j \in Ids(c) : /\ j \in Ids(b)
                        /\ TypeAt(c, j) = TypeAt(b, j)
                        /\ KeyAt(c, j) = KeyAt(b, j)
                        /\ c.entries[j].cmd.body = b.entries[j].cmd.body
  BY <1>1 DEF TypeAt, KeyAt
<1>4. BoxKnown(d, c)
  BY <1>1, <1>2, <1>3 DEF BoxKnown
<1>5. BodiesKnown(d, c)
  BY <1>3 DEF BodiesKnown
<1>6. \A k : HasTrip(c, k) => HasTrip(b, k)
  BY <1>1, <1>2, <1>3 DEF HasTrip, CreateWaits
<1>7. \A k : Deletes(b, k) => Deletes(c, k)
  BY <1>1, <1>3 DEF Deletes
<1>8. \A k \in DOMAIN c.tripIds :
        \/ k = KeyAt(b, i) /\ c.tripIds[k] = id
        \/ k \in DOMAIN b.tripIds /\ c.tripIds[k] = b.tripIds[k]
  BY <1>1, <1>2
<1> QED BY <1>4, <1>5, <1>6, <1>7, <1>8 DEF c

(* A command put in: its trip may be new, its body is its own or what was  *)
(* merged.                                                                 *)
LEMMA EnqueuedKnown ==
  ASSUME NEW d, NEW b, IsState(b), NEW cmd \in Commands, ~IsDelete(cmd),
         cmd.key \in Keys, Known(d, cmd.key),
         cmd.type = "updateTrip" => Leaves(d, cmd.body, cmd.key),
         BoxKnown(d, b), BodiesKnown(d, b)
  PROVE  LET c == Enqueued(b, cmd) IN
         /\ BoxKnown(d, c)
         /\ BodiesKnown(d, c)
         /\ c.tripIds = b.tripIds
         /\ \A k : HasTrip(c, k) =>
              HasTrip(b, k) \/ (cmd.type = "createTrip" /\ k = cmd.key)
         /\ \A k : Deletes(b, k) => Deletes(c, k)
<1> DEFINE c == Enqueued(b, cmd)
<1>1. /\ c.tripIds = b.tripIds
      /\ Ids(b) \subseteq Ids(c)
      /\ \A i \in Ids(b) :
           /\ c.entries[i].cmd.type = b.entries[i].cmd.type
           /\ c.entries[i].cmd.key = b.entries[i].cmd.key
      /\ \A i \in Ids(c) \ Ids(b) :
           /\ c.entries[i].cmd.type = cmd.type
           /\ c.entries[i].cmd.key = cmd.key
  BY EnqueuedParts
<1>2. /\ \A i \in Ids(b) \ Mergeable(b, cmd) : c.entries[i] = b.entries[i]
      /\ \A i \in Mergeable(b, cmd) :
           /\ i \in Ids(b)
           /\ b.entries[i].cmd.type = cmd.type
           /\ b.entries[i].cmd.key = cmd.key
           /\ c.entries[i].cmd.body = Merged(b.entries[i].cmd.body, cmd.body)
      /\ cmd.type # "uploadGps" => \A i \in Ids(c) \ Ids(b) : c.entries[i] = NewEntry(cmd)
  BY EnqueuedEntries
<1> HIDE DEF c
<1>3. ASSUME NEW i \in Mergeable(b, cmd), cmd.type = "updateTrip"
      PROVE  Leaves(d, c.entries[i].cmd.body, cmd.key)
  <2>1. i \in Ids(b) /\ b.entries[i].cmd.type = "updateTrip" /\ b.entries[i].cmd.key = cmd.key
    BY <1>2, <1>3
  <2>2. b.entries[i].cmd.body \in TripBodies
    <3>1. b.entries[i].cmd \in Commands
      BY <2>1, StateFields, EntryFields
    <3> QED BY <2>1, <3>1, CommandParts
  <2>3. Leaves(d, b.entries[i].cmd.body, cmd.key)
    BY <2>1 DEF BodiesKnown, TypeAt, KeyAt
  <2>4. c.entries[i].cmd.body = Merged(b.entries[i].cmd.body, cmd.body)
    BY <1>2
  <2>5. \A old \in TripBodies : Merged(old, cmd.body).leftHomeAt \in
                                 {old.leftHomeAt, cmd.body.leftHomeAt}
    BY DEF Merged, TripBodies, TripFields
  <2> QED BY <1>3, <2>2, <2>3, <2>4, <2>5 DEF Leaves
<1>4. /\ \A i \in Ids(b) : TypeAt(c, i) = TypeAt(b, i) /\ KeyAt(c, i) = KeyAt(b, i)
      /\ \A i \in Ids(c) \ Ids(b) : TypeAt(c, i) = cmd.type /\ KeyAt(c, i) = cmd.key
  BY <1>1 DEF TypeAt, KeyAt
<1>5. BoxKnown(d, c)
  BY <1>1, <1>4 DEF BoxKnown
<1>6. BodiesKnown(d, c)
  <2> SUFFICES ASSUME NEW i \in Ids(c), TypeAt(c, i) = "updateTrip"
               PROVE  Leaves(d, c.entries[i].cmd.body, KeyAt(c, i))
    BY DEF BodiesKnown
  <2>1. CASE i \in Mergeable(b, cmd)
    <3>1. cmd.type = "updateTrip" /\ KeyAt(c, i) = cmd.key
      BY <1>2, <1>4, <2>1 DEF TypeAt, KeyAt
    <3> QED BY <1>3, <2>1, <3>1
  <2>2. CASE i \in Ids(b) \ Mergeable(b, cmd)
    BY <1>2, <2>2 DEF BodiesKnown, TypeAt, KeyAt
  <2>3. CASE i \notin Ids(b)
    <3>1. cmd.type = "updateTrip" /\ KeyAt(c, i) = cmd.key
      BY <1>4, <2>3
    <3>2. c.entries[i].cmd.body = cmd.body
      BY <1>2, <2>3, <3>1 DEF NewEntry
    <3> QED BY <3>1, <3>2
  <2> QED BY <2>1, <2>2, <2>3
<1>7. \A k : HasTrip(c, k) =>
        HasTrip(b, k) \/ (cmd.type = "createTrip" /\ k = cmd.key)
  BY <1>1, <1>4 DEF HasTrip, CreateWaits
<1>8. \A k : Deletes(b, k) => Deletes(c, k)
  BY <1>1, <1>4 DEF Deletes
<1> QED BY <1>1, <1>5, <1>6, <1>7, <1>8 DEF c

(* Discarding takes commands of the trip away, but never its delete.       *)
LEMMA DiscardedKnown ==
  ASSUME NEW d, NEW b, IsState(b), NEW key \in Keys, Known(d, key),
         BoxKnown(d, b), BodiesKnown(d, b)
  PROVE  LET c == Discarded(b, key) IN
         /\ BoxKnown(d, c)
         /\ BodiesKnown(d, c)
         /\ c.tripIds = b.tripIds
         /\ \A k : HasTrip(c, k) => HasTrip(b, k)
         /\ \A k : Deletes(b, k) => Deletes(c, k)
<1> DEFINE c == Discarded(b, key)
           new == b.nextId
           gone == Discardable(b, key)
           needed == ~Deleting(b, key)
                       /\ (key \in DOMAIN b.tripIds \/ CreateMayHaveLanded(b, key))
<1>1. /\ c.tripIds = b.tripIds
      /\ Ids(c) = (Ids(b) \ gone) \cup IF needed THEN {new} ELSE {}
      /\ \A i \in Ids(b) \ gone : c.entries[i] = b.entries[i]
      /\ needed => c.entries[new] = NewEntry([type |-> "deleteTrip", key |-> key])
  BY DiscardedParts
<1>2. \A i \in gone : TypeAt(b, i) # "deleteTrip"
  BY DEF Discardable, IsDelete, TypeAt
<1> HIDE DEF c, new, gone, needed
<1>3. \A i \in Ids(b) \ gone : /\ i \in Ids(c)
                               /\ TypeAt(c, i) = TypeAt(b, i)
                               /\ KeyAt(c, i) = KeyAt(b, i)
                               /\ c.entries[i].cmd.body = b.entries[i].cmd.body
  BY <1>1 DEF TypeAt, KeyAt
<1>4. needed => TypeAt(c, new) = "deleteTrip" /\ KeyAt(c, new) = key
  BY <1>1 DEF TypeAt, KeyAt, NewEntry
<1>5. \A i \in Ids(c) : i \in Ids(b) \ gone \/ (needed /\ i = new)
  BY <1>1
<1>6. BoxKnown(d, c)
  BY <1>1, <1>3, <1>4, <1>5 DEF BoxKnown
<1>7. BodiesKnown(d, c)
  BY <1>3, <1>4, <1>5 DEF BodiesKnown
<1>8. \A k : HasTrip(c, k) => HasTrip(b, k)
  BY <1>1, <1>3, <1>4, <1>5 DEF HasTrip, CreateWaits
<1>9. \A k : Deletes(b, k) => Deletes(c, k)
  BY <1>2, <1>3 DEF Deletes
<1> QED BY <1>1, <1>6, <1>7, <1>8, <1>9 DEF c

-----------------------------------------------------------------------------
(* The system. *)

CallFit(d, s, r, b, c) ==
  /\ Fits(d, s, b, c.req)
  /\ c.key = KeyAt(b, c.id)
  /\ c.req.type = "createTrip" => c.key = <<c.req.route, c.req.leftHomeAt>>
  /\ c.req.type = "deleteTrip" => c.answer # Refused
  /\ \A id \in Nat : c.answer = TripCreated(id) => RightId(d, s, r, b, id, c.key)

TripsKept ==
  /\ DiaryKnown(diary)
  /\ BoxKnown(diary, box)
  /\ BodiesKnown(diary, box)
  /\ trip # NoTrip => Known(diary, trip.key)
  /\ RowsDated(diary, server)
  /\ IdsRight(diary, server, removed, box)
  /\ \A req \in late : Fits(diary, server, box, req)
  /\ call # NoCall => CallFit(diary, server, removed, box, call)

(* The trip of a create that is awaited is known to the outbox.            *)
LEMMA CallHasTrip ==
  ASSUME Awaited, call # NoCall, call.req.type = "createTrip",
         call.key = KeyAt(box, call.id)
  PROVE  HasTrip(box, call.key)
BY DEF Awaited, HasTrip, CreateWaits, TypeAt, KeyAt

(* Only a create is answered with a trip.                                  *)
LEMMA CreatedByCreate ==
  ASSUME Awaited, call # NoCall, NEW id \in Nat, call.answer = TripCreated(id)
  PROVE  call.req.type = "createTrip"
<1>1. call.answer \notin {Delivered} \cup Failures
  BY DEF TripCreated, Delivered, Failures, Transient, Unauthorized, NotFound,
         Unreadable, Refused
<1>2. call.answer # NoAnswer
  BY NoCallAssumption DEF Answers, TripCreated
<1> QED BY <1>1, <1>2 DEF Awaited, OutcomesOf

(* What every step of the phone has in common.                             *)
LEMMA PhoneKeepsTrips ==
  ASSUME TripsKept, Awaited,
         server' = server, removed' = removed, late' = late,
         Grows(diary, diary'), DiaryKnown(diary'),
         BoxKnown(diary', box'), BodiesKnown(diary', box'),
         trip' # NoTrip => Known(diary', trip'.key),
         \A k : Known(diary, k) /\ HasTrip(box', k) => HasTrip(box, k),
         \A k : Known(diary, k) /\ Deletes(box, k) =>
                  Deletes(box', k) \/ ~HasTrip(box', k),
         \A k \in DOMAIN box'.tripIds :
           /\ Known(diary, k)
           /\ RightId(diary, server, removed, box, box'.tripIds[k], k),
         \/ call' = call /\ Holds(box, box')
         \/ call' = NoCall
         \/ CallFit(diary', server', removed', box', call')
  PROVE  TripsKept'
<1>1. /\ \A id, k : /\ Known(diary, k) /\ HasTrip(box', k)
                    /\ RightId(diary, server, removed, box, id, k)
                    => RightId(diary', server, removed, box', id, k)
      /\ \A req : Fits(diary, server, box, req) => Fits(diary', server, box', req)
  BY PhoneStep DEF TripsKept
<1>2. RowsDated(diary', server')
  BY LaterKnown DEF TripsKept
<1>3. IdsRight(diary', server', removed', box')
  BY <1>1 DEF IdsRight, HasTrip
<1>4. \A req \in late' : Fits(diary', server', box', req)
  BY <1>1 DEF TripsKept
<1>5. ASSUME call' = call, Holds(box, box'), call # NoCall
      PROVE  CallFit(diary', server', removed', box', call')
  <2>1. CallFit(diary, server, removed, box, call)
    BY <1>5 DEF TripsKept
  <2>2. /\ call.id \in Ids(box)
        /\ call.id \in Ids(box')
        /\ box'.entries[call.id].cmd = box.entries[call.id].cmd
    BY <1>5 DEF Awaited, Holds
  <2>3. Fits(diary', server, box', call.req)
    BY <1>1, <2>1 DEF CallFit
  <2>4. call.key = KeyAt(box', call.id)
    BY <2>1, <2>2 DEF CallFit, KeyAt
  <2>5. ASSUME NEW id \in Nat, call.answer = TripCreated(id)
        PROVE  RightId(diary', server, removed, box', id, call.key)
    <3>1. RightId(diary, server, removed, box, id, call.key)
      BY <2>1, <2>5 DEF CallFit
    <3>2. call.req.type = "createTrip"
      BY <1>5, <2>5, CreatedByCreate
    <3>3. HasTrip(box', call.key)
      BY <2>2, <2>4, <3>2, <1>5 DEF Awaited, HasTrip, CreateWaits, TypeAt, KeyAt
    <3>4. Known(diary, call.key)
      BY <2>1, <3>2 DEF CallFit, Fits
    <3> QED BY <1>1, <3>1, <3>3, <3>4
  <2> QED BY <1>5, <2>1, <2>3, <2>4, <2>5 DEF CallFit
<1> QED BY <1>2, <1>3, <1>4, <1>5 DEF TripsKept

(* In particular when the queue shrinks and nothing is recorded.           *)
LEMMA ShrinkKeepsTrips ==
  ASSUME TripsKept, Awaited, RecorderTyped, Shrinks(box, box'),
         server' = server, removed' = removed, late' = late, diary' = diary,
         trip' \in {trip, NoTrip},
         \/ call' = call /\ Holds(box, box')
         \/ call' = NoCall
         \/ CallFit(diary', server', removed', box', call')
  PROVE  TripsKept'
<1>1. Grows(diary, diary')
  <2>1. Len(diary) \in Nat
    BY DEF RecorderTyped
  <2> QED BY <2>1 DEF Grows
<1>2. /\ DiaryKnown(diary) /\ BoxKnown(diary, box) /\ BodiesKnown(diary, box)
      /\ trip # NoTrip => Known(diary, trip.key)
      /\ IdsRight(diary, server, removed, box)
  BY DEF TripsKept
<1>3. /\ BoxKnown(diary', box')
      /\ BodiesKnown(diary', box')
      /\ \A k : HasTrip(box', k) => HasTrip(box, k)
  BY <1>2, ShrinksKnown
<1>4. \A k \in DOMAIN box'.tripIds :
        /\ Known(diary, k)
        /\ RightId(diary, server, removed, box, box'.tripIds[k], k)
  BY <1>2 DEF Shrinks, BoxKnown, IdsRight
<1>5. \A k : Deletes(box, k) => Deletes(box', k) \/ ~HasTrip(box', k)
  BY DEF Shrinks
<1>6. DiaryKnown(diary') /\ (trip' # NoTrip => Known(diary', trip'.key))
  BY <1>2
<1> QED BY <1>1, <1>3, <1>4, <1>5, <1>6, PhoneKeepsTrips

(* Recording: a new trip is new, and what is recorded belongs to the trip  *)
(* being recorded.                                                         *)
LEMMA RecordKeepsTrips ==
  ASSUME Kept, TripsKept, Reliable, Record
  PROVE  TripsKept'
<1>1. BoxTyped /\ RecorderTyped /\ IsState(box) /\ Awaited
  BY TypeParts DEF Kept, BoxTyped
<1>2. ASSUME NEW cmd, NEW key, NEW slot, NEW field, Issues(cmd, key, slot, field)
      PROVE  TripsKept'
  <2>1. /\ Recording /\ Writes(key, slot, field) /\ Enqueue(cmd)
        /\ cmd \in Commands /\ ~IsDelete(cmd) /\ cmd.key = key
        /\ key \in Keys
        /\ slot \in {TripSlot, GpsSlot} \cup Attempts
        /\ field \in TripFields \cup AttemptFields \cup {"point"}
        /\ trip'.key = key
        /\ IF cmd.type = "createTrip" THEN key[2] = now
           ELSE trip # NoTrip /\ trip.key = key
        /\ cmd.type = "updateTrip" => cmd.body = TripBody(field)
    BY <1>2 DEF Issues
  <2>2. /\ now \in Times
        /\ Len(diary') = now
        /\ \A n \in 1..clock : diary'[n] = diary[n]
        /\ diary'[now] = [key |-> key, slot |-> slot, field |-> field]
    BY <1>1, <2>1, WritesStep
  <2>3. clock = Len(diary) /\ clock \in Nat /\ now = clock + 1
    BY <1>1 DEF RecorderTyped, clock, now
  <2>4. Grows(diary, diary') /\ diary'[now].key = key
    BY <2>2, <2>3 DEF Grows
  <2>5. /\ \A k : Known(diary, k) => Known(diary', k)
        /\ \A b : BoxKnown(diary, b) => BoxKnown(diary', b)
        /\ \A b : BodiesKnown(diary, b) => BodiesKnown(diary', b)
    BY <2>4, LaterKnown
  <2>6. Known(diary', key)
    <3>1. CASE cmd.type = "createTrip"
      BY <2>1, <2>2, <2>3, <2>4, <3>1 DEF Known
    <3>2. CASE cmd.type # "createTrip"
      BY <2>1, <2>5, <3>2 DEF TripsKept
    <3> QED BY <3>1, <3>2
  <2>7. DiaryKnown(diary')
    <3> SUFFICES ASSUME NEW n \in 1..now PROVE Known(diary', diary'[n].key)
      BY <2>2 DEF DiaryKnown
    <3>1. CASE n = now
      BY <2>4, <2>6, <3>1
    <3>2. CASE n # now
      <4>1. n \in 1..Len(diary) /\ diary'[n] = diary[n]
        BY <2>2, <2>3, <3>2
      <4> QED BY <2>5, <4>1 DEF TripsKept, DiaryKnown
    <3> QED BY <3>1, <3>2
  <2>8. cmd.type = "updateTrip" => Leaves(diary', cmd.body, key)
    <3>1. TripBody(field).leftHomeAt \in {now, Nil}
      BY DEF TripBody, TripFields
    <3>2. now \in 1..Len(diary')
      BY <2>2, <2>3
    <3> QED BY <2>1, <2>4, <3>1, <3>2 DEF Leaves
  <2>9. box' = Enqueued(box, cmd)
    BY <2>1 DEF Enqueue, Persist
  <2>10. /\ BoxKnown(diary', box')
         /\ BodiesKnown(diary', box')
         /\ box'.tripIds = box.tripIds
         /\ \A k : HasTrip(box', k) =>
              HasTrip(box, k) \/ (cmd.type = "createTrip" /\ k = key)
         /\ \A k : Deletes(box, k) => Deletes(box', k)
    BY <1>1, <2>1, <2>5, <2>6, <2>8, <2>9, EnqueuedKnown DEF TripsKept
  <2>11. \A k : Known(diary, k) /\ HasTrip(box', k) => HasTrip(box, k)
    <3> SUFFICES ASSUME NEW k, Known(diary, k), k = key, cmd.type = "createTrip"
                 PROVE  FALSE
      BY <2>10
    <3>1. key[2] \in 1..clock /\ key[2] = clock + 1
      BY <2>1, <2>3 DEF Known
    <3> QED BY <2>3, <3>1
  <2>12. \A k \in DOMAIN box'.tripIds :
           /\ Known(diary, k)
           /\ RightId(diary, server, removed, box, box'.tripIds[k], k)
    BY <2>10 DEF TripsKept, BoxKnown, IdsRight
  <2>13. Holds(box, box')
    BY <1>1, <2>1, <2>9, EnqueuedHolds
  <2>14. server' = server /\ removed' = removed /\ late' = late /\ call' = call
    BY <2>1 DEF Recording, serverVars, driverVars
  <2> QED BY <1>1, <2>1, <2>4, <2>6, <2>7, <2>10, <2>11, <2>12, <2>13, <2>14,
             PhoneKeepsTrips
<1>3. CASE EndTrip \/ NothingToRecord \/ PersistRecorder
  <2>1. /\ box' = box /\ diary' = diary /\ trip' \in {trip, NoTrip}
        /\ call' = call /\ server' = server /\ removed' = removed /\ late' = late
    BY <1>3 DEF EndTrip, NothingToRecord, PersistRecorder, Recording, driverVars,
                historyVars, serverVars
  <2>2. Shrinks(box, box') /\ Holds(box, box')
    BY <2>1 DEF Shrinks, Holds
  <2> QED BY <1>1, <2>1, <2>2, ShrinkKeepsTrips
<1>4. CASE CancelTrip
  <2>1. /\ trip # NoTrip /\ box' = Discarded(box, trip.key) /\ diary' = diary
        /\ trip' = NoTrip /\ call' = call /\ server' = server
        /\ removed' = removed /\ late' = late
    BY <1>4 DEF CancelTrip, Discard, Persist, Recording, driverVars, serverVars
  <2>2. trip.key \in Keys /\ Known(diary, trip.key)
    BY <2>1 DEF TripsKept, Known
  <2>3. /\ BoxKnown(diary, box')
        /\ BodiesKnown(diary, box')
        /\ box'.tripIds = box.tripIds
        /\ \A k : HasTrip(box', k) => HasTrip(box, k)
        /\ \A k : Deletes(box, k) => Deletes(box', k)
    BY <1>1, <2>1, <2>2, DiscardedKnown DEF TripsKept
  <2>4. Holds(box, box')
    BY <1>1, <2>1, <2>2, DiscardedHolds
  <2>5. Grows(diary, diary')
    <3>1. Len(diary) \in Nat
      BY <1>1 DEF RecorderTyped
    <3> QED BY <2>1, <3>1 DEF Grows
  <2>6. \A k \in DOMAIN box'.tripIds :
          /\ Known(diary, k)
          /\ RightId(diary, server, removed, box, box'.tripIds[k], k)
    BY <2>3 DEF TripsKept, BoxKnown, IdsRight
  <2>7. DiaryKnown(diary')
    BY <2>1 DEF TripsKept
  <2> QED BY <1>1, <2>1, <2>3, <2>4, <2>5, <2>6, <2>7, PhoneKeepsTrips
<1> QED BY <1>1, <1>2, <1>3, <1>4, RecordSteps

(* What goes out means the trip of its command.                            *)
LEMMA SentFits ==
  ASSUME TypeOK, TripsKept, NEW i \in Dispatchable(box), NEW c,
         c = [id |-> i, key |-> box.entries[i].cmd.key,
              req |-> RequestOf(box.entries[i].cmd), answer |-> NoAnswer]
  PROVE  CallFit(diary, server, removed, Dispatched(box, i), c)
<1> DEFINE cmd == box.entries[i].cmd
           d == Dispatched(box, i)
<1>1. i \in Ids(box) /\ Resolvable(box, cmd) /\ IsState(box)
  BY DEF Dispatchable, Ready, TypeOK
<1>2. cmd \in Commands
  BY <1>1, StateFields, EntryFields
<1>3. c.id = i /\ c.key = cmd.key /\ c.req = RequestOf(cmd) /\ c.answer = NoAnswer
  OBVIOUS
<1>4. RequestOf(cmd).type = cmd.type
  BY <1>1, <1>2, RequestType
<1>5. Shrinks(box, d)
  BY <1>1, DispatchedShrinks
<1>6. Ids(d) = Ids(box) /\ d.entries[i].cmd = cmd
  BY <1>1, DispatchedParts
<1> HIDE DEF d
<1>7. KeyAt(box, i) = cmd.key /\ TypeAt(box, i) = cmd.type /\ KeyAt(d, i) = cmd.key
      /\ TypeAt(d, i) = cmd.type
  BY <1>6 DEF KeyAt, TypeAt
<1> HIDE DEF cmd
<1>8. cmd.type \in {"updateTrip", "deleteTrip"} =>
        /\ cmd.key \in Keys
        /\ Names(diary, server, box.tripIds[cmd.key], cmd.key)
        /\ RequestOf(cmd).tripId = box.tripIds[cmd.key]
  BY <1>1, <1>2, CommandParts DEF Resolvable, TripsKept, IdsRight, RightId, RequestOf
<1>9. CASE cmd.type = "createTrip"
  <2>1. cmd.key \in Keys
    BY <1>2, <1>9, CommandParts
  <2>2. RequestOf(cmd).route = cmd.key[1] /\ RequestOf(cmd).leftHomeAt = cmd.key[2]
    BY <1>9 DEF RequestOf
  <2>3. cmd.key = <<RequestOf(cmd).route, RequestOf(cmd).leftHomeAt>>
    BY <2>1, <2>2, OutboxSystemAssumption
  <2>4. Known(diary, cmd.key)
    BY <1>1, <1>7, <2>1 DEF TripsKept, BoxKnown
  <2>5. Fits(diary, server, d, c.req) /\ c.key = <<c.req.route, c.req.leftHomeAt>>
    BY <1>3, <1>4, <1>9, <2>3, <2>4 DEF Fits
  <2> QED BY <1>3, <1>7, <2>5, <1>4, <1>9, NoCallAssumption
          DEF CallFit, Answers, TripCreated, d
<1>10. CASE cmd.type # "createTrip"
  <2>1. cmd.type = "updateTrip" => Leaves(diary, RequestOf(cmd).body, cmd.key)
    <3>1. cmd.type = "updateTrip" => RequestOf(cmd).body = cmd.body
      BY DEF RequestOf
    <3> QED BY <1>1, <1>7, <3>1 DEF TripsKept, BodiesKnown, cmd
  <2>2. cmd.type = "deleteTrip" => Doomed(d, cmd.key)
    BY <1>1, <1>6, <1>7 DEF Doomed, Deletes
  <2>3. Fits(diary, server, d, c.req)
    BY <1>3, <1>4, <1>8, <1>10, <2>1, <2>2 DEF Fits
  <2> QED BY <1>3, <1>4, <1>7, <1>10, <2>3, NoCallAssumption
          DEF CallFit, Answers, TripCreated, Failures, d
<1> QED BY <1>9, <1>10

(* The driver: an answer is for the trip of its command.                   *)
LEMMA DriveKeepsTrips ==
  ASSUME Kept, TripsKept, Reliable, Drive
  PROVE  TripsKept'
<1>1. BoxTyped /\ RecorderTyped /\ IsState(box) /\ Awaited
  BY TypeParts DEF Kept, BoxTyped
<1>2. /\ trip' = trip /\ diary' = diary /\ server' = server /\ removed' = removed
      /\ late' = late
  BY DEF Drive, SendOne, SendFailsToSave, FindsNothing, DrainEnds, Ending, Driving,
         Return, WakeFires, TimePasses, Expedite, SaveToken, ClearReviews,
         recorderVars, historyVars, serverVars
<1>3. CASE SendOne
  <2>1. PICK i \in Dispatchable(box) :
          /\ box' = Dispatched(box, i)
          /\ call' = [id |-> i, key |-> box.entries[i].cmd.key,
                      req |-> RequestOf(box.entries[i].cmd), answer |-> NoAnswer]
    BY <1>3 DEF SendOne
  <2>2. CallFit(diary, server, removed, Dispatched(box, i), call')
    BY <2>1, SentFits DEF Kept
  <2>3. i \in Ids(box)
    BY DEF Dispatchable, Ready
  <2>4. Shrinks(box, box')
    BY <1>1, <2>1, <2>3, DispatchedShrinks
  <2> QED BY <1>1, <1>2, <2>1, <2>2, <2>4, ShrinkKeepsTrips
<1>4. CASE SendFailsToSave
  BY <1>4 DEF SendFailsToSave, Reliable
<1>5. CASE FindsNothing \/ DrainEnds \/ WakeFires
  <2>1. box' = box /\ call' = call
    BY <1>5 DEF FindsNothing, DrainEnds, Ending, WakeFires
  <2>2. Shrinks(box, box') /\ Holds(box, box')
    BY <2>1 DEF Shrinks, Holds
  <2> QED BY <1>1, <1>2, <2>1, <2>2, ShrinkKeepsTrips
<1>6. CASE Return
  <2> DEFINE i == call.id
             outcome == call.answer
  <2>1. /\ call # NoCall /\ outcome # NoAnswer /\ call' = NoCall
        /\ i \in Ids(box) /\ box.entries[i].inFlight
        /\ box' = Completed(box, i, outcome)
    BY <1>6 DEF Return, Complete, Persist
  <2>2. /\ outcome \in OutcomesOf(box.entries[i].cmd, Nat)
        /\ call.req.type = TypeAt(box, i)
    BY <1>1, <2>1 DEF Awaited, TypeAt
  <2>3. CallFit(diary, server, removed, box, call)
    BY <2>1 DEF TripsKept
  <2>4. Accepted(box.entries[i].cmd, outcome)
    BY <2>1, <2>2 DEF Kept, QueueKept, CreatesAccepted, Accepted, TypeAt
  <2>5. IsDelete(box.entries[i].cmd) => outcome # Refused
    BY <2>2, <2>3 DEF CallFit, IsDelete, TypeAt
  <2>6. CASE TypeAt(box, i) # "createTrip" \/ \A id \in Nat : outcome # TripCreated(id)
    <3>1. Shrinks(box, box')
      BY <1>1, <2>1, <2>2, <2>4, <2>5, <2>6, CompletedShrinks DEF Kept, QueueKept
    <3> QED BY <1>1, <1>2, <2>1, <3>1, ShrinkKeepsTrips
  <2>7. ASSUME NEW id \in Nat, TypeAt(box, i) = "createTrip", outcome = TripCreated(id)
        PROVE  TripsKept'
    <3>1. box' = AfterTripCreated(box, i, id)
      BY <2>1, <2>7 DEF Completed, TripCreated
    <3>2. Known(diary, KeyAt(box, i)) /\ RightId(diary, server, removed, box, id, KeyAt(box, i))
      BY <2>2, <2>3, <2>7 DEF CallFit, Fits
    <3>3. /\ BoxKnown(diary, box')
          /\ BodiesKnown(diary, box')
          /\ \A k : HasTrip(box', k) => HasTrip(box, k)
          /\ \A k : Deletes(box, k) => Deletes(box', k)
          /\ \A k \in DOMAIN box'.tripIds :
               \/ k = KeyAt(box, i) /\ box'.tripIds[k] = id
               \/ k \in DOMAIN box.tripIds /\ box'.tripIds[k] = box.tripIds[k]
      BY <1>1, <2>1, <2>7, <3>1, <3>2, CreatedKnown DEF TripsKept
    <3>4. \A k \in DOMAIN box'.tripIds :
            /\ Known(diary, k)
            /\ RightId(diary, server, removed, box, box'.tripIds[k], k)
      BY <3>2, <3>3 DEF TripsKept, BoxKnown, IdsRight
    <3>5. Grows(diary, diary')
      <4>1. Len(diary) \in Nat
        BY <1>1 DEF RecorderTyped
      <4> QED BY <1>2, <4>1 DEF Grows
    <3>6. DiaryKnown(diary') /\ (trip' # NoTrip => Known(diary', trip'.key))
      BY <1>2 DEF TripsKept
    <3>7. BoxKnown(diary', box') /\ BodiesKnown(diary', box')
      BY <1>2, <3>3
    <3> QED BY <1>1, <1>2, <2>1, <3>3, <3>4, <3>5, <3>6, <3>7, PhoneKeepsTrips
  <2> QED BY <2>6, <2>7
<1>7. ASSUME NEW i \in Ids(box), TimePasses(i) PROVE TripsKept'
  <2>1. box' = Due(box, i) /\ call' = call
    BY <1>7 DEF TimePasses, RetryDue, driverVars
  <2>2. Shrinks(box, box') /\ Holds(box, box')
    BY <1>1, <2>1, FlagsOrderly, FlagsHold, SameQueueShrinks
  <2> QED BY <1>1, <1>2, <2>1, <2>2, ShrinkKeepsTrips
<1>8. CASE Expedite \/ SaveToken \/ ClearReviews
  <2>1. box' \in {Expedited(box), Resumed(box), Cleared(box)} /\ call' = call
    BY <1>8 DEF Expedite, ExpediteRetries, SaveToken, Resume, ClearReviews,
                ClearDeadLetters, Persist, driverVars
  <2>2. Shrinks(box, box') /\ Holds(box, box')
    BY <1>1, <2>1, FlagsOrderly, FlagsHold, SameQueueShrinks
  <2> QED BY <1>1, <1>2, <2>1, <2>2, ShrinkKeepsTrips
<1> QED BY <1>3, <1>4, <1>5, <1>6, <1>7, <1>8 DEF Drive

(* What the server does with a request, in time or late.                   *)
LEMMA HandlesKeepsTrips ==
  ASSUME Kept, TripsKept, NEW req \in PhoneRequests,
         Fits(diary, server, box, req), Handles(req)
  PROVE  /\ RowsDated(diary, server')
         /\ \A id \in Nat : \A k :
              RightId(diary, server, removed, box, id, k) /\ HasTrip(box, k)
                => RightId(diary, server', removed', box, id, k)
         /\ IdsRight(diary, server', removed', box)
         /\ \A r \in PhoneRequests :
              Fits(diary, server, box, r) => Fits(diary, server', box, r)
<1>1. BoxTyped /\ RecorderTyped /\ IsServer(server)
  BY TypeParts DEF Kept
<1>2. /\ server' = S!Served(server, req).state
      /\ removed' = removed \cup RemovedBy(diary, server, server')
  BY DEF Handles, RemovedBy, RowKey, KeyOf, S!Ids
<1>3. IsServer(server')
  BY <1>1, <1>2, ServedType
<1>4. Evolves(diary, server, server', box)
  <2>1. Len(diary) \in Nat
    BY <1>1 DEF RecorderTyped
  <2>2. RowsDated(diary, server)
    BY DEF TripsKept
  <2> QED BY <1>1, <1>2, <2>1, <2>2, ServedEvolves
<1>5. /\ \A id \in Int : \A k :
           RightId(diary, server, removed, box, id, k) /\ HasTrip(box, k)
             => RightId(diary, server', removed', box, id, k)
      /\ \A r \in PhoneRequests :
           Fits(diary, server, box, r) => Fits(diary, server', box, r)
  BY <1>1, <1>2, <1>3, <1>4, ServerStep
<1>6. IdsRight(diary, server', removed', box)
  <2> SUFFICES ASSUME NEW k \in DOMAIN box.tripIds
               PROVE  RightId(diary, server', removed', box, box.tripIds[k], k)
    BY DEF IdsRight
  <2>1. box.tripIds[k] \in Int /\ HasTrip(box, k)
    BY <1>1 DEF BoxTyped, IsState, HasTrip
  <2>2. RightId(diary, server, removed, box, box.tripIds[k], k)
    BY DEF TripsKept, IdsRight
  <2> QED BY <1>5, <2>1, <2>2
<1> QED BY <1>4, <1>5, <1>6 DEF Evolves

(* The network: an answer that arrives is the server's.                    *)
LEMMA NetworkKeepsTrips ==
  ASSUME Kept, TripsKept, Reliable, Network
  PROVE  TripsKept'
<1>1. BoxTyped /\ RecorderTyped /\ DriverTyped /\ IsServer(server) /\ Awaited
  BY TypeParts DEF Kept
<1>2. box' = box /\ trip' = trip /\ diary' = diary
  BY DEF Network, Served, TurnedAway, TimesOut, ArrivesLate, Networking,
         recorderVars, historyVars
<1>3. /\ DiaryKnown(diary') /\ BoxKnown(diary', box') /\ BodiesKnown(diary', box')
      /\ trip' # NoTrip => Known(diary', trip'.key)
  BY <1>2 DEF TripsKept
<1>4. call # NoCall => CallFit(diary, server, removed, box, call)
  BY DEF TripsKept
<1>5. late \subseteq PhoneRequests /\ \A req \in late : Fits(diary, server, box, req)
  BY <1>1 DEF DriverTyped, TripsKept
<1>6. ASSUME Waiting, NEW answer, call' = [call EXCEPT !.answer = answer],
             Fits(diary, server', box, call.req),
             call.req.type = "deleteTrip" => answer # Refused,
             \A id \in Nat : answer = TripCreated(id) =>
               RightId(diary, server', removed', box, id, call.key)
      PROVE  CallFit(diary', server', removed', box', call')
  <2>1. call \in Calls
    BY <1>1, <1>6 DEF Waiting, DriverTyped
  <2>2. /\ call'.req = call.req /\ call'.answer = answer
        /\ call'.id = call.id /\ call'.key = call.key
    BY <1>6, <2>1 DEF Calls
  <2> QED BY <1>2, <1>4, <1>6, <2>2 DEF CallFit, Waiting
<1>7. CASE Served
  <2>1. Waiting /\ Handles(call.req) /\ late' = late
    BY <1>7 DEF Served
  <2>2. PICK answer \in Understood(S!Served(server, call.req).outcome) :
          call' = [call EXCEPT !.answer = answer]
    BY <1>7 DEF Served
  <2>3. call.req \in PhoneRequests /\ Fits(diary, server, box, call.req)
    BY <1>1, <1>4, <2>1 DEF Waiting, DriverTyped, Calls, CallFit
  <2>4. answer \in {S!Served(server, call.req).outcome, Transient}
    BY DEF Understood, Reliable, Transient, Unauthorized, Unreadable
  <2>5. /\ RowsDated(diary, server')
        /\ IdsRight(diary, server', removed', box)
        /\ \A r \in PhoneRequests :
             Fits(diary, server, box, r) => Fits(diary, server', box, r)
    BY <2>1, <2>3, HandlesKeepsTrips
  <2>6. call.req.type = "deleteTrip" => answer # Refused
    <3> SUFFICES ASSUME call.req.type = "deleteTrip" PROVE answer # Refused
      OBVIOUS
    <3> DEFINE outcome == S!Served(server, call.req).outcome
               id == call.req.tripId
    <3>1. outcome \in {Delivered, NotFound}
      <4>1. outcome = IF id \in S!Ids(server) THEN Delivered ELSE NotFound
        BY <1>1, <2>3, DeleteParts
      <4> HIDE DEF outcome, id
      <4> QED BY <4>1
    <3> QED BY <2>4, <3>1 DEF Delivered, NotFound, Refused, Transient
  <2>7. ASSUME NEW id \in Nat, answer = TripCreated(id)
        PROVE  RightId(diary, server', removed', box, id, call.key)
    <3>1. S!Served(server, call.req).outcome = TripCreated(id)
      BY <2>4, <2>7 DEF TripCreated, Transient
    <3>2. call.req.type = "createTrip"
      BY <1>1, <2>3, <3>1, PlainOutcomes
         DEF TripCreated, NotFound, Refused, Delivered
    <3>3. call.key = <<call.req.route, call.req.leftHomeAt>>
      BY <1>4, <2>1, <3>2 DEF Waiting, CallFit
    <3>4. server' = S!Served(server, call.req).state
      BY <2>1 DEF Handles
    <3> QED BY <1>1, <2>3, <3>1, <3>2, <3>3, <3>4, CreatedId
  <2>8. CallFit(diary', server', removed', box', call')
    BY <1>6, <2>1, <2>2, <2>3, <2>5, <2>6, <2>7
  <2>9. \A req \in late : Fits(diary, server', box, req)
    BY <1>5, <2>5
  <2> QED BY <1>2, <1>3, <2>1, <2>5, <2>8, <2>9 DEF TripsKept
<1>8. CASE TurnedAway \/ TimesOut
  <2>1. /\ Waiting /\ server' = server /\ removed' = removed
        /\ late' \subseteq late \cup {call.req}
    BY <1>8 DEF TurnedAway, TimesOut, serverVars
  <2>2. PICK answer \in {Transient, Unauthorized} : call' = [call EXCEPT !.answer = answer]
    BY <1>8 DEF TurnedAway, TimesOut, Reliable
  <2>3. answer # Refused /\ \A id : answer # TripCreated(id)
    BY DEF Transient, Unauthorized, Refused, TripCreated
  <2>4. Fits(diary, server', box, call.req)
    BY <1>4, <2>1 DEF Waiting, CallFit
  <2>5. CallFit(diary', server', removed', box', call')
    BY <1>6, <2>1, <2>2, <2>3, <2>4
  <2>6. \A req \in late' : Fits(diary, server', box, req)
    BY <1>5, <2>1, <2>4
  <2>7. RowsDated(diary, server') /\ IdsRight(diary, server', removed', box)
    BY <2>1 DEF TripsKept
  <2> QED BY <1>2, <1>3, <2>5, <2>6, <2>7 DEF TripsKept
<1>9. CASE ArrivesLate
  <2>1. PICK req \in late : Handles(req) /\ late' = late \ {req}
    BY <1>9 DEF ArrivesLate
  <2>2. call' = call
    BY <1>9 DEF ArrivesLate
  <2>3. /\ RowsDated(diary, server')
        /\ \A id \in Nat : \A k :
              RightId(diary, server, removed, box, id, k) /\ HasTrip(box, k)
                => RightId(diary, server', removed', box, id, k)
        /\ IdsRight(diary, server', removed', box)
        /\ \A r \in PhoneRequests :
             Fits(diary, server, box, r) => Fits(diary, server', box, r)
    BY <1>5, <2>1, HandlesKeepsTrips
  <2>4. \A r \in late' : Fits(diary, server', box, r)
    BY <1>5, <2>1, <2>3
  <2>5. ASSUME call # NoCall PROVE CallFit(diary, server', removed', box, call)
    <3>1. call.req \in PhoneRequests
      BY <1>1, <2>5 DEF DriverTyped, Calls
    <3>2. ASSUME NEW id \in Nat, call.answer = TripCreated(id)
          PROVE  RightId(diary, server', removed', box, id, call.key)
      <4>1. call.req.type = "createTrip"
        BY <1>1, <2>5, <3>2, CreatedByCreate
      <4>2. HasTrip(box, call.key)
        BY <1>1, <1>4, <2>5, <4>1, CallHasTrip DEF CallFit
      <4>3. RightId(diary, server, removed, box, id, call.key)
        BY <1>4, <2>5, <3>2 DEF CallFit
      <4> QED BY <2>3, <4>2, <4>3
    <3> QED BY <1>4, <2>3, <2>5, <3>1, <3>2 DEF CallFit
  <2> QED BY <1>2, <1>3, <2>2, <2>3, <2>4, <2>5 DEF TripsKept
<1> QED BY <1>7, <1>8, <1>9 DEF Network

(* A crash forgets the call, not its trip.                                 *)
LEMMA CrashKeepsTrips ==
  ASSUME Kept, TripsKept, Reliable, Crash
  PROVE  TripsKept'
<1>1. BoxTyped /\ RecorderTyped /\ Awaited
  BY TypeParts DEF Kept
<1>2. /\ box' = Reloaded(saved) /\ trip' = savedTrip /\ diary' = diary /\ call' = NoCall
      /\ server' = server /\ removed' = removed /\ late' = late /\ turn # "persist"
  BY DEF Crash, Relaunch, historyVars, serverVars, Reliable
<1>3. Shrinks(box, box')
  BY <1>1, <1>2, RelaunchKeeps, SameQueueShrinks DEF BoxTyped, Kept, QueueKept
<1>4. trip' = trip
  BY <1>2 DEF Kept, QueueKept, RecorderSaved
<1> QED BY <1>1, <1>2, <1>3, <1>4, ShrinkKeepsTrips

(* At the start there is nothing,                                          *)
LEMMA InitTripsKept == Init => TripsKept
<1> SUFFICES ASSUME Init PROVE TripsKept
  OBVIOUS
<1>1. /\ Ids(box) = {} /\ DOMAIN box.tripIds = {} /\ S!Ids(server) = {} /\ late = {}
      /\ call = NoCall /\ trip = NoTrip /\ diary = << >>
  BY DEF Init, Empty, Ids, S!Ids, S!NewServer
<1> QED BY <1>1 DEF TripsKept, DiaryKnown, BoxKnown, BodiesKnown, RowsDated, IdsRight

(* and every step keeps the trips as they are meant.                       *)
LEMMA StepTripsKept ==
  ASSUME Reliable
  PROVE  Kept /\ TripsKept /\ [Next]_vars => TripsKept'
<1> SUFFICES ASSUME Kept, TripsKept, [Next]_vars PROVE TripsKept'
  OBVIOUS
<1>1. CASE UNCHANGED vars
  <2>1. UNCHANGED <<box, server, removed, trip, call, late, diary>>
    BY <1>1 DEF vars, serverVars, recorderVars, driverVars, historyVars
  <2> QED BY <2>1 DEF TripsKept
<1> QED BY <1>1, RecordKeepsTrips, DriveKeepsTrips, NetworkKeepsTrips,
           CrashKeepsTrips DEF Next

(* A trip id the outbox remembers is the id of the trip of that key, until *)
(* the trip is deleted, and then the delete is still queued: no command is *)
(* ever sent to another trip, whatever is lost, repeated or late, for any  *)
(* routes and scripts, any number of trips and crashes                     *)
(* (Outbox.swift:251-275, CommuteTripService create and delete).           *)
THEOREM TripIdsStayRight ==
  ASSUME Reliable
  PROVE  Spec => []TripIdsRight
<1>1. TripsKept => TripIdsRight
  <2> SUFFICES ASSUME TripsKept, NEW k \in DOMAIN box.tripIds
               PROVE  \/ box.tripIds[k] \in RowsOf(k)
                      \/ k \in removed /\ Deleting(box, k)
    BY DEF TripIdsRight
  <2>1. RightId(diary, server, removed, box, box.tripIds[k], k)
    BY DEF TripsKept, IdsRight
  <2> QED BY <2>1, DeletingIsDeletes DEF RightId, Names, RowsOf, KeyOf, RowKey, S!Ids
<1> QED BY <1>1, InitKept, StepKept, InitTripsKept, StepTripsKept, PTL DEF Spec
=============================================================================
