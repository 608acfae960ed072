------------------------ MODULE TripCorrectionsProofs ------------------------
(***************************************************************************)
(* Proofs about TripCorrections: a save changes what was typed into its    *)
(* form and nothing else, and "saved" means stored; for any trip, anything *)
(* typed, any requests of the phone and any bounds.                        *)
(***************************************************************************)
EXTENDS TripCorrections, TLAPS

-----------------------------------------------------------------------------
(* What the server does with a request of the trip.                        *)

IsStore(s) ==
  /\ s = [trips |-> s.trips, gps |-> s.gps, lastId |-> s.lastId]
  /\ DOMAIN s.trips \subseteq {1}
  /\ 1 \in DOMAIN s.trips => IsRow(s.trips[1])

(* An answer, and the trip it leaves behind: nothing if it was refused,    *)
(* and never fewer attempts, unless the trip is gone for good.             *)
Follows(s, done) ==
  /\ IsStore(done.state)
  /\ done.outcome \in {Delivered, Refused, NotFound}
  /\ done.outcome # Delivered => done.state = s
  /\ 1 \in DOMAIN done.state.trips =>
       /\ 1 \in DOMAIN s.trips
       /\ DOMAIN s.trips[1].attempts \subseteq DOMAIN done.state.trips[1].attempts

(* A patch takes the place of what it names.                               *)
LEMMA OverlayIs ==
  ASSUME NEW old, NEW new
  PROVE  /\ DOMAIN S!Overlay(old, new) = DOMAIN old
         /\ \A x \in DOMAIN old :
              S!Overlay(old, new)[x] = IF new[x] # Nil THEN new[x] ELSE old[x]
BY DEF S!Overlay

(* An answer that changes nothing.                                         *)
LEMMA SameFollows ==
  ASSUME NEW s, IsStore(s), NEW outcome \in {Delivered, Refused, NotFound}
  PROVE  Follows(s, S!Answer(s, outcome))
BY DEF Follows, S!Answer

(* Writing the trip.                                                       *)
LEMMA WriteIs ==
  ASSUME NEW s, IsStore(s), 1 \in DOMAIN s.trips, NEW trip, IsRow(trip),
         DOMAIN s.trips[1].attempts \subseteq DOMAIN trip.attempts
  PROVE  /\ Follows(s, S!Answer(S!WithTrip(s, 1, trip), Delivered))
         /\ OnServer(S!WithTrip(s, 1, trip)) = trip
<1> DEFINE new == S!WithTrip(s, 1, trip)
<1>1. /\ new = [trips |-> [i \in {1} |-> trip], gps |-> s.gps, lastId |-> s.lastId]
  <2>1. DOMAIN s.trips = {1}
    BY DEF IsStore
  <2>2. [i \in DOMAIN s.trips \cup {1} |-> IF i = 1 THEN trip ELSE s.trips[i]]
          = [i \in {1} |-> trip]
    BY <2>1
  <2> QED BY <2>2 DEF S!WithTrip, S!Ids, IsStore
<1> HIDE DEF new
<1>2. new.trips = [i \in {1} |-> trip]
  BY <1>1
<1>3. DOMAIN new.trips = {1} /\ new.trips[1] = trip
  BY <1>2
<1>4. IsStore(new)
  BY <1>1, <1>3 DEF IsStore
<1>5. OnServer(new) = trip
  BY <1>3 DEF OnServer, S!Ids
<1> QED BY <1>3, <1>4, <1>5 DEF Follows, S!Answer, new

Server == OnServer(stored)
HasRow(trip, f) == trip # Gone /\ (f = TripForm \/ f \in DOMAIN trip.attempts)

(* What a save that is accepted makes of the fields of its form.           *)
Writes(s, done, f, body) ==
  done.outcome = Delivered =>
    /\ HasRow(OnServer(s), f) /\ HasRow(OnServer(done.state), f)
    /\ \A x \in FieldsOf(f) :
         Original(OnServer(done.state), f)[x] =
           IF body[x] # Nil THEN body[x] ELSE Original(OnServer(s), f)[x]

(* A row is not the sign that there is none.                               *)
LEMMA RowIsThere ==
  ASSUME NEW trip, IsRow(trip)
  PROVE  trip # Gone
<1>1. DOMAIN trip = {"route", "tripDate", "fields", "attempts"}
  BY DEF IsRow
<1>2. DOMAIN Gone = {"gone"}
  BY DEF Gone
<1> QED BY <1>1, <1>2

(* TripServer's answers, seen from here.                                   *)
LEMMA SameOutcomes ==
  S!Delivered = Delivered /\ S!Refused = Refused /\ S!NotFound = NotFound
BY DEF S!Delivered, Delivered, S!Refused, Refused, S!NotFound, NotFound

(* The trip's own times.                                                   *)
LEMMA UpdateTripIs ==
  ASSUME NEW s, IsStore(s), NEW req, req.tripId = 1,
         req.body \in [S!TripFields -> Nat \cup {Nil}]
  PROVE  /\ Follows(s, S!UpdateTrip(s, req))
         /\ Writes(s, S!UpdateTrip(s, req), TripForm, req.body)
<1> DEFINE old == s.trips[1]
           trip == [old EXCEPT !.fields = S!Overlay(@, req.body)]
           done == S!UpdateTrip(s, req)
<1>1. CASE 1 \notin DOMAIN s.trips
  <2>1. done = S!Answer(s, NotFound)
    BY <1>1, SameOutcomes DEF S!UpdateTrip, S!Ids
  <2> HIDE DEF done
  <2>2. done.outcome # Delivered
    BY <2>1 DEF S!Answer, NotFound, Delivered
  <2> QED BY <2>1, <2>2, SameFollows DEF Writes, done
<1>2. CASE 1 \in DOMAIN s.trips
  <2>1. IsRow(old)
    BY <1>2 DEF IsStore
  <2>2. trip = [route |-> old.route, tripDate |-> old.tripDate,
                fields |-> S!Overlay(old.fields, req.body), attempts |-> old.attempts]
    BY <2>1 DEF IsRow
  <2>3. S!Overlay(old.fields, req.body) \in [S!TripFields -> Nat \cup {Nil}]
    BY <2>1 DEF S!Overlay, IsRow
  <2>4. done \in {S!Answer(S!WithTrip(s, 1, trip), Delivered), S!Answer(s, Refused)}
    BY <1>2, SameOutcomes DEF S!UpdateTrip, S!Ids
  <2> HIDE DEF trip, done
  <2>5. IsRow(trip) /\ trip.attempts = old.attempts
    BY <2>1, <2>2, <2>3 DEF IsRow
  <2>6. CASE done = S!Answer(S!WithTrip(s, 1, trip), Delivered)
    <3>1. Follows(s, done) /\ OnServer(done.state) = trip
      BY <1>2, <2>5, <2>6, WriteIs DEF S!Answer
    <3>2. HasRow(old, TripForm) /\ HasRow(trip, TripForm) /\ OnServer(s) = old
      BY <1>2, <2>1, <2>5, RowIsThere DEF HasRow, OnServer, S!Ids
    <3>3. \A x \in FieldsOf(TripForm) :
            trip.fields[x] = IF req.body[x] # Nil THEN req.body[x] ELSE old.fields[x]
      BY <2>1, <2>2 DEF S!Overlay, IsRow, FieldsOf, TimesOf, S!TripFields
    <3>4. Writes(s, done, TripForm, req.body)
      BY <3>1, <3>2, <3>3 DEF Writes, Original
    <3> QED BY <3>1, <3>4 DEF done
  <2>7. CASE done = S!Answer(s, Refused)
    <3>1. done.outcome # Delivered
      BY <2>7 DEF S!Answer, Refused, Delivered
    <3> QED BY <2>7, <3>1, SameFollows DEF Writes, done
  <2> QED BY <2>4, <2>6, <2>7
<1> QED BY <1>1, <1>2

(* The trip is deleted.                                                    *)
LEMMA DeleteTripIs ==
  ASSUME NEW s, IsStore(s), NEW req, req.tripId = 1
  PROVE  Follows(s, S!DeleteTrip(s, req))
<1> DEFINE done == S!DeleteTrip(s, req)
<1>1. CASE 1 \notin DOMAIN s.trips
  <2>1. done = S!Answer(s, NotFound)
    BY <1>1, SameOutcomes DEF S!DeleteTrip, S!Ids
  <2> QED BY <2>1, SameFollows
<1>2. CASE 1 \in DOMAIN s.trips
  <2> DEFINE trips == [i \in S!Ids(s) \ {req.tripId} |-> s.trips[i]]
             gps == [p \in {q \in DOMAIN s.gps : s.gps[q] # req.tripId} |-> s.gps[p]]
  <2>1. DOMAIN trips = {}
    BY DEF IsStore, S!Ids
  <2>2. done = S!Answer([s EXCEPT !.trips = trips, !.gps = gps], Delivered)
    BY <1>2, SameOutcomes DEF S!DeleteTrip, S!Ids
  <2> HIDE DEF trips, gps, done
  <2>3. done.state = [trips |-> trips, gps |-> gps, lastId |-> s.lastId]
    BY <2>2 DEF S!Answer, IsStore
  <2>4. done.outcome = Delivered
    BY <2>2 DEF S!Answer
  <2> QED BY <2>1, <2>3, <2>4 DEF Follows, IsStore, done
<1> QED BY <1>1, <1>2

(* An attempt keeps its shape, and its recorded times when predictions are *)
(* filled in.                                                              *)
LEMMA OverlayAttempt ==
  ASSUME NEW a, IsAttempt(a), NEW body, IsAttempt(body)
  PROVE  IsAttempt(S!Overlay(a, body))
<1>1. DOMAIN a = S!AttemptFields
  BY DEF IsAttempt
<1> QED BY <1>1, OverlayIs DEF IsAttempt, Timed, S!Overlay

(* Predictions are filled in beside what is recorded.                      *)
LEMMA FilledIs ==
  ASSUME NEW attempts, NEW set, \A k \in DOMAIN attempts : IsAttempt(attempts[k])
  PROVE  LET filled == S!FillPredictedSnapshots(attempts, set)
         IN /\ DOMAIN filled = DOMAIN attempts
            /\ \A k \in DOMAIN attempts :
                 /\ IsAttempt(filled[k])
                 /\ \A x \in S!AttemptFields \ {"vehicleScheduledOrPredictedAt"} :
                      filled[k][x] = attempts[k][x]
<1> DEFINE filled == S!FillPredictedSnapshots(attempts, set)
<1>1. DOMAIN filled = DOMAIN attempts
  BY DEF S!FillPredictedSnapshots
<1>2. ASSUME NEW k \in DOMAIN attempts
      PROVE  /\ IsAttempt(filled[k])
             /\ \A x \in S!AttemptFields \ {"vehicleScheduledOrPredictedAt"} :
                  filled[k][x] = attempts[k][x]
  <2> DEFINE next == NextVehicle[S!Reference(attempts, k)]
  <2>1. \/ filled[k] = attempts[k]
        \/ filled[k] = [attempts[k] EXCEPT !.vehicleScheduledOrPredictedAt = next]
    BY DEF S!FillPredictedSnapshots
  <2> HIDE DEF filled, next
  <2>2. attempts[k] = [x \in S!AttemptFields |-> attempts[k][x]] /\ IsAttempt(attempts[k])
    BY DEF IsAttempt
  <2>3. CASE filled[k] = attempts[k]
    BY <2>2, <2>3
  <2>4. CASE filled[k] = [attempts[k] EXCEPT !.vehicleScheduledOrPredictedAt = next]
    <3>1. DOMAIN filled[k] = S!AttemptFields
      BY <2>2, <2>4
    <3>2. \A x \in S!AttemptFields \ {"vehicleScheduledOrPredictedAt"} :
            filled[k][x] = attempts[k][x]
      BY <2>2, <2>4
    <3>3. filled[k] = [x \in S!AttemptFields |-> filled[k][x]]
      BY <2>2, <2>4
    <3> QED BY <2>2, <3>2, <3>3 DEF IsAttempt, Timed
  <2> QED BY <2>1, <2>3, <2>4
<1> QED BY <1>1, <1>2

(* An attempt's form is not the trip's.                                    *)
LEMMA AttemptForms ==
  ASSUME NEW k \in Legs \X {1, 2}
  PROVE  /\ k # TripForm
         /\ TimesOf(k) = {"vehicleActualDepartureAt", "alightedAt"}
         /\ FieldsOf(k) = {"vehicleActualDepartureAt", "alightedAt", "result"}
         /\ \A trip : Original(trip, k) = trip.attempts[k]
<1>1. k # TripForm
  BY DEF TripForm
<1> QED BY <1>1 DEF TimesOf, FieldsOf, Original

(* The change of one attempt.                                              *)
LEMMA ApplyChangesIs ==
  ASSUME NEW s, IsStore(s), 1 \in DOMAIN s.trips, NEW k \in Legs \X {1, 2},
         NEW attempt, IsAttempt(attempt), NEW body, IsAttempt(body)
  PROVE  LET done == S!ApplyChanges(s, 1, k, attempt, body)
         IN /\ Follows(s, done)
            /\ k \in DOMAIN s.trips[1].attempts /\ attempt = s.trips[1].attempts[k] =>
                 Writes(s, done, k, body)
<1> DEFINE old == s.trips[1]
           changed == S!Overlay(attempt, body)
           attempts == [j \in DOMAIN old.attempts \cup {k} |->
                          IF j = k THEN changed ELSE old.attempts[j]]
           filled == S!FillPredictedSnapshots(attempts, {k, <<k[1], k[2] + 1>>})
           trip == [old EXCEPT !.attempts = filled]
           done == S!ApplyChanges(s, 1, k, attempt, body)
<1>1. IsRow(old)
  BY DEF IsStore
<1>2. IsAttempt(changed)
  BY OverlayAttempt
<1>3. done \in {S!Answer(S!WithTrip(s, 1, trip), Delivered), S!Answer(s, Refused)}
  BY SameOutcomes DEF S!ApplyChanges
<1> HIDE DEF changed, done
<1>4. /\ DOMAIN attempts = DOMAIN old.attempts \cup {k}
      /\ attempts[k] = changed
      /\ \A j \in DOMAIN attempts : IsAttempt(attempts[j])
  BY <1>1, <1>2 DEF IsRow
<1> HIDE DEF attempts
<1>5. /\ DOMAIN filled = DOMAIN attempts
      /\ \A j \in DOMAIN attempts :
           /\ IsAttempt(filled[j])
           /\ \A x \in S!AttemptFields \ {"vehicleScheduledOrPredictedAt"} :
                filled[j][x] = attempts[j][x]
  BY <1>4, FilledIs
<1> HIDE DEF filled
<1>6. trip = [route |-> old.route, tripDate |-> old.tripDate,
              fields |-> old.fields, attempts |-> filled]
  BY <1>1 DEF IsRow
<1> HIDE DEF trip
<1>7. /\ DOMAIN old.attempts \subseteq Legs \X {1, 2}
      /\ old.fields \in [S!TripFields -> Nat \cup {Nil}]
  BY <1>1 DEF IsRow
<1>8. IsRow(trip) /\ trip.attempts = filled
  BY <1>4, <1>5, <1>6, <1>7 DEF IsRow
<1>9. CASE done = S!Answer(S!WithTrip(s, 1, trip), Delivered)
  <2>1. DOMAIN s.trips[1].attempts \subseteq DOMAIN trip.attempts
    BY <1>4, <1>5, <1>8
  <2>2. Follows(s, done) /\ OnServer(done.state) = trip
    BY <1>8, <1>9, <2>1, WriteIs DEF S!Answer
  <2>3. ASSUME k \in DOMAIN old.attempts, attempt = old.attempts[k]
        PROVE  Writes(s, done, k, body)
    <3>1. HasRow(old, k) /\ HasRow(trip, k) /\ OnServer(s) = old
      BY <1>1, <1>8, <2>1, <2>3, RowIsThere DEF HasRow, OnServer, S!Ids
    <3>2. \A x \in FieldsOf(k) : filled[k][x] = changed[x]
      BY <1>4, <1>5, AttemptForms DEF S!AttemptFields
    <3>3. \A x \in FieldsOf(k) :
            changed[x] = IF body[x] # Nil THEN body[x] ELSE old.attempts[k][x]
      <4>1. DOMAIN attempt = S!AttemptFields
        BY DEF IsAttempt
      <4> QED BY <2>3, <4>1, OverlayIs, AttemptForms DEF changed, S!AttemptFields
    <3>4. Original(trip, k) = filled[k] /\ Original(old, k) = old.attempts[k]
      BY <1>8, AttemptForms
    <3> QED BY <2>2, <3>1, <3>2, <3>3, <3>4 DEF Writes
  <2> QED BY <2>2, <2>3 DEF done
<1>10. CASE done = S!Answer(s, Refused)
  <2>1. done.outcome # Delivered
    BY <1>10 DEF S!Answer, Refused, Delivered
  <2>2. Follows(s, done)
    BY <1>10, SameFollows
  <2> QED BY <2>1, <2>2 DEF Writes, done
<1> QED BY <1>3, <1>9, <1>10

(* An attempt that is not there yet.                                       *)
LEMMA BlankIs == IsAttempt(S!BlankAttempt)
BY DEF S!BlankAttempt, IsAttempt, Timed

(* An attempt is written, new or not.                                      *)
LEMMA UpsertAttemptIs ==
  ASSUME NEW s, IsStore(s), NEW req, req.tripId = 1, req.attempt \in Legs \X {1, 2},
         IsAttempt(req.body)
  PROVE  Follows(s, S!UpsertAttempt(s, req))
<1> DEFINE done == S!UpsertAttempt(s, req)
           k == req.attempt
<1>1. CASE 1 \notin DOMAIN s.trips
  <2>1. done = S!Answer(s, NotFound)
    BY <1>1, SameOutcomes DEF S!UpsertAttempt, S!Ids
  <2> QED BY <2>1, SameFollows
<1>2. CASE 1 \in DOMAIN s.trips
  <2>1. IsRow(s.trips[1])
    BY <1>2 DEF IsStore
  <2>2. CASE k \in DOMAIN s.trips[1].attempts
    <3>1. done = S!ApplyChanges(s, 1, k, s.trips[1].attempts[k], req.body)
      BY <1>2, <2>2 DEF S!UpsertAttempt, S!Ids
    <3>2. IsAttempt(s.trips[1].attempts[k])
      BY <2>1, <2>2 DEF IsRow
    <3> QED BY <1>2, <3>1, <3>2, ApplyChangesIs
  <2>3. CASE k \notin DOMAIN s.trips[1].attempts
    <3>1. \/ done = S!Answer(s, Refused)
          \/ done = S!ApplyChanges(s, 1, k, S!BlankAttempt, req.body)
      BY <1>2, <2>3, SameOutcomes DEF S!UpsertAttempt, S!Ids
    <3> HIDE DEF done
    <3>2. CASE done = S!Answer(s, Refused)
      BY <3>2, SameFollows DEF done
    <3>3. CASE done = S!ApplyChanges(s, 1, k, S!BlankAttempt, req.body)
      BY <1>2, <3>3, BlankIs, ApplyChangesIs DEF done
    <3> QED BY <3>1, <3>2, <3>3
  <2> QED BY <2>2, <2>3
<1> QED BY <1>1, <1>2

(* An attempt that must be there is corrected.                             *)
LEMMA UpdateAttemptIs ==
  ASSUME NEW s, IsStore(s), NEW req, req.tripId = 1, req.attempt \in Legs \X {1, 2},
         IsAttempt(req.body)
  PROVE  /\ Follows(s, S!UpdateAttempt(s, req))
         /\ Writes(s, S!UpdateAttempt(s, req), req.attempt, req.body)
<1> DEFINE done == S!UpdateAttempt(s, req)
           k == req.attempt
           there == 1 \in DOMAIN s.trips /\ k \in DOMAIN s.trips[1].attempts
<1>1. CASE ~there
  <2>1. done = S!Answer(s, NotFound)
    BY <1>1, SameOutcomes DEF S!UpdateAttempt, S!Ids
  <2> HIDE DEF done
  <2>2. done.outcome # Delivered
    BY <2>1 DEF S!Answer, NotFound, Delivered
  <2> QED BY <2>1, <2>2, SameFollows DEF Writes, done
<1>2. CASE there
  <2>1. done = S!ApplyChanges(s, 1, k, s.trips[1].attempts[k], req.body)
    BY <1>2 DEF S!UpdateAttempt, S!Ids
  <2>2. IsAttempt(s.trips[1].attempts[k])
    BY <1>2 DEF IsStore, IsRow
  <2> QED BY <1>2, <2>1, <2>2, ApplyChangesIs
<1> QED BY <1>1, <1>2

(* Any of the requests.                                                    *)
LEMMA ServedIs ==
  ASSUME NEW s, IsStore(s), NEW req, IsRequest(req)
  PROVE  /\ Follows(s, S!Served(s, req))
         /\ req.type = "updateTrip" => Writes(s, S!Served(s, req), TripForm, req.body)
         /\ req.type = "updateAttempt" => Writes(s, S!Served(s, req), req.attempt, req.body)
<1>1. CASE req.type = "updateTrip"
  <2>1. S!Served(s, req) = S!UpdateTrip(s, req)
    BY <1>1 DEF S!Served
  <2> QED BY <1>1, <2>1, UpdateTripIs DEF IsRequest
<1>2. CASE req.type = "upsertAttempt"
  <2>1. S!Served(s, req) = S!UpsertAttempt(s, req)
    BY <1>2 DEF S!Served
  <2> QED BY <1>2, <2>1, UpsertAttemptIs DEF IsRequest
<1>3. CASE req.type = "updateAttempt"
  <2>1. S!Served(s, req) = S!UpdateAttempt(s, req)
    BY <1>3 DEF S!Served
  <2> QED BY <1>3, <2>1, UpdateAttemptIs DEF IsRequest
<1>4. CASE req.type = "deleteTrip"
  <2>1. S!Served(s, req) = S!DeleteTrip(s, req)
    BY <1>4 DEF S!Served
  <2> QED BY <1>4, <2>1, DeleteTripIs DEF IsRequest
<1> QED BY <1>1, <1>2, <1>3, <1>4 DEF IsRequest

-----------------------------------------------------------------------------
(* The forms.                                                              *)

FormKeys == {TripForm} \cup (Legs \X {1, 2})
RowFields(f) == IF f = TripForm THEN S!TripFields ELSE S!AttemptFields

(* Nothing, or an instant in whole seconds.                                *)
Whole(value) == value = Nil \/ \E n \in Nat : value = 2 * n

(* A value as its field shows it.                                          *)
Cut(f, x, value) == IF x \in TimesOf(f) THEN IsoToKstInput(value) ELSE value

IsDraft(f, draft) ==
  /\ draft = [x \in FieldsOf(f) |-> draft[x]]
  /\ \A x \in TimesOf(f) : draft[x] \in Nat \cup {Blank, Malformed}

IsForm(f, form) ==
  /\ form = [draft |-> form.draft, typed |-> form.typed, since |-> form.since,
             status |-> form.status, alone |-> form.alone, heard |-> form.heard]
  /\ IsDraft(f, form.draft)
  /\ \A x \in form.typed : x \notin TimesOf(f) => form.draft[x] # Nil
  /\ form.alone \in BOOLEAN /\ form.heard \in BOOLEAN

IsCall(c) ==
  /\ c = [form |-> c.form, watched |-> c.watched, got |-> c.got, stage |-> c.stage,
          req |-> c.req]
  /\ c.form \in FormKeys /\ c.watched \in BOOLEAN
  /\ c.stage = "sent" \/ (c.stage = "reloading" /\ c.got = Delivered)
  /\ c.req = Request(c.form, c.req.body) /\ IsRequest(c.req)
  /\ \A x \in TimesOf(c.form) : Whole(c.req.body[x])

(* The times of a form are fields of it, and these of its row.             *)
LEMMA FieldsAre ==
  ASSUME NEW f \in FormKeys
  PROVE  TimesOf(f) \subseteq FieldsOf(f) /\ FieldsOf(f) \subseteq RowFields(f)
<1>1. CASE f = TripForm
  BY <1>1 DEF TimesOf, FieldsOf, RowFields, S!TripFields
<1>2. CASE f # TripForm
  BY <1>2 DEF TimesOf, FieldsOf, RowFields, S!AttemptFields
<1> QED BY <1>1, <1>2

(* What a form shows of a trip.                                            *)
LEMMA OriginalIs ==
  ASSUME NEW f \in FormKeys, NEW trip, IsRow(trip), HasRow(trip, f)
  PROVE  /\ DOMAIN Original(trip, f) = RowFields(f)
         /\ \A x \in TimesOf(f) : Original(trip, f)[x] \in Nat \cup {Nil}
<1>1. CASE f = TripForm
  BY <1>1 DEF IsRow, Original, RowFields, TimesOf, S!TripFields
<1>2. CASE f # TripForm
  <2>1. f \in Legs \X {1, 2} /\ IsAttempt(trip.attempts[f])
    BY <1>2 DEF IsRow, HasRow, FormKeys
  <2> QED BY <1>2, <2>1, AttemptForms DEF IsAttempt, Timed, RowFields, S!AttemptFields
<1> QED BY <1>1, <1>2

(* A recorded time is shown as a second; only an absent one is blank.      *)
LEMMA CutIs ==
  ASSUME NEW value \in Nat \cup {Nil}
  PROVE  /\ IsoToKstInput(value) \in Nat \cup {Blank}
         /\ IsoToKstInput(value) = Blank <=> value = Nil
BY TripCorrectionsAssumption DEF IsoToKstInput, Blank

(* A whole second is shown as itself.                                      *)
LEMMA CutBack ==
  ASSUME NEW n \in Nat
  PROVE  IsoToKstInput(2 * n) = n
BY TripCorrectionsAssumption DEF IsoToKstInput

(* What is sent of one time: what is typed, if it is another second.       *)
LEMMA TimeIs ==
  ASSUME NEW original \in Nat \cup {Nil}, NEW input \in Nat \cup {Blank, Malformed},
         ~TimeWrong(original, input)
  PROVE  /\ TimeChanged(original, input) =>
              /\ input \in Nat /\ KstInputToIso(input) = 2 * input
              /\ KstInputToIso(input) # Nil
              /\ input # IsoToKstInput(original)
         /\ ~TimeChanged(original, input) => input = IsoToKstInput(original)
<1>1. input # Malformed
  BY DEF TimeWrong, KstInputToIso, Malformed, Blank
<1>2. CASE input = Blank
  BY <1>2, CutIs DEF TimeWrong, TimeChanged
<1>3. CASE input \in Nat
  <2>1. KstInputToIso(input) = 2 * input /\ 2 * input \in Nat /\ input # Blank
    BY <1>3 DEF KstInputToIso, Blank, Malformed
  <2>2. CASE original = Nil
    BY <1>3, <2>1, <2>2, TripCorrectionsAssumption
      DEF TimeChanged, KstInputToIso, IsoToKstInput, Blank, Malformed
  <2>3. CASE original \in Nat
    <3>1. IsoToKstInput(original) \in Nat
      BY <2>3, CutIs, TripCorrectionsAssumption
    <3>2. KstInputToIso(IsoToKstInput(original)) = 2 * IsoToKstInput(original)
      BY <3>1 DEF KstInputToIso, Blank, Malformed
    <3> QED BY <1>3, <2>1, <3>1, <3>2, TripCorrectionsAssumption DEF TimeChanged
  <2> QED BY <2>2, <2>3
<1> QED BY <1>1, <1>2, <1>3

(* A field that is sent is what the form shows, and not what the page has; *)
(* one that is not sent is the page's.                                     *)
Differs(f, original, draft, patch) ==
  /\ \A x \in TimesOf(f) :
       /\ Whole(patch[x])
       /\ patch[x] # Nil => draft[x] = IsoToKstInput(patch[x])
                            /\ draft[x] # IsoToKstInput(original[x])
       /\ patch[x] = Nil => draft[x] = IsoToKstInput(original[x])
  /\ \A x \in FieldsOf(f) \ TimesOf(f) :
       /\ patch[x] # Nil => draft[x] = patch[x] /\ draft[x] # original[x]
       /\ patch[x] = Nil => draft[x] = Nil \/ draft[x] = original[x]

(* What is sent of a form whose times are right.                           *)
LEMMA PatchIs ==
  ASSUME NEW f \in FormKeys, NEW trip, IsRow(trip), HasRow(trip, f),
         NEW draft, IsDraft(f, draft), ~Wrong(trip, f, draft)
  PROVE  /\ Differs(f, Original(trip, f), draft, Patch(trip, f, draft))
         /\ IsRequest(Request(f, Patch(trip, f, draft)))
<1> DEFINE patch == Patch(trip, f, draft)
           original == Original(trip, f)
<1>1. patch = [x \in RowFields(f) |-> patch[x]]
  BY OriginalIs DEF Patch
<1>2. \A x \in RowFields(f) :
        patch[x] = IF x \in TimesOf(f) /\ TimeChanged(original[x], draft[x])
                     THEN KstInputToIso(draft[x])
                   ELSE IF x \in FieldsOf(f) \ TimesOf(f) /\ draft[x] # original[x]
                     THEN draft[x]
                   ELSE Nil
  BY OriginalIs DEF Patch
<1> HIDE DEF patch, original
<1>3. ASSUME NEW x \in TimesOf(f)
      PROVE  /\ Whole(patch[x])
             /\ patch[x] # Nil => draft[x] = IsoToKstInput(patch[x])
                                  /\ draft[x] # IsoToKstInput(original[x])
             /\ patch[x] = Nil => draft[x] = IsoToKstInput(original[x])
  <2>1. /\ original[x] \in Nat \cup {Nil}
        /\ draft[x] \in Nat \cup {Blank, Malformed}
        /\ ~TimeWrong(original[x], draft[x])
    BY OriginalIs DEF IsDraft, Wrong, original
  <2>2. x \in RowFields(f)
    BY FieldsAre
  <2>3. CASE TimeChanged(original[x], draft[x])
    <3>1. /\ draft[x] \in Nat /\ patch[x] = 2 * draft[x] /\ patch[x] # Nil
          /\ draft[x] # IsoToKstInput(original[x])
      BY <1>2, <2>1, <2>2, <2>3, TimeIs
    <3> QED BY <3>1, CutBack DEF Whole
  <2>4. CASE ~TimeChanged(original[x], draft[x])
    <3>1. draft[x] = IsoToKstInput(original[x]) /\ patch[x] = Nil
      BY <1>2, <2>1, <2>2, <2>4, TimeIs
    <3> QED BY <3>1 DEF Whole
  <2> QED BY <2>3, <2>4
<1>4. ASSUME NEW x \in FieldsOf(f) \ TimesOf(f)
      PROVE  /\ patch[x] # Nil => draft[x] = patch[x] /\ draft[x] # original[x]
             /\ patch[x] = Nil => draft[x] = Nil \/ draft[x] = original[x]
  BY <1>2, FieldsAre
<1>5. Differs(f, original, draft, patch)
  BY <1>3, <1>4 DEF Differs
<1>6. \A x \in TimesOf(f) : patch[x] \in Nat \cup {Nil}
  BY <1>3 DEF Whole
<1>7. IsRequest(Request(f, patch))
  <2>1. CASE f = TripForm
    <3>1. patch \in [S!TripFields -> Nat \cup {Nil}]
      BY <1>1, <1>6, <2>1 DEF RowFields, TimesOf, S!TripFields
    <3> QED BY <2>1, <3>1 DEF IsRequest, Request
  <2>2. CASE f # TripForm
    <3>1. f \in Legs \X {1, 2}
      BY <2>2 DEF FormKeys
    <3>2. patch.arrivedAtStopAt = Nil
      BY <1>2, <3>1, <2>2, AttemptForms DEF RowFields, S!AttemptFields
    <3>3. IsAttempt(patch)
      <4>1. patch = [x \in S!AttemptFields |-> patch[x]]
        BY <1>1, <2>2 DEF RowFields
      <4>2. \A x \in {"arrivedAtStopAt", "vehicleActualDepartureAt", "alightedAt"} :
              patch[x] \in Nat \cup {Nil}
        BY <1>6, <3>1, <3>2, AttemptForms
      <4> QED BY <4>1, <4>2 DEF IsAttempt, Timed, S!AttemptFields
    <3> QED BY <2>2, <3>1, <3>3 DEF IsRequest, Request
  <2> QED BY <2>1, <2>2
<1> QED BY <1>5, <1>7 DEF patch, original

-----------------------------------------------------------------------------
(* What holds of a form: of its record, the trip as the server has it now  *)
(* and as the page has it, the read under way and the saves under way.     *)

Answered(rd) == rd.stage = "answered" /\ rd.got # Gone
Mine(cs, i, f) == i \in DOMAIN cs /\ cs[i].form = f /\ cs[i].watched
SameFor(f, a, b) == \A x \in FieldsOf(f) : Original(a, f)[x] = Original(b, f)[x]

(* What nobody typed is the same everywhere.                               *)
Untouched(f, form, now, page, rd) ==
  \A x \in FieldsOf(f) \ form.typed :
    /\ Original(page, f)[x] = Original(now, f)[x]
    /\ Answered(rd) => Original(rd.got, f)[x] = Original(now, f)[x]
    /\ form.draft[x] = Cut(f, x, Original(now, f)[x])

(* So is an instant that is not in whole seconds.                          *)
Recorded(f, now, page, rd) ==
  \A x \in TimesOf(f) :
    \/ Whole(Original(now, f)[x])
    \/ /\ Original(page, f)[x] = Original(now, f)[x]
       /\ Answered(rd) => Original(rd.got, f)[x] = Original(now, f)[x]

(* A save sends what was typed, and of those instants another second.      *)
Sent(f, form, now, cs) ==
  \A i : Mine(cs, i, f) /\ cs[i].got = Idle =>
    \A x \in FieldsOf(f) : cs[i].req.body[x] # Nil =>
      /\ x \in form.typed
      /\ x \in TimesOf(f) =>
           \/ Whole(Original(now, f)[x])
           \/ IsoToKstInput(cs[i].req.body[x]) # IsoToKstInput(Original(now, f)[x])

(* While no save of the form is stored, the page is up to date.            *)
UpToDate(f, now, page, rd, cs) ==
  (\A i : Mine(cs, i, f) => cs[i].got # Delivered) =>
    SameFor(f, page, now) /\ (Answered(rd) => SameFor(f, rd.got, now))

(* The form shows what the server has, but for what was typed since.       *)
Shows(f, form, now) ==
  \A x \in FieldsOf(f) \ form.since : form.draft[x] = Cut(f, x, Original(now, f)[x])

(* It will once its save is stored.                                        *)
WillShow(f, form, now, cs) ==
  \A i : Mine(cs, i, f) /\ cs[i].got = Idle =>
    \A x \in FieldsOf(f) \ form.since :
      form.draft[x] = Cut(f, x, IF cs[i].req.body[x] # Nil THEN cs[i].req.body[x]
                                ELSE Original(now, f)[x])

(* It does once it is.                                                     *)
StoredShows(f, form, now, cs) ==
  \A i : Mine(cs, i, f) /\ cs[i].got = Delivered => Shows(f, form, now)

(* What is read after a save is what the server has.                       *)
ReadAfter(f, now, rd, cs) ==
  \A i : Mine(cs, i, f) /\ cs[i].stage = "reloading" /\ Answered(rd) =>
    SameFor(f, rd.got, now)

SavedShows(f, form, now, cs) ==
  form.status = "saved" => Shows(f, form, now) /\ \A i : ~Mine(cs, i, f)

Touched(f, form, now, page, rd, cs) ==
  form.alone =>
    /\ HasRow(now, f)
    /\ Untouched(f, form, now, page, rd)
    /\ Recorded(f, now, page, rd)
    /\ Sent(f, form, now, cs)

HeardOf(f, form, now, page, rd, cs) ==
  form.alone /\ form.heard =>
    /\ UpToDate(f, now, page, rd, cs)
    /\ WillShow(f, form, now, cs)
    /\ StoredShows(f, form, now, cs)
    /\ ReadAfter(f, now, rd, cs)
    /\ SavedShows(f, form, now, cs)

SameCalls(f, cs, next) ==
  \A i : /\ Mine(next, i, f) <=> Mine(cs, i, f)
         /\ Mine(cs, i, f) => next[i] = cs[i]

(* Nothing of a form is lost by what does not concern it.                  *)
LEMMA FormStays ==
  ASSUME NEW f, NEW form, NEW now, NEW page, NEW rd, NEW cs,
         Touched(f, form, now, page, rd, cs), HeardOf(f, form, now, page, rd, cs),
         NEW form2, NEW now2, NEW rd2, NEW cs2,
         form2.draft = form.draft, form2.typed = form.typed, form2.since = form.since,
         form2.alone => /\ form.alone /\ HasRow(now2, f)
                        /\ Original(now2, f) = Original(now, f),
         form2.heard => form.heard,
         form2.status = "saved" => form.status = "saved",
         SameCalls(f, cs, cs2),
         Answered(rd2) => (rd2 = rd /\ Answered(rd)) \/ Original(rd2.got, f) = Original(now2, f)
  PROVE  /\ Touched(f, form2, now2, page, rd2, cs2)
         /\ HeardOf(f, form2, now2, page, rd2, cs2)
<1>1. Touched(f, form2, now2, page, rd2, cs2)
  <2> SUFFICES ASSUME form2.alone
               PROVE  /\ HasRow(now2, f)
                      /\ Untouched(f, form2, now2, page, rd2)
                      /\ Recorded(f, now2, page, rd2)
                      /\ Sent(f, form2, now2, cs2)
    BY DEF Touched
  <2>1. /\ Untouched(f, form, now, page, rd) /\ Recorded(f, now, page, rd)
        /\ Sent(f, form, now, cs)
    BY DEF Touched
  <2>2. Untouched(f, form2, now2, page, rd2)
    BY <2>1 DEF Untouched
  <2>3. Recorded(f, now2, page, rd2)
    BY <2>1 DEF Recorded
  <2>4. Sent(f, form2, now2, cs2)
    BY <2>1 DEF Sent, SameCalls
  <2> QED BY <2>2, <2>3, <2>4
<1>2. HeardOf(f, form2, now2, page, rd2, cs2)
  <2> SUFFICES ASSUME form2.alone, form2.heard
               PROVE  /\ UpToDate(f, now2, page, rd2, cs2)
                      /\ WillShow(f, form2, now2, cs2)
                      /\ StoredShows(f, form2, now2, cs2)
                      /\ ReadAfter(f, now2, rd2, cs2)
                      /\ SavedShows(f, form2, now2, cs2)
    BY DEF HeardOf
  <2>1. /\ UpToDate(f, now, page, rd, cs) /\ WillShow(f, form, now, cs)
        /\ StoredShows(f, form, now, cs) /\ ReadAfter(f, now, rd, cs)
        /\ SavedShows(f, form, now, cs)
    BY DEF HeardOf
  <2>2. UpToDate(f, now2, page, rd2, cs2)
    BY <2>1 DEF UpToDate, SameFor, SameCalls
  <2>3. WillShow(f, form2, now2, cs2)
    BY <2>1 DEF WillShow, SameCalls
  <2>4. Shows(f, form, now) => Shows(f, form2, now2)
    BY DEF Shows
  <2>5. StoredShows(f, form2, now2, cs2)
    BY <2>1, <2>4 DEF StoredShows, SameCalls
  <2>6. ReadAfter(f, now2, rd2, cs2)
    BY <2>1 DEF ReadAfter, SameFor, SameCalls
  <2>7. SavedShows(f, form2, now2, cs2)
    BY <2>1, <2>4 DEF SavedShows, SameCalls
  <2> QED BY <2>2, <2>3, <2>5, <2>6, <2>7
<1> QED BY <1>1, <1>2

(* A form that appears with the trip the page has, and no save of it.      *)
LEMMA NewIs ==
  ASSUME NEW f \in FormKeys, NEW trip, IsRow(trip), HasRow(trip, f),
         NEW now, now # Gone => IsRow(now) /\ HasRow(now, f),
         NEW rd, NEW cs, \A i : ~Mine(cs, i, f),
         NEW form,
         form = [draft |-> DraftOf(trip, f), typed |-> {}, since |-> {}, status |-> "none",
                 alone |-> form.alone, heard |-> TRUE],
         form.alone \in BOOLEAN,
         form.alone =>
           /\ now # Gone
           /\ Original(now, f) = Original(trip, f)
           /\ Answered(rd) => Original(rd.got, f) = Original(trip, f)
  PROVE  /\ IsForm(f, form)
         /\ Touched(f, form, now, trip, rd, cs)
         /\ HeardOf(f, form, now, trip, rd, cs)
<1>1. /\ form.draft = DraftOf(trip, f) /\ form.typed = {} /\ form.since = {}
      /\ form.status = "none" /\ form.heard = TRUE
  OBVIOUS
<1>2. \A x \in FieldsOf(f) : form.draft[x] = Cut(f, x, Original(trip, f)[x])
  BY <1>1 DEF DraftOf, Cut
<1>3. IsDraft(f, form.draft)
  <2>1. form.draft = [x \in FieldsOf(f) |-> form.draft[x]]
    BY <1>1 DEF DraftOf
  <2>2. \A x \in TimesOf(f) : form.draft[x] \in Nat \cup {Blank, Malformed}
    <3>1. \A x \in TimesOf(f) : x \in FieldsOf(f) /\ Original(trip, f)[x] \in Nat \cup {Nil}
      BY FieldsAre, OriginalIs
    <3>2. \A x \in TimesOf(f) : IsoToKstInput(Original(trip, f)[x]) \in Nat \cup {Blank}
      BY <3>1, CutIs
    <3> QED BY <1>2, <3>1, <3>2 DEF Cut
  <2> QED BY <2>1, <2>2 DEF IsDraft
<1>4. IsForm(f, form)
  BY <1>1, <1>3 DEF IsForm
<1>5. TimesOf(f) \subseteq FieldsOf(f)
  BY FieldsAre
<1>6. Touched(f, form, now, trip, rd, cs)
  BY <1>1, <1>2, <1>5 DEF Touched, Untouched, Recorded, Sent
<1>7. HeardOf(f, form, now, trip, rd, cs)
  BY <1>1, <1>2 DEF HeardOf, UpToDate, WillShow, StoredShows, ReadAfter, SavedShows, SameFor
<1> QED BY <1>4, <1>6, <1>7

(* Typing into a field.                                                    *)
LEMMA TypedIs ==
  ASSUME NEW f, NEW form, NEW now, NEW page, NEW rd, NEW cs,
         Touched(f, form, now, page, rd, cs), HeardOf(f, form, now, page, rd, cs),
         NEW form2, NEW x \in FieldsOf(f),
         form2.typed = form.typed \cup {x}, form2.since = form.since \cup {x},
         \A y \in FieldsOf(f) : y # x => form2.draft[y] = form.draft[y],
         form2.alone = form.alone, form2.heard = form.heard, form2.status = form.status
  PROVE  /\ Touched(f, form2, now, page, rd, cs)
         /\ HeardOf(f, form2, now, page, rd, cs)
<1>1. Touched(f, form2, now, page, rd, cs)
  <2> SUFFICES ASSUME form2.alone
               PROVE  Untouched(f, form2, now, page, rd) /\ Sent(f, form2, now, cs)
    BY DEF Touched
  <2>1. Untouched(f, form, now, page, rd) /\ Sent(f, form, now, cs)
    BY DEF Touched
  <2>2. Untouched(f, form2, now, page, rd)
    BY <2>1 DEF Untouched
  <2>3. Sent(f, form2, now, cs)
    BY <2>1 DEF Sent
  <2> QED BY <2>2, <2>3
<1>2. HeardOf(f, form2, now, page, rd, cs)
  <2> SUFFICES ASSUME form2.alone, form2.heard
               PROVE  /\ WillShow(f, form2, now, cs)
                      /\ StoredShows(f, form2, now, cs)
                      /\ SavedShows(f, form2, now, cs)
    BY DEF HeardOf
  <2>1. /\ WillShow(f, form, now, cs) /\ StoredShows(f, form, now, cs)
        /\ SavedShows(f, form, now, cs)
    BY DEF HeardOf
  <2>2. WillShow(f, form2, now, cs)
    BY <2>1 DEF WillShow
  <2>3. Shows(f, form, now) => Shows(f, form2, now)
    BY DEF Shows
  <2>4. StoredShows(f, form2, now, cs) /\ SavedShows(f, form2, now, cs)
    BY <2>1, <2>3 DEF StoredShows, SavedShows
  <2> QED BY <2>2, <2>4
<1> QED BY <1>1, <1>2

(* No answer is taken for another one.                                     *)
LEMMA OutcomesDiffer ==
  Idle # Delivered /\ Lost # Delivered /\ Lost # Idle /\ Refused # Delivered /\ Refused # Idle
  /\ NotFound # Delivered /\ NotFound # Idle
<1>1. /\ DOMAIN Idle = {"stage"} /\ DOMAIN Delivered = {"type"} /\ DOMAIN Lost = {"type"}
      /\ DOMAIN Refused = {"type"} /\ DOMAIN NotFound = {"type"}
  BY DEF Idle, Delivered, Lost, Refused, NotFound
<1>2. /\ Lost.type = "lost" /\ Delivered.type = "delivered"
      /\ Refused.type = "refused" /\ NotFound.type = "notFound"
  BY DEF Delivered, Lost, Refused, NotFound
<1> QED BY <1>1, <1>2

Submitted(f, form, page, cs, form2, cs2, n) ==
  /\ form2 = [form EXCEPT !.status = "none", !.since = {}]
  /\ n \notin DOMAIN cs /\ DOMAIN cs2 = DOMAIN cs \cup {n}
  /\ \A i \in DOMAIN cs : cs2[i] = cs[i]
  /\ cs2[n] = [form |-> f, watched |-> TRUE, got |-> Idle, stage |-> "sent",
               req |-> Request(f, Patch(page, f, form.draft))]

(* A save is sent: the only one of its form.                               *)
LEMMA SubmitIs ==
  ASSUME NEW f \in FormKeys, NEW form, IsForm(f, form), NEW now, NEW page, IsRow(page),
         HasRow(page, f), NEW rd, NEW cs, now # Gone => IsRow(now),
         Touched(f, form, now, page, rd, cs), HeardOf(f, form, now, page, rd, cs),
         \A i : ~Mine(cs, i, f), ~Wrong(page, f, form.draft),
         NEW form2, NEW cs2, NEW n, Submitted(f, form, page, cs, form2, cs2, n)
  PROVE  /\ IsForm(f, form2) /\ IsCall(cs2[n])
         /\ Touched(f, form2, now, page, rd, cs2)
         /\ HeardOf(f, form2, now, page, rd, cs2)
<1> DEFINE patch == Patch(page, f, form.draft)
           original == Original(page, f)
<1> USE DEF Submitted
<1>1. Differs(f, original, form.draft, patch) /\ IsRequest(Request(f, patch))
  BY PatchIs DEF IsForm
<1>2. form2 = [draft |-> form.draft, typed |-> form.typed, since |-> {},
               status |-> "none", alone |-> form.alone, heard |-> form.heard]
  BY DEF IsForm
<1>3. IsForm(f, form2)
  BY <1>2 DEF IsForm
<1>4. \A i : Mine(cs2, i, f) => i = n
  BY DEF Mine
<1>5. cs2[n].req.body = patch /\ cs2[n].got = Idle /\ cs2[n].stage = "sent"
  BY DEF Request
<1>6. IsCall(cs2[n])
  BY <1>1, <1>5 DEF IsCall, Differs
<1> HIDE DEF patch, original
<1>7. Touched(f, form2, now, page, rd, cs2)
  <2> SUFFICES ASSUME form2.alone
               PROVE  /\ HasRow(now, f)
                      /\ Untouched(f, form2, now, page, rd)
                      /\ Recorded(f, now, page, rd)
                      /\ Sent(f, form2, now, cs2)
    BY DEF Touched
  <2>1. HasRow(now, f) /\ Untouched(f, form, now, page, rd) /\ Recorded(f, now, page, rd)
    BY <1>2 DEF Touched
  <2>2. Untouched(f, form2, now, page, rd)
    BY <1>2, <2>1 DEF Untouched
  <2>3. ASSUME NEW x \in FieldsOf(f), patch[x] # Nil
        PROVE  x \in form.typed
    <3> SUFFICES ASSUME x \notin form.typed PROVE FALSE
      OBVIOUS
    <3>1. original[x] = Original(now, f)[x] /\ form.draft[x] = Cut(f, x, original[x])
      BY <2>1 DEF Untouched, original
    <3> QED BY <1>1, <2>3, <3>1 DEF Differs, Cut
  <2>4. ASSUME NEW x \in TimesOf(f), patch[x] # Nil
        PROVE  \/ Whole(Original(now, f)[x])
               \/ IsoToKstInput(patch[x]) # IsoToKstInput(Original(now, f)[x])
    <3>1. \/ Whole(Original(now, f)[x])
          \/ original[x] = Original(now, f)[x]
      BY <2>1 DEF Recorded, original
    <3>2. form.draft[x] = IsoToKstInput(patch[x]) /\ form.draft[x] # IsoToKstInput(original[x])
      BY <1>1, <2>4 DEF Differs
    <3> QED BY <3>1, <3>2
  <2>5. Sent(f, form2, now, cs2)
    BY <1>2, <1>4, <1>5, <2>3, <2>4 DEF Sent
  <2> QED BY <2>1, <2>2, <2>5
<1>8. HeardOf(f, form2, now, page, rd, cs2)
  <2> SUFFICES ASSUME form2.alone, form2.heard
               PROVE  /\ UpToDate(f, now, page, rd, cs2)
                      /\ WillShow(f, form2, now, cs2)
                      /\ StoredShows(f, form2, now, cs2)
                      /\ ReadAfter(f, now, rd, cs2)
                      /\ SavedShows(f, form2, now, cs2)
    BY DEF HeardOf
  <2>1. SameFor(f, page, now) /\ (Answered(rd) => SameFor(f, rd.got, now))
    <3>1. UpToDate(f, now, page, rd, cs)
      BY <1>2 DEF HeardOf
    <3> QED BY <3>1 DEF UpToDate
  <2>2. UpToDate(f, now, page, rd, cs2)
    BY <2>1 DEF UpToDate
  <2>3. Untouched(f, form, now, page, rd)
    BY <1>2 DEF Touched
  <2>4. ASSUME NEW x \in FieldsOf(f)
        PROVE  form.draft[x] = Cut(f, x, IF patch[x] # Nil THEN patch[x]
                                         ELSE Original(now, f)[x])
    <3>1. original[x] = Original(now, f)[x]
      BY <2>1 DEF SameFor, original
    <3>2. CASE x \in TimesOf(f)
      BY <1>1, <3>1, <3>2 DEF Differs, Cut
    <3>3. CASE x \notin TimesOf(f)
      <4>1. CASE patch[x] # Nil
        BY <1>1, <3>3, <4>1 DEF Differs, Cut
      <4>2. CASE patch[x] = Nil
        <5>1. form.draft[x] = Nil \/ form.draft[x] = original[x]
          BY <1>1, <3>3, <4>2 DEF Differs
        <5>2. CASE x \in form.typed
          <6>1. form.draft[x] # Nil
            BY <3>3, <5>2 DEF IsForm
          <6> QED BY <3>1, <3>3, <4>2, <5>1, <6>1 DEF Cut
        <5>3. CASE x \notin form.typed
          BY <2>3, <4>2, <5>3 DEF Untouched
        <5> QED BY <5>2, <5>3
      <4> QED BY <4>1, <4>2
    <3> QED BY <3>2, <3>3
  <2>5. WillShow(f, form2, now, cs2)
    BY <1>2, <1>4, <1>5, <2>4 DEF WillShow
  <2>6. StoredShows(f, form2, now, cs2) /\ ReadAfter(f, now, rd, cs2)
    BY <1>4, <1>5, OutcomesDiffer DEF StoredShows, ReadAfter
  <2>7. SavedShows(f, form2, now, cs2)
    BY <1>2 DEF SavedShows
  <2> QED BY <2>2, <2>5, <2>6, <2>7
<1> QED BY <1>3, <1>6, <1>7, <1>8

(* The save of a form gets an answer, or none, that changes nothing.       *)
LEMMA NotStoredIs ==
  ASSUME NEW f, NEW form, NEW now, NEW page, NEW rd, NEW cs,
         Touched(f, form, now, page, rd, cs), HeardOf(f, form, now, page, rd, cs),
         NEW n, Mine(cs, n, f), \A i : Mine(cs, i, f) => i = n,
         cs[n].got = Idle, cs[n].stage = "sent",
         NEW form2, NEW cs2,
         form2.draft = form.draft, form2.typed = form.typed, form2.since = form.since,
         form2.alone => form.alone, form2.heard => form.heard, form2.status = form.status,
         \A i : Mine(cs2, i, f) <=> Mine(cs, i, f),
         cs2[n].got \notin {Idle, Delivered}, cs2[n].stage = "sent"
  PROVE  /\ Touched(f, form2, now, page, rd, cs2)
         /\ HeardOf(f, form2, now, page, rd, cs2)
<1>1. \A i : Mine(cs2, i, f) => i = n
  OBVIOUS
<1>2. Touched(f, form2, now, page, rd, cs2)
  BY <1>1 DEF Touched, Untouched, Sent
<1>3. HeardOf(f, form2, now, page, rd, cs2)
  <2> SUFFICES ASSUME form2.alone, form2.heard
               PROVE  /\ UpToDate(f, now, page, rd, cs2)
                      /\ WillShow(f, form2, now, cs2)
                      /\ StoredShows(f, form2, now, cs2)
                      /\ ReadAfter(f, now, rd, cs2)
                      /\ SavedShows(f, form2, now, cs2)
    BY DEF HeardOf
  <2>1. UpToDate(f, now, page, rd, cs) /\ SavedShows(f, form, now, cs)
    BY DEF HeardOf
  <2>2. UpToDate(f, now, page, rd, cs2)
    <3>1. \A i : Mine(cs, i, f) => cs[i].got # Delivered
      BY OutcomesDiffer
    <3> QED BY <2>1, <3>1 DEF UpToDate
  <2>3. WillShow(f, form2, now, cs2) /\ StoredShows(f, form2, now, cs2)
        /\ ReadAfter(f, now, rd, cs2)
    BY <1>1 DEF WillShow, StoredShows, ReadAfter
  <2>4. SavedShows(f, form2, now, cs2)
    BY <2>1 DEF SavedShows
  <2> QED BY <2>2, <2>3, <2>4
<1> QED BY <1>2, <1>3

(* The save of a form is stored.                                           *)
Becomes(f, body, now, now2) ==
  /\ HasRow(now2, f)
  /\ \A x \in FieldsOf(f) :
       Original(now2, f)[x] = IF body[x] # Nil THEN body[x] ELSE Original(now, f)[x]

Stores(f, form, form2, cs, cs2, n) ==
  /\ Mine(cs, n, f) /\ \A i : Mine(cs, i, f) => i = n
  /\ cs[n].got = Idle /\ cs[n].stage = "sent" /\ IsCall(cs[n])
  /\ form2.draft = form.draft /\ form2.typed = form.typed /\ form2.since = form.since
  /\ form2.alone => form.alone
  /\ form2.heard => form.heard /\ cs2[n].got = Delivered
  /\ form2.status = form.status
  /\ \A i : Mine(cs2, i, f) <=> Mine(cs, i, f)
  /\ cs2[n].got # Idle /\ cs2[n].stage = "sent"

(* A stored save leaves the form as the server has it.                     *)
LEMMA StoredIs ==
  ASSUME NEW f \in FormKeys, NEW form, NEW now, NEW page, NEW rd, NEW cs,
         Touched(f, form, now, page, rd, cs), HeardOf(f, form, now, page, rd, cs),
         NEW form2, NEW cs2, NEW n, Stores(f, form, form2, cs, cs2, n),
         NEW now2, Becomes(f, cs[n].req.body, now, now2)
  PROVE  /\ Touched(f, form2, now2, page, rd, cs2)
         /\ HeardOf(f, form2, now2, page, rd, cs2)
<1> USE DEF Stores
<1> DEFINE body == cs[n].req.body
<1>1. \A i : Mine(cs2, i, f) => i = n
  OBVIOUS
<1>2. TimesOf(f) \subseteq FieldsOf(f) /\ \A x \in TimesOf(f) : Whole(body[x])
  BY FieldsAre DEF IsCall, Mine
<1> HIDE DEF body
<1>3. /\ HasRow(now2, f)
      /\ \A x \in FieldsOf(f) :
           Original(now2, f)[x] = IF body[x] # Nil THEN body[x] ELSE Original(now, f)[x]
  BY DEF body, Becomes
<1>4. Touched(f, form2, now2, page, rd, cs2)
  <2> SUFFICES ASSUME form2.alone
               PROVE  /\ Untouched(f, form2, now2, page, rd)
                      /\ Recorded(f, now2, page, rd)
                      /\ Sent(f, form2, now2, cs2)
    BY <1>3 DEF Touched
  <2>1. /\ Untouched(f, form, now, page, rd) /\ Recorded(f, now, page, rd)
        /\ Sent(f, form, now, cs)
    BY DEF Touched
  <2>2. \A x \in FieldsOf(f) : x \notin form.typed => body[x] = Nil
    BY <2>1 DEF Sent, body
  <2>3. Untouched(f, form2, now2, page, rd)
    BY <1>3, <2>1, <2>2 DEF Untouched
  <2>4. Recorded(f, now2, page, rd)
    BY <1>2, <1>3, <2>1 DEF Recorded
  <2>5. Sent(f, form2, now2, cs2)
    BY <1>1 DEF Sent
  <2> QED BY <2>3, <2>4, <2>5
<1>5. HeardOf(f, form2, now2, page, rd, cs2)
  <2> SUFFICES ASSUME form2.alone, form2.heard
               PROVE  /\ UpToDate(f, now2, page, rd, cs2)
                      /\ WillShow(f, form2, now2, cs2)
                      /\ StoredShows(f, form2, now2, cs2)
                      /\ ReadAfter(f, now2, rd, cs2)
                      /\ SavedShows(f, form2, now2, cs2)
    BY DEF HeardOf
  <2>1. WillShow(f, form, now, cs) /\ SavedShows(f, form, now, cs)
    BY DEF HeardOf
  <2>2. UpToDate(f, now2, page, rd, cs2) /\ WillShow(f, form2, now2, cs2)
        /\ ReadAfter(f, now2, rd, cs2)
    BY <1>1 DEF UpToDate, WillShow, ReadAfter
  <2>3. Shows(f, form2, now2)
    BY <1>3, <2>1 DEF WillShow, Shows, body
  <2>4. StoredShows(f, form2, now2, cs2)
    BY <2>3 DEF StoredShows
  <2>5. SavedShows(f, form2, now2, cs2)
    BY <2>1 DEF SavedShows
  <2> QED BY <2>2, <2>4, <2>5
<1> QED BY <1>4, <1>5

(* A stored save is not over: the trips are read again.                    *)
LEMMA ReloadingIs ==
  ASSUME NEW f, NEW form, NEW now, NEW page, NEW rd, NEW cs,
         Touched(f, form, now, page, rd, cs), HeardOf(f, form, now, page, rd, cs),
         NEW rd2, ~Answered(rd2), NEW cs2,
         \A i : Mine(cs2, i, f) <=> Mine(cs, i, f),
         \A i : Mine(cs, i, f) => cs2[i].got = cs[i].got /\ cs2[i].req = cs[i].req
  PROVE  /\ Touched(f, form, now, page, rd2, cs2)
         /\ HeardOf(f, form, now, page, rd2, cs2)
<1>1. Touched(f, form, now, page, rd2, cs2)
  BY DEF Touched, Untouched, Recorded, Sent
<1>2. HeardOf(f, form, now, page, rd2, cs2)
  BY DEF HeardOf, UpToDate, WillShow, StoredShows, ReadAfter, SavedShows
<1> QED BY <1>1, <1>2

(* A save that was not stored is over.                                     *)
LEMMA OverIs ==
  ASSUME NEW f, NEW form, NEW now, NEW page, NEW rd, NEW cs,
         Touched(f, form, now, page, rd, cs), HeardOf(f, form, now, page, rd, cs),
         \A i : Mine(cs, i, f) => cs[i].got # Delivered,
         NEW form2, NEW cs2, \A i : ~Mine(cs2, i, f),
         form2.draft = form.draft, form2.typed = form.typed, form2.since = form.since,
         form2.alone = form.alone, form2.heard = form.heard, form2.status = "error"
  PROVE  /\ Touched(f, form2, now, page, rd, cs2)
         /\ HeardOf(f, form2, now, page, rd, cs2)
<1>1. Touched(f, form2, now, page, rd, cs2)
  BY DEF Touched, Untouched, Sent
<1>2. HeardOf(f, form2, now, page, rd, cs2)
  BY DEF HeardOf, UpToDate, WillShow, StoredShows, ReadAfter, SavedShows
<1> QED BY <1>1, <1>2

(* The page takes up what was read, and says of the saves that waited for  *)
(* it that they are stored.                                                *)
LEMMA ReadIs ==
  ASSUME NEW f, NEW form, NEW now, NEW page, NEW rd, Answered(rd), NEW cs,
         Touched(f, form, now, page, rd, cs), HeardOf(f, form, now, page, rd, cs),
         \A i, j : Mine(cs, i, f) /\ Mine(cs, j, f) => i = j,
         \A i : Mine(cs, i, f) => IsCall(cs[i]),
         NEW form2, NEW rd2, ~Answered(rd2), NEW cs2,
         form2.draft = form.draft, form2.typed = form.typed, form2.since = form.since,
         form2.alone = form.alone, form2.heard = form.heard,
         form2.status = form.status
           \/ \E i : Mine(cs, i, f) /\ cs[i].stage = "reloading",
         \A i : Mine(cs2, i, f) <=> Mine(cs, i, f) /\ cs[i].stage = "sent",
         \A i : Mine(cs2, i, f) => cs2[i] = cs[i]
  PROVE  /\ Touched(f, form2, now, rd.got, rd2, cs2)
         /\ HeardOf(f, form2, now, rd.got, rd2, cs2)
<1>1. Touched(f, form2, now, rd.got, rd2, cs2)
  BY DEF Touched, Untouched, Recorded, Sent
<1>2. HeardOf(f, form2, now, rd.got, rd2, cs2)
  <2> SUFFICES ASSUME form2.alone, form2.heard
               PROVE  /\ UpToDate(f, now, rd.got, rd2, cs2)
                      /\ WillShow(f, form2, now, cs2)
                      /\ StoredShows(f, form2, now, cs2)
                      /\ ReadAfter(f, now, rd2, cs2)
                      /\ SavedShows(f, form2, now, cs2)
    BY DEF HeardOf
  <2>1. /\ UpToDate(f, now, page, rd, cs) /\ WillShow(f, form, now, cs)
        /\ StoredShows(f, form, now, cs) /\ ReadAfter(f, now, rd, cs)
        /\ SavedShows(f, form, now, cs)
    BY DEF HeardOf
  <2>2. \A i : Mine(cs, i, f) =>
          cs[i].stage = "sent" \/ (cs[i].stage = "reloading" /\ cs[i].got = Delivered)
    BY DEF IsCall
  <2>3. UpToDate(f, now, rd.got, rd2, cs2)
    <3> SUFFICES ASSUME \A i : Mine(cs2, i, f) => cs2[i].got # Delivered
                 PROVE  SameFor(f, rd.got, now)
      BY DEF UpToDate
    <3>1. CASE \E i : Mine(cs, i, f) /\ cs[i].stage = "reloading"
      BY <2>1, <3>1 DEF ReadAfter
    <3>2. CASE \A i : Mine(cs, i, f) => cs[i].stage = "sent"
      <4>1. \A i : Mine(cs, i, f) => cs[i].got # Delivered
        BY <3>2
      <4> QED BY <2>1, <4>1 DEF UpToDate
    <3> QED BY <2>2, <3>1, <3>2
  <2>4. WillShow(f, form2, now, cs2)
    BY <2>1 DEF WillShow
  <2>5. Shows(f, form, now) => Shows(f, form2, now)
    BY DEF Shows
  <2>6. StoredShows(f, form2, now, cs2)
    BY <2>1, <2>5 DEF StoredShows
  <2>7. ReadAfter(f, now, rd2, cs2)
    BY DEF ReadAfter
  <2>8. SavedShows(f, form2, now, cs2)
    <3>1. CASE form2.status = form.status
      BY <2>1, <2>5, <3>1 DEF SavedShows
    <3>2. CASE \E i : Mine(cs, i, f) /\ cs[i].stage = "reloading"
      <4>1. PICK i : Mine(cs, i, f) /\ cs[i].stage = "reloading"
        BY <3>2
      <4>2. Shows(f, form2, now)
        BY <2>1, <2>2, <2>5, <4>1 DEF StoredShows
      <4>3. \A j : ~Mine(cs2, j, f)
        BY <4>1
      <4> QED BY <4>2, <4>3 DEF SavedShows
    <3> QED BY <3>1, <3>2
  <2> QED BY <2>3, <2>4, <2>6, <2>7, <2>8
<1> QED BY <1>1, <1>2

-----------------------------------------------------------------------------
(* The invariant. *)

Older(a, b) == a # Gone /\ b # Gone => DOMAIN a.attempts \subseteq DOMAIN b.attempts

(* What was read is not ahead of the server, nor the page of what was read.*)
ReadsOk(now, page, rd) ==
  /\ page = Gone \/ IsRow(page)
  /\ Older(page, now)
  /\ rd.stage \in {"idle", "asked", "answered"}
  /\ Answered(rd) => IsRow(rd.got) /\ Older(page, rd.got) /\ Older(rd.got, now)

(* A form has one save under way at most.                                  *)
CallsOk(cs, fs, most) ==
  /\ \A i \in DOMAIN cs : /\ i \in Nat /\ i <= most /\ IsCall(cs[i])
                          /\ cs[i].watched => cs[i].form \in DOMAIN fs
  /\ \A i, j, f : Mine(cs, i, f) /\ Mine(cs, j, f) => i = j

FormsOk(fs, now, page, rd, cs) ==
  \A f \in DOMAIN fs :
    /\ f \in FormKeys /\ IsForm(f, fs[f]) /\ HasRow(page, f)
    /\ Touched(f, fs[f], now, page, rd, cs)
    /\ HeardOf(f, fs[f], now, page, rd, cs)

(* The trip's own form is there whenever the page shows the trip, and      *)
(* there is no form when it does not.                                      *)
PageOk(page, wrong, fs) ==
  /\ wrong => DOMAIN fs = {}
  /\ page # Gone /\ ~wrong => TripForm \in DOMAIN fs

Inv ==
  /\ IsStore(stored)
  /\ ReadsOk(Server, shown, read)
  /\ CallsOk(calls, forms, spent.saves)
  /\ FormsOk(forms, Server, shown, read, calls)
  /\ PageOk(shown, failed, forms)
  /\ spent \in [edits : Nat, saves : Nat, phone : Nat, reads : Nat, mishaps : Nat]

(* The trip on the server, if it is there.                                 *)
LEMMA ServerIs ==
  ASSUME NEW s, IsStore(s)
  PROVE  /\ OnServer(s) = Gone \/ IsRow(OnServer(s))
         /\ OnServer(s) # Gone <=> 1 \in DOMAIN s.trips
         /\ OnServer(s) # Gone => OnServer(s) = s.trips[1]
BY RowIsThere DEF OnServer, IsStore, S!Ids

(* A bound that is used up by one.                                         *)
LEMMA SpendIs ==
  ASSUME spent \in [edits : Nat, saves : Nat, phone : Nat, reads : Nat, mishaps : Nat],
         NEW what \in {"edits", "saves", "phone", "reads", "mishaps"}, NEW most,
         Spend(what, most)
  PROVE  /\ spent' \in [edits : Nat, saves : Nat, phone : Nat, reads : Nat, mishaps : Nat]
         /\ spent'.saves = IF what = "saves" THEN spent.saves + 1 ELSE spent.saves
BY DEF Spend

(* A form that appears with the trip the page has.                         *)
LEMMA NewFormIs ==
  ASSUME NEW f \in FormKeys, NEW trip, IsRow(trip), HasRow(trip, f),
         IsStore(stored), Older(trip, Server),
         NEW rd, Answered(rd) => rd = read,
         NEW cs, \A i : ~Mine(cs, i, f)
  PROVE  /\ IsForm(f, NewForm(trip, f))
         /\ Touched(f, NewForm(trip, f), Server, trip, rd, cs)
         /\ HeardOf(f, NewForm(trip, f), Server, trip, rd, cs)
<1> DEFINE form == NewForm(trip, f)
           alone == /\ OnServer(stored) # Gone
                    /\ Original(OnServer(stored), f) = Original(trip, f)
                    /\ read.stage = "answered" /\ read.got # Gone =>
                         Original(read.got, f) = Original(trip, f)
<1>1. form = [draft |-> DraftOf(trip, f), typed |-> {}, since |-> {}, status |-> "none",
              alone |-> alone, heard |-> TRUE]
  BY DEF NewForm
<1>2. alone \in BOOLEAN
  OBVIOUS
<1>3. alone => /\ Server # Gone
               /\ Original(Server, f) = Original(trip, f)
               /\ Answered(rd) => Original(rd.got, f) = Original(trip, f)
  BY DEF Server, Answered
<1>4. Server # Gone => IsRow(Server) /\ HasRow(Server, f)
  BY ServerIs, RowIsThere DEF Server, Older, HasRow
<1> HIDE DEF form, alone
<1>5. form.alone = alone
  BY <1>1
<1>6. form = [draft |-> DraftOf(trip, f), typed |-> {}, since |-> {}, status |-> "none",
              alone |-> form.alone, heard |-> TRUE]
  BY <1>1, <1>5
<1>7. /\ IsForm(f, form)
      /\ Touched(f, form, Server, trip, rd, cs)
      /\ HeardOf(f, form, Server, trip, rd, cs)
  BY <1>2, <1>3, <1>4, <1>5, <1>6, NewIs
<1> QED BY <1>7 DEF form

(* The page as it opens.                                                   *)
LEMMA InvStarts ==
  Init => Inv
<1> SUFFICES ASSUME Init PROVE Inv
  OBVIOUS
<1>1. PICK trip \in StoredTrips :
        /\ stored = [trips |-> [i \in {1} |-> trip], gps |-> << >>, lastId |-> 1]
        /\ shown = trip
        /\ forms = [f \in {TripForm} |-> NewForm(trip, f)]
  BY DEF Init
<1>2. IsRow(trip)
  BY TripCorrectionsAssumption
<1>3. stored.trips = [i \in {1} |-> trip]
  BY <1>1
<1>4. IsStore(stored) /\ Server = trip
  BY <1>1, <1>2, <1>3 DEF IsStore, Server, OnServer, S!Ids
<1>5. read = Idle /\ ~Answered(read) /\ read.stage = "idle"
  BY DEF Init, Idle, Answered
<1>6. ReadsOk(Server, shown, read)
  BY <1>1, <1>2, <1>4, <1>5 DEF ReadsOk, Older
<1>7. DOMAIN calls = {} /\ \A i, f : ~Mine(calls, i, f)
  BY DEF Init, Mine
<1>8. HasRow(trip, TripForm) /\ TripForm \in FormKeys
  BY <1>2, RowIsThere DEF HasRow, FormKeys
<1>9. FormsOk(forms, Server, shown, read, calls)
  <2>1. /\ IsForm(TripForm, NewForm(trip, TripForm))
        /\ Touched(TripForm, NewForm(trip, TripForm), Server, trip, read, calls)
        /\ HeardOf(TripForm, NewForm(trip, TripForm), Server, trip, read, calls)
    BY <1>2, <1>4, <1>5, <1>7, <1>8, NewFormIs DEF Older
  <2>2. DOMAIN forms = {TripForm} /\ forms[TripForm] = NewForm(trip, TripForm)
    BY <1>1
  <2> QED BY <1>1, <1>8, <2>1, <2>2 DEF FormsOk
<1>10. CallsOk(calls, forms, spent.saves)
  BY <1>7 DEF CallsOk
<1>11. spent \in [edits : Nat, saves : Nat, phone : Nat, reads : Nat, mishaps : Nat]
  BY DEF Init
<1>12. PageOk(shown, failed, forms)
  BY <1>1 DEF PageOk, Init
<1> QED BY <1>4, <1>6, <1>9, <1>10, <1>11, <1>12 DEF Inv

-----------------------------------------------------------------------------
(* What is done on the page. *)

(* A step that leaves the server and what was read alone.                  *)
LEMMA PageStep ==
  ASSUME Inv, UNCHANGED <<stored, shown, read>>,
         CallsOk(calls', forms', spent'.saves),
         FormsOk(forms', Server, shown, read, calls'),
         PageOk(shown', failed', forms'),
         spent' \in [edits : Nat, saves : Nat, phone : Nat, reads : Nat, mishaps : Nat]
  PROVE  Inv'
<1>1. Server' = Server
  BY DEF Server
<1>2. IsStore(stored) /\ ReadsOk(Server, shown, read)
  BY DEF Inv
<1>3. IsStore(stored)' /\ ReadsOk(Server, shown, read)'
  BY <1>1, <1>2
<1>4. FormsOk(forms, Server, shown, read, calls)'
  BY <1>1
<1> QED BY <1>3, <1>4 DEF Inv

(* What stays of the others when one form changes.                         *)
LEMMA OthersStay ==
  ASSUME NEW fs, NEW now, NEW page, NEW rd, NEW cs, FormsOk(fs, now, page, rd, cs),
         NEW f \in DOMAIN fs, NEW cs2, SameCalls(f, cs, cs2)
  PROVE  /\ f \in FormKeys /\ IsForm(f, fs[f]) /\ HasRow(page, f)
         /\ Touched(f, fs[f], now, page, rd, cs2)
         /\ HeardOf(f, fs[f], now, page, rd, cs2)
<1>1. /\ f \in FormKeys /\ IsForm(f, fs[f]) /\ HasRow(page, f)
      /\ Touched(f, fs[f], now, page, rd, cs)
      /\ HeardOf(f, fs[f], now, page, rd, cs)
  BY DEF FormsOk
<1>2. fs[f].alone => HasRow(now, f)
  BY <1>1 DEF Touched
<1>3. /\ Touched(f, fs[f], now, page, rd, cs2)
      /\ HeardOf(f, fs[f], now, page, rd, cs2)
  BY <1>1, <1>2, FormStays
<1> QED BY <1>1, <1>3

(* The form of an attempt appears.                                         *)
LEMMA OpenKeeps ==
  ASSUME Inv, NEW f \in Legs \X {1, 2}, Open(f)
  PROVE  Inv'
<1>1. /\ shown # Gone /\ f \in DOMAIN shown.attempts /\ f \notin DOMAIN forms
      /\ forms' = [g \in DOMAIN forms \cup {f} |->
                     IF g = f THEN NewForm(shown, f) ELSE forms[g]]
      /\ UNCHANGED <<stored, shown, failed, read, calls>>
  BY DEF Open
<1>2. /\ IsStore(stored) /\ ReadsOk(Server, shown, read)
      /\ CallsOk(calls, forms, spent.saves)
      /\ FormsOk(forms, Server, shown, read, calls)
  BY DEF Inv
<1>3. /\ spent' \in [edits : Nat, saves : Nat, phone : Nat, reads : Nat, mishaps : Nat]
      /\ spent'.saves = spent.saves
  BY SpendIs DEF Inv, Open
<1>4. \A i : ~Mine(calls, i, f)
  BY <1>1, <1>2 DEF CallsOk, Mine
<1>5. f \in FormKeys /\ IsRow(shown) /\ HasRow(shown, f) /\ Older(shown, Server)
  BY <1>1, <1>2 DEF FormKeys, HasRow, ReadsOk
<1>6. /\ IsForm(f, NewForm(shown, f))
      /\ Touched(f, NewForm(shown, f), Server, shown, read, calls)
      /\ HeardOf(f, NewForm(shown, f), Server, shown, read, calls)
  BY <1>2, <1>4, <1>5, NewFormIs
<1>7. DOMAIN forms' = DOMAIN forms \cup {f} /\ forms'[f] = NewForm(shown, f)
      /\ \A g \in DOMAIN forms : forms'[g] = forms[g]
  BY <1>1
<1>8. FormsOk(forms', Server, shown, read, calls)
  BY <1>2, <1>5, <1>6, <1>7 DEF FormsOk
<1>9. CallsOk(calls, forms', spent.saves)
  BY <1>2, <1>7 DEF CallsOk
<1>10. PageOk(shown', failed', forms')
  BY <1>1, <1>7 DEF PageOk, Inv, Open
<1> QED BY <1>1, <1>3, <1>8, <1>9, <1>10, PageStep

(* Forms that go leave the others, and their saves, as they are.           *)
Dropped(cs, kept) ==
  [i \in DOMAIN cs |-> [cs[i] EXCEPT !.watched = @ /\ cs[i].form \in kept]]

(* Their saves are no longer watched.                                      *)
LEMMA DroppedIs ==
  ASSUME NEW cs, NEW fs, NEW most, CallsOk(cs, fs, most),
         NEW kept, NEW fs2, DOMAIN fs2 = kept
  PROVE  /\ CallsOk(Dropped(cs, kept), fs2, most)
         /\ \A f \in kept : SameCalls(f, cs, Dropped(cs, kept))
<1> DEFINE cs2 == Dropped(cs, kept)
<1>1. DOMAIN cs2 = DOMAIN cs
  BY DEF Dropped
<1>2. ASSUME NEW i \in DOMAIN cs
      PROVE  cs2[i] = [form |-> cs[i].form, watched |-> cs[i].watched /\ cs[i].form \in kept,
                       got |-> cs[i].got, stage |-> cs[i].stage, req |-> cs[i].req]
  <2>1. cs[i] = [form |-> cs[i].form, watched |-> cs[i].watched, got |-> cs[i].got,
                 stage |-> cs[i].stage, req |-> cs[i].req]
    BY DEF CallsOk, IsCall
  <2>2. cs2[i] = [cs[i] EXCEPT !.watched = cs[i].watched /\ cs[i].form \in kept]
    BY DEF Dropped
  <2> HIDE DEF cs2
  <2> QED BY <2>1, <2>2
<1> HIDE DEF cs2
<1>3. \A i \in DOMAIN cs : /\ cs2[i].form = cs[i].form
                           /\ cs2[i].watched = (cs[i].watched /\ cs[i].form \in kept)
                           /\ cs2[i].got = cs[i].got /\ cs2[i].stage = cs[i].stage
                           /\ cs2[i].req = cs[i].req
  <2> SUFFICES ASSUME NEW i \in DOMAIN cs
               PROVE  /\ cs2[i].form = cs[i].form
                      /\ cs2[i].watched = (cs[i].watched /\ cs[i].form \in kept)
                      /\ cs2[i].got = cs[i].got /\ cs2[i].stage = cs[i].stage
                      /\ cs2[i].req = cs[i].req
    OBVIOUS
  <2>1. PICK w : w = (cs[i].watched /\ cs[i].form \in kept)
    OBVIOUS
  <2>2. cs2[i] = [form |-> cs[i].form, watched |-> w, got |-> cs[i].got,
                  stage |-> cs[i].stage, req |-> cs[i].req]
    BY <1>2, <2>1, Zenon
  <2>3. /\ cs2[i].form = cs[i].form /\ cs2[i].watched = w
        /\ cs2[i].got = cs[i].got /\ cs2[i].stage = cs[i].stage
        /\ cs2[i].req = cs[i].req
    BY <2>2
  <2> QED BY <2>1, <2>3, Zenon
<1>4. \A i, f : Mine(cs2, i, f) <=> Mine(cs, i, f) /\ f \in kept
  BY <1>1, <1>3 DEF Mine
<1>5. \A i \in DOMAIN cs : IsCall(cs2[i])
  BY <1>2, <1>3 DEF IsCall, CallsOk
<1>6. CallsOk(cs2, fs2, most)
  BY <1>1, <1>3, <1>4, <1>5 DEF CallsOk
<1>7. ASSUME NEW f \in kept
      PROVE  SameCalls(f, cs, cs2)
  <2>1. ASSUME NEW i, Mine(cs, i, f)
        PROVE  cs2[i] = cs[i]
    <3>1. cs[i] = [form |-> cs[i].form, watched |-> TRUE, got |-> cs[i].got,
                   stage |-> cs[i].stage, req |-> cs[i].req]
      BY <2>1 DEF CallsOk, IsCall, Mine
    <3>2. cs2[i] = [form |-> cs[i].form, watched |-> TRUE, got |-> cs[i].got,
                    stage |-> cs[i].stage, req |-> cs[i].req]
      BY <1>2, <2>1, <3>1 DEF Mine
    <3> QED BY <3>1, <3>2
  <2> QED BY <1>4, <2>1 DEF SameCalls
<1> QED BY <1>6, <1>7 DEF cs2

(* The form of an attempt goes.                                            *)
LEMMA CloseKeeps ==
  ASSUME Inv, NEW f, Close(f)
  PROVE  Inv'
<1> DEFINE kept == DOMAIN forms \ {f}
<1>1. /\ forms' = [g \in kept |-> forms[g]]
      /\ calls' = Dropped(calls, kept)
      /\ UNCHANGED <<stored, shown, failed, read, spent>>
  BY DEF Close, Keep, Dropped
<1>2. /\ CallsOk(calls, forms, spent.saves)
      /\ FormsOk(forms, Server, shown, read, calls)
      /\ spent \in [edits : Nat, saves : Nat, phone : Nat, reads : Nat, mishaps : Nat]
  BY DEF Inv
<1>3. DOMAIN forms' = kept /\ \A g \in kept : forms'[g] = forms[g]
  BY <1>1
<1>4. /\ CallsOk(calls', forms', spent.saves)
      /\ \A g \in kept : SameCalls(g, calls, calls')
  BY <1>1, <1>2, <1>3, DroppedIs
<1>5. FormsOk(forms', Server, shown, read, calls')
  BY <1>2, <1>3, <1>4, OthersStay DEF FormsOk
<1>6. PageOk(shown', failed', forms')
  BY <1>1, <1>3 DEF PageOk, Inv, Close
<1> QED BY <1>1, <1>2, <1>4, <1>5, <1>6, PageStep

(* Something is typed.                                                     *)
LEMMA TypeKeeps ==
  ASSUME Inv, NEW f \in DOMAIN forms, NEW x \in FieldsOf(f), NEW input,
         x \in TimesOf(f) => input \in TypedTimes,
         x \notin TimesOf(f) => input \in TypedResults,
         Type(f, x, input)
  PROVE  Inv'
<1> DEFINE form == forms[f]
           form2 == [draft |-> [form.draft EXCEPT ![x] = input],
                     typed |-> form.typed \cup {x}, since |-> form.since \cup {x},
                     status |-> form.status, alone |-> form.alone, heard |-> form.heard]
<1>1. /\ CallsOk(calls, forms, spent.saves)
      /\ FormsOk(forms, Server, shown, read, calls)
  BY DEF Inv
<1>2. /\ f \in FormKeys /\ IsForm(f, form) /\ HasRow(shown, f)
      /\ Touched(f, form, Server, shown, read, calls)
      /\ HeardOf(f, form, Server, shown, read, calls)
  BY <1>1 DEF FormsOk
<1>3. /\ spent' \in [edits : Nat, saves : Nat, phone : Nat, reads : Nat, mishaps : Nat]
      /\ spent'.saves = spent.saves
      /\ UNCHANGED <<stored, shown, failed, read, calls>>
  BY SpendIs DEF Inv, Type
<1>4. DOMAIN forms' = DOMAIN forms /\ \A g \in DOMAIN forms : g # f => forms'[g] = forms[g]
  BY DEF Type
<1>5. forms'[f] = form2
  <2>1. forms'[f] = [form EXCEPT !.draft[x] = input, !.typed = @ \cup {x}, !.since = @ \cup {x}]
    BY DEF Type
  <2>2. form = [draft |-> form.draft, typed |-> form.typed, since |-> form.since,
                status |-> form.status, alone |-> form.alone, heard |-> form.heard]
    BY <1>2 DEF IsForm
  <2> HIDE DEF form
  <2> QED BY <2>1, <2>2
<1>6. /\ form2.draft = [form.draft EXCEPT ![x] = input]
      /\ form2.typed = form.typed \cup {x} /\ form2.since = form.since \cup {x}
      /\ form2.status = form.status /\ form2.alone = form.alone /\ form2.heard = form.heard
      /\ form2 = [draft |-> form2.draft, typed |-> form2.typed, since |-> form2.since,
                  status |-> form2.status, alone |-> form2.alone, heard |-> form2.heard]
  OBVIOUS
<1> HIDE DEF form2, form
<1>7. /\ form.draft = [y \in FieldsOf(f) |-> form.draft[y]]
      /\ \A y \in TimesOf(f) : form.draft[y] \in Nat \cup {Blank, Malformed}
      /\ \A y \in form.typed : y \notin TimesOf(f) => form.draft[y] # Nil
      /\ form.alone \in BOOLEAN /\ form.heard \in BOOLEAN
  BY <1>2 DEF IsForm, IsDraft
<1>8. /\ form2.draft = [y \in FieldsOf(f) |-> form2.draft[y]]
      /\ form2.draft[x] = input
      /\ \A y : y # x => form2.draft[y] = form.draft[y]
  BY <1>6, <1>7
<1>9. IsForm(f, form2)
  <2>1. x \in TimesOf(f) => input \in Nat \cup {Blank, Malformed}
    BY TripCorrectionsAssumption
  <2>2. x \notin TimesOf(f) => input # Nil
    BY TripCorrectionsAssumption
  <2>3. \A y \in TimesOf(f) : form2.draft[y] \in Nat \cup {Blank, Malformed}
    BY <1>7, <1>8, <2>1
  <2>4. \A y \in form2.typed : y \notin TimesOf(f) => form2.draft[y] # Nil
    BY <1>6, <1>7, <1>8, <2>2
  <2>5. form2.alone \in BOOLEAN /\ form2.heard \in BOOLEAN
    BY <1>6, <1>7
  <2> QED BY <1>6, <1>8, <2>3, <2>4, <2>5 DEF IsForm, IsDraft
<1>10. /\ Touched(f, form2, Server, shown, read, calls)
       /\ HeardOf(f, form2, Server, shown, read, calls)
  BY <1>2, <1>6, <1>8, TypedIs
<1>11. FormsOk(forms', Server, shown, read, calls)
  BY <1>1, <1>2, <1>4, <1>5, <1>9, <1>10 DEF FormsOk
<1>12. CallsOk(calls, forms', spent.saves)
  BY <1>1, <1>4 DEF CallsOk
<1>13. PageOk(shown', failed', forms')
  BY <1>3, <1>4 DEF PageOk, Inv
<1> QED BY <1>3, <1>11, <1>12, <1>13, PageStep

(* A form of which only the status line changes.                           *)
LEMMA SaysKeeps ==
  ASSUME Inv, NEW f \in DOMAIN forms, NEW status \in {"wrong", "unchanged"},
         forms' = [forms EXCEPT ![f].status = status],
         UNCHANGED <<stored, shown, failed, read, calls, spent>>
  PROVE  Inv'
<1>1. /\ CallsOk(calls, forms, spent.saves)
      /\ FormsOk(forms, Server, shown, read, calls)
      /\ spent \in [edits : Nat, saves : Nat, phone : Nat, reads : Nat, mishaps : Nat]
  BY DEF Inv
<1>2. /\ f \in FormKeys /\ IsForm(f, forms[f]) /\ HasRow(shown, f)
      /\ Touched(f, forms[f], Server, shown, read, calls)
      /\ HeardOf(f, forms[f], Server, shown, read, calls)
  BY <1>1 DEF FormsOk
<1>3. DOMAIN forms' = DOMAIN forms /\ \A g \in DOMAIN forms : g # f => forms'[g] = forms[g]
  OBVIOUS
<1>4. forms'[f] = [draft |-> forms[f].draft, typed |-> forms[f].typed,
                   since |-> forms[f].since, status |-> status,
                   alone |-> forms[f].alone, heard |-> forms[f].heard]
  <2>1. forms'[f] = [forms[f] EXCEPT !.status = status]
    OBVIOUS
  <2> QED BY <1>2, <2>1 DEF IsForm
<1>5. IsForm(f, forms'[f])
  BY <1>2, <1>4 DEF IsForm
<1>6. forms[f].alone => HasRow(Server, f)
  BY <1>2 DEF Touched
<1>7. SameCalls(f, calls, calls)
  BY DEF SameCalls
<1>8. /\ Touched(f, forms'[f], Server, shown, read, calls)
      /\ HeardOf(f, forms'[f], Server, shown, read, calls)
  <2>1. /\ forms'[f].draft = forms[f].draft /\ forms'[f].typed = forms[f].typed
        /\ forms'[f].since = forms[f].since /\ forms'[f].alone = forms[f].alone
        /\ forms'[f].heard = forms[f].heard /\ forms'[f].status # "saved"
    BY <1>4
  <2> QED BY <1>2, <1>6, <1>7, <2>1, FormStays
<1>9. FormsOk(forms', Server, shown, read, calls)
  BY <1>1, <1>2, <1>3, <1>5, <1>8 DEF FormsOk
<1>10. CallsOk(calls, forms', spent.saves)
  BY <1>1, <1>3 DEF CallsOk
<1>11. PageOk(shown', failed', forms')
  BY <1>3 DEF PageOk, Inv
<1> QED BY <1>1, <1>9, <1>10, <1>11, PageStep

(* A form is submitted: refused, unchanged or sent.                        *)
LEMMA SubmitKeeps ==
  ASSUME Inv, NEW f \in DOMAIN forms, Submit(f)
  PROVE  Inv'
<1> DEFINE n == spent'.saves
           patch == Patch(shown, f, forms[f].draft)
<1>1. \A i : ~Mine(calls, i, f)
  BY DEF Submit, Pending, Mine
<1>2. CASE /\ forms' \in {[forms EXCEPT ![f].status = "wrong"],
                          [forms EXCEPT ![f].status = "unchanged"]}
           /\ UNCHANGED <<calls, spent>>
  BY <1>2, SaysKeeps DEF Submit
<1>3. CASE /\ ~Wrong(shown, f, forms[f].draft)
           /\ Spend("saves", MaxSaves)
           /\ forms' = [forms EXCEPT ![f].status = "none", ![f].since = {}]
           /\ calls' = [i \in DOMAIN calls \cup {n} |->
                          IF i \in DOMAIN calls THEN calls[i]
                          ELSE [form |-> f, watched |-> TRUE, got |-> Idle,
                                stage |-> "sent", req |-> Request(f, patch)]]
  <2>1. /\ CallsOk(calls, forms, spent.saves) /\ IsStore(stored)
        /\ FormsOk(forms, Server, shown, read, calls) /\ ReadsOk(Server, shown, read)
    BY DEF Inv
  <2>2. UNCHANGED <<stored, shown, failed, read>>
    BY DEF Submit
  <2>3. /\ f \in FormKeys /\ IsForm(f, forms[f]) /\ HasRow(shown, f) /\ IsRow(shown)
        /\ Touched(f, forms[f], Server, shown, read, calls)
        /\ HeardOf(f, forms[f], Server, shown, read, calls)
    BY <2>1 DEF FormsOk, ReadsOk, HasRow
  <2>4. Server # Gone => IsRow(Server)
    BY <2>1, ServerIs DEF Server
  <2>5. /\ spent' \in [edits : Nat, saves : Nat, phone : Nat, reads : Nat, mishaps : Nat]
        /\ n = spent.saves + 1 /\ spent.saves \in Nat /\ n \in Nat
    BY <1>3, SpendIs DEF Inv
  <2> HIDE DEF n
  <2>6. n \notin DOMAIN calls
    BY <2>1, <2>5 DEF CallsOk
  <2>7. /\ DOMAIN calls' = DOMAIN calls \cup {n}
        /\ \A i \in DOMAIN calls : calls'[i] = calls[i]
        /\ calls'[n] = [form |-> f, watched |-> TRUE, got |-> Idle, stage |-> "sent",
                        req |-> Request(f, patch)]
    BY <1>3, <2>6
  <2>8. /\ DOMAIN forms' = DOMAIN forms
        /\ forms'[f] = [forms[f] EXCEPT !.status = "none", !.since = {}]
        /\ \A g \in DOMAIN forms : g # f => forms'[g] = forms[g]
    BY <1>3
  <2>9. /\ IsForm(f, forms'[f]) /\ IsCall(calls'[n])
        /\ Touched(f, forms'[f], Server, shown, read, calls')
        /\ HeardOf(f, forms'[f], Server, shown, read, calls')
    <3>1. ~Wrong(shown, f, forms[f].draft)
      BY <1>3
    <3>2. Submitted(f, forms[f], shown, calls, forms'[f], calls', n)
      BY <2>6, <2>7, <2>8 DEF Submitted
    <3> QED BY <1>1, <2>3, <2>4, <3>1, <3>2, SubmitIs
  <2>10. \A g : g # f => SameCalls(g, calls, calls')
    BY <2>7 DEF SameCalls, Mine
  <2>11. FormsOk(forms', Server, shown, read, calls')
    BY <2>1, <2>3, <2>8, <2>9, <2>10, OthersStay DEF FormsOk
  <2>12. CallsOk(calls', forms', n)
    <3>1. \A i \in DOMAIN calls' : /\ i \in Nat /\ i <= n /\ IsCall(calls'[i])
                                   /\ calls'[i].watched => calls'[i].form \in DOMAIN forms'
      BY <2>1, <2>5, <2>7, <2>8, <2>9 DEF CallsOk
    <3>2. \A i, g : Mine(calls', i, g) =>
                      IF i = n THEN g = f ELSE Mine(calls, i, g) /\ g # f
      BY <1>1, <2>7 DEF Mine
    <3>3. \A i, j, g : Mine(calls', i, g) /\ Mine(calls', j, g) => i = j
      BY <2>1, <3>2 DEF CallsOk
    <3> QED BY <3>1, <3>3 DEF CallsOk
  <2>13. PageOk(shown', failed', forms')
    BY <2>2, <2>8 DEF PageOk, Inv
  <2> QED BY <2>2, <2>5, <2>11, <2>12, <2>13, PageStep DEF n
<1> QED BY <1>2, <1>3 DEF Submit

-----------------------------------------------------------------------------
(* What happens to the saves. *)

(* What the server has later is not less.                                  *)
LEMMA LaterIs ==
  ASSUME NEW s, IsStore(s), NEW done, Follows(s, done), NEW trip, Older(trip, OnServer(s))
  PROVE  Older(trip, OnServer(done.state))
<1>1. IsStore(done.state)
  BY DEF Follows
<1>2. SUFFICES ASSUME trip # Gone, OnServer(done.state) # Gone
               PROVE  DOMAIN trip.attempts \subseteq DOMAIN OnServer(done.state).attempts
  BY DEF Older
<1>3. 1 \in DOMAIN done.state.trips /\ OnServer(done.state) = done.state.trips[1]
  BY <1>1, <1>2, ServerIs
<1>4. /\ 1 \in DOMAIN s.trips
      /\ DOMAIN s.trips[1].attempts \subseteq DOMAIN done.state.trips[1].attempts
  BY <1>3 DEF Follows
<1>5. OnServer(s) # Gone /\ OnServer(s) = s.trips[1]
  BY <1>4, ServerIs
<1> QED BY <1>2, <1>3, <1>4, <1>5 DEF Older

(* A form after somebody wrote: only what is known of the others changes.  *)
AsBefore(form2, form) ==
  /\ form2.draft = form.draft /\ form2.typed = form.typed
  /\ form2.since = form.since /\ form2.status = form.status

(* What becomes of one form as the server changes.                         *)
LEMMA MeddledIs ==
  ASSUME NEW own, NEW answered \in BOOLEAN, forms' = Meddled(own, answered),
         NEW f \in DOMAIN forms, IsForm(f, forms[f])
  PROVE  /\ IsForm(f, forms'[f]) /\ AsBefore(forms'[f], forms[f])
         /\ forms'[f].alone =>
              /\ forms[f].alone /\ OnServer(stored') # Gone
              /\ f \in own \/ Original(OnServer(stored'), f) = Original(Server, f)
         /\ forms'[f].heard => forms[f].heard /\ (f \in own => answered)
<1>1. PICK alone \in BOOLEAN :
        alone <=> /\ forms[f].alone
                  /\ OnServer(stored') # Gone
                  /\ f \in own \/ Original(OnServer(stored'), f) = Original(OnServer(stored), f)
  BY Zenon
<1>2. PICK heard \in BOOLEAN : heard <=> forms[f].heard /\ (f \in own => answered)
  BY Zenon
<1>3. forms'[f] = [forms[f] EXCEPT
        !.alone = /\ forms[f].alone
                  /\ OnServer(stored') # Gone
                  /\ f \in own \/ Original(OnServer(stored'), f) = Original(OnServer(stored), f),
        !.heard = forms[f].heard /\ (f \in own => answered)]
  BY Zenon DEF Meddled
<1>4. forms'[f] = [forms[f] EXCEPT !.alone = alone, !.heard = heard]
  BY <1>1, <1>2, <1>3, Zenon DEF IsForm
<1>5. forms'[f] = [draft |-> forms[f].draft, typed |-> forms[f].typed,
                   since |-> forms[f].since, status |-> forms[f].status,
                   alone |-> alone, heard |-> heard]
  BY <1>4 DEF IsForm
<1>6. IsForm(f, forms'[f]) /\ AsBefore(forms'[f], forms[f])
  BY <1>5 DEF IsForm, AsBefore
<1>7. forms'[f].alone = alone /\ forms'[f].heard = heard
  BY <1>5
<1> QED BY <1>1, <1>2, <1>6, <1>7, Zenon DEF Server

(* A save that has got something.                                          *)
Gets(cs, cs2, fs, most, i, got) ==
  /\ CallsOk(cs2, fs, most)
  /\ \A j, f : Mine(cs2, j, f) <=> Mine(cs, j, f)
  /\ cs2[i].got = got /\ cs2[i].stage = "sent"
  /\ \A f : ~Mine(cs, i, f) => SameCalls(f, cs, cs2)

(* Nothing else of the saves changes.                                      *)
LEMMA GotIs ==
  ASSUME NEW cs, NEW fs, NEW most, CallsOk(cs, fs, most),
         NEW i \in DOMAIN cs, cs[i].stage = "sent", NEW got,
         NEW cs2, cs2 = [cs EXCEPT ![i].got = got]
  PROVE  Gets(cs, cs2, fs, most, i, got)
<1>1. DOMAIN cs2 = DOMAIN cs /\ \A j \in DOMAIN cs : j # i => cs2[j] = cs[j]
  OBVIOUS
<1>2. cs2[i] = [form |-> cs[i].form, watched |-> cs[i].watched, got |-> got,
                stage |-> "sent", req |-> cs[i].req]
  <2>1. cs2[i] = [cs[i] EXCEPT !.got = got]
    OBVIOUS
  <2> QED BY <2>1 DEF CallsOk, IsCall
<1>3. /\ cs2[i].form = cs[i].form /\ cs2[i].watched = cs[i].watched /\ cs2[i].got = got
      /\ cs2[i].stage = "sent" /\ cs2[i].req = cs[i].req
  BY <1>2
<1>4. IsCall(cs2[i])
  BY <1>2, <1>3 DEF IsCall, CallsOk
<1>5. \A j, f : Mine(cs2, j, f) <=> Mine(cs, j, f)
  BY <1>1, <1>3 DEF Mine
<1>6. CallsOk(cs2, fs, most)
  BY <1>1, <1>3, <1>4, <1>5 DEF CallsOk
<1>7. \A f : ~Mine(cs, i, f) => SameCalls(f, cs, cs2)
  BY <1>1, <1>5 DEF SameCalls, Mine
<1> QED BY <1>3, <1>5, <1>6, <1>7 DEF Gets

(* A save never arrives.                                                   *)
LEMMA LoseSaveKeeps ==
  ASSUME Inv, NEW i \in DOMAIN calls, LoseSave(i)
  PROVE  Inv'
<1>1. /\ calls[i].stage = "sent" /\ calls[i].got = Idle
      /\ calls' = [calls EXCEPT ![i].got = Lost]
      /\ UNCHANGED <<stored, shown, failed, read, forms>>
  BY DEF LoseSave
<1>2. /\ CallsOk(calls, forms, spent.saves)
      /\ FormsOk(forms, Server, shown, read, calls)
  BY DEF Inv
<1>3. /\ spent' \in [edits : Nat, saves : Nat, phone : Nat, reads : Nat, mishaps : Nat]
      /\ spent'.saves = spent.saves
  BY SpendIs DEF Inv, LoseSave
<1>4. /\ CallsOk(calls', forms, spent.saves)
      /\ \A j, f : Mine(calls', j, f) <=> Mine(calls, j, f)
      /\ calls'[i].got = Lost /\ calls'[i].stage = "sent"
      /\ \A f : ~Mine(calls, i, f) => SameCalls(f, calls, calls')
  <2>1. Gets(calls, calls', forms, spent.saves, i, Lost)
    BY <1>1, <1>2, GotIs
  <2> QED BY <2>1, Zenon DEF Gets
<1>5. ASSUME NEW f \in DOMAIN forms
      PROVE  /\ f \in FormKeys /\ IsForm(f, forms[f]) /\ HasRow(shown, f)
             /\ Touched(f, forms[f], Server, shown, read, calls')
             /\ HeardOf(f, forms[f], Server, shown, read, calls')
  <2>1. CASE ~Mine(calls, i, f)
    BY <1>2, <1>4, <2>1, OthersStay
  <2>2. CASE Mine(calls, i, f)
    <3>1. /\ f \in FormKeys /\ IsForm(f, forms[f]) /\ HasRow(shown, f)
          /\ Touched(f, forms[f], Server, shown, read, calls)
          /\ HeardOf(f, forms[f], Server, shown, read, calls)
      BY <1>2 DEF FormsOk
    <3>2. \A j : Mine(calls, j, f) => j = i
      BY <1>2, <2>2 DEF CallsOk
    <3>3. calls'[i].got \notin {Idle, Delivered}
      BY <1>4, OutcomesDiffer
    <3>4. \A j : Mine(calls', j, f) <=> Mine(calls, j, f)
      BY <1>4
    <3>5. /\ Touched(f, forms[f], Server, shown, read, calls')
          /\ HeardOf(f, forms[f], Server, shown, read, calls')
      BY <1>1, <1>4, <2>2, <3>1, <3>2, <3>3, <3>4, NotStoredIs
    <3> QED BY <3>1, <3>5
  <2> QED BY <2>1, <2>2
<1>6. FormsOk(forms, Server, shown, read, calls')
  BY <1>5 DEF FormsOk
<1>7. PageOk(shown', failed', forms')
  BY <1>1 DEF Inv
<1> QED BY <1>1, <1>3, <1>4, <1>6, <1>7, PageStep

(* How a save of the page is answered.                                     *)
LEMMA CallServed ==
  ASSUME Inv, NEW i \in DOMAIN calls
  PROVE  /\ Follows(stored, S!Served(stored, calls[i].req))
         /\ Writes(stored, S!Served(stored, calls[i].req), calls[i].form, calls[i].req.body)
<1> DEFINE done == S!Served(stored, calls[i].req)
           body == calls[i].req.body
<1>1. IsStore(stored) /\ IsCall(calls[i])
  BY DEF Inv, CallsOk
<1>2. IsRequest(calls[i].req)
  BY <1>1 DEF IsCall
<1>3. /\ Follows(stored, done)
      /\ calls[i].req.type = "updateTrip" => Writes(stored, done, TripForm, body)
      /\ calls[i].req.type = "updateAttempt" =>
           Writes(stored, done, calls[i].req.attempt, body)
  BY <1>1, <1>2, ServedIs
<1> HIDE DEF done, body
<1>4. CASE calls[i].form = TripForm
  <2>1. calls[i].req.type = "updateTrip"
    BY <1>1, <1>4 DEF IsCall, Request
  <2> QED BY <1>3, <1>4, <2>1 DEF done, body
<1>5. CASE calls[i].form # TripForm
  <2>1. calls[i].req.type = "updateAttempt" /\ calls[i].req.attempt = calls[i].form
    BY <1>1, <1>5 DEF IsCall, Request
  <2> QED BY <1>3, <2>1 DEF done, body
<1> QED BY <1>4, <1>5

(* What a save has got, as it is served; the page does not know more than  *)
(* what is so.                                                             *)
LEMMA SaveServed ==
  ASSUME Inv, NEW i \in DOMAIN calls, calls[i].stage = "sent", calls[i].got = Idle,
         NEW done, done = S!Served(stored, calls[i].req), stored' = done.state,
         NEW got, calls' = [calls EXCEPT ![i].got = got], got # Idle,
         NEW answered \in BOOLEAN,
         forms' = Meddled(IF calls[i].watched THEN {calls[i].form} ELSE {}, answered),
         done.outcome = Delivered /\ answered => got = Delivered,
         done.outcome # Delivered => got # Delivered,
         UNCHANGED <<shown, failed, read>>,
         spent' \in [edits : Nat, saves : Nat, phone : Nat, reads : Nat, mishaps : Nat],
         spent'.saves = spent.saves
  PROVE  Inv'
<1> DEFINE own == IF calls[i].watched THEN {calls[i].form} ELSE {}
           now == OnServer(stored')
           body == calls[i].req.body
<1>1. /\ IsStore(stored) /\ ReadsOk(Server, shown, read)
      /\ CallsOk(calls, forms, spent.saves)
      /\ FormsOk(forms, Server, shown, read, calls)
  BY DEF Inv
<1>2. IsCall(calls[i])
  BY <1>1 DEF CallsOk
<1>3. Follows(stored, done) /\ Writes(stored, done, calls[i].form, body)
  BY CallServed
<1>4. IsStore(stored')
  BY <1>3 DEF Follows
<1>5. \A trip : Older(trip, Server) => Older(trip, now)
  BY <1>1, <1>3, LaterIs DEF Server
<1> HIDE DEF now, body
<1>6. ReadsOk(now, shown, read)
  BY <1>1, <1>5 DEF ReadsOk
<1>7. DOMAIN forms' = DOMAIN forms
  BY DEF Meddled
<1>8. Gets(calls, calls', forms, spent.saves, i, got)
  BY <1>1, GotIs
<1>9. ASSUME NEW f \in DOMAIN forms
      PROVE  /\ f \in FormKeys /\ IsForm(f, forms'[f]) /\ HasRow(shown, f)
             /\ Touched(f, forms'[f], now, shown, read, calls')
             /\ HeardOf(f, forms'[f], now, shown, read, calls')
  <2>1. /\ f \in FormKeys /\ IsForm(f, forms[f]) /\ HasRow(shown, f)
        /\ Touched(f, forms[f], Server, shown, read, calls)
        /\ HeardOf(f, forms[f], Server, shown, read, calls)
    BY <1>1 DEF FormsOk
  <2>2. /\ IsForm(f, forms'[f]) /\ AsBefore(forms'[f], forms[f])
        /\ forms'[f].alone =>
             /\ forms[f].alone /\ now # Gone
             /\ f \in own \/ Original(now, f) = Original(Server, f)
        /\ forms'[f].heard => forms[f].heard /\ (f \in own => answered)
    BY <2>1, MeddledIs DEF now
  <2> HIDE DEF own
  <2>3. f \in own <=> Mine(calls, i, f)
    BY DEF own, Mine
  <2>4. now # Gone => HasRow(now, f)
    BY <1>6, <2>1 DEF ReadsOk, Older, HasRow
  <2>5. CASE ~Mine(calls, i, f)
    <3>1. SameCalls(f, calls, calls')
      BY <1>8, <2>5 DEF Gets
    <3>2. forms'[f].alone => /\ forms[f].alone /\ HasRow(now, f)
                             /\ Original(now, f) = Original(Server, f)
      BY <2>2, <2>3, <2>4, <2>5
    <3>3. /\ Touched(f, forms'[f], now, shown, read, calls')
          /\ HeardOf(f, forms'[f], now, shown, read, calls')
      BY <2>1, <2>2, <3>1, <3>2, FormStays DEF AsBefore
    <3> QED BY <2>1, <2>2, <3>3
  <2>6. CASE Mine(calls, i, f)
    <3>1. \A j : Mine(calls, j, f) => j = i
      BY <1>1, <2>6 DEF CallsOk
    <3>2. /\ \A j : Mine(calls', j, f) <=> Mine(calls, j, f)
          /\ calls'[i].got = got /\ calls'[i].stage = "sent"
      BY <1>8 DEF Gets
    <3>3. /\ forms'[f].draft = forms[f].draft /\ forms'[f].typed = forms[f].typed
          /\ forms'[f].since = forms[f].since /\ forms'[f].status = forms[f].status
          /\ forms'[f].alone => forms[f].alone
          /\ forms'[f].heard => forms[f].heard
      BY <2>2 DEF AsBefore
    <3>5. CASE done.outcome # Delivered
      <4>1. now = Server
        BY <1>3, <3>5 DEF Follows, now, Server
      <4>2. calls'[i].got \notin {Idle, Delivered}
        BY <3>2, <3>5
      <4>3. /\ Touched(f, forms'[f], Server, shown, read, calls')
            /\ HeardOf(f, forms'[f], Server, shown, read, calls')
        BY <2>1, <2>6, <3>1, <3>2, <3>3, <4>2, NotStoredIs
      <4> QED BY <2>1, <2>2, <4>1, <4>3
    <3>4. CASE done.outcome = Delivered
      <4>1. calls[i].form = f
        BY <2>6 DEF Mine
      <4>2. Becomes(f, body, Server, now)
        BY <1>3, <3>4, <4>1 DEF Writes, Becomes, now, Server
      <4>3. forms'[f].heard => forms[f].heard /\ calls'[i].got = Delivered
        BY <2>2, <2>3, <2>6, <3>2, <3>4
      <4>4. calls'[i].got # Idle
        BY <3>2
      <4>5. Stores(f, forms[f], forms'[f], calls, calls', i)
        BY <1>2, <2>6, <3>1, <3>2, <3>3, <4>3, <4>4 DEF Stores
      <4>6. /\ Touched(f, forms'[f], now, shown, read, calls')
            /\ HeardOf(f, forms'[f], now, shown, read, calls')
        BY <2>1, <4>2, <4>5, StoredIs DEF body
      <4> QED BY <2>1, <2>2, <4>6
    <3> QED BY <3>4, <3>5
  <2> QED BY <2>5, <2>6
<1>10. FormsOk(forms', now, shown, read, calls')
  BY <1>7, <1>9 DEF FormsOk
<1>11. CallsOk(calls', forms', spent.saves)
  BY <1>7, <1>8 DEF Gets, CallsOk
<1>12. Server' = now
  BY DEF Server, now
<1>13. PageOk(shown', failed', forms')
  BY <1>7 DEF PageOk, Inv
<1> QED BY <1>4, <1>6, <1>10, <1>11, <1>12, <1>13 DEF Inv

(* Whether its answer arrives or is lost.                                  *)
LEMMA ServeSaveKeeps ==
  ASSUME Inv, NEW i \in DOMAIN calls, ServeSave(i)
  PROVE  Inv'
<1> DEFINE done == S!Served(stored, calls[i].req)
           own == IF calls[i].watched THEN {calls[i].form} ELSE {}
<1>1. /\ calls[i].stage = "sent" /\ calls[i].got = Idle
      /\ stored' = done.state
      /\ UNCHANGED <<shown, failed, read>>
      /\ \/ /\ calls' = [calls EXCEPT ![i].got = done.outcome]
            /\ forms' = Meddled(own, TRUE)
            /\ UNCHANGED spent
         \/ /\ calls' = [calls EXCEPT ![i].got = Lost]
            /\ forms' = Meddled(own, done.outcome # Delivered)
            /\ Spend("mishaps", MaxMishaps)
  BY DEF ServeSave
<1>2. spent \in [edits : Nat, saves : Nat, phone : Nat, reads : Nat, mishaps : Nat]
  BY DEF Inv
<1>3. done.outcome \in {Delivered, Refused, NotFound}
  <2>1. IsStore(stored) /\ IsRequest(calls[i].req)
    BY DEF Inv, CallsOk, IsCall
  <2> QED BY <2>1, ServedIs DEF Follows
<1> HIDE DEF done, own
<1>4. done.outcome # Idle /\ Lost # Idle /\ Lost # Delivered
  BY <1>3, OutcomesDiffer
<1>5. CASE /\ calls' = [calls EXCEPT ![i].got = done.outcome]
           /\ forms' = Meddled(own, TRUE)
           /\ UNCHANGED spent
  BY <1>1, <1>2, <1>4, <1>5, SaveServed DEF done, own
<1>6. CASE /\ calls' = [calls EXCEPT ![i].got = Lost]
           /\ forms' = Meddled(own, done.outcome # Delivered)
           /\ Spend("mishaps", MaxMishaps)
  <2>1. PICK answered \in BOOLEAN : answered <=> done.outcome # Delivered
    OBVIOUS
  <2>2. forms' = Meddled(own, answered)
    BY <1>6, <2>1, Zenon
  <2>3. /\ spent' \in [edits : Nat, saves : Nat, phone : Nat, reads : Nat, mishaps : Nat]
        /\ spent'.saves = spent.saves
    BY <1>2, <1>6, SpendIs
  <2>4. done.outcome = Delivered /\ answered => Lost = Delivered
    BY <2>1
  <2> QED BY <1>1, <1>4, <1>6, <2>2, <2>3, <2>4, SaveServed DEF done, own
<1> QED BY <1>1, <1>5, <1>6

(* The read under way is another one, or has got what the server has.      *)
LEMMA ReadChanges ==
  ASSUME Inv, UNCHANGED <<stored, shown, failed, forms, calls>>,
         read'.stage \in {"asked", "answered"},
         Answered(read') => read'.got = Server,
         spent' \in [edits : Nat, saves : Nat, phone : Nat, reads : Nat, mishaps : Nat],
         spent'.saves = spent.saves
  PROVE  Inv'
<1>1. /\ IsStore(stored) /\ ReadsOk(Server, shown, read)
      /\ CallsOk(calls, forms, spent.saves) /\ PageOk(shown, failed, forms)
      /\ FormsOk(forms, Server, shown, read, calls)
  BY DEF Inv
<1>2. Answered(read') => IsRow(read'.got)
  BY <1>1, ServerIs DEF Answered, Server
<1>3. ReadsOk(Server, shown, read')
  BY <1>1, <1>2 DEF ReadsOk, Older
<1>4. ASSUME NEW f \in DOMAIN forms
      PROVE  /\ f \in FormKeys /\ IsForm(f, forms[f]) /\ HasRow(shown, f)
             /\ Touched(f, forms[f], Server, shown, read', calls)
             /\ HeardOf(f, forms[f], Server, shown, read', calls)
  <2>1. /\ f \in FormKeys /\ IsForm(f, forms[f]) /\ HasRow(shown, f)
        /\ Touched(f, forms[f], Server, shown, read, calls)
        /\ HeardOf(f, forms[f], Server, shown, read, calls)
    BY <1>1 DEF FormsOk
  <2>2. forms[f].alone => HasRow(Server, f)
    BY <2>1 DEF Touched
  <2>3. SameCalls(f, calls, calls)
    BY DEF SameCalls
  <2>4. Answered(read') => Original(read'.got, f) = Original(Server, f)
    OBVIOUS
  <2>5. /\ Touched(f, forms[f], Server, shown, read', calls)
        /\ HeardOf(f, forms[f], Server, shown, read', calls)
    BY <2>1, <2>2, <2>3, <2>4, FormStays
  <2> QED BY <2>1, <2>5
<1>5. FormsOk(forms, Server, shown, read', calls)
  BY <1>4 DEF FormsOk
<1>6. Server' = Server
  BY DEF Server
<1> QED BY <1>1, <1>3, <1>5, <1>6 DEF Inv

(* The window is looked at again.                                          *)
LEMMA RefocusKeeps ==
  ASSUME Inv, Refocus
  PROVE  Inv'
<1>1. read' = [stage |-> "asked", got |-> Gone]
  BY DEF Refocus, ReadAgain
<1>2. read'.stage = "asked" /\ ~Answered(read')
  BY <1>1 DEF Answered
<1>3. /\ spent' \in [edits : Nat, saves : Nat, phone : Nat, reads : Nat, mishaps : Nat]
      /\ spent'.saves = spent.saves
  BY SpendIs DEF Inv, Refocus
<1> QED BY <1>2, <1>3, ReadChanges DEF Refocus

(* A read gets what the server has.                                        *)
LEMMA ServeReadKeeps ==
  ASSUME Inv, ServeRead
  PROVE  Inv'
<1>1. read' = [stage |-> "answered", got |-> Server]
  BY DEF ServeRead, Server
<1>2. read'.stage = "answered" /\ read'.got = Server
  BY <1>1
<1> QED BY <1>2, ReadChanges DEF ServeRead, Inv

(* What the phone or another tab writes.                                   *)
LEMMA PhoneSendsKeeps ==
  ASSUME Inv, NEW req \in PhoneRequests, PhoneSends(req)
  PROVE  Inv'
<1> DEFINE done == S!Served(stored, req)
           now == OnServer(stored')
<1>1. /\ IsStore(stored) /\ ReadsOk(Server, shown, read)
      /\ CallsOk(calls, forms, spent.saves) /\ PageOk(shown, failed, forms)
      /\ FormsOk(forms, Server, shown, read, calls)
  BY DEF Inv
<1>2. Follows(stored, done)
  BY <1>1, ServedIs, TripCorrectionsAssumption
<1>3. stored' = done.state /\ forms' = Meddled({}, TRUE) /\ UNCHANGED <<shown, failed, read, calls>>
  BY DEF PhoneSends
<1> HIDE DEF done
<1>4. IsStore(stored') /\ \A trip : Older(trip, Server) => Older(trip, now)
  BY <1>1, <1>2, <1>3, LaterIs DEF Server, Follows
<1> HIDE DEF now
<1>5. ReadsOk(now, shown, read)
  BY <1>1, <1>4 DEF ReadsOk
<1>6. DOMAIN forms' = DOMAIN forms
  BY <1>3 DEF Meddled
<1>7. ASSUME NEW f \in DOMAIN forms
      PROVE  /\ f \in FormKeys /\ IsForm(f, forms'[f]) /\ HasRow(shown, f)
             /\ Touched(f, forms'[f], now, shown, read, calls)
             /\ HeardOf(f, forms'[f], now, shown, read, calls)
  <2>1. /\ f \in FormKeys /\ IsForm(f, forms[f]) /\ HasRow(shown, f)
        /\ Touched(f, forms[f], Server, shown, read, calls)
        /\ HeardOf(f, forms[f], Server, shown, read, calls)
    BY <1>1 DEF FormsOk
  <2>2. /\ IsForm(f, forms'[f]) /\ AsBefore(forms'[f], forms[f])
        /\ forms'[f].alone => /\ forms[f].alone /\ now # Gone
                              /\ Original(now, f) = Original(Server, f)
        /\ forms'[f].heard => forms[f].heard
    <3>1. /\ IsForm(f, forms'[f]) /\ AsBefore(forms'[f], forms[f])
          /\ forms'[f].alone =>
               /\ forms[f].alone /\ now # Gone
               /\ f \in {} \/ Original(now, f) = Original(Server, f)
          /\ forms'[f].heard => forms[f].heard /\ (f \in {} => TRUE)
      <4>1. TRUE \in BOOLEAN
        OBVIOUS
      <4> QED BY <1>3, <2>1, <4>1, MeddledIs, Zenon DEF now
    <3> QED BY <3>1, Zenon
  <2>3. forms'[f].alone => /\ forms[f].alone /\ HasRow(now, f)
                           /\ Original(now, f) = Original(Server, f)
    BY <1>5, <2>1, <2>2 DEF ReadsOk, Older, HasRow
  <2>4. SameCalls(f, calls, calls)
    BY DEF SameCalls
  <2>5. /\ Touched(f, forms'[f], now, shown, read, calls)
        /\ HeardOf(f, forms'[f], now, shown, read, calls)
    BY <2>1, <2>2, <2>3, <2>4, FormStays DEF AsBefore
  <2> QED BY <2>1, <2>2, <2>5
<1>8. FormsOk(forms', now, shown, read, calls)
  BY <1>6, <1>7 DEF FormsOk
<1>9. /\ spent' \in [edits : Nat, saves : Nat, phone : Nat, reads : Nat, mishaps : Nat]
      /\ spent'.saves = spent.saves
  BY SpendIs DEF Inv, PhoneSends
<1>10. CallsOk(calls, forms', spent.saves) /\ PageOk(shown, failed, forms')
  BY <1>1, <1>6 DEF CallsOk, PageOk
<1>11. Server' = now
  BY DEF Server, now
<1> QED BY <1>3, <1>4, <1>5, <1>8, <1>9, <1>10, <1>11 DEF Inv

(* A save is answered.                                                     *)
LEMMA SaveAnsweredKeeps ==
  ASSUME Inv, NEW i \in DOMAIN calls, SaveAnswered(i)
  PROVE  Inv'
<1> DEFINE form == calls[i].form
<1>1. /\ IsStore(stored) /\ ReadsOk(Server, shown, read)
      /\ CallsOk(calls, forms, spent.saves) /\ PageOk(shown, failed, forms)
      /\ FormsOk(forms, Server, shown, read, calls)
      /\ spent \in [edits : Nat, saves : Nat, phone : Nat, reads : Nat, mishaps : Nat]
  BY DEF Inv
<1>2. UNCHANGED <<stored, shown, failed, spent>> /\ Server' = Server
  BY DEF SaveAnswered, Server
<1>3. CASE calls[i].got = Delivered
  <2>1. /\ calls' = [calls EXCEPT ![i].stage = "reloading"]
        /\ read' = [stage |-> "asked", got |-> Gone] /\ forms' = forms
    BY <1>3 DEF SaveAnswered, ReadAgain
  <2>2. read'.stage = "asked" /\ ~Answered(read')
    BY <2>1 DEF Answered
  <2>3. DOMAIN calls' = DOMAIN calls /\ \A j \in DOMAIN calls : j # i => calls'[j] = calls[j]
    BY <2>1
  <2>4. calls'[i] = [form |-> calls[i].form, watched |-> calls[i].watched,
                     got |-> calls[i].got, stage |-> "reloading", req |-> calls[i].req]
    <3>1. calls'[i] = [calls[i] EXCEPT !.stage = "reloading"]
      BY <2>1
    <3> QED BY <1>1, <3>1 DEF CallsOk, IsCall
  <2>5. /\ calls'[i].form = calls[i].form /\ calls'[i].watched = calls[i].watched
        /\ calls'[i].got = calls[i].got /\ calls'[i].req = calls[i].req
        /\ calls'[i].stage = "reloading"
    BY <2>4
  <2>6. IsCall(calls'[i])
    BY <1>1, <1>3, <2>4, <2>5 DEF CallsOk, IsCall
  <2>7. \A j, f : Mine(calls', j, f) <=> Mine(calls, j, f)
    BY <2>3, <2>5 DEF Mine
  <2>8. CallsOk(calls', forms, spent.saves)
    BY <1>1, <2>3, <2>5, <2>6, <2>7 DEF CallsOk
  <2>9. \A j, f : Mine(calls, j, f) =>
          calls'[j].got = calls[j].got /\ calls'[j].req = calls[j].req
    BY <2>3, <2>5 DEF Mine
  <2>10. FormsOk(forms, Server, shown, read', calls')
    BY <1>1, <2>2, <2>7, <2>9, ReloadingIs DEF FormsOk
  <2>11. ReadsOk(Server, shown, read')
    BY <1>1, <2>2 DEF ReadsOk
  <2> QED BY <1>1, <1>2, <2>1, <2>8, <2>10, <2>11 DEF Inv
<1>4. CASE calls[i].got # Delivered
  <2>1. /\ calls' = [j \in DOMAIN calls \ {i} |-> calls[j]]
        /\ forms' = IF calls[i].watched THEN [forms EXCEPT ![form].status = "error"] ELSE forms
        /\ read' = read
    BY <1>4 DEF SaveAnswered
  <2>2. \A j, f : Mine(calls', j, f) <=> Mine(calls, j, f) /\ j # i
    BY <2>1 DEF Mine
  <2>3. \A f : ~Mine(calls, i, f) => SameCalls(f, calls, calls')
    BY <2>1, <2>2 DEF SameCalls, Mine
  <2>4. DOMAIN forms' = DOMAIN forms
    BY <2>1
  <2>5. CallsOk(calls', forms', spent.saves)
    <3>1. \A j \in DOMAIN calls' : j \in DOMAIN calls /\ calls'[j] = calls[j]
      BY <2>1
    <3> QED BY <1>1, <2>2, <2>4, <3>1 DEF CallsOk
  <2>6. ASSUME NEW f \in DOMAIN forms
        PROVE  /\ f \in FormKeys /\ IsForm(f, forms'[f]) /\ HasRow(shown, f)
               /\ Touched(f, forms'[f], Server, shown, read, calls')
               /\ HeardOf(f, forms'[f], Server, shown, read, calls')
    <3>1. CASE ~Mine(calls, i, f)
      <4>1. forms'[f] = forms[f]
        BY <2>1, <3>1 DEF Mine
      <4> QED BY <1>1, <2>3, <3>1, <4>1, OthersStay
    <3>2. CASE Mine(calls, i, f)
      <4>1. /\ f \in FormKeys /\ IsForm(f, forms[f]) /\ HasRow(shown, f)
            /\ Touched(f, forms[f], Server, shown, read, calls)
            /\ HeardOf(f, forms[f], Server, shown, read, calls)
        BY <1>1 DEF FormsOk
      <4>2. forms'[f] = [draft |-> forms[f].draft, typed |-> forms[f].typed,
                         since |-> forms[f].since, status |-> "error",
                         alone |-> forms[f].alone, heard |-> forms[f].heard]
        <5>1. forms'[f] = [forms[f] EXCEPT !.status = "error"]
          BY <2>1, <3>2 DEF Mine
        <5> QED BY <4>1, <5>1 DEF IsForm
      <4>3. /\ forms'[f].draft = forms[f].draft /\ forms'[f].typed = forms[f].typed
            /\ forms'[f].since = forms[f].since /\ forms'[f].alone = forms[f].alone
            /\ forms'[f].heard = forms[f].heard /\ forms'[f].status = "error"
        BY <4>2
      <4>4. IsForm(f, forms'[f])
        BY <4>1, <4>2 DEF IsForm
      <4>5. \A j : Mine(calls, j, f) => j = i
        BY <1>1, <3>2 DEF CallsOk
      <4>6. \A j : ~Mine(calls', j, f)
        BY <2>2, <4>5
      <4>7. \A j : Mine(calls, j, f) => calls[j].got # Delivered
        BY <1>4, <4>5
      <4>8. /\ Touched(f, forms'[f], Server, shown, read, calls')
            /\ HeardOf(f, forms'[f], Server, shown, read, calls')
        BY <4>1, <4>3, <4>6, <4>7, OverIs
      <4> QED BY <4>1, <4>4, <4>8
    <3> QED BY <3>1, <3>2
  <2>7. FormsOk(forms', Server, shown, read, calls')
    BY <2>4, <2>6 DEF FormsOk
  <2>8. PageOk(shown, failed, forms')
    BY <1>1, <2>4 DEF PageOk
  <2> QED BY <1>1, <1>2, <2>1, <2>5, <2>7, <2>8 DEF Inv
<1> QED BY <1>3, <1>4

-----------------------------------------------------------------------------
(* What was read is shown. *)

(* The saves that do not wait for a read.                                  *)
LEMMA UnsavedIs ==
  ASSUME NEW most, CallsOk(calls, forms, most)
  PROVE  /\ \A i, f : Mine(Unsaved, i, f) <=> Mine(calls, i, f) /\ calls[i].stage = "sent"
         /\ \A i, f : Mine(Unsaved, i, f) => Unsaved[i] = calls[i]
         /\ \A fs : DOMAIN forms \subseteq DOMAIN fs => CallsOk(Unsaved, fs, most)
<1>1. /\ \A i : i \in DOMAIN Unsaved <=> i \in DOMAIN calls /\ calls[i].stage = "sent"
      /\ \A i \in DOMAIN Unsaved : Unsaved[i] = calls[i]
  BY DEF Unsaved
<1>2. \A i, f : Mine(Unsaved, i, f) <=> Mine(calls, i, f) /\ calls[i].stage = "sent"
  BY <1>1 DEF Mine
<1>3. \A i, f : Mine(Unsaved, i, f) => Unsaved[i] = calls[i]
  BY <1>1 DEF Mine
<1>4. ASSUME NEW fs, DOMAIN forms \subseteq DOMAIN fs
      PROVE  CallsOk(Unsaved, fs, most)
  BY <1>1, <1>2, <1>4 DEF CallsOk
<1> QED BY <1>2, <1>3, <1>4

(* Nobody waits for the others when the forms are gone.                    *)
LEMMA DetachedIs ==
  ASSUME NEW most, CallsOk(calls, forms, most), NEW fs
  PROVE  CallsOk(Detached, fs, most)
<1>1. DOMAIN Detached \subseteq DOMAIN calls
  BY DEF Detached, Unsaved
<1>2. ASSUME NEW i \in DOMAIN Detached
      PROVE  Detached[i] = [form |-> calls[i].form, watched |-> FALSE, got |-> calls[i].got,
                            stage |-> calls[i].stage, req |-> calls[i].req]
  <2>1. Unsaved[i] = calls[i] /\ i \in DOMAIN Unsaved
    BY DEF Detached, Unsaved
  <2>2. Detached[i] = [calls[i] EXCEPT !.watched = FALSE]
    BY <2>1 DEF Detached
  <2> QED BY <1>1, <2>2 DEF CallsOk, IsCall
<1>3. ASSUME NEW i \in DOMAIN Detached
      PROVE  IsCall(Detached[i]) /\ Detached[i].watched = FALSE
  <2>1. /\ Detached[i].form = calls[i].form /\ Detached[i].watched = FALSE
        /\ Detached[i].got = calls[i].got /\ Detached[i].stage = calls[i].stage
        /\ Detached[i].req = calls[i].req
    BY <1>2
  <2>2. IsCall(calls[i])
    BY <1>1 DEF CallsOk
  <2>3. Detached[i] = [form |-> Detached[i].form, watched |-> Detached[i].watched,
                       got |-> Detached[i].got, stage |-> Detached[i].stage,
                       req |-> Detached[i].req]
    BY <1>2
  <2> HIDE DEF Detached
  <2>4. IsCall(Detached[i])
    BY <2>1, <2>2, <2>3 DEF IsCall
  <2> QED BY <2>1, <2>4
<1> QED BY <1>1, <1>3 DEF CallsOk, Mine

(* The page without the trip.                                              *)
LEMMA PageGoes ==
  ASSUME Inv, read' = Idle, forms' = << >>, calls' = Detached, UNCHANGED stored,
         shown' = Gone \/ (shown' = shown /\ failed'),
         spent' \in [edits : Nat, saves : Nat, phone : Nat, reads : Nat, mishaps : Nat],
         spent'.saves = spent.saves
  PROVE  Inv'
<1>1. /\ IsStore(stored) /\ ReadsOk(Server, shown, read) /\ CallsOk(calls, forms, spent.saves)
  BY DEF Inv
<1>2. DOMAIN forms' = {}
  OBVIOUS
<1>3. read'.stage = "idle" /\ ~Answered(read')
  BY DEF Idle, Answered
<1>4. Server' = Server
  BY DEF Server
<1>5. ReadsOk(Server, shown', read')
  BY <1>1, <1>3 DEF ReadsOk, Older
<1>6. CallsOk(calls', forms', spent.saves)
  BY <1>1, DetachedIs
<1>7. FormsOk(forms', Server', shown', read', calls') /\ PageOk(shown', failed', forms')
  BY <1>2 DEF FormsOk, PageOk
<1> QED BY <1>1, <1>4, <1>5, <1>6, <1>7 DEF Inv

(* A read fails: the forms are gone.                                       *)
LEMMA ReadFailedKeeps ==
  ASSUME Inv, ReadFailed
  PROVE  Inv'
<1>1. /\ spent' \in [edits : Nat, saves : Nat, phone : Nat, reads : Nat, mishaps : Nat]
      /\ spent'.saves = spent.saves
  BY SpendIs DEF Inv, ReadFailed
<1> QED BY <1>1, PageGoes DEF ReadFailed

(* A form whose save waited for the read says that it is saved.            *)
LEMMA ToldIs ==
  ASSUME NEW f \in DOMAIN forms, IsForm(f, forms[f]), forms' = Told(DOMAIN forms)
  PROVE  /\ IsForm(f, forms'[f])
         /\ forms'[f].draft = forms[f].draft /\ forms'[f].typed = forms[f].typed
         /\ forms'[f].since = forms[f].since /\ forms'[f].alone = forms[f].alone
         /\ forms'[f].heard = forms[f].heard
         /\ \/ forms'[f].status = forms[f].status
            \/ \E i : Mine(calls, i, f) /\ calls[i].stage = "reloading"
<1>1. CASE Waiting(f)
  <2>1. forms'[f] = [forms[f] EXCEPT !.status = "saved"]
    BY <1>1 DEF Told
  <2>2. forms'[f] = [draft |-> forms[f].draft, typed |-> forms[f].typed,
                     since |-> forms[f].since, status |-> "saved",
                     alone |-> forms[f].alone, heard |-> forms[f].heard]
    BY <2>1 DEF IsForm
  <2>3. \E i : Mine(calls, i, f) /\ calls[i].stage = "reloading"
    BY <1>1 DEF Waiting, Mine
  <2> QED BY <2>2, <2>3 DEF IsForm
<1>2. CASE ~Waiting(f)
  <2>1. forms'[f] = forms[f]
    BY <1>2 DEF Told
  <2> QED BY <2>1
<1> QED BY <1>1, <1>2

(* The page takes up what was read.                                        *)
LEMMA ReadOkKeeps ==
  ASSUME Inv, ReadOk
  PROVE  Inv'
<1>1. /\ IsStore(stored) /\ ReadsOk(Server, shown, read)
      /\ CallsOk(calls, forms, spent.saves) /\ PageOk(shown, failed, forms)
      /\ FormsOk(forms, Server, shown, read, calls)
      /\ spent \in [edits : Nat, saves : Nat, phone : Nat, reads : Nat, mishaps : Nat]
  BY DEF Inv
<1>2. /\ read.stage = "answered" /\ read' = Idle /\ shown' = read.got /\ ~failed'
      /\ UNCHANGED <<stored, spent>>
  BY DEF ReadOk
<1>3. read'.stage = "idle" /\ ~Answered(read')
  BY <1>2 DEF Idle, Answered
<1>4. Server' = Server
  BY <1>2 DEF Server
<1>5. CASE read.got = Gone
  <2>1. forms' = << >> /\ calls' = Detached
    BY <1>5 DEF ReadOk
  <2> QED BY <1>1, <1>2, <1>5, <2>1, PageGoes
<1>6. CASE read.got # Gone
  <2>1. Answered(read)
    BY <1>2, <1>6 DEF Answered
  <2>2. /\ IsRow(read.got) /\ Older(shown, read.got) /\ Older(read.got, Server)
    BY <1>1, <2>1 DEF ReadsOk
  <2>3. ReadsOk(Server, read.got, read')
    BY <1>3, <2>2 DEF ReadsOk
  <2>4. /\ \A i, f : Mine(Unsaved, i, f) <=> Mine(calls, i, f) /\ calls[i].stage = "sent"
        /\ \A i, f : Mine(Unsaved, i, f) => Unsaved[i] = calls[i]
        /\ \A fs : DOMAIN forms \subseteq DOMAIN fs => CallsOk(Unsaved, fs, spent.saves)
    BY <1>1, UnsavedIs
  <2>5. calls' = Unsaved
    BY <1>6 DEF ReadOk
  <2>6. CASE TripForm \in DOMAIN forms
    <3>1. forms' = Told(DOMAIN forms)
      BY <1>6, <2>6 DEF ReadOk
    <3>2. DOMAIN forms' = DOMAIN forms
      BY <3>1 DEF Told
    <3>3. ASSUME NEW f \in DOMAIN forms
          PROVE  /\ f \in FormKeys /\ IsForm(f, forms'[f]) /\ HasRow(read.got, f)
                 /\ Touched(f, forms'[f], Server, read.got, read', calls')
                 /\ HeardOf(f, forms'[f], Server, read.got, read', calls')
      <4>1. /\ f \in FormKeys /\ IsForm(f, forms[f]) /\ HasRow(shown, f)
            /\ Touched(f, forms[f], Server, shown, read, calls)
            /\ HeardOf(f, forms[f], Server, shown, read, calls)
        BY <1>1 DEF FormsOk
      <4>2. HasRow(read.got, f)
        BY <1>6, <2>2, <4>1 DEF HasRow, Older
      <4>3. /\ IsForm(f, forms'[f])
            /\ forms'[f].draft = forms[f].draft /\ forms'[f].typed = forms[f].typed
            /\ forms'[f].since = forms[f].since /\ forms'[f].alone = forms[f].alone
            /\ forms'[f].heard = forms[f].heard
            /\ \/ forms'[f].status = forms[f].status
               \/ \E i : Mine(calls, i, f) /\ calls[i].stage = "reloading"
        BY <3>1, <4>1, ToldIs
      <4>4. /\ \A i, j : Mine(calls, i, f) /\ Mine(calls, j, f) => i = j
            /\ \A i : Mine(calls, i, f) => IsCall(calls[i])
        BY <1>1 DEF CallsOk, Mine
      <4>5. /\ \A i : Mine(calls', i, f) <=> Mine(calls, i, f) /\ calls[i].stage = "sent"
            /\ \A i : Mine(calls', i, f) => calls'[i] = calls[i]
        BY <2>4, <2>5
      <4>6. /\ Touched(f, forms'[f], Server, read.got, read', calls')
            /\ HeardOf(f, forms'[f], Server, read.got, read', calls')
        BY <1>3, <2>1, <4>1, <4>3, <4>4, <4>5, ReadIs
      <4> QED BY <4>1, <4>2, <4>3, <4>6
    <3>4. FormsOk(forms', Server, read.got, read', calls')
      BY <3>2, <3>3 DEF FormsOk
    <3>5. CallsOk(calls', forms', spent.saves)
      BY <2>4, <2>5, <3>2
    <3>6. PageOk(shown', failed', forms')
      BY <1>2, <2>6, <3>2 DEF PageOk
    <3> QED BY <1>1, <1>2, <1>4, <2>3, <3>4, <3>5, <3>6 DEF Inv
  <2>7. CASE TripForm \notin DOMAIN forms
    <3>1. DOMAIN forms = {}
      BY <1>1, <2>7 DEF PageOk, FormsOk, HasRow
    <3>2. forms' = [f \in {TripForm} |-> NewForm(read.got, f)]
      BY <1>6, <2>7 DEF ReadOk
    <3>3. DOMAIN forms' = {TripForm} /\ forms'[TripForm] = NewForm(read.got, TripForm)
      BY <3>2
    <3>4. TripForm \in FormKeys /\ HasRow(read.got, TripForm)
      BY <1>6 DEF FormKeys, HasRow
    <3>5. \A i : ~Mine(calls', i, TripForm)
      BY <1>1, <2>4, <2>5, <2>7 DEF CallsOk, Mine
    <3>6. /\ IsForm(TripForm, NewForm(read.got, TripForm))
          /\ Touched(TripForm, NewForm(read.got, TripForm), Server, read.got, read', calls')
          /\ HeardOf(TripForm, NewForm(read.got, TripForm), Server, read.got, read', calls')
      BY <1>1, <1>3, <2>2, <3>4, <3>5, NewFormIs
    <3>7. FormsOk(forms', Server, read.got, read', calls')
      BY <3>3, <3>4, <3>6 DEF FormsOk
    <3>8. CallsOk(calls', forms', spent.saves)
      BY <2>4, <2>5, <3>1
    <3>9. PageOk(shown', failed', forms')
      BY <1>2, <3>3 DEF PageOk
    <3> QED BY <1>1, <1>2, <1>4, <2>3, <3>7, <3>8, <3>9 DEF Inv
  <2> QED BY <2>6, <2>7
<1> QED BY <1>5, <1>6

-----------------------------------------------------------------------------
(* The invariant holds. *)

(* Every step keeps the invariant.                                         *)
LEMMA InvKept ==
  Inv /\ [Next]_vars => Inv'
<1> SUFFICES ASSUME Inv, [Next]_vars PROVE Inv'
  OBVIOUS
<1>1. ASSUME NEW f \in Legs \X {1, 2}, Open(f) \/ Close(f)
      PROVE  Inv'
  BY <1>1, OpenKeeps, CloseKeeps
<1>2. ASSUME NEW f \in DOMAIN forms, NEW x \in TimesOf(f), NEW input \in TypedTimes,
             Type(f, x, input)
      PROVE  Inv'
  <2>1. x \in FieldsOf(f)
    BY FieldsAre DEF Inv, FormsOk
  <2> QED BY <1>2, <2>1, TypeKeeps
<1>3. ASSUME NEW f \in DOMAIN forms, NEW x \in FieldsOf(f) \ TimesOf(f),
             NEW r \in TypedResults, Type(f, x, r)
      PROVE  Inv'
  BY <1>3, TypeKeeps
<1>4. ASSUME NEW f \in DOMAIN forms, Submit(f) PROVE Inv'
  BY <1>4, SubmitKeeps
<1>5. ASSUME NEW i \in DOMAIN calls, ServeSave(i) \/ LoseSave(i) \/ SaveAnswered(i)
      PROVE  Inv'
  BY <1>5, ServeSaveKeeps, LoseSaveKeeps, SaveAnsweredKeeps
<1>6. CASE Refocus \/ ServeRead \/ ReadOk \/ ReadFailed
  BY <1>6, RefocusKeeps, ServeReadKeeps, ReadOkKeeps, ReadFailedKeeps
<1>7. ASSUME NEW req \in PhoneRequests, PhoneSends(req) PROVE Inv'
  BY <1>7, PhoneSendsKeeps
<1>8. CASE UNCHANGED vars
  <2>1. UNCHANGED <<stored, shown, failed, read, forms, calls, spent>>
    BY <1>8 DEF vars
  <2>2. Server' = Server
    BY <2>1 DEF Server
  <2> QED BY <2>1, <2>2 DEF Inv
<1> QED BY <1>1, <1>2, <1>3, <1>4, <1>5, <1>6, <1>7, <1>8 DEF Next

(* It holds throughout.                                                    *)
LEMMA InvHolds ==
  Spec => []Inv
BY InvStarts, InvKept, PTL DEF Spec

-----------------------------------------------------------------------------
(* What the save of a form changes.                                        *)

(* What is written into a field of the form differs in the second.         *)
LEMMA WrittenIs ==
  ASSUME Inv, NEW f \in DOMAIN forms, forms[f].alone,
         NEW i, Mine(calls, i, f), calls[i].got = Idle,
         NEW now, Becomes(f, calls[i].req.body, Server, now),
         NEW x \in FieldsOf(f), Original(now, f)[x] # Original(Server, f)[x]
  PROVE  /\ x \in forms[f].typed
         /\ x \in TimesOf(f) =>
              IsoToKstInput(Original(now, f)[x]) # IsoToKstInput(Original(Server, f)[x])
<1> DEFINE body == calls[i].req.body
           was == Original(Server, f)[x]
<1>1. body[x] # Nil /\ Original(now, f)[x] = body[x]
  BY DEF Becomes
<1>2. Sent(f, forms[f], Server, calls)
  BY DEF Inv, FormsOk, Touched
<1>3. /\ x \in forms[f].typed
      /\ x \in TimesOf(f) => Whole(was) \/ IsoToKstInput(body[x]) # IsoToKstInput(was)
  BY <1>1, <1>2 DEF Sent
<1>4. ASSUME x \in TimesOf(f), Whole(was)
      PROVE  IsoToKstInput(body[x]) # IsoToKstInput(was)
  <2>1. Whole(body[x])
    BY <1>4 DEF Inv, CallsOk, IsCall, Mine
  <2>2. PICK n \in Nat : body[x] = 2 * n
    BY <1>1, <2>1 DEF Whole
  <2>3. IsoToKstInput(body[x]) = n
    BY <2>2, CutBack
  <2>4. CASE was = Nil
    BY <2>3, <2>4 DEF IsoToKstInput, Blank
  <2>5. CASE was # Nil
    <3>1. PICK m \in Nat : was = 2 * m
      BY <1>4, <2>5 DEF Whole
    <3>2. IsoToKstInput(was) = m
      BY <3>1, CutBack
    <3> QED BY <1>1, <2>2, <2>3, <3>1, <3>2
  <2> QED BY <2>4, <2>5
<1> QED BY <1>1, <1>3, <1>4

(* A step that changes what the server has of a form.                      *)
OnlyTyped(f, form, now, now2) ==
  \A x \in FieldsOf(f) :
    Original(now2, f)[x] # Original(now, f)[x] =>
      /\ x \in form.typed
      /\ x \in TimesOf(f) =>
           IsoToKstInput(Original(now2, f)[x]) # IsoToKstInput(Original(now, f)[x])

(* Every step of the page, the server and the phone.                       *)
LEMMA StepChanges ==
  ASSUME Inv, [Next]_vars, NEW f \in DOMAIN forms, f \in DOMAIN forms',
         forms[f].alone, forms'[f].alone
  PROVE  OnlyTyped(f, forms[f], Server, Server')
<1>1. IsForm(f, forms[f])
  BY DEF Inv, FormsOk
<1>2. CASE Server' = Server
  BY <1>2 DEF OnlyTyped
<1>3. ASSUME NEW req \in PhoneRequests, PhoneSends(req)
      PROVE  OnlyTyped(f, forms[f], Server, Server')
  <2>1. PICK own : own = {} /\ forms' = Meddled(own, TRUE) /\ TRUE \in BOOLEAN
    BY <1>3, Zenon DEF PhoneSends
  <2>2. f \in own \/ Original(OnServer(stored'), f) = Original(Server, f)
    BY <1>1, <2>1, MeddledIs, Zenon
  <2> QED BY <2>1, <2>2 DEF OnlyTyped, Server
<1>4. ASSUME NEW i \in DOMAIN calls, ServeSave(i)
      PROVE  OnlyTyped(f, forms[f], Server, Server')
  <2> DEFINE own == IF calls[i].watched THEN {calls[i].form} ELSE {}
             done == S!Served(stored, calls[i].req)
  <2>1. calls[i].got = Idle /\ stored' = done.state
    BY <1>4 DEF ServeSave
  <2>2. PICK answered \in BOOLEAN : forms' = Meddled(own, answered)
    <3>1. forms' = Meddled(own, TRUE) \/ forms' = Meddled(own, done.outcome # Delivered)
      BY <1>4 DEF ServeSave
    <3>2. (done.outcome # Delivered) \in BOOLEAN /\ TRUE \in BOOLEAN
      OBVIOUS
    <3> HIDE DEF own, done
    <3> QED BY <3>1, <3>2, Zenon
  <2>3. f \in own \/ Original(Server', f) = Original(Server, f)
    BY <1>1, <2>2, MeddledIs, Zenon DEF Server
  <2>4. CASE f \in own
    <3>1. Mine(calls, i, f) /\ f = calls[i].form
      BY <2>4 DEF Mine
    <3>2. /\ Follows(stored, done)
          /\ Writes(stored, done, f, calls[i].req.body)
      BY <3>1, CallServed
    <3> HIDE DEF done
    <3>3. CASE done.outcome # Delivered
      <4>1. Server' = Server
        BY <2>1, <3>2, <3>3 DEF Follows, Server
      <4> QED BY <1>2, <4>1
    <3>4. CASE done.outcome = Delivered
      <4>1. Becomes(f, calls[i].req.body, Server, Server')
        BY <2>1, <3>2, <3>4 DEF Writes, Becomes, Server
      <4>2. \A x \in FieldsOf(f) :
              Original(Server', f)[x] # Original(Server, f)[x] =>
                /\ x \in forms[f].typed
                /\ x \in TimesOf(f) =>
                     IsoToKstInput(Original(Server', f)[x]) # IsoToKstInput(Original(Server, f)[x])
        BY <2>1, <3>1, <4>1, WrittenIs
      <4> QED BY <4>2 DEF OnlyTyped
    <3> QED BY <3>3, <3>4
  <2>5. CASE f \notin own
    BY <2>3, <2>5 DEF OnlyTyped
  <2> QED BY <2>4, <2>5
<1>5. CASE UNCHANGED stored
  BY <1>2, <1>5 DEF Server
<1>6. \/ UNCHANGED stored
      \/ \E i \in DOMAIN calls : ServeSave(i)
      \/ \E req \in PhoneRequests : PhoneSends(req)
  BY DEF Next, vars, Open, Close, Type, Submit, LoseSave, SaveAnswered, Refocus, ServeRead,
         ReadOk, ReadFailed
<1> QED BY <1>3, <1>4, <1>5, <1>6

-----------------------------------------------------------------------------
(* A save changes what was typed into its form and nothing else, and an    *)
(* instant only to another second, as long as nobody else has written what *)
(* the form shows: corrections.ts:11, 52.                                  *)
THEOREM OnlyTypedChangesHolds ==
  Spec => OnlyTypedChanges
<1>1. Inv /\ [Next]_vars =>
        [\A f \in DOMAIN forms \cap DOMAIN forms' :
           (forms[f].alone /\ forms'[f].alone) =>
             \A x \in FieldsOf(f) :
               LET was == Original(OnServer(stored), f)[x]
                   is == Original(OnServer(stored'), f)[x]
               IN  is # was =>
                     /\ x \in forms[f].typed
                     /\ x \in TimesOf(f) => IsoToKstInput(is) # IsoToKstInput(was)]_vars
  <2> SUFFICES ASSUME Inv, [Next]_vars, NEW f \in DOMAIN forms \cap DOMAIN forms',
                      forms[f].alone, forms'[f].alone
               PROVE  \A x \in FieldsOf(f) :
                        LET was == Original(OnServer(stored), f)[x]
                            is == Original(OnServer(stored'), f)[x]
                        IN  is # was =>
                              /\ x \in forms[f].typed
                              /\ x \in TimesOf(f) => IsoToKstInput(is) # IsoToKstInput(was)
    OBVIOUS
  <2>1. OnlyTyped(f, forms[f], Server, Server')
    BY StepChanges
  <2> QED BY <2>1 DEF OnlyTyped, Server
<1> QED BY <1>1, InvHolds, PTL DEF Spec, OnlyTypedChanges

(* While "saved" is shown, nothing was typed since, nobody else has        *)
(* written and no save of the form was stored without an answer, the form  *)
(* shows what the server has, and so does the page.                        *)
THEOREM SavedIsStoredHolds ==
  Spec => []SavedIsStored
<1>1. Inv => SavedIsStored
  <2> SUFFICES ASSUME Inv, NEW f \in DOMAIN forms,
                      forms[f].status = "saved", forms[f].since = {},
                      forms[f].alone, forms[f].heard
               PROVE  /\ forms[f].draft = DraftOf(OnServer(stored), f)
                      /\ forms[f].draft = DraftOf(shown, f)
    BY DEF SavedIsStored
  <2>1. /\ IsForm(f, forms[f])
        /\ HeardOf(f, forms[f], Server, shown, read, calls)
    BY DEF Inv, FormsOk
  <2>2. /\ UpToDate(f, Server, shown, read, calls)
        /\ SavedShows(f, forms[f], Server, calls)
    BY <2>1 DEF HeardOf
  <2>3. Shows(f, forms[f], Server) /\ \A i : ~Mine(calls, i, f)
    BY <2>2 DEF SavedShows
  <2>4. SameFor(f, shown, Server)
    BY <2>2, <2>3 DEF UpToDate
  <2>5. forms[f].draft = [x \in FieldsOf(f) |-> forms[f].draft[x]]
    BY <2>1 DEF IsForm, IsDraft
  <2>6. \A x \in FieldsOf(f) : /\ forms[f].draft[x] = Cut(f, x, Original(Server, f)[x])
                               /\ forms[f].draft[x] = Cut(f, x, Original(shown, f)[x])
    BY <2>3, <2>4 DEF Shows, SameFor
  <2>7. \A trip : DraftOf(trip, f) = [x \in FieldsOf(f) |-> Cut(f, x, Original(trip, f)[x])]
    BY DEF DraftOf, Cut
  <2> QED BY <2>5, <2>6, <2>7 DEF Server
<1> QED BY <1>1, InvHolds, PTL
=============================================================================
