--------------------------- MODULE TripCorrections ---------------------------
(***************************************************************************)
(* The page of one trip in the web client, where its times and its         *)
(* attempts are corrected (desktop/src/pages/TripDetailPage.tsx,           *)
(* TripTimesForm.tsx, AttemptForm.tsx, trips/corrections.ts, kst.ts),      *)
(* with the trip service (TripServer) and the phone that may still be      *)
(* recording the trip.                                                     *)
(*                                                                         *)
(* A form takes its values from the trip once, when it appears, and what   *)
(* it sends is their difference from the trip as the page has it then.     *)
(* Instants are counted in half seconds, what is typed in whole seconds.   *)
(* Result and notes are one field, as in TripServer.                       *)
(***************************************************************************)
EXTENDS TripViews, Outcomes

CONSTANTS
  Routes, Legs, RouteOf, Times, Dates, Nil, NoTrip, NextVehicle,  \* TripServer
  StoredTrips,    \* the trip as it may be when the page opens
  RouteVersions,  \* the legs of its route as the page may have them
  PhoneRequests,  \* what the phone, or another tab, still sends
  TypedTimes,     \* what is entered into a time: seconds, Blank or Malformed
  TypedResults,
  MaxEdits, MaxSaves, MaxPhone, MaxReads, MaxMishaps     \* bounds

VARIABLES
  stored,  \* the server (TripServer)
  shown,   \* the trip as the page has it, or Gone
  failed,  \* the page shows the error of its last read instead of the trip
  read,    \* the read of the trips under way, or Idle
  forms,   \* the forms on the page, by TripForm or (leg, attemptSeq)
  calls,   \* the saves under way, by number
  spent    \* the bounds used up

vars == <<stored, shown, failed, read, forms, calls, spent>>

S == INSTANCE TripServer WITH server <- stored, Points <- {}, TripIds <- {1},
                              Seqs <- {1, 2}, SentBodies <- {}

Blank == -1
Malformed == -2
Gone == [gone |-> TRUE]
Idle == [stage |-> "idle"]
Lost == [type |-> "lost"]
TripForm == <<"trip", 0>>

OnServer(s) == IF 1 \in S!Ids(s) THEN s.trips[1] ELSE Gone

-----------------------------------------------------------------------------
(* A trip as it is read, with whole times from 0 on.                       *)
Timed(values, fields) == \A x \in fields : values[x] \in Nat \cup {Nil}
IsAttempt(a) ==
  /\ a = [x \in S!AttemptFields |-> a[x]]
  /\ Timed(a, S!AttemptFields \ {"vehicleScheduledOrPredictedAt", "result"})
IsRow(trip) ==
  /\ trip = [route |-> trip.route, tripDate |-> trip.tripDate,
             fields |-> trip.fields, attempts |-> trip.attempts]
  /\ trip.fields \in [S!TripFields -> Nat \cup {Nil}]
  /\ DOMAIN trip.attempts \subseteq Legs \X {1, 2}
  /\ \A k \in DOMAIN trip.attempts : IsAttempt(trip.attempts[k])

(* What is sent of the trip.                                               *)
IsRequest(req) ==
  /\ req.tripId = 1
  /\ \/ req.type = "updateTrip" /\ req.body \in [S!TripFields -> Nat \cup {Nil}]
     \/ /\ req.type \in {"upsertAttempt", "updateAttempt"}
        /\ req.attempt \in Legs \X {1, 2} /\ IsAttempt(req.body)
     \/ req.type = "deleteTrip"

ASSUME TripCorrectionsAssumption ==
  /\ Nil \notin Int
  /\ TypedTimes \subseteq Nat \cup {Blank, Malformed}
  /\ Nil \notin TypedResults
  /\ \A trip \in StoredTrips : IsRow(trip)
  /\ \A req \in PhoneRequests : IsRequest(req)

-----------------------------------------------------------------------------
(* The forms (corrections.ts, kst.ts)                                      *)

(* A recorded instant is cut to the second, and what is typed is one.      *)
IsoToKstInput(at) == IF at = Nil THEN Blank ELSE at \div 2
KstInputToIso(input) == IF input \in {Blank, Malformed} THEN Nil ELSE 2 * input

TimesOf(f) ==
  IF f = TripForm THEN {"leftHomeAt", "arrivedDestinationAt"}
  ELSE {"vehicleActualDepartureAt", "alightedAt"}
FieldsOf(f) == IF f = TripForm THEN TimesOf(f) ELSE TimesOf(f) \cup {"result"}

Original(trip, f) == IF f = TripForm THEN trip.fields ELSE trip.attempts[f]

(* tripTimesForm, attemptForm                                              *)
DraftOf(trip, f) ==
  [x \in FieldsOf(f) |-> IF x \in TimesOf(f) THEN IsoToKstInput(Original(trip, f)[x])
                         ELSE Original(trip, f)[x]]

(* timeChange: an instant that is recorded cannot be cleared.              *)
TimeWrong(original, input) ==
  IF input = Blank THEN original # Nil ELSE KstInputToIso(input) = Nil

(* Faulty: the instant is compared, and what was cut off is a change.      *)
FaultyTimeChanged(original, input) ==
  input # Blank /\ KstInputToIso(input) # original
TimeChanged(original, input) ==
  input # Blank /\ KstInputToIso(input) # KstInputToIso(IsoToKstInput(original))

Wrong(trip, f, draft) ==
  \E x \in TimesOf(f) : TimeWrong(Original(trip, f)[x], draft[x])

(* tripPatch, attemptPatch: the fields to send, Nil for the others.        *)
Patch(trip, f, draft) ==
  [x \in DOMAIN Original(trip, f) |->
     IF x \in TimesOf(f) /\ TimeChanged(Original(trip, f)[x], draft[x])
       THEN KstInputToIso(draft[x])
     ELSE IF x \in FieldsOf(f) \ TimesOf(f) /\ draft[x] # Original(trip, f)[x]
       THEN draft[x]
     ELSE Nil]

IsEmptyPatch(patch) == \A x \in DOMAIN patch : patch[x] = Nil

(* A form with what was typed into it ("typed") and since the last submit  *)
(* ("since"), what its status line says, whether nobody else has written   *)
(* what it shows ("alone"), and whether every save of it that was stored   *)
(* has been answered ("heard").                                            *)
NewForm(trip, f) ==
  [draft |-> DraftOf(trip, f), typed |-> {}, since |-> {}, status |-> "none",
   alone |-> /\ OnServer(stored) # Gone
             /\ Original(OnServer(stored), f) = Original(trip, f)
             /\ read.stage = "answered" /\ read.got # Gone =>
                  Original(read.got, f) = Original(trip, f),
   heard |-> TRUE]

(* What becomes of "alone" and "heard" as the server changes, by a save of *)
(* "own" or by somebody else, and is answered or not.                      *)
Meddled(own, answered) ==
  [f \in DOMAIN forms |-> [forms[f] EXCEPT
     !.alone = /\ @
               /\ OnServer(stored') # Gone
               /\ f \in own \/ Original(OnServer(stored'), f) = Original(OnServer(stored), f),
     !.heard = @ /\ (f \in own => answered)]]

-----------------------------------------------------------------------------
Spend(what, most) == spent[what] < most /\ spent' = [spent EXCEPT ![what] = @ + 1]

Init ==
  /\ read = Idle
  /\ \E trip \in StoredTrips :
       /\ stored = [trips |-> [i \in {1} |-> trip], gps |-> << >>, lastId |-> 1]
       /\ shown = trip
       /\ forms = [f \in {TripForm} |-> NewForm(trip, f)]
  /\ failed = FALSE
  /\ calls = << >>
  /\ spent = [edits |-> 0, saves |-> 0, phone |-> 0, reads |-> 0, mishaps |-> 0]

Pending(f) == \E i \in DOMAIN calls : calls[i].form = f /\ calls[i].watched

(* The button of an attempt shows its form or takes it away, and what was  *)
(* typed with it.                                                          *)
Open(f) ==
  /\ shown # Gone /\ ~failed
  /\ f \in DOMAIN shown.attempts \ DOMAIN forms
  /\ Spend("edits", MaxEdits)
  /\ forms' = [g \in DOMAIN forms \cup {f} |->
                 IF g = f THEN NewForm(shown, f) ELSE forms[g]]
  /\ UNCHANGED <<stored, shown, failed, read, calls>>

(* What stays of the forms; nobody waits for the saves of the others.      *)
Keep(kept) ==
  /\ forms' = [g \in kept |-> forms[g]]
  /\ calls' = [i \in DOMAIN calls |->
                 [calls[i] EXCEPT !.watched = @ /\ calls[i].form \in kept]]

Close(f) ==
  /\ f \in DOMAIN forms \ {TripForm}
  /\ Keep(DOMAIN forms \ {f})
  /\ UNCHANGED <<stored, shown, failed, read, spent>>

Type(f, x, input) ==
  /\ input # forms[f].draft[x]
  /\ Spend("edits", MaxEdits)
  /\ forms' = [forms EXCEPT ![f].draft[x] = input, ![f].typed = @ \cup {x},
                            ![f].since = @ \cup {x}]
  /\ UNCHANGED <<stored, shown, failed, read, calls>>

Request(f, patch) ==
  IF f = TripForm THEN [type |-> "updateTrip", tripId |-> 1, body |-> patch]
  ELSE [type |-> "updateAttempt", tripId |-> 1, attempt |-> f, body |-> patch]

Submit(f) ==
  LET form == forms[f]
      patch == Patch(shown, f, form.draft)
      Says(status) == forms' = [forms EXCEPT ![f].status = status]
  IN
  /\ ~Pending(f)
  /\ \/ /\ Wrong(shown, f, form.draft)
        /\ Says("wrong")
        /\ UNCHANGED <<calls, spent>>
     \/ /\ ~Wrong(shown, f, form.draft) /\ IsEmptyPatch(patch)
        /\ Says("unchanged")
        /\ UNCHANGED <<calls, spent>>
     \/ /\ ~Wrong(shown, f, form.draft) /\ ~IsEmptyPatch(patch)
        /\ Spend("saves", MaxSaves)
        /\ forms' = [forms EXCEPT ![f].status = "none", ![f].since = {}]
        /\ calls' = [i \in DOMAIN calls \cup {spent'.saves} |->
                       IF i \in DOMAIN calls THEN calls[i]
                       ELSE [form |-> f, watched |-> TRUE, got |-> Idle,
                             stage |-> "sent", req |-> Request(f, patch)]]
  /\ UNCHANGED <<stored, shown, failed, read>>

-----------------------------------------------------------------------------
(* The requests: each arrives once, or never; its answer may be lost.      *)
ServeSave(i) ==
  LET done == S!Served(stored, calls[i].req)
      own == IF calls[i].watched THEN {calls[i].form} ELSE {}
  IN
  /\ calls[i].stage = "sent" /\ calls[i].got = Idle
  /\ stored' = done.state
  /\ \/ /\ calls' = [calls EXCEPT ![i].got = done.outcome]
        /\ forms' = Meddled(own, TRUE)
        /\ UNCHANGED spent
     \/ /\ calls' = [calls EXCEPT ![i].got = Lost]
        /\ forms' = Meddled(own, done.outcome # Delivered)
        /\ Spend("mishaps", MaxMishaps)
  /\ UNCHANGED <<shown, failed, read>>

LoseSave(i) ==
  /\ calls[i].stage = "sent" /\ calls[i].got = Idle
  /\ Spend("mishaps", MaxMishaps)
  /\ calls' = [calls EXCEPT ![i].got = Lost]
  /\ UNCHANGED <<stored, shown, failed, read, forms>>

(* Faulty: a read under way will do.                                       *)
FaultyReadAgain ==
  read' = IF read.stage # "idle" THEN read ELSE [stage |-> "asked", got |-> Gone]
(* invalidateTrips: a read under way is dropped and asked for again.       *)
ReadAgain == read' = [stage |-> "asked", got |-> Gone]

(* The answer.  A save that was accepted is not over before the trips have *)
(* been read again (onSuccess returns that promise).                       *)
SaveAnswered(i) ==
  LET f == calls[i].form IN
  /\ calls[i].stage = "sent" /\ calls[i].got # Idle
  /\ IF calls[i].got = Delivered
       THEN /\ calls' = [calls EXCEPT ![i].stage = "reloading"]
            /\ ReadAgain
            /\ UNCHANGED forms
       ELSE /\ calls' = [j \in DOMAIN calls \ {i} |-> calls[j]]
            /\ forms' = IF calls[i].watched
                          THEN [forms EXCEPT ![f].status = "error"] ELSE forms
            /\ UNCHANGED read
  /\ UNCHANGED <<stored, shown, failed, spent>>

(* The window is looked at again: what the page shows is read again.       *)
Refocus ==
  /\ read = Idle
  /\ Spend("reads", MaxReads)
  /\ ReadAgain
  /\ UNCHANGED <<stored, shown, failed, forms, calls>>

ServeRead ==
  /\ read.stage = "asked"
  /\ read' = [stage |-> "answered", got |-> OnServer(stored)]
  /\ UNCHANGED <<stored, shown, failed, forms, calls, spent>>

(* The saves that waited for this read are over.                           *)
Waiting(f) ==
  \E i \in DOMAIN calls :
    calls[i].stage = "reloading" /\ calls[i].form = f /\ calls[i].watched
Told(kept) ==
  [f \in kept |-> IF Waiting(f) THEN [forms[f] EXCEPT !.status = "saved"] ELSE forms[f]]
Unsaved == [i \in {j \in DOMAIN calls : calls[j].stage = "sent"} |-> calls[i]]
Detached == [i \in DOMAIN Unsaved |-> [Unsaved[i] EXCEPT !.watched = FALSE]]

(* TripLookup: the trip is shown, with new forms if there were none; or it *)
(* is not found, or not read, and the forms are gone.                      *)
ReadOk ==
  /\ read.stage = "answered"
  /\ read' = Idle
  /\ shown' = read.got
  /\ failed' = FALSE
  /\ IF read.got = Gone THEN forms' = << >> /\ calls' = Detached
     ELSE IF TripForm \in DOMAIN forms
       THEN forms' = Told(DOMAIN forms) /\ calls' = Unsaved
     ELSE /\ forms' = [f \in {TripForm} |-> NewForm(read.got, f)]
          /\ calls' = Unsaved
  /\ UNCHANGED <<stored, spent>>

ReadFailed ==
  /\ read # Idle
  /\ Spend("mishaps", MaxMishaps)
  /\ read' = Idle
  /\ failed' = TRUE
  /\ forms' = << >>
  /\ calls' = Detached
  /\ UNCHANGED <<stored, shown>>

(* The phone goes on recording, cancels the trip, or another tab corrects. *)
PhoneSends(req) ==
  /\ Spend("phone", MaxPhone)
  /\ stored' = S!Served(stored, req).state
  /\ stored' # stored
  /\ forms' = Meddled({}, TRUE)
  /\ UNCHANGED <<shown, failed, read, calls>>

Next ==
  \/ \E f \in Legs \X {1, 2} : Open(f) \/ Close(f)
  \/ \E f \in DOMAIN forms :
       \/ \E x \in TimesOf(f), input \in TypedTimes : Type(f, x, input)
       \/ \E x \in FieldsOf(f) \ TimesOf(f), r \in TypedResults : Type(f, x, r)
       \/ Submit(f)
  \/ \E i \in DOMAIN calls : ServeSave(i) \/ LoseSave(i) \/ SaveAnswered(i)
  \/ Refocus \/ ServeRead \/ ReadOk \/ ReadFailed
  \/ \E req \in PhoneRequests : PhoneSends(req)

Spec == Init /\ [][Next]_vars

-----------------------------------------------------------------------------
(* A save changes what was typed into its form and nothing else, and an    *)
(* instant only to another second: the part below the second that the      *)
(* phone recorded stays (corrections.ts:11, 52), whatever read, lost       *)
(* answer or save of another form comes between.  It takes that nobody     *)
(* else has written what the form shows since it appeared.                 *)
OnlyTypedChanges ==
  [][\A f \in DOMAIN forms \cap DOMAIN forms' :
       (forms[f].alone /\ forms'[f].alone) =>
         \A x \in FieldsOf(f) :
           LET was == Original(OnServer(stored), f)[x]
               is == Original(OnServer(stored'), f)[x]
           IN  is # was =>
                 /\ x \in forms[f].typed
                 /\ x \in TimesOf(f) => IsoToKstInput(is) # IsoToKstInput(was)]_vars

(* While "saved" is shown, and nothing was typed since and nobody else has *)
(* written, the form holds what the server has, and so does the page.  It  *)
(* takes that no save of it was stored without an answer: what is typed    *)
(* after that is compared with the trip as it was before.                  *)
SavedIsStored ==
  \A f \in DOMAIN forms :
    /\ forms[f].status = "saved" /\ forms[f].since = {}
    /\ forms[f].alone /\ forms[f].heard
    =>
      /\ forms[f].draft = DraftOf(OnServer(stored), f)
      /\ forms[f].draft = DraftOf(shown, f)

(* The timeline, the numbers and the ticket tell the same trip, also one   *)
(* whose legs the page does not have, or not all of them (timeline.ts:49,  *)
(* ticket.ts:139): no attempt is left out or told twice.                   *)
OneStory ==
  shown # Gone => \A route \in RouteVersions :
    LET IsTold(e) == e.kind \in {"MISSED", "DEPARTED", "UNKNOWN"}
        IsMissed(e) == e.kind = "MISSED"
        IsTransit(s) == s.kind = "transit"
        events == BuildTimeline(shown, route)
        told == SelectSeq(events, IsTold)
        segments == SelectSeq(TicketSegments(shown, route), IsTransit)
        summary == SummarizeTrip(shown, route)
        Legged(e) == e.kind \in {"ARRIVED_STOP", "NO_ATTEMPT"}
        heads == SelectSeq(events, Legged)
    IN /\ Len(told) = Cardinality(DOMAIN shown.attempts)
       /\ {<<e.leg, e.seq>> : e \in ToSet(told)} = DOMAIN shown.attempts
       /\ [i \in DOMAIN heads |-> heads[i].leg] = [i \in DOMAIN segments |-> segments[i].leg]
       /\ \A i \in DOMAIN heads :
            heads[i].kind = "NO_ATTEMPT" <=> segments[i].status = "none"
       /\ summary.transitLegs = Len(segments)
       /\ summary.caughtLegs =
            Cardinality({i \in DOMAIN segments : segments[i].status = "caught"})
       /\ summary.allCaught <=>
            segments # << >> /\ \A s \in ToSet(segments) : s.status = "caught"
       /\ summary.missed = Len(SelectSeq(told, IsMissed))
       /\ Len(FlattenSeq([i \in DOMAIN segments |-> segments[i].missed])) = summary.missed

-----------------------------------------------------------------------------
(* What the source says, and does not keep while the phone still records.  *)

(* "그래서 바뀐 필드만 보내고" (corrections.ts:11): a field the user has not      *)
(* touched is sent, and so takes back what the phone has written since the *)
(* form appeared, because the form's value differs from the trip's.        *)
OnlyTouchedSent ==
  \A i \in DOMAIN calls :
    calls[i].watched =>
      \A x \in DOMAIN calls[i].req.body :
        calls[i].req.body[x] # Nil => x \in forms[calls[i].form].typed

(* "시각 칸 하나: 바뀌지 않았으면 undefined" (corrections.ts:40): what has not    *)
(* changed is told from the trip as the page has it.  After a save that    *)
(* was stored without an answer, typing the old value again is no change,  *)
(* is not sent, and "saved" is shown beside what the server does not have. *)
SavedDespiteLostAnswers ==
  \A f \in DOMAIN forms :
    forms[f].status = "saved" /\ forms[f].since = {} /\ forms[f].alone =>
      forms[f].draft = DraftOf(OnServer(stored), f)
=============================================================================
