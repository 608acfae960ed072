---------------------------- MODULE OutboxSystem ----------------------------
(***************************************************************************)
(* The phone's recording side and the server it writes to: recording       *)
(* session, outbox, outbox driver, network and trip service.               *)
(*                                                                         *)
(* RecordingSession and OutboxDriver run on one main actor.  turn says     *)
(* what it is in the middle of: "persist" between the effects of an event  *)
(* and the saving of the recorder (RecordingSession.handle), "loop"        *)
(* between the result of a request and the next one (OutboxDriver.drain),  *)
(* "ending" between the end of that loop and the setting of the timer;     *)
(* "free" lets any handler run.  A crash may come between any two saves.   *)
(*                                                                         *)
(* The recorder is reduced to the commands it issues and the order it      *)
(* issues them in.  clock counts them and is the only clock: command n is  *)
(* issued at instant n, and n is the value it sets.                        *)
(***************************************************************************)
EXTENDS Outbox, Functions

CONSTANTS
  Routes, Legs, RouteOf, NextVehicle, \* as in TripServer
  NoTrip,          \* no trip being recorded; tripId of GPS outside a trip
  NoCall, NoAnswer,
  Script,          \* <<attempt, field>> in the order a trip brings them
  MaxClock,        \* commands of a behaviour (bound)
  MaxTrips,        \* trips of a behaviour (bound)
  MaxCrashes,      \* crashes of a behaviour (bound)
  MaxLate,         \* requests that arrive after their timeout (bound)
  CrashInEvent,    \* may the app die between the saves of one event
  ClockMoves,      \* may a retry fall due between two looks at the clock
  OtherAnswers,    \* answers beside the server's own and Transient
  Tokens           \* whether a token is there at the first launch

VARIABLES
  server,     \* the trip service
  trip,       \* the trip being recorded, with how far it is
  savedTrip,  \* its copy in the recorder's file
  turn,       \* what the main actor is in the middle of
  client,     \* whether there is a server address and token
  drain,      \* drainTask: "none", "running" or "awaiting" a request
  wake,       \* whether wakeTask sleeps
  call,       \* the request being awaited
  late,       \* requests given up by the phone, still under way
  crashes,
  diary,      \* history: every command that sets a field
  cancelled,  \* history: trips the user cancelled
  reviewed,   \* history: dead letters the user has seen and cleared
  removed,    \* history: trips the server deleted
  overtaken   \* history: records a request given up took back when it arrived

recorderVars == <<trip, savedTrip>>
driverVars == <<client, drain, wake, call>>
historyVars == <<diary, cancelled, reviewed>>
serverVars == <<server, removed, overtaken>>
vars == <<box, saved, serverVars, recorderVars, turn, driverVars, late,
          crashes, historyVars>>

Times == 1..MaxClock
Today == 1

S == INSTANCE TripServer WITH
       Dates <- {Today}, TripIds <- Times, Seqs <- {k[2] : k \in Attempts},
       SentBodies <- {}

ASSUME OutboxSystemAssumption ==
  /\ Keys = Routes \X Times
  /\ Values = Times
  /\ Points = Times
  /\ Nil \notin Int
  /\ NoTrip \notin Nat
  /\ Attempts \subseteq Legs \X (Nat \ {0})
  /\ RouteOf \in [Legs -> Routes]
  /\ NextVehicle \in [Times -> Times \cup {Nil}]
  /\ Script \in Seq(Attempts \X AttemptFields)
  /\ MaxClock \in Nat
  /\ MaxTrips \in Nat
  /\ CrashInEvent \in BOOLEAN
  /\ ClockMoves \in BOOLEAN
  /\ OtherAnswers \subseteq Failures
  /\ Tokens \subseteq BOOLEAN

(* Where a command writes: the trip, one of its attempts, or its GPS trace.*)
TripSlot == <<"trip", 0>>
GpsSlot == <<"gps", 0>>

clock == Len(diary)
now == clock + 1
-----------------------------------------------------------------------------
(* Recording: what one effect of an event does. *)

Kicked(d) == IF d = "none" /\ client THEN "running" ELSE d

(* An event of the recorder: the handlers of the main actor do not         *)
(* interleave, and one event may have several effects.                     *)
Recording ==
  /\ turn \in {"free", "persist"}
  /\ turn' = "persist"
  /\ UNCHANGED <<serverVars, savedTrip, driverVars, late, crashes>>

Writes(key, slot, field) ==
  /\ clock < MaxClock
  /\ diary' = Append(diary, [key |-> key, slot |-> slot, field |-> field])
  /\ UNCHANGED <<cancelled, reviewed>>

(* Position of a trip that has arrived and is about to be closed.          *)
Arrived == Len(Script) + 1

TripBody(field) == [f \in TripFields |-> IF f = field THEN now ELSE Nil]

AttemptBody(field) == [f \in AttemptFields |-> IF f = field THEN now ELSE Nil]

StartTrip(route) ==
  LET key == <<route, now>> IN
    /\ trip = NoTrip
    /\ Cardinality({w.key : w \in Range(diary)}) < MaxTrips
    /\ turn = "free"
    /\ Recording
    /\ Writes(key, TripSlot, "leftHomeAt")
    /\ Enqueue([type |-> "createTrip", key |-> key])
    /\ trip' = [key |-> key, pos |-> 0]

(* Home again before the first stop, and out again.                        *)
LeaveAgain ==
  /\ trip # NoTrip
  /\ trip.pos = 0
  /\ Recording
  /\ Writes(trip.key, TripSlot, "leftHomeAt")
  /\ Enqueue([type |-> "updateTrip", key |-> trip.key,
              body |-> TripBody("leftHomeAt")])
  /\ UNCHANGED trip

(* A stop entered, a vehicle taken or missed, a stop left.  What happened  *)
(* unnoticed is skipped, but never a whole attempt.                        *)
RecordAttempt(pos) ==
  /\ trip # NoTrip
  /\ pos > trip.pos
  /\ \A j \in (trip.pos + 1)..(pos - 1) :
       \/ Script[j][1] = Script[pos][1]
       \/ trip.pos > 0 /\ Script[j][1] = Script[trip.pos][1]
  /\ Recording
  /\ Writes(trip.key, Script[pos][1], Script[pos][2])
  /\ Enqueue([type |-> "upsertAttempt", key |-> trip.key,
              attempt |-> Script[pos][1], body |-> AttemptBody(Script[pos][2])])
  /\ trip' = [trip EXCEPT !.pos = pos]

FlushGps ==
  /\ trip # NoTrip
  /\ Recording
  /\ Writes(trip.key, GpsSlot, "point")
  /\ Enqueue([type |-> "uploadGps", key |-> trip.key, points |-> <<now>>])
  /\ UNCHANGED trip

Arrive ==
  /\ trip # NoTrip
  /\ trip.pos # Arrived
  /\ Recording
  /\ Writes(trip.key, TripSlot, "arrivedDestinationAt")
  /\ Enqueue([type |-> "updateTrip", key |-> trip.key,
              body |-> TripBody("arrivedDestinationAt")])
  /\ trip' = [trip EXCEPT !.pos = Arrived]

(* The end of a trip, arrived or given up; points may be flushed before.   *)
EndTrip ==
  /\ trip # NoTrip
  /\ Recording
  /\ trip' = NoTrip
  /\ UNCHANGED <<box, saved, historyVars>>

CancelTrip ==
  /\ trip # NoTrip
  /\ trip.pos # Arrived
  /\ Recording
  /\ Discard(trip.key)
  /\ cancelled' = cancelled \cup {trip.key}
  /\ trip' = NoTrip
  /\ UNCHANGED <<diary, reviewed>>

Closing == trip # NoTrip /\ trip.pos = Arrived /\ EndTrip

(* An event without an effect on the outbox: a tick, a location, a region. *)
NothingToRecord ==
  /\ Recording
  /\ UNCHANGED <<box, saved, trip, historyVars>>

(* The end of handle: save the recorder, then wake the driver.             *)
PersistRecorder ==
  /\ turn = "persist"
  /\ trip # NoTrip => trip.pos # Arrived
  /\ turn' = "free"
  /\ savedTrip' = trip
  /\ drain' = Kicked(drain)
  /\ UNCHANGED <<box, saved, serverVars, trip, client, wake, call, late,
                 crashes, historyVars>>

-----------------------------------------------------------------------------
(* The driver. *)

RequestOf(cmd) ==
  CASE cmd.type = "createTrip" ->
         [type |-> "createTrip", route |-> cmd.key[1],
          leftHomeAt |-> cmd.key[2], tripDate |-> Today]
    [] cmd.type = "updateTrip" ->
         [type |-> "updateTrip", tripId |-> box.tripIds[cmd.key],
          body |-> cmd.body]
    [] cmd.type = "upsertAttempt" ->
         [type |-> "upsertAttempt", tripId |-> box.tripIds[cmd.key],
          attempt |-> cmd.attempt, body |-> cmd.body]
    [] cmd.type = "uploadGps" ->
         [type |-> "uploadGps",
          tripId |-> IF cmd.key = NoKey THEN NoTrip ELSE box.tripIds[cmd.key],
          points |-> {cmd.points[i] : i \in DOMAIN cmd.points}]
    [] cmd.type = "deleteTrip" ->
         [type |-> "deleteTrip", tripId |-> box.tripIds[cmd.key]]

Driving ==
  /\ drain = "running"
  /\ turn \in {"free", "loop"}
  /\ UNCHANGED <<serverVars, recorderVars, client, wake, late, crashes, historyVars>>

(* One round of drain: the head of a lane goes out.                        *)
SendOne ==
  /\ Driving
  /\ client
  /\ \E i \in Dispatchable(box) :
       /\ box' = Dispatched(box, i)
       /\ saved' = box'
       /\ call' = [id |-> i, key |-> box.entries[i].cmd.key,
                   req |-> RequestOf(box.entries[i].cmd), answer |-> NoAnswer]
  /\ drain' = "awaiting"
  /\ turn' = "free"

(* next throws because the file cannot be written: the entry is marked in  *)
(* memory, no dispatch is returned and the loop is over.                   *)
SendFailsToSave ==
  /\ SavesMayFail
  /\ Driving
  /\ client
  /\ \E i \in Dispatchable(box) : box' = Dispatched(box, i)
  /\ turn' = "ending"
  /\ UNCHANGED <<saved, drain, call>>

(* The loop is over: next looked at the clock and found nothing to send.   *)
FindsNothing ==
  /\ Driving
  /\ ~client \/ Dispatchable(box) = {}
  /\ turn' = "ending"
  /\ UNCHANGED <<box, saved, drain, call>>

Ending ==
  /\ turn = "ending"
  /\ turn' = "free"
  /\ drain' = "none"
  /\ UNCHANGED <<box, saved, serverVars, recorderVars, client, call, late,
                 crashes, historyVars>>

(* Faulty: no timer is set for the retry.                                  *)
DrainEndsForGood == Ending /\ UNCHANGED wake

(* The task ends, looks at the clock again and sets the timer for the      *)
(* retries that are still to come.                                         *)
DrainEnds == Ending /\ wake' = HasWake(box)

Return ==
  /\ call # NoCall
  /\ call.answer # NoAnswer
  /\ turn = "free"
  /\ turn' = "loop"
  /\ Complete(call.id, call.answer)
  /\ call' = NoCall
  /\ drain' = "running"
  /\ UNCHANGED <<serverVars, recorderVars, client, wake, late, crashes,
                 historyVars>>

(* Faulty: the timer wakes nobody.                                         *)
WakeFiresInVain ==
  /\ wake
  /\ turn = "free"
  /\ wake' = FALSE
  /\ UNCHANGED <<box, saved, serverVars, recorderVars, turn, client, drain, call,
                 late, crashes, historyVars>>

WakeFires ==
  /\ wake
  /\ turn = "free"
  /\ wake' = FALSE
  /\ drain' = Kicked(drain)
  /\ UNCHANGED <<box, saved, serverVars, recorderVars, turn, client, call, late,
                 crashes, historyVars>>

TimePasses(i) ==
  /\ turn # "ending" \/ ClockMoves
  /\ RetryDue(i)
  /\ UNCHANGED <<serverVars, recorderVars, turn, driverVars, late, crashes,
                 historyVars>>

(* The network is back, or the app comes to the foreground.                *)
Expedite ==
  /\ turn = "free"
  /\ ExpediteRetries
  /\ drain' = Kicked(drain)
  /\ UNCHANGED <<serverVars, recorderVars, turn, client, wake, call, late,
                 crashes, historyVars>>

(* The user saves a token: the client is set, and the outbox resumes.      *)
SaveToken ==
  /\ turn = "free"
  /\ ~client \/ box.paused
  /\ client' = TRUE
  /\ Resume
  /\ drain' = IF drain = "none" THEN "running" ELSE drain
  /\ UNCHANGED <<serverVars, recorderVars, turn, wake, call, late, crashes,
                 historyVars>>

ClearReviews ==
  /\ turn = "free"
  /\ box.deadLetters # {}
  /\ ClearDeadLetters
  /\ reviewed' = reviewed \cup box.deadLetters
  /\ UNCHANGED <<serverVars, recorderVars, turn, driverVars, late, crashes,
                 diary, cancelled>>

-----------------------------------------------------------------------------
(* Network and server. *)

Waiting == call # NoCall /\ call.answer = NoAnswer

Networking ==
  UNCHANGED <<box, saved, recorderVars, turn, client, drain, wake, crashes,
              historyVars>>

(* The trip a row was made for: the diary says who set its leftHomeAt.     *)
KeyOf(row) == diary[row.fields.leftHomeAt].key

RowsOf(k) == {i \in DOMAIN server.trips : KeyOf(server.trips[i]) = k}

(* What the server holds of a trip.                                        *)
RowContent(row) ==
  {<<TripSlot, f, row.fields[f]>> : f \in {g \in TripFields : row.fields[g] # Nil}}
    \cup UNION {{<<a, f, row.attempts[a][f]>> :
                   f \in {g \in S!Observed : row.attempts[a][g] # Nil}} :
                a \in DOMAIN row.attempts}

Stored == [k \in Keys |-> UNION {RowContent(server.trips[i]) : i \in RowsOf(k)}]

(* A record, or a later one of the same field, is on the server.           *)
OnServer(n) ==
  LET w == diary[n] IN
    IF w.slot = GpsSlot THEN n \in DOMAIN server.gps
    ELSE \E c \in Stored[w.key] : c[1] = w.slot /\ c[2] = w.field /\ c[3] >= n

Handles(req) ==
  /\ server' = S!Served(server, req).state
  /\ removed' = removed \cup {KeyOf(server.trips[i]) :
                    i \in DOMAIN server.trips \ DOMAIN server'.trips}

(* What the phone makes of the server's answer: it may be lost on the way, *)
(* and the body of a 2xx may not be understood.                            *)
Understood(outcome) ==
  {outcome, Transient}
    \cup IF outcome \in Failures THEN {} ELSE OtherAnswers \cap {Unreadable}

(* The request reaches the server.                                         *)
Served ==
  /\ Waiting
  /\ Handles(call.req)
  /\ \E answer \in Understood(S!Served(server, call.req).outcome) :
       call' = [call EXCEPT !.answer = answer]
  /\ Networking
  /\ UNCHANGED <<late, overtaken>>

(* It does not, or is turned away without effect.                          *)
TurnedAway ==
  /\ Waiting
  /\ \E answer \in {Transient} \cup (OtherAnswers \ {Unreadable}) :
       call' = [call EXCEPT !.answer = answer]
  /\ Networking
  /\ UNCHANGED <<late, serverVars>>

(* The phone stops waiting, the request is still under way.                *)
TimesOut ==
  /\ Waiting
  /\ Cardinality(late) < MaxLate
  /\ late' = late \cup {call.req}
  /\ call' = [call EXCEPT !.answer = Transient]
  /\ Networking
  /\ UNCHANGED serverVars

ArrivesLate ==
  /\ \E req \in late : Handles(req) /\ late' = late \ {req}
  /\ Networking
  /\ overtaken' = overtaken \cup {n \in 1..clock : OnServer(n) /\ ~OnServer(n)'}
  /\ UNCHANGED call

-----------------------------------------------------------------------------
(* The app dies, and is launched again: both files are read, and the first *)
(* tick wakes the driver.                                                  *)
Crash ==
  /\ crashes < MaxCrashes
  /\ CrashInEvent \/ turn # "persist"
  /\ crashes' = crashes + 1
  /\ Relaunch
  /\ trip' = savedTrip
  /\ turn' = "free"
  /\ call' = NoCall
  /\ drain' = IF client THEN "running" ELSE "none"
  /\ wake' = FALSE
  /\ UNCHANGED <<serverVars, savedTrip, client, late, historyVars>>

Init ==
  /\ box = Empty
  /\ saved = Empty
  /\ server = S!NewServer
  /\ trip = NoTrip
  /\ savedTrip = NoTrip
  /\ turn = "free"
  /\ client \in Tokens
  /\ drain = "none"
  /\ wake = FALSE
  /\ call = NoCall
  /\ late = {}
  /\ crashes = 0
  /\ diary = << >>
  /\ cancelled = {}
  /\ reviewed = {}
  /\ removed = {}
  /\ overtaken = {}

Record ==
  \/ \E route \in Routes : StartTrip(route)
  \/ LeaveAgain
  \/ \E pos \in DOMAIN Script : RecordAttempt(pos)
  \/ FlushGps
  \/ Arrive
  \/ EndTrip
  \/ CancelTrip
  \/ NothingToRecord
  \/ PersistRecorder

Drive ==
  \/ SendOne
  \/ SendFailsToSave
  \/ FindsNothing
  \/ DrainEnds
  \/ Return
  \/ WakeFires
  \/ \E i \in Ids(box) : TimePasses(i)
  \/ Expedite
  \/ SaveToken
  \/ ClearReviews

Network == Served \/ TurnedAway \/ TimesOut \/ ArrivesLate

Next == Record \/ Drive \/ Network \/ Crash

Spec == Init /\ [][Next]_vars

-----------------------------------------------------------------------------
(* Properties. *)

(* Types: what the phone can ask and be told, the records of the diary, and*)
(* the driver, which awaits an answer exactly as long as there is a call.  *)
PhoneRequests ==
  [type : {"createTrip"}, route : Routes, leftHomeAt : Times, tripDate : {Today}]
    \cup [type : {"updateTrip"}, tripId : Nat, body : TripBodies]
    \cup [type : {"upsertAttempt"}, tripId : Nat, attempt : Attempts,
          body : AttemptBodies]
    \cup [type : {"uploadGps"}, tripId : Nat \cup {NoTrip}, points : SUBSET Points]
    \cup [type : {"deleteTrip"}, tripId : Nat]

Answers == [type : {"tripCreated"}, tripId : Nat] \cup {Delivered} \cup Failures

Calls == [id : Nat, key : Keys \cup {NoKey}, req : PhoneRequests,
          answer : Answers \cup {NoAnswer}]

ASSUME NoCallAssumption == NoCall \notin Calls /\ NoAnswer \notin Answers

Writings == [key : Keys, slot : {TripSlot, GpsSlot} \cup Attempts,
             field : TripFields \cup AttemptFields \cup {"point"}]

Trips == [key : Keys, pos : 0..Arrived]

TypeOK ==
  /\ IsState(box)
  /\ IsState(saved)
  /\ S!TypeOK
  /\ trip \in Trips \cup {NoTrip}
  /\ savedTrip \in Trips \cup {NoTrip}
  /\ turn \in {"free", "persist", "loop", "ending"}
  /\ client \in BOOLEAN
  /\ drain \in {"none", "running", "awaiting"}
  /\ wake \in BOOLEAN
  /\ call \in Calls \cup {NoCall}
  /\ drain = "awaiting" <=> call # NoCall
  /\ late \subseteq PhoneRequests
  /\ crashes \in Nat
  /\ diary \in Seq(Writings)
  /\ clock <= MaxClock
  /\ cancelled \subseteq Keys
  /\ reviewed \subseteq DeadLetters

(* The system implements the diary: whatever is lost, repeated or retried, *)
(* a trip on the server is always a prefix of what the phone recorded, it  *)
(* never goes back to an older state, and it disappears only when the user *)
(* cancelled it (Outbox.swift:127, OutboxCommand.swift:20).                *)
Diary == INSTANCE TripDiary WITH
           Slots <- {TripSlot} \cup Attempts, MaxWrites <- MaxClock,
           stored <- Stored

RefinesDiary == Diary!Spec

(* No record is lost on the phone either: a value that was recorded is on  *)
(* the server, or replaced there by a later one, or waits in the queue, or *)
(* is shown to the user as rejected; unless the trip was cancelled, or the *)
(* server had the value and a request given up, arriving late, took it     *)
(* back.                                                                   *)
Carries(cmd, n) ==
  LET w == diary[n] IN
    /\ cmd.key = w.key
    /\ CASE cmd.type = "createTrip"    -> n = w.key[2]
         [] cmd.type = "updateTrip"    -> /\ w.slot = TripSlot
                                          /\ cmd.body[w.field] \in n..clock
         [] cmd.type = "upsertAttempt" -> /\ w.slot = cmd.attempt
                                          /\ cmd.body[w.field] \in n..clock
         [] cmd.type = "uploadGps"     -> \E i \in DOMAIN cmd.points :
                                            w.slot = GpsSlot /\ cmd.points[i] = n
         [] OTHER                      -> FALSE

NothingLost ==
  \A n \in 1..clock :
    \/ diary[n].key \in cancelled \/ n \in overtaken
    \/ OnServer(n)
    \/ \E i \in Ids(box) : Carries(box.entries[i].cmd, n)
    \/ \E letter \in box.deadLetters \cup reviewed : Carries(letter.cmd, n)

(* A script that brings the attempts of a single route in turn: a          *)
(* vehicle departs before the user alights from it and before the next one *)
(* of its leg departs, and no attempt is left out.                         *)
Prev(a) == <<a[1], a[2] - 1>>

(* Field f of attempt a and field g of attempt e, of one ride or one leg.  *)
Rides(a, f, e, g) ==
  /\ f = "vehicleActualDepartureAt"
  /\ \/ a = e /\ g = "alightedAt"
     \/ a[1] = e[1] /\ a[2] < e[2] /\ g = "vehicleActualDepartureAt"

ScriptInTurn ==
  /\ \A p, q \in DOMAIN Script :
       Rides(Script[p][1], Script[p][2], Script[q][1], Script[q][2]) => p < q
  /\ \A q \in DOMAIN Script :
       Script[q][1][2] > 1 => \E p \in 1..(q - 1) : Script[p][1] = Prev(Script[q][1])
  /\ \A r, q \in Routes : r = q

(* The order the outbox keeps is the order the server demands: no request  *)
(* of the phone is turned down for its attemptSeq, its times or a missing  *)
(* trip (OutboxCommand.swift:62-65).  Only a delete sent again may find    *)
(* the trip gone.                                                          *)
NoneTurnedDown ==
  call # NoCall =>
    /\ call.answer # Refused
    /\ call.answer = NotFound => call.req.type = "deleteTrip"

(* A cancelled trip is gone once the outbox has nothing left to do for it: *)
(* no row and no GPS point of it stays on the server (Outbox.swift:307).   *)
HasEntries(k) == OfTrip(box, k) # {}

OnTheWire(k) == call # NoCall /\ call.key = k

CancelledGone ==
  \A k \in cancelled :
    ~HasEntries(k) /\ ~OnTheWire(k) =>
      /\ RowsOf(k) = {}
      /\ \A n \in DOMAIN server.gps : diary[n].key # k

(* The outbox never waits for an answer nobody will give: what is marked   *)
(* in flight is the request the driver awaits.                             *)
InFlightIsAwaited ==
  \A i \in Ids(box) :
    box.entries[i].inFlight => call # NoCall /\ call.id = i

(* The queue never locks up: as long as it holds anything, something in it *)
(* is under way, can go out, or waits for its retry.  A delete that waits  *)
(* for the rest of its trip, or a command that waits for a trip id, waits  *)
(* for something that is going to happen.                                  *)
QueueMoves ==
  Ids(box) # {} /\ ~box.paused =>
    \/ Ready(box) # {}
    \/ \E i \in Ids(box) : box.entries[i].inFlight \/ box.entries[i].waiting

(* The driver never sleeps on something it could send: it is running, is   *)
(* about to be woken by the handler that runs, or has set its timer.       *)
NoForgottenRetry ==
  (client /\ drain = "none" /\ turn = "free" /\ Ready(box) # {}) => wake

(* Nothing in the queue is forgotten: neither by an answer that no longer  *)
(* comes, nor by a driver that sleeps without a timer (Outbox.swift:139).  *)
NothingForgotten == InFlightIsAwaited /\ NoForgottenRetry

(* A trip id the outbox remembers is the id of the trip of that key, until *)
(* the trip is deleted, and then the delete is still queued.               *)
TripIdsRight ==
  \A k \in DOMAIN box.tripIds :
    LET id == box.tripIds[k] IN
      \/ id \in RowsOf(k)
      \/ k \in removed /\ Deleting(box, k)

-----------------------------------------------------------------------------
(* Fairness: the main actor runs its handlers and its tasks, time passes,  *)
(* a timer fires, and a request that is sent over and over is served and   *)
(* answered.                                                               *)

Answered ==
  /\ Waiting
  /\ Handles(call.req)
  /\ call' = [call EXCEPT !.answer = S!Served(server, call.req).outcome]
  /\ Networking
  /\ UNCHANGED <<late, overtaken>>

Fairness ==
  /\ WF_vars(Closing)
  /\ WF_vars(PersistRecorder)
  /\ SF_vars(SendOne)
  /\ SF_vars(FindsNothing)
  /\ WF_vars(DrainEnds)
  /\ SF_vars(Return)
  /\ SF_vars(WakeFires)
  /\ SF_vars(\E i \in Ids(box) : TimePasses(i))
  /\ WF_vars(Served \/ TurnedAway)
  /\ SF_vars(Answered)

FairSpec == Spec /\ Fairness

(* Every record arrives in the end: unless the token is missing or wrong,  *)
(* the outbox runs empty and the server is in step with the diary          *)
(* (Outbox.swift:88-89).                                                   *)
EventuallyInStep ==
  [](client => []<>(box.paused \/ (Ids(box) = {} /\ Diary!InStep)))
=============================================================================
