# When I Off in TLA+

When I Off records a person's commute (when they left home, which bus or train
they waited for, missed, caught and left, when they arrived) and tells them later
when to leave. This directory holds a formal model of the part of it that must not
go wrong unseen: a phone that records while it is offline, killed and relaunched,
a server that accepts, refuses or half-answers what the phone sends, and a web client
where routes, timetables, signal cycles and recorded trips are edited while others write. A
measured time that is lost, doubled, put into the wrong trip or silently invented cannot be
measured again.

Paths below are relative to `src/` of the repository; `Recorder.swift`,
`Outbox.swift` and `OutboxCommand.swift` are in
`ios/WhenIOffRecorder/Sources/WhenIOffRecorder/`, `OutboxDriver.swift` and
`RecordingSession.swift` in `ios/App/WhenIOff/Core/`, `CommuteTripService.kt` and
`GpsTraceService.kt` in
`backend/src/main/kotlin/com/kangsiwoo/whenioff/trip/application/`; files ending in `.ts` and
`.tsx` are in `desktop/src/`.

## 1. Inventory

### Parts and how they interact

    regions, answers, clock, GPS                       timer, network, token
              |                                                |
              v                                                v
        Recorder --effects--> RecordingSession --commands--> Outbox <--> OutboxDriver
              |                    |                           |             |
         recording.json        notifications              outbox.json     HTTP (15 s)
                                                                             |
                                                                             v
                                              CommuteTripService, GpsTraceService (PostgreSQL)
                                                                             ^
    RouteLegService, TransitScheduleService,                                 |
    TrafficSignalCycleService <--- HTTP --- desktop client (corrections) ----+
                                       token, pages, forms, query cache

| Part | State it keeps | Operations | Hard behaviour | What makes it correct |
|---|---|---|---|---|
| `Recorder` (phone) | the trip being recorded, phase of each leg, GPS buffer, when the last trip of a route ended | one handler per event: region entered or left, caught, missed, cancelled, location, tick | events are reported late, twice and out of order; two answers to one question; instants below a millisecond | never sends what the server must refuse; writes nothing twice; what is missing is told to the user |
| `RecordingSession`, `AppModel` | the recorder's file, review notes, departure alerts | handle an event: recorder, effects, save, wake the driver; launch | a kill between the two files; awaits in `refreshDepartureAlerts` | a queued record survives whatever happens to the recorder |
| `Outbox` | entries in lanes, trip ids by natural key, dead letters, paused | enqueue, merge, next, complete, discard, resume, expedite | several lanes, merging beside a request under way, a delete that waits for its trip, failing saves, a kill | order within a trip, nothing lost, nothing stuck, cancelled trips gone |
| `OutboxDriver` | drain task, wake task, client | kick, drain, complete, schedule a wake | re-entrance at every `await`; a timer that is not set | never two drains, never asleep on something it could send |
| trip service | rows of trips, attempts, GPS points | create, update, delete, upsert, upload | repeated and reordered requests, corrections of either side, concurrent transactions | the times of a trip never contradict; resending is harmless; keys are unique |
| `GeofencePlanner`, `DepartureAlertPlanner` | none (pure) | plan at most 20 regions; plan alerts | the limit; alerts cancelled while they fire | today's stops are never dropped; one alert a day |
| polling (backend) | NODATA registry, raw rows | one cycle over cities and legs, TTL | one city fails, quota errors, stale marks | a failure stays where it is |
| external call metrics | counts by hour and day | record, prune, snapshot | midnight KST, concurrent calls | no call counted twice or never |
| retention | none (deletes rows) | delete in batches | failure midway, concurrent inserts | only what is old goes |
| routes and legs | ordered legs | replace legs | unique (route, seq_order) while reordering | order and measurements survive |
| timetable, master data | lines, stops, schedules | import, sync, next departures | concurrent imports, midnight, day types | next vehicle is the next vehicle |
| signals, recommendations, ops status | rows, batch runs | CRUD and reads | little | validation |
| analytics (Python) | rows it derives | nightly estimation | re-runs | idempotent upserts |
| desktop: session (`context.ts`, `api/`) | token, page, query cache, requests under way | login, logout, move between pages, save, refetch | 401 while reads and saves are under way, answers out of order, cancelled first loads | what was saved is seen, nothing is kept without a token, nothing loads for ever |
| desktop: route editor (`RouteEditPage.tsx`, `legRules.ts`) | drafts, selection, unsaved crossings, two kinds of saves | edit, pick on the map, save legs, save crossings | the answer replaces the draft; ids and keys change; outdated keys in picks and searches | rules equal the server's; what is shown as stored is stored; measured legs stay |
| desktop: timetable (`ScheduleUpload.tsx`, `csv.ts`, `next.ts`) | picked file, confirmation, uploads, checker | pick, confirm, upload, ask for departures | files read asynchronously, detached uploads, lost answers | preview equals the import; the confirmed file is the uploaded one |
| desktop: signal cycles (`SignalCycleEditor.tsx`, `cycleRules.ts`) | rows edited | edit, save | answers over edits, failed background reads, two PUTs that cross | rules equal the server's; one measured row in force |
| desktop: trips (`TripDetailPage.tsx`, `corrections.ts`, `timeline.ts`, `ticket.ts`) | forms | correct times and attempts | forms older than the trip, cut-off parts of a second | only what was typed changes; three views of a trip agree |
| desktop: other pages | none of interest | read and draw | none | |
| site, backup, compose | none of interest | scripts | none modelled | |

Every part is listed under `components` in `PROJECT.json` with its status, and every
place where this code is hard to test under `hazards`, with the properties that
cover it or the reason why none does yet.

### What is modelled so far

The recording path from an event on the phone to a row on the server: `Recorder`,
`Outbox`, `OutboxDriver`, the saving and launching half of `RecordingSession` and
`AppModel`, the network, and the trip service. It comes first because there
concurrency, crashes, retries and ordering rules meet. Then the web client: its session
and cache, and the four pages that keep state of their own between what the server had
and what it is told, each with the service that it writes to.

## 2. Modules

| Module | Models | State |
|---|---|---|
| `Outcomes` | how a response is classified (`RetryPolicy.decide`) | none |
| `Outbox` | `Outbox.swift`, `OutboxCommand.swift`: one operator per method, on a record, and the actions that save it | `box` (memory), `saved` (file) |
| `TripServer` | `CommuteTripService.kt`, `GpsTraceService.kt`, constraints of the migrations: one operator per endpoint, returning new rows and the answer | `server` |
| `TripServerProofs` | proofs about `TripServer` | |
| `OutboxAlone` | the outbox under *any* use of its interface | as `Outbox` |
| `OutboxLemmas` | what each method of `Outbox` does to a queue, as lemmas | |
| `OutboxProofs` | proofs about `OutboxAlone` | |
| `TripDiary` | abstract: what the outbox promises, without queue, network or crash | `diary`, `cancelled`, `stored`, `removed` |
| `OutboxSystem` | recording session, outbox, driver, network and `TripServer` together; refines `TripDiary` | adds the main actor, drain, timer, the request under way |
| `OutboxSystemProofs` | proofs about `OutboxSystem`: types, requests and timers; the queue never locks up; trip ids mean the right trip | |
| `OutboxSafeProofs` | proofs about `OutboxSystem`: nothing that was recorded is lost; a cancelled trip goes; nothing is turned down; the system implements `TripDiary` | |
| `Recorder` | `Recorder.swift`, `DirectionPolicy.swift`: one operator per event, from machine to machine and effects | `trip`, `endedAt` |
| `RecorderSystem` | the recorder, what `RecordingSession.perform` does, and the rules of `TripServer` | adds screen, review notes, refusals |
| `DesktopQueries` | the query keys of `api/queries.ts`: what each reads, which page mounts it, what each save writes, stores and invalidates | none |
| `DesktopClient` | one tab: token, router, `QueryClient`, saves, and the server as versions of its tables | `token`, `at`, `data`, `fetch`, `call`, `server`, ... |
| `DesktopClientProofs` | proofs about `DesktopClient` | |
| `RouteLegs` | `RouteLegService.kt`: one operator per endpoint | none |
| `RouteEditor` | `RouteEditPage.tsx`, `LegCards.tsx`, `SignalCrossingsEditor.tsx`, `legRules.ts`, over `RouteLegs` | `drafts`, `baseline`, `edited`, `save`, `crossingSave`, `legs`, ... |
| `Timetable` | `csv.ts`, `next.ts` and `TransitScheduleService.kt`, side by side | none |
| `ScheduleUpload` | the timetable page over `Timetable` | `picked`, `reading`, `confirmed`, `uploads`, `db`, ... |
| `SignalCycles` | `SignalCycleEditor.tsx`, `cycleRules.ts`, `TrafficSignalCycleService.kt` | `rows`, `puts`, `cached`, `drafts`, `call`, ... |
| `SignalCyclesProofs` | proofs about `SignalCycles` | |
| `TripViews` | `timeline.ts`, `ticket.ts`: functions of a trip and its route's legs | none |
| `TripCorrections` | `TripDetailPage.tsx` with its forms, `corrections.ts`, `kst.ts`, over `TripServer` | `stored`, `shown`, `forms`, `calls`, `read` |
| `TripCorrectionsProofs` | proofs about `TripCorrections` | |
| `MC...` | small instances of the above for TLC | |

Definitions keep the names of the code; `map` in `PROJECT.json` gives the lines of
each. Definitions whose name or comment begins with "Faulty" are not part of the model: they
are the plausible mistakes that the properties are tested against (`mutants`).

### How state and actions correspond

**Outbox.** `OutboxState` is the record `box`: `entries` (a function from entry id,
in queue order, to command, failures, `waiting`, `inFlight`), `tripIds`,
`deadLetters`, `nextId`, `paused`. `nextAttemptAt` is reduced to whether it lies in
the future (`waiting`); time passing is the action `RetryDue`. The code counts
failures without a limit; the model stops counting at `FailureCap`, a bound: what
depends on the count is whether it is zero, and a delay. `Dispatchable` is what `next(now:)` may return, `Completed` is `complete` with
its five outcomes, `Discarded` is `discard`. An action changes `box` and writes
`saved`; where `SavesMayFail`, the write may not happen while the change in memory
stands, as in `persist`. `Relaunch` is `init(store:)`: `inFlight` is reset and
nothing else.

**Trip service.** `Served(s, req)` is one request in one transaction: it returns the
new rows and the outcome the phone sees. `TripOrdered`, `RideOrdered`,
`AfterEarlierAttempts` and `SkipsAhead` are the rules of #37, #38 and #42;
`FillPredictedSnapshots` is the snapshot of #54, with the timetable as the constant
`NextVehicle`. Ownership checks are left out: there is one user.

**The phone's main actor.** `RecordingSession` and `OutboxDriver` are both
`@MainActor`: handlers interleave only at `await`. `turn` says what the actor is in
the middle of: between the effects of an event and the saving of the recorder
(`"persist"`), between the answer of a request and the next one (`"loop"`), between
the last look at the queue and the setting of the timer (`"ending"`). Between these
the app may be killed; during the `await` of a request everything else may run. In
`OutboxSystem` the recorder is cut down to which commands a trip issues and in which
order; every command that sets a field gets a number, which is also its instant
and the value it sets, so that "the server has the third record of this trip" can be
read off its rows.

**Recorder.** An operator takes the machine (`Machine`: state and effects so far)
and returns the next one; `Handled` performs the effects in order. Every
record reaches the server at once and in the order it was made: that this is what
the outbox amounts to is what `OutboxSystem` checks. Instants count *half
milliseconds*, because `TripKey` and `Timestamp.format` round to milliseconds
(`Rounded`) and comparisons on the phone do not. An event carries any instant of
`Times`: regions are delivered late and out of order. Coordinates, accuracy, notes
and names are left out; a location that is too inaccurate is dropped by the code and
is no event of the model. The plan of regions and the routes do not change.

**The web client's cache.** `DesktopClient` knows of a table of the server only its version
number: a query's data are the versions it was read at. A request carries the token of the
moment it leaves; its answer is given by the server (`got`) and taken later, so saves, logouts
and other reads come in between. What TanStack Query does is modelled from the options in
`context.ts` (one retry, not after a 4xx) and from its defaults where the code gives none: a
query is fetched again when it is mounted, when the window gets the focus or when it is
invalidated, an invalidation cancels a reload under way but not a first load, and a read of
which nobody is left to see the answer is cancelled. A save's answer that the hook stores
(`setQueryData`) and what it invalidates are per save, in `DesktopQueries`.

**The pages.** A page's state is what its `useState` holds; a handler is an action; a mutation is
three: sent, served, answered. `impatient` in `RouteEditor` and `ScheduleUpload` marks a user
who goes on while something is under way: nothing in the pages forbids it. Distances,
coordinates and names are values of small sets, the map is a set of points. Callbacks passed to
`mutate` are dropped when their component is gone (`Live`, `watched`), those in `useMutation` are
not. In `TripCorrections` instants count half seconds, because the inputs cut an instant to
the second.

**Two sides of a rule.** `legRules.ts`, `csv.ts`, `next.ts` and `cycleRules.ts` repeat rules of
the backend. Each side is an operator of its own, translated from its own source, and the
runs compare them on what editing leads to (`RulesAgree`).

## 3. What is checked

Every property is a statement about the code with the line that promises it beside
it. The `TypeOK` of `OutboxAlone`, `OutboxSystem` and `TripServer` are proved (section 5);
`RecorderSystem` states its own as the description of its variables.

### `crash` (OutboxSystem, `MCOutboxSystem_crash.cfg`)

Phone, network and server with lost requests, lost answers, retries, cancelled trips, a missing
token, a token that the server refuses until the user saves another, and one kill between any two
handlers.

- `RefinesDiary`: the system implements `TripDiary`. At every moment the server holds of
  each trip exactly what some prefix of the phone's records says, never an older one than
  before, and a trip goes away only after its user cancelled it, then for good.
  The mapping takes the diary and the cancellations over and reads `stored` off the
  rows of the server (`Stored`).
- `NothingLost`: a recorded value is on the server (or a later one is), in the queue,
  or among the rejections shown to the user.
- `NoneTurnedDown`: the server refuses nothing the phone sends in its order; only a
  delete that is repeated may find the trip gone.
- `NothingForgotten`: what is marked in flight is the request the driver awaits
  (`InFlightIsAwaited`), and with something to send the driver runs or has a timer
  (`NoForgottenRetry`).
- `QueueMoves`: as long as the queue holds something, something in it is under way, can go
  or waits for its retry. A delete that waits for the rest of its trip and commands
  that wait for a trip id never wait for each other.
- `TripIdsRight`: a remembered trip id is the id of that trip.

Bounds: three commands that set a field (`MaxClock`), at most two trips, one kill, GPS
batches of one point, one leg with two attempts. Three commands give a create with
two dependants, two commands of a lane behind one that is under way, a merge of two
updates, and a trip cancelled with its create in each of its states while another
trip begins; a shorter history has none of these and a longer one repeats
them. The kill comes between any two handlers.

### `live` (`MCOutboxSystem_live.cfg`)

- `EventuallyInStep` (liveness): once a token is there, again and again the outbox is
  paused or is empty with the server in step with the diary, so every record arrives in
  the end.
- `CancelledGone`: when nothing of a cancelled trip is left in the queue, no row and no
  GPS point of it is on the server.

Fairness (`Fairness`), and why the code justifies it: the main actor runs what
is queued on it, so a handler that was begun is finished (weak fairness of
`PersistRecorder`, `Closing`, `DrainEnds`) and the resumption of the drain, of an answer
or of the timer gets its turn though other handlers run in between (strong fairness of
`SendOne`, `FindsNothing`, `Return`, `WakeFires`: they are enabled only while the actor is
free); time passes, so a retry falls due (`TimePasses`); a request is answered or
times out after 15 s (weak fairness of `Served \/ TurnedAway`); and a request that is sent
over and over is served and answered some time (strong fairness of `Answered`), without
which nothing could arrive. No fairness is assumed of the user, of events, of
the token or of kills. Without a kill, because a relaunch does not lose the queue
(`crash`) and the assumption would have to say that kills stop.

### `rough` (`MCOutboxSystem_rough.cfg`)

`NothingLost` again, where everything else goes wrong: saves fail, the server refuses
requests and sends answers that cannot be read, and a request that the phone gave up
arrives later. A value that such a request takes back from the server (`overtaken`) was there
before, and counts as arrived. Bounds: one trip of three commands, one late request.

### `alone` (OutboxAlone, `MCOutboxAlone.cfg`)

Any commands in any order, as many requests under way as `next` allows, answers in
any order, discards, relaunches and failing saves.

- `TypeOK`: beside the types, every queued command, in memory and on disk, has an id of its own
  below the next one to be given out, so an answer never finds another command under its id.
- `OnlyHeadsInFlight`: at most one command of a lane is under way, and it is the oldest.
- `SentIsFrozen`: no operation touches a command between its sending and its answer.

Bounds: one trip, four kinds of command, entry ids up to 3. The three properties are
proved without bounds (section 5).

### `server` (TripServer, `MCTripServer.cfg`)

Any requests of any number of clients, in any order and any number of times.

- `TimesConsistent`: leaving, arriving, departing and alighting times and the order of attempts
  never contradict each other, whichever side is corrected last.
- `SeqsContiguous`: the attempts of a leg are numbered without a gap.
- `KeysUnique`: (route, leftHomeAt) is unique, also after corrections.
- `ResendIsHarmless`: a request sent twice changes nothing the second time and gives
  the same answer; a repeated delete gets 404.
- `StoredStays`: points go with their trip and never change to another (`GpsFollowsTrip`), and
  a predicted departure, once set, stays as it was, for clients that do not send the
  field (`SnapshotKept`).

Bounds: two instants, two trips, two attempts of one leg, one point. Each rule compares two
times, and uniqueness is about two trips.

### `recorder` (RecorderSystem, `MCRecorder.cfg`)

A commute of two legs with a change, regions reported at any of three instants
(one of them between two milliseconds), in any order and any number of times, answers
from the screen and from notifications old and new, and the clock.

- `NeverRefused`: the server refuses no record (Recorder.swift:164-173): the recorder
  keeps back each time that would break a rule.
- `RecordsStand`: a recorded time or result is never written over.
- `GapsAreReviewed`: when a trip is over, each leg has a ride with departure and
  alighting, or a note tells the user about the leg or the trip.
- `PromptsAreCurrent`: a boarding question is on the screen exactly for the attempt that
  is waited for.

Bounds: one trip, two attempts a leg (`MaxAttemptSeq`, 20 in the code), three instants: before,
after, and just between; durations of the policy are one or two units, so that each is
both over and not over. One trip, because a trip starts from a fresh `ActiveTrip`; what the
previous one leaves is checked by the next run.

### `recorder_again` (`MCRecorder_again.cfg`)

Two trips on a commute of one leg whose last stop is in the region of the destination, with GPS
samples. `SamplesKept`: every sample of a trip that is not cancelled is buffered or on the
server, whether its batch was full, due or cut short by the end of the trip. One attempt a
leg, two instants, batches of two.

Assumption of both: no two trips of a route leave home in the same millisecond
(`LeavesAlone`); the natural key of the code rests on it as well.

### `session` (DesktopClient, `MCDesktopClient.cfg`)

One tab, its user moving between the pages of a tour, saving, logging in and out; requests
that fail, a token that is changed on the server, and another client that writes.

- `SeesSaved`: with nothing under way, a page shows no version older than one of the
  client's own accepted saves. This is what the choice of invalidated keys amounts to.
- `LoggedOutEmpty`: without a token nothing is kept and nothing is asked for.
- `OlderIsReloaded`: if a page goes back to an older version, because a save's answer was
  stored over a newer read, a read is on its way.
- `LoadEnds` (liveness): again and again every query of the page has data or an error.

Fairness: `Proceed`, a request under way is answered or fails (weak), for each query as long as the
page is left alone; the browser's own timeouts justify it. Left out of `SeesSaved`, and real: a
first answer read before the save (`blind`), and the signal cycles (below). Bounds: one route,
trip and signal, eight tours that together show every page, two tokens, one move, save,
foreign write, focus and mishap each: a race is between two of these. A behaviour has at most four of them
(`MaxEvents`) on the pages with forms (a route's detail, its creation, its legs, a trip), the list and
the operations page, and three on those that put several queries together (trips,
schedules, calibration, recommendations). A mishap may take both tries of a query, so a query succeeds at
once, succeeds when it is tried again, or ends in an error.

### `editor` (RouteEditor, `MCRouteEditor.cfg`)

A user who edits the legs of a route in three steps, waiting for answers or not, and a phone
that records a trip on one of the legs while a save is under way.

- `RulesAgree`: `validateDrafts` lets pass exactly what the server does not answer with 400, on
  every draft that editing leads to.
- `ShownIsStored`: "unsaved changes" is told from what the server has, an accepted answer mirrors
  the request leg by leg, no two cards share a key, and for a user who waits the crossings shown are the
  stored ones.
- `PatientEditsSurvive`: the answer to a save makes the draft anew with nothing changed of what
  was entered, for a user who waits for it.
- `MeasuredStay`: a leg that trips were recorded on stays, and stays a walk or a ride.

Bounds: a route that is empty or has three legs, three edits (insert a ride into a walk is one
edit and makes three legs of one), two stops of a bus and one of a train, two crossings a walk.

### `upload` (ScheduleUpload, `MCScheduleUpload.cfg`)

Eight files: with a header and a repeated time, a later edition, a second header in the place
of a row, an unknown line, cells that one reader might take and the other not, one too large, one of blank lines,
an empty one.

- `RulesAgree`: client and server find the same rows, or the same first bad line and cell. A query the
  checker lets through is never answered with 400; with 404, for a line or a stop the server does not
  have, only after the user changed the ids, never for those filled in from an upload.
- `PreviewForetells`: the counts of the preview are the server's, and an import changes the groups
  the preview named, each to what it said, and no other, whatever was there before.
- `PatientGetsItsFile`: a user who waits uploads only what was confirmed, and sees counts, rows and a
  checker that belong to that file.
- `DeparturesRight`: next departures are the earliest at or after the given time over two days
  with the day type of each, in order, at most as many as asked for.

Bounds: three picks, two uploads, three dates (Friday to Sunday), three times.

### `cycles` (SignalCycles, `MCSignalCycles.cfg`)

A user who edits the rows while another client has the same intersection open. Each PUT is a
transaction under READ COMMITTED in four steps: `FindRows` reads the measured rows, `ReplaceRows`
deletes those by id and inserts its own, `ReadBack` reads the answer, `Commit` makes it seen. A
deletion waits only for another one of the same row; nothing else keeps two PUTs apart.

- `RulesAgree`: `validateCycleRequests` lets pass exactly what `validate` does, and what passes has
  no two bands of a day that overlap.
- `OneRowInForce`: unless another PUT was stored while the one stored last was under way, at most one
  measured row is in force at a time of day: one PUT served alone clears up what two that crossed
  have left. The row chosen is always a measured one if there is one, else one of the best source.
- `SavedIsStored`: while "saved" is shown and no other client has written, the form holds the
  measured rows the server has, in its order.

Bounds: two rows, four instants (bands that touch, overlap, are empty or reversed), three
edits, two saves, one PUT of the other client, one refetch: enough for two PUTs that cross, two sets
of rows, and a PUT that clears them up. The three properties are proved without bounds.

### `trips` (TripCorrections, `MCTripCorrections.cfg`)

- `OnlyTypedChanges`: a save changes what was typed into its form and nothing else, and an
  instant only to another second, as long as nobody else writes what the form shows.
- `SavedIsStored`: while "saved" is shown the form, the page and the server agree, although reads,
  saves of other forms and requests that fail come in between, as long as nobody else writes and
  no save of this form was stored without an answer (`heard`; what happens then is below).
- `OneStory`: timeline, numbers and ticket tell the same attempts and rides, also when the legs of the
  route are missing, fewer or others.

Bounds: one trip with two attempts on a leg, its instants on half and on whole seconds, and what
the phone still sends of a second leg; three inputs, two saves, one request of the phone, one
refocus, one mishap. `OnlyTypedChanges` and `SavedIsStored` are proved without bounds (section 5).

### What the code does not keep

Each statement below is taken from a comment or a test, and TLC finds it violated by what the
code does: under the configuration named, or, for the four of `DesktopClient`, under
`MCDesktopClient.cfg` with the statement in place of its properties and with `Spec` as the
specification; `NeverTwoInForce` under `MCSignalCycles.cfg`, and the two of `ScheduleUpload` under
`MCScheduleUpload.cfg`, likewise; the last one under `MCTripCorrections_touched.cfg` in the place of its invariant. They are kept beside the passing runs and are not among them.

Phone:

- `MCRecorder_first_stop.cfg`, `FirstStopRecorded`: a trip that starts at its first stop
  takes that instant as `leftHomeAt`, but `startTrip` takes it from the key, rounded to
  milliseconds. For half of all instants that is later than the instant itself, and
  `enterBoardStop` (Recorder.swift:318) then drops the very arrival as out of order: no attempt, no
  question. The test (RecorderTests.swift:213) uses whole seconds.
- `MCOutboxSystem_relaunch_cancel.cfg`, `CancelledGone` (Outbox.swift:143, 315): the app is
  killed while a create is under way; the relaunch resets `inFlight` and counts no
  failure, so a cancel takes the create for one that never went out and drops it without a
  delete. The trip stays on the server.
- `MCOutboxSystem_savefails.cfg`, `InFlightIsAwaited` (Outbox.swift:215): `next` marks the
  entry before it saves; when the save throws, the entry stays marked, nobody awaits it, and
  its lane stands still until the next launch.
- `MCOutboxSystem_create_rejected.cfg`, `QueueMoves` (Outbox.swift:285): what is recorded for a trip
  after its creation was rejected waits for a trip id for good and is reported nowhere.
- `MCOutboxSystem_lost_wakeup.cfg`, `NoForgottenRetry` (OutboxDriver.swift:109): `drain` reads the
  clock in `next` and again in `nextWakeAt`; a retry that falls due in between gets no
  timer until the next event.
- `MCOutboxSystem_late.cfg`, `RefinesDiary`: a request that the phone gave up after its timeout
  reaches the server after newer ones and sets an older value again. Requests
  carry no order, so the server cannot tell.
- `MCOutboxSystem_behind.cfg`, `QueueMoves`: a kill between the two saves of one event
  takes the recorder one step back, and it may go on with a trip whose cancellation is
  queued. RecordingSession.swift:24-25 says so.
- `MCOutboxSystem_unreadable.cfg`, `CancelledGone`: an answer to a create that cannot be read is taken
  for a rejection although the trip was made.

Web client:

- `MCRouteEditor_shown.cfg`, `CrossingsShownAreStored` (RouteEditPage.tsx:229): crossings saved while a
  save of the legs is under way, and the other way round; the later answer shows what the
  earlier call found.
- `CacheEmptiedOnLogout` (context.ts:16): a save's answer that comes after
  the 401 or the logout is stored in the cache that was emptied.
- `ReturnPathKept`: a second 401 takes the login page for the
  page to return to.
- `FreshTokenStays`: the 401 of a request that carried the old token removes
  the one just typed (client.ts:72).
- `CyclesShownAreStored` (queries.ts:309): the cycles a save stores are
  overwritten by a read that began before it, and are not asked for again.
- `ConfirmedIsUploaded` (ScheduleUpload.tsx:40): a slow read of an
  earlier pick lands after the box was ticked for a later one, and leaves the tick.
- `RefusedMeansNothing` (ScheduleUpload.tsx:306): "nothing was stored" is
  also shown when the answer was lost and the rows are in.
- `MCTripCorrections_touched.cfg`, `OnlyTouchedSent` (corrections.ts:11): a field nobody touched is sent
  when the phone has written it since the form appeared, and takes that back.
- `SavedDespiteLostAnswers` (corrections.ts:40, 53): a save is stored and its answer lost; the user types the
  old value again and saves something else. The page still has the trip as it was before, so the old
  value is no change and is not sent: "saved" is shown beside it, and the server keeps the first
  save. Met while proving `SavedIsStored`, which holds without such a save.

Backend:

- `NeverTwoInForce` (TrafficSignalCycleService.kt:40-43): two PUTs of one intersection that overlap find the
  same rows to delete and both insert; both sets stay, and two measured rows are in force at a time
  of day, until the next PUT. "사용자 행은 API(...)가 같은 day_type 안의 겹침을 막는다" (docs/DATA_MODEL.md:253),
  and no index or constraint of the migrations does.

## 4. Assumptions and bounds of the composition

- Only the phone writes in `OutboxSystem`. Corrections from the desktop are
  requests of `server`, where every order of them is allowed, and come from
  `TripCorrections`, where the phone writes beside them.
- The server serves one request at a time, but for the PUTs of `SignalCycles`, where a PUT of the
  client and one of another interleave step by step. The client's own form sends one at a time.
  Elsewhere two transactions interleaving is not modelled.
- One user. No background-time limits of the system.
- One browser tab, which is not reloaded; one save at a time in `DesktopClient` and in each
  form, as its button is disabled while one is pending. Each page is checked by itself:
  `DesktopClient` knows saves and reads, not drafts.
- `RouteLegs`: the legs are a sequence, so `seqOrder` is contiguous by construction, as
  `toLegRequests` sends it. A leg is measured only while a save is under way; at other times
  nothing on the page looks at it.
- `TripCorrections`: result and notes are one field; the retry of a read is part of `ReadFailed`.
- Bounds have names: `MaxClock`, `MaxTrips`, `MaxCrashes`, `MaxLate`, `MaxId`, `FailureCap`,
  `TripIds`, `Seqs`, `SentBodies`, `SampleTimes`; `MaxSteps`, `MaxCrossings`, `MaxMeasured`,
  `MaxMoves`, `MaxFocus`, `MaxSaves`, `MaxElsewhere`, `MaxMishaps`, `MaxEvents`, `MaxPicks`, `MaxUploads`, `MaxEdits`,
  `MaxRows`, `MaxRefetches`, `MaxPhone`, `MaxReads`.

## 5. What is proved

`OutboxProofs` proves, with TLAPS, for every set of keys, attempts, values and points, every batch
size, failure cap, id bound and set of commands of the app, with or without failing saves,
from the assumptions in `Outbox` and `OutboxAlone`:

- `TypeCorrect`: `Spec => []TypeOK`.
- `LanesStayOrdered`: `Spec => []OnlyHeadsInFlight`.
- `SentStaysFrozen`: `Spec => SentIsFrozen`.
- `ChunksFit`: a GPS upload of any length is cut into batches of at least one
  and at most `MaxPoints` points.

The argument. `OnlyHeadsInFlight` is not inductive by itself: an operation on an
ill-formed queue could do anything. `TypeOK /\ OnlyHeadsInFlight` is: entries have ids below `nextId`,
so a new entry comes after all others. Every operation but `next` is
*gentle* (`Gentle`): it keeps the lane of each entry that stays and the command of
each that is under way, it lets no entry start to be under way, and it adds only at the end. There
is one lemma per operation (`EnqueuedGentle`, `MergeGentle`, `CompletedGentle`, `DiscardedGentle`,
`ReloadedGentle`, ...), `GentleTwice` composes two, and `GentleKeepsHeads` says that a
gentle step keeps `OnlyHeadsInFlight`: a head stays one when entries leave or come
behind it. `next` sends only heads (`DispatchedState`). `Steps` collects this for
`Next`, and the three theorems follow from it.

`TripServerProofs` proves, for any routes, legs, instants, trips, points and bodies and any requests in
any order, from `TripServerAssumption`:

- `TypeCorrect`: `Spec => [](TypeOK /\ PointsHaveTrips)`: the rows have their types, and every point's trip
  is there.
- `TimesStayConsistent`, `SeqsStayContiguous`, `KeysStayUnique`: `[]` of the property of that name.
- `StoredStaysPut`: `StoredStays`, under the assumption `NoneSendsPrediction`, that no body holds a
  prediction; the code would take one over.

The argument. `Good` is inductive: every trip has its type, its times agree, its attempts have no
gaps and no other trip has its key; ids come from the sequence; every point's trip is there.
`WriteIsFine` reduces an operation that writes one trip to three questions about that trip: is it good
by itself, is its key free, do its predictions stay. `ApplyChangesFine` answers them for an attempt, old or
the next of its leg: the rules are checked before the prediction is filled in, and read nothing
that filling it in changes (`RulesIgnorePredictions`). No order of the instants is used: each write
compares the trip with all of its attempts, so nothing has to be inferred.
`ResendChangesNothing` (`ResendIsHarmless`) is not an invariant of steps but a fact about any rows the
server can hold, so it needs `Good` only: a create finds the trip it made, an update overlays what it
left, an attempt passes the same rules against itself, and points are a function of their key.

`DesktopClientProofs` proves three theorems, for any routes, trips, signals, tokens, tours and bounds, from
`DesktopAssumption` and `NoneAssumption` (`None` is neither a request nor data).

`LogoutEmpties` is `Spec => []LoggedOutEmpty`. The strengthening (`Emptied`) adds that a save
which is unanswered while there is no token was so when the token went (`left`). The case that needs an
argument is an accepted save whose answer comes after the logout: it marks queries stale, but the login
page observes none (`LoginObservesNothing`), so nothing is asked for again.

`SavedIsSeen` is `Spec => []SeesSaved`, and `OlderIsReloadedHolds` is `Spec => OlderIsReloaded`. What is shown
may always be replaced by the answer to a read that left before the save was told. So the invariant (`Sound`)
speaks of reads too: one that was answered is as new as what was saved, unless its query is blind, and as new
as the entry it will replace (`ReadsKnown`); only what is shown is being asked for (`AskedIsShown`); and an
answer tells nothing the server does not have (`Known`, `ToldBySave`). When a save is accepted this is kept
because of what `queries.ts` marks stale: each query that reads what a save writes is among them, whatever the
routes and trips (`WrittenIsMarked`, over all keys and the prefixes that mark them), and so is each entry the
answer is stored in (`StoredIsMarked`), both but for the signal cycles. A query that is marked and shown is
asked for again, or its request is still unanswered, or it is blind (`Restocked`). The only step that shows
something older is the storing of an answer, and `StoredIsMarked` says that a read follows it.

The proofs about `OutboxSystem` are for any routes, legs, script, number of trips, commands, kills
and requests that arrive late, from `OutboxSystemAssumption` and `NoCallAssumption` and the
assumptions of the modules it is made of:

- `SystemTypeCorrect`: `Spec => []TypeOK`, with no further condition.
- `QueueIsMinded`: `[]NothingForgotten`, if saves succeed (`~SavesMayFail`) and the clock does not pass
  a retry between the two looks at it (`~ClockMoves`). Both conditions are needed: section 3 names the
  behaviour each one excludes.
- `QueueKeepsMoving`: `[]QueueMoves`, and `TripIdsStayRight`: `[]TripIdsRight`, under `Reliable`: saves
  succeed, the app is not killed between the two saves of one event, and beside its own answers the
  server gives none but a lost one and a refused token. `CrashInEvent` and a rejected create break
  `QueueMoves` (section 3). That a create is not refused is not assumed but comes with the
  server's own answers: what it answers to a create is always the id of a trip
  (`CreateAccepted`).
- `NothingGetsLost`: `[]NothingLost`, under `Reliable` and `TimesOnly`: the script brings only the times
  `Stored` reads off the rows. A result that travels alone (Recorder.swift:378-383) is no time, and
  `OnServer` would not see it. A server that turns requests down, and answers the phone cannot read,
  stay with the run `rough`. (An unreadable answer completes the command, so what the theorem
  says of `Delivered` would have to be said of it too.)
- `CancelledTripsGo`: `[]CancelledGone`, under `Reliable`, `MaxCrashes = 0` and `MaxLate = 0`: the app is not
  relaunched, and no request arrives after its timeout. A relaunch breaks it, as an unreadable answer does
  (section 3); a create that arrives after its trip was deleted makes the trip again.
- `NothingIsTurnedDown`: `[]NoneTurnedDown`, under `Reliable` and `ScriptInTurn`, for any number of relaunches and
  late requests: a vehicle departs before the user alights from it and before the next one of its leg departs,
  no attempt is left out, and there is one route. The recorder brings the attempts in that order
  (`NeverRefused` of the runs of `RecorderSystem` checks it, with the skips and the user's answers the
  script leaves out); one route, because the script is the same whatever the route, where the app's legs are those of the
  trip's own. `MCScriptInTurn` has TLC evaluate it for the script of the runs.
- `SystemRefinesDiary`: `Spec => RefinesDiary`, the refinement of `TripDiary`, under `Reliable`, `TimesOnly`,
  `ScriptInTurn` and `MaxLate = 0`, for any number of trips and relaunches, and requests and answers lost,
  repeated and turned away. Each condition excludes a way to leave the diary: a command that is rejected leaves a gap in
  what the server has; a result is no time, so `Stored` would not show it; and a
  request that arrives after its timeout sets an older value again (section 3).

The argument, step by step, each with lemmas of what the operations do to a queue from
`OutboxLemmas` and what the endpoints do to rows (`CreateParts`, `UpsertParts`, ...):

- *The driver* (`OutboxSystemProofs`). `TypeOK` is inductive with two facts: the call speaks of an entry
  that is in flight and has its type (`Awaited`), and between two requests the drain runs
  (`Looping`). That nothing is forgotten needs two more: a driver at rest has a timer or nothing to
  do (`Rested`), and a loop that found nothing to send finds nothing until it has set the timer
  (`Exhausted`).
- *The queue* (the same module). `QueueMoves` follows from the shape of the queue (`Orderly`): the
  create of a trip comes first and its delete last, every command's trip has an id or a create in
  the queue, a delete under way is alone. Then the oldest command of all can go, unless it is a delete
  with others behind it, and those cannot be. The recorder keeps to it because it issues commands only for
  the trip it records (`Tracked`), which a relaunch knows of (`RecorderSaved`).
- *The trips* (the same module). An id is right by what it says of the row (`Names`): the instant at
  which the row left home was recorded for this trip. Every request, under way or late, does what its
  command meant (`Fits`), whenever it arrives, so no request moves a row to another trip; and a
  row goes only by a delete of a trip the phone is done with or still deletes (`Doomed`).
- *The records* (`OutboxSafeProofs`). `NothingLost` says of each record where it is, but alone it is not
  inductive: a request could overwrite a record on the server with an older value, or a delivered
  command could have said less than it carries. So `RecordsKept` adds an order. Of one field of a trip
  the queue says newer things the later they are queued (`InOrder`), and nothing older than what is under
  way (`Meant`) or on the server (`RowsMeant`). A new command says the newest of all, so merging it into
  the last of its slot keeps the order (`EnqueuedMeant`) and the merged command carries what both did
  (`EnqueuedBears`). The head of a lane is then as new as anything the server has, and serving it takes
  nothing back (`ServedKeeps`); a request that arrives late may, and that is what `overtaken`
  marks. Commands leave the queue in four ways, each accounted for: delivered, so on the server
  (`ServedDelivers`, and the instant a trip began by `CreatedIsThere`); rejected with their dependants, so
  shown (`RejectParts`); discarded, so the trip was cancelled; merged, so carried by another.
- *Cancelled trips* (the same module). `CancelledGone` speaks of an empty queue; what leads there is that
  each trip that was cancelled, and has a row or may get one, has a delete in the queue (`Going`). Whether one is
  queued, `discard` decides by what it knows: a trip id, or a create that may have landed. So
  `TripsGo` says that this is enough: each row is the one the outbox knows the id of, or comes of a
  create that is still queued, and has failed or has an answer that does not rule out that it landed
  (`Owned`); a trip has one row (`OneRow`), since a create that is sent again finds the row it made
  (`CreateGoes`); and an answer to a delete, delivered or not found, comes only when no row of the trip is
  left (`Truthful`), so the delete may leave the queue. Points go with their row (`PointsOfTrips`).
- *Nothing turned down* (the same module). The server refuses times that are out of order, a `leftHomeAt` that another
  row has, and an attempt whose predecessor it does not have. That the queue is in order is not enough: requests arrive
  late, so a row may hold any mixture of old and new values. But whatever is in a row was recorded for that field
  (`RowHonest`), and the diary has the fields the server compares in their order (`InTurn`), the first before the
  second whatever version of each the row has, so every mixture passes (`HonestInOrder`). The unique index is no
  obstacle, since an update never sets `leftHomeAt` back to the instant its trip was created with, and
  an instant is recorded once (`Unique`, `Named`). A predecessor is on the server or in front of its successor in the
  lane (`Preceded`, which `Visited` starts off for the trip being recorded), so the head of the lane finds it; and a row
  can be gone only when nothing but its delete waits (`NoneWaits`, because only a delete that is the last of its
  trip is sent, `OnlyDeletes`). `TurnKept` is all of this with what it says of the requests under way
  (`CallRight`, `LateRight`).
- *The diary* (the same module). The mapping is that of `OutboxSystem`: `stored` is read off the rows. A row is what
  a prefix of the diary says (`RowIsUpTo`) if it has no gap (`GapFree`): with a record it has whatever was recorded of its
  trip before, or something newer in its place. The prefix then ends with the newest record the row shows
  (`Greatest`), because whatever is shown was recorded for that field (`RowHonest`) and is shown once
  (`ShowsOne`, `OneRow`). `GapFree` is kept since the queue is emptied in order: what was recorded before something a
  command tells is on the server, or in this command or one before it (`Upheld`). When a command
  is the head of its lane there is none before it, so serving it leaves no gap (`AheadOfHead`, `SentGapFree`); when it
  leaves the queue, what it carried is on the server (`Landed`). A new record is upheld, queued by itself or merged, because
  nothing recorded so far is lost (`RecordsKept`) and nothing of its trip waits behind the command that tells it
  (`EnqueuedUpheld`): `merge` looks only at the last command of a lane. A cancel drops commands, but what stays of the trip is under
  way and comes first (`DiscardedUpheld`). A trip that was removed stays away, since no create of it waits
  (`Departed`), and its row was the only one (`Sole`). `PrefixKept` is all of this. Then each step of the
  system is one of the diary or changes nothing there: a record is a `Write` or a `Cancel` (`RecordMaps`), driver and
  relaunch do nothing (`DriveMaps`), and a request that is served brings its own trip to a newer prefix, `Sync`, or takes it
  away, `Remove` (`SentHeld`, `NetworkMaps`).

`SignalCyclesProofs` proves `RulesAgreeHolds`, `OneRowInForceHolds` and `SavedIsStoredHolds`, `[]` of the
property of that name, for any instants, limits of a cycle, day types, edits, number of rows and writes of
others, from `SignalCyclesAssumption` and `GivenAssumption`. The two sides sort rows in their own ways; in the model
both are `InOrder`, the list in which k - 1 elements come before the k-th. `OrderedList` shows that this is a
list of each element once, for any order of a finite set, by counting what is ahead
(`AheadGrows`). So the client's comparison of neighbours, by start, can be
reasoned about: where every row is sound and neighbours do not overlap, no two do
(`NeighboursSuffice`, by the least pair that would; `NeighboursAreEnough`). The server compares neighbours among all
bands of a day, the client among the whole ones; where every row is sound these are the same bands in
the same order (`SameNeighbours`), so both accept the same requests and those have no overlap (`RulesAlike`).
From there `Inv` is inductive. A PUT that nobody overtook has found exactly what is measured (`Alone`), so what it
leaves is its own rows, which were checked together and do not overlap; rows of PUTs under way have ids of their own
(`Typed`, `InsertedAre`); and while no other client has written, what is shown as saved is what a list of the server's
rows looks like, before and after the answer (`Told`). Which row is chosen does not depend on overlaps
(`ChosenIs`), so that half needs no condition.

`TripCorrectionsProofs` proves `OnlyTypedChangesHolds` and `SavedIsStoredHolds`, for any trip, typed values,
requests of the phone, and bounds, from `TripCorrectionsAssumption`. Neither property is inductive: both relate a form to
what is on its way to the server and back. `Inv` adds, for each form that nobody else has
written to (`alone`):

- `Untouched`: a field nobody typed is the same in the form, on the page, on the server and in a read under
  way; `Recorded`: so is an instant with a part below the second, for only whole seconds are typed. Then a
  patch names only what was typed, and never the second an instant has already (`Sent`, from
  `TimeIs` and `CutBack`: a second that is typed and sent is, cut again, the second that was typed). This
  holds also after lost answers, and gives `OnlyTypedChanges`.
- `UpToDate`, `WillShow`, `StoredShows`, `ReadAfter`, `SavedShows`: where the form stands with its one save: the page
  is up to date before it is stored; the form is what the server will have; it is what the server has; and
  a read answered after that has it too, because the read before was dropped (`ReadAgain`). They need every
  save that was stored to be answered (`heard`): after one that was not, `UpToDate` is false, and
  the behaviour above follows.

Two facts carry it from one form to another: a save writes only the fields of its own form (`Writes`), and an
attempt is never taken from a trip that stays (`Follows`), so a form on the page always has its row.

Only model-checked, and why:

- The properties of `RecorderSystem`, and `OneStory`, `PreviewForetells`, `DeparturesRight`, `RulesAgree` and
  `ShownIsStored` of the editor and the upload: they rest on sorting, selecting from or folding over sequences, and the
  induction these need is out of the prover's reach.
- `PatientEditsSurvive`, `MeasuredStay` and `PatientGetsItsFile` of the pages: not proved yet.
- Everything with fairness (`EventuallyInStep`, `LoadEnds`): liveness is out of the prover's reach.

## 6. Running it

    tlc -workers 2 -config MCOutboxSystem_crash.cfg MCOutboxSystem
    tlapm OutboxLemmas.tla
    tlapm OutboxProofs.tla
    tlapm OutboxSystemProofs.tla
    tlapm OutboxSafeProofs.tla
    tlapm TripServerProofs.tla
    tlapm DesktopClientProofs.tla
    tlapm SignalCyclesProofs.tla
    tlapm TripCorrectionsProofs.tla

A module of proofs is checked by itself: `OutboxSafeProofs` extends `OutboxSystemProofs`, which extends
`OutboxLemmas`, and `tlapm` is to be called on each. Each run takes between some seconds and about a quarter of an hour on two cores.

## 7. What is not modelled, and the plan

In this order, most important first:

1. Two transactions of the trip service at once, under READ COMMITTED: the unique index and the
   retry of CommuteTripController.kt:35, and the check of CommuteTripService.kt:102 beside an insert.
   It is the one hazard listed that no property is about. The other places of the kind: two imports of a
   line at once (TransitScheduleService.kt:64), and the parking of `seq_order` (RouteLegService.kt:52).
   That of TrafficSignalCycleService.kt:40 is modelled.
2. `RecorderProofs`: the leg phases only go forward, and `leftHomeAt` and
   `lastMissedDepartureAt` bound what is sent, from which `NeverRefused` follows.
3. `MeasuredStay` of `RouteLegs`, as a proof: every save rechecks the whole, so it should go as in
   `TripServerProofs`.
4. `DepartureAlerts`: `refreshDepartureAlerts` (RecordingSession.swift:138) with its two awaits, alerts firing
   and trips starting in between, on top of `DepartureAlertPlanner`.
5. `GeofencePlanner` as functions: at most 20 regions, merged regions keep every role, the stops of today's
   route never dropped for those of another; and `Recorder` under a plan that changes.
6. `Polling` with the NODATA registry and one failing city; `ExternalCalls` around midnight;
   `Retention` with a failure midway; `MasterSync` beside a search.
7. In `TripViews`, a ride that was turned into a walk after the trip: `ticket.ts` leaves its attempts
   out and `timeline.ts` does not (ticket.ts:139-143). The kind of a leg is fixed in the model, which the
   editor's `MeasuredStay` supports for the legs a trip was recorded on.

Not planned, because there is little state or none, or nothing two actors share: the pages that read
and draw (recommendations and their history and charts, calibration, operations, trip list, GPS map, map
overlay, the ticket's stamp and target), whose queries are in `DesktopQueries`; the
settings form of a route, which has one save of scalar fields; the estimation in analytics, which is
numerical; reads of signals and recommendations; authentication, where the one user has one token; scripts and
deployment. `WhenIOffKit` does I/O; what matters of it, the classification of answers and the
rounding of instants, is in `Outcomes`, `Outbox` and `Recorder`.
