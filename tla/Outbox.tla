------------------------------- MODULE Outbox -------------------------------
(***************************************************************************)
(* The phone's offline outbox (ios/WhenIOffRecorder, Outbox.swift and      *)
(* OutboxCommand.swift): the queue of writes that wait for the network.    *)
(*                                                                         *)
(* The state is one record, box, saved wholesale after every change; the   *)
(* copy on disk is the variable saved.  An outbox that cannot be saved     *)
(* goes on in memory (SavesMayFail), and a relaunch starts from the copy.  *)
(*                                                                         *)
(* entries is a function from the ids of the live entries: ids are handed  *)
(* out in increasing order and never reused, so the order of the array is  *)
(* the order of the ids (Outbox.swift:38).  Clock values are abstracted to *)
(* what the code compares them for: waiting says that notBefore > now.     *)
(***************************************************************************)
EXTENDS Integers, Sequences, FiniteSets, Outcomes

CONSTANTS
  Keys,          \* natural keys of trips: (route, leftHomeAt)
  NoKey,         \* GPS points recorded outside a trip
  Attempts,      \* boarding attempts of a trip: (routeLegId, attemptSeq)
  Values,        \* what a field may be set to
  Nil,           \* a field the request leaves alone
  Points,        \* GPS points
  MaxPoints,     \* the most points the server takes in one batch
  FailureCap,    \* failures of an entry past this one are not counted (bound)
  SavesMayFail   \* whether writing the file can fail

ASSUME OutboxAssumption ==
  /\ NoKey \notin Keys
  /\ Nil \notin Values
  /\ MaxPoints \in Nat \ {0}
  /\ FailureCap \in Nat \ {0}
  /\ SavesMayFail \in BOOLEAN

VARIABLES
  box,    \* OutboxState in memory
  saved   \* the copy the store holds

outboxVars == <<box, saved>>
-----------------------------------------------------------------------------
(* Commands, entries and the state of the outbox. *)

TripFields == {"leftHomeAt", "arrivedDestinationAt"}

AttemptFields ==
  {"arrivedAtStopAt", "vehicleScheduledOrPredictedAt",
   "vehicleActualDepartureAt", "alightedAt", "result"}

TripBodies == [TripFields -> Values \cup {Nil}]
AttemptBodies == [AttemptFields -> Values \cup {Nil}]

Commands ==
  [type : {"createTrip", "deleteTrip"}, key : Keys]
    \cup [type : {"updateTrip"}, key : Keys, body : TripBodies]
    \cup [type : {"upsertAttempt"}, key : Keys, attempt : Attempts,
          body : AttemptBodies]
    \cup [type : {"uploadGps"}, key : Keys \cup {NoKey}, points : Seq(Points)]

Entries == [cmd : Commands, failures : Nat, waiting : BOOLEAN,
            inFlight : BOOLEAN]

DeadLetters == [cmd : Commands, reason : {"rejected", "tripRejected"}]

Empty ==
  [entries |-> << >>, tripIds |-> << >>, deadLetters |-> {}, nextId |-> 1,
   paused |-> FALSE]

IsState(b) ==
  /\ DOMAIN b = DOMAIN Empty
  /\ b.nextId \in Nat \ {0}
  /\ DOMAIN b.entries \subseteq 1..(b.nextId - 1)
  /\ b.entries \in [DOMAIN b.entries -> Entries]
  /\ DOMAIN b.tripIds \subseteq Keys
  /\ b.tripIds \in [DOMAIN b.tripIds -> Nat]
  /\ b.deadLetters \subseteq DeadLetters
  /\ b.paused \in BOOLEAN

Ids(b) == DOMAIN b.entries

Lane(cmd) ==
  IF cmd.type = "uploadGps" THEN <<"gps", cmd.key>> ELSE <<"record", cmd.key>>

LaneOf(b, i) == Lane(b.entries[i].cmd)

IsDelete(cmd) == cmd.type = "deleteTrip"

Without(f, S) == [x \in DOMAIN f \ S |-> f[x]]

-----------------------------------------------------------------------------
(* Putting commands in. *)

NewEntry(cmd) ==
  [cmd |-> cmd, failures |-> 0, waiting |-> FALSE, inFlight |-> FALSE]

(* Faulty: for a batch cut into several commands the counter moves on by   *)
(* one, so a later command gets an id that is in use.                      *)
AppendAllOnOneId(b, n, cmds) ==
  [b EXCEPT !.entries = [i \in Ids(b) \cup b.nextId..(b.nextId + n - 1) |->
                           IF i \in Ids(b) THEN b.entries[i]
                           ELSE NewEntry(cmds[i - b.nextId + 1])],
            !.nextId = b.nextId + 1]

AppendAll(b, n, cmds) ==
  [b EXCEPT !.entries = [i \in Ids(b) \cup b.nextId..(b.nextId + n - 1) |->
                           IF i \in Ids(b) THEN b.entries[i]
                           ELSE NewEntry(cmds[i - b.nextId + 1])],
            !.nextId = b.nextId + n]

AppendOne(b, cmd) == AppendAll(b, 1, <<cmd>>)

(* old.merged(with: new): a field the newer request leaves alone keeps the *)
(* older value.                                                            *)
Merged(old, new) ==
  [f \in DOMAIN old |-> IF new[f] # Nil THEN new[f] ELSE old[f]]

LaneTail(b, lane) ==
  {i \in Ids(b) : /\ LaneOf(b, i) = lane
                  /\ \A j \in Ids(b) : LaneOf(b, j) = lane => j <= i}

(* Faulty: merges into what was already sent.                              *)
MergeableInFlight(b, cmd) ==
  {i \in LaneTail(b, Lane(cmd)) :
     LET old == b.entries[i].cmd
     IN  /\ old.type = cmd.type
         /\ \/ cmd.type = "updateTrip"
            \/ cmd.type = "upsertAttempt" /\ old.attempt = cmd.attempt}

Mergeable(b, cmd) ==
  {i \in LaneTail(b, Lane(cmd)) :
     LET old == b.entries[i].cmd
     IN  /\ ~b.entries[i].inFlight
         /\ old.type = cmd.type
         /\ \/ cmd.type = "updateTrip"
            \/ cmd.type = "upsertAttempt" /\ old.attempt = cmd.attempt}

MergeIntoLaneTail(b, cmd) ==
  [b EXCEPT !.entries = [i \in Ids(b) |->
     IF i \in Mergeable(b, cmd)
     THEN [b.entries[i] EXCEPT !.cmd.body = Merged(@, cmd.body)]
     ELSE b.entries[i]]]

(* points, cut into runs of at most MaxPoints *)
Chunks(points) ==
  [c \in 1..((Len(points) + MaxPoints - 1) \div MaxPoints) |->
     SubSeq(points, (c - 1) * MaxPoints + 1,
            IF c * MaxPoints < Len(points) THEN c * MaxPoints ELSE Len(points))]

Enqueued(b, cmd) ==
  IF cmd.type = "uploadGps"
  THEN LET chunks == Chunks(cmd.points)
           cmds == [c \in DOMAIN chunks |-> [cmd EXCEPT !.points = chunks[c]]]
       IN  AppendAll(b, Len(chunks), cmds)
  ELSE IF Mergeable(b, cmd) # {} THEN MergeIntoLaneTail(b, cmd)
       ELSE AppendOne(b, cmd)

-----------------------------------------------------------------------------
(* Taking the next one out. *)

IsLaneHead(b, i) ==
  \A j \in Ids(b) : LaneOf(b, j) = LaneOf(b, i) => i <= j

Resolvable(b, cmd) ==
  \/ cmd.type = "createTrip"
  \/ cmd.type = "uploadGps" /\ cmd.key = NoKey
  \/ cmd.key \in DOMAIN b.tripIds

AloneInTrip(b, i) ==
  \A j \in Ids(b) \ {i} : b.entries[j].cmd.key # b.entries[i].cmd.key

(* Faulty: the rest of a lane goes on while its head waits for a retry.    *)
ReadyPastWaiting(b) ==
  {i \in Ids(b) :
     /\ ~b.paused
     /\ \A j \in Ids(b) :
          LaneOf(b, j) = LaneOf(b, i) /\ ~b.entries[j].waiting => i <= j
     /\ ~b.entries[i].inFlight
     /\ ~b.entries[i].waiting
     /\ IsDelete(b.entries[i].cmd) => AloneInTrip(b, i)
     /\ Resolvable(b, b.entries[i].cmd)}

Ready(b) ==
  {i \in Ids(b) :
     /\ ~b.paused
     /\ IsLaneHead(b, i)
     /\ ~b.entries[i].inFlight
     /\ ~b.entries[i].waiting
     /\ IsDelete(b.entries[i].cmd) => AloneInTrip(b, i)
     /\ Resolvable(b, b.entries[i].cmd)}

Dispatchable(b) == {i \in Ready(b) : \A j \in Ready(b) : i <= j}

Dispatched(b, i) == [b EXCEPT !.entries[i].inFlight = TRUE]

(* There is a retry to wait for (nextWakeAt is not nil). *)
HasWake(b) == ~b.paused /\ \E i \in Ids(b) : b.entries[i].waiting

-----------------------------------------------------------------------------
(* Results: what APIClient.send returned, and what RetryPolicy makes of it.*)

Decide(outcome, cmd) ==
  CASE outcome = Transient    -> "retry"
    [] outcome = Unauthorized -> "pause"
    [] outcome = NotFound     -> IF IsDelete(cmd) THEN "treatAsDelivered"
                                 ELSE "reject"
    [] outcome = Unreadable   -> IF cmd.type = "createTrip" THEN "reject"
                                 ELSE "treatAsDelivered"
    [] outcome = Refused      -> "reject"

AfterTripCreated(b, i, id) ==
  [b EXCEPT !.entries = Without(b.entries, {i}),
            !.tripIds = [k \in DOMAIN b.tripIds \cup {b.entries[i].cmd.key} |->
                           IF k = b.entries[i].cmd.key THEN id
                           ELSE b.tripIds[k]]]

(* Faulty: a deleted trip keeps its id.                                    *)
AfterDeliveredKeepingId(b, i) == [b EXCEPT !.entries = Without(b.entries, {i})]

AfterDelivered(b, i) ==
  [b EXCEPT !.entries = Without(b.entries, {i}),
            !.tripIds = IF IsDelete(b.entries[i].cmd)
                        THEN Without(b.tripIds, {b.entries[i].cmd.key})
                        ELSE b.tripIds]

(* The code counts without a limit; the delay stops growing.               *)
AfterRetry(b, i) ==
  [b EXCEPT !.entries[i].inFlight = FALSE,
            !.entries[i].failures = IF @ < FailureCap THEN @ + 1 ELSE @,
            !.entries[i].waiting = TRUE]

AfterPause(b, i) ==
  [b EXCEPT !.entries[i].inFlight = FALSE, !.paused = TRUE]

OfTrip(b, key) == {i \in Ids(b) : b.entries[i].cmd.key = key}

Dependents(b, i) ==
  IF b.entries[i].cmd.type = "createTrip"
  THEN OfTrip(b, b.entries[i].cmd.key) \ {i} ELSE {}

(* Faulty: what depended on a refused trip disappears without a word.      *)
AfterRejectInSilence(b, i) ==
  [b EXCEPT
     !.entries = Without(b.entries, {i} \cup Dependents(b, i)),
     !.deadLetters = @ \cup {[cmd |-> b.entries[i].cmd, reason |-> "rejected"]}]

AfterReject(b, i) ==
  [b EXCEPT
     !.entries = Without(b.entries, {i} \cup Dependents(b, i)),
     !.deadLetters =
       @ \cup {[cmd |-> b.entries[i].cmd, reason |-> "rejected"]}
         \cup {[cmd |-> b.entries[j].cmd, reason |-> "tripRejected"] :
                 j \in {d \in Dependents(b, i) : ~IsDelete(b.entries[d].cmd)}}]

Completed(b, i, outcome) ==
  IF outcome.type = "tripCreated" THEN AfterTripCreated(b, i, outcome.tripId)
  ELSE IF outcome = Delivered THEN AfterDelivered(b, i)
  ELSE LET decision == Decide(outcome, b.entries[i].cmd) IN
       CASE decision = "retry"            -> AfterRetry(b, i)
         [] decision = "pause"            -> AfterPause(b, i)
         [] decision = "treatAsDelivered" -> AfterDelivered(b, i)
         [] decision = "reject"           -> AfterReject(b, i)

(* What send can return for a command. *)
OutcomesOf(cmd, ids) ==
  IF cmd.type = "createTrip" THEN {TripCreated(id) : id \in ids} \cup Failures
  ELSE {Delivered} \cup Failures

-----------------------------------------------------------------------------
(* Operation by the user and the system. *)

(* Faulty: forgets a create that failed before and may have landed then.   *)
CreateIsInFlight(b, key) ==
  \E i \in OfTrip(b, key) : /\ b.entries[i].cmd.type = "createTrip"
                            /\ b.entries[i].inFlight

CreateMayHaveLanded(b, key) ==
  \E i \in OfTrip(b, key) : /\ b.entries[i].cmd.type = "createTrip"
                            /\ b.entries[i].inFlight \/ b.entries[i].failures > 0

Deleting(b, key) == \E i \in OfTrip(b, key) : IsDelete(b.entries[i].cmd)

(* Faulty: drops the create the delete needs for its trip id.              *)
DiscardableWithCreate(b, key) ==
  {i \in OfTrip(b, key) : ~b.entries[i].inFlight /\ ~IsDelete(b.entries[i].cmd)}

Discardable(b, key) ==
  {i \in OfTrip(b, key) :
     /\ ~b.entries[i].inFlight
     /\ ~IsDelete(b.entries[i].cmd)
     /\ b.entries[i].cmd.type = "createTrip" => ~CreateMayHaveLanded(b, key)}

Discarded(b, key) ==
  LET rest == [b EXCEPT !.entries = Without(b.entries, Discardable(b, key))]
  IN  IF /\ ~Deleting(b, key)
         /\ key \in DOMAIN b.tripIds \/ CreateMayHaveLanded(b, key)
      THEN AppendOne(rest, [type |-> "deleteTrip", key |-> key])
      ELSE rest

Resumed(b) == [b EXCEPT !.paused = FALSE]

Expedited(b) ==
  [b EXCEPT !.entries = [i \in Ids(b) |-> [b.entries[i] EXCEPT !.waiting = FALSE]]]

Cleared(b) == [b EXCEPT !.deadLetters = {}]

Due(b, i) == [b EXCEPT !.entries[i].waiting = FALSE]

(* Faulty: takes what was under way as delivered.                          *)
ReloadedDelivered(b) ==
  [b EXCEPT !.entries = Without(b.entries,
                                {i \in Ids(b) : b.entries[i].inFlight})]

(* init(store:): what was in flight has an unknown result and is sent again *)
Reloaded(b) ==
  [b EXCEPT !.entries = [i \in Ids(b) |-> [b.entries[i] EXCEPT !.inFlight = FALSE]]]

-----------------------------------------------------------------------------
(* Every mutation ends in persist(): the store takes the new state, or     *)
(* throws and keeps the old one while memory goes on.                      *)
Persist(b) ==
  /\ box' = b
  /\ \/ saved' = b
     \/ SavesMayFail /\ saved' = saved

OutboxInit ==
  /\ box = Empty
  /\ saved = Empty

Enqueue(cmd) == Persist(Enqueued(box, cmd))

SendNext == \E i \in Dispatchable(box) : Persist(Dispatched(box, i))

Complete(i, outcome) ==
  /\ i \in Ids(box)
  /\ box.entries[i].inFlight
  /\ Persist(Completed(box, i, outcome))

Discard(key) == Persist(Discarded(box, key))

Resume == Persist(Resumed(box))

ExpediteRetries == Persist(Expedited(box))

ClearDeadLetters == Persist(Cleared(box))

(* The clock passes the notBefore of entry i; the file holds the instant,  *)
(* so it is due there too if the file has the same wait.                   *)
RetryDue(i) ==
  /\ i \in Ids(box)
  /\ box.entries[i].waiting
  /\ box' = Due(box, i)
  /\ saved' = IF i \in Ids(saved) THEN Due(saved, i) ELSE saved

Relaunch ==
  /\ box' = Reloaded(saved)
  /\ UNCHANGED saved

=============================================================================
