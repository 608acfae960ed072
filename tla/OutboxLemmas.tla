---------------------------- MODULE OutboxLemmas ----------------------------
(***************************************************************************)
(* What the operations of Outbox keep, for any keys, commands, limits and  *)
(* ids, and whoever uses the queue.                                        *)
(***************************************************************************)
EXTENDS Outbox, SequenceTheorems, WellFoundedInduction, TLAPS

(* What every operation but the sending of a request does to the entries:  *)
(* the ones that stay keep their lane and, while they are under way, their *)
(* command, none of them starts to be under way, and new ones come last.   *)
KeepsSent(b, c) ==
  \A i \in Ids(c) \cap Ids(b) :
    /\ LaneOf(c, i) = LaneOf(b, i)
    /\ c.entries[i].inFlight =>
         b.entries[i].inFlight /\ c.entries[i].cmd = b.entries[i].cmd

NewComeLast(b, c) ==
  \A i \in Ids(c) \ Ids(b) :
    /\ ~c.entries[i].inFlight
    /\ \A j \in Ids(b) : j < i

Gentle(b, c) == IsState(c) /\ KeepsSent(b, c) /\ NewComeLast(b, c)

HeadsOnly(b) == \A i \in Ids(b) : b.entries[i].inFlight => IsLaneHead(b, i)

-----------------------------------------------------------------------------
(* The parts of a state. *)

(* The fields of the record. *)
LEMMA StateDomain ==
  DOMAIN Empty = {"entries", "tripIds", "deadLetters", "nextId", "paused"}
BY DEF Empty

(* What the type of a state says of its entries. *)
LEMMA StateFields ==
  ASSUME NEW b, IsState(b)
  PROVE  /\ b.nextId \in Nat \ {0}
         /\ Ids(b) \subseteq 1..(b.nextId - 1)
         /\ \A i \in Ids(b) : b.entries[i] \in Entries
         /\ b.entries = [i \in Ids(b) |-> b.entries[i]]
BY DEF IsState, Ids

(* What the type of an entry says of its parts. *)
LEMMA EntryFields ==
  ASSUME NEW e \in Entries
  PROVE  /\ e = [cmd |-> e.cmd, failures |-> e.failures,
                 waiting |-> e.waiting, inFlight |-> e.inFlight]
         /\ e.cmd \in Commands
         /\ e.failures \in Nat
         /\ e.waiting \in BOOLEAN
         /\ e.inFlight \in BOOLEAN
BY DEF Entries

(* An operation that adds no entry is gentle when each entry that stays is *)
(* treated gently.                                                         *)
LEMMA SomeStay ==
  ASSUME NEW b, IsState(b), NEW c, DOMAIN c = DOMAIN Empty,
         c.nextId = b.nextId, c.paused \in BOOLEAN,
         DOMAIN c.tripIds \subseteq Keys, c.tripIds \in [DOMAIN c.tripIds -> Nat],
         c.deadLetters \subseteq DeadLetters,
         Ids(c) \subseteq Ids(b),
         c.entries = [i \in Ids(c) |-> c.entries[i]],
         \A i \in Ids(c) :
           /\ c.entries[i] \in Entries
           /\ LaneOf(c, i) = LaneOf(b, i)
           /\ c.entries[i].inFlight =>
                b.entries[i].inFlight /\ c.entries[i].cmd = b.entries[i].cmd
  PROVE  Gentle(b, c)
<1>1. IsState(c)
  BY StateFields DEF IsState, Ids
<1>2. KeepsSent(b, c)
  BY DEF KeepsSent
<1>3. NewComeLast(b, c)
  BY DEF NewComeLast
<1> QED BY <1>1, <1>2, <1>3 DEF Gentle

(* A gentle operation never lets a command overtake one of its lane that   *)
(* is under way.                                                           *)
LEMMA GentleKeepsHeads ==
  ASSUME NEW b, NEW c, IsState(b), Gentle(b, c), HeadsOnly(b)
  PROVE  HeadsOnly(c)
<1> SUFFICES ASSUME NEW i \in Ids(c), c.entries[i].inFlight,
                    NEW j \in Ids(c), LaneOf(c, j) = LaneOf(c, i)
             PROVE  i <= j
  BY DEF HeadsOnly, IsLaneHead
<1>1. i \in Ids(b) /\ b.entries[i].inFlight /\ LaneOf(c, i) = LaneOf(b, i)
  BY DEF Gentle, NewComeLast, KeepsSent
<1>2. i \in Nat /\ j \in Nat
  <2>1. IsState(c)
    BY DEF Gentle
  <2>2. c.nextId \in Nat /\ Ids(c) \subseteq 1..(c.nextId - 1)
    BY <2>1, StateFields
  <2> QED BY <2>2
<1>3. CASE j \in Ids(b)
  <2>1. LaneOf(b, j) = LaneOf(b, i)
    BY <1>1, <1>3 DEF Gentle, KeepsSent
  <2> QED BY <1>1, <1>3, <2>1 DEF HeadsOnly, IsLaneHead
<1>4. CASE j \notin Ids(b)
  BY <1>1, <1>2, <1>4 DEF Gentle, NewComeLast
<1> QED BY <1>3, <1>4

-----------------------------------------------------------------------------
(* Putting commands in. *)

(* New entries come after all others and are not under way.                *)
LEMMA AppendAllGentle ==
  ASSUME NEW b, IsState(b), NEW n \in Nat, NEW cmds \in [1..n -> Commands]
  PROVE  Gentle(b, AppendAll(b, n, cmds))
<1> DEFINE c == AppendAll(b, n, cmds)
           new == b.nextId..(b.nextId + n - 1)
<1>1. b.nextId \in Nat \ {0} /\ Ids(b) \subseteq 1..(b.nextId - 1)
  BY StateFields
<1>2. /\ DOMAIN c = DOMAIN Empty
      /\ c.nextId = b.nextId + n
      /\ c.tripIds = b.tripIds
      /\ c.deadLetters = b.deadLetters
      /\ c.paused = b.paused
  BY StateDomain DEF AppendAll, IsState
<1>3. c.entries = [i \in Ids(b) \cup new |->
                     IF i \in Ids(b) THEN b.entries[i]
                     ELSE NewEntry(cmds[i - b.nextId + 1])]
  BY StateDomain DEF AppendAll, IsState
<1> HIDE DEF c
<1>4. ASSUME NEW i \in new PROVE NewEntry(cmds[i - b.nextId + 1]) \in Entries
  <2>1. i - b.nextId + 1 \in 1..n
    BY <1>1, <1>4
  <2> QED BY <2>1, OutboxAssumption DEF NewEntry, Entries
<1>5. c.entries \in [DOMAIN c.entries -> Entries]
  BY <1>3, <1>4, StateFields
<1>6. DOMAIN c.entries \subseteq 1..(b.nextId + n - 1)
  BY <1>1, <1>3
<1>7. IsState(c)
  BY <1>1, <1>2, <1>5, <1>6 DEF IsState
<1>8. KeepsSent(b, c)
  BY <1>3 DEF KeepsSent, LaneOf, Ids
<1>9. NewComeLast(b, c)
  BY <1>1, <1>3 DEF NewComeLast, NewEntry, Ids
<1> QED BY <1>7, <1>8, <1>9 DEF Gentle, c

(* A merged body is a body of the same kind. *)
LEMMA MergedBody ==
  ASSUME NEW F, NEW old \in [F -> Values \cup {Nil}],
         NEW new \in [F -> Values \cup {Nil}]
  PROVE  Merged(old, new) \in [F -> Values \cup {Nil}]
BY DEF Merged

(* Merging rewrites only entries that are not under way (Outbox.swift:176). *)
LEMMA MergeGentle ==
  ASSUME NEW b, IsState(b), NEW cmd \in Commands
  PROVE  Gentle(b, MergeIntoLaneTail(b, cmd))
<1> DEFINE c == MergeIntoLaneTail(b, cmd)
           M == Mergeable(b, cmd)
<1>1. /\ DOMAIN c = DOMAIN Empty
      /\ c.nextId = b.nextId
      /\ c.tripIds = b.tripIds
      /\ c.deadLetters = b.deadLetters
      /\ c.paused = b.paused
      /\ c.entries = [i \in Ids(b) |->
           IF i \in M
           THEN [b.entries[i] EXCEPT !.cmd.body = Merged(@, cmd.body)]
           ELSE b.entries[i]]
  BY StateDomain DEF MergeIntoLaneTail, IsState
<1>2. ASSUME NEW i \in Ids(b), i \in M
      PROVE  /\ c.entries[i] \in Entries
             /\ LaneOf(c, i) = LaneOf(b, i)
             /\ ~c.entries[i].inFlight
  <2> DEFINE old == b.entries[i].cmd
             merged == [old EXCEPT !.body = Merged(@, cmd.body)]
  <2>1. /\ b.entries[i] \in Entries
        /\ ~b.entries[i].inFlight
        /\ old.type = cmd.type
        /\ cmd.type \in {"updateTrip", "upsertAttempt"}
    BY <1>2, StateFields DEF Mergeable
  <2>2. old \in Commands
    BY <2>1 DEF Entries
  <2>3. merged \in Commands /\ Lane(merged) = Lane(old)
    <3>1. CASE cmd.type = "updateTrip"
      <4>1. /\ old \in [type : {"updateTrip"}, key : Keys, body : TripBodies]
            /\ cmd \in [type : {"updateTrip"}, key : Keys, body : TripBodies]
        BY <2>1, <2>2, <3>1 DEF Commands
      <4>2. Merged(old.body, cmd.body) \in TripBodies
        BY <4>1, MergedBody DEF TripBodies
      <4>3. merged \in [type : {"updateTrip"}, key : Keys, body : TripBodies]
        BY <4>1, <4>2
      <4> QED BY <4>1, <4>3 DEF Commands, Lane
    <3>2. CASE cmd.type = "upsertAttempt"
      <4>1. /\ old \in [type : {"upsertAttempt"}, key : Keys,
                        attempt : Attempts, body : AttemptBodies]
            /\ cmd \in [type : {"upsertAttempt"}, key : Keys,
                        attempt : Attempts, body : AttemptBodies]
        BY <2>1, <2>2, <3>2 DEF Commands
      <4>2. Merged(old.body, cmd.body) \in AttemptBodies
        BY <4>1, MergedBody DEF AttemptBodies
      <4>3. merged \in [type : {"upsertAttempt"}, key : Keys,
                        attempt : Attempts, body : AttemptBodies]
        BY <4>1, <4>2
      <4> QED BY <4>1, <4>3 DEF Commands, Lane
    <3> QED BY <2>1, <3>1, <3>2
  <2>4. c.entries[i] = [b.entries[i] EXCEPT !.cmd = merged]
    BY <1>1, <1>2, <2>1 DEF Entries
  <2> HIDE DEF merged, c
  <2>5. /\ c.entries[i] \in Entries
        /\ c.entries[i].cmd = merged
        /\ ~c.entries[i].inFlight
    BY <2>1, <2>3, <2>4 DEF Entries
  <2> QED BY <2>3, <2>5 DEF LaneOf
<1>3. ASSUME NEW i \in Ids(b), i \notin M PROVE c.entries[i] = b.entries[i]
  BY <1>1, <1>3
<1> HIDE DEF c
<1>4. Ids(c) = Ids(b) /\ c.entries = [i \in Ids(c) |-> c.entries[i]]
  BY <1>1 DEF Ids
<1>5. \A i \in Ids(c) :
        /\ c.entries[i] \in Entries
        /\ LaneOf(c, i) = LaneOf(b, i)
        /\ c.entries[i].inFlight =>
             b.entries[i].inFlight /\ c.entries[i].cmd = b.entries[i].cmd
  BY <1>2, <1>3, <1>4, StateFields DEF LaneOf
<1>6. /\ DOMAIN c = DOMAIN Empty
      /\ c.nextId = b.nextId
      /\ c.paused \in BOOLEAN
      /\ DOMAIN c.tripIds \subseteq Keys
      /\ c.tripIds \in [DOMAIN c.tripIds -> Nat]
      /\ c.deadLetters \subseteq DeadLetters
  BY <1>1 DEF IsState
<1>7. Gentle(b, c)
  BY <1>4, <1>5, <1>6, SomeStay
<1> QED BY <1>7 DEF c

(* A batch is cut into runs of at least one and at most MaxPoints points,  *)
(* so no upload is refused for its size or for being empty.                *)
THEOREM ChunksFit ==
  ASSUME NEW points \in Seq(Points)
  PROVE  /\ Len(Chunks(points)) \in Nat
         /\ Chunks(points) \in [1..Len(Chunks(points)) -> Seq(Points)]
         /\ \A c \in 1..Len(Chunks(points)) :
              Len(Chunks(points)[c]) \in 1..MaxPoints
<1> DEFINE L == Len(points)
           M == MaxPoints
           N == (L + M - 1) \div M
           run(c) == SubSeq(points, (c - 1) * M + 1, IF c * M < L THEN c * M ELSE L)
<1>1. L \in Nat /\ M \in Nat \ {0}
  BY OutboxAssumption
<1>2. N \in Nat /\ N * M <= L + M - 1
  BY <1>1
<1>3. Chunks(points) = [c \in 1..N |-> run(c)] /\ Len(Chunks(points)) = N
  BY <1>2 DEF Chunks
<1>4. ASSUME NEW c \in 1..N
      PROVE  run(c) \in Seq(Points) /\ Len(run(c)) \in 1..M
  <2> DEFINE first == (c - 1) * M + 1
             last == IF c * M < L THEN c * M ELSE L
  <2>1. c * M <= N * M
    BY <1>1, <1>2, <1>4
  <2>2. c * M \in Nat /\ (c - 1) * M = c * M - M /\ (c - 1) * M >= 0
    BY <1>1, <1>2, <1>4
  <2>3. first \in Nat \ {0} /\ first <= L /\ last \in Nat /\ first <= last
        /\ last <= L /\ last - first + 1 \in 1..M
    BY <1>1, <1>2, <2>1, <2>2
  <2>4. \A i \in first..last : points[i] \in Points
    BY <2>3
  <2> HIDE DEF first, last
  <2>5. /\ SubSeq(points, first, last) \in Seq(Points)
        /\ Len(SubSeq(points, first, last)) = last - first + 1
    BY <2>3, <2>4, SubSeqProperties
  <2> QED BY <2>3, <2>5 DEF first, last
<1> QED BY <1>2, <1>3, <1>4

(* Putting a command in, merged, cut or appended, is gentle.               *)
LEMMA EnqueuedGentle ==
  ASSUME NEW b, IsState(b), NEW cmd \in Commands
  PROVE  Gentle(b, Enqueued(b, cmd))
<1>1. CASE cmd.type = "uploadGps"
  <2> DEFINE chunks == Chunks(cmd.points)
             cmds == [c \in DOMAIN chunks |-> [cmd EXCEPT !.points = chunks[c]]]
  <2>1. cmd \in [type : {"uploadGps"}, key : Keys \cup {NoKey},
                 points : Seq(Points)]
    BY <1>1 DEF Commands
  <2>2. /\ Len(chunks) \in Nat
        /\ chunks \in [1..Len(chunks) -> Seq(Points)]
    BY <2>1, ChunksFit
  <2> HIDE DEF chunks
  <2>3. cmds \in [1..Len(chunks) -> Commands]
    BY <2>1, <2>2 DEF Commands
  <2> HIDE DEF cmds
  <2>4. Gentle(b, AppendAll(b, Len(chunks), cmds))
    BY <2>2, <2>3, AppendAllGentle
  <2> QED BY <1>1, <2>4 DEF Enqueued, chunks, cmds
<1>2. CASE cmd.type # "uploadGps" /\ Mergeable(b, cmd) # {}
  BY <1>2, MergeGentle DEF Enqueued
<1>3. CASE cmd.type # "uploadGps" /\ Mergeable(b, cmd) = {}
  <2>1. <<cmd>> \in [1..1 -> Commands]
    OBVIOUS
  <2>2. Gentle(b, AppendAll(b, 1, <<cmd>>))
    BY <2>1, AppendAllGentle
  <2> QED BY <1>3, <2>2 DEF Enqueued, AppendOne
<1> QED BY <1>1, <1>2, <1>3

-----------------------------------------------------------------------------
(* Results. *)

(* Entries may go away (an answer, a rejection, a discard).                *)
LEMMA WithoutGentle ==
  ASSUME NEW b, IsState(b), NEW c, NEW S, DOMAIN c = DOMAIN Empty,
         c.entries = Without(b.entries, S),
         c.nextId = b.nextId, c.paused \in BOOLEAN,
         DOMAIN c.tripIds \subseteq Keys, c.tripIds \in [DOMAIN c.tripIds -> Nat],
         c.deadLetters \subseteq DeadLetters
  PROVE  Gentle(b, c)
<1>1. /\ Ids(c) \subseteq Ids(b)
      /\ c.entries = [i \in Ids(c) |-> c.entries[i]]
      /\ \A i \in Ids(c) : c.entries[i] = b.entries[i]
  BY DEF Ids, Without
<1>2. \A i \in Ids(c) :
        /\ c.entries[i] \in Entries
        /\ LaneOf(c, i) = LaneOf(b, i)
        /\ c.entries[i].inFlight =>
             b.entries[i].inFlight /\ c.entries[i].cmd = b.entries[i].cmd
  BY <1>1, StateFields DEF LaneOf
<1> QED BY <1>1, <1>2, SomeStay

(* A trip id arrives: its create leaves the queue.                         *)
LEMMA AfterTripCreatedGentle ==
  ASSUME NEW b, IsState(b), NEW i \in Ids(b), NEW id \in Nat,
         b.entries[i].cmd.key \in Keys
  PROVE  Gentle(b, AfterTripCreated(b, i, id))
<1> DEFINE c == AfterTripCreated(b, i, id)
<1>1. /\ DOMAIN c = DOMAIN Empty
      /\ c.entries = Without(b.entries, {i})
      /\ c.nextId = b.nextId
      /\ c.paused = b.paused
      /\ c.deadLetters = b.deadLetters
      /\ c.tripIds = [k \in DOMAIN b.tripIds \cup {b.entries[i].cmd.key} |->
                        IF k = b.entries[i].cmd.key THEN id ELSE b.tripIds[k]]
  BY StateDomain DEF AfterTripCreated, IsState
<1> HIDE DEF c
<1>2. DOMAIN c.tripIds \subseteq Keys /\ c.tripIds \in [DOMAIN c.tripIds -> Nat]
  BY <1>1 DEF IsState
<1>3. c.paused \in BOOLEAN /\ c.deadLetters \subseteq DeadLetters
  BY <1>1 DEF IsState
<1>4. Gentle(b, c)
  BY <1>1, <1>2, <1>3, WithoutGentle
<1> QED BY <1>4 DEF c

(* A delivered command leaves the queue.                                   *)
LEMMA AfterDeliveredGentle ==
  ASSUME NEW b, IsState(b), NEW i \in Ids(b)
  PROVE  Gentle(b, AfterDelivered(b, i))
<1> DEFINE c == AfterDelivered(b, i)
<1>1. /\ DOMAIN c = DOMAIN Empty
      /\ c.entries = Without(b.entries, {i})
      /\ c.nextId = b.nextId
      /\ c.paused = b.paused
      /\ c.deadLetters = b.deadLetters
      /\ \/ c.tripIds = b.tripIds
         \/ c.tripIds = Without(b.tripIds, {b.entries[i].cmd.key})
  BY StateDomain DEF AfterDelivered, IsState
<1> HIDE DEF c
<1>2. DOMAIN c.tripIds \subseteq Keys /\ c.tripIds \in [DOMAIN c.tripIds -> Nat]
  BY <1>1 DEF IsState, Without
<1>3. c.paused \in BOOLEAN /\ c.deadLetters \subseteq DeadLetters
  BY <1>1 DEF IsState
<1>4. Gentle(b, c)
  BY <1>1, <1>2, <1>3, WithoutGentle
<1> QED BY <1>4 DEF c

(* An operation that changes one entry, in place.                          *)
LEMMA OneChangedGentle ==
  ASSUME NEW b, IsState(b), NEW c, NEW i \in Ids(b), NEW e \in Entries,
         e.cmd = b.entries[i].cmd, ~e.inFlight,
         DOMAIN c = DOMAIN Empty, c.entries = [b.entries EXCEPT ![i] = e],
         c.nextId = b.nextId, c.paused \in BOOLEAN,
         c.tripIds = b.tripIds, c.deadLetters = b.deadLetters
  PROVE  Gentle(b, c)
<1>1. Ids(c) = Ids(b) /\ c.entries = [j \in Ids(c) |-> c.entries[j]]
  BY StateFields DEF Ids
<1>2. \A j \in Ids(c) : c.entries[j] = IF j = i THEN e ELSE b.entries[j]
  BY StateFields DEF Ids
<1>3. \A j \in Ids(c) :
        /\ c.entries[j] \in Entries
        /\ LaneOf(c, j) = LaneOf(b, j)
        /\ c.entries[j].inFlight =>
             b.entries[j].inFlight /\ c.entries[j].cmd = b.entries[j].cmd
  BY <1>1, <1>2, StateFields DEF LaneOf
<1>4. /\ DOMAIN c.tripIds \subseteq Keys
      /\ c.tripIds \in [DOMAIN c.tripIds -> Nat]
      /\ c.deadLetters \subseteq DeadLetters
  BY DEF IsState
<1> QED BY <1>1, <1>3, <1>4, SomeStay

(* A retry stays in its place and is not under way any more.               *)
LEMMA AfterRetryGentle ==
  ASSUME NEW b, IsState(b), NEW i \in Ids(b)
  PROVE  Gentle(b, AfterRetry(b, i))
<1> DEFINE c == AfterRetry(b, i)
           e == [b.entries[i] EXCEPT
                   !.inFlight = FALSE,
                   !.failures = IF @ < FailureCap THEN @ + 1 ELSE @,
                   !.waiting = TRUE]
<1>1. /\ DOMAIN c = DOMAIN Empty
      /\ c.entries = [b.entries EXCEPT ![i] = e]
      /\ c.nextId = b.nextId
      /\ c.paused = b.paused
      /\ c.tripIds = b.tripIds
      /\ c.deadLetters = b.deadLetters
  BY StateDomain DEF AfterRetry, IsState
<1>2. e \in Entries /\ e.cmd = b.entries[i].cmd /\ ~e.inFlight
  <2>1. b.entries[i] \in Entries
    BY StateFields
  <2> DEFINE f == b.entries[i].failures
             g == IF f < FailureCap THEN f + 1 ELSE f
  <2>2. f \in Nat
    BY <2>1 DEF Entries
  <2>3. g \in Nat
    BY <2>2
  <2>4. e = [b.entries[i] EXCEPT !.inFlight = FALSE, !.failures = g,
                                 !.waiting = TRUE]
    OBVIOUS
  <2> HIDE DEF g, e
  <2> QED BY <2>1, <2>3, <2>4 DEF Entries
<1>3. c.paused \in BOOLEAN
  BY <1>1 DEF IsState
<1> HIDE DEF c, e
<1>4. Gentle(b, c)
  BY <1>1, <1>2, <1>3, OneChangedGentle
<1> QED BY <1>4 DEF c

(* So does what was refused for the token.                                 *)
LEMMA AfterPauseGentle ==
  ASSUME NEW b, IsState(b), NEW i \in Ids(b)
  PROVE  Gentle(b, AfterPause(b, i))
<1> DEFINE c == AfterPause(b, i)
           e == [b.entries[i] EXCEPT !.inFlight = FALSE]
<1>1. /\ DOMAIN c = DOMAIN Empty
      /\ c.entries = [b.entries EXCEPT ![i] = e]
      /\ c.nextId = b.nextId
      /\ c.paused = TRUE
      /\ c.tripIds = b.tripIds
      /\ c.deadLetters = b.deadLetters
  BY StateDomain DEF AfterPause, IsState
<1>2. e \in Entries /\ e.cmd = b.entries[i].cmd /\ ~e.inFlight
  <2>1. b.entries[i] \in Entries
    BY StateFields
  <2> QED BY <2>1 DEF Entries
<1> HIDE DEF c, e
<1>3. Gentle(b, c)
  BY <1>1, <1>2, OneChangedGentle
<1> QED BY <1>3 DEF c

(* A rejected command leaves the queue, with its dependents.               *)
LEMMA AfterRejectGentle ==
  ASSUME NEW b, IsState(b), NEW i \in Ids(b)
  PROVE  Gentle(b, AfterReject(b, i))
<1> DEFINE c == AfterReject(b, i)
           letters == {[cmd |-> b.entries[i].cmd, reason |-> "rejected"]}
             \cup {[cmd |-> b.entries[j].cmd, reason |-> "tripRejected"] :
                     j \in {d \in Dependents(b, i) : ~IsDelete(b.entries[d].cmd)}}
<1>1. /\ DOMAIN c = DOMAIN Empty
      /\ c.entries = Without(b.entries, {i} \cup Dependents(b, i))
      /\ c.nextId = b.nextId
      /\ c.paused = b.paused
      /\ c.tripIds = b.tripIds
      /\ c.deadLetters = b.deadLetters \cup letters
  BY StateDomain DEF AfterReject, IsState
<1>2. Dependents(b, i) \subseteq Ids(b)
  BY DEF Dependents, OfTrip
<1>3. \A j \in Ids(b) : b.entries[j].cmd \in Commands
  BY StateFields, EntryFields
<1>4. letters \subseteq DeadLetters
  BY <1>2, <1>3 DEF DeadLetters
<1> HIDE DEF c, letters
<1>5. /\ c.paused \in BOOLEAN
      /\ DOMAIN c.tripIds \subseteq Keys
      /\ c.tripIds \in [DOMAIN c.tripIds -> Nat]
      /\ c.deadLetters \subseteq DeadLetters
  BY <1>1, <1>4 DEF IsState
<1>6. Gentle(b, c)
  BY <1>1, <1>5, WithoutGentle
<1> QED BY <1>6 DEF c

(* Whatever the answer, and to whatever id, it is gentle.                  *)
LEMMA CompletedGentle ==
  ASSUME NEW b, IsState(b), NEW i \in Ids(b), NEW ids, ids \subseteq Nat,
         NEW outcome \in OutcomesOf(b.entries[i].cmd, ids)
  PROVE  Gentle(b, Completed(b, i, outcome))
<1> DEFINE cmd == b.entries[i].cmd
<1>1. cmd \in Commands
  BY StateFields, EntryFields
<1>2. CASE outcome.type = "tripCreated"
  <2>1. cmd.type = "createTrip"
    BY <1>2 DEF OutcomesOf, Failures, Delivered, Transient, Unauthorized,
                NotFound, Unreadable, Refused
  <2>2. PICK id \in ids : outcome = TripCreated(id)
    BY <1>2, <2>1 DEF OutcomesOf, Failures, Transient, Unauthorized, NotFound,
                      Unreadable, Refused
  <2>3. outcome.tripId \in Nat
    BY <2>2 DEF TripCreated
  <2>4. cmd.key \in Keys
    BY <1>1, <2>1 DEF Commands
  <2> QED BY <1>2, <2>3, <2>4, AfterTripCreatedGentle DEF Completed
<1>3. CASE outcome = Delivered
  <2>1. outcome.type # "tripCreated"
    BY <1>3 DEF Delivered
  <2> QED BY <1>3, <2>1, AfterDeliveredGentle DEF Completed
<1>4. CASE outcome.type # "tripCreated" /\ outcome # Delivered
  <2>1. outcome \in Failures
    BY <1>4 DEF OutcomesOf, TripCreated
  <2>2. Decide(outcome, cmd) \in {"retry", "pause", "treatAsDelivered", "reject"}
    BY <2>1 DEF Decide, Failures, Transient, Unauthorized, NotFound, Unreadable,
                Refused
  <2> QED BY <1>4, <2>2, AfterRetryGentle, AfterPauseGentle,
             AfterDeliveredGentle, AfterRejectGentle DEF Completed
<1> QED BY <1>2, <1>3, <1>4

-----------------------------------------------------------------------------
(* Operation by the user and the system. *)

(* Gentleness of two operations in a row.                                  *)
LEMMA GentleTwice ==
  ASSUME NEW b, NEW c, NEW d, IsState(b), Gentle(b, c), Gentle(c, d),
         c.nextId = b.nextId, Ids(d) \ Ids(c) \subseteq b.nextId..d.nextId
  PROVE  Gentle(b, d)
<1>1. IsState(c) /\ IsState(d)
  BY DEF Gentle
<1>2. b.nextId \in Nat /\ Ids(b) \subseteq 1..(b.nextId - 1)
  BY StateFields
<1>3. Ids(c) \subseteq 1..(b.nextId - 1) /\ d.nextId \in Nat
  BY <1>1, StateFields
<1>4. ASSUME NEW i \in Ids(d), i \in Ids(b) PROVE i \in Ids(c)
  BY <1>2, <1>4
<1>5. KeepsSent(b, d)
  BY <1>4 DEF Gentle, KeepsSent
<1>6. NewComeLast(b, d)
  <2> SUFFICES ASSUME NEW i \in Ids(d) \ Ids(b)
               PROVE  ~d.entries[i].inFlight /\ \A j \in Ids(b) : j < i
    BY DEF NewComeLast
  <2>1. CASE i \in Ids(c)
    BY <2>1 DEF Gentle, NewComeLast, KeepsSent
  <2>2. CASE i \notin Ids(c)
    BY <1>2, <1>3, <2>2 DEF Gentle, NewComeLast
  <2> QED BY <2>1, <2>2
<1> QED BY <1>1, <1>5, <1>6 DEF Gentle

(* Discarding a trip drops entries that are not under way, then may append *)
(* a delete (Outbox.swift:316-334).                                        *)
LEMMA DiscardedGentle ==
  ASSUME NEW b, IsState(b), NEW key \in Keys
  PROVE  Gentle(b, Discarded(b, key))
<1> DEFINE rest == [b EXCEPT !.entries = Without(b.entries, Discardable(b, key))]
           delete == [type |-> "deleteTrip", key |-> key]
           d == AppendAll(rest, 1, <<delete>>)
<1>1. /\ DOMAIN rest = DOMAIN Empty
      /\ rest.entries = Without(b.entries, Discardable(b, key))
      /\ rest.nextId = b.nextId
      /\ rest.paused \in BOOLEAN
      /\ DOMAIN rest.tripIds \subseteq Keys
      /\ rest.tripIds \in [DOMAIN rest.tripIds -> Nat]
      /\ rest.deadLetters \subseteq DeadLetters
  BY StateDomain DEF IsState
<1>2. delete \in Commands
  BY DEF Commands
<1> HIDE DEF rest, delete
<1>3. Gentle(b, rest)
  BY <1>1, WithoutGentle
<1>4. IsState(rest)
  BY <1>3 DEF Gentle
<1>5. Gentle(rest, d)
  <2>1. <<delete>> \in [1..1 -> Commands]
    BY <1>2
  <2> QED BY <1>4, <2>1, AppendAllGentle
<1>6. Ids(d) \ Ids(rest) \subseteq b.nextId..d.nextId
  <2>1. rest.nextId \in Nat
    BY <1>4, StateFields
  <2>2. Ids(d) = Ids(rest) \cup rest.nextId..(rest.nextId + 1 - 1)
    BY <1>4, StateDomain DEF AppendAll, Ids, IsState
  <2>3. d.nextId = rest.nextId + 1
    BY <1>4, StateDomain DEF AppendAll, IsState
  <2> HIDE DEF d
  <2> QED BY <1>1, <2>1, <2>2, <2>3
<1> HIDE DEF d
<1>7. Gentle(b, d)
  BY <1>1, <1>3, <1>5, <1>6, GentleTwice
<1>8. Discarded(b, key) \in {rest, d}
  BY DEF Discarded, AppendOne, rest, delete, d
<1> QED BY <1>3, <1>7, <1>8

(* An operation that leaves the entries alone.                             *)
LEMMA SameEntriesGentle ==
  ASSUME NEW b, IsState(b), NEW c, DOMAIN c = DOMAIN Empty,
         c.entries = b.entries, c.nextId = b.nextId, c.tripIds = b.tripIds,
         c.paused \in BOOLEAN, c.deadLetters \subseteq DeadLetters
  PROVE  Gentle(b, c)
<1>1. IsState(c)
  BY DEF IsState
<1>2. KeepsSent(b, c) /\ NewComeLast(b, c)
  BY DEF KeepsSent, NewComeLast, LaneOf, Ids
<1> QED BY <1>1, <1>2 DEF Gentle

(* A new token changes no entry.                                           *)
LEMMA ResumedGentle ==
  ASSUME NEW b, IsState(b) PROVE Gentle(b, Resumed(b))
<1> DEFINE c == Resumed(b)
<1>1. /\ DOMAIN c = DOMAIN Empty /\ c.entries = b.entries
      /\ c.nextId = b.nextId /\ c.tripIds = b.tripIds
      /\ c.paused \in BOOLEAN /\ c.deadLetters \subseteq DeadLetters
  BY StateDomain DEF Resumed, IsState
<1> HIDE DEF c
<1>2. Gentle(b, c)
  BY <1>1, SameEntriesGentle
<1> QED BY <1>2 DEF c

(* Reading the dead letters changes no entry.                              *)
LEMMA ClearedGentle ==
  ASSUME NEW b, IsState(b) PROVE Gentle(b, Cleared(b))
<1> DEFINE c == Cleared(b)
<1>1. /\ DOMAIN c = DOMAIN Empty /\ c.entries = b.entries
      /\ c.nextId = b.nextId /\ c.tripIds = b.tripIds
      /\ c.paused \in BOOLEAN /\ c.deadLetters \subseteq DeadLetters
  BY StateDomain DEF Cleared, IsState
<1> HIDE DEF c
<1>2. Gentle(b, c)
  BY <1>1, SameEntriesGentle
<1> QED BY <1>2 DEF c

(* An operation that may change the flags of every entry, but starts none. *)
LEMMA FlagsGentle ==
  ASSUME NEW b, IsState(b), NEW c, DOMAIN c = DOMAIN Empty,
         c.nextId = b.nextId, c.tripIds = b.tripIds, c.paused = b.paused,
         c.deadLetters = b.deadLetters,
         c.entries \in [Ids(b) -> Entries],
         \A i \in Ids(b) : /\ c.entries[i].cmd = b.entries[i].cmd
                           /\ c.entries[i].inFlight => b.entries[i].inFlight
  PROVE  Gentle(b, c)
<1>1. Ids(c) = Ids(b) /\ c.entries = [i \in Ids(c) |-> c.entries[i]]
  BY DEF Ids
<1>2. \A i \in Ids(c) :
        /\ c.entries[i] \in Entries
        /\ LaneOf(c, i) = LaneOf(b, i)
        /\ c.entries[i].inFlight =>
             b.entries[i].inFlight /\ c.entries[i].cmd = b.entries[i].cmd
  BY <1>1 DEF LaneOf
<1>3. /\ DOMAIN c.tripIds \subseteq Keys
      /\ c.tripIds \in [DOMAIN c.tripIds -> Nat]
      /\ c.deadLetters \subseteq DeadLetters
      /\ c.paused \in BOOLEAN
  BY DEF IsState
<1> QED BY <1>1, <1>2, <1>3, SomeStay

(* The network coming back resets retry times only.                        *)
LEMMA ExpeditedGentle ==
  ASSUME NEW b, IsState(b) PROVE Gentle(b, Expedited(b))
<1> DEFINE c == Expedited(b)
<1>1. /\ DOMAIN c = DOMAIN Empty
      /\ c.nextId = b.nextId /\ c.tripIds = b.tripIds /\ c.paused = b.paused
      /\ c.deadLetters = b.deadLetters
      /\ c.entries = [i \in Ids(b) |-> [b.entries[i] EXCEPT !.waiting = FALSE]]
  BY StateDomain DEF Expedited, IsState
<1> HIDE DEF c
<1>2. ASSUME NEW i \in Ids(b)
      PROVE  /\ [b.entries[i] EXCEPT !.waiting = FALSE] \in Entries
             /\ c.entries[i].cmd = b.entries[i].cmd
             /\ c.entries[i].inFlight => b.entries[i].inFlight
  <2>1. b.entries[i] \in Entries
    BY StateFields
  <2> QED BY <1>1, <2>1 DEF Entries
<1>3. c.entries \in [Ids(b) -> Entries]
  BY <1>1, <1>2
<1>4. Gentle(b, c)
  BY <1>1, <1>2, <1>3, FlagsGentle
<1> QED BY <1>4 DEF c

(* A relaunch marks nothing as under way.                                  *)
LEMMA ReloadedGentle ==
  ASSUME NEW b, IsState(b)
  PROVE  Gentle(b, Reloaded(b)) /\ \A i \in Ids(Reloaded(b)) : ~Reloaded(b).entries[i].inFlight
<1> DEFINE c == Reloaded(b)
<1>1. /\ DOMAIN c = DOMAIN Empty
      /\ c.nextId = b.nextId /\ c.tripIds = b.tripIds /\ c.paused = b.paused
      /\ c.deadLetters = b.deadLetters
      /\ c.entries = [i \in Ids(b) |-> [b.entries[i] EXCEPT !.inFlight = FALSE]]
  BY StateDomain DEF Reloaded, IsState
<1> HIDE DEF c
<1>2. ASSUME NEW i \in Ids(b)
      PROVE  /\ [b.entries[i] EXCEPT !.inFlight = FALSE] \in Entries
             /\ c.entries[i].cmd = b.entries[i].cmd
             /\ ~c.entries[i].inFlight
  <2>1. b.entries[i] \in Entries
    BY StateFields
  <2> QED BY <1>1, <2>1 DEF Entries
<1>3. c.entries \in [Ids(b) -> Entries] /\ Ids(c) = Ids(b)
  BY <1>1, <1>2 DEF Ids
<1>4. Gentle(b, c)
  BY <1>1, <1>2, <1>3, FlagsGentle
<1> QED BY <1>2, <1>3, <1>4 DEF c

(* A retry that falls due changes its own waiting flag only.               *)
LEMMA DueGentle ==
  ASSUME NEW b, IsState(b), NEW i \in Ids(b) PROVE Gentle(b, Due(b, i))
<1> DEFINE c == Due(b, i)
           e == [b.entries[i] EXCEPT !.waiting = FALSE]
<1>1. /\ DOMAIN c = DOMAIN Empty
      /\ c.entries = [b.entries EXCEPT ![i] = e]
      /\ c.nextId = b.nextId
      /\ c.paused = b.paused
      /\ c.tripIds = b.tripIds
      /\ c.deadLetters = b.deadLetters
  BY StateDomain DEF Due, IsState
<1> HIDE DEF c
<1>2. ASSUME NEW j \in Ids(b)
      PROVE  /\ c.entries[j] \in Entries
             /\ c.entries[j].cmd = b.entries[j].cmd
             /\ c.entries[j].inFlight => b.entries[j].inFlight
  <2>1. b.entries[j] \in Entries /\ b.entries[i] \in Entries
    BY StateFields
  <2>2. c.entries[j] = IF j = i THEN e ELSE b.entries[j]
    BY <1>1, StateFields
  <2> QED BY <2>1, <2>2 DEF Entries
<1>3. c.entries \in [Ids(b) -> Entries]
  BY <1>1, <1>2, StateFields
<1> HIDE DEF e
<1>4. Gentle(b, c)
  BY <1>1, <1>2, <1>3, FlagsGentle
<1> QED BY <1>4 DEF c

-----------------------------------------------------------------------------
(* Sending: not gentle, but what starts to be under way heads its lane.    *)
LEMMA DispatchedState ==
  ASSUME NEW b, IsState(b), NEW i \in Dispatchable(b)
  PROVE  /\ IsState(Dispatched(b, i))
         /\ HeadsOnly(b) => HeadsOnly(Dispatched(b, i))
         /\ Ids(Dispatched(b, i)) = Ids(b)
         /\ \A j \in Ids(b) : Dispatched(b, i).entries[j].cmd = b.entries[j].cmd
<1> DEFINE c == Dispatched(b, i)
           e == [b.entries[i] EXCEPT !.inFlight = TRUE]
<1>1. /\ DOMAIN c = DOMAIN Empty
      /\ c.entries = [b.entries EXCEPT ![i] = e]
      /\ c.nextId = b.nextId
      /\ c.paused = b.paused
      /\ c.tripIds = b.tripIds
      /\ c.deadLetters = b.deadLetters
  BY StateDomain DEF Dispatched, IsState
<1>2. i \in Ids(b) /\ IsLaneHead(b, i)
  BY DEF Dispatchable, Ready
<1> HIDE DEF c
<1>3. ASSUME NEW j \in Ids(b)
      PROVE  /\ c.entries[j] \in Entries
             /\ c.entries[j].cmd = b.entries[j].cmd
             /\ c.entries[j].inFlight => j = i \/ b.entries[j].inFlight
  <2>1. b.entries[j] \in Entries /\ b.entries[i] \in Entries
    BY <1>2, StateFields
  <2>2. c.entries[j] = IF j = i THEN e ELSE b.entries[j]
    BY <1>1, StateFields
  <2> QED BY <2>1, <2>2 DEF Entries
<1>4. Ids(c) = Ids(b) /\ c.entries \in [Ids(b) -> Entries]
  BY <1>1, <1>3, StateFields DEF Ids
<1>5. IsState(c)
  BY <1>1, <1>4 DEF IsState, Ids
<1>6. ASSUME HeadsOnly(b) PROVE HeadsOnly(c)
  <2>1. \A j \in Ids(b) : LaneOf(c, j) = LaneOf(b, j)
    BY <1>3 DEF LaneOf
  <2>2. \A j \in Ids(b) : IsLaneHead(b, j) => IsLaneHead(c, j)
    BY <1>4, <2>1 DEF IsLaneHead
  <2> QED BY <1>2, <1>3, <1>4, <1>6, <2>2 DEF HeadsOnly
<1> QED BY <1>3, <1>4, <1>5, <1>6 DEF c

-----------------------------------------------------------------------------
(* What each operation makes of the parts of a state. *)

(* New entries are added at the end.                                       *)
LEMMA AppendAllParts ==
  ASSUME NEW b, IsState(b), NEW n, NEW cmds
  PROVE  LET c == AppendAll(b, n, cmds) IN
         /\ c = [entries |-> c.entries, tripIds |-> b.tripIds,
                 deadLetters |-> b.deadLetters, nextId |-> b.nextId + n,
                 paused |-> b.paused]
         /\ Ids(c) = Ids(b) \cup b.nextId..(b.nextId + n - 1)
         /\ \A i \in Ids(c) :
              c.entries[i] = IF i \in Ids(b) THEN b.entries[i]
                             ELSE NewEntry(cmds[i - b.nextId + 1])
<1> DEFINE f == [i \in Ids(b) \cup b.nextId..(b.nextId + n - 1) |->
                   IF i \in Ids(b) THEN b.entries[i]
                   ELSE NewEntry(cmds[i - b.nextId + 1])]
           next == b.nextId + n
           d == [b EXCEPT !.entries = f]
<1>1. AppendAll(b, n, cmds) = [d EXCEPT !.nextId = next]
  BY DEF AppendAll
<1>2. DOMAIN b = {"entries", "tripIds", "deadLetters", "nextId", "paused"}
  BY StateDomain DEF IsState
<1>3. /\ DOMAIN f = Ids(b) \cup b.nextId..(b.nextId + n - 1)
      /\ \A i \in DOMAIN f : f[i] = IF i \in Ids(b) THEN b.entries[i]
                                   ELSE NewEntry(cmds[i - b.nextId + 1])
  OBVIOUS
<1> HIDE DEF f, next
<1>4. d = [entries |-> f, tripIds |-> b.tripIds, deadLetters |-> b.deadLetters,
           nextId |-> b.nextId, paused |-> b.paused]
  BY <1>2
<1> HIDE DEF d
<1>5. [d EXCEPT !.nextId = next] =
        [entries |-> f, tripIds |-> b.tripIds, deadLetters |-> b.deadLetters,
         nextId |-> next, paused |-> b.paused]
  BY <1>4
<1> QED BY <1>1, <1>3, <1>5 DEF next, Ids

(* One command more.                                                       *)
LEMMA AppendOneParts ==
  ASSUME NEW b, IsState(b), NEW cmd
  PROVE  LET c == AppendOne(b, cmd) IN
         /\ c = [entries |-> c.entries, tripIds |-> b.tripIds,
                 deadLetters |-> b.deadLetters, nextId |-> b.nextId + 1,
                 paused |-> b.paused]
         /\ Ids(c) = Ids(b) \cup {b.nextId}
         /\ b.nextId \notin Ids(b)
         /\ c.entries[b.nextId] = NewEntry(cmd)
         /\ \A i \in Ids(b) : c.entries[i] = b.entries[i]
<1> DEFINE c == AppendAll(b, 1, <<cmd>>)
<1>1. b.nextId \in Nat /\ b.nextId \notin Ids(b)
  <2>1. b.nextId \in Nat /\ Ids(b) \subseteq 1..(b.nextId - 1)
    BY StateFields
  <2> QED BY <2>1
<1>2. /\ b.nextId..(b.nextId + 1 - 1) = {b.nextId}
      /\ b.nextId - b.nextId + 1 = 1
      /\ <<cmd>>[1] = cmd
  BY <1>1
<1>3. /\ c = [entries |-> c.entries, tripIds |-> b.tripIds,
              deadLetters |-> b.deadLetters, nextId |-> b.nextId + 1,
              paused |-> b.paused]
      /\ Ids(c) = Ids(b) \cup b.nextId..(b.nextId + 1 - 1)
      /\ \A i \in Ids(c) :
           c.entries[i] = IF i \in Ids(b) THEN b.entries[i]
                          ELSE NewEntry(<<cmd>>[i - b.nextId + 1])
  BY AppendAllParts
<1> HIDE DEF c
<1>4. c.entries[b.nextId] = NewEntry(cmd)
  BY <1>1, <1>2, <1>3
<1> QED BY <1>1, <1>2, <1>3, <1>4 DEF AppendOne, c

(* A merge changes the body of the entries it merges into, and only that.  *)
LEMMA MergeParts ==
  ASSUME NEW b, IsState(b), NEW cmd \in Commands
  PROVE  LET c == MergeIntoLaneTail(b, cmd) IN
         /\ c = [entries |-> c.entries, tripIds |-> b.tripIds,
                 deadLetters |-> b.deadLetters, nextId |-> b.nextId,
                 paused |-> b.paused]
         /\ Ids(c) = Ids(b)
         /\ \A i \in Mergeable(b, cmd) :
              LET old == b.entries[i].cmd
                  new == c.entries[i].cmd
              IN  /\ new.type = old.type
                  /\ new.key = old.key
                  /\ new.body = Merged(old.body, cmd.body)
                  /\ new.type = "upsertAttempt" => new.attempt = old.attempt
                  /\ new \in Commands
                  /\ c.entries[i].failures = b.entries[i].failures
                  /\ c.entries[i].waiting = b.entries[i].waiting
                  /\ c.entries[i].inFlight = b.entries[i].inFlight
         /\ \A i \in Ids(b) \ Mergeable(b, cmd) : c.entries[i] = b.entries[i]
<1> DEFINE c == MergeIntoLaneTail(b, cmd)
           M == Mergeable(b, cmd)
           f == [i \in Ids(b) |->
                   IF i \in M
                   THEN [b.entries[i] EXCEPT !.cmd.body = Merged(@, cmd.body)]
                   ELSE b.entries[i]]
<1>1. c = [entries |-> f, tripIds |-> b.tripIds, deadLetters |-> b.deadLetters,
           nextId |-> b.nextId, paused |-> b.paused]
  BY StateDomain DEF MergeIntoLaneTail, IsState
<1>2. Gentle(b, c)
  BY MergeGentle
<1>3. \A i \in Ids(c) : c.entries[i] \in Entries
  BY <1>2, StateFields DEF Gentle
<1>4. /\ DOMAIN f = Ids(b)
      /\ \A i \in Ids(b) \ M : f[i] = b.entries[i]
  OBVIOUS
<1>5. ASSUME NEW i \in M
      PROVE  LET old == b.entries[i].cmd
                 new == f[i].cmd
             IN  /\ new.type = old.type
                 /\ new.key = old.key
                 /\ new.body = Merged(old.body, cmd.body)
                 /\ new.type = "upsertAttempt" => new.attempt = old.attempt
                 /\ f[i].failures = b.entries[i].failures
                 /\ f[i].waiting = b.entries[i].waiting
                 /\ f[i].inFlight = b.entries[i].inFlight
  <2> DEFINE old == b.entries[i].cmd
             merged == [old EXCEPT !.body = Merged(@, cmd.body)]
  <2>1. /\ i \in Ids(b)
        /\ old.type = cmd.type
        /\ cmd.type \in {"updateTrip", "upsertAttempt"}
    BY DEF Mergeable, LaneTail
  <2>2. b.entries[i] \in Entries /\ old \in Commands
    BY <2>1, StateFields, EntryFields
  <2>3. f[i] = [b.entries[i] EXCEPT !.cmd = merged]
    BY <2>1, <2>2 DEF Entries
  <2>4. /\ merged.type = old.type
        /\ merged.key = old.key
        /\ merged.body = Merged(old.body, cmd.body)
        /\ merged.type = "upsertAttempt" => merged.attempt = old.attempt
    BY <2>1, <2>2 DEF Commands
  <2> HIDE DEF merged, f
  <2>5. /\ f[i].cmd = merged
        /\ f[i].failures = b.entries[i].failures
        /\ f[i].waiting = b.entries[i].waiting
        /\ f[i].inFlight = b.entries[i].inFlight
    BY <2>2, <2>3 DEF Entries
  <2> QED BY <2>4, <2>5
<1>6. M \subseteq Ids(b)
  BY DEF Mergeable, LaneTail
<1> HIDE DEF f, c
<1>7. Ids(c) = Ids(b) /\ c.entries = f
  BY <1>1, <1>4 DEF Ids
<1>8. \A i \in M : c.entries[i].cmd \in Commands
  BY <1>3, <1>6, <1>7, EntryFields
<1> QED BY <1>1, <1>4, <1>5, <1>7, <1>8 DEF c

(* At most one entry is merged into: the last of its lane.                 *)
LEMMA OneTail ==
  ASSUME NEW b, IsState(b), NEW lane, NEW i \in LaneTail(b, lane),
         NEW j \in LaneTail(b, lane)
  PROVE  i = j
<1>1. b.nextId \in Nat /\ Ids(b) \subseteq 1..(b.nextId - 1)
  BY StateFields
<1>2. i \in Nat /\ j \in Nat
  BY <1>1 DEF LaneTail
<1> QED BY <1>2 DEF LaneTail

-----------------------------------------------------------------------------
(* What is under way stays under way. *)
Holds(b, c) ==
  \A i \in Ids(b) :
    b.entries[i].inFlight => /\ i \in Ids(c)
                             /\ c.entries[i].inFlight
                             /\ c.entries[i].cmd = b.entries[i].cmd

(* Putting a command in changes nothing that is under way.                 *)
LEMMA EnqueuedHolds ==
  ASSUME NEW b, IsState(b), NEW cmd \in Commands
  PROVE  Holds(b, Enqueued(b, cmd))
<1>1. ASSUME NEW n, NEW cmds PROVE Holds(b, AppendAll(b, n, cmds))
  <2> DEFINE c == AppendAll(b, n, cmds)
  <2>1. \A i \in Ids(b) : i \in Ids(c) /\ c.entries[i] = b.entries[i]
    BY AppendAllParts
  <2> HIDE DEF c
  <2>2. Holds(b, c)
    BY <2>1 DEF Holds
  <2> QED BY <2>2 DEF c
<1>2. CASE cmd.type = "uploadGps"
  BY <1>1, <1>2 DEF Enqueued
<1>3. CASE cmd.type # "uploadGps" /\ Mergeable(b, cmd) # {}
  <2> DEFINE c == MergeIntoLaneTail(b, cmd)
  <2>1. /\ Ids(c) = Ids(b)
        /\ \A i \in Ids(b) \ Mergeable(b, cmd) : c.entries[i] = b.entries[i]
    BY MergeParts
  <2>2. \A i \in Ids(b) : b.entries[i].inFlight => i \notin Mergeable(b, cmd)
    BY DEF Mergeable
  <2> HIDE DEF c
  <2>3. Holds(b, c)
    BY <2>1, <2>2 DEF Holds
  <2> QED BY <1>3, <2>3 DEF Enqueued, c
<1>4. CASE cmd.type # "uploadGps" /\ Mergeable(b, cmd) = {}
  BY <1>1, <1>4 DEF Enqueued, AppendOne
<1> QED BY <1>2, <1>3, <1>4

(* Discarding a trip leaves what is under way.                             *)
LEMMA DiscardedHolds ==
  ASSUME NEW b, IsState(b), NEW key \in Keys
  PROVE  Holds(b, Discarded(b, key))
<1> DEFINE rest == [b EXCEPT !.entries = Without(b.entries, Discardable(b, key))]
           delete == [type |-> "deleteTrip", key |-> key]
<1>1. /\ DOMAIN rest = DOMAIN Empty
      /\ rest.entries = Without(b.entries, Discardable(b, key))
      /\ rest.nextId = b.nextId
      /\ rest.paused \in BOOLEAN
      /\ DOMAIN rest.tripIds \subseteq Keys
      /\ rest.tripIds \in [DOMAIN rest.tripIds -> Nat]
      /\ rest.deadLetters \subseteq DeadLetters
  BY StateDomain DEF IsState
<1> HIDE DEF rest, delete
<1>2. IsState(rest)
  BY <1>1, WithoutGentle DEF Gentle
<1>3. \A i \in Ids(b) \ Discardable(b, key) :
        i \in Ids(rest) /\ rest.entries[i] = b.entries[i]
  BY <1>1 DEF Ids, Without
<1>4. \A i \in Ids(b) : b.entries[i].inFlight => i \notin Discardable(b, key)
  BY DEF Discardable
<1>5. Holds(b, rest)
  BY <1>3, <1>4 DEF Holds
<1>6. Holds(b, AppendOne(rest, delete))
  <2>1. \A i \in Ids(rest) : /\ i \in Ids(AppendOne(rest, delete))
                             /\ AppendOne(rest, delete).entries[i] = rest.entries[i]
    BY <1>2, AppendOneParts
  <2> QED BY <1>5, <2>1 DEF Holds
<1>7. Discarded(b, key) \in {rest, AppendOne(rest, delete)}
  BY DEF Discarded, rest, delete
<1> QED BY <1>5, <1>6, <1>7

(* So do the operations that only change flags or lists beside the queue.  *)
LEMMA FlagsHold ==
  ASSUME NEW b, IsState(b)
  PROVE  /\ Holds(b, Resumed(b))
         /\ Holds(b, Cleared(b))
         /\ Holds(b, Expedited(b))
         /\ \A i \in Ids(b) : Holds(b, Due(b, i))
<1>1. \A i \in Ids(b) : b.entries[i] \in Entries
  BY StateFields
<1>2. /\ Resumed(b).entries = b.entries
      /\ Cleared(b).entries = b.entries
      /\ Expedited(b).entries = [i \in Ids(b) |-> [b.entries[i] EXCEPT !.waiting = FALSE]]
  BY StateDomain DEF Resumed, Cleared, Expedited, IsState
<1>3. Holds(b, Resumed(b)) /\ Holds(b, Cleared(b))
  BY <1>2 DEF Holds, Ids
<1>4. Holds(b, Expedited(b))
  BY <1>1, <1>2 DEF Holds, Ids, Entries
<1>5. ASSUME NEW i \in Ids(b) PROVE Holds(b, Due(b, i))
  <2> DEFINE e == [b.entries[i] EXCEPT !.waiting = FALSE]
  <2>1. Due(b, i).entries = [b.entries EXCEPT ![i] = e]
    BY StateDomain DEF Due, IsState
  <2>2. e.inFlight = b.entries[i].inFlight /\ e.cmd = b.entries[i].cmd
    BY <1>1 DEF Entries
  <2>3. \A j \in Ids(b) : /\ j \in Ids(Due(b, i))
                          /\ Due(b, i).entries[j] = IF j = i THEN e ELSE b.entries[j]
    BY <2>1 DEF Ids
  <2> HIDE DEF e
  <2> QED BY <2>2, <2>3 DEF Holds
<1> QED BY <1>3, <1>4, <1>5

(* Sending marks one entry.                                                *)
LEMMA DispatchedParts ==
  ASSUME NEW b, IsState(b), NEW i \in Ids(b)
  PROVE  LET c == Dispatched(b, i) IN
         /\ c = [entries |-> c.entries, tripIds |-> b.tripIds,
                 deadLetters |-> b.deadLetters, nextId |-> b.nextId,
                 paused |-> b.paused]
         /\ Ids(c) = Ids(b)
         /\ \A j \in Ids(b) \ {i} : c.entries[j] = b.entries[j]
         /\ c.entries[i].cmd = b.entries[i].cmd
         /\ c.entries[i].failures = b.entries[i].failures
         /\ c.entries[i].waiting = b.entries[i].waiting
         /\ c.entries[i].inFlight
<1> DEFINE c == Dispatched(b, i)
           e == [b.entries[i] EXCEPT !.inFlight = TRUE]
           f == [b.entries EXCEPT ![i] = e]
           d == [b EXCEPT !.entries = f]
<1>1. Dispatched(b, i) = d
  BY StateDomain DEF Dispatched, IsState
<1>2. /\ e.cmd = b.entries[i].cmd /\ e.failures = b.entries[i].failures
      /\ e.waiting = b.entries[i].waiting /\ e.inFlight
  BY StateFields DEF Entries
<1> HIDE DEF e
<1>3. DOMAIN f = Ids(b) /\ f[i] = e /\ \A j \in Ids(b) \ {i} : f[j] = b.entries[j]
  BY DEF Ids
<1> HIDE DEF f
<1>4. d = [entries |-> f, tripIds |-> b.tripIds, deadLetters |-> b.deadLetters,
           nextId |-> b.nextId, paused |-> b.paused]
  BY StateDomain DEF IsState
<1> HIDE DEF d, c
<1> QED BY <1>1, <1>2, <1>3, <1>4 DEF Ids, c

(* A relaunch clears the marks.                                            *)
LEMMA ReloadedParts ==
  ASSUME NEW b, IsState(b)
  PROVE  LET c == Reloaded(b) IN
         /\ c = [entries |-> c.entries, tripIds |-> b.tripIds,
                 deadLetters |-> b.deadLetters, nextId |-> b.nextId,
                 paused |-> b.paused]
         /\ Ids(c) = Ids(b)
         /\ \A i \in Ids(b) : /\ c.entries[i].cmd = b.entries[i].cmd
                              /\ c.entries[i].failures = b.entries[i].failures
                              /\ c.entries[i].waiting = b.entries[i].waiting
                              /\ ~c.entries[i].inFlight
<1> DEFINE c == Reloaded(b)
           f == [i \in Ids(b) |-> [b.entries[i] EXCEPT !.inFlight = FALSE]]
           d == [b EXCEPT !.entries = f]
<1>1. Reloaded(b) = d
  BY DEF Reloaded
<1>2. ASSUME NEW i \in Ids(b)
      PROVE  /\ f[i].cmd = b.entries[i].cmd /\ f[i].failures = b.entries[i].failures
             /\ f[i].waiting = b.entries[i].waiting /\ ~f[i].inFlight
  BY StateFields DEF Entries
<1>3. DOMAIN f = Ids(b)
  OBVIOUS
<1> HIDE DEF f
<1>4. d = [entries |-> f, tripIds |-> b.tripIds, deadLetters |-> b.deadLetters,
           nextId |-> b.nextId, paused |-> b.paused]
  BY StateDomain DEF IsState
<1> HIDE DEF d, c
<1> QED BY <1>1, <1>2, <1>3, <1>4 DEF Ids, c

(* An answer with a trip id takes the create out and stores the id.        *)
LEMMA TripCreatedParts ==
  ASSUME NEW b, IsState(b), NEW i \in Ids(b), NEW id
  PROVE  LET c == AfterTripCreated(b, i, id)
             key == b.entries[i].cmd.key
         IN  /\ c = [entries |-> c.entries, tripIds |-> c.tripIds,
                     deadLetters |-> b.deadLetters, nextId |-> b.nextId,
                     paused |-> b.paused]
             /\ Ids(c) = Ids(b) \ {i}
             /\ \A j \in Ids(c) : c.entries[j] = b.entries[j]
             /\ DOMAIN c.tripIds = DOMAIN b.tripIds \cup {key}
             /\ c.tripIds[key] = id
             /\ \A k \in DOMAIN b.tripIds \ {key} : c.tripIds[k] = b.tripIds[k]
<1> DEFINE key == b.entries[i].cmd.key
           f == Without(b.entries, {i})
           g == [k \in DOMAIN b.tripIds \cup {key} |->
                   IF k = key THEN id ELSE b.tripIds[k]]
           d == [b EXCEPT !.entries = f]
           c == [d EXCEPT !.tripIds = g]
<1>1. AfterTripCreated(b, i, id) = c
  BY DEF AfterTripCreated
<1>2. /\ DOMAIN f = Ids(b) \ {i}
      /\ \A j \in DOMAIN f : f[j] = b.entries[j]
      /\ DOMAIN g = DOMAIN b.tripIds \cup {key}
      /\ g[key] = id
      /\ \A k \in DOMAIN b.tripIds \ {key} : g[k] = b.tripIds[k]
  BY DEF Without, Ids
<1> HIDE DEF f, g
<1>3. d = [entries |-> f, tripIds |-> b.tripIds, deadLetters |-> b.deadLetters,
           nextId |-> b.nextId, paused |-> b.paused]
  BY StateDomain DEF IsState
<1> HIDE DEF d
<1>4. c = [entries |-> f, tripIds |-> g, deadLetters |-> b.deadLetters,
           nextId |-> b.nextId, paused |-> b.paused]
  BY <1>3
<1> HIDE DEF c, key
<1> QED BY <1>1, <1>2, <1>4 DEF Ids, key

(* A delivered command goes, and with a delete the trip id.                *)
LEMMA DeliveredParts ==
  ASSUME NEW b, IsState(b), NEW i \in Ids(b)
  PROVE  LET c == AfterDelivered(b, i)
             cmd == b.entries[i].cmd
         IN  /\ c = [entries |-> c.entries, tripIds |-> c.tripIds,
                     deadLetters |-> b.deadLetters, nextId |-> b.nextId,
                     paused |-> b.paused]
             /\ Ids(c) = Ids(b) \ {i}
             /\ \A j \in Ids(c) : c.entries[j] = b.entries[j]
             /\ DOMAIN c.tripIds = IF IsDelete(cmd) THEN DOMAIN b.tripIds \ {cmd.key}
                                   ELSE DOMAIN b.tripIds
             /\ \A k \in DOMAIN c.tripIds : c.tripIds[k] = b.tripIds[k]
<1> DEFINE cmd == b.entries[i].cmd
           f == Without(b.entries, {i})
           g == IF IsDelete(cmd) THEN Without(b.tripIds, {cmd.key}) ELSE b.tripIds
           d == [b EXCEPT !.entries = f]
           c == [d EXCEPT !.tripIds = g]
<1>1. AfterDelivered(b, i) = c
  BY DEF AfterDelivered
<1>2. /\ DOMAIN f = Ids(b) \ {i}
      /\ \A j \in DOMAIN f : f[j] = b.entries[j]
      /\ DOMAIN g = IF IsDelete(cmd) THEN DOMAIN b.tripIds \ {cmd.key}
                    ELSE DOMAIN b.tripIds
      /\ \A k \in DOMAIN g : g[k] = b.tripIds[k]
  BY DEF Without, Ids
<1> HIDE DEF f, g
<1>3. d = [entries |-> f, tripIds |-> b.tripIds, deadLetters |-> b.deadLetters,
           nextId |-> b.nextId, paused |-> b.paused]
  BY StateDomain DEF IsState
<1> HIDE DEF d
<1>4. c = [entries |-> f, tripIds |-> g, deadLetters |-> b.deadLetters,
           nextId |-> b.nextId, paused |-> b.paused]
  BY <1>3
<1> HIDE DEF c, cmd
<1> QED BY <1>1, <1>2, <1>4 DEF Ids, cmd

(* A retry waits, and a refused token pauses the queue.                    *)
LEMMA PutBackParts ==
  ASSUME NEW b, IsState(b), NEW i \in Ids(b),
         NEW c \in {AfterRetry(b, i), AfterPause(b, i)}
  PROVE  /\ c = [entries |-> c.entries, tripIds |-> b.tripIds,
                 deadLetters |-> b.deadLetters, nextId |-> b.nextId,
                 paused |-> c.paused]
         /\ c.paused = b.paused \/ c.paused
         /\ Ids(c) = Ids(b)
         /\ \A j \in Ids(b) \ {i} : c.entries[j] = b.entries[j]
         /\ c.entries[i].cmd = b.entries[i].cmd
         /\ ~c.entries[i].inFlight
         /\ c = AfterPause(b, i) => c.paused
         /\ c = AfterRetry(b, i) =>
              c.paused = b.paused /\ c.entries[i].waiting /\ c.entries[i].failures > 0
<1>1. CASE c = AfterRetry(b, i)
  <2> DEFINE e == [b.entries[i] EXCEPT
                     !.inFlight = FALSE,
                     !.failures = IF @ < FailureCap THEN @ + 1 ELSE @,
                     !.waiting = TRUE]
             h == [b.entries EXCEPT ![i] = e]
  <2>1. /\ DOMAIN c = DOMAIN Empty
        /\ c.entries = h
        /\ c.nextId = b.nextId
        /\ c.paused = b.paused
        /\ c.tripIds = b.tripIds
        /\ c.deadLetters = b.deadLetters
    BY <1>1, StateDomain DEF AfterRetry, IsState
  <2>6. c = [x \in DOMAIN c |-> c[x]]
    BY <1>1 DEF AfterRetry
  <2>2. e.cmd = b.entries[i].cmd /\ ~e.inFlight /\ e.waiting /\ e.failures > 0
    <3> DEFINE f == b.entries[i].failures
               g == IF f < FailureCap THEN f + 1 ELSE f
    <3>1. b.entries[i] \in Entries
      BY StateFields
    <3>2. f \in Nat
      BY <3>1, EntryFields
    <3>3. g > 0
      BY <3>2, OutboxAssumption
    <3>4. e = [b.entries[i] EXCEPT !.inFlight = FALSE, !.failures = g, !.waiting = TRUE]
      OBVIOUS
    <3> HIDE DEF g, e
    <3> QED BY <3>1, <3>3, <3>4 DEF Entries
  <2> HIDE DEF e
  <2>3. DOMAIN h = Ids(b) /\ h[i] = e /\ \A j \in Ids(b) \ {i} : h[j] = b.entries[j]
    BY DEF Ids
  <2> HIDE DEF h
  <2>4. c = [entries |-> c.entries, tripIds |-> b.tripIds,
             deadLetters |-> b.deadLetters, nextId |-> b.nextId,
             paused |-> c.paused]
    BY <2>1, <2>6, StateDomain
  <2>5. c = AfterPause(b, i) => c.paused
    BY StateDomain DEF AfterPause, IsState
  <2> QED BY <2>1, <2>2, <2>3, <2>4, <2>5 DEF Ids
<1>2. CASE c = AfterPause(b, i) /\ c # AfterRetry(b, i)
  <2> DEFINE e == [b.entries[i] EXCEPT !.inFlight = FALSE]
             h == [b.entries EXCEPT ![i] = e]
  <2>1. /\ DOMAIN c = DOMAIN Empty
        /\ c.entries = h
        /\ c.nextId = b.nextId
        /\ c.paused
        /\ c.tripIds = b.tripIds
        /\ c.deadLetters = b.deadLetters
        /\ c = [x \in DOMAIN c |-> c[x]]
    BY <1>2, StateDomain DEF AfterPause, IsState
  <2>2. e.cmd = b.entries[i].cmd /\ ~e.inFlight
    BY StateFields DEF Entries
  <2> HIDE DEF e
  <2>3. DOMAIN h = Ids(b) /\ h[i] = e /\ \A j \in Ids(b) \ {i} : h[j] = b.entries[j]
    BY DEF Ids
  <2> HIDE DEF h
  <2>4. c = [entries |-> c.entries, tripIds |-> b.tripIds,
             deadLetters |-> b.deadLetters, nextId |-> b.nextId,
             paused |-> c.paused]
    BY <2>1, StateDomain
  <2> QED BY <1>2, <2>1, <2>2, <2>3, <2>4 DEF Ids
<1> QED BY <1>1, <1>2

(* A rejected command goes, with its dependents, and all are shown.        *)
LEMMA RejectParts ==
  ASSUME NEW b, IsState(b), NEW i \in Ids(b)
  PROVE  LET c == AfterReject(b, i) IN
         /\ c = [entries |-> c.entries, tripIds |-> b.tripIds,
                 deadLetters |-> c.deadLetters, nextId |-> b.nextId,
                 paused |-> b.paused]
         /\ Ids(c) = Ids(b) \ ({i} \cup Dependents(b, i))
         /\ \A j \in Ids(c) : c.entries[j] = b.entries[j]
         /\ b.deadLetters \subseteq c.deadLetters
         /\ \A j \in {i} \cup Dependents(b, i) :
              \/ IsDelete(b.entries[j].cmd) /\ j # i
              \/ \E letter \in c.deadLetters : letter.cmd = b.entries[j].cmd
<1> DEFINE rejected == [cmd |-> b.entries[i].cmd, reason |-> "rejected"]
           letters == {[cmd |-> b.entries[j].cmd, reason |-> "tripRejected"] :
                         j \in {d \in Dependents(b, i) : ~IsDelete(b.entries[d].cmd)}}
           g == b.deadLetters \cup {rejected} \cup letters
           f == Without(b.entries, {i} \cup Dependents(b, i))
           d == [b EXCEPT !.entries = f]
           c == [d EXCEPT !.deadLetters = g]
<1>1. AfterReject(b, i) = c
  <2>1. DOMAIN b = {"entries", "tripIds", "deadLetters", "nextId", "paused"}
    BY StateDomain DEF IsState
  <2> QED BY <2>1 DEF AfterReject
<1>2. /\ DOMAIN f = Ids(b) \ ({i} \cup Dependents(b, i))
      /\ \A j \in DOMAIN f : f[j] = b.entries[j]
  BY DEF Without, Ids
<1>3. ASSUME NEW j \in {i} \cup Dependents(b, i)
      PROVE  \/ IsDelete(b.entries[j].cmd) /\ j # i
             \/ \E letter \in g : letter.cmd = b.entries[j].cmd
  <2>1. CASE j = i
    <3>1. rejected \in g /\ rejected.cmd = b.entries[j].cmd
      BY <2>1
    <3> QED BY <3>1
  <2>2. CASE j # i /\ ~IsDelete(b.entries[j].cmd)
    <3> DEFINE letter == [cmd |-> b.entries[j].cmd, reason |-> "tripRejected"]
    <3>1. letter \in letters /\ letter.cmd = b.entries[j].cmd
      BY <1>3, <2>2
    <3> HIDE DEF letter
    <3> QED BY <3>1
  <2> QED BY <2>1, <2>2
<1>4. b.deadLetters \subseteq g
  OBVIOUS
<1> HIDE DEF f, g
<1>5. d = [entries |-> f, tripIds |-> b.tripIds, deadLetters |-> b.deadLetters,
           nextId |-> b.nextId, paused |-> b.paused]
  BY StateDomain DEF IsState
<1> HIDE DEF d
<1>6. c = [entries |-> f, tripIds |-> b.tripIds, deadLetters |-> g,
           nextId |-> b.nextId, paused |-> b.paused]
  BY <1>5
<1> HIDE DEF c
<1> QED BY <1>1, <1>2, <1>3, <1>4, <1>6 DEF Ids

(* Which answer does what.                                                 *)
LEMMA CompletedCases ==
  ASSUME NEW b, IsState(b), NEW i \in Ids(b), NEW ids, ids \subseteq Nat,
         NEW outcome \in OutcomesOf(b.entries[i].cmd, ids)
  PROVE  LET cmd == b.entries[i].cmd
             c == Completed(b, i, outcome)
         IN  \/ /\ cmd.type = "createTrip"
                /\ \E id \in ids : /\ outcome = TripCreated(id)
                                   /\ c = AfterTripCreated(b, i, id)
             \/ /\ cmd.type # "createTrip"
                /\ \/ outcome \in {Delivered, Unreadable}
                   \/ outcome = NotFound /\ IsDelete(cmd)
                /\ c = AfterDelivered(b, i)
             \/ outcome = Transient /\ c = AfterRetry(b, i)
             \/ outcome = Unauthorized /\ c = AfterPause(b, i)
             \/ /\ \/ outcome = Refused
                   \/ outcome = NotFound /\ ~IsDelete(cmd)
                   \/ outcome = Unreadable /\ cmd.type = "createTrip"
                /\ c = AfterReject(b, i)
<1> DEFINE cmd == b.entries[i].cmd
           c == Completed(b, i, outcome)
<1>1. CASE cmd.type = "createTrip" /\ \E id \in ids : outcome = TripCreated(id)
  BY <1>1 DEF TripCreated, Completed
<1>2. CASE outcome = Delivered /\ cmd.type # "createTrip"
  BY <1>2 DEF Delivered, Completed
<1>3. CASE outcome \in Failures
  <2>1. outcome.type # "tripCreated" /\ outcome # Delivered
    BY <1>3 DEF Failures, Delivered, Transient, Unauthorized, NotFound, Unreadable,
                Refused
  <2>2. c = CASE Decide(outcome, cmd) = "retry"            -> AfterRetry(b, i)
              [] Decide(outcome, cmd) = "pause"            -> AfterPause(b, i)
              [] Decide(outcome, cmd) = "treatAsDelivered" -> AfterDelivered(b, i)
              [] Decide(outcome, cmd) = "reject"           -> AfterReject(b, i)
    BY <2>1 DEF Completed
  <2> DEFINE D == Decide(outcome, cmd)
  <2>3. /\ outcome = Transient => D = "retry"
        /\ outcome = Unauthorized => D = "pause"
        /\ outcome = NotFound =>
             D = IF IsDelete(cmd) THEN "treatAsDelivered" ELSE "reject"
        /\ outcome = Unreadable =>
             D = IF cmd.type = "createTrip" THEN "reject" ELSE "treatAsDelivered"
        /\ outcome = Refused => D = "reject"
    BY DEF Decide, Transient, Unauthorized, NotFound, Unreadable, Refused
  <2>4. IsDelete(cmd) => cmd.type # "createTrip"
    BY DEF IsDelete
  <2> HIDE DEF D, c, cmd
  <2>5. c = CASE D = "retry"            -> AfterRetry(b, i)
              [] D = "pause"            -> AfterPause(b, i)
              [] D = "treatAsDelivered" -> AfterDelivered(b, i)
              [] D = "reject"           -> AfterReject(b, i)
    BY <2>2 DEF D
  <2> QED BY <1>3, <2>3, <2>4, <2>5 DEF Failures, c, cmd
<1> QED BY <1>1, <1>2, <1>3 DEF OutcomesOf

(* An answered command is not under way any more, and only those of its    *)
(* trip change with it.                                                    *)
LEMMA CompletedEnds ==
  ASSUME NEW b, IsState(b), NEW i \in Ids(b), NEW ids, ids \subseteq Nat,
         NEW outcome \in OutcomesOf(b.entries[i].cmd, ids)
  PROVE  LET c == Completed(b, i, outcome) IN
           i \in Ids(c) => ~c.entries[i].inFlight
<1>1. CASE \E id : Completed(b, i, outcome) = AfterTripCreated(b, i, id)
  <2>1. PICK id : Completed(b, i, outcome) = AfterTripCreated(b, i, id)
    BY <1>1
  <2>2. Ids(AfterTripCreated(b, i, id)) = Ids(b) \ {i}
    BY TripCreatedParts
  <2> QED BY <2>1, <2>2
<1>2. CASE Completed(b, i, outcome) = AfterDelivered(b, i)
  <2>1. Ids(AfterDelivered(b, i)) = Ids(b) \ {i}
    BY DeliveredParts
  <2> QED BY <1>2, <2>1
<1>3. CASE Completed(b, i, outcome) \in {AfterRetry(b, i), AfterPause(b, i)}
  BY <1>3, PutBackParts
<1>4. CASE Completed(b, i, outcome) = AfterReject(b, i)
  <2>1. Ids(AfterReject(b, i)) = Ids(b) \ ({i} \cup Dependents(b, i))
    BY RejectParts
  <2> QED BY <1>4, <2>1
<1> QED BY <1>1, <1>2, <1>3, <1>4, CompletedCases

-----------------------------------------------------------------------------
(* What can go out. *)

(* The queue has a first entry.                                            *)
LEMMA Least ==
  ASSUME NEW T, T \subseteq Nat, T # {}
  PROVE  \E x \in T : \A y \in T : x <= y
<1>1. IsWellFoundedOn(OpToRel(<, Nat), Nat)
  BY NatLessThanWellFounded, Zenon
<1>2. \E x \in T : \A y \in T : ~ (<<y, x>> \in OpToRel(<, Nat))
  BY <1>1, WFMin, Zenon
<1>3. PICK x \in T : \A y \in T : ~ (<<y, x>> \in OpToRel(<, Nat))
  BY <1>2, Zenon
<1>4. \A y \in T : ~(y < x)
  BY <1>3, Zenon DEF OpToRel
<1> QED BY <1>4

(* As long as anything can go out, next finds it.                          *)
LEMMA SomethingGoes ==
  ASSUME NEW b, IsState(b), Ready(b) # {}
  PROVE  Dispatchable(b) # {}
<1>1. Ready(b) \subseteq Nat
  <2>1. b.nextId \in Nat /\ Ids(b) \subseteq 1..(b.nextId - 1)
    BY StateFields
  <2> QED BY <2>1 DEF Ready
<1> QED BY <1>1, Least DEF Dispatchable

(* Reading the dead letters changes nothing of what can go out.            *)
LEMMA ClearedReady ==
  ASSUME NEW b, IsState(b)
  PROVE  /\ Ready(Cleared(b)) = Ready(b)
         /\ Cleared(b).entries = b.entries
         /\ Cleared(b).paused = b.paused
         /\ Cleared(b).tripIds = b.tripIds
<1>1. /\ Cleared(b).entries = b.entries
      /\ Cleared(b).paused = b.paused
      /\ Cleared(b).tripIds = b.tripIds
  BY StateDomain DEF Cleared, IsState
<1> QED BY <1>1 DEF Ready, Ids, IsLaneHead, LaneOf, AloneInTrip, Resolvable

-----------------------------------------------------------------------------
(* The parts of an outbox after a command was put in, or a trip discarded. *)

(* What was queued stays, with its type, trip and flags; what is new comes *)
(* from the command.                                                       *)
LEMMA EnqueuedParts ==
  ASSUME NEW b, IsState(b), NEW cmd \in Commands
  PROVE  LET c == Enqueued(b, cmd) IN
         /\ c.tripIds = b.tripIds
         /\ c.deadLetters = b.deadLetters
         /\ c.paused = b.paused
         /\ Ids(b) \subseteq Ids(c)
         /\ \A i \in Ids(b) :
              /\ c.entries[i].cmd.type = b.entries[i].cmd.type
              /\ c.entries[i].cmd.key = b.entries[i].cmd.key
              /\ c.entries[i].failures = b.entries[i].failures
              /\ c.entries[i].waiting = b.entries[i].waiting
              /\ c.entries[i].inFlight = b.entries[i].inFlight
         /\ \A i \in Ids(c) \ Ids(b) :
              /\ i >= b.nextId
              /\ c.entries[i].cmd.type = cmd.type
              /\ c.entries[i].cmd.key = cmd.key
              /\ ~c.entries[i].inFlight
<1>1. CASE cmd.type = "uploadGps"
  <2> DEFINE chunks == Chunks(cmd.points)
             cmds == [c \in DOMAIN chunks |-> [cmd EXCEPT !.points = chunks[c]]]
             n == Len(chunks)
             d == AppendAll(b, n, cmds)
  <2>1. cmd \in [type : {"uploadGps"}, key : Keys \cup {NoKey},
                 points : Seq(Points)]
    BY <1>1 DEF Commands
  <2>2. n \in Nat /\ chunks \in [1..n -> Seq(Points)]
    BY <2>1, ChunksFit
  <2> HIDE DEF chunks
  <2>3. \A i \in 1..n : cmds[i].type = cmd.type /\ cmds[i].key = cmd.key
    BY <2>1, <2>2
  <2> HIDE DEF cmds, n
  <2>4. /\ d = [entries |-> d.entries, tripIds |-> b.tripIds,
                deadLetters |-> b.deadLetters, nextId |-> b.nextId + n,
                paused |-> b.paused]
        /\ Ids(d) = Ids(b) \cup b.nextId..(b.nextId + n - 1)
        /\ \A i \in Ids(d) :
             d.entries[i] = IF i \in Ids(b) THEN b.entries[i]
                            ELSE NewEntry(cmds[i - b.nextId + 1])
    BY AppendAllParts
  <2>5. Enqueued(b, cmd) = d
    BY <1>1 DEF Enqueued, chunks, cmds, n
  <2>6. b.nextId \in Nat
    BY StateFields
  <2> HIDE DEF d
  <2>7. \A i \in Ids(b) : d.entries[i] = b.entries[i]
    BY <2>4
  <2>8. ASSUME NEW i \in Ids(d) \ Ids(b)
        PROVE  /\ i >= b.nextId
               /\ d.entries[i].cmd.type = cmd.type
               /\ d.entries[i].cmd.key = cmd.key
               /\ ~d.entries[i].inFlight
    <3>1. i \in b.nextId..(b.nextId + n - 1) /\ d.entries[i] = NewEntry(cmds[i - b.nextId + 1])
      BY <2>4
    <3>2. i - b.nextId + 1 \in 1..n
      BY <2>2, <2>6, <3>1
    <3> QED BY <2>3, <2>6, <3>1, <3>2 DEF NewEntry
  <2>9. d.tripIds = b.tripIds /\ d.deadLetters = b.deadLetters /\ d.paused = b.paused
    BY <2>4
  <2> QED BY <2>4, <2>5, <2>7, <2>8, <2>9
<1>2. CASE cmd.type # "uploadGps" /\ Mergeable(b, cmd) # {}
  <2> DEFINE d == MergeIntoLaneTail(b, cmd)
  <2>1. /\ d = [entries |-> d.entries, tripIds |-> b.tripIds,
                 deadLetters |-> b.deadLetters, nextId |-> b.nextId,
                 paused |-> b.paused]
        /\ Ids(d) = Ids(b)
        /\ \A i \in Mergeable(b, cmd) :
              LET old == b.entries[i].cmd
                  new == d.entries[i].cmd
              IN  /\ new.type = old.type
                  /\ new.key = old.key
                  /\ d.entries[i].failures = b.entries[i].failures
                  /\ d.entries[i].waiting = b.entries[i].waiting
                  /\ d.entries[i].inFlight = b.entries[i].inFlight
        /\ \A i \in Ids(b) \ Mergeable(b, cmd) : d.entries[i] = b.entries[i]
    BY MergeParts
  <2>2. Enqueued(b, cmd) = d
    BY <1>2 DEF Enqueued
  <2> HIDE DEF d
  <2>3. d.tripIds = b.tripIds /\ d.deadLetters = b.deadLetters /\ d.paused = b.paused
    BY <2>1
  <2> QED BY <2>1, <2>2, <2>3
<1>3. CASE cmd.type # "uploadGps" /\ Mergeable(b, cmd) = {}
  <2> DEFINE d == AppendOne(b, cmd)
  <2>1. /\ d = [entries |-> d.entries, tripIds |-> b.tripIds,
                 deadLetters |-> b.deadLetters, nextId |-> b.nextId + 1,
                 paused |-> b.paused]
        /\ Ids(d) = Ids(b) \cup {b.nextId}
        /\ d.entries[b.nextId] = NewEntry(cmd)
        /\ \A i \in Ids(b) : d.entries[i] = b.entries[i]
    BY AppendOneParts
  <2>2. Enqueued(b, cmd) = d /\ b.nextId \in Nat
    BY <1>3, StateFields DEF Enqueued
  <2> HIDE DEF d
  <2>3. d.tripIds = b.tripIds /\ d.deadLetters = b.deadLetters /\ d.paused = b.paused
    BY <2>1
  <2> QED BY <2>1, <2>2, <2>3 DEF NewEntry
<1> QED BY <1>1, <1>2, <1>3

(* What waits keeps its command, or takes in the newer request of the same *)
(* trip and attempt; what is put in at the end is the command itself.      *)
LEMMA EnqueuedEntries ==
  ASSUME NEW b, IsState(b), NEW cmd \in Commands
  PROVE  LET c == Enqueued(b, cmd) IN
         /\ \A i \in Ids(b) \ Mergeable(b, cmd) : c.entries[i] = b.entries[i]
         /\ \A i \in Mergeable(b, cmd) :
              /\ i \in Ids(b)
              /\ ~b.entries[i].inFlight
              /\ cmd.type \in {"updateTrip", "upsertAttempt"}
              /\ b.entries[i].cmd.type = cmd.type
              /\ b.entries[i].cmd.key = cmd.key
              /\ c.entries[i].cmd.body = Merged(b.entries[i].cmd.body, cmd.body)
              /\ cmd.type = "upsertAttempt" =>
                   /\ b.entries[i].cmd.attempt = cmd.attempt
                   /\ c.entries[i].cmd.attempt = cmd.attempt
         /\ cmd.type # "uploadGps" =>
              /\ \A i \in Ids(c) \ Ids(b) : c.entries[i] = NewEntry(cmd)
              /\ Mergeable(b, cmd) = {} => \E i \in Ids(c) : c.entries[i] = NewEntry(cmd)
<1>1. \A i \in Mergeable(b, cmd) :
        /\ i \in Ids(b)
        /\ ~b.entries[i].inFlight
        /\ cmd.type \in {"updateTrip", "upsertAttempt"}
        /\ b.entries[i].cmd.type = cmd.type
        /\ b.entries[i].cmd.key = cmd.key
        /\ cmd.type = "upsertAttempt" => b.entries[i].cmd.attempt = cmd.attempt
  <2> TAKE i \in Mergeable(b, cmd)
  <2>1. /\ i \in Ids(b)
        /\ Lane(b.entries[i].cmd) = Lane(cmd)
        /\ ~b.entries[i].inFlight
        /\ b.entries[i].cmd.type = cmd.type
        /\ \/ cmd.type = "updateTrip"
           \/ cmd.type = "upsertAttempt" /\ b.entries[i].cmd.attempt = cmd.attempt
    BY DEF Mergeable, LaneTail, LaneOf
  <2> QED BY <2>1 DEF Lane
<1>2. CASE cmd.type = "uploadGps"
  <2> DEFINE chunks == Chunks(cmd.points)
             cmds == [c \in DOMAIN chunks |-> [cmd EXCEPT !.points = chunks[c]]]
             d == AppendAll(b, Len(chunks), cmds)
  <2>1. Enqueued(b, cmd) = d
    BY <1>2 DEF Enqueued
  <2> HIDE DEF cmds, chunks
  <2>2. \A i \in Ids(b) : i \in Ids(d) /\ d.entries[i] = b.entries[i]
    BY AppendAllParts
  <2> HIDE DEF d
  <2> QED BY <1>1, <1>2, <2>1, <2>2
<1>3. CASE cmd.type # "uploadGps" /\ Mergeable(b, cmd) # {}
  <2> DEFINE d == MergeIntoLaneTail(b, cmd)
  <2>1. /\ Ids(d) = Ids(b)
        /\ \A i \in Mergeable(b, cmd) :
              LET old == b.entries[i].cmd
                  new == d.entries[i].cmd
              IN  /\ new.type = old.type
                  /\ new.body = Merged(old.body, cmd.body)
                  /\ new.type = "upsertAttempt" => new.attempt = old.attempt
        /\ \A i \in Ids(b) \ Mergeable(b, cmd) : d.entries[i] = b.entries[i]
    BY MergeParts
  <2>2. Enqueued(b, cmd) = d
    BY <1>3 DEF Enqueued
  <2> HIDE DEF d
  <2> QED BY <1>1, <1>3, <2>1, <2>2
<1>4. CASE cmd.type # "uploadGps" /\ Mergeable(b, cmd) = {}
  <2> DEFINE d == AppendOne(b, cmd)
  <2>1. /\ Ids(d) = Ids(b) \cup {b.nextId}
        /\ d.entries[b.nextId] = NewEntry(cmd)
        /\ \A i \in Ids(b) : d.entries[i] = b.entries[i]
    BY AppendOneParts
  <2>2. Enqueued(b, cmd) = d
    BY <1>4 DEF Enqueued
  <2> HIDE DEF d
  <2> QED BY <1>4, <2>1, <2>2
<1> QED BY <1>2, <1>3, <1>4

(* A new trip is one more entry at the end of the queue.                   *)
LEMMA CreateQueued ==
  ASSUME NEW b, IsState(b), NEW cmd, cmd.type = "createTrip"
  PROVE  Enqueued(b, cmd) = AppendOne(b, cmd)
BY DEF Enqueued, Mergeable

(* Discarding drops what may be dropped, and appends a delete when the     *)
(* server may hold the trip and there is none yet.                         *)
LEMMA DiscardedParts ==
  ASSUME NEW b, IsState(b), NEW key \in Keys
  PROVE  LET c == Discarded(b, key)
             needed == ~Deleting(b, key)
                         /\ (key \in DOMAIN b.tripIds \/ CreateMayHaveLanded(b, key))
         IN  /\ c.tripIds = b.tripIds
             /\ c.deadLetters = b.deadLetters
             /\ c.paused = b.paused
             /\ b.nextId \notin Ids(b)
             /\ Ids(c) = (Ids(b) \ Discardable(b, key))
                           \cup IF needed THEN {b.nextId} ELSE {}
             /\ \A i \in Ids(b) \ Discardable(b, key) : c.entries[i] = b.entries[i]
             /\ needed => c.entries[b.nextId] =
                            NewEntry([type |-> "deleteTrip", key |-> key])
<1> DEFINE rest == [b EXCEPT !.entries = Without(b.entries, Discardable(b, key))]
           delete == [type |-> "deleteTrip", key |-> key]
           needed == ~Deleting(b, key)
                       /\ (key \in DOMAIN b.tripIds \/ CreateMayHaveLanded(b, key))
           d == AppendOne(rest, delete)
<1>1. /\ DOMAIN rest = DOMAIN Empty
      /\ rest.entries = Without(b.entries, Discardable(b, key))
      /\ rest.nextId = b.nextId
      /\ rest.paused \in BOOLEAN /\ rest.paused = b.paused
      /\ DOMAIN rest.tripIds \subseteq Keys /\ rest.tripIds = b.tripIds
      /\ rest.tripIds \in [DOMAIN rest.tripIds -> Nat]
      /\ rest.deadLetters \subseteq DeadLetters /\ rest.deadLetters = b.deadLetters
  BY StateDomain DEF IsState
<1>2. Discarded(b, key) = IF needed THEN d ELSE rest
  BY DEF Discarded
<1>3. b.nextId \notin Ids(b)
  <2>1. b.nextId \in Nat /\ Ids(b) \subseteq 1..(b.nextId - 1)
    BY StateFields
  <2> HIDE DEF rest, delete, needed, d
  <2> QED BY <2>1
<1> HIDE DEF rest, delete, needed
<1>4. IsState(rest)
  BY <1>1, WithoutGentle DEF Gentle
<1>5. /\ Ids(rest) = Ids(b) \ Discardable(b, key)
      /\ \A i \in Ids(rest) : rest.entries[i] = b.entries[i]
  BY <1>1 DEF Ids, Without
<1>6. /\ d = [entries |-> d.entries, tripIds |-> rest.tripIds,
              deadLetters |-> rest.deadLetters, nextId |-> rest.nextId + 1,
              paused |-> rest.paused]
      /\ Ids(d) = Ids(rest) \cup {rest.nextId}
      /\ d.entries[rest.nextId] = NewEntry(delete)
      /\ \A i \in Ids(rest) : d.entries[i] = rest.entries[i]
  BY <1>4, AppendOneParts
<1> HIDE DEF d
<1>7. d.tripIds = rest.tripIds /\ d.deadLetters = rest.deadLetters
      /\ d.paused = rest.paused
  BY <1>6
<1>8. CASE needed
  BY <1>1, <1>2, <1>3, <1>5, <1>6, <1>7, <1>8 DEF needed, delete
<1>9. CASE ~needed
  BY <1>1, <1>2, <1>3, <1>5, <1>9 DEF needed
<1> QED BY <1>8, <1>9
=============================================================================
