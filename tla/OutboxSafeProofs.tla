-------------------------- MODULE OutboxSafeProofs --------------------------
(***************************************************************************)
(* Proofs about OutboxSystem: nothing that was recorded is lost.           *)
(*                                                                         *)
(* A field of the server is never set to an older value than it has, except*)
(* by a request that arrives late: what the queue says of a field is newer *)
(* the later it is queued, and newer than what is under way or stored.     *)
(*                                                                         *)
(* Nothing of a cancelled trip stays: each row is of a trip whose id the   *)
(* outbox knows, or comes of a create that waits and may have landed.      *)
(*                                                                         *)
(* And nothing that is recorded in turn is turned down: a command finds its*)
(* trip, the attempt before its own, and times it is in order with.        *)
(*                                                                         *)
(* So the server follows the diary: what it shows of a trip has no gap, and*)
(* the system implements TripDiary.                                        *)
(***************************************************************************)
EXTENDS OutboxSystemProofs, FiniteSetTheorems

-----------------------------------------------------------------------------
(* What commands and requests tell, and what rows show; d is the diary, s  *)
(* the server, b the outbox, x the trips that were cancelled.              *)

(* A command or a request sets field f of a trip or an attempt to v.       *)
Tells(c, slot, f, v) ==
  /\ v # Nil
  /\ \/ c.type = "updateTrip" /\ slot = TripSlot /\ f \in TripFields /\ v = c.body[f]
     \/ /\ c.type = "upsertAttempt"
        /\ slot = c.attempt /\ f \in S!Observed /\ v = c.body[f]

Shows(row, slot, f, v) ==
  /\ v # Nil
  /\ \/ slot = TripSlot /\ f \in TripFields /\ v = row.fields[f]
     \/ slot \in DOMAIN row.attempts /\ f \in S!Observed /\ v = row.attempts[slot][f]

(* What both commands tell, the second tells at least as new.              *)
Older(c, e) ==
  \A slot, f, v, m : Tells(c, slot, f, v) /\ Tells(e, slot, f, m) => v <= m

InOrder(b) ==
  \A i, j \in Ids(b) :
    i < j /\ KeyAt(b, i) = KeyAt(b, j) => Older(b.entries[i].cmd, b.entries[j].cmd)

Past(d, c) == \A slot, f, v : Tells(c, slot, f, v) => v \in 1..Len(d)

(* A command tells what was recorded for its trip; a delete was asked for. *)
Intended(d, c, x) ==
  /\ c.key \in Keys
  /\ Past(d, c)
  /\ IsDelete(c) => c.key \in x
  /\ c.type = "uploadGps" =>
       \A p \in DOMAIN c.points : c.points[p] \in 1..Len(d) /\ d[c.points[p]].key = c.key

BoxMeant(d, b, x) ==
  InOrder(b) /\ \A i \in Ids(b) : Intended(d, b.entries[i].cmd, x)

(* A request under way speaks of the trip of this key, and of nothing newer*)
(* than the queue does.                                                    *)
Meant(d, s, b, x, req, k) ==
  /\ req.tripId \in Nat /\ Names(d, s, req.tripId, k)
  /\ Past(d, req)
  /\ \A i \in Ids(b) : KeyAt(b, i) = k => Older(req, b.entries[i].cmd)
  /\ req.type = "deleteTrip" => k \in x
  /\ req.type = "uploadGps" =>
       \A p \in req.points : p \in 1..Len(d) /\ d[p].key = k

(* Nor does the server.                                                    *)
RowsMeant(d, s, b) ==
  /\ \A id \in S!Ids(s) : \A slot, f, v :
       Shows(s.trips[id], slot, f, v) =>
         /\ v \in 1..Len(d)
         /\ \A i \in Ids(b) : KeyAt(b, i) = RowKey(d, s, id) =>
              \A m : Tells(b.entries[i].cmd, slot, f, m) => v <= m
  /\ \A p \in DOMAIN s.gps :
       p \in 1..Len(d) /\ s.gps[p] \in Nat /\ Names(d, s, s.gps[p], d[p].key)

(* The first record of a trip begins it.                                   *)
Begun(d) ==
  \A n \in 1..Len(d) :
    /\ d[n].key[2] <= n
    /\ d[d[n].key[2]].slot = TripSlot
    /\ d[d[n].key[2]].field = "leftHomeAt"
    /\ d[n].slot = TripSlot => d[n].field \in TripFields
    /\ d[n].slot \in Attempts => d[n].field \in S!Observed

-----------------------------------------------------------------------------
(* The phone goes on. *)

Silent(c) == \A slot, f, v : ~Tells(c, slot, f, v)

(* The newest record, told by the last entry of its trip to tell anything. *)
News(d, e, c, i, v) ==
  /\ v = Len(e) /\ Len(d) < Len(e)
  /\ \A j \in Ids(c) :
       i < j /\ KeyAt(c, j) = KeyAt(c, i) => Silent(c.entries[j].cmd)

(* Whatever an entry tells it told before, or it is news.                  *)
Newer(d, e, b, c) ==
  \A i \in Ids(c) :
    /\ i \in Ids(b) => KeyAt(c, i) = KeyAt(b, i)
    /\ \A slot, f, v : Tells(c.entries[i].cmd, slot, f, v) =>
         \/ i \in Ids(b) /\ Tells(b.entries[i].cmd, slot, f, v)
         \/ News(d, e, c, i, v)

(* What is newer, entry by entry.                                          *)
LEMMA NewerParts ==
  ASSUME NEW d, NEW e, NEW b, NEW c, Newer(d, e, b, c), NEW i \in Ids(c)
  PROVE  /\ i \in Ids(b) => KeyAt(c, i) = KeyAt(b, i)
         /\ \A slot, f, v : Tells(c.entries[i].cmd, slot, f, v) =>
              \/ i \in Ids(b) /\ Tells(b.entries[i].cmd, slot, f, v)
              \/ News(d, e, c, i, v)
BY DEF Newer

(* The queue stays in order,                                               *)
LEMMA NewerInOrder ==
  ASSUME NEW d, NEW e, NEW b, NEW c, Grows(d, e), Newer(d, e, b, c), InOrder(b),
         \A i \in Ids(b) : Past(d, b.entries[i].cmd)
  PROVE  /\ InOrder(c)
         /\ \A i \in Ids(c) : Past(e, c.entries[i].cmd)
<1>0. Len(d) \in Nat /\ Len(e) \in Nat /\ Len(d) <= Len(e)
  BY DEF Grows
<1>1. ASSUME NEW i \in Ids(c), NEW slot, NEW f, NEW v, Tells(c.entries[i].cmd, slot, f, v)
      PROVE  v \in 1..Len(e)
  <2>1. v \in 1..Len(d) \/ (v = Len(e) /\ Len(d) < Len(e))
    BY <1>1, NewerParts DEF News, Past
  <2> QED BY <1>0, <2>1
<1>2. ASSUME NEW i \in Ids(c), NEW j \in Ids(c), i < j, KeyAt(c, i) = KeyAt(c, j),
             NEW slot, NEW f, NEW v, NEW m,
             Tells(c.entries[i].cmd, slot, f, v), Tells(c.entries[j].cmd, slot, f, m)
      PROVE  v <= m
  <2>1. v \in 1..Len(e) /\ m \in 1..Len(e)
    BY <1>1, <1>2
  <2>2. CASE m = Len(e)
    BY <1>0, <2>1, <2>2
  <2>3. CASE m # Len(e)
    <3>1. j \in Ids(b) /\ Tells(b.entries[j].cmd, slot, f, m) /\ KeyAt(b, j) = KeyAt(c, j)
      <4>1. ~News(d, e, c, j, m)
        BY <2>3 DEF News
      <4> QED BY <1>2, <4>1, NewerParts
    <3>2. i \in Ids(b) /\ Tells(b.entries[i].cmd, slot, f, v) /\ KeyAt(b, i) = KeyAt(c, i)
      <4>1. ~News(d, e, c, i, v)
        BY <1>2 DEF News, Silent
      <4> QED BY <1>2, <4>1, NewerParts
    <3> QED BY <1>2, <3>1, <3>2 DEF InOrder, Older
  <2> QED BY <2>2, <2>3
<1> QED BY <1>1, <1>2 DEF InOrder, Older, Past

(* and so do what is stored and what is under way.                         *)
LEMMA NewerMeant ==
  ASSUME NEW d, NEW e, NEW s, NEW b, NEW c, NEW x, NEW y,
         Grows(d, e), Newer(d, e, b, c), RowsDated(d, s), x \subseteq y
  PROVE  /\ \A req, k : Meant(d, s, b, x, req, k) => Meant(e, s, c, y, req, k)
         /\ RowsMeant(d, s, b) => RowsMeant(e, s, c)
<1>0. Len(d) \in Nat /\ Len(e) \in Nat /\ Len(d) <= Len(e)
  BY DEF Grows
<1>1. \A n \in 1..Len(d) : n \in 1..Len(e) /\ e[n] = d[n]
  BY DEF Grows
<1>2. \A id \in S!Ids(s) : RowKey(e, s, id) = RowKey(d, s, id)
  BY LaterKnown
<1>3. \A id, k : Names(d, s, id, k) => Names(e, s, id, k)
  BY <1>2 DEF Names
<1>4. ASSUME NEW i \in Ids(c), NEW slot, NEW f, NEW m, Tells(c.entries[i].cmd, slot, f, m)
      PROVE  \/ /\ i \in Ids(b) /\ KeyAt(c, i) = KeyAt(b, i)
                /\ Tells(b.entries[i].cmd, slot, f, m)
             \/ m = Len(e)
  <2>1. News(d, e, c, i, m) => m = Len(e)
    BY DEF News
  <2> QED BY <1>4, <2>1, NewerParts
<1>5. \A v \in 1..Len(d) : v <= Len(e)
  BY <1>0
<1>6. ASSUME NEW req, NEW k, Meant(d, s, b, x, req, k) PROVE Meant(e, s, c, y, req, k)
  <2>1. req.tripId \in Nat /\ Names(e, s, req.tripId, k)
    BY <1>3, <1>6 DEF Meant
  <2>2. Past(e, req)
    BY <1>1, <1>6 DEF Meant, Past
  <2>3. ASSUME NEW i \in Ids(c), KeyAt(c, i) = k, NEW slot, NEW f, NEW v, NEW m,
               Tells(req, slot, f, v), Tells(c.entries[i].cmd, slot, f, m)
        PROVE  v <= m
    <3>1. v \in 1..Len(d)
      BY <1>6, <2>3 DEF Meant, Past
    <3>2. CASE m = Len(e)
      BY <1>5, <3>1, <3>2
    <3>3. CASE m # Len(e)
      <4>1. i \in Ids(b) /\ KeyAt(b, i) = k /\ Tells(b.entries[i].cmd, slot, f, m)
        BY <1>4, <2>3, <3>3
      <4> QED BY <1>6, <2>3, <4>1 DEF Meant, Older
    <3> QED BY <3>2, <3>3
  <2>4. req.type = "uploadGps" => \A p \in req.points : p \in 1..Len(e) /\ e[p].key = k
    BY <1>1, <1>6 DEF Meant
  <2>5. req.type = "deleteTrip" => k \in y
    BY <1>6 DEF Meant
  <2> QED BY <2>1, <2>2, <2>3, <2>4, <2>5 DEF Meant, Older
<1>7. ASSUME RowsMeant(d, s, b) PROVE RowsMeant(e, s, c)
  <2>1. ASSUME NEW id \in S!Ids(s), NEW slot, NEW f, NEW v, Shows(s.trips[id], slot, f, v)
        PROVE  /\ v \in 1..Len(e)
               /\ \A i \in Ids(c) : KeyAt(c, i) = RowKey(e, s, id) =>
                    \A m : Tells(c.entries[i].cmd, slot, f, m) => v <= m
    <3>1. v \in 1..Len(d)
      BY <1>7, <2>1 DEF RowsMeant
    <3>2. ASSUME NEW i \in Ids(c), KeyAt(c, i) = RowKey(e, s, id),
                 NEW m, Tells(c.entries[i].cmd, slot, f, m)
          PROVE  v <= m
      <4>1. CASE m = Len(e)
        BY <1>5, <3>1, <4>1
      <4>2. CASE m # Len(e)
        <5>1. /\ i \in Ids(b) /\ KeyAt(b, i) = RowKey(d, s, id)
              /\ Tells(b.entries[i].cmd, slot, f, m)
          BY <1>2, <1>4, <3>2, <4>2
        <5> QED BY <1>7, <2>1, <5>1 DEF RowsMeant
      <4> QED BY <4>1, <4>2
    <3> QED BY <1>1, <3>1, <3>2
  <2>2. \A p \in DOMAIN s.gps :
          p \in 1..Len(e) /\ s.gps[p] \in Nat /\ Names(e, s, s.gps[p], e[p].key)
    BY <1>1, <1>3, <1>7 DEF RowsMeant
  <2> QED BY <2>1, <2>2 DEF RowsMeant
<1> QED BY <1>6, <1>7

(* What a command tells it goes on telling.                                *)
LEMMA LaterIntended ==
  ASSUME NEW d, NEW e, NEW x, NEW y, Grows(d, e), x \subseteq y,
         NEW c, Intended(d, c, x)
  PROVE  Intended(e, c, y)
<1>1. \A n \in 1..Len(d) : n \in 1..Len(e) /\ e[n] = d[n]
  BY DEF Grows
<1> QED BY <1>1 DEF Intended, Past

(* A step that only takes entries away tells nothing new.                  *)
LEMMA FewerNewer ==
  ASSUME NEW d, NEW b, NEW c, NEW x, NEW y, x \subseteq y, BoxMeant(d, b, x),
         Grows(d, d),
         \A i \in Ids(c) : i \in Ids(b) /\ c.entries[i].cmd = b.entries[i].cmd
  PROVE  Newer(d, d, b, c) /\ BoxMeant(d, c, y)
<1>1. Newer(d, d, b, c)
  BY DEF Newer, KeyAt
<1>2. \A i \in Ids(b) : Past(d, b.entries[i].cmd)
  BY DEF BoxMeant, Intended
<1>3. InOrder(c)
  BY <1>1, <1>2, NewerInOrder DEF BoxMeant
<1>4. \A i \in Ids(c) : Intended(d, c.entries[i].cmd, y)
  BY LaterIntended DEF BoxMeant
<1> QED BY <1>1, <1>3, <1>4 DEF BoxMeant

-----------------------------------------------------------------------------
(* A command put in. *)

Latest(d, e, cmd) ==
  /\ Len(d) < Len(e)
  /\ \A slot, f, v : Tells(cmd, slot, f, v) => v = Len(e)

(* Creates, deletes and points tell no field.                              *)
LEMMA Quiet ==
  ASSUME NEW c, c.type \notin {"updateTrip", "upsertAttempt"}
  PROVE  Silent(c)
BY DEF Silent, Tells

(* What was merged tells what one of the two told.                         *)
LEMMA MergedTells ==
  ASSUME NEW old \in Commands, NEW cmd \in Commands, NEW new,
         cmd.type \in {"updateTrip", "upsertAttempt"},
         old.type = cmd.type, new.type = cmd.type,
         new.body = Merged(old.body, cmd.body),
         cmd.type = "upsertAttempt" =>
           old.attempt = cmd.attempt /\ new.attempt = cmd.attempt,
         NEW slot, NEW f, NEW v, Tells(new, slot, f, v)
  PROVE  Tells(cmd, slot, f, v) \/ Tells(old, slot, f, v)
<1>1. CASE cmd.type = "updateTrip"
  <2>1. old.body \in TripBodies /\ f \in TripFields /\ v = new.body[f]
    BY <1>1, CommandParts DEF Tells
  <2>2. v \in {cmd.body[f], old.body[f]}
    BY <2>1 DEF Merged, TripBodies
  <2> QED BY <1>1, <2>2 DEF Tells
<1>2. CASE cmd.type = "upsertAttempt"
  <2>1. old.body \in AttemptBodies /\ f \in AttemptFields /\ v = new.body[f]
    BY <1>2, CommandParts DEF Tells, S!Observed, AttemptFields
  <2>2. v \in {cmd.body[f], old.body[f]}
    BY <2>1 DEF Merged, AttemptBodies
  <2> QED BY <1>2, <2>2 DEF Tells
<1> QED BY <1>1, <1>2

(* Without a batch to cut, a command is merged into the tail of its lane or*)
(* put behind all others.                                                  *)
LEMMA PlainEnqueued ==
  ASSUME NEW b, NEW cmd, cmd.type # "uploadGps"
  PROVE  \/ Mergeable(b, cmd) # {} /\ Enqueued(b, cmd) = MergeIntoLaneTail(b, cmd)
         \/ Enqueued(b, cmd) = AppendOne(b, cmd)
BY DEF Enqueued

(* A sequence of one is its own first run.                                 *)
LEMMA WholeSeq ==
  ASSUME NEW T, NEW s \in Seq(T), Len(s) = 1
  PROVE  SubSeq(s, 1, 1) = s
<1>1. /\ s \in [1..1 -> T]
      /\ 1 \in 1..Len(s)
  OBVIOUS
<1>2. SubSeq(s, 1, 1) = [i \in 1..1 |-> s[i]]
  OBVIOUS
<1> QED BY <1>1, <1>2

(* A single point is a batch of its own.                                   *)
LEMMA PointEnqueued ==
  ASSUME NEW b, NEW cmd \in Commands, cmd.type = "uploadGps",
         NEW p, cmd.points = <<p>>
  PROVE  Enqueued(b, cmd) = AppendOne(b, cmd)
<1> DEFINE chunks == Chunks(cmd.points)
           cmds == [c \in DOMAIN chunks |-> [cmd EXCEPT !.points = chunks[c]]]
<1>1. chunks = <<<<p>>>>
  <2>1. MaxPoints \in Nat /\ MaxPoints >= 1
    BY OutboxAssumption
  <2>2. Len(<<p>>) = 1
    OBVIOUS
  <2>3. (1 + MaxPoints - 1) \div MaxPoints = 1
    BY <2>1
  <2>4. (IF 1 * MaxPoints < 1 THEN 1 * MaxPoints ELSE 1) = 1
    BY <2>1
  <2>5. SubSeq(<<p>>, 1, 1) = <<p>>
    <3>1. <<p>> \in Seq({p}) /\ Len(<<p>>) = 1
      OBVIOUS
    <3> QED BY <3>1, WholeSeq
  <2>6. (1 - 1) * MaxPoints + 1 = 1
    BY <2>1
  <2>7. chunks = [c \in 1..1 |-> <<p>>]
    BY <2>2, <2>3, <2>4, <2>5, <2>6 DEF Chunks
  <2> QED BY <2>7
<1>2. cmd = [type |-> cmd.type, key |-> cmd.key, points |-> cmd.points]
  BY DEF Commands
<1>3. [cmd EXCEPT !.points = <<p>>] = cmd
  BY <1>2
<1> HIDE DEF chunks
<1>4. cmds = <<cmd>> /\ Len(chunks) = 1
  BY <1>1, <1>3
<1>5. Enqueued(b, cmd) = AppendAll(b, Len(chunks), cmds)
  BY DEF Enqueued, chunks
<1> QED BY <1>4, <1>5 DEF AppendOne

(* Whatever is put in is news of what is queued.                           *)
LEMMA EnqueuedNewer ==
  ASSUME NEW d, NEW e, NEW b, IsState(b), NEW cmd \in Commands, Latest(d, e, cmd),
         cmd.type = "uploadGps" => \E p : cmd.points = <<p>>
  PROVE  Newer(d, e, b, Enqueued(b, cmd))
<1>1. CASE Enqueued(b, cmd) = AppendOne(b, cmd)
  <2> DEFINE c == AppendOne(b, cmd)
  <2>1. /\ Ids(c) = Ids(b) \cup {b.nextId}
        /\ b.nextId \notin Ids(b)
        /\ c.entries[b.nextId] = NewEntry(cmd)
        /\ \A i \in Ids(b) : c.entries[i] = b.entries[i]
    BY AppendOneParts
  <2>2. \A i \in Ids(c) : ~(b.nextId < i)
    <3>1. b.nextId \in Nat /\ Ids(b) \subseteq 1..(b.nextId - 1)
      BY StateFields
    <3> QED BY <2>1, <3>1
  <2> HIDE DEF c
  <2>3. \A v : v = Len(e) => News(d, e, c, b.nextId, v)
    BY <2>2 DEF News, Latest
  <2>4. c.entries[b.nextId].cmd = cmd
    BY <2>1 DEF NewEntry
  <2> QED BY <1>1, <2>1, <2>3, <2>4 DEF Newer, KeyAt, Latest, c
<1>2. CASE Mergeable(b, cmd) # {} /\ Enqueued(b, cmd) = MergeIntoLaneTail(b, cmd)
  <2> DEFINE c == MergeIntoLaneTail(b, cmd)
  <2>1. /\ Ids(c) = Ids(b)
        /\ \A i \in Ids(b) \ Mergeable(b, cmd) : c.entries[i] = b.entries[i]
    BY MergeParts
  <2>2. ASSUME NEW i \in Mergeable(b, cmd)
        PROVE  /\ i \in Ids(b)
               /\ KeyAt(c, i) = KeyAt(b, i)
               /\ \A slot, f, v : Tells(c.entries[i].cmd, slot, f, v) =>
                    \/ Tells(b.entries[i].cmd, slot, f, v)
                    \/ News(d, e, c, i, v)
    <3> DEFINE old == b.entries[i].cmd
               new == c.entries[i].cmd
    <3>1. /\ i \in LaneTail(b, Lane(cmd)) /\ i \in Ids(b)
          /\ old.type = cmd.type
          /\ cmd.type \in {"updateTrip", "upsertAttempt"}
          /\ cmd.type = "upsertAttempt" => old.attempt = cmd.attempt
      BY DEF Mergeable, LaneTail
    <3>2. /\ new.type = old.type /\ new.key = old.key
          /\ new.body = Merged(old.body, cmd.body)
          /\ new.type = "upsertAttempt" => new.attempt = old.attempt
      BY MergeParts
    <3>3. old \in Commands
      BY <3>1, StateFields, EntryFields
    <3>4. Lane(cmd) = <<"record", cmd.key>> /\ KeyAt(c, i) = cmd.key
      <4>1. LaneOf(b, i) = Lane(cmd)
        BY <3>1 DEF LaneTail
      <4>2. Lane(cmd) = <<"record", cmd.key>> /\ Lane(old) = <<"record", old.key>>
        BY <3>1 DEF Lane
      <4> QED BY <3>2, <4>1, <4>2 DEF LaneOf, KeyAt
    <3>5. ASSUME NEW j \in Ids(c), i < j, KeyAt(c, j) = KeyAt(c, i)
          PROVE  Silent(c.entries[j].cmd)
      <4>1. LaneOf(b, j) # Lane(cmd)
        <5>1. LaneOf(b, j) = Lane(cmd) => j <= i
          BY <2>1, <3>1, <3>5 DEF LaneTail
        <5>2. i \in Nat /\ j \in Nat
          <6>1. b.nextId \in Nat /\ Ids(b) \subseteq 1..(b.nextId - 1)
            BY StateFields
          <6>2. i \in Ids(b) /\ j \in Ids(b)
            BY <2>1, <3>1, <3>5
          <6> QED BY <6>1, <6>2
        <5> QED BY <3>5, <5>1, <5>2
      <4>2. c.entries[j] = b.entries[j]
        BY <2>1, <4>1 DEF Mergeable, LaneTail
      <4>3. b.entries[j].cmd.type = "uploadGps"
        BY <3>4, <3>5, <4>1, <4>2 DEF LaneOf, Lane, KeyAt
      <4> QED BY <4>2, <4>3, Quiet
    <3> HIDE DEF c
    <3>6. \A v : v = Len(e) => News(d, e, c, i, v)
      BY <3>5 DEF News, Latest
    <3>7. ASSUME NEW slot, NEW f, NEW v, Tells(new, slot, f, v)
          PROVE  Tells(cmd, slot, f, v) \/ Tells(old, slot, f, v)
      <4> HIDE DEF old, new
      <4> QED BY <3>1, <3>2, <3>3, <3>7, MergedTells
    <3> QED BY <3>1, <3>2, <3>6, <3>7 DEF KeyAt, Latest
  <2> HIDE DEF c
  <2>3. Newer(d, e, b, c)
    <3> SUFFICES ASSUME NEW i \in Ids(c)
                 PROVE  /\ i \in Ids(b) => KeyAt(c, i) = KeyAt(b, i)
                        /\ \A slot, f, v : Tells(c.entries[i].cmd, slot, f, v) =>
                             \/ i \in Ids(b) /\ Tells(b.entries[i].cmd, slot, f, v)
                             \/ News(d, e, c, i, v)
      BY DEF Newer
    <3> QED BY <2>1, <2>2 DEF KeyAt
  <2> QED BY <1>2, <2>3 DEF c
<1> QED BY <1>1, <1>2, PlainEnqueued, PointEnqueued

(* And it is queued as it is meant.                                        *)
LEMMA EnqueuedMeant ==
  ASSUME NEW d, NEW e, NEW x, NEW b, IsState(b), NEW cmd \in Commands,
         ~IsDelete(cmd), Grows(d, e), Latest(d, e, cmd), Intended(e, cmd, x),
         cmd.type = "uploadGps" => \E p : cmd.points = <<p>>,
         BoxMeant(d, b, x)
  PROVE  BoxMeant(e, Enqueued(b, cmd), x)
<1> DEFINE c == Enqueued(b, cmd)
<1>1. Newer(d, e, b, c)
  BY EnqueuedNewer
<1>2. /\ InOrder(c)
      /\ \A i \in Ids(c) : Past(e, c.entries[i].cmd)
  BY <1>1, NewerInOrder DEF BoxMeant, Intended
<1>3. /\ \A i \in Ids(b) : /\ c.entries[i].cmd.type = b.entries[i].cmd.type
                           /\ c.entries[i].cmd.key = b.entries[i].cmd.key
      /\ \A i \in Ids(b) \ Mergeable(b, cmd) : c.entries[i] = b.entries[i]
      /\ \A i \in Mergeable(b, cmd) :
           i \in Ids(b) /\ b.entries[i].cmd.type \in {"updateTrip", "upsertAttempt"}
  BY EnqueuedParts, EnqueuedEntries
<1>4. \A i \in Ids(c) \ Ids(b) : c.entries[i].cmd = cmd
  <2>1. CASE cmd.type # "uploadGps"
    <3>1. \A i \in Ids(c) \ Ids(b) : c.entries[i] = NewEntry(cmd)
      BY <2>1, EnqueuedEntries
    <3> HIDE DEF c
    <3> QED BY <3>1 DEF NewEntry
  <2>2. CASE cmd.type = "uploadGps"
    <3>1. c = AppendOne(b, cmd)
      BY <2>2, PointEnqueued
    <3>2. /\ Ids(AppendOne(b, cmd)) = Ids(b) \cup {b.nextId}
          /\ AppendOne(b, cmd).entries[b.nextId] = NewEntry(cmd)
      BY AppendOneParts
    <3>3. NewEntry(cmd).cmd = cmd
      BY DEF NewEntry
    <3> HIDE DEF c
    <3> QED BY <3>1, <3>2, <3>3
  <2> QED BY <2>1, <2>2
<1> HIDE DEF c
<1>5. ASSUME NEW i \in Ids(c) PROVE Intended(e, c.entries[i].cmd, x)
  <2>1. CASE i \notin Ids(b)
    BY <1>4, <2>1
  <2>2. CASE i \in Ids(b) \ Mergeable(b, cmd)
    BY <1>3, <2>2, LaterIntended DEF BoxMeant
  <2>3. CASE i \in Mergeable(b, cmd)
    BY <1>2, <1>3, <2>3 DEF BoxMeant, Intended, IsDelete
  <2> QED BY <1>5, <2>1, <2>2, <2>3
<1> QED BY <1>2, <1>5 DEF BoxMeant, c

(* Discarding a trip tells nothing.                                        *)
LEMMA DiscardedMeant ==
  ASSUME NEW d, NEW x, NEW b, IsState(b), NEW key \in Keys, Grows(d, d),
         BoxMeant(d, b, x)
  PROVE  /\ Newer(d, d, b, Discarded(b, key))
         /\ BoxMeant(d, Discarded(b, key), x \cup {key})
<1> DEFINE c == Discarded(b, key)
           delete == [type |-> "deleteTrip", key |-> key]
<1>1. \A i \in Ids(c) :
        \/ i \in Ids(b) /\ c.entries[i] = b.entries[i]
        \/ i \notin Ids(b) /\ c.entries[i].cmd = delete
  <2>1. NewEntry(delete).cmd = delete
    BY DEF NewEntry
  <2> QED BY <2>1, DiscardedParts
<1>2. Silent(delete) /\ Past(d, delete) /\ Intended(d, delete, x \cup {key})
  <2>1. Silent(delete)
    BY Quiet
  <2> QED BY <2>1 DEF Silent, Past, Intended
<1> HIDE DEF c, delete
<1>3. Newer(d, d, b, c)
  BY <1>1, <1>2 DEF Newer, KeyAt, Silent
<1>4. InOrder(c)
  BY <1>3, NewerInOrder DEF BoxMeant, Intended
<1>5. \A i \in Ids(c) : Intended(d, c.entries[i].cmd, x \cup {key})
  BY <1>1, <1>2, LaterIntended DEF BoxMeant
<1> QED BY <1>3, <1>4, <1>5 DEF BoxMeant, c

-----------------------------------------------------------------------------
(* Where a record is. *)

(* It, or a later one of its field, is on the server (OnServer),           *)
Has(d, s, n) ==
  IF d[n].slot = GpsSlot THEN n \in DOMAIN s.gps
  ELSE \E id \in S!Ids(s) : \E v :
         /\ RowKey(d, s, id) = d[n].key
         /\ Shows(s.trips[id], d[n].slot, d[n].field, v)
         /\ v >= n

(* or a command carries it (Carries).                                      *)
Bears(d, cmd, n) ==
  /\ cmd.key = d[n].key
  /\ \/ cmd.type = "createTrip" /\ n = d[n].key[2]
     \/ \E v \in n..Len(d) : Tells(cmd, d[n].slot, d[n].field, v)
     \/ /\ cmd.type = "uploadGps" /\ d[n].slot = GpsSlot
        /\ \E i \in DOMAIN cmd.points : cmd.points[i] = n

(* It was cancelled or taken back, or is there.                            *)
Settled(d, s, x, o, n) == d[n].key \in x \/ n \in o \/ Has(d, s, n)

Queued(d, b, n) == \E i \in Ids(b) : Bears(d, b.entries[i].cmd, n)

Shown(d, L, n) == \E letter \in L : Bears(d, letter.cmd, n)

Covered(d, s, b, L, x, o, n) ==
  Settled(d, s, x, o, n) \/ Queued(d, b, n) \/ Shown(d, L, n)

(* As time goes on a record stays where it is.                             *)
LEMMA BearsLater ==
  ASSUME NEW d, NEW e, Grows(d, e), NEW n \in 1..Len(d)
  PROVE  /\ d[n] = e[n]
         /\ \A cmd : Bears(d, cmd, n) => Bears(e, cmd, n)
         /\ \A L, M : L \subseteq M /\ Shown(d, L, n) => Shown(e, M, n)
<1>1. d[n] = e[n] /\ \A v \in n..Len(d) : v \in n..Len(e)
  BY DEF Grows
<1>2. \A cmd : Bears(d, cmd, n) => Bears(e, cmd, n)
  BY <1>1 DEF Bears
<1> QED BY <1>1, <1>2 DEF Shown

(* And what is settled stays settled.                                      *)
LEMMA SettledLater ==
  ASSUME NEW d, NEW e, Grows(d, e), NEW n \in 1..Len(d), NEW s, RowsDated(d, s),
         NEW x, NEW y, x \subseteq y, NEW o, Settled(d, s, x, o, n)
  PROVE  Settled(e, s, y, o, n)
<1>1. d[n] = e[n]
  BY DEF Grows
<1>2. \A id \in S!Ids(s) : RowKey(e, s, id) = RowKey(d, s, id)
  BY LaterKnown
<1> QED BY <1>1, <1>2 DEF Settled, Has

(* A command tells of nothing that was recorded after it.                  *)
LEMMA BearsBack ==
  ASSUME NEW d, NEW e, Grows(d, e), NEW n \in 1..Len(e), NEW x, NEW cmd,
         Intended(d, cmd, x), cmd.type # "createTrip", Bears(e, cmd, n)
  PROVE  n \in 1..Len(d) /\ Bears(d, cmd, n)
<1>0. Len(d) \in Nat /\ Len(e) \in Nat /\ Len(d) <= Len(e)
  BY DEF Grows
<1>1. CASE \E v \in n..Len(e) : Tells(cmd, e[n].slot, e[n].field, v)
  <2>1. PICK v \in n..Len(e) : Tells(cmd, e[n].slot, e[n].field, v)
    BY <1>1
  <2>2. v \in 1..Len(d)
    BY <2>1 DEF Intended, Past
  <2>3. n \in 1..Len(d) /\ v \in n..Len(d)
    BY <1>0, <2>1, <2>2
  <2> QED BY <2>1, <2>3 DEF Bears, Grows
<1>2. CASE /\ cmd.type = "uploadGps" /\ e[n].slot = GpsSlot
           /\ \E i \in DOMAIN cmd.points : cmd.points[i] = n
  <2>1. n \in 1..Len(d)
    BY <1>2 DEF Intended
  <2> QED BY <1>2, <2>1 DEF Bears, Grows
<1> QED BY <1>1, <1>2 DEF Bears

(* What the phone makes of the system's own words.                         *)
LEMMA CarriedIsBorne ==
  ASSUME RecorderTyped, Begun(diary), NEW n \in 1..clock, NEW cmd \in Commands,
         Bears(diary, cmd, n)
  PROVE  Carries(cmd, n)
<1>1. clock = Len(diary) /\ cmd.key = diary[n].key
  BY DEF clock, Bears
<1>2. CASE cmd.type = "createTrip" /\ n = diary[n].key[2]
  BY <1>1, <1>2 DEF Carries
<1>3. CASE \E v \in n..Len(diary) : Tells(cmd, diary[n].slot, diary[n].field, v)
  <2>1. PICK v \in n..Len(diary) : Tells(cmd, diary[n].slot, diary[n].field, v)
    BY <1>3
  <2>2. CASE cmd.type = "updateTrip"
    BY <1>1, <2>1, <2>2 DEF Carries, Tells
  <2>3. CASE cmd.type = "upsertAttempt"
    BY <1>1, <2>1, <2>3 DEF Carries, Tells
  <2> QED BY <2>1, <2>2, <2>3 DEF Tells
<1>4. CASE /\ cmd.type = "uploadGps" /\ diary[n].slot = GpsSlot
           /\ \E i \in DOMAIN cmd.points : cmd.points[i] = n
  BY <1>1, <1>4 DEF Carries
<1> QED BY <1>2, <1>3, <1>4 DEF Bears

(* A key of the diary is one of the outbox's.                              *)
LEMMA WritingParts ==
  ASSUME NEW d \in Seq(Writings), NEW n \in 1..Len(d)
  PROVE  /\ d[n].key \in Keys
         /\ d[n].slot \in {TripSlot, GpsSlot} \cup Attempts
         /\ Len(d) \in Nat /\ n \in Nat /\ n >= 1
<1>1. d[n] \in Writings
  OBVIOUS
<1> QED BY <1>1 DEF Writings

(* What a row holds is what it shows.                                      *)
LEMMA ContentIsShown ==
  ASSUME NEW row, NEW slot, NEW f, NEW v
  PROVE  <<slot, f, v>> \in RowContent(row) <=> Shows(row, slot, f, v)
BY DEF RowContent, Shows

(* And what the server holds of a record it has.                           *)
LEMMA OnServerIsHas ==
  diary \in Seq(Writings) =>
    \A n \in 1..Len(diary) : OnServer(n) <=> Has(diary, server, n)
<1> SUFFICES ASSUME diary \in Seq(Writings), NEW n \in 1..Len(diary)
             PROVE  OnServer(n) <=> Has(diary, server, n)
  OBVIOUS
<1> DEFINE k == diary[n].key
           slot == diary[n].slot
           f == diary[n].field
<1>1. k \in Keys
  BY WritingParts
<1>2. \A id : id \in RowsOf(k) <=> id \in S!Ids(server) /\ RowKey(diary, server, id) = k
  BY DEF RowsOf, RowKey, KeyOf, S!Ids
<1>3. Stored[k] = UNION {RowContent(server.trips[i]) : i \in RowsOf(k)}
  BY <1>1 DEF Stored
<1>4. \A row : \A c \in RowContent(row) : c = <<c[1], c[2], c[3]>>
  BY DEF RowContent
<1> HIDE DEF k, slot, f
<1>5. (\E c \in Stored[k] : c[1] = slot /\ c[2] = f /\ c[3] >= n)
        <=> \E id \in S!Ids(server) : \E v :
              /\ RowKey(diary, server, id) = k
              /\ Shows(server.trips[id], slot, f, v)
              /\ v >= n
  <2>1. ASSUME NEW c \in Stored[k], c[1] = slot, c[2] = f, c[3] >= n
        PROVE  \E id \in S!Ids(server) : \E v :
                 /\ RowKey(diary, server, id) = k
                 /\ Shows(server.trips[id], slot, f, v)
                 /\ v >= n
    <3>1. PICK id \in RowsOf(k) : c \in RowContent(server.trips[id])
      BY <1>3
    <3>2. Shows(server.trips[id], slot, f, c[3])
      BY <1>4, <2>1, <3>1, ContentIsShown
    <3> QED BY <1>2, <2>1, <3>2
  <2>2. ASSUME NEW id \in S!Ids(server), NEW v, RowKey(diary, server, id) = k,
               Shows(server.trips[id], slot, f, v), v >= n
        PROVE  \E c \in Stored[k] : c[1] = slot /\ c[2] = f /\ c[3] >= n
    <3>1. <<slot, f, v>> \in RowContent(server.trips[id])
      BY <2>2, ContentIsShown
    <3>2. <<slot, f, v>> \in Stored[k]
      BY <1>2, <1>3, <2>2, <3>1
    <3> QED BY <2>2, <3>2
  <2> QED BY <2>1, <2>2
<1> QED BY <1>5 DEF OnServer, Has, k, slot, f

(* The same after a step.                                                  *)
LEMMA OnServerIsHasLater ==
  (diary \in Seq(Writings) =>
     \A n \in 1..Len(diary) : OnServer(n) <=> Has(diary, server, n))'
BY OnServerIsHas, PTL

-----------------------------------------------------------------------------
(* The server serves a request. *)

(* A row shows what it showed, and what the request tells in its place.    *)
Took(old, new, req) ==
  \A slot, f, v :
    /\ Tells(req, slot, f, v) => Shows(new, slot, f, v)
    /\ Shows(new, slot, f, v) => Tells(req, slot, f, v) \/ Shows(old, slot, f, v)
    /\ Shows(old, slot, f, v) =>
         Shows(new, slot, f, v) \/ \E m : Tells(req, slot, f, m)

(* An update overlays the fields of a trip,                                *)
LEMMA UpdateTook ==
  ASSUME NEW old, S!IsTrip(old), NEW new, NEW req, req.type = "updateTrip",
         new.fields = S!Overlay(old.fields, req.body), new.attempts = old.attempts
  PROVE  Took(old, new, req)
<1>1. \A f \in TripFields :
        new.fields[f] = IF req.body[f] # Nil THEN req.body[f] ELSE old.fields[f]
  <2>1. DOMAIN old.fields = TripFields
    BY SameBodies DEF S!IsTrip, S!TripBodies
  <2> QED BY <2>1 DEF S!Overlay
<1> QED BY <1>1 DEF Took, Tells, Shows, TripFields, S!Observed

(* an upsert those of an attempt.                                          *)
LEMMA UpsertTook ==
  ASSUME NEW old, S!IsTrip(old), NEW new, NEW req, req.type = "upsertAttempt",
         new.fields = old.fields,
         Attempted(Upserted(old.attempts, req.attempt, req.body), new.attempts)
  PROVE  Took(old, new, req)
<1> DEFINE k == req.attempt
           up == Upserted(old.attempts, k, req.body)
<1>1. DOMAIN new.attempts = DOMAIN old.attempts \cup {k}
  BY DEF Attempted, Upserted
<1>2. \A j \in DOMAIN new.attempts : \A f \in S!Observed : new.attempts[j][f] = up[j][f]
  BY <1>1 DEF Attempted, Upserted, S!Observed, S!AttemptFields
<1>3. \A j \in DOMAIN old.attempts \ {k} : up[j] = old.attempts[j]
  BY DEF Upserted
<1>4. /\ k \in DOMAIN old.attempts => old.attempts[k] \in S!AttemptBodies
      /\ S!BlankAttempt = [f \in S!AttemptFields |-> Nil]
  BY DEF S!IsTrip, S!BlankAttempt
<1>5. \A f \in S!Observed :
        up[k][f] = IF req.body[f] # Nil THEN req.body[f]
                   ELSE IF k \in DOMAIN old.attempts THEN old.attempts[k][f] ELSE Nil
  <2>1. DOMAIN Before(old.attempts, k) = S!AttemptFields
    BY <1>4 DEF Before, S!AttemptBodies
  <2>2. up[k] = S!Overlay(Before(old.attempts, k), req.body)
    BY DEF Upserted
  <2>3. \A f \in S!Observed : f \in S!AttemptFields
    BY DEF S!Observed, S!AttemptFields
  <2> QED BY <1>4, <2>1, <2>2, <2>3 DEF S!Overlay, Before
<1>6. ASSUME NEW slot, NEW f, NEW v
      PROVE  /\ Tells(req, slot, f, v) => Shows(new, slot, f, v)
             /\ Shows(new, slot, f, v) => Tells(req, slot, f, v) \/ Shows(old, slot, f, v)
             /\ Shows(old, slot, f, v) =>
                  Shows(new, slot, f, v) \/ \E m : Tells(req, slot, f, m)
  <2> HIDE DEF up
  <2>1. Tells(req, slot, f, v) => Shows(new, slot, f, v)
    BY <1>1, <1>2, <1>5 DEF Tells, Shows
  <2>2. Shows(new, slot, f, v) => Tells(req, slot, f, v) \/ Shows(old, slot, f, v)
    BY <1>1, <1>2, <1>3, <1>5 DEF Tells, Shows
  <2>3. ASSUME Shows(old, slot, f, v), \A m : ~Tells(req, slot, f, m)
        PROVE  Shows(new, slot, f, v)
    <3>1. CASE slot = k /\ slot \in DOMAIN old.attempts /\ f \in S!Observed
                 /\ v = old.attempts[slot][f] /\ v # Nil
      <4>1. req.body[f] = Nil
        BY <2>3, <3>1 DEF Tells
      <4> QED BY <1>1, <1>2, <1>5, <3>1, <4>1 DEF Shows
    <3>2. CASE slot # k /\ slot \in DOMAIN old.attempts /\ f \in S!Observed
                 /\ v = old.attempts[slot][f] /\ v # Nil
      BY <1>1, <1>2, <1>3, <3>2 DEF Shows
    <3>3. CASE v # Nil /\ slot = TripSlot /\ f \in TripFields /\ v = old.fields[f]
      BY <3>3 DEF Shows
    <3> QED BY <2>3, <3>1, <3>2, <3>3 DEF Shows
  <2> QED BY <2>1, <2>2, <2>3
<1> QED BY <1>6 DEF Took

(* They change one row, or nothing, and only then they are not delivered.  *)
LEMMA ServedTook ==
  ASSUME NEW s, IsServer(s), NEW req \in PhoneRequests,
         req.type \in {"updateTrip", "upsertAttempt"}
  PROVE  LET t == S!Served(s, req).state
             id == req.tripId
         IN  \/ t = s /\ S!Served(s, req).outcome # Delivered
             \/ /\ id \in S!Ids(s)
                /\ S!Ids(t) = S!Ids(s)
                /\ t.gps = s.gps
                /\ \A i \in S!Ids(s) \ {id} : t.trips[i] = s.trips[i]
                /\ Took(s.trips[id], t.trips[id], req)
<1> DEFINE t == S!Served(s, req).state
           id == req.tripId
           old == s.trips[id]
           new == t.trips[id]
<1>0. NotFound # Delivered /\ Refused # Delivered
  BY DEF NotFound, Refused, Delivered
<1>1. id \in S!Ids(s) => S!IsTrip(old)
  BY DEF IsServer
<1>2. CASE req.type = "updateTrip"
  <2>1. \/ t = s /\ S!Served(s, req).outcome # Delivered
        \/ /\ id \in S!Ids(s)
           /\ S!Ids(t) = S!Ids(s)
           /\ t.gps = s.gps
           /\ \A i \in S!Ids(s) \ {id} : t.trips[i] = s.trips[i]
           /\ new.fields = S!Overlay(old.fields, req.body)
           /\ new.attempts = old.attempts
    <3> DEFINE outcome == S!Served(s, req).outcome
    <3>1. \/ t = s /\ outcome # Delivered
          \/ /\ id \in S!Ids(s)
             /\ t = [trips |-> t.trips, gps |-> s.gps, lastId |-> s.lastId]
             /\ S!Ids(t) = S!Ids(s)
             /\ new = [route |-> old.route, tripDate |-> old.tripDate,
                       fields |-> S!Overlay(old.fields, req.body),
                       attempts |-> old.attempts]
             /\ \A i \in S!Ids(s) \ {id} : t.trips[i] = s.trips[i]
      <4>1. CASE outcome = Delivered
        <5>1. id \in S!Ids(s)
          BY <1>0, <1>2, <4>1, UpdateParts
        <5>2. t = [trips |-> t.trips, gps |-> s.gps, lastId |-> s.lastId]
          BY <1>0, <1>2, <4>1, UpdateParts
        <5>3. /\ S!Ids(t) = S!Ids(s)
              /\ \A i \in S!Ids(s) \ {id} : t.trips[i] = s.trips[i]
          BY <1>0, <1>2, <4>1, UpdateParts
        <5>4. new = [route |-> old.route, tripDate |-> old.tripDate,
                     fields |-> S!Overlay(old.fields, req.body),
                     attempts |-> old.attempts]
          BY <1>0, <1>2, <4>1, UpdateParts
        <5> QED BY <5>1, <5>2, <5>3, <5>4
      <4>2. CASE outcome # Delivered
        BY <1>2, <4>2, UpdateParts
      <4> QED BY <4>1, <4>2
    <3> HIDE DEF t, id, old, new, outcome
    <3>2. t = [trips |-> t.trips, gps |-> s.gps, lastId |-> s.lastId] => t.gps = s.gps
      OBVIOUS
    <3>3. new = [route |-> old.route, tripDate |-> old.tripDate,
                 fields |-> S!Overlay(old.fields, req.body), attempts |-> old.attempts]
            => /\ new.fields = S!Overlay(old.fields, req.body)
               /\ new.attempts = old.attempts
      OBVIOUS
    <3> QED BY <3>1, <3>2, <3>3 DEF outcome
  <2> HIDE DEF t, id, old, new
  <2>2. id \in S!Ids(s) /\ new.fields = S!Overlay(old.fields, req.body)
          /\ new.attempts = old.attempts => Took(old, new, req)
    BY <1>1, <1>2, UpdateTook
  <2> QED BY <2>1, <2>2 DEF t, id, old, new
<1>3. CASE req.type = "upsertAttempt"
  <2>1. \/ t = s /\ S!Served(s, req).outcome # Delivered
        \/ /\ id \in S!Ids(s)
           /\ S!Ids(t) = S!Ids(s)
           /\ t.gps = s.gps
           /\ \A i \in S!Ids(s) \ {id} : t.trips[i] = s.trips[i]
           /\ new.fields = old.fields
           /\ Attempted(Upserted(old.attempts, req.attempt, req.body), new.attempts)
    <3> DEFINE outcome == S!Served(s, req).outcome
    <3>1. \/ t = s /\ outcome # Delivered
          \/ /\ id \in S!Ids(s)
             /\ t = [trips |-> t.trips, gps |-> s.gps, lastId |-> s.lastId]
             /\ S!Ids(t) = S!Ids(s)
             /\ \A i \in S!Ids(s) \ {id} : t.trips[i] = s.trips[i]
             /\ new = [route |-> old.route, tripDate |-> old.tripDate,
                       fields |-> old.fields, attempts |-> new.attempts]
             /\ Attempted(Upserted(old.attempts, req.attempt, req.body), new.attempts)
      <4>1. CASE outcome = Delivered
        <5>1. id \in S!Ids(s)
          BY <1>0, <1>3, <4>1, UpsertParts
        <5>2. t = [trips |-> t.trips, gps |-> s.gps, lastId |-> s.lastId]
          BY <1>0, <1>3, <4>1, UpsertParts
        <5>3. /\ S!Ids(t) = S!Ids(s)
              /\ \A i \in S!Ids(s) \ {id} : t.trips[i] = s.trips[i]
          BY <1>0, <1>3, <4>1, UpsertParts
        <5>4. /\ new = [route |-> old.route, tripDate |-> old.tripDate,
                        fields |-> old.fields, attempts |-> new.attempts]
              /\ Attempted(Upserted(old.attempts, req.attempt, req.body), new.attempts)
          BY <1>0, <1>3, <4>1, UpsertParts
        <5> QED BY <5>1, <5>2, <5>3, <5>4
      <4>2. CASE outcome # Delivered
        BY <1>3, <4>2, UpsertParts
      <4> QED BY <4>1, <4>2
    <3> HIDE DEF t, id, old, new, outcome
    <3>2. t = [trips |-> t.trips, gps |-> s.gps, lastId |-> s.lastId] => t.gps = s.gps
      OBVIOUS
    <3>3. new = [route |-> old.route, tripDate |-> old.tripDate,
                 fields |-> old.fields, attempts |-> new.attempts]
            => new.fields = old.fields
      OBVIOUS
    <3> QED BY <3>1, <3>2, <3>3 DEF outcome
  <2> HIDE DEF t, id, old, new
  <2>2. /\ id \in S!Ids(s) /\ new.fields = old.fields
        /\ Attempted(Upserted(old.attempts, req.attempt, req.body), new.attempts)
        => Took(old, new, req)
    BY <1>1, <1>3, UpsertTook
  <2> QED BY <2>1, <2>2 DEF t, id, old, new
<1> QED BY <1>2, <1>3

(* A row that is made shows when the trip was begun.                       *)
LEMMA NewRowMeant ==
  ASSUME NEW d, Begun(d), NEW s, NEW b, BodiesKnown(d, b),
         NEW req, Known(d, <<req.route, req.leftHomeAt>>),
         NEW id, s.trips[id] = S!NewTrip(req)
  PROVE  \A slot, f, v : Shows(s.trips[id], slot, f, v) =>
           /\ v \in 1..Len(d)
           /\ \A i \in Ids(b) : KeyAt(b, i) = RowKey(d, s, id) =>
                \A m : Tells(b.entries[i].cmd, slot, f, m) => v <= m
<1> SUFFICES ASSUME NEW slot, NEW f, NEW v, Shows(s.trips[id], slot, f, v)
             PROVE  /\ v \in 1..Len(d)
                    /\ \A i \in Ids(b) : KeyAt(b, i) = RowKey(d, s, id) =>
                         \A m : Tells(b.entries[i].cmd, slot, f, m) => v <= m
  OBVIOUS
<1> DEFINE k == <<req.route, req.leftHomeAt>>
<1>1. slot = TripSlot /\ f = "leftHomeAt" /\ v = req.leftHomeAt
  <2>1. DOMAIN s.trips[id].attempts = {}
    BY DEF S!NewTrip
  <2>2. \A g \in TripFields :
          s.trips[id].fields[g] = IF g = "leftHomeAt" THEN req.leftHomeAt ELSE Nil
    BY SameBodies DEF S!NewTrip
  <2> QED BY <2>1, <2>2 DEF Shows
<1>2. v \in 1..Len(d) /\ d[v].key = k /\ k[2] = v
  BY <1>1 DEF Known
<1>3. RowKey(d, s, id) = k
  BY <1>1, <1>2 DEF RowKey, S!NewTrip, S!TripFields
<1>4. ASSUME NEW i \in Ids(b), KeyAt(b, i) = RowKey(d, s, id),
             NEW m, Tells(b.entries[i].cmd, slot, f, m)
      PROVE  v <= m
  <2>1. TypeAt(b, i) = "updateTrip" /\ m = b.entries[i].cmd.body.leftHomeAt /\ m # Nil
    BY <1>1, <1>4 DEF Tells, TypeAt, S!Observed
  <2>2. m \in 1..Len(d) /\ d[m].key = k
    BY <1>3, <1>4, <2>1 DEF BodiesKnown, Leaves
  <2> QED BY <1>2, <2>2 DEF Begun
<1> QED BY <1>2, <1>4

(* A request that means what its command did leaves what is stored and what*)
(* is under way behind the queue.                                          *)
LEMMA ServedMeant ==
  ASSUME NEW d \in Seq(Writings), NEW s, IsServer(s), NEW b, NEW x,
         NEW req \in PhoneRequests, RowsDated(d, s), BodiesKnown(d, b), Begun(d),
         Fits(d, s, b, req), RowsMeant(d, s, b),
         req.type # "createTrip" => \E k \in Keys : Meant(d, s, b, x, req, k)
  PROVE  LET t == S!Served(s, req).state IN
         /\ RowsMeant(d, t, b)
         /\ RemovedBy(d, s, t) \subseteq x
         /\ \A r, k : Meant(d, s, b, x, r, k) => Meant(d, t, b, x, r, k)
<1> DEFINE t == S!Served(s, req).state
<1>0. Len(d) \in Nat
  OBVIOUS
<1>1. IsServer(t)
  BY ServedType
<1>2. Evolves(d, s, t, b)
  BY <1>0, ServedEvolves
<1> HIDE DEF t
<1>3. \A id \in Nat : \A k : Names(d, s, id, k) => Names(d, t, id, k)
  <2>1. \A id \in Int : \A k : Names(d, s, id, k) => Names(d, t, id, k)
    BY <1>1, <1>2, ServerStep
  <2> QED BY <2>1
<1>4. \A r, k : Meant(d, s, b, x, r, k) => Meant(d, t, b, x, r, k)
  BY <1>3 DEF Meant
<1>5. \A id \in S!Ids(s) \cap S!Ids(t) : RowKey(d, t, id) = RowKey(d, s, id)
  <2>1. \A id \in S!Ids(s) : id <= s.lastId
    BY DEF IsServer
  <2> QED BY <1>2, <2>1 DEF Evolves
<1>6. \A p \in DOMAIN s.gps :
        p \in 1..Len(d) /\ s.gps[p] \in Nat /\ Names(d, t, s.gps[p], d[p].key)
  BY <1>3 DEF RowsMeant
<1>7. ASSUME NEW id \in S!Ids(s) \cap S!Ids(t), t.trips[id] = s.trips[id],
             NEW slot, NEW f, NEW v, Shows(t.trips[id], slot, f, v)
      PROVE  /\ v \in 1..Len(d)
             /\ \A i \in Ids(b) : KeyAt(b, i) = RowKey(d, t, id) =>
                  \A m : Tells(b.entries[i].cmd, slot, f, m) => v <= m
  BY <1>5, <1>7 DEF RowsMeant
<1>8. CASE req.type = "createTrip"
  <2>1. CASE t = s
    BY <1>4, <2>1 DEF RemovedBy, t
  <2>2. CASE t # s
    <3> DEFINE id == s.lastId + 1
    <3>1. /\ t.gps = s.gps
          /\ S!Ids(t) = S!Ids(s) \cup {id}
          /\ t.trips[id] = S!NewTrip(req)
          /\ \A i \in S!Ids(s) : i # id /\ t.trips[i] = s.trips[i]
      <4>1. /\ t = [trips |-> t.trips, gps |-> s.gps, lastId |-> id]
            /\ S!Ids(t) = S!Ids(s) \cup {id}
            /\ t.trips[id] = S!NewTrip(req)
            /\ \A i \in S!Ids(s) : i # id /\ t.trips[i] = s.trips[i]
        BY <1>8, <2>2, CreateParts DEF t
      <4>2. t = [trips |-> t.trips, gps |-> s.gps, lastId |-> id] => t.gps = s.gps
        OBVIOUS
      <4> QED BY <4>1, <4>2
    <3> HIDE DEF id
    <3>2. Known(d, <<req.route, req.leftHomeAt>>)
      BY <1>8 DEF Fits
    <3>3. RowsMeant(d, t, b)
      <4>1. \A slot, f, v : Shows(t.trips[id], slot, f, v) =>
              /\ v \in 1..Len(d)
              /\ \A i \in Ids(b) : KeyAt(b, i) = RowKey(d, t, id) =>
                   \A m : Tells(b.entries[i].cmd, slot, f, m) => v <= m
        <5>1. t.trips[id] = S!NewTrip(req)
          BY <3>1
        <5> QED BY <3>2, <5>1, NewRowMeant, Zenon
      <4>2. \A p \in DOMAIN t.gps :
              p \in 1..Len(d) /\ t.gps[p] \in Nat /\ Names(d, t, t.gps[p], d[p].key)
        BY <1>6, <3>1
      <4>3. ASSUME NEW i \in S!Ids(t), NEW slot, NEW f, NEW v,
                   Shows(t.trips[i], slot, f, v)
            PROVE  /\ v \in 1..Len(d)
                   /\ \A j \in Ids(b) : KeyAt(b, j) = RowKey(d, t, i) =>
                        \A m : Tells(b.entries[j].cmd, slot, f, m) => v <= m
        BY <1>7, <3>1, <4>1, <4>3
      <4> QED BY <4>2, <4>3 DEF RowsMeant
    <3>4. RemovedBy(d, s, t) = {}
      BY <3>1 DEF RemovedBy
    <3> QED BY <1>4, <3>3, <3>4 DEF t
  <2> QED BY <2>1, <2>2 DEF t
<1>9. ASSUME req.type # "createTrip"
      PROVE  RowsMeant(d, t, b) /\ RemovedBy(d, s, t) \subseteq x
  <2>0. PICK k \in Keys : Meant(d, s, b, x, req, k)
    BY <1>9
  <2> DEFINE id == req.tripId
  <2>1. /\ id \in Nat /\ Names(d, s, id, k) /\ Names(d, t, id, k)
        /\ id \in S!Ids(s) => RowKey(d, s, id) = k
    BY <1>3, <2>0 DEF Meant, Names
  <2>2. CASE req.type \in {"updateTrip", "upsertAttempt"}
    <3>1. \/ t = s
          \/ /\ id \in S!Ids(s)
             /\ S!Ids(t) = S!Ids(s)
             /\ t.gps = s.gps
             /\ \A i \in S!Ids(s) \ {id} : t.trips[i] = s.trips[i]
             /\ Took(s.trips[id], t.trips[id], req)
      BY <2>2, ServedTook DEF t
    <3>2. CASE t = s
      BY <3>2 DEF RemovedBy
    <3>3. CASE t # s
      <4>1. ASSUME NEW slot, NEW f, NEW v, Shows(t.trips[id], slot, f, v)
            PROVE  /\ v \in 1..Len(d)
                   /\ \A i \in Ids(b) : KeyAt(b, i) = RowKey(d, t, id) =>
                        \A m : Tells(b.entries[i].cmd, slot, f, m) => v <= m
        <5>1. id \in S!Ids(s) /\ RowKey(d, t, id) = k /\ RowKey(d, s, id) = k
          BY <1>5, <2>1, <3>1, <3>3
        <5>2. CASE Tells(req, slot, f, v)
          BY <2>0, <5>1, <5>2 DEF Meant, Past, Older
        <5>3. CASE Shows(s.trips[id], slot, f, v)
          BY <5>1, <5>3 DEF RowsMeant
        <5> QED BY <3>1, <3>3, <4>1, <5>2, <5>3 DEF Took
      <4> HIDE DEF id
      <4> QED BY <1>6, <1>7, <3>1, <3>3, <4>1 DEF RowsMeant, RemovedBy
    <3> QED BY <3>2, <3>3
  <2>3. CASE req.type = "deleteTrip"
    <3>1. /\ S!Ids(t) = S!Ids(s) \ {id}
          /\ \A i \in S!Ids(t) : t.trips[i] = s.trips[i]
          /\ DOMAIN t.gps \subseteq DOMAIN s.gps
          /\ t.gps = [p \in DOMAIN t.gps |-> s.gps[p]]
      <4> USE DEF t
      <4>1. /\ t = [trips |-> t.trips, gps |-> t.gps, lastId |-> s.lastId]
            /\ S!Ids(t) = S!Ids(s) \ {id}
            /\ t.trips = [i \in S!Ids(t) |-> t.trips[i]]
            /\ \A i \in S!Ids(t) : t.trips[i] = s.trips[i]
            /\ DOMAIN t.gps \subseteq DOMAIN s.gps
            /\ t.gps = [p \in DOMAIN t.gps |-> s.gps[p]]
        BY <2>3, DeleteParts
      <4> HIDE DEF t
      <4> QED BY <4>1
    <3>2. k \in x
      BY <2>0, <2>3 DEF Meant
    <3>3. RowsMeant(d, t, b)
      <4> HIDE DEF id
      <4>1. \A p \in DOMAIN t.gps : p \in DOMAIN s.gps /\ t.gps[p] = s.gps[p]
        BY <3>1
      <4> QED BY <1>6, <1>7, <3>1, <4>1 DEF RowsMeant
    <3>4. RemovedBy(d, s, t) \subseteq {k}
      BY <2>1, <3>1 DEF RemovedBy
    <3> QED BY <3>2, <3>3, <3>4
  <2>4. CASE req.type = "uploadGps"
    <3>1. \/ t = s
          \/ /\ S!Ids(t) = S!Ids(s)
             /\ t.trips = s.trips
             /\ \A p \in DOMAIN t.gps : \/ p \in DOMAIN s.gps /\ t.gps[p] = s.gps[p]
                                        \/ p \in req.points /\ t.gps[p] = id
      <4>1. \/ t = s
            \/ /\ t = [trips |-> s.trips, gps |-> t.gps, lastId |-> s.lastId]
               /\ S!Ids(t) = S!Ids(s)
               /\ DOMAIN t.gps = DOMAIN s.gps \cup req.points
               /\ t.gps = [p \in DOMAIN t.gps |->
                             IF p \in DOMAIN s.gps THEN s.gps[p] ELSE id]
        BY <2>4, GpsParts DEF t
      <4>2. t = [trips |-> s.trips, gps |-> t.gps, lastId |-> s.lastId]
              => t.trips = s.trips
        OBVIOUS
      <4> HIDE DEF id
      <4> QED BY <4>1, <4>2
    <3>2. \A p \in req.points : p \in 1..Len(d) /\ d[p].key = k
      BY <2>0, <2>4 DEF Meant
    <3>3. CASE t = s
      BY <3>3 DEF RemovedBy
    <3>4. CASE t # s
      <4>1. \A p \in DOMAIN t.gps :
              p \in 1..Len(d) /\ t.gps[p] \in Nat /\ Names(d, t, t.gps[p], d[p].key)
        BY <1>6, <2>1, <3>1, <3>2, <3>4
      <4> HIDE DEF id
      <4> QED BY <1>7, <3>1, <3>4, <4>1 DEF RowsMeant, RemovedBy
    <3> QED BY <3>3, <3>4
  <2>5. req.type \in {"updateTrip", "upsertAttempt", "deleteTrip", "uploadGps"}
    BY <1>9 DEF PhoneRequests
  <2> QED BY <2>2, <2>3, <2>4, <2>5
<1> QED BY <1>4, <1>8, <1>9 DEF t

(* The request made of a command.                                          *)
Same(req, cmd) ==
  /\ req.type = cmd.type
  /\ req.type \in {"updateTrip", "upsertAttempt"} => req.body = cmd.body
  /\ req.type = "upsertAttempt" => req.attempt = cmd.attempt
  /\ req.type = "uploadGps" => req.points = {cmd.points[i] : i \in DOMAIN cmd.points}

(* It tells what the command tells.                                        *)
LEMMA SameTells ==
  ASSUME NEW req, NEW cmd, Same(req, cmd)
  PROVE  \A slot, f, v : Tells(req, slot, f, v) <=> Tells(cmd, slot, f, v)
BY DEF Same, Tells

(* A request whose command heads the queue takes nothing back: what it     *)
(* writes is newer than what is there.                                     *)
LEMMA ServedKeeps ==
  ASSUME NEW d \in Seq(Writings), NEW s, IsServer(s), NEW b, NEW x,
         NEW req \in PhoneRequests, RowsDated(d, s), Fits(d, s, b, req),
         RowsMeant(d, s, b),
         req.type # "createTrip" =>
           \E k \in Keys : /\ Meant(d, s, b, x, req, k)
                           /\ \E i \in Ids(b) : /\ KeyAt(b, i) = k
                                                /\ Same(req, b.entries[i].cmd),
         NEW n \in 1..Len(d), NEW o, Settled(d, s, x, o, n)
  PROVE  Settled(d, S!Served(s, req).state, x, o, n)
<1> DEFINE t == S!Served(s, req).state
           id == req.tripId
<1>0. Len(d) \in Nat /\ n \in Nat
  OBVIOUS
<1>1. Evolves(d, s, t, b)
  BY <1>0, ServedEvolves
<1>2. CASE d[n].key \in x \/ n \in o
  BY <1>2 DEF Settled
<1>3. CASE d[n].slot = GpsSlot /\ n \in DOMAIN s.gps
  <2>1. CASE req.type = "createTrip"
    <3>1. t = s \/ t.gps = s.gps
      <4>1. t = s \/ t = [trips |-> t.trips, gps |-> s.gps, lastId |-> s.lastId + 1]
        BY <2>1, CreateParts
      <4> HIDE DEF t
      <4> QED BY <4>1
    <3> QED BY <1>3, <3>1 DEF Settled, Has
  <2>2. CASE req.type \in {"updateTrip", "upsertAttempt"}
    <3>1. t = s \/ t.gps = s.gps
      BY <2>2, ServedTook
    <3> QED BY <1>3, <3>1 DEF Settled, Has
  <2>3. CASE req.type = "uploadGps"
    <3>1. t = s \/ DOMAIN t.gps = DOMAIN s.gps \cup req.points
      BY <2>3, GpsParts
    <3> QED BY <1>3, <3>1 DEF Settled, Has
  <2>4. CASE req.type = "deleteTrip"
    <3>1. \/ t = s
          \/ id \in S!Ids(s) /\ DOMAIN t.gps = {p \in DOMAIN s.gps : s.gps[p] # id}
      BY <2>4, DeleteParts
    <3>2. PICK k \in Keys : Meant(d, s, b, x, req, k)
      BY <2>4
    <3>3. Names(d, s, id, k) /\ k \in x /\ Names(d, s, s.gps[n], d[n].key)
      BY <1>3, <2>4, <3>2 DEF Meant, RowsMeant
    <3> HIDE DEF t, id
    <3>4. CASE s.gps[n] = id /\ id \in S!Ids(s)
      <4>1. d[n].key = k
        BY <3>3, <3>4 DEF Names
      <4> QED BY <3>3, <4>1 DEF Settled, t
    <3>5. CASE t = s \/ s.gps[n] # id
      <4>1. n \in DOMAIN t.gps
        BY <1>3, <3>1, <3>5
      <4> QED BY <1>3, <4>1 DEF Settled, Has, t
    <3> QED BY <3>1, <3>4, <3>5
  <2> QED BY <2>1, <2>2, <2>3, <2>4 DEF PhoneRequests
<1>4. CASE /\ d[n].slot # GpsSlot
           /\ \E j \in S!Ids(s) : \E v :
                /\ RowKey(d, s, j) = d[n].key
                /\ Shows(s.trips[j], d[n].slot, d[n].field, v)
                /\ v >= n
  <2>0. PICK j \in S!Ids(s) :
          \E v : /\ RowKey(d, s, j) = d[n].key
                 /\ Shows(s.trips[j], d[n].slot, d[n].field, v)
                 /\ v >= n
    BY <1>4
  <2>1. PICK v : /\ RowKey(d, s, j) = d[n].key
                 /\ Shows(s.trips[j], d[n].slot, d[n].field, v)
                 /\ v >= n
    BY <2>0
  <2>2. v \in 1..Len(d)
    BY <2>1 DEF RowsMeant
  <2> HIDE DEF t
  <2>3. j \in S!Ids(t) => RowKey(d, t, j) = RowKey(d, s, j)
    <3>1. j <= s.lastId
      BY DEF IsServer
    <3> QED BY <1>1, <3>1 DEF Evolves
  <2>4. ASSUME j \in S!Ids(t), t.trips[j] = s.trips[j]
        PROVE  Has(d, t, n)
    BY <1>4, <2>1, <2>3, <2>4 DEF Has
  <2>5. CASE t = s
    BY <1>4, <2>1, <2>5 DEF Settled, Has, t
  <2>6. CASE t # s /\ req.type = "createTrip"
    <3> DEFINE new == s.lastId + 1
    <3>1. /\ t = [trips |-> t.trips, gps |-> s.gps, lastId |-> new]
          /\ S!Ids(t) = S!Ids(s) \cup {new}
          /\ t.trips[new] = S!NewTrip(req)
          /\ \A i \in S!Ids(s) : i # new /\ t.trips[i] = s.trips[i]
      BY <2>6, CreateParts DEF t
    <3> HIDE DEF new
    <3>3. j \in S!Ids(t) /\ t.trips[j] = s.trips[j]
      BY <3>1
    <3> QED BY <2>4, <3>3 DEF Settled, t
  <2>7. CASE t # s /\ req.type = "uploadGps"
    <3>1. t = [trips |-> s.trips, gps |-> t.gps, lastId |-> s.lastId]
      BY <2>7, GpsParts DEF t
    <3>2. t.trips = s.trips
      BY <3>1
    <3>3. j \in S!Ids(t) /\ t.trips[j] = s.trips[j]
      BY <3>2 DEF S!Ids
    <3> QED BY <2>4, <3>3 DEF Settled, t
  <2>8. CASE t # s /\ req.type = "deleteTrip"
    <3>1. PICK k \in Keys : Meant(d, s, b, x, req, k)
      BY <2>8
    <3>2. Names(d, s, id, k) /\ k \in x
      BY <2>8, <3>1 DEF Meant
    <3>3. CASE j = id
      <4>1. d[n].key = k
        BY <2>1, <3>2, <3>3 DEF Names
      <4> QED BY <3>2, <4>1 DEF Settled
    <3>4. CASE j # id
      <4>1. S!Ids(t) = S!Ids(s) \ {id}
        BY <2>8, DeleteParts DEF t
      <4>2. \A i \in S!Ids(t) : t.trips[i] = s.trips[i]
        BY <2>8, DeleteParts DEF t
      <4> HIDE DEF id
      <4> QED BY <2>4, <3>4, <4>1, <4>2 DEF Settled, t
    <3> QED BY <3>3, <3>4
  <2>9. CASE t # s /\ req.type \in {"updateTrip", "upsertAttempt"}
    <3>1. /\ id \in S!Ids(s)
          /\ S!Ids(t) = S!Ids(s)
          /\ \A i \in S!Ids(s) \ {id} : t.trips[i] = s.trips[i]
          /\ Took(s.trips[id], t.trips[id], req)
      BY <2>9, ServedTook DEF t
    <3>2. PICK k \in Keys : /\ Meant(d, s, b, x, req, k)
                            /\ \E i \in Ids(b) : KeyAt(b, i) = k /\ Same(req, b.entries[i].cmd)
      BY <2>9
    <3>3. PICK i \in Ids(b) : KeyAt(b, i) = k /\ Same(req, b.entries[i].cmd)
      BY <3>2
    <3> HIDE DEF id
    <3>4. CASE j # id
      BY <2>4, <3>1, <3>4 DEF Settled, t
    <3>5. CASE j = id /\ Shows(t.trips[j], d[n].slot, d[n].field, v)
      BY <1>4, <2>1, <2>3, <3>1, <3>5 DEF Settled, Has, t
    <3>6. CASE j = id /\ \E m : Tells(req, d[n].slot, d[n].field, m)
      <4>1. PICK m : Tells(req, d[n].slot, d[n].field, m)
        BY <3>6
      <4>2. RowKey(d, s, j) = k
        BY <3>2, <3>6 DEF Meant, Names, id
      <4>3. v <= m
        <5>1. Tells(b.entries[i].cmd, d[n].slot, d[n].field, m)
          BY <3>3, <4>1, SameTells
        <5> QED BY <2>1, <3>3, <4>2, <5>1 DEF RowsMeant
      <4>4. m \in 1..Len(d)
        BY <3>2, <4>1 DEF Meant, Past
      <4>5. m >= n
        BY <1>0, <2>1, <2>2, <4>3, <4>4
      <4>6. Shows(t.trips[j], d[n].slot, d[n].field, m)
        BY <3>1, <3>6, <4>1 DEF Took
      <4>7. Has(d, t, n)
        BY <1>4, <2>1, <2>3, <3>1, <4>5, <4>6 DEF Has
      <4> QED BY <4>7 DEF Settled, t
    <3> QED BY <2>1, <3>1, <3>4, <3>5, <3>6 DEF Took
  <2>10. req.type \in {"createTrip", "updateTrip", "upsertAttempt", "deleteTrip", "uploadGps"}
    BY DEF PhoneRequests
  <2> QED BY <2>5, <2>6, <2>7, <2>8, <2>9, <2>10 DEF Settled, t
<1> QED BY <1>2, <1>3, <1>4 DEF Settled, Has

(* The trip, its attempts and its GPS trace are written apart.             *)
LEMMA SlotsApart ==
  TripSlot # GpsSlot /\ TripSlot \notin Attempts /\ GpsSlot \notin Attempts
<1>1. TripSlot # GpsSlot
  BY DEF TripSlot, GpsSlot
<1>2. TripSlot[2] = 0 /\ GpsSlot[2] = 0
  BY DEF TripSlot, GpsSlot
<1>3. \A a \in Attempts : a[2] # 0
  <2>1. Attempts \subseteq Legs \X (Nat \ {0})
    BY OutboxSystemAssumption
  <2>2. \A a \in Legs \X (Nat \ {0}) : a[2] # 0
    OBVIOUS
  <2> QED BY <2>1, <2>2
<1> QED BY <1>1, <1>2, <1>3

(* Points that were taken are stored.                                      *)
LEMMA PointsStored ==
  ASSUME NEW s, IsServer(s), NEW req \in PhoneRequests, req.type = "uploadGps",
         S!Served(s, req).outcome = Delivered
  PROVE  DOMAIN S!Served(s, req).state.gps = DOMAIN s.gps \cup req.points
<1> DEFINE t == S!Served(s, req).state
           outcome == S!Served(s, req).outcome
<1>1. \/ outcome = NotFound
      \/ DOMAIN t.gps = DOMAIN s.gps \cup req.points
  BY GpsParts
<1>2. outcome # NotFound
  BY DEF NotFound, Delivered
<1> QED BY <1>1, <1>2

(* What a delivered command carried is on the server.                      *)
LEMMA ServedDelivers ==
  ASSUME NEW d \in Seq(Writings), NEW s, IsServer(s), NEW b, NEW x,
         NEW req \in PhoneRequests, RowsDated(d, s), Fits(d, s, b, req),
         NEW cmd \in Commands, Same(req, cmd), cmd.type # "createTrip",
         Meant(d, s, b, x, req, cmd.key),
         S!Served(s, req).outcome = Delivered,
         NEW n \in 1..Len(d), Bears(d, cmd, n)
  PROVE  Has(d, S!Served(s, req).state, n)
<1> DEFINE t == S!Served(s, req).state
           id == req.tripId
<1>0. Len(d) \in Nat /\ n \in Nat
  OBVIOUS
<1>1. Evolves(d, s, t, b)
  BY <1>0, ServedEvolves
<1>2. req.type = cmd.type /\ d[n].key = cmd.key
  BY DEF Same, Bears
<1>3. CASE \E v \in n..Len(d) : Tells(cmd, d[n].slot, d[n].field, v)
  <2>1. PICK v \in n..Len(d) : Tells(cmd, d[n].slot, d[n].field, v)
    BY <1>3
  <2>2. Tells(req, d[n].slot, d[n].field, v) /\ v >= n
    BY <2>1, SameTells
  <2>3. req.type \in {"updateTrip", "upsertAttempt"}
    BY <2>2 DEF Tells
  <2>4. /\ id \in S!Ids(s)
        /\ S!Ids(t) = S!Ids(s)
        /\ Took(s.trips[id], t.trips[id], req)
    BY <2>3, ServedTook
  <2>5. d[n].slot # GpsSlot
    <3>1. TripSlot # GpsSlot
      BY SlotsApart
    <3>2. GpsSlot \notin Attempts
      BY SlotsApart
    <3>3. cmd.type = "upsertAttempt" => cmd.attempt \in Attempts
      BY CommandParts
    <3> QED BY <2>1, <3>1, <3>2, <3>3 DEF Tells
  <2> HIDE DEF t, id
  <2>6. RowKey(d, t, id) = d[n].key
    <3>1. RowKey(d, s, id) = cmd.key
      BY <2>4 DEF Meant, Names, id
    <3>2. id <= s.lastId
      BY <2>4 DEF IsServer
    <3> QED BY <1>1, <1>2, <2>4, <3>1, <3>2 DEF Evolves
  <2>7. Shows(t.trips[id], d[n].slot, d[n].field, v)
    BY <2>2, <2>4 DEF Took
  <2>8. id \in S!Ids(t)
    BY <2>4
  <2> QED BY <2>2, <2>5, <2>6, <2>7, <2>8 DEF Has, t
<1>4. CASE /\ cmd.type = "uploadGps" /\ d[n].slot = GpsSlot
           /\ \E i \in DOMAIN cmd.points : cmd.points[i] = n
  <2>1. n \in req.points
    BY <1>2, <1>4 DEF Same
  <2>2. DOMAIN t.gps = DOMAIN s.gps \cup req.points
    <3>1. req.type = "uploadGps"
      BY <1>2, <1>4
    <3> QED BY <3>1, PointsStored DEF t
  <2> QED BY <1>4, <2>1, <2>2 DEF Has
<1> QED BY <1>3, <1>4 DEF Bears

-----------------------------------------------------------------------------
(* What a command carries, when another is put in. *)

(* A merged command tells what the newer one told, and otherwise what the  *)
(* older one told.                                                         *)
LEMMA MergedKeeps ==
  ASSUME NEW old \in Commands, NEW cmd \in Commands, NEW new,
         cmd.type \in {"updateTrip", "upsertAttempt"},
         old.type = cmd.type, new.type = cmd.type,
         new.body = Merged(old.body, cmd.body),
         cmd.type = "upsertAttempt" =>
           old.attempt = cmd.attempt /\ new.attempt = cmd.attempt,
         NEW slot, NEW f, NEW v
  PROVE  /\ Tells(cmd, slot, f, v) => Tells(new, slot, f, v)
         /\ Tells(old, slot, f, v) =>
              Tells(new, slot, f, v) \/ \E m : Tells(cmd, slot, f, m)
<1>1. CASE cmd.type = "updateTrip"
  <2>1. old.body \in TripBodies
    BY <1>1, CommandParts
  <2>2. \A g \in TripFields :
          new.body[g] = IF cmd.body[g] # Nil THEN cmd.body[g] ELSE old.body[g]
    BY <2>1 DEF Merged, TripBodies
  <2> QED BY <1>1, <2>2 DEF Tells
<1>2. CASE cmd.type = "upsertAttempt"
  <2>1. old.body \in AttemptBodies
    BY <1>2, CommandParts
  <2>2. \A g \in S!Observed :
          new.body[g] = IF cmd.body[g] # Nil THEN cmd.body[g] ELSE old.body[g]
    BY <2>1 DEF Merged, AttemptBodies, AttemptFields, S!Observed
  <2> QED BY <1>2, <2>2 DEF Tells
<1> QED BY <1>1, <1>2

(* What waited for the network still does,                                 *)
LEMMA EnqueuedBears ==
  ASSUME NEW d, NEW e, NEW b, IsState(b), NEW cmd \in Commands, Grows(d, e),
         Latest(d, e, cmd), NEW n \in 1..Len(d), Queued(d, b, n)
  PROVE  Queued(e, Enqueued(b, cmd), n)
<1> DEFINE c == Enqueued(b, cmd)
<1>1. PICK i \in Ids(b) : Bears(d, b.entries[i].cmd, n)
  BY DEF Queued
<1> DEFINE old == b.entries[i].cmd
           new == c.entries[i].cmd
<1>2. Bears(e, old, n) /\ d[n] = e[n]
  BY <1>1, BearsLater
<1>3. i \in Ids(c) /\ new.type = old.type /\ new.key = old.key
  BY EnqueuedParts
<1>4. CASE i \notin Mergeable(b, cmd)
  <2>1. c.entries[i] = b.entries[i]
    BY <1>4, EnqueuedEntries
  <2> HIDE DEF c
  <2> QED BY <1>2, <1>3, <2>1 DEF Queued, c
<1>5. CASE i \in Mergeable(b, cmd)
  <2>1. /\ cmd.type \in {"updateTrip", "upsertAttempt"}
        /\ old.type = cmd.type
        /\ new.body = Merged(old.body, cmd.body)
        /\ cmd.type = "upsertAttempt" =>
             old.attempt = cmd.attempt /\ new.attempt = cmd.attempt
    BY <1>5, EnqueuedEntries
  <2>2. old \in Commands
    BY StateFields, EntryFields
  <2> HIDE DEF c, old, new
  <2>3. PICK v \in n..Len(d) : Tells(old, d[n].slot, d[n].field, v)
    BY <1>1, <2>1 DEF Bears, old
  <2>4. \/ Tells(new, d[n].slot, d[n].field, v)
        \/ \E m : Tells(cmd, d[n].slot, d[n].field, m) /\ Tells(new, d[n].slot, d[n].field, m)
    BY <1>3, <2>1, <2>2, <2>3, MergedKeeps
  <2>5. \E m \in n..Len(e) : Tells(new, d[n].slot, d[n].field, m)
    <3>1. v \in n..Len(e) /\ Len(e) \in n..Len(e)
      BY DEF Grows
    <3> QED BY <2>4, <3>1 DEF Latest
  <2>6. Bears(e, new, n)
    BY <1>2, <1>3, <2>5 DEF Bears
  <2> QED BY <1>3, <2>6 DEF Queued, c, new
<1> QED BY <1>4, <1>5

(* and so does what is put in.                                             *)
LEMMA EnqueuedCarries ==
  ASSUME NEW e, NEW b, IsState(b), NEW cmd \in Commands,
         cmd.type = "uploadGps" => \E p : cmd.points = <<p>>,
         NEW n, Bears(e, cmd, n)
  PROVE  Queued(e, Enqueued(b, cmd), n)
<1>1. CASE Enqueued(b, cmd) = AppendOne(b, cmd)
  <2> DEFINE c == AppendOne(b, cmd)
  <2>1. b.nextId \in Ids(c) /\ c.entries[b.nextId] = NewEntry(cmd)
    BY AppendOneParts
  <2> HIDE DEF c
  <2>2. c.entries[b.nextId].cmd = cmd
    BY <2>1 DEF NewEntry
  <2> QED BY <1>1, <2>1, <2>2 DEF Queued, c
<1>2. CASE Mergeable(b, cmd) # {} /\ Enqueued(b, cmd) = MergeIntoLaneTail(b, cmd)
  <2> DEFINE c == Enqueued(b, cmd)
  <2>1. PICK i : i \in Mergeable(b, cmd)
    BY <1>2
  <2> DEFINE old == b.entries[i].cmd
             new == c.entries[i].cmd
  <2>2. /\ i \in Ids(b)
        /\ cmd.type \in {"updateTrip", "upsertAttempt"}
        /\ old.type = cmd.type /\ old.key = cmd.key
        /\ new.body = Merged(old.body, cmd.body)
        /\ cmd.type = "upsertAttempt" =>
             old.attempt = cmd.attempt /\ new.attempt = cmd.attempt
    BY <2>1, EnqueuedEntries
  <2>3. i \in Ids(c) /\ new.type = old.type /\ new.key = old.key
    BY <2>2, EnqueuedParts
  <2>4. old \in Commands
    BY <2>2, StateFields, EntryFields
  <2> HIDE DEF c, old, new
  <2>5. PICK v \in n..Len(e) : Tells(cmd, e[n].slot, e[n].field, v)
    BY <2>2 DEF Bears
  <2>6. Tells(new, e[n].slot, e[n].field, v)
    BY <2>2, <2>3, <2>4, <2>5, MergedKeeps
  <2>7. Bears(e, new, n)
    BY <2>2, <2>3, <2>6 DEF Bears
  <2> QED BY <2>3, <2>7 DEF Queued, c, new
<1> QED BY <1>1, <1>2, PlainEnqueued, PointEnqueued

-----------------------------------------------------------------------------
(* The system. *)

(* A script brings times.  What else travels, the result of an attempt, may*)
(* go alone (Recorder.swift:378-383), but it is no time, and Stored does   *)
(* not follow it.                                                          *)
TimesOnly == Brought \subseteq S!Observed

(* The request that is awaited is its command's, and a delivered one has   *)
(* delivered what the command carries.                                     *)
CallMeant(d, s, b, x, o, c) ==
  /\ Same(c.req, b.entries[c.id].cmd)
  /\ c.req.type # "createTrip" => Meant(d, s, b, x, c.req, KeyAt(b, c.id))
  /\ c.answer # Unreadable
  /\ c.answer = Delivered =>
       \A n \in 1..Len(d) : Bears(d, b.entries[c.id].cmd, n) => Settled(d, s, x, o, n)

LateMeant(d, s, b, x, reqs) ==
  \A req \in reqs :
    req.type # "createTrip" => \E k \in Keys : Meant(d, s, b, x, req, k)

AllCovered(d, s, b, L, x, o) == \A n \in 1..Len(d) : Covered(d, s, b, L, x, o, n)

RecordsKept ==
  /\ Begun(diary)
  /\ BoxMeant(diary, box, cancelled)
  /\ RowsMeant(diary, server, box)
  /\ removed \subseteq cancelled
  /\ LateMeant(diary, server, box, cancelled, late)
  /\ call # NoCall => CallMeant(diary, server, box, cancelled, overtaken, call)
  /\ AllCovered(diary, server, box, box.deadLetters \cup reviewed, cancelled, overtaken)

(* A call that goes on means what it meant.                                *)
LEMMA CallStaysMeant ==
  ASSUME NEW d, NEW e, NEW s, NEW b, NEW c, NEW x, NEW y, NEW o,
         Grows(d, e), Newer(d, e, b, c), RowsDated(d, s), x \subseteq y,
         BoxMeant(d, b, x),
         NEW k, k.id \in Ids(b), c.entries[k.id].cmd = b.entries[k.id].cmd,
         k.answer = Delivered => b.entries[k.id].cmd.type # "createTrip",
         CallMeant(d, s, b, x, o, k)
  PROVE  CallMeant(e, s, c, y, o, k)
<1> DEFINE cmd == b.entries[k.id].cmd
<1>1. Same(k.req, c.entries[k.id].cmd) /\ KeyAt(c, k.id) = KeyAt(b, k.id)
  BY DEF CallMeant, KeyAt
<1>2. k.req.type # "createTrip" => Meant(e, s, c, y, k.req, KeyAt(c, k.id))
  BY <1>1, NewerMeant DEF CallMeant
<1>3. ASSUME k.answer = Delivered, NEW n \in 1..Len(e), Bears(e, cmd, n)
      PROVE  Settled(e, s, y, o, n)
  <2>1. Intended(d, cmd, x)
    BY DEF BoxMeant
  <2>2. n \in 1..Len(d) /\ Bears(d, cmd, n)
    BY <1>3, <2>1, BearsBack
  <2>3. Settled(d, s, x, o, n)
    BY <1>3, <2>2 DEF CallMeant
  <2> QED BY <2>2, <2>3, SettledLater
<1> QED BY <1>1, <1>2, <1>3 DEF CallMeant

(* What every step of the phone has in common.                             *)
LEMMA PhoneKeepsRecords ==
  ASSUME TripsKept, RecordsKept, Awaited,
         server' = server, removed' = removed, late' = late, overtaken' = overtaken,
         cancelled \subseteq cancelled',
         Grows(diary, diary'), Begun(diary'),
         Newer(diary, diary', box, box'), BoxMeant(diary', box', cancelled'),
         box.deadLetters \cup reviewed \subseteq box'.deadLetters \cup reviewed',
         \A n \in 1..Len(diary) : Queued(diary, box, n) =>
           Covered(diary', server, box', box'.deadLetters \cup reviewed',
                   cancelled', overtaken, n),
         \A n \in 1..Len(diary') : n \notin 1..Len(diary) => Queued(diary', box', n),
         \/ call' = call /\ Holds(box, box')
         \/ call' = NoCall
         \/ CallMeant(diary', server', box', cancelled', overtaken', call')
  PROVE  RecordsKept'
<1>1. RowsDated(diary, server)
  BY DEF TripsKept
<1>2. /\ \A req, k : Meant(diary, server, box, cancelled, req, k)
                       => Meant(diary', server, box', cancelled', req, k)
      /\ RowsMeant(diary', server', box')
  BY <1>1, NewerMeant DEF RecordsKept
<1>3. LateMeant(diary', server', box', cancelled', late')
  BY <1>2 DEF RecordsKept, LateMeant
<1>4. removed' \subseteq cancelled'
  BY DEF RecordsKept
<1>5. ASSUME call' = call, Holds(box, box'), call # NoCall
      PROVE  CallMeant(diary', server', box', cancelled', overtaken', call')
  <2>1. /\ call.id \in Ids(box)
        /\ box'.entries[call.id].cmd = box.entries[call.id].cmd
    BY <1>5 DEF Awaited, Holds
  <2>2. call.answer = Delivered => box.entries[call.id].cmd.type # "createTrip"
    BY <1>5, NoCallAssumption
       DEF Awaited, OutcomesOf, Answers, Delivered, TripCreated, Failures, Transient,
           Unauthorized, NotFound, Unreadable, Refused
  <2>3. CallMeant(diary, server, box, cancelled, overtaken, call)
    BY <1>5 DEF RecordsKept
  <2>4. BoxMeant(diary, box, cancelled)
    BY DEF RecordsKept
  <2>5. CallMeant(diary', server, box', cancelled', overtaken, call)
    BY <1>1, <2>1, <2>2, <2>3, <2>4, CallStaysMeant
  <2> QED BY <1>5, <2>5
<1>6. ASSUME NEW n \in 1..Len(diary')
      PROVE  Covered(diary', server, box', box'.deadLetters \cup reviewed',
                     cancelled', overtaken, n)
  <2>1. CASE n \notin 1..Len(diary)
    BY <2>1 DEF Covered
  <2>2. CASE n \in 1..Len(diary)
    <3>1. Covered(diary, server, box, box.deadLetters \cup reviewed,
                  cancelled, overtaken, n)
      BY <2>2 DEF RecordsKept, AllCovered
    <3>2. Settled(diary, server, cancelled, overtaken, n)
            => Settled(diary', server, cancelled', overtaken, n)
      BY <1>1, <2>2, SettledLater
    <3>3. Shown(diary, box.deadLetters \cup reviewed, n)
            => Shown(diary', box'.deadLetters \cup reviewed', n)
      BY <2>2, BearsLater
    <3> QED BY <2>2, <3>1, <3>2, <3>3 DEF Covered
  <2> QED BY <2>1, <2>2
<1>7. AllCovered(diary', server', box', box'.deadLetters \cup reviewed',
                 cancelled', overtaken')
  BY <1>6 DEF AllCovered
<1> QED BY <1>2, <1>3, <1>4, <1>5, <1>7 DEF RecordsKept

(* In particular when entries go and nothing is recorded or cancelled.     *)
LEMMA ShrinkKeepsRecords ==
  ASSUME TripsKept, RecordsKept, Awaited, RecorderTyped,
         server' = server, removed' = removed, late' = late, overtaken' = overtaken,
         diary' = diary, cancelled' = cancelled,
         box.deadLetters \cup reviewed \subseteq box'.deadLetters \cup reviewed',
         \A i \in Ids(box') : i \in Ids(box) /\ box'.entries[i].cmd = box.entries[i].cmd,
         \A i \in Ids(box) \ Ids(box') : \A n \in 1..Len(diary) :
           Bears(diary, box.entries[i].cmd, n) =>
             \/ Settled(diary, server, cancelled, overtaken, n)
             \/ Shown(diary, box'.deadLetters \cup reviewed', n),
         \/ call' = call /\ Holds(box, box')
         \/ call' = NoCall
         \/ CallMeant(diary', server', box', cancelled', overtaken', call')
  PROVE  RecordsKept'
<1>1. Grows(diary, diary')
  <2>1. Len(diary) \in Nat
    BY DEF RecorderTyped
  <2> QED BY <2>1 DEF Grows
<1>2. /\ Newer(diary, diary', box, box')
      /\ BoxMeant(diary', box', cancelled')
  BY <1>1, FewerNewer DEF RecordsKept
<1>3. ASSUME NEW n \in 1..Len(diary), Queued(diary, box, n)
      PROVE  Covered(diary', server, box', box'.deadLetters \cup reviewed',
                     cancelled', overtaken, n)
  <2>1. PICK i \in Ids(box) : Bears(diary, box.entries[i].cmd, n)
    BY <1>3 DEF Queued
  <2>2. CASE i \in Ids(box')
    BY <2>1, <2>2 DEF Covered, Queued
  <2>3. CASE i \notin Ids(box')
    BY <2>1, <2>3 DEF Covered
  <2> QED BY <2>2, <2>3
<1>4. /\ cancelled \subseteq cancelled'
      /\ Begun(diary')
      /\ \A n \in 1..Len(diary') : n \notin 1..Len(diary) => Queued(diary', box', n)
  BY DEF RecordsKept
<1> QED BY <1>1, <1>2, <1>3, <1>4, PhoneKeepsRecords

(* What the recorder issues tells the newest record of the trip.           *)
LEMMA IssuedMeans ==
  ASSUME TimesOnly, RecorderTyped, TripsKept, RecordsKept,
         NEW cmd, NEW key, NEW slot, NEW field, Issues(cmd, key, slot, field)
  PROVE  /\ Begun(diary')
         /\ Latest(diary, diary', cmd)
         /\ Intended(diary', cmd, cancelled)
         /\ Bears(diary', cmd, now)
<1>1. /\ Writes(key, slot, field)
      /\ cmd \in Commands /\ ~IsDelete(cmd) /\ cmd.key = key
      /\ key \in Keys
      /\ slot \in {TripSlot, GpsSlot} \cup Attempts
      /\ field \in TripFields \cup AttemptFields \cup {"point"}
      /\ IF cmd.type = "createTrip"
         THEN trip = NoTrip /\ key[2] = now /\ slot = TripSlot /\ field = "leftHomeAt"
         ELSE trip # NoTrip /\ trip.key = key
      /\ cmd.type = "updateTrip" =>
           slot = TripSlot /\ field \in TripFields /\ cmd.body = TripBody(field)
      /\ cmd.type = "upsertAttempt" =>
           /\ slot = cmd.attempt
           /\ field \in S!Observed
           /\ cmd.body = AttemptBody(field)
      /\ cmd.type = "uploadGps" => slot = GpsSlot /\ cmd.points = <<now>>
  BY DEF Issues, TimesOnly
<1>2. /\ Len(diary') = now
      /\ \A n \in 1..clock : diary'[n] = diary[n]
      /\ diary'[now] = [key |-> key, slot |-> slot, field |-> field]
  BY <1>1, WritesStep
<1>3. clock = Len(diary) /\ clock \in Nat /\ now = clock + 1
  BY DEF RecorderTyped, clock, now
<1>4. now \in 1..Len(diary') /\ now # Nil
  BY <1>2, <1>3, OutboxSystemAssumption
<1>5. /\ diary'[now].key = key /\ diary'[now].slot = slot /\ diary'[now].field = field
  BY <1>2
<1>6. cmd.type \in {"createTrip", "updateTrip", "upsertAttempt", "uploadGps"}
  BY <1>1, CommandParts DEF IsDelete
<1>7. cmd.type = "upsertAttempt" => slot \in Attempts
  BY <1>1, CommandParts
<1>8. \A s, f, v : Tells(cmd, s, f, v) => v = now
  <2>1. \A f \in TripFields : TripBody(field)[f] \in {now, Nil}
    BY DEF TripBody
  <2>2. \A f \in S!Observed : AttemptBody(field)[f] \in {now, Nil}
    BY DEF AttemptBody, S!Observed, AttemptFields
  <2> QED BY <1>1, <2>1, <2>2 DEF Tells
<1>9. cmd.type \in {"updateTrip", "upsertAttempt"} => Tells(cmd, slot, field, now)
  <2>1. \A f \in TripFields : TripBody(f)[f] = now
    BY DEF TripBody
  <2>2. \A f \in S!Observed : AttemptBody(f)[f] = now
    BY DEF AttemptBody, S!Observed, AttemptFields
  <2> QED BY <1>1, <1>4, <2>1, <2>2 DEF Tells
<1>10. cmd.type = "uploadGps" => DOMAIN cmd.points = {1} /\ cmd.points[1] = now
  BY <1>1
<1>11. Begun(diary')
  <2> SUFFICES ASSUME NEW n \in 1..Len(diary')
               PROVE  /\ diary'[n].key[2] <= n
                      /\ diary'[diary'[n].key[2]].slot = TripSlot
                      /\ diary'[diary'[n].key[2]].field = "leftHomeAt"
                      /\ diary'[n].slot = TripSlot => diary'[n].field \in TripFields
                      /\ diary'[n].slot \in Attempts => diary'[n].field \in S!Observed
    BY DEF Begun
  <2>0. \A m \in 1..Len(diary) :
          /\ diary[m].key[2] <= m
          /\ diary[diary[m].key[2]].slot = TripSlot
          /\ diary[diary[m].key[2]].field = "leftHomeAt"
          /\ diary[m].slot = TripSlot => diary[m].field \in TripFields
          /\ diary[m].slot \in Attempts => diary[m].field \in S!Observed
    BY DEF RecordsKept, Begun
  <2>1. CASE n \in 1..clock
    <3>1. diary[n].key[2] \in 1..clock
      BY <1>3, <2>1 DEF TripsKept, DiaryKnown, Known
    <3> QED BY <1>2, <1>3, <2>0, <2>1, <3>1
  <2>2. CASE n = now
    <3>1. CASE cmd.type = "createTrip"
      <4>1. key[2] = now /\ slot = TripSlot /\ field = "leftHomeAt"
        BY <1>1, <3>1
      <4> QED BY <1>3, <1>5, <2>2, <4>1, SlotsApart DEF TripFields
    <3>2. CASE cmd.type # "createTrip"
      <4>1. Known(diary, key)
        BY <1>1, <3>2 DEF TripsKept
      <4>2. /\ key[2] \in 1..clock
            /\ diary[key[2]].slot = TripSlot
            /\ diary[key[2]].field = "leftHomeAt"
        BY <1>3, <2>0, <4>1 DEF Known
      <4>3. slot = TripSlot => field \in TripFields
        BY <1>1, <1>6, <1>7, <3>2, SlotsApart
      <4>4. slot \in Attempts => field \in S!Observed
        BY <1>1, <1>6, <3>2, SlotsApart
      <4> QED BY <1>2, <1>3, <1>5, <2>2, <4>2, <4>3, <4>4
    <3> QED BY <3>1, <3>2
  <2> QED BY <1>2, <1>3, <2>1, <2>2
<1>12. Latest(diary, diary', cmd)
  BY <1>2, <1>3, <1>8 DEF Latest
<1>13. Intended(diary', cmd, cancelled)
  <2>1. Past(diary', cmd)
    BY <1>4, <1>8 DEF Past
  <2> QED BY <1>1, <1>4, <1>5, <1>10, <2>1 DEF Intended
<1>14. Bears(diary', cmd, now)
  <2>1. CASE cmd.type = "createTrip"
    BY <1>1, <1>5, <2>1 DEF Bears
  <2>2. CASE cmd.type \in {"updateTrip", "upsertAttempt"}
    <3>1. now \in now..Len(diary')
      BY <1>2, <1>3
    <3> QED BY <1>1, <1>5, <1>9, <2>2, <3>1 DEF Bears
  <2>3. CASE cmd.type = "uploadGps"
    BY <1>1, <1>5, <1>10, <2>3 DEF Bears
  <2> QED BY <1>6, <2>1, <2>2, <2>3
<1> QED BY <1>11, <1>12, <1>13, <1>14

(* Recording: the newest record is queued, and nothing is dropped but what *)
(* was cancelled.                                                          *)
LEMMA RecordKeepsRecords ==
  ASSUME TimesOnly, Kept, TripsKept, RecordsKept, Record
  PROVE  RecordsKept'
<1>1. BoxTyped /\ RecorderTyped /\ IsState(box) /\ Awaited
  BY TypeParts DEF Kept, BoxTyped
<1>2. clock = Len(diary) /\ clock \in Nat /\ now = clock + 1
  BY <1>1 DEF RecorderTyped, clock, now
<1>3. ASSUME NEW cmd, NEW key, NEW slot, NEW field, Issues(cmd, key, slot, field)
      PROVE  RecordsKept'
  <2>1. /\ Recording /\ Writes(key, slot, field) /\ Enqueue(cmd)
        /\ cmd \in Commands /\ ~IsDelete(cmd)
        /\ cmd.type = "uploadGps" => cmd.points = <<now>>
        /\ key \in Keys
        /\ slot \in {TripSlot, GpsSlot} \cup Attempts
        /\ field \in TripFields \cup AttemptFields \cup {"point"}
    BY <1>3 DEF Issues
  <2>2. /\ Len(diary') = now
        /\ \A n \in 1..clock : diary'[n] = diary[n]
        /\ cancelled' = cancelled /\ reviewed' = reviewed
    BY <1>1, <2>1, WritesStep
  <2>3. Grows(diary, diary')
    BY <1>2, <2>2 DEF Grows
  <2>4. /\ Begun(diary')
        /\ Latest(diary, diary', cmd)
        /\ Intended(diary', cmd, cancelled)
        /\ Bears(diary', cmd, now)
    BY <1>1, <1>3, IssuedMeans
  <2>5. box' = Enqueued(box, cmd)
    BY <2>1 DEF Enqueue, Persist
  <2>6. cmd.type = "uploadGps" => \E p : cmd.points = <<p>>
    BY <2>1
  <2>7. Newer(diary, diary', box, box')
    BY <1>1, <2>1, <2>4, <2>5, <2>6, EnqueuedNewer
  <2>8. BoxMeant(diary', box', cancelled')
    BY <1>1, <2>1, <2>2, <2>3, <2>4, <2>5, <2>6, EnqueuedMeant DEF RecordsKept
  <2>9. box'.deadLetters = box.deadLetters
    BY <1>1, <2>1, <2>5, EnqueuedParts
  <2>10. \A n \in 1..Len(diary) : Queued(diary, box, n) => Queued(diary', box', n)
    BY <1>1, <2>1, <2>3, <2>4, <2>5, EnqueuedBears
  <2>11. Queued(diary', box', now)
    BY <1>1, <2>1, <2>4, <2>5, <2>6, EnqueuedCarries
  <2>12. \A n \in 1..Len(diary') : n \notin 1..Len(diary) => n = now
    BY <1>2, <2>2
  <2>13. Holds(box, box')
    BY <1>1, <2>1, <2>5, EnqueuedHolds
  <2>14. /\ server' = server /\ removed' = removed /\ late' = late
         /\ overtaken' = overtaken /\ call' = call
    BY <2>1 DEF Recording, serverVars, driverVars
  <2>15. \A n \in 1..Len(diary) : Queued(diary, box, n) =>
           Covered(diary', server, box', box'.deadLetters \cup reviewed',
                   cancelled', overtaken, n)
    BY <2>10 DEF Covered
  <2>16. \A n \in 1..Len(diary') : n \notin 1..Len(diary) => Queued(diary', box', n)
    BY <2>11, <2>12
  <2> QED BY <1>1, <2>2, <2>3, <2>4, <2>7, <2>8, <2>9, <2>13, <2>14, <2>15, <2>16,
             PhoneKeepsRecords
<1>4. CASE EndTrip \/ NothingToRecord \/ PersistRecorder
  <2>1. /\ box' = box /\ diary' = diary /\ cancelled' = cancelled
        /\ reviewed' = reviewed /\ call' = call /\ server' = server
        /\ removed' = removed /\ overtaken' = overtaken /\ late' = late
    BY <1>4 DEF EndTrip, NothingToRecord, PersistRecorder, Recording, driverVars,
                historyVars, serverVars
  <2>2. Holds(box, box')
    BY <2>1 DEF Holds
  <2> QED BY <1>1, <2>1, <2>2, ShrinkKeepsRecords
<1>5. CASE CancelTrip
  <2> DEFINE key == trip.key
  <2>1. /\ trip # NoTrip /\ box' = Discarded(box, key) /\ diary' = diary
        /\ cancelled' = cancelled \cup {key} /\ reviewed' = reviewed
        /\ call' = call /\ server' = server /\ removed' = removed
        /\ overtaken' = overtaken /\ late' = late
    BY <1>5 DEF CancelTrip, Discard, Persist, Recording, driverVars, serverVars
  <2>2. key \in Keys
    BY <2>1 DEF TripsKept, Known
  <2>3. Grows(diary, diary')
    BY <1>2, <2>1 DEF Grows
  <2>4. Newer(diary, diary', box, box') /\ BoxMeant(diary', box', cancelled')
    BY <1>1, <2>1, <2>2, <2>3, DiscardedMeant DEF RecordsKept
  <2>5. Holds(box, box')
    BY <1>1, <2>1, <2>2, DiscardedHolds
  <2>6. /\ box'.deadLetters = box.deadLetters
        /\ \A i \in Ids(box) \ Discardable(box, key) :
             i \in Ids(box') /\ box'.entries[i] = box.entries[i]
    <3> DEFINE c == Discarded(box, key)
               needed == ~Deleting(box, key)
                           /\ (key \in DOMAIN box.tripIds \/ CreateMayHaveLanded(box, key))
    <3>1. /\ c.deadLetters = box.deadLetters
          /\ Ids(c) = (Ids(box) \ Discardable(box, key))
                        \cup IF needed THEN {box.nextId} ELSE {}
          /\ \A i \in Ids(box) \ Discardable(box, key) : c.entries[i] = box.entries[i]
      BY <1>1, <2>2, DiscardedParts
    <3> HIDE DEF c, needed
    <3>2. box' = c
      BY <2>1 DEF c
    <3> QED BY <3>1, <3>2
  <2>7. ASSUME NEW n \in 1..Len(diary), Queued(diary, box, n)
        PROVE  Covered(diary', server, box', box'.deadLetters \cup reviewed',
                       cancelled', overtaken, n)
    <3>1. PICK i \in Ids(box) : Bears(diary, box.entries[i].cmd, n)
      BY <2>7 DEF Queued
    <3>2. CASE i \in Discardable(box, key)
      <4>1. diary[n].key = key
        BY <3>1, <3>2 DEF Discardable, OfTrip, Bears
      <4> QED BY <2>1, <4>1 DEF Covered, Settled
    <3>3. CASE i \notin Discardable(box, key)
      BY <2>1, <2>6, <3>1, <3>3 DEF Covered, Queued
    <3> QED BY <3>2, <3>3
  <2>8. /\ Begun(diary')
        /\ cancelled \subseteq cancelled'
        /\ \A n \in 1..Len(diary') : n \notin 1..Len(diary) => Queued(diary', box', n)
    BY <2>1 DEF RecordsKept
  <2> HIDE DEF key
  <2> QED BY <1>1, <2>1, <2>3, <2>4, <2>5, <2>6, <2>7, <2>8, PhoneKeepsRecords
<1> QED BY <1>1, <1>3, <1>4, <1>5, RecordSteps

(* The head of a lane tells nothing newer than the rest of its trip.       *)
LEMMA HeadIsOlder ==
  ASSUME NEW d, NEW b, IsState(b), NEW x, BoxMeant(d, b, x),
         NEW i \in Ids(b), IsLaneHead(b, i), NEW j \in Ids(b), KeyAt(b, j) = KeyAt(b, i)
  PROVE  Older(b.entries[i].cmd, b.entries[j].cmd)
<1>1. i \in Nat /\ j \in Nat
  <2>1. b.nextId \in Nat /\ Ids(b) \subseteq 1..(b.nextId - 1)
    BY StateFields
  <2> QED BY <2>1
<1>2. CASE i < j
  BY <1>2 DEF BoxMeant, InOrder
<1>3. CASE i = j
  <2>1. \A slot, f, v, m : Tells(b.entries[i].cmd, slot, f, v)
                             /\ Tells(b.entries[i].cmd, slot, f, m) => v = m
    BY DEF Tells
  <2>2. \A slot, f, v : Tells(b.entries[i].cmd, slot, f, v) => v \in 1..Len(d)
    BY DEF BoxMeant, Intended, Past
  <2>3. \A v \in 1..Len(d) : v <= v
    OBVIOUS
  <2> QED BY <1>3, <2>1, <2>2, <2>3 DEF Older
<1>4. CASE j < i
  <2>1. LaneOf(b, j) # LaneOf(b, i)
    BY <1>1, <1>4 DEF IsLaneHead
  <2>2. b.entries[i].cmd.type = "uploadGps" \/ b.entries[j].cmd.type = "uploadGps"
    BY <2>1 DEF LaneOf, Lane, KeyAt
  <2>3. Silent(b.entries[i].cmd) \/ Silent(b.entries[j].cmd)
    BY <2>2, Quiet
  <2> QED BY <2>3 DEF Silent, Older
<1> QED BY <1>1, <1>2, <1>3, <1>4

(* What goes out means what its command does.                              *)
LEMMA SentMeant ==
  ASSUME TypeOK, TripsKept, RecordsKept, NEW i \in Dispatchable(box), NEW c,
         c = [id |-> i, key |-> box.entries[i].cmd.key,
              req |-> RequestOf(box.entries[i].cmd), answer |-> NoAnswer]
  PROVE  CallMeant(diary, server, Dispatched(box, i), cancelled, overtaken, c)
<1> DEFINE cmd == box.entries[i].cmd
           d == Dispatched(box, i)
<1>1. /\ i \in Ids(box) /\ Resolvable(box, cmd) /\ IsLaneHead(box, i)
      /\ IsState(box)
  BY DEF Dispatchable, Ready, TypeOK
<1>2. cmd \in Commands /\ Intended(diary, cmd, cancelled) /\ BoxMeant(diary, box, cancelled)
  BY <1>1, StateFields, EntryFields DEF RecordsKept, BoxMeant
<1>3. c.id = i /\ c.req = RequestOf(cmd) /\ c.answer = NoAnswer
  OBVIOUS
<1>4. /\ Ids(d) = Ids(box)
      /\ \A j \in Ids(box) : d.entries[j].cmd = box.entries[j].cmd
  BY <1>1, DispatchedParts
<1> HIDE DEF d
<1>5. KeyAt(d, i) = cmd.key /\ KeyAt(box, i) = cmd.key
  BY <1>1, <1>4 DEF KeyAt
<1>6. \A j \in Ids(box) : KeyAt(box, j) = cmd.key => Older(cmd, box.entries[j].cmd)
  BY <1>1, <1>2, <1>5, HeadIsOlder
<1> HIDE DEF cmd
<1>7. Same(RequestOf(cmd), cmd)
  BY <1>2, CommandParts DEF RequestOf, Same
<1>8. ASSUME cmd.type # "createTrip"
      PROVE  Meant(diary, server, d, cancelled, RequestOf(cmd), cmd.key)
  <2> DEFINE req == RequestOf(cmd)
  <2>1. cmd.key \in Keys /\ cmd.key \in DOMAIN box.tripIds
    BY <1>1, <1>2, <1>8, OutboxAssumption DEF Resolvable, Intended
  <2>2. req.tripId = box.tripIds[cmd.key]
    BY <1>2, <1>8, <2>1, OutboxAssumption, CommandParts DEF RequestOf
  <2>3. req.tripId \in Nat
    BY <1>1, <2>1, <2>2 DEF IsState
  <2>4. Names(diary, server, req.tripId, cmd.key)
    BY <2>1, <2>2 DEF TripsKept, IdsRight, RightId
  <2> HIDE DEF req
  <2>5. \A slot, f, v : Tells(req, slot, f, v) <=> Tells(cmd, slot, f, v)
    BY <1>7, SameTells DEF req
  <2>6. Past(diary, req)
    BY <1>2, <2>5 DEF Intended, Past
  <2>7. \A j \in Ids(d) : KeyAt(d, j) = cmd.key => Older(req, d.entries[j].cmd)
    BY <1>4, <1>6, <2>5 DEF Older, KeyAt
  <2>8. /\ req.type = "deleteTrip" => cmd.key \in cancelled
        /\ req.type = "uploadGps" =>
             \A p \in req.points : p \in 1..Len(diary) /\ diary[p].key = cmd.key
    BY <1>2, <1>7 DEF Intended, IsDelete, Same, req
  <2> QED BY <2>3, <2>4, <2>6, <2>7, <2>8 DEF Meant, req
<1>9. c.answer # Unreadable /\ c.answer # Delivered
  BY <1>3, NoCallAssumption DEF Answers, Failures
<1>10. Same(c.req, d.entries[i].cmd)
  BY <1>1, <1>3, <1>4, <1>7 DEF cmd
<1>11. c.req.type # "createTrip" => Meant(diary, server, d, cancelled, c.req, KeyAt(d, i))
  BY <1>3, <1>5, <1>7, <1>8 DEF Same
<1> QED BY <1>3, <1>9, <1>10, <1>11 DEF CallMeant, d

(* A delete carries nothing.                                               *)
LEMMA DeleteBearsNothing ==
  ASSUME NEW cmd, IsDelete(cmd)
  PROVE  \A d, n : ~Bears(d, cmd, n)
BY DEF IsDelete, Bears, Tells

(* A trip that was made is there with the instant it was begun.            *)
LEMMA CreatedIsThere ==
  ASSUME TripsKept, RecordsKept, NEW id, NEW k,
         RightId(diary, server, removed, box, id, k),
         NEW n \in 1..Len(diary), diary[n].key = k, n = k[2]
  PROVE  Settled(diary, server, cancelled, overtaken, n)
<1>1. CASE id \notin S!Ids(server)
  BY <1>1 DEF RightId, RecordsKept, Settled
<1>2. CASE id \in S!Ids(server)
  <2> DEFINE L == server.trips[id].fields.leftHomeAt
  <2>1. RowKey(diary, server, id) = k /\ L \in 1..Len(diary) /\ diary[L].key = k
    BY <1>2 DEF RightId, Names, TripsKept, RowsDated, RowKey
  <2>2. L >= n
    BY <2>1 DEF RecordsKept, Begun
  <2>3. diary[n].slot = TripSlot /\ diary[n].field = "leftHomeAt"
    BY DEF RecordsKept, Begun
  <2>4. L # Nil
    BY <2>1, OutboxSystemAssumption
  <2>5. Shows(server.trips[id], TripSlot, "leftHomeAt", L)
    BY <2>4 DEF Shows, TripFields
  <2> HIDE DEF L
  <2> QED BY <1>2, <2>1, <2>2, <2>3, <2>5, SlotsApart DEF Settled, Has
<1> QED BY <1>1, <1>2

(* An answer takes only that out of the queue which is on the server, or   *)
(* shown as rejected.                                                      *)
LEMMA ReturnKeepsRecords ==
  ASSUME Kept, TripsKept, RecordsKept, Return
  PROVE  RecordsKept'
<1> DEFINE i == call.id
           outcome == call.answer
           cmd == box.entries[i].cmd
<1>1. RecorderTyped /\ IsState(box) /\ Awaited
  BY TypeParts DEF Kept, BoxTyped
<1>2. /\ call # NoCall /\ outcome # NoAnswer /\ call' = NoCall
      /\ i \in Ids(box) /\ box.entries[i].inFlight
      /\ box' = Completed(box, i, outcome)
      /\ server' = server /\ removed' = removed /\ late' = late
      /\ overtaken' = overtaken /\ diary' = diary /\ cancelled' = cancelled
      /\ reviewed' = reviewed
  BY DEF Return, Complete, Persist, serverVars, historyVars
<1>3. outcome \in OutcomesOf(cmd, Nat)
  BY <1>1, <1>2 DEF Awaited
<1>4. /\ CallFit(diary, server, removed, box, call)
      /\ CallMeant(diary, server, box, cancelled, overtaken, call)
  BY <1>2 DEF TripsKept, RecordsKept
<1>5. \/ /\ cmd.type = "createTrip"
         /\ \E id \in Nat : outcome = TripCreated(id) /\ box' = AfterTripCreated(box, i, id)
      \/ /\ outcome \in {Delivered, Unreadable} \/ IsDelete(cmd)
         /\ box' = AfterDelivered(box, i)
      \/ box' \in {AfterRetry(box, i), AfterPause(box, i)}
      \/ box' = AfterReject(box, i)
  BY <1>1, <1>2, <1>3, CompletedCases
<1> HIDE DEF i, outcome, cmd
<1>6. ASSUME Ids(box') \subseteq Ids(box),
             \A j \in Ids(box') : box'.entries[j].cmd = box.entries[j].cmd,
             box.deadLetters \subseteq box'.deadLetters,
             \A j \in Ids(box) \ Ids(box') : \A n \in 1..Len(diary) :
               Bears(diary, box.entries[j].cmd, n) =>
                 \/ Settled(diary, server, cancelled, overtaken, n)
                 \/ Shown(diary, box'.deadLetters, n)
      PROVE  RecordsKept'
  <2>1. \A n : Shown(diary, box'.deadLetters, n)
                 => Shown(diary, box'.deadLetters \cup reviewed', n)
    BY DEF Shown
  <2>2. box.deadLetters \cup reviewed \subseteq box'.deadLetters \cup reviewed'
    BY <1>2, <1>6
  <2> QED BY <1>1, <1>2, <1>6, <2>1, <2>2, ShrinkKeepsRecords
<1>7. ASSUME NEW id \in Nat, cmd.type = "createTrip", outcome = TripCreated(id),
             box' = AfterTripCreated(box, i, id)
      PROVE  RecordsKept'
  <2>1. /\ box' = [entries |-> box'.entries, tripIds |-> box'.tripIds,
                   deadLetters |-> box.deadLetters, nextId |-> box.nextId,
                   paused |-> box.paused]
        /\ Ids(box') = Ids(box) \ {i}
        /\ \A j \in Ids(box') : box'.entries[j] = box.entries[j]
    BY <1>1, <1>2, <1>7, TripCreatedParts
  <2>2. box'.deadLetters = box.deadLetters
    BY <2>1
  <2>3. RightId(diary, server, removed, box, id, cmd.key)
    BY <1>4, <1>7 DEF CallFit, KeyAt, i, outcome, cmd
  <2>4. ASSUME NEW n \in 1..Len(diary), Bears(diary, cmd, n)
        PROVE  Settled(diary, server, cancelled, overtaken, n)
    <3>1. diary[n].key = cmd.key /\ n = cmd.key[2]
      BY <1>7, <2>4 DEF Bears, Tells
    <3> QED BY <2>3, <3>1, CreatedIsThere
  <2> QED BY <1>6, <2>1, <2>2, <2>4 DEF cmd
<1>8. CASE /\ outcome \in {Delivered, Unreadable} \/ IsDelete(cmd)
           /\ box' = AfterDelivered(box, i)
  <2>1. /\ box' = [entries |-> box'.entries, tripIds |-> box'.tripIds,
                   deadLetters |-> box.deadLetters, nextId |-> box.nextId,
                   paused |-> box.paused]
        /\ Ids(box') = Ids(box) \ {i}
        /\ \A j \in Ids(box') : box'.entries[j] = box.entries[j]
    <3> DEFINE c == AfterDelivered(box, i)
    <3>1. c = [entries |-> c.entries, tripIds |-> c.tripIds,
               deadLetters |-> box.deadLetters, nextId |-> box.nextId,
               paused |-> box.paused]
      BY <1>1, <1>2, DeliveredParts
    <3>2. /\ Ids(c) = Ids(box) \ {i}
          /\ \A j \in Ids(c) : c.entries[j] = box.entries[j]
      BY <1>1, <1>2, DeliveredParts
    <3> HIDE DEF c
    <3>3. box' = c
      BY <1>8 DEF c
    <3> QED BY <3>1, <3>2, <3>3
  <2>2. box'.deadLetters = box.deadLetters
    BY <2>1
  <2>3. ASSUME NEW n \in 1..Len(diary), Bears(diary, cmd, n)
        PROVE  Settled(diary, server, cancelled, overtaken, n)
    <3>1. ~IsDelete(cmd)
      BY <2>3, DeleteBearsNothing
    <3>2. outcome = Delivered
      BY <1>4, <1>8, <3>1 DEF CallMeant, outcome
    <3> QED BY <1>4, <2>3, <3>2 DEF CallMeant, outcome, cmd, i
  <2> QED BY <1>6, <2>1, <2>2, <2>3 DEF cmd
<1>9. CASE box' \in {AfterRetry(box, i), AfterPause(box, i)}
  <2>1. /\ box' = [entries |-> box'.entries, tripIds |-> box.tripIds,
                   deadLetters |-> box.deadLetters, nextId |-> box.nextId,
                   paused |-> box'.paused]
        /\ Ids(box') = Ids(box)
        /\ \A j \in Ids(box) \ {i} : box'.entries[j] = box.entries[j]
        /\ box'.entries[i].cmd = box.entries[i].cmd
    BY <1>1, <1>2, <1>9, PutBackParts
  <2>2. box'.deadLetters = box.deadLetters
    BY <2>1
  <2> QED BY <1>6, <2>1, <2>2
<1>10. CASE box' = AfterReject(box, i)
  <2>1. /\ Ids(box') = Ids(box) \ ({i} \cup Dependents(box, i))
        /\ \A j \in Ids(box') : box'.entries[j] = box.entries[j]
        /\ box.deadLetters \subseteq box'.deadLetters
        /\ \A j \in {i} \cup Dependents(box, i) :
             \/ IsDelete(box.entries[j].cmd) /\ j # i
             \/ \E letter \in box'.deadLetters : letter.cmd = box.entries[j].cmd
    BY <1>1, <1>2, <1>10, RejectParts
  <2>2. ASSUME NEW j \in Ids(box) \ Ids(box'), NEW n \in 1..Len(diary),
               Bears(diary, box.entries[j].cmd, n)
        PROVE  Shown(diary, box'.deadLetters, n)
    <3>1. j \in {i} \cup Dependents(box, i)
      BY <2>1
    <3>2. ~IsDelete(box.entries[j].cmd)
      BY <2>2, DeleteBearsNothing
    <3> QED BY <2>1, <2>2, <3>1, <3>2 DEF Shown
  <2> QED BY <1>6, <2>1, <2>2
<1> QED BY <1>5, <1>7, <1>8, <1>9, <1>10

(* Flags are no matter.                                                    *)
LEMMA SameKeepsRecords ==
  ASSUME TripsKept, RecordsKept, Awaited, RecorderTyped, SameQueue(box, box'),
         box.deadLetters \cup reviewed \subseteq box'.deadLetters \cup reviewed',
         server' = server, removed' = removed, late' = late, overtaken' = overtaken,
         diary' = diary, cancelled' = cancelled,
         \/ call' = call /\ Holds(box, box')
         \/ call' = NoCall
         \/ CallMeant(diary', server', box', cancelled', overtaken', call')
  PROVE  RecordsKept'
<1>1. /\ \A i \in Ids(box') : i \in Ids(box) /\ box'.entries[i].cmd = box.entries[i].cmd
      /\ Ids(box) \ Ids(box') = {}
  BY DEF SameQueue
<1> QED BY <1>1, ShrinkKeepsRecords

(* Rejected commands are kept until the user clears them.                  *)
LEMMA FlagsLetters ==
  ASSUME NEW b, IsState(b)
  PROVE  /\ Resumed(b).deadLetters = b.deadLetters
         /\ Expedited(b).deadLetters = b.deadLetters
         /\ \A i \in Ids(b) : Due(b, i).deadLetters = b.deadLetters
BY StateDomain DEF IsState, Resumed, Expedited, Due

(* The driver: what it sends stays queued until it is answered.            *)
LEMMA DriveKeepsRecords ==
  ASSUME Kept, TripsKept, RecordsKept, Reliable, Drive
  PROVE  RecordsKept'
<1>1. BoxTyped /\ RecorderTyped /\ IsState(box) /\ Awaited
  BY TypeParts DEF Kept, BoxTyped
<1>2. /\ diary' = diary /\ cancelled' = cancelled /\ server' = server
      /\ removed' = removed /\ overtaken' = overtaken /\ late' = late
  BY DEF Drive, SendOne, SendFailsToSave, FindsNothing, DrainEnds, Ending, Driving,
         Return, WakeFires, TimePasses, Expedite, SaveToken, ClearReviews,
         recorderVars, historyVars, serverVars
<1>3. CASE SendOne
  <2>1. PICK i \in Dispatchable(box) :
          /\ box' = Dispatched(box, i)
          /\ call' = [id |-> i, key |-> box.entries[i].cmd.key,
                      req |-> RequestOf(box.entries[i].cmd), answer |-> NoAnswer]
    BY <1>3 DEF SendOne
  <2>2. CallMeant(diary, server, Dispatched(box, i), cancelled, overtaken, call')
    BY <2>1, SentMeant DEF Kept
  <2>3. i \in Ids(box)
    BY DEF Dispatchable, Ready
  <2>4. /\ box' = [entries |-> box'.entries, tripIds |-> box.tripIds,
                   deadLetters |-> box.deadLetters, nextId |-> box.nextId,
                   paused |-> box.paused]
        /\ Ids(box') = Ids(box)
        /\ \A j \in Ids(box) : box'.entries[j].cmd = box.entries[j].cmd
    BY <1>1, <2>1, <2>3, DispatchedParts
  <2>5. box'.deadLetters = box.deadLetters /\ reviewed' = reviewed
    BY <1>3, <2>4 DEF SendOne, Driving, historyVars
  <2> QED BY <1>1, <1>2, <2>1, <2>2, <2>4, <2>5, ShrinkKeepsRecords
<1>4. CASE SendFailsToSave
  BY <1>4 DEF SendFailsToSave, Reliable
<1>5. CASE FindsNothing \/ DrainEnds \/ WakeFires
  <2>1. box' = box /\ call' = call /\ reviewed' = reviewed
    BY <1>5 DEF FindsNothing, DrainEnds, Ending, WakeFires, Driving, historyVars
  <2>2. SameQueue(box, box') /\ Holds(box, box')
    BY <2>1 DEF SameQueue, Holds
  <2> QED BY <1>1, <1>2, <2>1, <2>2, SameKeepsRecords
<1>6. CASE Return
  BY <1>6, ReturnKeepsRecords
<1>7. ASSUME NEW i \in Ids(box), TimePasses(i) PROVE RecordsKept'
  <2>1. box' = Due(box, i) /\ call' = call /\ reviewed' = reviewed
    BY <1>7 DEF TimePasses, RetryDue, driverVars, historyVars
  <2>2. SameQueue(box, box') /\ Holds(box, box') /\ box'.deadLetters = box.deadLetters
    BY <1>1, <2>1, FlagsOrderly, FlagsHold, FlagsLetters
  <2> QED BY <1>1, <1>2, <2>1, <2>2, SameKeepsRecords
<1>8. CASE Expedite \/ SaveToken
  <2>1. box' \in {Expedited(box), Resumed(box)} /\ call' = call /\ reviewed' = reviewed
    BY <1>8 DEF Expedite, ExpediteRetries, SaveToken, Resume, Persist, historyVars
  <2>2. SameQueue(box, box') /\ Holds(box, box') /\ box'.deadLetters = box.deadLetters
    BY <1>1, <2>1, FlagsOrderly, FlagsHold, FlagsLetters
  <2> QED BY <1>1, <1>2, <2>1, <2>2, SameKeepsRecords
<1>9. CASE ClearReviews
  <2>1. /\ box' = Cleared(box) /\ call' = call
        /\ reviewed' = reviewed \cup box.deadLetters
    BY <1>9 DEF ClearReviews, ClearDeadLetters, Persist, driverVars
  <2>2. SameQueue(box, box') /\ Holds(box, box')
    BY <1>1, <2>1, FlagsOrderly, FlagsHold
  <2> QED BY <1>1, <1>2, <2>1, <2>2, SameKeepsRecords
<1> QED BY <1>3, <1>4, <1>5, <1>6, <1>7, <1>8, <1>9 DEF Drive

(* A request the server handles leaves its records behind the queue.       *)
LEMMA HandlesKeepsRecords ==
  ASSUME Kept, TripsKept, RecordsKept, NEW req \in PhoneRequests,
         Fits(diary, server, box, req), Handles(req),
         req.type # "createTrip" =>
           \E k \in Keys : Meant(diary, server, box, cancelled, req, k)
  PROVE  /\ RowsMeant(diary, server', box)
         /\ removed' \subseteq cancelled
         /\ \A r, k : Meant(diary, server, box, cancelled, r, k)
                        => Meant(diary, server', box, cancelled, r, k)
<1>1. RecorderTyped /\ IsServer(server)
  BY TypeParts DEF Kept
<1>2. /\ server' = S!Served(server, req).state
      /\ removed' = removed \cup RemovedBy(diary, server, server')
  BY DEF Handles, RemovedBy, RowKey, KeyOf, S!Ids
<1>3. diary \in Seq(Writings)
  BY <1>1 DEF RecorderTyped
<1>4. RowsDated(diary, server) /\ BodiesKnown(diary, box)
  BY DEF TripsKept
<1>5. Begun(diary) /\ RowsMeant(diary, server, box) /\ removed \subseteq cancelled
  BY DEF RecordsKept
<1>6. /\ RowsMeant(diary, server', box)
      /\ RemovedBy(diary, server, server') \subseteq cancelled
      /\ \A r, k : Meant(diary, server, box, cancelled, r, k)
                     => Meant(diary, server', box, cancelled, r, k)
  BY <1>1, <1>2, <1>3, <1>4, <1>5, ServedMeant
<1> QED BY <1>2, <1>5, <1>6

(* What the server made of a request is an answer the outbox can read.     *)
LEMMA AnswerMeans ==
  ASSUME Reliable, IsServer(server), NEW req \in PhoneRequests,
         NEW answer \in Understood(S!Served(server, req).outcome)
  PROVE  /\ answer # Unreadable
         /\ answer = Delivered => /\ req.type # "createTrip"
                                  /\ S!Served(server, req).outcome = Delivered
<1> DEFINE outcome == S!Served(server, req).outcome
<1>1. answer \in {outcome, Transient}
  BY DEF Understood, Reliable, Transient, Unauthorized, Unreadable
<1>2. CASE req.type = "createTrip"
  <2>1. \E id : outcome = TripCreated(id)
    BY <1>2, CreateAccepted
  <2> HIDE DEF outcome
  <2> QED BY <1>1, <2>1 DEF TripCreated, Transient, Unreadable, Delivered
<1>3. CASE req.type # "createTrip"
  <2>1. outcome \in {NotFound, Refused, Delivered}
    BY <1>3, PlainOutcomes
  <2> HIDE DEF outcome
  <2>2. /\ answer # Unreadable
        /\ answer = Delivered => outcome = Delivered
    BY <1>1, <2>1 DEF Transient, Unreadable, Delivered, NotFound, Refused
  <2> QED BY <1>3, <2>2 DEF outcome
<1> QED BY <1>2, <1>3

(* What an answer leaves of a call.                                        *)
LEMMA AnsweredParts ==
  ASSUME DriverTyped, Waiting, NEW answer, call' = [call EXCEPT !.answer = answer]
  PROVE  /\ call.req \in PhoneRequests
         /\ call'.req = call.req /\ call'.id = call.id /\ call'.answer = answer
<1>1. call \in Calls
  BY DEF Waiting, DriverTyped
<1> QED BY <1>1 DEF Calls

(* The network: what is delivered is there, and what arrives late takes    *)
(* back only what is marked as overtaken.                                  *)
LEMMA NetworkKeepsRecords ==
  ASSUME Kept, TripsKept, RecordsKept, Reliable, Network
  PROVE  RecordsKept'
<1>1. RecorderTyped /\ DriverTyped /\ IsState(box) /\ IsServer(server) /\ Awaited
  BY TypeParts DEF Kept, BoxTyped
<1>2. /\ box' = box /\ diary' = diary /\ cancelled' = cancelled /\ reviewed' = reviewed
  BY DEF Network, Served, TurnedAway, TimesOut, ArrivesLate, Networking, historyVars
<1>3. /\ Begun(diary) /\ BoxMeant(diary, box, cancelled)
      /\ RowsMeant(diary, server, box) /\ removed \subseteq cancelled
      /\ LateMeant(diary, server, box, cancelled, late)
      /\ AllCovered(diary, server, box, box.deadLetters \cup reviewed, cancelled,
                    overtaken)
  BY DEF RecordsKept
<1>4. /\ diary \in Seq(Writings) /\ late \subseteq PhoneRequests
      /\ RowsDated(diary, server)
      /\ \A req \in late : Fits(diary, server, box, req)
  BY <1>1 DEF RecorderTyped, DriverTyped, TripsKept
<1>5. ASSUME Waiting
      PROVE  LET k == KeyAt(box, call.id) IN
             /\ call.req \in PhoneRequests /\ Fits(diary, server, box, call.req)
             /\ call.id \in Ids(box) /\ k \in Keys
             /\ Same(call.req, box.entries[call.id].cmd)
             /\ call.req.type # "createTrip" =>
                  Meant(diary, server, box, cancelled, call.req, k)
  <2>1. call # NoCall /\ call \in Calls
    BY <1>1, <1>5 DEF Waiting, DriverTyped
  <2>2. CallMeant(diary, server, box, cancelled, overtaken, call)
    BY <2>1 DEF RecordsKept
  <2>3. call.id \in Ids(box)
    BY <1>1, <2>1 DEF Awaited
  <2>4. KeyAt(box, call.id) \in Keys
    BY <1>3, <2>3 DEF BoxMeant, Intended, KeyAt
  <2>5. call.req \in PhoneRequests /\ Fits(diary, server, box, call.req)
    BY <2>1 DEF Calls, TripsKept, CallFit
  <2> QED BY <2>2, <2>3, <2>4, <2>5 DEF CallMeant
<1>6. ASSUME \A n \in 1..Len(diary) :
               Settled(diary, server, cancelled, overtaken, n)
                 => Settled(diary, server', cancelled, overtaken', n)
      PROVE  AllCovered(diary', server', box', box'.deadLetters \cup reviewed', cancelled',
                        overtaken')
  BY <1>2, <1>3, <1>6 DEF AllCovered, Covered
<1>7. CASE Served
  <2>1. Waiting /\ Handles(call.req) /\ late' = late /\ overtaken' = overtaken
    BY <1>7 DEF Served
  <2>2. PICK answer \in Understood(S!Served(server, call.req).outcome) :
          call' = [call EXCEPT !.answer = answer]
    BY <1>7 DEF Served
  <2>3. /\ call.req \in PhoneRequests
        /\ call'.req = call.req /\ call'.id = call.id /\ call'.answer = answer
    BY <1>1, <2>1, <2>2, AnsweredParts
  <2> DEFINE req == call.req
             i == call.id
             cmd == box.entries[i].cmd
  <2>4. /\ Fits(diary, server, box, req) /\ i \in Ids(box) /\ KeyAt(box, i) \in Keys
        /\ Same(req, cmd)
        /\ req.type # "createTrip" =>
             Meant(diary, server, box, cancelled, req, KeyAt(box, i))
    BY <1>5, <2>1
  <2>5. server' = S!Served(server, req).state
    BY <2>1 DEF Handles
  <2> HIDE DEF req, i, cmd
  <2>6. /\ RowsMeant(diary, server', box)
        /\ removed' \subseteq cancelled
        /\ \A r, k : Meant(diary, server, box, cancelled, r, k)
                       => Meant(diary, server', box, cancelled, r, k)
    BY <2>1, <2>3, <2>4, HandlesKeepsRecords DEF req
  <2>7. ASSUME NEW n \in 1..Len(diary), Settled(diary, server, cancelled, overtaken, n)
        PROVE  Settled(diary, server', cancelled, overtaken, n)
    <3>1. req.type # "createTrip" =>
            \E k \in Keys : /\ Meant(diary, server, box, cancelled, req, k)
                            /\ \E j \in Ids(box) : /\ KeyAt(box, j) = k
                                                   /\ Same(req, box.entries[j].cmd)
      BY <2>4 DEF cmd
    <3>2. req \in PhoneRequests
      BY <2>3 DEF req
    <3>3. Settled(diary, S!Served(server, req).state, cancelled, overtaken, n)
      BY <1>1, <1>3, <1>4, <2>4, <2>7, <3>1, <3>2, ServedKeeps
    <3> QED BY <2>5, <3>3
  <2>8. ASSUME answer = Delivered, NEW n \in 1..Len(diary), Bears(diary, cmd, n)
        PROVE  Settled(diary, server', cancelled, overtaken, n)
    <3>1. req.type # "createTrip" /\ S!Served(server, req).outcome = Delivered
      BY <1>1, <2>2, <2>3, <2>8, AnswerMeans DEF req
    <3>2. /\ cmd \in Commands /\ cmd.type # "createTrip"
          /\ Meant(diary, server, box, cancelled, req, cmd.key)
      BY <1>1, <2>4, <3>1, StateFields, EntryFields DEF cmd, KeyAt, Same
    <3>3. req \in PhoneRequests
      BY <2>3 DEF req
    <3>4. Has(diary, S!Served(server, req).state, n)
      BY <1>1, <1>4, <2>4, <2>8, <3>1, <3>2, <3>3, ServedDelivers
    <3> QED BY <2>5, <3>4 DEF Settled
  <2>9. answer # Unreadable
    BY <1>1, <2>2, <2>3, AnswerMeans
  <2>10. CallMeant(diary', server', box', cancelled', overtaken', call')
    BY <1>2, <2>1, <2>3, <2>4, <2>6, <2>8, <2>9 DEF CallMeant, req, i, cmd
  <2>11. LateMeant(diary', server', box', cancelled', late')
    BY <1>2, <1>3, <2>1, <2>6 DEF LateMeant
  <2>12. AllCovered(diary', server', box', box'.deadLetters \cup reviewed', cancelled',
                    overtaken')
    BY <1>6, <2>1, <2>7
  <2> QED BY <1>2, <1>3, <2>6, <2>10, <2>11, <2>12 DEF RecordsKept
<1>8. CASE TurnedAway \/ TimesOut
  <2>1. /\ Waiting /\ server' = server /\ removed' = removed /\ overtaken' = overtaken
        /\ late' \subseteq late \cup {call.req}
    BY <1>8 DEF TurnedAway, TimesOut, serverVars
  <2>2. PICK answer \in {Transient, Unauthorized} : call' = [call EXCEPT !.answer = answer]
    BY <1>8 DEF TurnedAway, TimesOut, Reliable
  <2>3. call'.req = call.req /\ call'.id = call.id /\ call'.answer = answer
    BY <1>1, <2>1, <2>2, AnsweredParts
  <2>4. answer # Unreadable /\ answer # Delivered
    BY DEF Transient, Unauthorized, Unreadable, Delivered
  <2>5. CallMeant(diary', server', box', cancelled', overtaken', call')
    BY <1>2, <1>5, <2>1, <2>3, <2>4 DEF CallMeant
  <2>6. LateMeant(diary', server', box', cancelled', late')
    BY <1>2, <1>3, <1>5, <2>1 DEF LateMeant
  <2>7. AllCovered(diary', server', box', box'.deadLetters \cup reviewed', cancelled',
                   overtaken')
    BY <1>6, <2>1
  <2> QED BY <1>2, <1>3, <2>1, <2>5, <2>6, <2>7 DEF RecordsKept
<1>9. CASE ArrivesLate
  <2>1. PICK req \in late : Handles(req) /\ late' = late \ {req}
    BY <1>9 DEF ArrivesLate
  <2>2. /\ call' = call
        /\ overtaken' = overtaken \cup {n \in 1..clock : OnServer(n) /\ ~OnServer(n)'}
    BY <1>9 DEF ArrivesLate
  <2>3. /\ RowsMeant(diary, server', box)
        /\ removed' \subseteq cancelled
        /\ \A r, k : Meant(diary, server, box, cancelled, r, k)
                       => Meant(diary, server', box, cancelled, r, k)
    <3>1. req.type # "createTrip" =>
            \E k \in Keys : Meant(diary, server, box, cancelled, req, k)
      BY <1>3 DEF LateMeant
    <3> QED BY <1>4, <2>1, <3>1, HandlesKeepsRecords
  <2>4. ASSUME NEW n \in 1..Len(diary), Settled(diary, server, cancelled, overtaken, n)
        PROVE  Settled(diary, server', cancelled, overtaken', n)
    <3>1. /\ OnServer(n) <=> Has(diary, server, n)
          /\ OnServer(n)' <=> Has(diary', server', n)
      BY <1>2, <1>4, OnServerIsHas, OnServerIsHasLater
    <3>2. n \in 1..clock
      BY DEF clock
    <3> QED BY <1>2, <2>2, <2>4, <3>1, <3>2 DEF Settled
  <2>5. AllCovered(diary', server', box', box'.deadLetters \cup reviewed', cancelled',
                   overtaken')
    BY <1>6, <2>4
  <2>6. LateMeant(diary', server', box', cancelled', late')
    BY <1>2, <1>3, <2>1, <2>3 DEF LateMeant
  <2>7. ASSUME call # NoCall
        PROVE  CallMeant(diary', server', box', cancelled', overtaken', call')
    <3>1. CallMeant(diary, server, box, cancelled, overtaken, call)
      BY <2>7 DEF RecordsKept
    <3> QED BY <1>2, <2>2, <2>3, <2>4, <3>1 DEF CallMeant
  <2> QED BY <1>2, <1>3, <2>2, <2>3, <2>5, <2>6, <2>7 DEF RecordsKept
<1> QED BY <1>7, <1>8, <1>9 DEF Network

(* A crash loses what was marked as under way, and nothing else.           *)
LEMMA CrashKeepsRecords ==
  ASSUME Kept, TripsKept, RecordsKept, Reliable, Crash
  PROVE  RecordsKept'
<1>1. BoxTyped /\ RecorderTyped /\ Awaited
  BY TypeParts DEF Kept
<1>2. /\ box' = Reloaded(saved) /\ call' = NoCall
      /\ server' = server /\ removed' = removed /\ late' = late /\ overtaken' = overtaken
      /\ diary' = diary /\ cancelled' = cancelled /\ reviewed' = reviewed
  BY DEF Crash, Relaunch, historyVars, serverVars
<1>3. SameRecords(box, saved)
  BY DEF Kept, QueueKept
<1>4. SameRecords(box', saved) /\ SameQueue(box, box')
  BY <1>1, <1>2, <1>3, RelaunchKeeps DEF BoxTyped
<1>5. box'.deadLetters = box.deadLetters
  BY <1>3, <1>4 DEF SameRecords
<1> QED BY <1>1, <1>2, <1>4, <1>5, SameKeepsRecords

(* At the start nothing is recorded,                                       *)
LEMMA InitRecordsKept == Init => RecordsKept
<1> SUFFICES ASSUME Init PROVE RecordsKept
  OBVIOUS
<1>1. /\ Ids(box) = {} /\ S!Ids(server) = {} /\ DOMAIN server.gps = {} /\ late = {}
      /\ call = NoCall /\ diary = << >> /\ removed = {}
  BY DEF Init, Empty, Ids, S!Ids, S!NewServer
<1>2. 1..Len(diary) = {}
  BY <1>1
<1> QED BY <1>1, <1>2 DEF RecordsKept, Begun, BoxMeant, InOrder, RowsMeant, LateMeant,
                          AllCovered

(* and every step keeps the records.                                       *)
LEMMA StepRecordsKept ==
  ASSUME Reliable, TimesOnly
  PROVE  Kept /\ TripsKept /\ RecordsKept /\ [Next]_vars => RecordsKept'
<1> SUFFICES ASSUME Kept, TripsKept, RecordsKept, [Next]_vars PROVE RecordsKept'
  OBVIOUS
<1>1. CASE UNCHANGED vars
  <2>1. UNCHANGED <<box, server, removed, overtaken, call, late, diary, cancelled,
                    reviewed>>
    BY <1>1 DEF vars, serverVars, driverVars, historyVars
  <2> QED BY <2>1 DEF RecordsKept
<1> QED BY <1>1, RecordKeepsRecords, DriveKeepsRecords, NetworkKeepsRecords,
           CrashKeepsRecords DEF Next

(* No record is lost on the phone: whatever was recorded is on the server, *)
(* or replaced there by a later value of its field, or waits in the queue, *)
(* or was shown to the user as rejected; unless the trip was cancelled, or *)
(* a request given up, arriving late, took it back.  For any routes and    *)
(* scripts of times, any number of trips, crashes, retries and late        *)
(* requests (Outbox.swift:88-89, 127-139 and 225-260).                     *)
THEOREM NothingGetsLost ==
  ASSUME Reliable, TimesOnly
  PROVE  Spec => []NothingLost
<1>1. Kept /\ RecordsKept => NothingLost
  <2> SUFFICES ASSUME Kept, RecordsKept, NEW n \in 1..clock
               PROVE  \/ diary[n].key \in cancelled \/ n \in overtaken
                      \/ OnServer(n)
                      \/ \E i \in Ids(box) : Carries(box.entries[i].cmd, n)
                      \/ \E letter \in box.deadLetters \cup reviewed :
                           Carries(letter.cmd, n)
    BY DEF NothingLost
  <2>1. RecorderTyped /\ IsState(box) /\ Begun(diary)
    BY TypeParts DEF Kept, BoxTyped, RecordsKept
  <2>2. diary \in Seq(Writings) /\ n \in 1..Len(diary)
    BY <2>1 DEF RecorderTyped, clock
  <2>3. Covered(diary, server, box, box.deadLetters \cup reviewed, cancelled, overtaken, n)
    BY <2>2 DEF RecordsKept, AllCovered
  <2>4. CASE Settled(diary, server, cancelled, overtaken, n)
    BY <2>2, <2>4, OnServerIsHas DEF Settled
  <2>5. CASE Queued(diary, box, n)
    <3>1. PICK i \in Ids(box) : Bears(diary, box.entries[i].cmd, n)
      BY <2>5 DEF Queued
    <3>2. box.entries[i].cmd \in Commands
      BY <2>1, StateFields, EntryFields
    <3> QED BY <2>1, <3>1, <3>2, CarriedIsBorne
  <2>6. CASE Shown(diary, box.deadLetters \cup reviewed, n)
    <3>1. PICK letter \in box.deadLetters \cup reviewed : Bears(diary, letter.cmd, n)
      BY <2>6 DEF Shown
    <3>2. letter \in DeadLetters
      BY <2>1 DEF IsState, Kept, TypeOK
    <3>3. letter.cmd \in Commands
      BY <3>2 DEF DeadLetters
    <3> QED BY <2>1, <3>1, <3>3, CarriedIsBorne
  <2> QED BY <2>3, <2>4, <2>5, <2>6 DEF Covered
<1> QED BY <1>1, InitKept, StepKept, InitTripsKept, StepTripsKept, InitRecordsKept,
           StepRecordsKept, PTL DEF Spec

-----------------------------------------------------------------------------
(* A cancelled trip goes.  A row of a trip is the one the outbox remembers *)
(* the id of, or the work of a create that is still queued and was sent:   *)
(* what Discard looks at to tell whether a delete is needed                *)
(* (Outbox.swift:307-330).  d is the diary, s the server, b the outbox,    *)
(* c the call and x the cancelled trips.                                   *)

(* The server has a row of trip k.                                         *)
MadeTrip(d, s, k) == \E id \in S!Ids(s) : RowKey(d, s, id) = k

(* A queued create of trip k has failed, or got an answer of a server that *)
(* may have looked at it.                                                  *)
MayHaveMade(b, c, k) ==
  \E i \in Ids(b) :
    /\ TypeAt(b, i) = "createTrip" /\ KeyAt(b, i) = k
    /\ \/ b.entries[i].failures > 0
       \/ c # NoCall /\ c.id = i /\ c.answer \notin {NoAnswer, Unauthorized}

(* No update of the row has come after its create.                         *)
AsCreated(row, k) == row.route = k[1] /\ row.fields.leftHomeAt = k[2]

Owned(d, s, b, c) ==
  \A id \in S!Ids(s) :
    LET k == RowKey(d, s, id) IN
      \/ k \in DOMAIN b.tripIds /\ b.tripIds[k] = id
      \/ MayHaveMade(b, c, k) /\ AsCreated(s.trips[id], k)

OneRow(d, s) ==
  \A i, j \in S!Ids(s) : RowKey(d, s, i) = RowKey(d, s, j) => i = j

CreateOnce(b) == \A k \in DOMAIN b.tripIds : ~CreateWaits(b, k)

(* The points were recorded in trip k.                                     *)
Ours(d, points, k) == \A p \in points : p \in 1..Len(d) /\ d[p].key = k

PointsAt(b, i) == {b.entries[i].cmd.points[j] : j \in DOMAIN b.entries[i].cmd.points}

Collected(d, b) ==
  \A i \in Ids(b) :
    /\ KeyAt(b, i) \in Keys
    /\ TypeAt(b, i) = "uploadGps" => Ours(d, PointsAt(b, i), KeyAt(b, i))

PointsOfTrips(d, s) ==
  \A p \in DOMAIN s.gps :
    s.gps[p] \in S!Ids(s) /\ p \in 1..Len(d) /\ RowKey(d, s, s.gps[p]) = d[p].key

Addressed(d, b, c) ==
  /\ c.req.type # "createTrip" =>
       c.key \in DOMAIN b.tripIds /\ c.req.tripId = b.tripIds[c.key]
  /\ c.req.type = "uploadGps" => Ours(d, c.req.points, c.key)

(* What the answer says of the trip is so.                                 *)
Truthful(d, s, c) ==
  /\ c.answer # Unreadable
  /\ \A id \in Nat :
       c.answer = TripCreated(id) => id \in S!Ids(s) /\ RowKey(d, s, id) = c.key
  /\ c.req.type = "deleteTrip" /\ c.answer \in {Delivered, NotFound} =>
       ~MadeTrip(d, s, c.key)

(* Nothing of a cancelled trip is left without a delete that takes it away.*)
Going(d, s, b, x) ==
  \A k \in x :
    /\ Known(d, k)
    /\ MadeTrip(d, s, k) \/ CreateWaits(b, k) => Deletes(b, k)

TripsGo ==
  /\ Owned(diary, server, box, call)
  /\ OneRow(diary, server)
  /\ CreateOnce(box)
  /\ Collected(diary, box)
  /\ PointsOfTrips(diary, server)
  /\ call # NoCall => Addressed(diary, box, call) /\ Truthful(diary, server, call)
  /\ Going(diary, server, box, cancelled)
  /\ trip # NoTrip => trip.key \notin cancelled
  /\ late = {}

(* A longer diary says the same of rows and points.                        *)
LEMMA LaterGo ==
  ASSUME NEW d, NEW e, Grows(d, e), NEW s, RowsDated(d, s)
  PROVE  /\ \A id \in S!Ids(s) : RowKey(e, s, id) = RowKey(d, s, id)
         /\ \A k : MadeTrip(e, s, k) <=> MadeTrip(d, s, k)
         /\ OneRow(d, s) => OneRow(e, s)
         /\ \A points, k : Ours(d, points, k) => Ours(e, points, k)
         /\ \A b : Collected(d, b) => Collected(e, b)
         /\ PointsOfTrips(d, s) => PointsOfTrips(e, s)
         /\ \A b, c : Addressed(d, b, c) => Addressed(e, b, c)
         /\ \A c : Truthful(d, s, c) => Truthful(e, s, c)
<1>1. \A id \in S!Ids(s) : RowKey(e, s, id) = RowKey(d, s, id)
  BY LaterKnown
<1>2. \A k : MadeTrip(e, s, k) <=> MadeTrip(d, s, k)
  BY <1>1 DEF MadeTrip
<1>3. OneRow(d, s) => OneRow(e, s)
  BY <1>1 DEF OneRow
<1>4. \A n \in 1..Len(d) : n \in 1..Len(e) /\ e[n] = d[n]
  BY DEF Grows
<1>5. \A points, k : Ours(d, points, k) => Ours(e, points, k)
  BY <1>4 DEF Ours
<1>6. \A b : Collected(d, b) => Collected(e, b)
  BY <1>5 DEF Collected
<1>7. PointsOfTrips(d, s) => PointsOfTrips(e, s)
  BY <1>1, <1>4 DEF PointsOfTrips
<1>8. \A b, c : Addressed(d, b, c) => Addressed(e, b, c)
  BY <1>5 DEF Addressed
<1>9. \A c : Truthful(d, s, c) => Truthful(e, s, c)
  BY <1>1, <1>2 DEF Truthful
<1> QED BY <1>1, <1>2, <1>3, <1>5, <1>6, <1>7, <1>8, <1>9

(* A create that was sent stays, with what it has failed.                  *)
KeepsCreates(b, c) ==
  \A i \in Ids(b) :
    /\ TypeAt(b, i) = "createTrip"
    /\ b.entries[i].inFlight \/ b.entries[i].failures > 0
    => /\ i \in Ids(c)
       /\ TypeAt(c, i) = "createTrip" /\ KeyAt(c, i) = KeyAt(b, i)
       /\ c.entries[i].failures = b.entries[i].failures

(* A row stays owned when only the queue changes, and the diary grows.     *)
LEMMA OwnedStays ==
  ASSUME NEW d, NEW e, Grows(d, e), NEW s, RowsDated(d, s), NEW b, NEW bb,
         NEW c, Owned(d, s, b, c), bb.tripIds = b.tripIds, KeepsCreates(b, bb),
         c # NoCall => c.id \in Ids(b) /\ b.entries[c.id].inFlight
  PROVE  Owned(e, s, bb, c)
<1>1. ASSUME NEW k, MayHaveMade(b, c, k) PROVE MayHaveMade(bb, c, k)
  <2>1. PICK i \in Ids(b) :
          /\ TypeAt(b, i) = "createTrip" /\ KeyAt(b, i) = k
          /\ \/ b.entries[i].failures > 0
             \/ c # NoCall /\ c.id = i /\ c.answer \notin {NoAnswer, Unauthorized}
    BY <1>1 DEF MayHaveMade
  <2>2. b.entries[i].inFlight \/ b.entries[i].failures > 0
    BY <2>1
  <2>3. /\ i \in Ids(bb)
        /\ TypeAt(bb, i) = "createTrip" /\ KeyAt(bb, i) = k
        /\ bb.entries[i].failures = b.entries[i].failures
    BY <2>1, <2>2 DEF KeepsCreates
  <2> QED BY <2>1, <2>3 DEF MayHaveMade
<1>2. \A id \in S!Ids(s) : RowKey(e, s, id) = RowKey(d, s, id)
  BY LaterGo
<1> QED BY <1>1, <1>2 DEF Owned

(* What the phone does without an answer leaves the rows owned.            *)
LEMMA PhoneKeepsGoing ==
  ASSUME TripsGo, TripsKept, Awaited,
         server' = server, late' = late, Grows(diary, diary'),
         box'.tripIds = box.tripIds, KeepsCreates(box, box'),
         CreateOnce(box'), Collected(diary', box'),
         Going(diary', server', box', cancelled'),
         trip' # NoTrip => trip'.key \notin cancelled',
         \/ call' = call
         \/ /\ call = NoCall
            /\ call'.answer = NoAnswer
            /\ Addressed(diary', box', call')
  PROVE  TripsGo'
<1>1. RowsDated(diary, server)
  BY DEF TripsKept
<1>2. OneRow(diary', server') /\ PointsOfTrips(diary', server')
  BY <1>1, LaterGo DEF TripsGo
<1>3. Owned(diary', server', box', call)
  BY <1>1, OwnedStays DEF TripsGo, Awaited
<1>4. CASE call' = call
  <2>1. call # NoCall => Addressed(diary, box', call) /\ Truthful(diary, server, call)
    BY DEF TripsGo, Addressed
  <2>2. call' # NoCall =>
          Addressed(diary', box', call') /\ Truthful(diary', server', call')
    BY <1>1, <1>4, <2>1, LaterGo
  <2> QED BY <1>2, <1>3, <1>4, <2>2 DEF TripsGo
<1>5. CASE /\ call = NoCall
           /\ call'.answer = NoAnswer
           /\ Addressed(diary', box', call')
  <2>1. \A k : MayHaveMade(box', call, k) => MayHaveMade(box', call', k)
    BY <1>5 DEF MayHaveMade
  <2>2. Owned(diary', server', box', call')
    BY <1>3, <2>1 DEF Owned
  <2>3. NoAnswer \notin {Unreadable, Delivered, NotFound}
        /\ \A id \in Nat : NoAnswer # TripCreated(id)
    BY NoCallAssumption DEF Answers, Failures, TripCreated
  <2>4. Truthful(diary', server', call')
    BY <1>5, <2>3 DEF Truthful
  <2> QED BY <1>2, <1>5, <2>2, <2>4 DEF TripsGo
<1> QED BY <1>4, <1>5

(* The same queue but for who is on the way and who waits.                 *)
SameCmds(b, c) ==
  /\ Ids(c) = Ids(b)
  /\ c.tripIds = b.tripIds
  /\ \A i \in Ids(b) : /\ c.entries[i].cmd = b.entries[i].cmd
                       /\ c.entries[i].failures = b.entries[i].failures

(* Such a queue carries and asks the same.                                 *)
LEMMA SameCmdsGo ==
  ASSUME NEW b, NEW c, SameCmds(b, c)
  PROVE  /\ KeepsCreates(b, c)
         /\ \A k : CreateWaits(c, k) => CreateWaits(b, k)
         /\ \A k : Deletes(b, k) => Deletes(c, k)
         /\ \A d : Collected(d, b) => Collected(d, c)
<1>1. \A i \in Ids(b) : /\ TypeAt(c, i) = TypeAt(b, i) /\ KeyAt(c, i) = KeyAt(b, i)
                        /\ PointsAt(c, i) = PointsAt(b, i)
                        /\ c.entries[i].failures = b.entries[i].failures
  BY DEF SameCmds, TypeAt, KeyAt, PointsAt
<1>2. Ids(c) = Ids(b)
  BY DEF SameCmds
<1> QED BY <1>1, <1>2 DEF KeepsCreates, CreateWaits, Deletes, Collected

(* To wake, pause, mark or dismiss entries leaves the queue such.          *)
LEMMA FlagsSameCmds ==
  ASSUME NEW b, IsState(b)
  PROVE  /\ SameCmds(b, b)
         /\ SameCmds(b, Resumed(b))
         /\ SameCmds(b, Cleared(b))
         /\ SameCmds(b, Expedited(b))
         /\ \A i \in Ids(b) : SameCmds(b, Due(b, i)) /\ SameCmds(b, Dispatched(b, i))
<1>1. /\ b.entries = [i \in Ids(b) |-> b.entries[i]]
      /\ \A i \in Ids(b) : b.entries[i] \in Entries
  BY StateFields
<1>2. SameCmds(b, b)
  BY DEF SameCmds
<1>3. SameCmds(b, Resumed(b))
  BY <1>1, StateDomain DEF SameCmds, Resumed, Ids, IsState
<1>4. SameCmds(b, Cleared(b))
  BY <1>1, StateDomain DEF SameCmds, Cleared, Ids, IsState
<1>5. SameCmds(b, Expedited(b))
  <2>1. Expedited(b).entries = [i \in Ids(b) |-> [b.entries[i] EXCEPT !.waiting = FALSE]]
        /\ Expedited(b).tripIds = b.tripIds
    BY StateDomain DEF Expedited, IsState
  <2>2. \A i \in Ids(b) : /\ Expedited(b).entries[i].cmd = b.entries[i].cmd
                          /\ Expedited(b).entries[i].failures = b.entries[i].failures
    BY <1>1, <2>1 DEF Entries
  <2> QED BY <2>1, <2>2 DEF SameCmds, Ids
<1>6. ASSUME NEW i \in Ids(b) PROVE SameCmds(b, Due(b, i))
  <2>1. /\ Due(b, i).entries = [b.entries EXCEPT ![i].waiting = FALSE]
        /\ Due(b, i).tripIds = b.tripIds
    BY StateDomain DEF Due, IsState
  <2>2. \A j \in Ids(b) : /\ Due(b, i).entries[j].cmd = b.entries[j].cmd
                          /\ Due(b, i).entries[j].failures = b.entries[j].failures
    BY <1>1, <2>1 DEF Entries
  <2> QED BY <1>1, <2>1, <2>2 DEF SameCmds, Ids
<1>7. ASSUME NEW i \in Ids(b) PROVE SameCmds(b, Dispatched(b, i))
  <2>1. /\ Ids(Dispatched(b, i)) = Ids(b)
        /\ Dispatched(b, i).tripIds = b.tripIds
        /\ \A j \in Ids(b) \ {i} : Dispatched(b, i).entries[j] = b.entries[j]
        /\ Dispatched(b, i).entries[i].cmd = b.entries[i].cmd
        /\ Dispatched(b, i).entries[i].failures = b.entries[i].failures
    BY DispatchedParts
  <2> QED BY <2>1 DEF SameCmds
<1> QED BY <1>2, <1>3, <1>4, <1>5, <1>6, <1>7

(* A new command leaves the sent creates and the deletes that are queued.  *)
LEMMA EnqueuedGo ==
  ASSUME NEW b, IsState(b), NEW cmd \in Commands, cmd.key \in Keys, ~IsDelete(cmd),
         cmd.type = "uploadGps" => \E p : cmd.points = <<p>>
  PROVE  LET c == Enqueued(b, cmd) IN
         /\ c.tripIds = b.tripIds
         /\ KeepsCreates(b, c)
         /\ \A k : CreateWaits(c, k) =>
              CreateWaits(b, k) \/ (cmd.type = "createTrip" /\ k = cmd.key)
         /\ \A k : Deletes(b, k) => Deletes(c, k)
         /\ \A d : /\ Collected(d, b)
                   /\ cmd.type = "uploadGps" =>
                        Ours(d, {cmd.points[j] : j \in DOMAIN cmd.points}, cmd.key)
                   => Collected(d, c)
<1> DEFINE c == Enqueued(b, cmd)
<1>1. /\ c.tripIds = b.tripIds
      /\ Ids(b) \subseteq Ids(c)
      /\ \A i \in Ids(b) : /\ TypeAt(c, i) = TypeAt(b, i)
                           /\ KeyAt(c, i) = KeyAt(b, i)
                           /\ c.entries[i].failures = b.entries[i].failures
      /\ \A i \in Ids(c) \ Ids(b) : TypeAt(c, i) = cmd.type /\ KeyAt(c, i) = cmd.key
  BY EnqueuedParts DEF TypeAt, KeyAt
<1>2. \A i \in Ids(b) : TypeAt(b, i) = "uploadGps" => PointsAt(c, i) = PointsAt(b, i)
  <2> SUFFICES ASSUME NEW i \in Ids(b), TypeAt(b, i) = "uploadGps"
               PROVE  c.entries[i] = b.entries[i]
    BY DEF PointsAt
  <2>1. i \notin Mergeable(b, cmd)
    BY EnqueuedEntries DEF TypeAt
  <2> QED BY <2>1, EnqueuedEntries
<1>3. cmd.type = "uploadGps" =>
        \A i \in Ids(c) \ Ids(b) :
          PointsAt(c, i) = {cmd.points[j] : j \in DOMAIN cmd.points}
  <2> SUFFICES ASSUME cmd.type = "uploadGps", NEW i \in Ids(c) \ Ids(b)
               PROVE  c.entries[i].cmd = cmd
    BY DEF PointsAt
  <2>1. c = AppendOne(b, cmd)
    BY PointEnqueued
  <2>2. c.entries[i] = NewEntry(cmd)
    BY <2>1, AppendOneParts
  <2> QED BY <2>2 DEF NewEntry
<1> HIDE DEF c
<1>4. KeepsCreates(b, c)
  BY <1>1 DEF KeepsCreates
<1>5. \A k : CreateWaits(c, k) =>
        CreateWaits(b, k) \/ (cmd.type = "createTrip" /\ k = cmd.key)
  BY <1>1 DEF CreateWaits
<1>6. \A k : Deletes(b, k) => Deletes(c, k)
  BY <1>1 DEF Deletes
<1>7. ASSUME NEW d, Collected(d, b),
             cmd.type = "uploadGps" =>
               Ours(d, {cmd.points[j] : j \in DOMAIN cmd.points}, cmd.key)
      PROVE  Collected(d, c)
  <2> SUFFICES ASSUME NEW i \in Ids(c)
               PROVE  /\ KeyAt(c, i) \in Keys
                      /\ TypeAt(c, i) = "uploadGps" => Ours(d, PointsAt(c, i), KeyAt(c, i))
    BY DEF Collected
  <2>1. CASE i \in Ids(b)
    <3>1. /\ KeyAt(b, i) \in Keys
          /\ TypeAt(b, i) = "uploadGps" => Ours(d, PointsAt(b, i), KeyAt(b, i))
      BY <1>7, <2>1 DEF Collected
    <3> QED BY <1>1, <1>2, <2>1, <3>1
  <2>2. CASE i \notin Ids(b)
    BY <1>1, <1>3, <1>7, <2>2
  <2> QED BY <2>1, <2>2
<1> QED BY <1>1, <1>4, <1>5, <1>6, <1>7 DEF c

(* A cancel leaves no create of the trip, or a delete with it: a create    *)
(* that may have landed is among what it looks at.                         *)
LEMMA DiscardedGo ==
  ASSUME NEW b, IsState(b), NEW key \in Keys
  PROVE  LET c == Discarded(b, key) IN
         /\ c.tripIds = b.tripIds
         /\ KeepsCreates(b, c)
         /\ \A k : CreateWaits(c, k) => CreateWaits(b, k)
         /\ \A k : Deletes(b, k) => Deletes(c, k)
         /\ \A d : Collected(d, b) => Collected(d, c)
         /\ CreateWaits(c, key) \/ key \in DOMAIN b.tripIds \/ CreateMayHaveLanded(b, key)
              => Deletes(c, key)
<1> DEFINE c == Discarded(b, key)
           needed == ~Deleting(b, key)
                       /\ (key \in DOMAIN b.tripIds \/ CreateMayHaveLanded(b, key))
<1>1. /\ c.tripIds = b.tripIds
      /\ b.nextId \notin Ids(b)
      /\ Ids(c) = (Ids(b) \ Discardable(b, key)) \cup IF needed THEN {b.nextId} ELSE {}
      /\ \A i \in Ids(b) \ Discardable(b, key) : c.entries[i] = b.entries[i]
      /\ needed => c.entries[b.nextId] = NewEntry([type |-> "deleteTrip", key |-> key])
  BY DiscardedParts
<1>2. needed => /\ b.nextId \in Ids(c)
                /\ TypeAt(c, b.nextId) = "deleteTrip" /\ KeyAt(c, b.nextId) = key
  BY <1>1 DEF NewEntry, TypeAt, KeyAt
<1>3. Deleting(b, key) <=> Deletes(b, key)
  BY DeletingIsDeletes
<1> HIDE DEF c
<1>4. \A i \in Ids(c) :
        \/ /\ i \in Ids(b) \ Discardable(b, key)
           /\ TypeAt(c, i) = TypeAt(b, i) /\ KeyAt(c, i) = KeyAt(b, i)
           /\ PointsAt(c, i) = PointsAt(b, i)
        \/ TypeAt(c, i) = "deleteTrip" /\ KeyAt(c, i) = key
  BY <1>1, <1>2 DEF TypeAt, KeyAt, PointsAt
<1>5. \A i \in Ids(b) \ Discardable(b, key) :
        i \in Ids(c) /\ TypeAt(c, i) = TypeAt(b, i) /\ KeyAt(c, i) = KeyAt(b, i)
  BY <1>1 DEF TypeAt, KeyAt
<1>6. \A i \in Ids(b) : TypeAt(b, i) = "deleteTrip" => i \notin Discardable(b, key)
  BY DEF Discardable, IsDelete, TypeAt
<1>7. \A k : Deletes(b, k) => Deletes(c, k)
  BY <1>5, <1>6 DEF Deletes
<1>8. \A k : CreateWaits(c, k) => CreateWaits(b, k)
  BY <1>4 DEF CreateWaits
<1>9. \A i \in Ids(b) :
        TypeAt(b, i) = "createTrip" /\ (b.entries[i].inFlight \/ b.entries[i].failures > 0)
          => i \notin Discardable(b, key)
  <2> SUFFICES ASSUME NEW i \in Discardable(b, key), TypeAt(b, i) = "createTrip",
                      b.entries[i].inFlight \/ b.entries[i].failures > 0
               PROVE  FALSE
    BY DEF Discardable, OfTrip
  <2> QED BY DEF Discardable, CreateMayHaveLanded, TypeAt
<1>10. KeepsCreates(b, c)
  <2>1. \A i \in Ids(b) \ Discardable(b, key) : c.entries[i].failures = b.entries[i].failures
    BY <1>1
  <2> QED BY <1>5, <1>9, <2>1 DEF KeepsCreates
<1>11. ASSUME NEW d, Collected(d, b) PROVE Collected(d, c)
  BY <1>4, <1>11 DEF Collected
<1>12. CreateWaits(c, key) => CreateMayHaveLanded(b, key)
  <2> SUFFICES ASSUME NEW i \in Ids(c), TypeAt(c, i) = "createTrip", KeyAt(c, i) = key
               PROVE  CreateMayHaveLanded(b, key)
    BY DEF CreateWaits
  <2>1. /\ i \in Ids(b) \ Discardable(b, key)
        /\ TypeAt(b, i) = "createTrip" /\ KeyAt(b, i) = key
    BY <1>4
  <2>2. i \in OfTrip(b, key) /\ ~IsDelete(b.entries[i].cmd)
    BY <2>1 DEF OfTrip, KeyAt, TypeAt, IsDelete
  <2>3. CASE b.entries[i].inFlight
    BY <2>1, <2>2, <2>3 DEF CreateMayHaveLanded, TypeAt
  <2>4. CASE ~b.entries[i].inFlight
    BY <2>1, <2>2, <2>4 DEF Discardable, TypeAt
  <2> QED BY <2>3, <2>4
<1>13. key \in DOMAIN b.tripIds \/ CreateMayHaveLanded(b, key) => Deletes(c, key)
  BY <1>2, <1>3, <1>7 DEF Deletes
<1> QED BY <1>1, <1>7, <1>8, <1>10, <1>11, <1>12, <1>13 DEF c

(* A step that only wakes, pauses or saves.                                *)
LEMMA SameKeepsGoing ==
  ASSUME TripsGo, TripsKept, Awaited, RecorderTyped, SameCmds(box, box'),
         server' = server, late' = late, diary' = diary, cancelled' = cancelled,
         trip' \in {trip, NoTrip},
         \/ call' = call
         \/ /\ call = NoCall
            /\ call'.answer = NoAnswer
            /\ Addressed(diary, box, call')
  PROVE  TripsGo'
<1>1. /\ KeepsCreates(box, box')
      /\ \A k : CreateWaits(box', k) => CreateWaits(box, k)
      /\ \A k : Deletes(box, k) => Deletes(box', k)
      /\ \A d : Collected(d, box) => Collected(d, box')
  BY SameCmdsGo
<1>2. box'.tripIds = box.tripIds
  BY DEF SameCmds
<1>3. Grows(diary, diary')
  BY DEF RecorderTyped, Grows
<1>4. CreateOnce(box') /\ Collected(diary', box')
  BY <1>1, <1>2 DEF TripsGo, CreateOnce
<1>5. Going(diary', server', box', cancelled')
  BY <1>1 DEF TripsGo, Going
<1>6. trip' # NoTrip => trip'.key \notin cancelled'
  BY DEF TripsGo
<1>7. \/ call' = call
      \/ /\ call = NoCall
         /\ call'.answer = NoAnswer
         /\ Addressed(diary', box', call')
  BY <1>2 DEF Addressed
<1> QED BY <1>1, <1>2, <1>3, <1>4, <1>5, <1>6, <1>7, PhoneKeepsGoing

(* A row of a trip whose delete is not queued yet asks Discard for one.    *)
LEMMA MadeIsSeen ==
  ASSUME TripsGo, Awaited, NEW k, MadeTrip(diary, server, k)
  PROVE  k \in DOMAIN box.tripIds \/ CreateMayHaveLanded(box, k)
<1>1. k \in DOMAIN box.tripIds \/ MayHaveMade(box, call, k)
  BY DEF TripsGo, Owned, MadeTrip
<1>2. MayHaveMade(box, call, k) => CreateMayHaveLanded(box, k)
  BY DEF MayHaveMade, CreateMayHaveLanded, OfTrip, Awaited, TypeAt, KeyAt
<1> QED BY <1>1, <1>2

(* Recording: a trip that is going has its delete, a new one is another.   *)
LEMMA RecordKeepsGoing ==
  ASSUME Kept, TripsKept, TripsGo, Record
  PROVE  TripsGo'
<1>1. BoxTyped /\ RecorderTyped /\ IsState(box) /\ Awaited
  BY TypeParts DEF Kept, BoxTyped
<1>2. ASSUME NEW cmd, NEW key, NEW slot, NEW field, Issues(cmd, key, slot, field)
      PROVE  TripsGo'
  <2>1. /\ Recording /\ Writes(key, slot, field) /\ Enqueue(cmd)
        /\ cmd \in Commands /\ ~IsDelete(cmd) /\ cmd.key = key
        /\ key \in Keys
        /\ slot \in {TripSlot, GpsSlot} \cup Attempts
        /\ field \in TripFields \cup AttemptFields \cup {"point"}
        /\ trip'.key = key
        /\ IF cmd.type = "createTrip" THEN key[2] = now
           ELSE trip # NoTrip /\ trip.key = key
        /\ cmd.type = "uploadGps" => cmd.points = <<now>>
    BY <1>2 DEF Issues
  <2>2. /\ now \in Times
        /\ Len(diary') = now
        /\ \A n \in 1..clock : diary'[n] = diary[n]
        /\ diary'[now] = [key |-> key, slot |-> slot, field |-> field]
        /\ cancelled' = cancelled
    BY <1>1, <2>1, WritesStep
  <2>3. clock = Len(diary) /\ clock \in Nat /\ now = clock + 1
    BY <1>1 DEF RecorderTyped, clock, now
  <2>4. Grows(diary, diary') /\ diary'[now].key = key
    BY <2>2, <2>3 DEF Grows
  <2>5. /\ box' = Enqueued(box, cmd)
        /\ server' = server /\ late' = late /\ call' = call
    BY <2>1 DEF Enqueue, Persist, Recording, serverVars, driverVars
  <2>6. /\ box'.tripIds = box.tripIds
        /\ KeepsCreates(box, box')
        /\ \A k : CreateWaits(box', k) =>
             CreateWaits(box, k) \/ (cmd.type = "createTrip" /\ k = key)
        /\ \A k : Deletes(box, k) => Deletes(box', k)
        /\ \A d : /\ Collected(d, box)
                  /\ cmd.type = "uploadGps" =>
                       Ours(d, {cmd.points[j] : j \in DOMAIN cmd.points}, key)
                  => Collected(d, box')
    BY <1>1, <2>1, <2>5, EnqueuedGo
  <2>7. cmd.type = "createTrip" => ~Known(diary, key)
    BY <2>1, <2>3 DEF Known
  <2>8. RowsDated(diary, server)
    BY DEF TripsKept
  <2>9. Collected(diary', box')
    <3>1. Collected(diary', box)
      BY <2>4, <2>8, LaterGo DEF TripsGo
    <3>2. cmd.type = "uploadGps" =>
            Ours(diary', {cmd.points[j] : j \in DOMAIN cmd.points}, key)
      BY <2>1, <2>2, <2>3, <2>4 DEF Ours
    <3> QED BY <2>6, <3>1, <3>2
  <2>10. CreateOnce(box')
    <3> SUFFICES ASSUME NEW k \in DOMAIN box.tripIds, CreateWaits(box', k) PROVE FALSE
      BY <2>6 DEF CreateOnce
    <3>1. Known(diary, k) /\ ~CreateWaits(box, k)
      BY DEF TripsKept, BoxKnown, TripsGo, CreateOnce
    <3> QED BY <2>6, <2>7, <3>1
  <2>11. key \notin cancelled
    <3>1. CASE cmd.type = "createTrip"
      BY <2>7, <3>1 DEF TripsGo, Going
    <3>2. CASE cmd.type # "createTrip"
      BY <2>1, <3>2 DEF TripsGo
    <3> QED BY <3>1, <3>2
  <2>12. Going(diary', server', box', cancelled')
    <3> SUFFICES ASSUME NEW k \in cancelled
                 PROVE  /\ Known(diary', k)
                        /\ MadeTrip(diary', server, k) \/ CreateWaits(box', k)
                             => Deletes(box', k)
      BY <2>2, <2>5 DEF Going
    <3>1. /\ Known(diary, k)
          /\ MadeTrip(diary, server, k) \/ CreateWaits(box, k) => Deletes(box, k)
      BY DEF TripsGo, Going
    <3>2. Known(diary', k)
      BY <2>4, <3>1, LaterKnown
    <3>3. MadeTrip(diary', server, k) => MadeTrip(diary, server, k)
      BY <2>4, <2>8, LaterGo
    <3> QED BY <2>6, <2>11, <3>1, <3>2, <3>3
  <2> QED BY <1>1, <2>1, <2>2, <2>4, <2>5, <2>6, <2>9, <2>10, <2>11, <2>12,
             PhoneKeepsGoing
<1>3. CASE EndTrip \/ NothingToRecord \/ PersistRecorder
  <2>1. /\ box' = box /\ diary' = diary /\ trip' \in {trip, NoTrip}
        /\ call' = call /\ server' = server /\ late' = late /\ cancelled' = cancelled
    BY <1>3 DEF EndTrip, NothingToRecord, PersistRecorder, Recording, driverVars,
                historyVars, serverVars
  <2>2. SameCmds(box, box')
    BY <1>1, <2>1, FlagsSameCmds
  <2> QED BY <1>1, <2>1, <2>2, SameKeepsGoing
<1>4. CASE CancelTrip
  <2>1. /\ trip # NoTrip /\ box' = Discarded(box, trip.key) /\ diary' = diary
        /\ trip' = NoTrip /\ call' = call /\ server' = server /\ late' = late
        /\ cancelled' = cancelled \cup {trip.key}
    BY <1>4 DEF CancelTrip, Discard, Persist, Recording, driverVars, serverVars
  <2>2. trip.key \in Keys /\ Known(diary, trip.key)
    BY <2>1 DEF TripsKept, Known
  <2>3. /\ box'.tripIds = box.tripIds
        /\ KeepsCreates(box, box')
        /\ \A k : CreateWaits(box', k) => CreateWaits(box, k)
        /\ \A k : Deletes(box, k) => Deletes(box', k)
        /\ \A d : Collected(d, box) => Collected(d, box')
        /\ \/ CreateWaits(box', trip.key)
           \/ trip.key \in DOMAIN box.tripIds
           \/ CreateMayHaveLanded(box, trip.key)
           => Deletes(box', trip.key)
    BY <1>1, <2>1, <2>2, DiscardedGo
  <2>4. Grows(diary, diary')
    BY <1>1, <2>1 DEF RecorderTyped, Grows
  <2>5. CreateOnce(box') /\ Collected(diary', box')
    BY <2>1, <2>3 DEF TripsGo, CreateOnce
  <2>6. Going(diary', server', box', cancelled')
    <3> SUFFICES ASSUME NEW k \in cancelled \cup {trip.key}
                 PROVE  /\ Known(diary, k)
                        /\ MadeTrip(diary, server, k) \/ CreateWaits(box', k)
                             => Deletes(box', k)
      BY <2>1 DEF Going
    <3>1. CASE k = trip.key
      BY <1>1, <2>2, <2>3, <3>1, MadeIsSeen
    <3>2. CASE k \in cancelled
      BY <2>3, <3>2 DEF TripsGo, Going
    <3> QED BY <3>1, <3>2
  <2> QED BY <1>1, <2>1, <2>3, <2>4, <2>5, <2>6, PhoneKeepsGoing
<1> QED BY <1>1, <1>2, <1>3, <1>4, RecordSteps

(* A create that may have made its trip is still there when the answer has *)
(* been taken, and remembers that it failed.                               *)
KeepsFailed(b, c, k) ==
  \A i \in Ids(b) :
    /\ TypeAt(b, i) = "createTrip"
    /\ b.entries[i].failures > 0
         \/ (k.id = i /\ k.answer \notin {NoAnswer, Unauthorized})
    => /\ i \in Ids(c)
       /\ TypeAt(c, i) = "createTrip" /\ KeyAt(c, i) = KeyAt(b, i)
       /\ c.entries[i].failures > 0

(* An answer that makes no trip.                                           *)
LEMMA AnswerKeepsGoing ==
  ASSUME TripsGo, server' = server, late' = late, diary' = diary,
         cancelled' = cancelled, trip' = trip, call' = NoCall,
         DOMAIN box'.tripIds \subseteq DOMAIN box.tripIds,
         \A k \in DOMAIN box.tripIds : MadeTrip(diary, server, k) =>
           k \in DOMAIN box'.tripIds /\ box'.tripIds[k] = box.tripIds[k],
         KeepsFailed(box, box', call),
         \A i \in Ids(box') : i \in Ids(box) /\ box'.entries[i].cmd = box.entries[i].cmd,
         \A k : Deletes(box, k) =>
           Deletes(box', k) \/ (~MadeTrip(diary, server, k) /\ ~CreateWaits(box', k))
  PROVE  TripsGo'
<1>1. \A i \in Ids(box') : /\ i \in Ids(box)
                           /\ TypeAt(box', i) = TypeAt(box, i)
                           /\ KeyAt(box', i) = KeyAt(box, i)
                           /\ PointsAt(box', i) = PointsAt(box, i)
  BY DEF TypeAt, KeyAt, PointsAt
<1>2. \A k : CreateWaits(box', k) => CreateWaits(box, k)
  BY <1>1 DEF CreateWaits
<1>3. \A k : MayHaveMade(box, call, k) => MayHaveMade(box', call', k)
  <2> SUFFICES ASSUME NEW k, NEW i \in Ids(box),
                      TypeAt(box, i) = "createTrip", KeyAt(box, i) = k,
                      \/ box.entries[i].failures > 0
                      \/ call.id = i /\ call.answer \notin {NoAnswer, Unauthorized}
               PROVE  MayHaveMade(box', call', k)
    BY DEF MayHaveMade
  <2>1. /\ i \in Ids(box')
        /\ TypeAt(box', i) = "createTrip" /\ KeyAt(box', i) = k
        /\ box'.entries[i].failures > 0
    BY DEF KeepsFailed
  <2> QED BY <2>1 DEF MayHaveMade
<1>4. Owned(diary', server', box', call')
  <2> SUFFICES ASSUME NEW id \in S!Ids(server), NEW k, k = RowKey(diary, server, id)
               PROVE  \/ k \in DOMAIN box'.tripIds /\ box'.tripIds[k] = id
                      \/ MayHaveMade(box', call', k) /\ AsCreated(server.trips[id], k)
    BY DEF Owned
  <2>1. MadeTrip(diary, server, k)
    BY DEF MadeTrip
  <2>2. \/ k \in DOMAIN box.tripIds /\ box.tripIds[k] = id
        \/ MayHaveMade(box, call, k) /\ AsCreated(server.trips[id], k)
    BY DEF TripsGo, Owned
  <2> QED BY <1>3, <2>1, <2>2
<1>5. CreateOnce(box') /\ Collected(diary', box')
  BY <1>1, <1>2 DEF TripsGo, CreateOnce, Collected
<1>6. Going(diary', server', box', cancelled')
  BY <1>2 DEF TripsGo, Going
<1> QED BY <1>4, <1>5, <1>6 DEF TripsGo

(* The answer to a create gives the trip its id.                           *)
LEMMA CreatedKeepsGoing ==
  ASSUME TripsGo, IsState(box), CreateFirst(box),
         server' = server, late' = late, diary' = diary,
         cancelled' = cancelled, trip' = trip, call' = NoCall,
         NEW i \in Ids(box), NEW id \in Nat, TypeAt(box, i) = "createTrip",
         box' = AfterTripCreated(box, i, id), call.id = i,
         id \in S!Ids(server), RowKey(diary, server, id) = KeyAt(box, i)
  PROVE  TripsGo'
<1> DEFINE key == KeyAt(box, i)
<1>1. /\ Ids(box') = Ids(box) \ {i}
      /\ \A j \in Ids(box') : box'.entries[j] = box.entries[j]
      /\ DOMAIN box'.tripIds = DOMAIN box.tripIds \cup {key}
      /\ box'.tripIds[key] = id
      /\ \A k \in DOMAIN box.tripIds \ {key} : box'.tripIds[k] = box.tripIds[k]
  BY TripCreatedParts DEF KeyAt
<1>2. \A j \in Ids(box') : /\ TypeAt(box', j) = TypeAt(box, j)
                           /\ KeyAt(box', j) = KeyAt(box, j)
                           /\ PointsAt(box', j) = PointsAt(box, j)
  BY <1>1 DEF TypeAt, KeyAt, PointsAt
<1>3. \A k : CreateWaits(box', k) => CreateWaits(box, k)
  BY <1>1, <1>2 DEF CreateWaits
<1>4. \A k : Deletes(box, k) => Deletes(box', k)
  BY <1>1, <1>2 DEF Deletes
<1>5. ~CreateWaits(box', key)
  <2> SUFFICES ASSUME NEW j \in Ids(box'), TypeAt(box', j) = "createTrip",
                      KeyAt(box', j) = key
               PROVE  FALSE
    BY DEF CreateWaits
  <2>1. i <= j /\ j <= i /\ j # i /\ j \in Ids(box)
    BY <1>1, <1>2 DEF CreateFirst
  <2>2. box.nextId \in Nat /\ Ids(box) \subseteq 1..(box.nextId - 1)
    BY StateFields
  <2>3. i \in 1..(box.nextId - 1) /\ j \in 1..(box.nextId - 1)
    BY <2>1, <2>2
  <2> QED BY <2>1, <2>2, <2>3
<1>6. Owned(diary', server', box', call')
  <2> SUFFICES ASSUME NEW r \in S!Ids(server), NEW k, k = RowKey(diary, server, r)
               PROVE  \/ k \in DOMAIN box'.tripIds /\ box'.tripIds[k] = r
                      \/ MayHaveMade(box', call', k) /\ AsCreated(server.trips[r], k)
    BY DEF Owned
  <2>1. CASE k = key
    <3>1. r = id
      BY <2>1 DEF TripsGo, OneRow
    <3> QED BY <1>1, <2>1, <3>1
  <2>2. CASE k # key
    <3>1. CASE k \in DOMAIN box.tripIds /\ box.tripIds[k] = r
      BY <1>1, <2>2, <3>1
    <3>2. CASE MayHaveMade(box, call, k) /\ AsCreated(server.trips[r], k)
      <4>1. PICK j \in Ids(box) :
              /\ TypeAt(box, j) = "createTrip" /\ KeyAt(box, j) = k
              /\ box.entries[j].failures > 0 \/ call.id = j
        BY <3>2 DEF MayHaveMade
      <4>2. j # i /\ j \in Ids(box') /\ box.entries[j].failures > 0
        BY <1>1, <2>2, <4>1
      <4> QED BY <1>1, <1>2, <3>2, <4>1, <4>2 DEF MayHaveMade
    <3> QED BY <3>1, <3>2 DEF TripsGo, Owned
  <2> QED BY <2>1, <2>2
<1>7. CreateOnce(box')
  <2> SUFFICES ASSUME NEW k \in DOMAIN box'.tripIds PROVE ~CreateWaits(box', k)
    BY DEF CreateOnce
  <2>1. CASE k = key
    BY <1>5, <2>1
  <2>2. CASE k # key
    <3>1. k \in DOMAIN box.tripIds
      BY <1>1, <2>2
    <3> QED BY <1>3, <3>1 DEF TripsGo, CreateOnce
  <2> QED BY <2>1, <2>2
<1>8. Collected(diary', box')
  BY <1>1, <1>2 DEF TripsGo, Collected
<1>9. Going(diary', server', box', cancelled')
  BY <1>3, <1>4 DEF TripsGo, Going
<1> QED BY <1>6, <1>7, <1>8, <1>9 DEF TripsGo

(* A refused token counts no failure.                                      *)
LEMMA PausedKeepsFailures ==
  ASSUME NEW b, IsState(b), NEW i \in Ids(b)
  PROVE  AfterPause(b, i).entries[i].failures = b.entries[i].failures
<1>1. b.entries[i] \in Entries /\ b.entries = [j \in Ids(b) |-> b.entries[j]]
  BY StateFields
<1>2. AfterPause(b, i).entries = [b.entries EXCEPT ![i].inFlight = FALSE]
  BY StateDomain DEF AfterPause, IsState
<1> QED BY <1>1, <1>2 DEF Entries

(* Whatever the answer says, a row keeps its owner and a cancelled trip    *)
(* its delete, until an answer says that the row is gone.                  *)
LEMMA ReturnKeepsGoing ==
  ASSUME Kept, TripsKept, TripsGo, Return
  PROVE  TripsGo'
<1> DEFINE i == call.id
           outcome == call.answer
           cmd == box.entries[i].cmd
           c == Completed(box, i, outcome)
<1>1. IsState(box) /\ Awaited /\ Orderly(box)
  BY TypeParts DEF Kept, BoxTyped, QueueKept
<1>2. /\ call # NoCall /\ outcome # NoAnswer /\ call' = NoCall
      /\ i \in Ids(box) /\ box.entries[i].inFlight
      /\ box' = c
      /\ server' = server /\ late' = late /\ diary' = diary /\ cancelled' = cancelled
      /\ trip' = trip
  BY DEF Return, Complete, Persist, serverVars, recorderVars, historyVars
<1>3. /\ outcome \in OutcomesOf(cmd, Nat)
      /\ call.req.type = cmd.type
      /\ TypeAt(box, i) = cmd.type /\ KeyAt(box, i) = cmd.key
  BY <1>1, <1>2 DEF Awaited, TypeAt, KeyAt
<1>4. call.key = cmd.key /\ (cmd.type = "deleteTrip" => outcome # Refused)
  BY <1>2, <1>3 DEF TripsKept, CallFit
<1>5. Truthful(diary, server, call)
  BY <1>2 DEF TripsGo
<1>6. cmd.type = "createTrip" => outcome \notin {NotFound, Refused, Unreadable}
  BY <1>2, <1>3 DEF Kept, QueueKept, CreatesAccepted
<1>7. \/ /\ cmd.type = "createTrip"
         /\ \E id \in Nat : outcome = TripCreated(id) /\ c = AfterTripCreated(box, i, id)
      \/ /\ cmd.type # "createTrip"
         /\ \/ outcome \in {Delivered, Unreadable}
            \/ outcome = NotFound /\ IsDelete(cmd)
         /\ c = AfterDelivered(box, i)
      \/ outcome = Transient /\ c = AfterRetry(box, i)
      \/ outcome = Unauthorized /\ c = AfterPause(box, i)
      \/ /\ \/ outcome = Refused
            \/ outcome = NotFound /\ ~IsDelete(cmd)
            \/ outcome = Unreadable /\ cmd.type = "createTrip"
         /\ c = AfterReject(box, i)
  BY <1>1, <1>2, <1>3, CompletedCases
<1> HIDE DEF c
<1>8. ASSUME NEW id \in Nat, cmd.type = "createTrip", outcome = TripCreated(id),
             c = AfterTripCreated(box, i, id)
      PROVE  TripsGo'
  <2>1. id \in S!Ids(server) /\ RowKey(diary, server, id) = KeyAt(box, i)
    BY <1>3, <1>4, <1>5, <1>8 DEF Truthful
  <2> QED BY <1>1, <1>2, <1>3, <1>8, <2>1, CreatedKeepsGoing DEF Orderly
<1>9. CASE cmd.type # "createTrip" /\ c = AfterDelivered(box, i)
           /\ (outcome \in {Delivered, Unreadable} \/ (outcome = NotFound /\ IsDelete(cmd)))
  <2>1. /\ Ids(box') = Ids(box) \ {i}
        /\ \A j \in Ids(box') : box'.entries[j] = box.entries[j]
        /\ DOMAIN box'.tripIds = IF IsDelete(cmd) THEN DOMAIN box.tripIds \ {cmd.key}
                                 ELSE DOMAIN box.tripIds
        /\ \A k \in DOMAIN box'.tripIds : box'.tripIds[k] = box.tripIds[k]
    <3> DEFINE r == AfterDelivered(box, i)
    <3>1. /\ Ids(r) = Ids(box) \ {i}
          /\ \A j \in Ids(r) : r.entries[j] = box.entries[j]
          /\ DOMAIN r.tripIds = IF IsDelete(cmd) THEN DOMAIN box.tripIds \ {cmd.key}
                               ELSE DOMAIN box.tripIds
          /\ \A k \in DOMAIN r.tripIds : r.tripIds[k] = box.tripIds[k]
      BY <1>1, <1>2, DeliveredParts
    <3>2. box' = r
      BY <1>2, <1>9
    <3> HIDE DEF r
    <3> QED BY <3>1, <3>2
  <2>2. IsDelete(cmd) => ~MadeTrip(diary, server, cmd.key)
    BY <1>3, <1>4, <1>5, <1>9 DEF Truthful, IsDelete
  <2>3. \A j \in Ids(box') : TypeAt(box', j) = TypeAt(box, j) /\ KeyAt(box', j) = KeyAt(box, j)
    BY <2>1 DEF TypeAt, KeyAt
  <2>4. KeepsFailed(box, box', call)
    BY <1>3, <1>9, <2>1, <2>3 DEF KeepsFailed
  <2>5. ASSUME NEW k, Deletes(box, k), ~Deletes(box', k)
        PROVE  ~MadeTrip(diary, server, k) /\ ~CreateWaits(box', k)
    <3>1. TypeAt(box, i) = "deleteTrip" /\ KeyAt(box, i) = k
      BY <2>1, <2>3, <2>5 DEF Deletes
    <3>2. \A j \in Ids(box) : KeyAt(box, j) = k => j = i
      BY <1>1, <1>2, <3>1 DEF Orderly, SentDeleteAlone
    <3>3. ~CreateWaits(box', k)
      BY <2>1, <2>3, <3>2 DEF CreateWaits
    <3> QED BY <1>3, <2>2, <3>1, <3>3 DEF IsDelete
  <2> QED BY <1>2, <2>1, <2>2, <2>4, <2>5, AnswerKeepsGoing
<1>10. CASE (outcome = Transient /\ c = AfterRetry(box, i))
            \/ (outcome = Unauthorized /\ c = AfterPause(box, i))
  <2>1. /\ box'.tripIds = box.tripIds
        /\ Ids(box') = Ids(box)
        /\ \A j \in Ids(box) \ {i} : box'.entries[j] = box.entries[j]
        /\ box'.entries[i].cmd = cmd
        /\ c = AfterRetry(box, i) => box'.entries[i].failures > 0
    BY <1>1, <1>2, <1>10, PutBackParts
  <2>2. \A j \in Ids(box) : box'.entries[j].cmd = box.entries[j].cmd
    BY <2>1
  <2>3. \A j \in Ids(box) : TypeAt(box', j) = TypeAt(box, j) /\ KeyAt(box', j) = KeyAt(box, j)
    BY <2>2 DEF TypeAt, KeyAt
  <2>4. outcome = Unauthorized =>
          box'.entries[i].failures = box.entries[i].failures
          \/ box'.entries[i].failures > 0
    BY <1>1, <1>2, <1>10, <2>1, PausedKeepsFailures
  <2>5. KeepsFailed(box, box', call)
    <3> SUFFICES ASSUME NEW j \in Ids(box), TypeAt(box, j) = "createTrip",
                        \/ box.entries[j].failures > 0
                        \/ call.id = j /\ call.answer \notin {NoAnswer, Unauthorized}
                 PROVE  box'.entries[j].failures > 0
      BY <2>1, <2>3 DEF KeepsFailed
    <3>1. CASE j # i
      BY <2>1, <3>1
    <3>2. CASE j = i /\ outcome = Unauthorized
      BY <2>4, <3>2
    <3>3. CASE j = i /\ outcome # Unauthorized
      BY <1>10, <2>1, <3>3
    <3> QED BY <3>1, <3>2, <3>3
  <2>6. \A k : Deletes(box, k) => Deletes(box', k)
    BY <2>1, <2>3 DEF Deletes
  <2> QED BY <1>2, <2>1, <2>2, <2>5, <2>6, AnswerKeepsGoing
<1>11. CASE c = AfterReject(box, i)
            /\ \/ outcome = Refused
               \/ outcome = NotFound /\ ~IsDelete(cmd)
               \/ outcome = Unreadable /\ cmd.type = "createTrip"
  <2>1. cmd.type # "createTrip" /\ cmd.type # "deleteTrip"
    BY <1>4, <1>6, <1>11 DEF IsDelete, Refused, NotFound
  <2>2. Dependents(box, i) = {}
    BY <2>1 DEF Dependents
  <2>3. /\ box'.tripIds = box.tripIds
        /\ Ids(box') = Ids(box) \ {i}
        /\ \A j \in Ids(box') : box'.entries[j] = box.entries[j]
    <3> DEFINE r == AfterReject(box, i)
    <3>1. /\ r.tripIds = box.tripIds
          /\ Ids(r) = Ids(box) \ ({i} \cup Dependents(box, i))
          /\ \A j \in Ids(r) : r.entries[j] = box.entries[j]
      <4>1. r = [entries |-> r.entries, tripIds |-> box.tripIds,
                 deadLetters |-> r.deadLetters, nextId |-> box.nextId,
                 paused |-> box.paused]
        BY <1>1, <1>2, RejectParts
      <4> HIDE DEF r
      <4>2. r.tripIds = box.tripIds
        BY <4>1
      <4> QED BY <1>1, <1>2, <4>2, RejectParts DEF r
    <3>2. box' = r
      BY <1>2, <1>11
    <3> HIDE DEF r
    <3> QED BY <2>2, <3>1, <3>2
  <2>4. \A j \in Ids(box') : TypeAt(box', j) = TypeAt(box, j) /\ KeyAt(box', j) = KeyAt(box, j)
    BY <2>3 DEF TypeAt, KeyAt
  <2>5. KeepsFailed(box, box', call)
    BY <1>3, <2>1, <2>3, <2>4 DEF KeepsFailed
  <2>6. \A k : Deletes(box, k) => Deletes(box', k)
    BY <1>3, <2>1, <2>3, <2>4 DEF Deletes
  <2> QED BY <1>2, <2>3, <2>5, <2>6, AnswerKeepsGoing
<1> QED BY <1>7, <1>8, <1>9, <1>10, <1>11

(* What goes out is addressed to the trip of its command.                  *)
LEMMA SentAddressed ==
  ASSUME TypeOK, Collected(diary, box), NEW i \in Dispatchable(box), NEW c,
         c = [id |-> i, key |-> box.entries[i].cmd.key,
              req |-> RequestOf(box.entries[i].cmd), answer |-> NoAnswer]
  PROVE  Addressed(diary, box, c)
<1> DEFINE cmd == box.entries[i].cmd
<1>1. i \in Ids(box) /\ Resolvable(box, cmd) /\ IsState(box)
  BY DEF Dispatchable, Ready, TypeOK
<1>2. cmd \in Commands
  BY <1>1, StateFields, EntryFields
<1>3. RequestOf(cmd).type = cmd.type
  BY <1>1, <1>2, RequestType
<1>4. cmd.key \in Keys /\ (cmd.type = "uploadGps" => Ours(diary, PointsAt(box, i), cmd.key))
  BY <1>1 DEF Collected, KeyAt, TypeAt
<1>5. PointsAt(box, i) = {cmd.points[j] : j \in DOMAIN cmd.points}
  BY DEF PointsAt
<1>6. c.key = cmd.key /\ c.req = RequestOf(cmd)
  OBVIOUS
<1> HIDE DEF cmd
<1>7. cmd.key # NoKey
  BY <1>4, OutboxAssumption
<1>8. cmd.type # "createTrip" => cmd.key \in DOMAIN box.tripIds
  BY <1>1, <1>7 DEF Resolvable
<1>9. cmd.type # "createTrip" => RequestOf(cmd).tripId = box.tripIds[cmd.key]
  BY <1>2, <1>7, CommandParts DEF RequestOf
<1>10. cmd.type = "uploadGps" =>
         RequestOf(cmd).points = {cmd.points[j] : j \in DOMAIN cmd.points}
  BY DEF RequestOf
<1> QED BY <1>3, <1>4, <1>5, <1>6, <1>8, <1>9, <1>10 DEF Addressed

(* The driver: it sends, takes answers and waits.                          *)
LEMMA DriveKeepsGoing ==
  ASSUME Reliable, Kept, TripsKept, TripsGo, Drive
  PROVE  TripsGo'
<1>1. /\ BoxTyped /\ RecorderTyped /\ DriverTyped /\ IsState(box) /\ Awaited
      /\ TypeOK
  BY TypeParts DEF Kept, BoxTyped
<1>2. /\ trip' = trip /\ diary' = diary /\ server' = server /\ cancelled' = cancelled
      /\ late' = late
  BY DEF Drive, SendOne, SendFailsToSave, FindsNothing, DrainEnds, Ending, Driving,
         Return, WakeFires, TimePasses, Expedite, SaveToken, ClearReviews,
         recorderVars, historyVars, serverVars
<1>3. CASE SendOne
  <2>1. PICK i \in Dispatchable(box) :
          /\ box' = Dispatched(box, i)
          /\ call' = [id |-> i, key |-> box.entries[i].cmd.key,
                      req |-> RequestOf(box.entries[i].cmd), answer |-> NoAnswer]
    BY <1>3 DEF SendOne
  <2>2. call = NoCall
    BY <1>1, <1>3 DEF SendOne, Driving, DriverTyped
  <2>3. Addressed(diary, box, call')
    BY <1>1, <2>1, SentAddressed DEF TripsGo
  <2>4. i \in Ids(box)
    BY DEF Dispatchable, Ready
  <2>5. SameCmds(box, box')
    BY <1>1, <2>1, <2>4, FlagsSameCmds
  <2>6. call'.answer = NoAnswer
    BY <2>1
  <2> QED BY <1>1, <1>2, <2>2, <2>3, <2>5, <2>6, SameKeepsGoing
<1>4. CASE SendFailsToSave
  BY <1>4 DEF SendFailsToSave, Reliable
<1>5. CASE FindsNothing \/ DrainEnds \/ WakeFires
  <2>1. box' = box /\ call' = call
    BY <1>5 DEF FindsNothing, DrainEnds, Ending, WakeFires
  <2>2. SameCmds(box, box')
    BY <1>1, <2>1, FlagsSameCmds
  <2> QED BY <1>1, <1>2, <2>1, <2>2, SameKeepsGoing
<1>6. CASE Return
  BY <1>6, ReturnKeepsGoing
<1>7. ASSUME NEW i \in Ids(box), TimePasses(i) PROVE TripsGo'
  <2>1. box' = Due(box, i) /\ call' = call
    BY <1>7 DEF TimePasses, RetryDue, driverVars
  <2>2. SameCmds(box, box')
    BY <1>1, <2>1, FlagsSameCmds
  <2> QED BY <1>1, <1>2, <2>1, <2>2, SameKeepsGoing
<1>8. CASE Expedite \/ SaveToken \/ ClearReviews
  <2>1. box' \in {Expedited(box), Resumed(box), Cleared(box)} /\ call' = call
    BY <1>8 DEF Expedite, ExpediteRetries, SaveToken, Resume, ClearReviews,
                ClearDeadLetters, Persist, driverVars
  <2>2. SameCmds(box, box')
    BY <1>1, <2>1, FlagsSameCmds
  <2> QED BY <1>1, <1>2, <2>1, <2>2, SameKeepsGoing
<1> QED BY <1>3, <1>4, <1>5, <1>6, <1>7, <1>8 DEF Drive

(* The call is heard by the server: k is the call before, m the call after.*)
Heard(s, b, k, m) ==
  /\ k.id \in Ids(b)
  /\ k.answer = NoAnswer
  /\ m.id = k.id /\ m.key = k.key /\ m.req = k.req
  /\ m.answer \in {S!Served(s, k.req).outcome, Transient}
  /\ KeyAt(b, k.id) = k.key /\ TypeAt(b, k.id) = k.req.type

(* A create makes a row only of a trip that has none.                      *)
LEMMA CreateGoes ==
  ASSUME NEW d, NEW s, IsServer(s), NEW b, NEW k, NEW m,
         k # NoCall, m # NoCall, k.req \in PhoneRequests, k.req.type = "createTrip",
         k.key = <<k.req.route, k.req.leftHomeAt>>, Known(d, k.key),
         RowsDated(d, s), Len(d) \in Nat, Heard(s, b, k, m),
         Owned(d, s, b, k), OneRow(d, s), CreateOnce(b), PointsOfTrips(d, s)
  PROVE  LET t == S!Served(s, k.req).state IN
         /\ Owned(d, t, b, m) /\ OneRow(d, t) /\ PointsOfTrips(d, t)
         /\ Truthful(d, t, m)
         /\ \A x : MadeTrip(d, t, x) => MadeTrip(d, s, x) \/ x = k.key
<1> DEFINE req == k.req
           key == k.key
           t == S!Served(s, req).state
           outcome == S!Served(s, req).outcome
           id == s.lastId + 1
<1>1. /\ key[1] = req.route /\ key[2] = req.leftHomeAt
      /\ req.leftHomeAt \in 1..Len(d) /\ d[req.leftHomeAt].key = key
      /\ req.leftHomeAt # Nil
  BY OutboxSystemAssumption DEF Known
<1>2. \E n \in Nat : outcome = TripCreated(n)
  <2>1. PICK n : outcome = TripCreated(n)
    BY CreateAccepted
  <2>2. outcome \in {NotFound, Refused} \cup {TripCreated(j) : j \in Nat}
    BY ServedType
  <2> QED BY <2>1, <2>2 DEF TripCreated, NotFound, Refused
<1>3. \/ /\ t = s
         /\ \E i \in S!SameKey(s, req) :
              outcome = IF s.trips[i].tripDate = Today THEN TripCreated(i) ELSE Refused
      \/ /\ S!SameKey(s, req) = {}
         /\ outcome = TripCreated(id)
         /\ t = [trips |-> t.trips, gps |-> s.gps, lastId |-> id]
         /\ S!Ids(t) = S!Ids(s) \cup {id}
         /\ t.trips = [i \in S!Ids(t) |-> t.trips[i]]
         /\ t.trips[id] = S!NewTrip(req)
         /\ \A i \in S!Ids(s) : i # id /\ t.trips[i] = s.trips[i]
  BY CreateParts
<1>4. /\ CreateWaits(b, key)
      /\ k.id \in Ids(b) /\ TypeAt(b, k.id) = "createTrip" /\ KeyAt(b, k.id) = key
  BY DEF Heard, CreateWaits
<1>5. m.id = k.id /\ m.key = key /\ m.req = req /\ m.answer \in {outcome, Transient}
      /\ k.answer = NoAnswer
  BY DEF Heard
<1> HIDE DEF t, outcome
<1>6. \A x : MayHaveMade(b, k, x) => MayHaveMade(b, m, x)
  BY <1>5 DEF MayHaveMade
<1>7. m.answer # Unreadable /\ m.answer \notin {NoAnswer, Unauthorized}
      /\ m.req.type # "deleteTrip"
  BY <1>2, <1>5, NoCallAssumption
     DEF TripCreated, Transient, Unreadable, Unauthorized, PhoneRequests, Answers, Failures
<1>8. ASSUME NEW i \in S!SameKey(s, req)
      PROVE  i \in S!Ids(s) /\ RowKey(d, s, i) = key
  BY <1>1 DEF S!SameKey, S!HasKey, RowKey
<1>9. CASE t = s /\ \E i \in S!SameKey(s, req) :
             outcome = IF s.trips[i].tripDate = Today THEN TripCreated(i) ELSE Refused
  <2>1. PICK i \in S!SameKey(s, req) : outcome = TripCreated(i)
    BY <1>2, <1>9 DEF TripCreated, Refused
  <2>2. Truthful(d, t, m)
    BY <1>5, <1>7, <1>8, <1>9, <2>1 DEF Truthful, TripCreated, Transient
  <2>3. Owned(d, t, b, m)
    BY <1>6, <1>9 DEF Owned
  <2> QED BY <1>9, <2>2, <2>3 DEF t
<1>10. CASE /\ S!SameKey(s, req) = {}
            /\ outcome = TripCreated(id)
            /\ t = [trips |-> t.trips, gps |-> s.gps, lastId |-> id]
            /\ S!Ids(t) = S!Ids(s) \cup {id}
            /\ t.trips[id] = S!NewTrip(req)
            /\ \A i \in S!Ids(s) : i # id /\ t.trips[i] = s.trips[i]
  <2>1. \A i \in S!Ids(s) : i # id /\ t.trips[i] = s.trips[i]
                            /\ RowKey(d, t, i) = RowKey(d, s, i)
    BY <1>10 DEF RowKey
  <2>2. t.trips[id].route = req.route /\ t.trips[id].fields.leftHomeAt = req.leftHomeAt
    BY <1>10 DEF S!NewTrip, S!TripFields
  <2>3. RowKey(d, t, id) = key /\ AsCreated(t.trips[id], key)
    BY <1>1, <2>2 DEF RowKey, AsCreated
  <2>4. \A i \in S!Ids(s) : RowKey(d, s, i) # key
    <3> SUFFICES ASSUME NEW i \in S!Ids(s), RowKey(d, s, i) = key PROVE FALSE
      OBVIOUS
    <3>1. key \notin DOMAIN b.tripIds
      BY <1>4 DEF CreateOnce
    <3>2. AsCreated(s.trips[i], key)
      BY <3>1 DEF Owned
    <3>3. i \in S!SameKey(s, req)
      BY <1>1, <3>2 DEF AsCreated, S!SameKey, S!HasKey
    <3> QED BY <1>10, <3>3
  <2>5. MayHaveMade(b, m, key)
    BY <1>4, <1>5, <1>7 DEF MayHaveMade
  <2>6. Owned(d, t, b, m)
    <3> SUFFICES ASSUME NEW r \in S!Ids(t), NEW x, x = RowKey(d, t, r)
                 PROVE  \/ x \in DOMAIN b.tripIds /\ b.tripIds[x] = r
                        \/ MayHaveMade(b, m, x) /\ AsCreated(t.trips[r], x)
      BY DEF Owned
    <3>1. CASE r = id
      BY <2>3, <2>5, <3>1
    <3>2. CASE r \in S!Ids(s)
      BY <1>6, <2>1, <3>2 DEF Owned
    <3> QED BY <1>10, <3>1, <3>2
  <2>7. OneRow(d, t)
    BY <1>10, <2>1, <2>3, <2>4 DEF OneRow
  <2>8. PointsOfTrips(d, t)
    <3>1. t.gps = s.gps
      BY <1>10
    <3> QED BY <1>10, <2>1, <3>1 DEF PointsOfTrips
  <2>9. Truthful(d, t, m)
    BY <1>5, <1>7, <1>10, <2>3 DEF Truthful, TripCreated, Transient
  <2>10. \A x : MadeTrip(d, t, x) => MadeTrip(d, s, x) \/ x = key
    BY <1>10, <2>1, <2>3 DEF MadeTrip
  <2> QED BY <2>6, <2>7, <2>8, <2>9, <2>10 DEF t
<1> QED BY <1>3, <1>9, <1>10

(* Any other request makes no row, and changes only the row of its trip:   *)
(* t is the server after it.                                               *)
OneRowTouched(d, s, t, req) ==
  /\ S!Ids(t) = IF req.type = "deleteTrip" THEN S!Ids(s) \ {req.tripId} ELSE S!Ids(s)
  /\ \A r \in S!Ids(t) : RowKey(d, t, r) = RowKey(d, s, r)
  /\ \A r \in S!Ids(t) : r # req.tripId => t.trips[r] = s.trips[r]

(* What the server does with it is no more than that.                      *)
LEMMA PlainServed ==
  ASSUME NEW d, NEW s, IsServer(s), NEW b, NEW req \in PhoneRequests,
         req.type # "createTrip", Len(d) \in Nat, RowsDated(d, s), Fits(d, s, b, req)
  PROVE  OneRowTouched(d, s, S!Served(s, req).state, req)
<1> DEFINE u == S!Served(s, req).state
           id == req.tripId
<1>1. Evolves(d, s, u, b)
  BY ServedEvolves
<1>2. req.type \in {"updateTrip", "upsertAttempt", "uploadGps", "deleteTrip"}
  BY DEF PhoneRequests
<1>3. /\ S!Ids(u) = IF req.type = "deleteTrip" THEN S!Ids(s) \ {id} ELSE S!Ids(s)
      /\ \A r \in S!Ids(u) : r # id => u.trips[r] = s.trips[r]
  <2>1. CASE req.type = "updateTrip"
    <3>1. \/ u = s
          \/ S!Ids(u) = S!Ids(s) /\ \A i \in S!Ids(s) \ {id} : u.trips[i] = s.trips[i]
      BY <2>1, UpdateParts
    <3> HIDE DEF u
    <3> QED BY <2>1, <3>1
  <2>2. CASE req.type = "upsertAttempt"
    <3>1. \/ u = s
          \/ S!Ids(u) = S!Ids(s) /\ \A i \in S!Ids(s) \ {id} : u.trips[i] = s.trips[i]
      BY <2>2, UpsertParts
    <3> HIDE DEF u
    <3> QED BY <2>2, <3>1
  <2>3. CASE req.type = "uploadGps"
    <3>1. u = s \/ u = [trips |-> s.trips, gps |-> u.gps, lastId |-> s.lastId]
      BY <2>3, GpsParts
    <3> HIDE DEF u
    <3>2. u.trips = s.trips
      BY <3>1
    <3> QED BY <2>3, <3>2 DEF S!Ids
  <2>4. CASE req.type = "deleteTrip"
    <3>1. /\ u = [trips |-> u.trips, gps |-> u.gps, lastId |-> s.lastId]
          /\ S!Ids(u) = S!Ids(s) \ {id}
          /\ u.trips = [i \in S!Ids(u) |-> u.trips[i]]
          /\ \A i \in S!Ids(u) : u.trips[i] = s.trips[i]
          /\ DOMAIN u.gps \subseteq DOMAIN s.gps
          /\ u.gps = [p \in DOMAIN u.gps |-> s.gps[p]]
      BY <2>4, DeleteParts
    <3> HIDE DEF u
    <3> QED BY <2>4, <3>1
  <2> QED BY <1>2, <2>1, <2>2, <2>3, <2>4
<1>4. \A r \in S!Ids(s) : r <= s.lastId
  BY DEF IsServer
<1> HIDE DEF u
<1>5. \A r \in S!Ids(u) : RowKey(d, u, r) = RowKey(d, s, r)
  BY <1>1, <1>3, <1>4 DEF Evolves
<1>6. OneRowTouched(d, s, u, req)
  BY <1>3, <1>5 DEF OneRowTouched
<1> QED BY <1>6 DEF u

(* The points stored are of rows that are there, and of the right ones.    *)
LEMMA PlainPoints ==
  ASSUME NEW d, NEW s, IsServer(s), NEW b, NEW req \in PhoneRequests, NEW key,
         req.type # "createTrip", Len(d) \in Nat, RowsDated(d, s), Fits(d, s, b, req),
         req.tripId \in Nat, req.tripId \in S!Ids(s) => RowKey(d, s, req.tripId) = key,
         req.type = "uploadGps" => Ours(d, req.points, key),
         PointsOfTrips(d, s), NEW t, t = S!Served(s, req).state
  PROVE  PointsOfTrips(d, t)
<1> DEFINE id == req.tripId
<1>1. /\ S!Ids(t) = IF req.type = "deleteTrip" THEN S!Ids(s) \ {req.tripId}
                    ELSE S!Ids(s)
      /\ \A r \in S!Ids(t) : RowKey(d, t, r) = RowKey(d, s, r)
  <2>1. OneRowTouched(d, s, t, req)
    BY PlainServed
  <2> QED BY <2>1 DEF OneRowTouched
<1>2. req.type \in {"updateTrip", "upsertAttempt", "uploadGps", "deleteTrip"}
  BY DEF PhoneRequests
<1>3. id # NoTrip
  BY OutboxSystemAssumption
<1>4. \A p \in DOMAIN t.gps :
        \/ /\ p \in DOMAIN s.gps /\ t.gps[p] = s.gps[p]
           /\ req.type = "deleteTrip" => s.gps[p] # id
        \/ req.type = "uploadGps" /\ p \in req.points /\ t.gps[p] = id /\ id \in S!Ids(s)
  <2>1. CASE req.type \in {"updateTrip", "upsertAttempt"}
    <3>1. t = s \/ t = [trips |-> t.trips, gps |-> s.gps, lastId |-> s.lastId]
      <4>1. CASE req.type = "updateTrip"
        BY <4>1, UpdateParts
      <4>2. CASE req.type = "upsertAttempt"
        BY <4>2, UpsertParts
      <4> QED BY <2>1, <4>1, <4>2
    <3>2. t.gps = s.gps
      BY <3>1
    <3> QED BY <2>1, <3>2
  <2>2. CASE req.type = "uploadGps"
    <3>1. \/ t = s
          \/ /\ id = NoTrip \/ id \in S!Ids(s)
             /\ DOMAIN t.gps = DOMAIN s.gps \cup req.points
             /\ t.gps = [p \in DOMAIN t.gps |->
                           IF p \in DOMAIN s.gps THEN s.gps[p] ELSE id]
      BY <2>2, GpsParts
    <3>2. CASE t = s
      BY <2>2, <3>2
    <3>3. CASE /\ id = NoTrip \/ id \in S!Ids(s)
               /\ DOMAIN t.gps = DOMAIN s.gps \cup req.points
               /\ t.gps = [p \in DOMAIN t.gps |->
                             IF p \in DOMAIN s.gps THEN s.gps[p] ELSE id]
      <4> SUFFICES ASSUME NEW p \in DOMAIN t.gps
                   PROVE  \/ p \in DOMAIN s.gps /\ t.gps[p] = s.gps[p]
                          \/ p \in req.points /\ t.gps[p] = id
        BY <1>3, <2>2, <3>3
      <4>1. t.gps[p] = IF p \in DOMAIN s.gps THEN s.gps[p] ELSE id
        BY <3>3
      <4>2. p \in DOMAIN s.gps \cup req.points
        BY <3>3
      <4> QED BY <4>1, <4>2
    <3> QED BY <3>1, <3>2, <3>3
  <2>3. CASE req.type = "deleteTrip"
    <3> DEFINE u == S!Served(s, req).state
    <3>1. /\ id \notin S!Ids(s) => u = s
          /\ u = [trips |-> u.trips, gps |-> u.gps, lastId |-> s.lastId]
          /\ S!Ids(u) = S!Ids(s) \ {id}
          /\ u.trips = [i \in S!Ids(u) |-> u.trips[i]]
          /\ \A i \in S!Ids(u) : u.trips[i] = s.trips[i]
          /\ DOMAIN u.gps \subseteq DOMAIN s.gps
          /\ u.gps = [p \in DOMAIN u.gps |-> s.gps[p]]
          /\ id \in S!Ids(s) => DOMAIN u.gps = {p \in DOMAIN s.gps : s.gps[p] # id}
      BY <2>3, DeleteParts
    <3>5. t = u
      OBVIOUS
    <3> HIDE DEF u
    <3>2. \A p \in DOMAIN s.gps : s.gps[p] \in S!Ids(s)
      BY DEF PointsOfTrips
    <3> SUFFICES ASSUME NEW p \in DOMAIN t.gps
                 PROVE  p \in DOMAIN s.gps /\ t.gps[p] = s.gps[p] /\ s.gps[p] # id
      BY <2>3
    <3>3. p \in DOMAIN s.gps /\ t.gps[p] = s.gps[p]
      BY <3>1, <3>5
    <3>4. s.gps[p] # id
      BY <3>1, <3>2, <3>3, <3>5
    <3> QED BY <3>3, <3>4
  <2> QED BY <1>2, <2>1, <2>2, <2>3
<1> SUFFICES ASSUME NEW p \in DOMAIN t.gps
             PROVE  /\ t.gps[p] \in S!Ids(t) /\ p \in 1..Len(d)
                    /\ RowKey(d, t, t.gps[p]) = d[p].key
  BY DEF PointsOfTrips
<1>5. CASE /\ p \in DOMAIN s.gps /\ t.gps[p] = s.gps[p]
           /\ req.type = "deleteTrip" => s.gps[p] # id
  <2>1. s.gps[p] \in S!Ids(s) /\ p \in 1..Len(d) /\ RowKey(d, s, s.gps[p]) = d[p].key
    BY <1>5 DEF PointsOfTrips
  <2> QED BY <1>1, <1>5, <2>1
<1>6. CASE req.type = "uploadGps" /\ p \in req.points /\ t.gps[p] = id /\ id \in S!Ids(s)
  <2>1. p \in 1..Len(d) /\ d[p].key = key
    BY <1>6 DEF Ours
  <2> QED BY <1>1, <1>6, <2>1
<1> QED BY <1>4, <1>5, <1>6

(* No such request makes a row, and a delete leaves none of its trip.      *)
LEMMA PlainGoes ==
  ASSUME NEW d, NEW s, IsServer(s), NEW b, NEW k, NEW m,
         k # NoCall, m # NoCall, k.req \in PhoneRequests, k.req.type # "createTrip",
         Addressed(d, b, k), b.tripIds[k.key] \in Nat,
         Names(d, s, b.tripIds[k.key], k.key), Fits(d, s, b, k.req),
         RowsDated(d, s), Len(d) \in Nat, Heard(s, b, k, m),
         Owned(d, s, b, k), OneRow(d, s), CreateOnce(b), PointsOfTrips(d, s)
  PROVE  LET t == S!Served(s, k.req).state IN
         /\ Owned(d, t, b, m) /\ OneRow(d, t) /\ PointsOfTrips(d, t)
         /\ Truthful(d, t, m)
         /\ \A x : MadeTrip(d, t, x) => MadeTrip(d, s, x)
<1> DEFINE req == k.req
           key == k.key
           t == S!Served(s, req).state
           outcome == S!Served(s, req).outcome
           id == req.tripId
<1>1. /\ key \in DOMAIN b.tripIds /\ id = b.tripIds[key] /\ id \in Nat
      /\ req.type = "uploadGps" => Ours(d, req.points, key)
  BY DEF Addressed
<1>2. id \in S!Ids(s) => RowKey(d, s, id) = key
  BY <1>1 DEF Names
<1>3. /\ S!Ids(t) = IF req.type = "deleteTrip" THEN S!Ids(s) \ {id} ELSE S!Ids(s)
      /\ \A r \in S!Ids(t) : RowKey(d, t, r) = RowKey(d, s, r)
      /\ \A r \in S!Ids(t) : r # id => t.trips[r] = s.trips[r]
  <2>1. OneRowTouched(d, s, t, req)
    BY PlainServed
  <2> HIDE DEF t
  <2> QED BY <2>1 DEF OneRowTouched
<1>4. PointsOfTrips(d, t)
  BY <1>1, <1>2, PlainPoints
<1>5. m.id = k.id /\ m.key = key /\ m.req = req /\ m.answer \in {outcome, Transient}
      /\ k.answer = NoAnswer
  BY DEF Heard
<1>6. m.answer \in {NotFound, Refused, Delivered, Transient}
  BY <1>5, PlainOutcomes
<1>7. \A x : MayHaveMade(b, k, x) => CreateWaits(b, x) /\ MayHaveMade(b, m, x)
  BY <1>5 DEF MayHaveMade, CreateWaits
<1> HIDE DEF t, outcome
<1>8. \A r \in S!Ids(t) : r \in S!Ids(s) /\ RowKey(d, t, r) = RowKey(d, s, r)
  BY <1>3
<1>9. Owned(d, t, b, m)
  <2> SUFFICES ASSUME NEW r \in S!Ids(t), NEW x, x = RowKey(d, s, r)
               PROVE  \/ x \in DOMAIN b.tripIds /\ b.tripIds[x] = r
                      \/ MayHaveMade(b, m, x) /\ AsCreated(t.trips[r], x)
    BY <1>8 DEF Owned
  <2>1. \/ x \in DOMAIN b.tripIds /\ b.tripIds[x] = r
        \/ MayHaveMade(b, k, x) /\ AsCreated(s.trips[r], x)
    BY <1>8 DEF Owned
  <2>2. CASE MayHaveMade(b, k, x) /\ AsCreated(s.trips[r], x)
    <3>1. x \notin DOMAIN b.tripIds
      BY <1>7, <2>2 DEF CreateOnce
    <3>2. r # id
      BY <1>1, <1>2, <1>8, <3>1
    <3>3. t.trips[r] = s.trips[r]
      BY <1>3, <3>2
    <3> QED BY <1>7, <2>2, <3>3
  <2> QED BY <2>1, <2>2
<1>10. OneRow(d, t)
  BY <1>8 DEF OneRow
<1>11. \A x : MadeTrip(d, t, x) => MadeTrip(d, s, x)
  BY <1>8 DEF MadeTrip
<1>12. req.type = "deleteTrip" => ~MadeTrip(d, t, key)
  <2> SUFFICES ASSUME req.type = "deleteTrip", NEW r \in S!Ids(t), RowKey(d, t, r) = key
               PROVE  FALSE
    BY DEF MadeTrip
  <2>1. r \in S!Ids(s) /\ r # id /\ RowKey(d, s, r) = key
    BY <1>3
  <2>2. ~MayHaveMade(b, k, key)
    BY <1>1, <1>7 DEF CreateOnce
  <2> QED BY <1>1, <2>1, <2>2 DEF Owned
<1>13. Truthful(d, t, m)
  BY <1>5, <1>6, <1>12
     DEF Truthful, NotFound, Refused, Delivered, Transient, Unreadable, TripCreated
<1> QED BY <1>4, <1>9, <1>10, <1>11, <1>13 DEF t

(* The network: a row comes only of a create that waits, and an answer says*)
(* what was done.                                                          *)
LEMMA NetworkKeepsGoing ==
  ASSUME Kept, TripsKept, TripsGo, Reliable, MaxLate = 0, Network
  PROVE  TripsGo'
<1>1. /\ BoxTyped /\ DriverTyped /\ RecorderTyped /\ IsServer(server) /\ Awaited
      /\ Len(diary) \in Nat
  BY TypeParts DEF Kept, RecorderTyped
<1>2. /\ box' = box /\ trip' = trip /\ diary' = diary /\ cancelled' = cancelled
  BY DEF Network, Served, TurnedAway, TimesOut, ArrivesLate, Networking,
         recorderVars, historyVars
<1>3. late = {}
  BY DEF TripsGo
<1>4. Network => Served \/ TurnedAway
  <2>1. Cardinality({}) = 0
    BY FS_EmptySet
  <2>2. ~TimesOut
    BY <1>3, <2>1 DEF TimesOut
  <2>3. ~ArrivesLate
    BY <1>3 DEF ArrivesLate
  <2> QED BY <2>2, <2>3 DEF Network
<1>5. call # NoCall => CallFit(diary, server, removed, box, call)
  BY DEF TripsKept
<1>6. /\ RowsDated(diary, server) /\ IdsRight(diary, server, removed, box)
  BY DEF TripsKept
<1>7. call # NoCall => call' # NoCall
  <2>1. DriverTyped'
    BY StepKept, TypeParts DEF Kept, Next
  <2>2. drain' = drain
    BY DEF Network, Served, TurnedAway, TimesOut, ArrivesLate, Networking
  <2> QED BY <1>1, <2>1, <2>2 DEF DriverTyped
<1>8. ASSUME Waiting, NEW answer, call' = [call EXCEPT !.answer = answer]
      PROVE  /\ call # NoCall /\ call' # NoCall /\ call.req \in PhoneRequests
             /\ call'.req = call.req /\ call'.id = call.id /\ call'.key = call.key
             /\ call'.answer = answer /\ call.answer = NoAnswer
  <2>1. call \in Calls
    BY <1>1, <1>8 DEF Waiting, DriverTyped
  <2> QED BY <1>7, <1>8, <2>1 DEF Calls, Waiting
<1>9. CASE Served
  <2>1. Waiting /\ Handles(call.req) /\ late' = late
    BY <1>9 DEF Served
  <2>2. PICK answer \in Understood(S!Served(server, call.req).outcome) :
          call' = [call EXCEPT !.answer = answer]
    BY <1>9 DEF Served
  <2>3. answer \in {S!Served(server, call.req).outcome, Transient}
    BY DEF Understood, Reliable, Transient, Unauthorized, Unreadable
  <2>4. server' = S!Served(server, call.req).state
    BY <2>1 DEF Handles
  <2>5. /\ call # NoCall /\ call' # NoCall /\ call.req \in PhoneRequests
        /\ call'.req = call.req /\ call'.id = call.id /\ call'.key = call.key
        /\ call'.answer = answer /\ call.answer = NoAnswer
    BY <1>8, <2>1, <2>2
  <2>6. /\ call.key = KeyAt(box, call.id)
        /\ Fits(diary, server, box, call.req)
        /\ call.req.type = "createTrip" => call.key = <<call.req.route, call.req.leftHomeAt>>
    BY <1>5, <2>5 DEF CallFit
  <2>7. call.id \in Ids(box) /\ TypeAt(box, call.id) = call.req.type
    BY <1>1, <2>5 DEF Awaited, TypeAt
  <2>8. Heard(server, box, call, call')
    BY <2>3, <2>5, <2>6, <2>7 DEF Heard
  <2>9. /\ Owned(diary, server, box, call) /\ OneRow(diary, server) /\ CreateOnce(box)
        /\ PointsOfTrips(diary, server) /\ Addressed(diary, box, call)
        /\ Going(diary, server, box, cancelled)
    BY <2>5 DEF TripsGo
  <2>10. /\ Owned(diary, server', box, call') /\ OneRow(diary, server')
         /\ PointsOfTrips(diary, server') /\ Truthful(diary, server', call')
         /\ \A x : MadeTrip(diary, server', x) =>
              MadeTrip(diary, server, x) \/ CreateWaits(box, x)
    <3>1. CASE call.req.type = "createTrip"
      <4>1. Known(diary, call.key)
        BY <2>6, <3>1 DEF Fits
      <4>2. CreateWaits(box, call.key)
        BY <2>6, <2>7, <3>1 DEF CreateWaits
      <4> QED BY <1>1, <1>6, <2>4, <2>5, <2>6, <2>8, <2>9, <3>1, <4>1, <4>2, CreateGoes
    <3>2. CASE call.req.type # "createTrip"
      <4>1. call.key \in DOMAIN box.tripIds
        BY <2>9, <3>2 DEF Addressed
      <4>2. box.tripIds[call.key] \in Nat
        BY <1>1, <4>1 DEF BoxTyped, IsState
      <4>3. Names(diary, server, box.tripIds[call.key], call.key)
        BY <1>6, <4>1 DEF IdsRight, RightId
      <4> QED BY <1>1, <1>6, <2>4, <2>5, <2>6, <2>8, <2>9, <3>2, <4>2, <4>3, PlainGoes
    <3> QED BY <3>1, <3>2
  <2>11. Addressed(diary, box, call')
    BY <2>5, <2>9 DEF Addressed
  <2>12. Going(diary, server', box, cancelled)
    BY <2>9, <2>10 DEF Going
  <2> QED BY <1>2, <2>1, <2>10, <2>11, <2>12 DEF TripsGo
<1>10. CASE TurnedAway
  <2>1. Waiting /\ server' = server /\ late' = late
    BY <1>10 DEF TurnedAway, serverVars
  <2>2. PICK answer \in {Transient, Unauthorized} : call' = [call EXCEPT !.answer = answer]
    BY <1>10 DEF TurnedAway, Reliable
  <2>3. /\ call # NoCall /\ call' # NoCall /\ call.req \in PhoneRequests
        /\ call'.req = call.req /\ call'.id = call.id /\ call'.key = call.key
        /\ call'.answer = answer /\ call.answer = NoAnswer
    BY <1>8, <2>1, <2>2
  <2>4. /\ answer \notin {Unreadable, Delivered, NotFound}
        /\ \A id \in Nat : answer # TripCreated(id)
    BY DEF Unreadable, Delivered, NotFound, Transient, Unauthorized, TripCreated
  <2>5. Truthful(diary, server, call')
    BY <2>3, <2>4 DEF Truthful
  <2>6. \A x : MayHaveMade(box, call, x) => MayHaveMade(box, call', x)
    BY <2>3 DEF MayHaveMade
  <2>7. Owned(diary, server, box, call')
    BY <2>6 DEF TripsGo, Owned
  <2>8. Addressed(diary, box, call')
    BY <2>3 DEF TripsGo, Addressed
  <2> QED BY <1>2, <2>1, <2>5, <2>7, <2>8 DEF TripsGo
<1> QED BY <1>4, <1>9, <1>10

(* At the start there is no trip,                                          *)
LEMMA InitTripsGo == Init => TripsGo
<1> SUFFICES ASSUME Init PROVE TripsGo
  OBVIOUS
<1>1. /\ Ids(box) = {} /\ DOMAIN box.tripIds = {} /\ S!Ids(server) = {} /\ late = {}
      /\ call = NoCall /\ trip = NoTrip /\ DOMAIN server.gps = {} /\ cancelled = {}
  BY DEF Init, Empty, Ids, S!Ids, S!NewServer
<1> QED BY <1>1 DEF TripsGo, Owned, OneRow, CreateOnce, Collected, PointsOfTrips, Going

(* and every step of a phone that is not relaunched keeps them going.      *)
LEMMA StepTripsGo ==
  ASSUME Reliable, MaxCrashes = 0, MaxLate = 0
  PROVE  Kept /\ TripsKept /\ TripsGo /\ [Next]_vars => TripsGo'
<1> SUFFICES ASSUME Kept, TripsKept, TripsGo, [Next]_vars
             PROVE  TripsGo'
  OBVIOUS
<1>1. DriverTyped
  BY TypeParts DEF Kept
<1>2. CASE Record
  BY <1>2, RecordKeepsGoing
<1>3. CASE Drive
  BY <1>3, DriveKeepsGoing
<1>4. CASE Network
  BY <1>4, NetworkKeepsGoing
<1>5. ~Crash
  BY <1>1 DEF Crash, DriverTyped
<1>6. CASE UNCHANGED vars
  <2>1. /\ box' = box /\ server' = server /\ call' = call /\ diary' = diary
        /\ trip' = trip /\ late' = late /\ cancelled' = cancelled
    BY <1>6 DEF vars, recorderVars, driverVars, serverVars, historyVars
  <2> QED BY <2>1 DEF TripsGo
<1> QED BY <1>2, <1>3, <1>4, <1>5, <1>6 DEF Next

(* A cancelled trip is gone once the outbox has nothing left of it: the    *)
(* delete that was queued took its row and its points away, or there was   *)
(* never a row (Outbox.swift:307-330).  Of a phone that is not relaunched, *)
(* and of requests that do not arrive after their timeout.                 *)
THEOREM CancelledTripsGo ==
  ASSUME Reliable, MaxCrashes = 0, MaxLate = 0
  PROVE  Spec => []CancelledGone
<1>1. TripsGo => CancelledGone
  <2> SUFFICES ASSUME TripsGo, NEW k \in cancelled, ~HasEntries(k)
               PROVE  /\ RowsOf(k) = {}
                      /\ \A n \in DOMAIN server.gps : diary[n].key # k
    BY DEF CancelledGone
  <2>1. ~Deletes(box, k)
    BY DEF HasEntries, OfTrip, Deletes, KeyAt
  <2>2. ~MadeTrip(diary, server, k)
    BY <2>1 DEF TripsGo, Going
  <2>3. RowsOf(k) = {}
    BY <2>2 DEF MadeTrip, RowsOf, KeyOf, RowKey, S!Ids
  <2>4. \A n \in DOMAIN server.gps :
          /\ server.gps[n] \in S!Ids(server)
          /\ RowKey(diary, server, server.gps[n]) = diary[n].key
    BY DEF TripsGo, PointsOfTrips
  <2> QED BY <2>2, <2>3, <2>4 DEF MadeTrip
<1> QED BY <1>1, InitKept, StepKept, InitTripsKept, StepTripsKept, InitTripsGo,
           StepTripsGo, PTL DEF Spec

(***************************************************************************)
(* Nothing is turned down.  A field of the server that another must not    *)
(* precede was recorded before it, so whatever the server has of a trip is *)
(* in order, at any time; and an attempt waits behind the one before it.   *)
(***************************************************************************)

-----------------------------------------------------------------------------
(* What is recorded in turn.                                               *)

(* What the server compares: the first must not be later than the second.  *)
Earlier(slot, f, other, g) ==
  \/ /\ slot = TripSlot /\ f = "leftHomeAt"
     /\ other \in Attempts \/ (other = TripSlot /\ g = "arrivedDestinationAt")
  \/ slot \in Attempts /\ other = TripSlot /\ g = "arrivedDestinationAt"
  \/ slot \in Attempts /\ other \in Attempts /\ Rides(slot, f, other, g)

(* The diary has it in that order, and a trip is begun first.              *)
InTurn(d) ==
  /\ \A m, n \in 1..Len(d) :
       d[m].key = d[n].key /\ Earlier(d[m].slot, d[m].field, d[n].slot, d[n].field)
         => m <= n
  /\ \A n \in 1..Len(d) :
       /\ d[d[n].key[2]].slot = TripSlot
       /\ d[d[n].key[2]].field = "leftHomeAt"

(* What trip t has brought so far.                                         *)
SoFar(d, t) ==
  \A n \in 1..Len(d) : d[n].key = t.key =>
    \/ d[n].slot = TripSlot /\ d[n].field = "leftHomeAt"
    \/ d[n].slot = GpsSlot
    \/ \E p \in DOMAIN Script :
         p <= t.pos /\ d[n].slot = Script[p][1] /\ d[n].field = Script[p][2]
    \/ t.pos = Arrived /\ d[n].slot = TripSlot /\ d[n].field = "arrivedDestinationAt"

(* Instant v is that of a record of this field of trip k.                  *)
Recorded(d, k, slot, f, v) ==
  v \in 1..Len(d) /\ d[v].key = k /\ d[v].slot = slot /\ d[v].field = f

(* A command tells what was recorded; no update tells when its trip began. *)
Honest(d, k, c) ==
  /\ \A slot, f, v : Tells(c, slot, f, v) => Recorded(d, k, slot, f, v)
  /\ c.type = "updateTrip" => c.body.leftHomeAt # k[2]

BoxHonest(d, b) ==
  \A i \in Ids(b) : KeyAt(b, i) \in Keys /\ Honest(d, KeyAt(b, i), b.entries[i].cmd)

RowHonest(d, k, row) ==
  \A slot, f, v : Shows(row, slot, f, v) => Recorded(d, k, slot, f, v)

RowsHonest(d, s) == \A id \in S!Ids(s) : RowHonest(d, RowKey(d, s, id), s.trips[id])

(* The unique index on route and instant, of the rows there are.           *)
Unique(s) ==
  \A i, j \in S!Ids(s) :
    /\ s.trips[i].route = s.trips[j].route
    /\ s.trips[i].fields.leftHomeAt = s.trips[j].fields.leftHomeAt
    => i = j

(* A row that was updated is the one the outbox knows.                     *)
Named(d, s, b) ==
  \A id \in S!Ids(s) :
    LET k == RowKey(d, s, id) IN
      AsCreated(s.trips[id], k) \/ (k \in DOMAIN b.tripIds /\ b.tripIds[k] = id)

OnlyDeletes(b, k) == \A i \in Ids(b) : KeyAt(b, i) = k => TypeAt(b, i) = "deleteTrip"

(* Of a trip the server has deleted no record waits.                       *)
NoneWaits(s, b) ==
  \A k \in DOMAIN b.tripIds : b.tripIds[k] \notin S!Ids(s) => OnlyDeletes(b, k)

(* Entry j brings attempt a of trip k.                                     *)
Brings(b, j, k, a) ==
  /\ KeyAt(b, j) = k /\ TypeAt(b, j) = "upsertAttempt"
  /\ b.entries[j].cmd.attempt = a

HasAttempt(s, b, k, a) ==
  /\ k \in DOMAIN b.tripIds /\ b.tripIds[k] \in S!Ids(s)
  /\ a \in DOMAIN s.trips[b.tripIds[k]].attempts

(* The attempt before that of entry i is on the server, or comes first.    *)
Preceded(s, b, i) ==
  LET a == b.entries[i].cmd.attempt IN
    TypeAt(b, i) = "upsertAttempt" /\ a[2] > 1 =>
      \/ \E j \in Ids(b) : j < i /\ Brings(b, j, KeyAt(b, i), Prev(a))
      \/ HasAttempt(s, b, KeyAt(b, i), Prev(a))

AllPreceded(s, b) == \A i \in Ids(b) : Preceded(s, b, i)

(* The attempts of the trip being recorded are on the server, or queued.   *)
Visited(s, b, t) ==
  t.pos # Arrived =>
    \A p \in DOMAIN Script : p <= t.pos =>
      \/ \E j \in Ids(b) : Brings(b, j, t.key, Script[p][1])
      \/ HasAttempt(s, b, t.key, Script[p][1])

(* A request under way tells what was recorded of the trip of its row; one *)
(* that can delete the row is the last of its trip.                        *)
ReqRight(d, s, b, req, k) ==
  /\ Honest(d, k, req)
  /\ Names(d, s, req.tripId, k)
  /\ req.tripId \in S!Ids(s) =>
       /\ k \in DOMAIN b.tripIds /\ b.tripIds[k] = req.tripId
       /\ req.type = "deleteTrip" => OnlyDeletes(b, k)

(* The request that is awaited is that of its entry, and its answer true.  *)
CallRight(d, s, b, c) ==
  /\ c.req.type # "createTrip" =>
       /\ ReqRight(d, s, b, c.req, c.key)
       /\ c.key \in DOMAIN b.tripIds /\ c.req.tripId = b.tripIds[c.key]
  /\ c.req.type = "upsertAttempt" =>
       /\ c.req.attempt = b.entries[c.id].cmd.attempt
       /\ c.answer = Delivered => HasAttempt(s, b, c.key, c.req.attempt)
  /\ c.req.type = "deleteTrip" /\ c.answer \in {Delivered, NotFound} =>
       c.req.tripId \notin S!Ids(s)
  /\ \A id \in Nat : c.answer = TripCreated(id) => id \in S!Ids(s)
  /\ c.answer \notin {Refused, Unreadable}
  /\ c.answer = NotFound => c.req.type = "deleteTrip"

LateRight(d, s, b, reqs) ==
  \A req \in reqs :
    req.type # "createTrip" =>
      req.tripId \in Nat /\ \E k \in Keys : ReqRight(d, s, b, req, k)

TurnKept ==
  /\ InTurn(diary)
  /\ trip # NoTrip => SoFar(diary, trip) /\ Visited(server, box, trip)
  /\ BoxHonest(diary, box)
  /\ RowsHonest(diary, server) /\ Unique(server) /\ Named(diary, server, box)
  /\ NoneWaits(server, box) /\ CreateOnce(box) /\ HeadsOnly(box)
  /\ AllPreceded(server, box)
  /\ call # NoCall => CallRight(diary, server, box, call)
  /\ LateRight(diary, server, box, late)

(* A longer diary says the same of commands, rows and requests.            *)
LEMMA LaterHonest ==
  ASSUME NEW d, NEW e, Grows(d, e), NEW s, RowsDated(d, s)
  PROVE  /\ \A k, c : Honest(d, k, c) => Honest(e, k, c)
         /\ \A b : BoxHonest(d, b) => BoxHonest(e, b)
         /\ RowsHonest(d, s) => RowsHonest(e, s)
         /\ \A b : Named(d, s, b) => Named(e, s, b)
         /\ \A b, req, k : ReqRight(d, s, b, req, k) => ReqRight(e, s, b, req, k)
<1>1. \A k, slot, f, v : Recorded(d, k, slot, f, v) => Recorded(e, k, slot, f, v)
  BY DEF Grows, Recorded
<1>2. \A id \in S!Ids(s) : RowKey(e, s, id) = RowKey(d, s, id)
  BY LaterKnown
<1>3. \A k, c : Honest(d, k, c) => Honest(e, k, c)
  BY <1>1 DEF Honest
<1>4. \A b : BoxHonest(d, b) => BoxHonest(e, b)
  BY <1>3 DEF BoxHonest
<1>5. \A k, row : RowHonest(d, k, row) => RowHonest(e, k, row)
  BY <1>1 DEF RowHonest
<1>6. RowsHonest(d, s) => RowsHonest(e, s)
  BY <1>2, <1>5 DEF RowsHonest
<1>7. \A b : Named(d, s, b) => Named(e, s, b)
  BY <1>2 DEF Named
<1>8. \A id, k : Names(d, s, id, k) => Names(e, s, id, k)
  BY <1>2 DEF Names
<1>9. \A b, req, k : ReqRight(d, s, b, req, k) => ReqRight(e, s, b, req, k)
  BY <1>3, <1>8 DEF ReqRight
<1> QED BY <1>3, <1>4, <1>6, <1>7, <1>9

(* What the server asks of the times of a row.                             *)
RowInOrder(row) ==
  /\ S!TripOrdered(row)
  /\ \A a \in DOMAIN row.attempts : S!RideOrdered(row.attempts[a])
  /\ \A leg : S!AfterEarlierAttempts(row.attempts, leg)

(* A row that shows what was recorded in turn is in order.                 *)
LEMMA HonestInOrder ==
  ASSUME NEW d \in Seq(Writings), InTurn(d), NEW k, NEW row, RowHonest(d, k, row),
         DOMAIN row.attempts \subseteq Legs \X (Nat \ {0})
  PROVE  RowInOrder(row)
<1>1. ASSUME NEW slot, NEW f, NEW v, NEW other, NEW g, NEW w,
             Shows(row, slot, f, v), Shows(row, other, g, w), Earlier(slot, f, other, g)
      PROVE  v <= w
  <2>1. Recorded(d, k, slot, f, v) /\ Recorded(d, k, other, g, w)
    BY <1>1 DEF RowHonest
  <2> QED BY <1>1, <2>1 DEF Recorded, InTurn
<1>2. ASSUME NEW a \in DOMAIN row.attempts, NEW f \in S!Observed, row.attempts[a][f] # Nil
      PROVE  a \in Attempts /\ Shows(row, a, f, row.attempts[a][f])
  <2>1. Shows(row, a, f, row.attempts[a][f])
    BY <1>2 DEF Shows
  <2>2. PICK n \in 1..Len(d) : d[n].slot = a
    BY <2>1 DEF RowHonest, Recorded
  <2>3. a \in {TripSlot, GpsSlot} \cup Attempts
    BY <2>2, WritingParts
  <2>4. a[2] # 0
    OBVIOUS
  <2> QED BY <2>1, <2>3, <2>4 DEF TripSlot, GpsSlot
<1>3. \A f \in TripFields : row.fields[f] # Nil => Shows(row, TripSlot, f, row.fields[f])
  BY DEF Shows
<1>4. /\ "leftHomeAt" \in TripFields /\ "arrivedDestinationAt" \in TripFields
      /\ "vehicleActualDepartureAt" \in S!Observed /\ "alightedAt" \in S!Observed
  BY DEF TripFields, S!Observed
<1>5. S!Ordered(row.fields.leftHomeAt, row.fields.arrivedDestinationAt)
  <2> SUFFICES ASSUME row.fields.leftHomeAt # Nil, row.fields.arrivedDestinationAt # Nil
               PROVE  row.fields.leftHomeAt <= row.fields.arrivedDestinationAt
    BY DEF S!Ordered
  <2>1. Earlier(TripSlot, "leftHomeAt", TripSlot, "arrivedDestinationAt")
    BY DEF Earlier
  <2> QED BY <1>1, <1>3, <1>4, <2>1
<1>6. ASSUME NEW a \in DOMAIN row.attempts PROVE S!WithinTrip(row, row.attempts[a])
  <2> SUFFICES ASSUME NEW f \in S!Observed, row.attempts[a][f] # Nil
               PROVE  /\ S!Ordered(row.fields.leftHomeAt, row.attempts[a][f])
                      /\ S!Ordered(row.attempts[a][f], row.fields.arrivedDestinationAt)
    BY DEF S!WithinTrip, S!Ordered
  <2>1. a \in Attempts /\ Shows(row, a, f, row.attempts[a][f])
    BY <1>2
  <2>2. /\ Earlier(TripSlot, "leftHomeAt", a, f)
        /\ Earlier(a, f, TripSlot, "arrivedDestinationAt")
    BY <2>1 DEF Earlier
  <2> QED BY <1>1, <1>3, <1>4, <2>1, <2>2 DEF S!Ordered
<1>7. ASSUME NEW a \in DOMAIN row.attempts PROVE S!RideOrdered(row.attempts[a])
  <2> SUFFICES ASSUME row.attempts[a]["vehicleActualDepartureAt"] # Nil,
                      row.attempts[a]["alightedAt"] # Nil
               PROVE  row.attempts[a]["vehicleActualDepartureAt"]
                        <= row.attempts[a]["alightedAt"]
    BY DEF S!RideOrdered, S!Ordered
  <2>1. Rides(a, "vehicleActualDepartureAt", a, "alightedAt")
    BY DEF Rides
  <2>2. /\ a \in Attempts
        /\ Shows(row, a, "vehicleActualDepartureAt", row.attempts[a]["vehicleActualDepartureAt"])
        /\ Shows(row, a, "alightedAt", row.attempts[a]["alightedAt"])
    BY <1>2, <1>4
  <2>3. Earlier(a, "vehicleActualDepartureAt", a, "alightedAt")
    BY <2>1, <2>2 DEF Earlier
  <2> QED BY <1>1, <2>2, <2>3
<1>8. ASSUME NEW leg PROVE S!AfterEarlierAttempts(row.attempts, leg)
  <2> SUFFICES ASSUME NEW a \in DOMAIN row.attempts, NEW e \in DOMAIN row.attempts,
                      a[1] = e[1], a[2] < e[2],
                      row.attempts[a]["vehicleActualDepartureAt"] # Nil,
                      row.attempts[e]["vehicleActualDepartureAt"] # Nil
               PROVE  row.attempts[a]["vehicleActualDepartureAt"]
                        <= row.attempts[e]["vehicleActualDepartureAt"]
    BY DEF S!AfterEarlierAttempts, S!Ordered
  <2>1. Rides(a, "vehicleActualDepartureAt", e, "vehicleActualDepartureAt")
    BY DEF Rides
  <2>2. /\ a \in Attempts /\ e \in Attempts
        /\ Shows(row, a, "vehicleActualDepartureAt", row.attempts[a]["vehicleActualDepartureAt"])
        /\ Shows(row, e, "vehicleActualDepartureAt", row.attempts[e]["vehicleActualDepartureAt"])
    BY <1>2, <1>4
  <2>3. Earlier(a, "vehicleActualDepartureAt", e, "vehicleActualDepartureAt")
    BY <2>1, <2>2 DEF Earlier
  <2> QED BY <1>1, <2>2, <2>3
<1> QED BY <1>5, <1>6, <1>7, <1>8 DEF RowInOrder, S!TripOrdered

(* Whoever is under way with an update finds the row, and is not refused.  *)
LEMMA UpdateInTurn ==
  ASSUME NEW d \in Seq(Writings), InTurn(d), NEW s, IsServer(s), RowsDated(d, s),
         RowsHonest(d, s), Unique(s), NEW b, Named(d, s, b),
         NEW req \in PhoneRequests, req.type = "updateTrip",
         NEW k, ReqRight(d, s, b, req, k), req.tripId \in S!Ids(s),
         NEW t, t = S!Served(s, req).state
  PROVE  /\ S!Served(s, req).outcome = Delivered
         /\ S!Ids(t) = S!Ids(s)
         /\ \A i \in S!Ids(s) \ {req.tripId} : t.trips[i] = s.trips[i]
         /\ t.trips[req.tripId].attempts = s.trips[req.tripId].attempts
         /\ RowHonest(d, k, t.trips[req.tripId])
         /\ Unique(t)
<1> DEFINE id == req.tripId
           old == s.trips[id]
           fields == S!Overlay(old.fields, req.body)
           row == [old EXCEPT !.fields = fields]
           new == [route |-> old.route, tripDate |-> old.tripDate,
                   fields |-> fields, attempts |-> old.attempts]
<1>1. /\ S!IsTrip(old) /\ RowKey(d, s, id) = k /\ RowHonest(d, k, old)
      /\ Honest(d, k, req) /\ k \in DOMAIN b.tripIds /\ b.tripIds[k] = id
  BY DEF IsServer, ReqRight, Names, RowsHonest
<1>2. row = new
  BY <1>1 DEF S!IsTrip
<1>3. DOMAIN old.attempts \subseteq Legs \X (Nat \ {0})
  <2>1. DOMAIN old.attempts \subseteq Legs \X {a[2] : a \in Attempts}
    BY <1>1 DEF S!IsTrip
  <2>2. \A a \in Attempts : a[2] \in Nat \ {0}
    BY OutboxSystemAssumption
  <2> QED BY <2>1, <2>2
<1>4. RowHonest(d, k, new)
  <2>1. Took(old, new, req)
    BY <1>1, UpdateTook
  <2> HIDE DEF new, old
  <2> QED BY <1>1, <2>1 DEF Took, RowHonest, Honest
<1>5. RowInOrder(new)
  <2>1. new.attempts = old.attempts
    OBVIOUS
  <2> HIDE DEF new
  <2> QED BY <1>3, <1>4, <2>1, HonestInOrder
<1>6. ASSUME NEW i \in S!Ids(s) \ {id}, s.trips[i].route = old.route,
             s.trips[i].fields.leftHomeAt = fields.leftHomeAt
      PROVE  FALSE
  <2>1. /\ old.fields \in TripBodies /\ DOMAIN old.fields = TripFields
        /\ "leftHomeAt" \in TripFields
    BY <1>1, SameBodies DEF S!IsTrip, S!TripBodies, S!TripFields, TripFields
  <2>2. fields.leftHomeAt = IF req.body.leftHomeAt # Nil THEN req.body.leftHomeAt
                            ELSE old.fields.leftHomeAt
    BY <2>1 DEF S!Overlay
  <2>3. CASE req.body.leftHomeAt = Nil
    BY <1>6, <2>2, <2>3 DEF Unique
  <2>4. CASE req.body.leftHomeAt # Nil
    <3>1. Tells(req, TripSlot, "leftHomeAt", req.body.leftHomeAt)
      BY <2>1, <2>4 DEF Tells
    <3>2. d[req.body.leftHomeAt].key = k
      BY <1>1, <3>1 DEF Honest, Recorded
    <3>3. RowKey(d, s, i) = k
      BY <1>6, <2>2, <2>4, <3>2 DEF RowKey
    <3>4. s.trips[i].fields.leftHomeAt # k[2]
      BY <1>1, <1>6, <2>2, <2>4 DEF Honest
    <3> QED BY <1>1, <1>6, <3>3, <3>4 DEF Named, AsCreated
  <2> QED BY <2>3, <2>4
<1>7. ~ \E i \in S!Ids(s) \ {id} : S!HasKey(s.trips[i], row.route, row.fields.leftHomeAt)
  BY <1>2, <1>6 DEF S!HasKey
<1>8. S!TripOrdered(row)
  BY <1>2, <1>5 DEF RowInOrder
<1>9. /\ S!Served(s, req).outcome = Delivered
      /\ S!Ids(t) = S!Ids(s)
      /\ t.trips[id] = new
      /\ \A i \in S!Ids(s) \ {id} : t.trips[i] = s.trips[i]
  <2>1. \/ /\ id \notin S!Ids(s)
           /\ t = s
           /\ S!Served(s, req).outcome = NotFound
        \/ /\ id \in S!Ids(s)
           /\ t = s
           /\ S!Served(s, req).outcome = Refused
           /\ \/ ~S!TripOrdered(row)
              \/ \E i \in S!Ids(s) \ {id} :
                   S!HasKey(s.trips[i], row.route, row.fields.leftHomeAt)
        \/ /\ id \in S!Ids(s)
           /\ S!Served(s, req).outcome = Delivered
           /\ t = [trips |-> t.trips, gps |-> s.gps, lastId |-> s.lastId]
           /\ S!Ids(t) = S!Ids(s)
           /\ t.trips = [i \in S!Ids(t) |-> t.trips[i]]
           /\ t.trips[id] = new
           /\ \A i \in S!Ids(s) \ {id} : t.trips[i] = s.trips[i]
    BY UpdateParts
  <2> HIDE DEF row, new
  <2> QED BY <1>7, <1>8, <2>1
<1>10. Unique(t)
  <2> SUFFICES ASSUME NEW i \in S!Ids(s), NEW j \in S!Ids(s), i # j,
                      t.trips[i].route = t.trips[j].route,
                      t.trips[i].fields.leftHomeAt = t.trips[j].fields.leftHomeAt
               PROVE  FALSE
    BY <1>9 DEF Unique
  <2>1. new.route = old.route /\ new.fields = fields
    OBVIOUS
  <2>2. CASE i = id
    BY <1>6, <1>9, <2>1, <2>2
  <2>3. CASE j = id
    BY <1>6, <1>9, <2>1, <2>3
  <2>4. CASE i # id /\ j # id
    BY <1>9, <2>4 DEF Unique
  <2> QED BY <2>2, <2>3, <2>4
<1> QED BY <1>4, <1>9, <1>10

(* What an upsert leaves of the rows.                                      *)
AttemptTaken(d, s, t, id, k) ==
  /\ S!Ids(t) = S!Ids(s)
  /\ \A i \in S!Ids(s) \ {id} : t.trips[i] = s.trips[i]
  /\ DOMAIN s.trips[id].attempts \subseteq DOMAIN t.trips[id].attempts
  /\ t.trips[id].route = s.trips[id].route
  /\ t.trips[id].fields = s.trips[id].fields
  /\ RowHonest(d, k, t.trips[id])

(* Nor is an upsert whose row is there, if the attempt before it is.       *)
LEMMA UpsertInTurn ==
  ASSUME NEW d \in Seq(Writings), InTurn(d), NEW s, IsServer(s), RowsHonest(d, s),
         Unique(s), NEW b, NEW req \in PhoneRequests, req.type = "upsertAttempt",
         NEW k, ReqRight(d, s, b, req, k), req.tripId \in S!Ids(s),
         NEW t, t = S!Served(s, req).state
  PROVE  /\ /\ ScriptInTurn
            /\ req.attempt[2] > 1 =>
                 Prev(req.attempt) \in DOMAIN s.trips[req.tripId].attempts
            => S!Served(s, req).outcome = Delivered
         /\ S!Served(s, req).outcome = Delivered =>
              req.attempt \in DOMAIN t.trips[req.tripId].attempts
         /\ AttemptTaken(d, s, t, req.tripId, k)
<1> DEFINE id == req.tripId
           a == req.attempt
           old == s.trips[id]
           new == t.trips[id]
           made == Upserted(old.attempts, a, req.body)
           row == [route |-> old.route, tripDate |-> old.tripDate,
                   fields |-> old.fields, attempts |-> made]
<1>1. /\ S!IsTrip(old) /\ RowKey(d, s, id) = k /\ RowHonest(d, k, old)
      /\ Honest(d, k, req)
  BY DEF IsServer, ReqRight, Names, RowsHonest
<1>2. a \in Attempts /\ a \in Legs \X (Nat \ {0}) /\ req.body \in S!AttemptBodies
  BY OutboxSystemAssumption, SameBodies DEF PhoneRequests
<1>3. /\ DOMAIN old.attempts \subseteq Legs \X (Nat \ {0})
      /\ old.attempts \in [DOMAIN old.attempts -> S!AttemptBodies]
  <2>1. DOMAIN old.attempts \subseteq Legs \X {e[2] : e \in Attempts}
    BY <1>1 DEF S!IsTrip
  <2>2. \A e \in Attempts : e[2] \in Nat \ {0}
    BY OutboxSystemAssumption
  <2> QED BY <1>1, <2>1, <2>2 DEF S!IsTrip
<1>4. DOMAIN made = DOMAIN old.attempts \cup {a} /\ Attempted(made, made)
  <2>1. made \in [DOMAIN made -> S!AttemptBodies]
    <3>1. S!BlankAttempt \in S!AttemptBodies
      BY DEF S!BlankAttempt, S!AttemptBodies
    <3>2. Before(old.attempts, a) \in S!AttemptBodies
      BY <1>3, <3>1 DEF Before
    <3>3. S!Overlay(Before(old.attempts, a), req.body) \in S!AttemptBodies
      BY <1>2, <3>2 DEF S!Overlay, S!AttemptBodies
    <3> QED BY <1>3, <3>3 DEF Upserted
  <2>2. DOMAIN made = DOMAIN old.attempts \cup {a}
    BY DEF Upserted
  <2> HIDE DEF made
  <2> QED BY <2>1, <2>2 DEF Attempted
<1>5. row.fields = old.fields /\ row.attempts = made
  OBVIOUS
<1> HIDE DEF made, row
<1>6. RowHonest(d, k, row)
  <2>1. Took(old, row, req)
    BY <1>1, <1>4, <1>5, UpsertTook DEF made
  <2> QED BY <1>1, <2>1 DEF Took, RowHonest, Honest
<1>7. RowInOrder(row)
  <2>1. DOMAIN row.attempts \subseteq Legs \X (Nat \ {0})
    BY <1>2, <1>3, <1>4, <1>5
  <2> QED BY <1>6, <2>1, HonestInOrder
<1>8. ScriptInTurn /\ (a[2] > 1 => Prev(a) \in DOMAIN old.attempts) => Accepts(old, a, req.body)
  <2> SUFFICES ASSUME ScriptInTurn, a[2] > 1 => Prev(a) \in DOMAIN old.attempts
               PROVE  Accepts(old, a, req.body)
    OBVIOUS
  <2>1. made[a] = S!Overlay(Before(old.attempts, a), req.body)
    BY DEF made, Upserted
  <2>2. a \in DOMAIN row.attempts /\ row.attempts[a] = made[a]
    BY <1>4, <1>5
  <2>3. S!RideOrdered(made[a]) /\ S!WithinTrip(row, made[a])
        /\ S!AfterEarlierAttempts(made, a[1])
    BY <1>5, <1>7, <2>2 DEF RowInOrder, S!TripOrdered
  <2>4. S!WithinTrip(old, made[a])
    BY <1>5, <2>3 DEF S!WithinTrip
  <2>5. a[2] > 1 => ~S!SkipsAhead(old.attempts, a)
    <3> SUFFICES ASSUME a[2] > 1 PROVE ~S!SkipsAhead(old.attempts, a)
      OBVIOUS
    <3>1. a[2] - 1 \in S!SeqsOf(old.attempts, a[1])
      BY DEF S!SeqsOf, Prev
    <3>2. a[2] \in Nat
      BY <1>2
    <3> QED BY <3>1, <3>2 DEF S!SkipsAhead
  <2>6. RouteOf[a[1]] = old.route
    <3>1. old.route \in Routes /\ RouteOf[a[1]] \in Routes
      BY <1>1, <1>2, OutboxSystemAssumption DEF S!IsTrip
    <3> QED BY <3>1 DEF ScriptInTurn
  <2> QED BY <1>2, <2>1, <2>3, <2>4, <2>5, <2>6 DEF Accepts, made
<1>9. \/ /\ t = s
         /\ S!Served(s, req).outcome = Refused
         /\ ~Accepts(old, a, req.body)
      \/ /\ S!Served(s, req).outcome = Delivered
         /\ S!Ids(t) = S!Ids(s)
         /\ \A i \in S!Ids(s) \ {id} : t.trips[i] = s.trips[i]
         /\ new.route = old.route /\ new.fields = old.fields
         /\ Attempted(made, new.attempts)
  <2>1. \/ /\ id \notin S!Ids(s)
           /\ t = s
           /\ S!Served(s, req).outcome = NotFound
        \/ /\ id \in S!Ids(s)
           /\ t = s
           /\ S!Served(s, req).outcome = Refused
           /\ ~Accepts(old, a, req.body)
        \/ /\ id \in S!Ids(s)
           /\ S!Served(s, req).outcome = Delivered
           /\ t = [trips |-> t.trips, gps |-> s.gps, lastId |-> s.lastId]
           /\ S!Ids(t) = S!Ids(s)
           /\ t.trips = [i \in S!Ids(t) |-> t.trips[i]]
           /\ \A i \in S!Ids(s) \ {id} : t.trips[i] = s.trips[i]
           /\ new = [route |-> old.route, tripDate |-> old.tripDate,
                     fields |-> old.fields, attempts |-> new.attempts]
           /\ a[1] \in Legs
           /\ Attempted(made, new.attempts)
    BY UpsertParts DEF made
  <2> QED BY <2>1
<1>10. CASE t = s /\ S!Served(s, req).outcome = Refused /\ ~Accepts(old, a, req.body)
  <2>1. S!Served(s, req).outcome # Delivered
    BY <1>10 DEF Refused, Delivered
  <2> QED BY <1>1, <1>8, <1>10, <2>1 DEF AttemptTaken
<1>11. CASE /\ S!Served(s, req).outcome = Delivered
            /\ S!Ids(t) = S!Ids(s)
            /\ \A i \in S!Ids(s) \ {id} : t.trips[i] = s.trips[i]
            /\ new.route = old.route /\ new.fields = old.fields
            /\ Attempted(made, new.attempts)
  <2>1. DOMAIN new.attempts = DOMAIN old.attempts \cup {a}
    BY <1>4, <1>11 DEF Attempted
  <2>2. RowHonest(d, k, new)
    <3>1. Took(old, new, req)
      BY <1>1, <1>11, UpsertTook DEF made
    <3> QED BY <1>1, <3>1 DEF Took, RowHonest, Honest
  <2> QED BY <1>11, <2>1, <2>2 DEF AttemptTaken
<1> QED BY <1>9, <1>10, <1>11

(* What the server does with a request: rows keep their attempts, and one  *)
(* goes only when the outbox wants nothing of it any more.                 *)
Goes(d, s, t, b) ==
  \A id \in S!Ids(s) :
    IF id \in S!Ids(t)
    THEN DOMAIN s.trips[id].attempts \subseteq DOMAIN t.trips[id].attempts
    ELSE LET k == RowKey(d, s, id) IN
         k \in DOMAIN b.tripIds /\ b.tripIds[k] = id /\ OnlyDeletes(b, k)

(* A create makes a row that shows when the trip was begun.                *)
LEMMA CreateInTurn ==
  ASSUME NEW d, InTurn(d), NEW s, IsServer(s), RowsHonest(d, s), Unique(s),
         NEW b, Named(d, s, b), NEW req \in PhoneRequests, req.type = "createTrip",
         Fits(d, s, b, req), NEW t, t = S!Served(s, req).state
  PROVE  RowsHonest(d, t) /\ Unique(t) /\ Named(d, t, b) /\ Goes(d, s, t, b)
<1> DEFINE id == s.lastId + 1
           k == <<req.route, req.leftHomeAt>>
<1>1. k \in Keys /\ req.leftHomeAt \in 1..Len(d) /\ d[req.leftHomeAt].key = k
  BY DEF Fits, Known
<1>2. Recorded(d, k, TripSlot, "leftHomeAt", req.leftHomeAt)
  BY <1>1 DEF InTurn, Recorded
<1>3. \/ t = s
      \/ /\ S!SameKey(s, req) = {}
         /\ S!Ids(t) = S!Ids(s) \cup {id}
         /\ t.trips[id] = S!NewTrip(req)
         /\ \A i \in S!Ids(s) : i # id /\ t.trips[i] = s.trips[i]
  <2>1. \/ /\ t = s
           /\ \E i \in S!SameKey(s, req) :
                S!Served(s, req).outcome =
                  IF s.trips[i].tripDate = Today THEN TripCreated(i) ELSE Refused
        \/ /\ S!SameKey(s, req) = {}
           /\ S!Served(s, req).outcome = TripCreated(id)
           /\ t = [trips |-> t.trips, gps |-> s.gps, lastId |-> id]
           /\ S!Ids(t) = S!Ids(s) \cup {id}
           /\ t.trips = [i \in S!Ids(t) |-> t.trips[i]]
           /\ t.trips[id] = S!NewTrip(req)
           /\ \A i \in S!Ids(s) : i # id /\ t.trips[i] = s.trips[i]
    BY CreateParts
  <2> QED BY <2>1
<1>4. CASE t = s
  BY <1>4 DEF Goes
<1>5. CASE /\ S!SameKey(s, req) = {}
           /\ S!Ids(t) = S!Ids(s) \cup {id}
           /\ t.trips[id] = S!NewTrip(req)
           /\ \A i \in S!Ids(s) : i # id /\ t.trips[i] = s.trips[i]
  <2>1. /\ t.trips[id].route = req.route
        /\ \A f \in TripFields :
             t.trips[id].fields[f] = IF f = "leftHomeAt" THEN req.leftHomeAt ELSE Nil
        /\ t.trips[id].attempts = << >>
    BY <1>5, SameBodies DEF S!NewTrip
  <2>2. t.trips[id].fields.leftHomeAt = req.leftHomeAt
    BY <2>1 DEF TripFields
  <2>3. RowKey(d, t, id) = k /\ AsCreated(t.trips[id], k)
    BY <1>1, <2>1, <2>2 DEF RowKey, AsCreated
  <2>4. \A i \in S!Ids(s) : t.trips[i] = s.trips[i] /\ RowKey(d, t, i) = RowKey(d, s, i)
    BY <1>5 DEF RowKey
  <2>5. RowHonest(d, k, t.trips[id])
    <3> SUFFICES ASSUME NEW slot, NEW f, NEW v, Shows(t.trips[id], slot, f, v)
                 PROVE  Recorded(d, k, slot, f, v)
      BY DEF RowHonest
    <3>1. slot = TripSlot /\ f \in TripFields /\ v = t.trips[id].fields[f] /\ v # Nil
      BY <2>1 DEF Shows
    <3>2. f = "leftHomeAt" /\ v = req.leftHomeAt
      BY <2>1, <3>1
    <3> QED BY <1>2, <3>1, <3>2
  <2>6. RowsHonest(d, t)
    BY <1>5, <2>3, <2>4, <2>5 DEF RowsHonest
  <2>7. Named(d, t, b)
    BY <1>5, <2>3, <2>4 DEF Named
  <2>8. \A i \in S!Ids(s) :
          ~(s.trips[i].route = req.route /\ s.trips[i].fields.leftHomeAt = req.leftHomeAt)
    <3> SUFFICES ASSUME NEW i \in S!Ids(s), s.trips[i].route = req.route,
                        s.trips[i].fields.leftHomeAt = req.leftHomeAt
                 PROVE  i \in S!SameKey(s, req)
      BY <1>5
    <3>1. req.leftHomeAt # Nil
      BY <1>1, OutboxSystemAssumption
    <3> QED BY <3>1 DEF S!SameKey, S!HasKey
  <2>9. Unique(t)
    <3> SUFFICES ASSUME NEW i \in S!Ids(t), NEW j \in S!Ids(t), i # j,
                        t.trips[i].route = t.trips[j].route,
                        t.trips[i].fields.leftHomeAt = t.trips[j].fields.leftHomeAt
                 PROVE  FALSE
      BY DEF Unique
    <3>1. CASE i = id
      BY <1>5, <2>1, <2>2, <2>8, <3>1
    <3>2. CASE j = id
      BY <1>5, <2>1, <2>2, <2>8, <3>2
    <3>3. CASE i # id /\ j # id
      BY <1>5, <3>3 DEF Unique
    <3> QED BY <3>1, <3>2, <3>3
  <2>10. Goes(d, s, t, b)
    BY <1>5, <2>4 DEF Goes
  <2> QED BY <2>6, <2>7, <2>9, <2>10
<1> QED BY <1>3, <1>4, <1>5

(* And nothing else puts a row out of order.                               *)
LEMMA ServedInTurn ==
  ASSUME NEW d \in Seq(Writings), InTurn(d), NEW s, IsServer(s), RowsDated(d, s),
         RowsHonest(d, s), Unique(s), NEW b, Named(d, s, b),
         NEW req \in PhoneRequests, Fits(d, s, b, req),
         req.type # "createTrip" => \E k \in Keys : ReqRight(d, s, b, req, k),
         NEW t, t = S!Served(s, req).state
  PROVE  RowsHonest(d, t) /\ Unique(t) /\ Named(d, t, b) /\ Goes(d, s, t, b)
<1>1. CASE req.type = "createTrip"
  BY <1>1, CreateInTurn
<1>2. CASE req.type # "createTrip"
  <2> DEFINE id == req.tripId
  <2>1. PICK k \in Keys : ReqRight(d, s, b, req, k)
    BY <1>2
  <2>2. Len(d) \in Nat
    OBVIOUS
  <2>3. /\ S!Ids(t) = IF req.type = "deleteTrip" THEN S!Ids(s) \ {id} ELSE S!Ids(s)
        /\ \A r \in S!Ids(t) : RowKey(d, t, r) = RowKey(d, s, r)
        /\ \A r \in S!Ids(t) : r # id => t.trips[r] = s.trips[r]
    <3>1. OneRowTouched(d, s, t, req)
      BY <1>2, <2>2, PlainServed
    <3> QED BY <3>1 DEF OneRowTouched
  <2>4. id \in S!Ids(s) =>
          /\ RowKey(d, s, id) = k /\ k \in DOMAIN b.tripIds /\ b.tripIds[k] = id
          /\ req.type = "deleteTrip" => OnlyDeletes(b, k)
    BY <2>1 DEF ReqRight, Names
  <2>5. req.type \in {"updateTrip", "upsertAttempt", "uploadGps", "deleteTrip"}
    BY <1>2 DEF PhoneRequests
  <2>6. \A r \in S!Ids(t) : r \in S!Ids(s)
    BY <2>3
  <2>7. \/ /\ \A r \in S!Ids(t) : t.trips[r] = s.trips[r]
           /\ Unique(t)
        \/ /\ id \in S!Ids(s) /\ id \in S!Ids(t)
           /\ RowHonest(d, k, t.trips[id])
           /\ DOMAIN s.trips[id].attempts \subseteq DOMAIN t.trips[id].attempts
           /\ Unique(t)
    <3>1. ASSUME \A r \in S!Ids(t) : t.trips[r] = s.trips[r] PROVE Unique(t)
      BY <2>6, <3>1 DEF Unique
    <3>2. CASE id \notin S!Ids(s) \/ req.type = "deleteTrip"
      BY <2>3, <3>1, <3>2
    <3>3. CASE id \in S!Ids(s) /\ req.type = "updateTrip"
      <4>1. /\ t.trips[id].attempts = s.trips[id].attempts
            /\ RowHonest(d, k, t.trips[id])
            /\ Unique(t)
        BY <2>1, <3>3, UpdateInTurn
      <4> QED BY <2>3, <3>3, <4>1
    <3>4. CASE id \in S!Ids(s) /\ req.type = "upsertAttempt"
      <4>1. /\ DOMAIN s.trips[id].attempts \subseteq DOMAIN t.trips[id].attempts
            /\ t.trips[id].route = s.trips[id].route
            /\ t.trips[id].fields = s.trips[id].fields
            /\ RowHonest(d, k, t.trips[id])
        <5>1. AttemptTaken(d, s, t, id, k)
          BY <2>1, <3>4, UpsertInTurn
        <5> QED BY <5>1 DEF AttemptTaken
      <4>2. \A r \in S!Ids(t) : /\ t.trips[r].route = s.trips[r].route
                                /\ t.trips[r].fields = s.trips[r].fields
        BY <2>3, <4>1
      <4>3. Unique(t)
        BY <2>6, <4>2 DEF Unique
      <4> QED BY <2>3, <3>4, <4>1, <4>3
    <3>5. CASE req.type = "uploadGps"
      <4>1. t = s \/ t = [trips |-> s.trips, gps |-> t.gps, lastId |-> s.lastId]
        BY <3>5, GpsParts
      <4>2. t.trips = s.trips
        BY <4>1
      <4> QED BY <3>1, <4>2
    <3> QED BY <2>5, <3>2, <3>3, <3>4, <3>5
  <2>8. ASSUME NEW r \in S!Ids(t)
        PROVE  /\ r \in S!Ids(s)
               /\ RowHonest(d, RowKey(d, t, r), t.trips[r])
               /\ LET x == RowKey(d, t, r) IN
                    AsCreated(t.trips[r], x) \/ (x \in DOMAIN b.tripIds /\ b.tripIds[x] = r)
               /\ DOMAIN s.trips[r].attempts \subseteq DOMAIN t.trips[r].attempts
    <3>1. r \in S!Ids(s) /\ RowKey(d, t, r) = RowKey(d, s, r)
      BY <2>3, <2>6
    <3>2. CASE t.trips[r] = s.trips[r]
      BY <3>1, <3>2 DEF RowsHonest, Named
    <3>3. CASE t.trips[r] # s.trips[r]
      <4>1. /\ r = id /\ id \in S!Ids(s)
            /\ RowHonest(d, k, t.trips[id])
            /\ DOMAIN s.trips[id].attempts \subseteq DOMAIN t.trips[id].attempts
        BY <2>3, <2>7, <3>3
      <4> QED BY <2>4, <3>1, <4>1
    <3> QED BY <3>2, <3>3
  <2>9. Goes(d, s, t, b)
    BY <2>3, <2>4, <2>8 DEF Goes
  <2> QED BY <2>7, <2>8, <2>9 DEF RowsHonest, Named
<1> QED BY <1>1, <1>2

(* What goes on when the server goes on so.                                *)
LEMMA GoesOn ==
  ASSUME NEW d, NEW s, NEW t, NEW r, NEW b, IsServer(s), IsServer(t),
         Evolves(d, s, t, b), Goes(d, s, t, b), IdsRight(d, s, r, b)
  PROVE  /\ \A k, a : HasAttempt(s, b, k, a) => HasAttempt(t, b, k, a) \/ OnlyDeletes(b, k)
         /\ NoneWaits(s, b) => NoneWaits(t, b)
         /\ AllPreceded(s, b) => AllPreceded(t, b)
         /\ \A k, req : ReqRight(d, s, b, req, k) /\ req.tripId \in Int
                          => ReqRight(d, t, b, req, k)
<1>1. ASSUME NEW k \in DOMAIN b.tripIds, b.tripIds[k] \in S!Ids(s),
             b.tripIds[k] \notin S!Ids(t)
      PROVE  OnlyDeletes(b, k)
  <2>1. RowKey(d, s, b.tripIds[k]) = k
    BY <1>1 DEF IdsRight, RightId, Names
  <2> QED BY <1>1, <2>1 DEF Goes
<1>2. ASSUME NEW k, NEW a, HasAttempt(s, b, k, a)
      PROVE  HasAttempt(t, b, k, a) \/ OnlyDeletes(b, k)
  <2>1. /\ k \in DOMAIN b.tripIds /\ b.tripIds[k] \in S!Ids(s)
        /\ a \in DOMAIN s.trips[b.tripIds[k]].attempts
    BY <1>2 DEF HasAttempt
  <2>2. CASE b.tripIds[k] \in S!Ids(t)
    BY <2>1, <2>2 DEF Goes, HasAttempt
  <2> QED BY <1>1, <2>1, <2>2
<1>3. NoneWaits(s, b) => NoneWaits(t, b)
  BY <1>1 DEF NoneWaits
<1>4. AllPreceded(s, b) => AllPreceded(t, b)
  <2> SUFFICES ASSUME NEW i \in Ids(b), Preceded(s, b, i) PROVE Preceded(t, b, i)
    BY DEF AllPreceded
  <2>1. TypeAt(b, i) = "upsertAttempt" => ~OnlyDeletes(b, KeyAt(b, i))
    BY DEF OnlyDeletes
  <2> QED BY <1>2, <2>1 DEF Preceded
<1>5. ASSUME NEW k, NEW req, ReqRight(d, s, b, req, k), req.tripId \in Int
      PROVE  ReqRight(d, t, b, req, k)
  <2>1. Names(d, t, req.tripId, k)
    BY <1>5, ServerStep DEF ReqRight
  <2>2. req.tripId \in S!Ids(t) => req.tripId \in S!Ids(s)
    BY <1>5 DEF ReqRight, Names, Evolves
  <2> QED BY <1>5, <2>1, <2>2 DEF ReqRight
<1> QED BY <1>2, <1>3, <1>4, <1>5

-----------------------------------------------------------------------------
(* The diary goes on in turn. *)

(* How far the trip is when a command is issued: t before, u after it.     *)
Follows(t, u, cmd, slot, field) ==
  \/ cmd.type = "createTrip" /\ u.pos = 0
  \/ cmd.type = "updateTrip" /\ field = "leftHomeAt" /\ t.pos = 0 /\ u = t
  \/ /\ cmd.type = "updateTrip" /\ field = "arrivedDestinationAt"
     /\ t.pos # Arrived /\ u.pos = Arrived
  \/ cmd.type = "uploadGps" /\ u = t
  \/ /\ cmd.type = "upsertAttempt"
     /\ \E pos \in DOMAIN Script :
          /\ pos > t.pos /\ u.pos = pos
          /\ slot = Script[pos][1] /\ field = Script[pos][2]
          /\ \A j \in (t.pos + 1)..(pos - 1) :
               \/ Script[j][1] = Script[pos][1]
               \/ t.pos > 0 /\ Script[j][1] = Script[t.pos][1]

(* Which step it is, is told by what it writes.                            *)
LEMMA IssuedFollows ==
  ASSUME RecorderTyped, Record, NEW cmd, NEW key, NEW slot, NEW field,
         Issues(cmd, key, slot, field)
  PROVE  Follows(trip, trip', cmd, slot, field)
<1>1. /\ Writes(key, slot, field)
      /\ cmd.type \in {"createTrip", "updateTrip", "upsertAttempt", "uploadGps"}
      /\ slot \in {TripSlot, GpsSlot} \cup Attempts
      /\ cmd.type = "createTrip" => trip = NoTrip
      /\ cmd.type # "createTrip" => trip # NoTrip
      /\ cmd.type = "updateTrip" => slot = TripSlot
      /\ cmd.type = "upsertAttempt" => slot \in Attempts
      /\ cmd.type = "uploadGps" => slot = GpsSlot
  BY CommandParts DEF Issues, IsDelete
<1>2. diary \in Seq(Writings) /\ Len(diary) \in Nat
  BY DEF RecorderTyped
<1>3. ASSUME NEW k, NEW s, NEW f,
             diary' = Append(diary, [key |-> k, slot |-> s, field |-> f])
      PROVE  slot = s /\ field = f
  <2>1. diary' = Append(diary, [key |-> key, slot |-> slot, field |-> field])
    BY <1>1 DEF Writes
  <2> DEFINE x == [key |-> key, slot |-> slot, field |-> field]
             y == [key |-> k, slot |-> s, field |-> f]
  <2>2. Append(diary, x) = Append(diary, y)
    BY <1>3, <2>1
  <2>3. Append(diary, x)[Len(diary) + 1] = x /\ Append(diary, y)[Len(diary) + 1] = y
    <3> HIDE DEF x, y
    <3> QED BY <1>2
  <2>4. x = y
    BY <2>2, <2>3
  <2>5. x.slot = slot /\ x.field = field /\ y.slot = s /\ y.field = f
    OBVIOUS
  <2> HIDE DEF x, y
  <2> QED BY <2>4, <2>5
<1>4. diary' # diary
  <2>1. Len(diary') = Len(diary) + 1
    BY <1>1, <1>2 DEF Writes
  <2> QED BY <1>2, <2>1
<1>5. ~(EndTrip \/ CancelTrip \/ NothingToRecord \/ PersistRecorder)
  BY <1>4 DEF EndTrip, CancelTrip, NothingToRecord, PersistRecorder, historyVars
<1>6. ASSUME NEW route, StartTrip(route) PROVE Follows(trip, trip', cmd, slot, field)
  <2>1. trip = NoTrip /\ trip'.pos = 0
    BY <1>6 DEF StartTrip
  <2> QED BY <1>1, <2>1 DEF Follows
<1>7. CASE LeaveAgain
  <2>1. /\ trip # NoTrip /\ trip.pos = 0 /\ trip' = trip
        /\ diary' = Append(diary, [key |-> trip.key, slot |-> TripSlot,
                                   field |-> "leftHomeAt"])
    BY <1>7 DEF LeaveAgain, Writes
  <2>2. slot = TripSlot /\ field = "leftHomeAt"
    BY <1>3, <2>1
  <2> QED BY <1>1, <2>1, <2>2, SlotsApart DEF Follows
<1>8. CASE Arrive
  <2>1. /\ trip # NoTrip /\ trip.pos # Arrived /\ trip' = [trip EXCEPT !.pos = Arrived]
        /\ diary' = Append(diary, [key |-> trip.key, slot |-> TripSlot,
                                   field |-> "arrivedDestinationAt"])
    BY <1>8 DEF Arrive, Writes
  <2>2. slot = TripSlot /\ field = "arrivedDestinationAt"
    BY <1>3, <2>1
  <2>3. trip'.pos = Arrived
    BY <2>1 DEF RecorderTyped, Trips
  <2> QED BY <1>1, <2>1, <2>2, <2>3, SlotsApart DEF Follows
<1>9. CASE FlushGps
  <2>1. /\ trip # NoTrip /\ trip' = trip
        /\ diary' = Append(diary, [key |-> trip.key, slot |-> GpsSlot,
                                   field |-> "point"])
    BY <1>9 DEF FlushGps, Writes
  <2>2. slot = GpsSlot
    BY <1>3, <2>1
  <2> QED BY <1>1, <2>1, <2>2, SlotsApart DEF Follows
<1>10. ASSUME NEW pos \in DOMAIN Script, RecordAttempt(pos)
       PROVE  Follows(trip, trip', cmd, slot, field)
  <2>1. /\ trip # NoTrip /\ pos > trip.pos /\ trip' = [trip EXCEPT !.pos = pos]
        /\ diary' = Append(diary, [key |-> trip.key, slot |-> Script[pos][1],
                                   field |-> Script[pos][2]])
        /\ \A j \in (trip.pos + 1)..(pos - 1) :
             \/ Script[j][1] = Script[pos][1]
             \/ trip.pos > 0 /\ Script[j][1] = Script[trip.pos][1]
    BY <1>10 DEF RecordAttempt, Writes
  <2>2. slot = Script[pos][1] /\ field = Script[pos][2]
    BY <1>3, <2>1
  <2>3. trip'.pos = pos
    BY <2>1 DEF RecorderTyped, Trips
  <2>4. Script[pos][1] \in Attempts
    BY OutboxSystemAssumption
  <2>5. cmd.type = "upsertAttempt"
    BY <1>1, <2>1, <2>2, <2>4, SlotsApart
  <2> QED BY <2>1, <2>2, <2>3, <2>5 DEF Follows
<1> QED BY <1>5, <1>6, <1>7, <1>8, <1>9, <1>10 DEF Record

(* One more record, e after d.                                             *)
OneMore(d, e, k, slot, f) ==
  /\ Grows(d, e) /\ Len(e) = Len(d) + 1
  /\ e[Len(e)].key = k /\ e[Len(e)].slot = slot /\ e[Len(e)].field = f

(* It keeps the diary in turn when nothing that must come after it is there*)
LEMMA DiaryStaysInTurn ==
  ASSUME NEW d, NEW e, DiaryKnown(d), InTurn(d),
         NEW k, NEW slot, NEW f, OneMore(d, e, k, slot, f),
         \/ k[2] = Len(e) /\ slot = TripSlot /\ f = "leftHomeAt"
         \/ Known(d, k),
         \A n \in 1..Len(d) : d[n].key = k => ~Earlier(slot, f, d[n].slot, d[n].field)
  PROVE  InTurn(e)
<1>1. /\ Len(d) \in Nat /\ Len(e) = Len(d) + 1
      /\ \A n \in 1..Len(d) : e[n] = d[n]
      /\ e[Len(e)].key = k /\ e[Len(e)].slot = slot /\ e[Len(e)].field = f
  BY DEF OneMore, Grows
<1>2. ASSUME NEW m \in 1..Len(e), NEW n \in 1..Len(e), e[m].key = e[n].key,
             Earlier(e[m].slot, e[m].field, e[n].slot, e[n].field)
      PROVE  m <= n
  <2>1. CASE m \in 1..Len(d) /\ n \in 1..Len(d)
    BY <1>1, <1>2, <2>1 DEF InTurn
  <2>2. CASE n = Len(e)
    BY <1>1, <2>2
  <2>3. CASE m = Len(e) /\ n \in 1..Len(d)
    BY <1>1, <1>2, <2>3
  <2> QED BY <1>1, <2>1, <2>2, <2>3
<1>3. ASSUME NEW n \in 1..Len(e)
      PROVE  e[e[n].key[2]].slot = TripSlot /\ e[e[n].key[2]].field = "leftHomeAt"
  <2>1. ASSUME NEW x, Known(d, x)
        PROVE  e[x[2]].slot = TripSlot /\ e[x[2]].field = "leftHomeAt"
    <3>1. x[2] \in 1..Len(d) /\ d[x[2]].key = x
      BY <2>1 DEF Known
    <3> QED BY <1>1, <3>1 DEF InTurn
  <2>2. CASE n \in 1..Len(d)
    <3>1. Known(d, e[n].key)
      BY <1>1, <2>2 DEF DiaryKnown
    <3> QED BY <2>1, <3>1
  <2>3. CASE n = Len(e)
    <3>1. e[n].key = k
      BY <1>1, <2>3
    <3>2. CASE Known(d, k)
      BY <2>1, <3>1, <3>2
    <3>3. CASE k[2] = Len(e) /\ slot = TripSlot /\ f = "leftHomeAt"
      BY <1>1, <3>1, <3>3
    <3> QED BY <3>2, <3>3
  <2> QED BY <1>1, <2>2, <2>3
<1> QED BY <1>2, <1>3 DEF InTurn

(* A record of what a trip brings at its place; u is how far it is.        *)
InPlace(u, slot, f) ==
  \/ slot = TripSlot /\ f = "leftHomeAt"
  \/ slot = GpsSlot
  \/ \E p \in DOMAIN Script : p <= u.pos /\ slot = Script[p][1] /\ f = Script[p][2]
  \/ u.pos = Arrived /\ slot = TripSlot /\ f = "arrivedDestinationAt"

(* A trip that goes on has brought what it had, and what is new.           *)
LEMMA SoFarGoes ==
  ASSUME NEW d, NEW e, DiaryKnown(d), NEW slot, NEW f, NEW t, NEW u,
         OneMore(d, e, u.key, slot, f), InPlace(u, slot, f),
         Known(d, u.key) => /\ t.key = u.key /\ SoFar(d, t)
                            /\ t.pos \in Int /\ u.pos \in Int /\ t.pos <= u.pos
                            /\ t.pos = Arrived => u.pos = Arrived
  PROVE  SoFar(e, u)
<1>1. /\ Len(d) \in Nat /\ Len(e) = Len(d) + 1
      /\ \A n \in 1..Len(d) : e[n] = d[n]
      /\ e[Len(e)].key = u.key /\ e[Len(e)].slot = slot /\ e[Len(e)].field = f
  BY DEF OneMore, Grows
<1> SUFFICES ASSUME NEW n \in 1..Len(e), e[n].key = u.key
             PROVE  InPlace(u, e[n].slot, e[n].field)
  BY DEF SoFar, InPlace
<1>2. CASE n = Len(e)
  BY <1>1, <1>2
<1>3. CASE n \in 1..Len(d)
  <2>1. d[n].key = u.key /\ e[n] = d[n]
    BY <1>1, <1>3
  <2>2. Known(d, u.key)
    BY <1>3, <2>1 DEF DiaryKnown
  <2>3. InPlace(t, d[n].slot, d[n].field)
    BY <1>3, <2>1, <2>2 DEF SoFar, InPlace
  <2>4. \A p \in DOMAIN Script : p \in Int
    BY OutboxSystemAssumption
  <2>5. \A p \in DOMAIN Script : p <= t.pos => p <= u.pos
    BY <2>2, <2>4
  <2> QED BY <2>1, <2>2, <2>3, <2>5 DEF InPlace
<1> QED BY <1>1, <1>2, <1>3

(* So the diary stays in turn.                                             *)
LEMMA IssuedInTurn ==
  ASSUME ScriptInTurn, RecorderTyped, TripsKept, Record,
         InTurn(diary), trip # NoTrip => SoFar(diary, trip),
         NEW cmd, NEW key, NEW slot, NEW field, Issues(cmd, key, slot, field)
  PROVE  /\ InTurn(diary') /\ SoFar(diary', trip')
         /\ OneMore(diary, diary', key, slot, field)
<1>1. /\ Writes(key, slot, field)
      /\ key \in Keys
      /\ slot \in {TripSlot, GpsSlot} \cup Attempts
      /\ field \in TripFields \cup AttemptFields \cup {"point"}
      /\ trip' \in Trips /\ trip'.key = key
      /\ cmd.type = "createTrip" => /\ trip = NoTrip /\ key[2] = now
                                    /\ slot = TripSlot /\ field = "leftHomeAt"
      /\ cmd.type # "createTrip" => trip # NoTrip /\ trip.key = key
      /\ cmd.type = "updateTrip" => slot = TripSlot
      /\ cmd.type = "uploadGps" => slot = GpsSlot
  BY DEF Issues
<1>2. /\ Len(diary') = now
      /\ \A n \in 1..clock : diary'[n] = diary[n]
      /\ diary'[now] = [key |-> key, slot |-> slot, field |-> field]
  BY <1>1, WritesStep
<1>3. clock = Len(diary) /\ clock \in Nat /\ now = clock + 1
  BY DEF RecorderTyped, clock, now
<1>4. OneMore(diary, diary', key, slot, field)
  BY <1>2, <1>3 DEF OneMore, Grows
<1>5. Follows(trip, trip', cmd, slot, field)
  BY IssuedFollows
<1>6. /\ trip'.pos \in Int /\ (trip # NoTrip => trip.pos \in Int)
      /\ Arrived \in Int /\ Arrived > 0
      /\ \A p \in DOMAIN Script : p \in Int /\ p > 0 /\ p < Arrived
                                  /\ Script[p][1] \in Attempts
  <2>1. Script \in Seq(Attempts \X AttemptFields) /\ Len(Script) \in Nat
    BY OutboxSystemAssumption
  <2>2. Arrived = Len(Script) + 1
    BY DEF Arrived
  <2>3. trip \in Trips \cup {NoTrip}
    BY DEF RecorderTyped
  <2>4. \A p \in DOMAIN Script : p \in 1..Len(Script) /\ Script[p][1] \in Attempts
    BY <2>1
  <2> QED BY <1>1, <2>1, <2>2, <2>3, <2>4 DEF Trips
<1>7. cmd.type # "createTrip" => Known(diary, key) /\ SoFar(diary, trip)
  BY <1>1 DEF TripsKept
<1>8. cmd.type = "createTrip" => ~Known(diary, key) /\ key[2] = Len(diary')
  BY <1>1, <1>2, <1>3 DEF Known
<1>9. ASSUME NEW n \in 1..Len(diary), diary[n].key = key
      PROVE  ~Earlier(slot, field, diary[n].slot, diary[n].field)
  <2>1. cmd.type # "createTrip"
    BY <1>8, <1>9 DEF TripsKept, DiaryKnown
  <2>2. InPlace(trip, diary[n].slot, diary[n].field)
    BY <1>1, <1>7, <1>9, <2>1 DEF SoFar, InPlace
  <2>3. CASE cmd.type = "updateTrip" /\ field = "leftHomeAt" /\ trip.pos = 0
    <3>1. \/ diary[n].slot = TripSlot /\ diary[n].field = "leftHomeAt"
          \/ diary[n].slot = GpsSlot
      BY <1>6, <2>2, <2>3 DEF InPlace
    <3> QED BY <1>1, <2>3, <3>1, SlotsApart DEF Earlier
  <2>4. CASE cmd.type = "updateTrip" /\ field = "arrivedDestinationAt"
    BY <1>1, <2>4, SlotsApart DEF Earlier
  <2>5. CASE cmd.type = "uploadGps"
    BY <1>1, <2>5, SlotsApart DEF Earlier
  <2>6. ASSUME NEW pos \in DOMAIN Script, pos > trip.pos,
               slot = Script[pos][1], field = Script[pos][2]
        PROVE  ~Earlier(slot, field, diary[n].slot, diary[n].field)
    <3>1. slot \in Attempts
      BY <1>6, <2>6
    <3>2. CASE \/ diary[n].slot = TripSlot /\ diary[n].field = "leftHomeAt"
               \/ diary[n].slot = GpsSlot
      BY <3>1, <3>2, SlotsApart DEF Earlier
    <3>3. ASSUME NEW p \in DOMAIN Script, p <= trip.pos, diary[n].slot = Script[p][1],
                 diary[n].field = Script[p][2]
          PROVE  ~Earlier(slot, field, diary[n].slot, diary[n].field)
      <4>1. ~Rides(slot, field, Script[p][1], Script[p][2])
        <5>1. ~(pos < p)
          BY <1>1, <1>6, <2>1, <2>6, <3>3
        <5> QED BY <2>6, <5>1 DEF ScriptInTurn
      <4> QED BY <1>6, <3>1, <3>3, <4>1, SlotsApart DEF Earlier
    <3>4. trip.pos # Arrived
      BY <1>1, <1>6, <2>1, <2>6
    <3> QED BY <2>2, <3>2, <3>3, <3>4 DEF InPlace
  <2> QED BY <1>5, <2>1, <2>3, <2>4, <2>5, <2>6 DEF Follows
<1>10. InTurn(diary')
  BY <1>1, <1>4, <1>7, <1>8, <1>9, DiaryStaysInTurn DEF TripsKept
<1>11. InPlace(trip', slot, field)
  BY <1>1, <1>5, <1>6 DEF Follows, InPlace
<1>12. Known(diary, key) => /\ trip.key = key /\ SoFar(diary, trip)
                            /\ trip.pos \in Int /\ trip.pos <= trip'.pos
                            /\ trip.pos = Arrived => trip'.pos = Arrived
  <2> SUFFICES ASSUME Known(diary, key)
               PROVE  /\ trip.pos <= trip'.pos
                      /\ trip.pos = Arrived => trip'.pos = Arrived
    BY <1>1, <1>6, <1>7, <1>8
  <2>1. trip # NoTrip /\ cmd.type # "createTrip" /\ trip.pos \in Int
    BY <1>1, <1>6, <1>8
  <2>2. trip \in Trips
    BY <2>1 DEF RecorderTyped
  <2>3. trip.pos <= Arrived
    BY <2>2, OutboxSystemAssumption DEF Trips, Arrived
  <2> QED BY <1>5, <1>6, <2>1, <2>3 DEF Follows
<1>13. SoFar(diary', trip')
  BY <1>1, <1>4, <1>6, <1>11, <1>12, SoFarGoes DEF TripsKept
<1> QED BY <1>4, <1>10, <1>13

-----------------------------------------------------------------------------
(* A command put in: it is merged into an entry, or comes last. *)

MergesIn(b, c, cmd) ==
  /\ Ids(c) = Ids(b)
  /\ \A i \in Ids(b) :
       /\ TypeAt(c, i) = TypeAt(b, i) /\ KeyAt(c, i) = KeyAt(b, i)
       /\ TypeAt(b, i) = "upsertAttempt" =>
            c.entries[i].cmd.attempt = b.entries[i].cmd.attempt
  /\ cmd.type = "upsertAttempt" => \E i \in Ids(b) : Brings(b, i, cmd.key, cmd.attempt)

ComesLast(b, c, cmd) ==
  /\ Ids(c) = Ids(b) \cup {b.nextId}
  /\ \A i \in Ids(b) : i < b.nextId /\ c.entries[i].cmd = b.entries[i].cmd
  /\ b.nextId \notin Ids(b)
  /\ c.entries[b.nextId].cmd = cmd

(* One or the other happens.                                               *)
LEMMA PutIn ==
  ASSUME NEW b, IsState(b), NEW cmd \in Commands,
         cmd.type = "uploadGps" => \E p : cmd.points = <<p>>,
         NEW c, c = Enqueued(b, cmd)
  PROVE  /\ c.tripIds = b.tripIds
         /\ MergesIn(b, c, cmd) \/ ComesLast(b, c, cmd)
<1>1. c.tripIds = b.tripIds
  BY EnqueuedParts
<1>2. \/ Mergeable(b, cmd) # {} /\ c = MergeIntoLaneTail(b, cmd)
      \/ c = AppendOne(b, cmd)
  BY PlainEnqueued, PointEnqueued
<1>3. b.nextId \in Nat /\ Ids(b) \subseteq 1..(b.nextId - 1)
  BY StateFields
<1>4. CASE c = AppendOne(b, cmd)
  <2>1. /\ Ids(c) = Ids(b) \cup {b.nextId}
        /\ b.nextId \notin Ids(b)
        /\ c.entries[b.nextId] = NewEntry(cmd)
        /\ \A i \in Ids(b) : c.entries[i] = b.entries[i]
    BY <1>4, AppendOneParts
  <2>2. NewEntry(cmd).cmd = cmd
    BY DEF NewEntry
  <2>3. \A i \in Ids(b) : i < b.nextId
    BY <1>3
  <2> QED BY <1>1, <2>1, <2>2, <2>3 DEF ComesLast
<1>5. CASE Mergeable(b, cmd) # {} /\ c = MergeIntoLaneTail(b, cmd)
  <2> DEFINE m == MergeIntoLaneTail(b, cmd)
  <2>1. /\ Ids(m) = Ids(b)
        /\ \A i \in Mergeable(b, cmd) :
             /\ m.entries[i].cmd.type = b.entries[i].cmd.type
             /\ m.entries[i].cmd.key = b.entries[i].cmd.key
             /\ m.entries[i].cmd.type = "upsertAttempt" =>
                  m.entries[i].cmd.attempt = b.entries[i].cmd.attempt
        /\ \A i \in Ids(b) \ Mergeable(b, cmd) : m.entries[i] = b.entries[i]
    BY MergeParts
  <2>2. c = m
    BY <1>5
  <2> HIDE DEF m
  <2>3. \A i \in Ids(b) :
          /\ TypeAt(c, i) = TypeAt(b, i) /\ KeyAt(c, i) = KeyAt(b, i)
          /\ TypeAt(b, i) = "upsertAttempt" =>
               c.entries[i].cmd.attempt = b.entries[i].cmd.attempt
    BY <2>1, <2>2 DEF TypeAt, KeyAt
  <2>4. PICK i \in Mergeable(b, cmd) : TRUE
    BY <1>5
  <2>5. /\ i \in Ids(b) /\ b.entries[i].cmd.type = cmd.type
        /\ b.entries[i].cmd.key = cmd.key
        /\ cmd.type = "upsertAttempt" => b.entries[i].cmd.attempt = cmd.attempt
    BY EnqueuedEntries
  <2>6. cmd.type = "upsertAttempt" => Brings(b, i, cmd.key, cmd.attempt)
    BY <2>5 DEF Brings, TypeAt, KeyAt
  <2> QED BY <1>1, <2>1, <2>2, <2>3, <2>5, <2>6 DEF MergesIn
<1> QED BY <1>2, <1>4, <1>5

(* What is put in is as honest as its command.                             *)
LEMMA PutInHonest ==
  ASSUME NEW d, NEW b, IsState(b), BoxHonest(d, b), NEW cmd \in Commands,
         cmd.key \in Keys, Honest(d, cmd.key, cmd),
         cmd.type = "uploadGps" => \E p : cmd.points = <<p>>,
         NEW c, c = Enqueued(b, cmd)
  PROVE  BoxHonest(d, c)
<1> SUFFICES ASSUME NEW i \in Ids(c)
             PROVE  KeyAt(c, i) \in Keys /\ Honest(d, KeyAt(c, i), c.entries[i].cmd)
  BY DEF BoxHonest
<1>1. \/ Mergeable(b, cmd) # {} /\ c = MergeIntoLaneTail(b, cmd)
      \/ c = AppendOne(b, cmd)
  BY PlainEnqueued, PointEnqueued
<1>2. CASE c.entries[i].cmd = cmd
  BY <1>2 DEF KeyAt
<1>3. CASE i \in Ids(b) /\ c.entries[i] = b.entries[i]
  BY <1>3 DEF BoxHonest, KeyAt
<1>4. CASE i \in Mergeable(b, cmd)
  <2> DEFINE old == b.entries[i].cmd
             new == c.entries[i].cmd
  <2>1. /\ i \in Ids(b)
        /\ cmd.type \in {"updateTrip", "upsertAttempt"}
        /\ old.type = cmd.type /\ old.key = cmd.key
        /\ new.body = Merged(old.body, cmd.body)
        /\ cmd.type = "upsertAttempt" =>
             old.attempt = cmd.attempt /\ new.attempt = cmd.attempt
    BY <1>4, EnqueuedEntries
  <2>2. new.type = cmd.type /\ new.key = cmd.key
    BY <2>1, EnqueuedParts
  <2>3. old \in Commands /\ Honest(d, cmd.key, old)
    BY <2>1, StateFields, EntryFields DEF BoxHonest, KeyAt
  <2> HIDE DEF old, new
  <2>4. ASSUME NEW slot, NEW f, NEW v, Tells(new, slot, f, v)
        PROVE  Recorded(d, cmd.key, slot, f, v)
    <3>1. Tells(cmd, slot, f, v) \/ Tells(old, slot, f, v)
      BY <2>1, <2>2, <2>3, <2>4, MergedTells
    <3> QED BY <2>3, <3>1 DEF Honest
  <2>5. new.type = "updateTrip" => new.body.leftHomeAt # cmd.key[2]
    <3> SUFFICES ASSUME cmd.type = "updateTrip"
                 PROVE  Merged(old.body, cmd.body).leftHomeAt # cmd.key[2]
      BY <2>1, <2>2
    <3>1. DOMAIN old.body = TripFields /\ "leftHomeAt" \in TripFields
      BY <2>1, <2>3, CommandParts DEF TripBodies, TripFields
    <3>2. Merged(old.body, cmd.body).leftHomeAt
            \in {old.body.leftHomeAt, cmd.body.leftHomeAt}
      BY <3>1 DEF Merged
    <3> QED BY <2>1, <2>3, <3>2 DEF Honest
  <2>6. Honest(d, cmd.key, new)
    BY <2>4, <2>5 DEF Honest
  <2> QED BY <2>2, <2>6 DEF KeyAt, new
<1>5. CASE c = AppendOne(b, cmd)
  <2>1. /\ Ids(c) = Ids(b) \cup {b.nextId}
        /\ c.entries[b.nextId] = NewEntry(cmd)
        /\ \A j \in Ids(b) : c.entries[j] = b.entries[j]
    BY <1>5, AppendOneParts
  <2>2. NewEntry(cmd).cmd = cmd
    BY DEF NewEntry
  <2> QED BY <1>2, <1>3, <2>1, <2>2
<1>6. CASE c = MergeIntoLaneTail(b, cmd)
  <2>1. Ids(c) = Ids(b)
    BY <1>6, MergeParts
  <2>2. i \in Ids(b) \ Mergeable(b, cmd) => c.entries[i] = b.entries[i]
    BY EnqueuedEntries
  <2> QED BY <1>3, <1>4, <2>1, <2>2
<1> QED BY <1>1, <1>5, <1>6

(* The attempt is brought by the queue, or the server has it.              *)
There(s, b, k, a) ==
  (\E j \in Ids(b) : Brings(b, j, k, a)) \/ HasAttempt(s, b, k, a)

(* What is put in comes after what it needs.                               *)
LEMMA PutInTurn ==
  ASSUME NEW s, NEW b, NEW c, NEW cmd, c.tripIds = b.tripIds,
         MergesIn(b, c, cmd) \/ ComesLast(b, c, cmd),
         ~IsDelete(cmd),
         cmd.key \in DOMAIN b.tripIds => /\ b.tripIds[cmd.key] \in S!Ids(s)
                                         /\ cmd.type # "createTrip",
         cmd.type = "upsertAttempt" /\ cmd.attempt[2] > 1 =>
           There(s, b, cmd.key, Prev(cmd.attempt))
  PROVE  /\ \A k, a : There(s, b, k, a) => There(s, c, k, a)
         /\ cmd.type = "upsertAttempt" => There(s, c, cmd.key, cmd.attempt)
         /\ \A k : OnlyDeletes(b, k) => OnlyDeletes(c, k) \/ k = cmd.key
         /\ NoneWaits(s, b) => NoneWaits(s, c)
         /\ CreateOnce(b) => CreateOnce(c)
         /\ AllPreceded(s, b) => AllPreceded(s, c)
<1>1. \A i \in Ids(b) :
        /\ i \in Ids(c) /\ TypeAt(c, i) = TypeAt(b, i) /\ KeyAt(c, i) = KeyAt(b, i)
        /\ TypeAt(b, i) = "upsertAttempt" =>
             c.entries[i].cmd.attempt = b.entries[i].cmd.attempt
  BY DEF MergesIn, ComesLast, TypeAt, KeyAt
<1>2. \A i \in Ids(b) : \A k, a : Brings(b, i, k, a) => Brings(c, i, k, a)
  BY <1>1 DEF Brings
<1>3. \A k, a : HasAttempt(s, b, k, a) => HasAttempt(s, c, k, a)
  BY DEF HasAttempt
<1>4. \A k, a : There(s, b, k, a) => There(s, c, k, a)
  BY <1>1, <1>2, <1>3 DEF There
<1>5. \A i \in Ids(c) : i \in Ids(b) \/ /\ i = b.nextId
                                        /\ ComesLast(b, c, cmd)
                                        /\ TypeAt(c, i) = cmd.type
                                        /\ KeyAt(c, i) = cmd.key
                                        /\ c.entries[i].cmd = cmd
  BY DEF MergesIn, ComesLast, TypeAt, KeyAt
<1>6. cmd.type = "upsertAttempt" => There(s, c, cmd.key, cmd.attempt)
  <2> SUFFICES ASSUME cmd.type = "upsertAttempt"
               PROVE  \E j \in Ids(c) : Brings(c, j, cmd.key, cmd.attempt)
    BY DEF There
  <2>1. CASE MergesIn(b, c, cmd)
    BY <1>1, <1>2, <2>1 DEF MergesIn
  <2>2. CASE ComesLast(b, c, cmd)
    <3>1. b.nextId \in Ids(c) /\ c.entries[b.nextId].cmd = cmd
      BY <2>2 DEF ComesLast
    <3> QED BY <3>1 DEF Brings, TypeAt, KeyAt
  <2> QED BY <2>1, <2>2
<1>7. \A k : OnlyDeletes(b, k) => OnlyDeletes(c, k) \/ k = cmd.key
  BY <1>1, <1>5 DEF OnlyDeletes
<1>8. NoneWaits(s, b) => NoneWaits(s, c)
  BY <1>7 DEF NoneWaits
<1>9. CreateOnce(b) => CreateOnce(c)
  BY <1>1, <1>5 DEF CreateOnce, CreateWaits
<1>10. AllPreceded(s, b) => AllPreceded(s, c)
  <2> SUFFICES ASSUME AllPreceded(s, b), NEW i \in Ids(c),
                      TypeAt(c, i) = "upsertAttempt",
                      NEW a, a = c.entries[i].cmd.attempt, a[2] > 1
               PROVE  \/ \E j \in Ids(c) : j < i /\ Brings(c, j, KeyAt(c, i), Prev(a))
                      \/ HasAttempt(s, c, KeyAt(c, i), Prev(a))
    BY DEF AllPreceded, Preceded
  <2>1. CASE i \in Ids(b)
    <3>1. /\ TypeAt(b, i) = "upsertAttempt" /\ KeyAt(b, i) = KeyAt(c, i)
          /\ a = b.entries[i].cmd.attempt
      BY <1>1, <2>1
    <3>2. \/ \E j \in Ids(b) : j < i /\ Brings(b, j, KeyAt(b, i), Prev(a))
          \/ HasAttempt(s, b, KeyAt(b, i), Prev(a))
      BY <2>1, <3>1 DEF AllPreceded, Preceded
    <3> QED BY <1>1, <1>2, <1>3, <3>1, <3>2
  <2>2. CASE i \notin Ids(b)
    <3>1. /\ i = b.nextId /\ ComesLast(b, c, cmd) /\ cmd.type = "upsertAttempt"
          /\ KeyAt(c, i) = cmd.key /\ a = cmd.attempt
      BY <1>5, <2>2
    <3>2. There(s, b, cmd.key, Prev(a))
      BY <3>1
    <3>3. \A j \in Ids(b) : j < i
      BY <3>1 DEF ComesLast
    <3> QED BY <1>1, <1>2, <1>3, <3>1, <3>2, <3>3 DEF There
  <2> QED BY <2>1, <2>2
<1> QED BY <1>4, <1>6, <1>7, <1>8, <1>9, <1>10

-----------------------------------------------------------------------------
(* The phone goes on. *)

(* An id that is a row's stays with its trip, and so does a delete that is *)
(* all there is of it.                                                     *)
KeepsIds(s, b, c) ==
  \A k \in DOMAIN b.tripIds : b.tripIds[k] \in S!Ids(s) =>
    /\ k \in DOMAIN c.tripIds /\ c.tripIds[k] = b.tripIds[k]
    /\ Deletes(b, k) /\ OnlyDeletes(b, k) => OnlyDeletes(c, k)

(* A request under way stays right as long as the ids are kept.            *)
LEMMA ReqStaysRight ==
  ASSUME NEW d, NEW s, NEW b, NEW c, KeepsIds(s, b, c), NEW req, NEW k,
         Fits(d, s, b, req), ReqRight(d, s, b, req, k)
  PROVE  ReqRight(d, s, c, req, k)
<1>1. ASSUME req.tripId \in S!Ids(s)
      PROVE  /\ k \in DOMAIN c.tripIds /\ c.tripIds[k] = req.tripId
             /\ req.type = "deleteTrip" => OnlyDeletes(c, k)
  <2>1. /\ k \in DOMAIN b.tripIds /\ b.tripIds[k] = req.tripId
        /\ req.type = "deleteTrip" => OnlyDeletes(b, k)
        /\ RowKey(d, s, req.tripId) = k
    BY <1>1 DEF ReqRight, Names
  <2>2. req.type = "deleteTrip" => Deletes(b, k)
    BY <1>1, <2>1 DEF Fits, Names, Doomed, HasTrip
  <2> QED BY <1>1, <2>1, <2>2 DEF KeepsIds
<1> QED BY <1>1 DEF ReqRight

(* And so does the call that is awaited.                                   *)
LEMMA CallStaysRight ==
  ASSUME NEW d, NEW s, NEW b, NEW c, KeepsIds(s, b, c), c.tripIds = b.tripIds,
         NEW k, Fits(d, s, b, k.req),
         c.entries[k.id].cmd = b.entries[k.id].cmd, CallRight(d, s, b, k)
  PROVE  CallRight(d, s, c, k)
<1>1. ReqRight(d, s, b, k.req, k.key) => ReqRight(d, s, c, k.req, k.key)
  BY ReqStaysRight
<1>2. \A a : HasAttempt(s, b, k.key, a) => HasAttempt(s, c, k.key, a)
  BY DEF HasAttempt
<1> QED BY <1>1, <1>2 DEF CallRight

(* What every step of the phone has in common.                             *)
LEMMA PhoneKeepsTurn ==
  ASSUME TripsKept, TurnKept, Awaited,
         server' = server, late' = late, Grows(diary, diary'),
         KeepsIds(server, box, box'),
         InTurn(diary'), BoxHonest(diary', box'), NoneWaits(server, box'),
         CreateOnce(box'), HeadsOnly(box'), AllPreceded(server, box'),
         trip' # NoTrip => SoFar(diary', trip') /\ Visited(server, box', trip'),
         \/ call' = call /\ Holds(box, box') /\ box'.tripIds = box.tripIds
         \/ call' # NoCall => CallRight(diary', server, box', call')
  PROVE  TurnKept'
<1>1. RowsDated(diary, server) /\ \A req \in late : Fits(diary, server, box, req)
  BY DEF TripsKept
<1>2. /\ RowsHonest(diary, server) /\ Unique(server) /\ Named(diary, server, box)
      /\ LateRight(diary, server, box, late)
      /\ call # NoCall => CallRight(diary, server, box, call)
  BY DEF TurnKept
<1>3. RowsHonest(diary', server)
  BY <1>1, <1>2, LaterHonest
<1>4. Named(diary', server, box')
  <2>1. Named(diary', server, box)
    BY <1>1, <1>2, LaterHonest
  <2> QED BY <2>1 DEF Named, KeepsIds
<1>5. \A b, req, k : ReqRight(diary, server, b, req, k) => ReqRight(diary', server, b, req, k)
  BY <1>1, LaterHonest
<1>6. LateRight(diary', server, box', late)
  <2> SUFFICES ASSUME NEW req \in late, req.type # "createTrip"
               PROVE  /\ req.tripId \in Nat
                      /\ \E k \in Keys : ReqRight(diary', server, box', req, k)
    BY DEF LateRight
  <2>1. PICK k \in Keys : ReqRight(diary, server, box, req, k)
    BY <1>2 DEF LateRight
  <2>2. req.tripId \in Nat
    BY <1>2 DEF LateRight
  <2>3. ReqRight(diary, server, box', req, k)
    BY <1>1, <2>1, ReqStaysRight
  <2> QED BY <1>5, <2>2, <2>3
<1>7. ASSUME call' # NoCall PROVE CallRight(diary', server, box', call')
  <2>1. CASE call' = call /\ Holds(box, box') /\ box'.tripIds = box.tripIds
    <3>1. /\ CallRight(diary, server, box, call)
          /\ Fits(diary, server, box, call.req)
      BY <1>2, <1>7, <2>1 DEF TripsKept, CallFit
    <3>2. box'.entries[call.id].cmd = box.entries[call.id].cmd
      BY <1>7, <2>1 DEF Awaited, Holds
    <3>3. CallRight(diary, server, box', call)
      BY <2>1, <3>1, <3>2, CallStaysRight
    <3> QED BY <1>5, <2>1, <3>3 DEF CallRight
  <2> QED BY <1>7, <2>1
<1> QED BY <1>2, <1>3, <1>4, <1>6, <1>7 DEF TurnKept

(* The same queue but for flags.                                           *)
SameSaid(b, c) ==
  /\ Ids(c) = Ids(b)
  /\ c.tripIds = b.tripIds
  /\ \A i \in Ids(b) : c.entries[i].cmd = b.entries[i].cmd

(* It says the same.                                                       *)
LEMMA SameSaidTurn ==
  ASSUME NEW s, NEW b, NEW c, SameSaid(b, c)
  PROVE  /\ KeepsIds(s, b, c)
         /\ \A d : BoxHonest(d, b) => BoxHonest(d, c)
         /\ NoneWaits(s, b) => NoneWaits(s, c)
         /\ CreateOnce(b) => CreateOnce(c)
         /\ AllPreceded(s, b) => AllPreceded(s, c)
         /\ \A t : Visited(s, b, t) => Visited(s, c, t)
         /\ SameQueue(b, c) /\ HeadsOnly(b) => HeadsOnly(c)
<1>1. Ids(c) = Ids(b) /\ c.tripIds = b.tripIds
  BY DEF SameSaid
<1>2. \A i \in Ids(b) : /\ c.entries[i].cmd = b.entries[i].cmd
                        /\ TypeAt(c, i) = TypeAt(b, i) /\ KeyAt(c, i) = KeyAt(b, i)
                        /\ LaneOf(c, i) = LaneOf(b, i)
  BY DEF SameSaid, TypeAt, KeyAt, LaneOf
<1>3. \A k : OnlyDeletes(b, k) => OnlyDeletes(c, k)
  BY <1>1, <1>2 DEF OnlyDeletes
<1>4. KeepsIds(s, b, c) /\ (NoneWaits(s, b) => NoneWaits(s, c))
  BY <1>1, <1>3 DEF KeepsIds, NoneWaits
<1>5. ASSUME NEW d, BoxHonest(d, b) PROVE BoxHonest(d, c)
  BY <1>1, <1>2, <1>5 DEF BoxHonest
<1>6. CreateOnce(b) => CreateOnce(c)
  BY <1>1, <1>2 DEF CreateOnce, CreateWaits
<1>7. \A k, a : /\ \A j \in Ids(b) : Brings(b, j, k, a) => Brings(c, j, k, a)
                /\ HasAttempt(s, b, k, a) => HasAttempt(s, c, k, a)
  BY <1>1, <1>2 DEF Brings, HasAttempt
<1>8. AllPreceded(s, b) => AllPreceded(s, c)
  <2> SUFFICES ASSUME AllPreceded(s, b), NEW i \in Ids(b),
                      NEW a, a = b.entries[i].cmd.attempt,
                      TypeAt(b, i) = "upsertAttempt", a[2] > 1
               PROVE  \/ \E j \in Ids(c) : j < i /\ Brings(c, j, KeyAt(c, i), Prev(a))
                      \/ HasAttempt(s, c, KeyAt(c, i), Prev(a))
    BY <1>1, <1>2 DEF AllPreceded, Preceded
  <2>1. \/ \E j \in Ids(b) : j < i /\ Brings(b, j, KeyAt(b, i), Prev(a))
        \/ HasAttempt(s, b, KeyAt(b, i), Prev(a))
    BY DEF AllPreceded, Preceded
  <2> QED BY <1>1, <1>2, <1>7, <2>1
<1>9. ASSUME NEW t, Visited(s, b, t) PROVE Visited(s, c, t)
  BY <1>1, <1>7, <1>9 DEF Visited
<1>10. SameQueue(b, c) /\ HeadsOnly(b) => HeadsOnly(c)
  BY <1>1, <1>2 DEF SameQueue, HeadsOnly, IsLaneHead
<1> QED BY <1>4, <1>5, <1>6, <1>8, <1>9, <1>10

(* A step that only wakes, pauses, sends or saves.                         *)
LEMMA SameKeepsTurn ==
  ASSUME TripsKept, TurnKept, Awaited, RecorderTyped,
         SameSaid(box, box'), HeadsOnly(box'),
         server' = server, late' = late, diary' = diary, trip' \in {trip, NoTrip},
         \/ call' = call \/ call' = NoCall
         \/ CallRight(diary, server, box, call') /\ Fits(diary, server, box, call'.req)
            /\ call'.id \in Ids(box)
  PROVE  TurnKept'
<1>1. /\ InTurn(diary) /\ BoxHonest(diary, box)
      /\ trip # NoTrip => SoFar(diary, trip) /\ Visited(server, box, trip)
      /\ NoneWaits(server, box) /\ CreateOnce(box) /\ AllPreceded(server, box)
      /\ call # NoCall => CallRight(diary, server, box, call)
  BY DEF TurnKept
<1>2. /\ KeepsIds(server, box, box')
      /\ BoxHonest(diary, box')
      /\ NoneWaits(server, box') /\ CreateOnce(box') /\ AllPreceded(server, box')
      /\ trip # NoTrip => Visited(server, box', trip)
  BY <1>1, SameSaidTurn
<1>3. Grows(diary, diary')
  BY DEF RecorderTyped, Grows
<1>4. call' # NoCall => CallRight(diary, server, box', call')
  <2> SUFFICES ASSUME call' # NoCall PROVE CallRight(diary, server, box', call')
    OBVIOUS
  <2>1. /\ CallRight(diary, server, box, call') /\ Fits(diary, server, box, call'.req)
        /\ call'.id \in Ids(box)
    BY <1>1 DEF TripsKept, CallFit, Awaited
  <2> QED BY <1>2, <2>1, CallStaysRight DEF SameSaid
<1> QED BY <1>1, <1>2, <1>3, <1>4, PhoneKeepsTurn

(* What is issued tells what was just recorded.                            *)
LEMMA IssuedHonest ==
  ASSUME RecorderTyped, TripsKept,
         NEW cmd, NEW key, NEW slot, NEW field, Issues(cmd, key, slot, field),
         OneMore(diary, diary', key, slot, field)
  PROVE  Honest(diary', key, cmd)
<1>1. /\ cmd.type = "updateTrip" =>
           /\ slot = TripSlot /\ cmd.body = TripBody(field)
           /\ trip # NoTrip /\ trip.key = key
      /\ cmd.type = "upsertAttempt" =>
           slot = cmd.attempt /\ cmd.body = AttemptBody(field)
  BY DEF Issues
<1>2. clock = Len(diary) /\ clock \in Nat /\ now = clock + 1
  BY DEF RecorderTyped, clock, now
<1>3. Recorded(diary', key, slot, field, now)
  BY <1>2 DEF OneMore, Recorded
<1>4. ASSUME NEW sl, NEW f, NEW v, Tells(cmd, sl, f, v)
      PROVE  Recorded(diary', key, sl, f, v)
  <2>1. CASE cmd.type = "updateTrip"
    <3>1. sl = TripSlot /\ f \in TripFields /\ v = cmd.body[f] /\ v # Nil
      BY <1>4, <2>1 DEF Tells
    <3>2. f = field /\ v = now
      BY <1>1, <2>1, <3>1 DEF TripBody
    <3> QED BY <1>1, <1>3, <2>1, <3>1, <3>2
  <2>2. CASE cmd.type = "upsertAttempt"
    <3>1. sl = cmd.attempt /\ f \in AttemptFields /\ v = cmd.body[f] /\ v # Nil
      BY <1>4, <2>2 DEF Tells, S!Observed, AttemptFields
    <3>2. f = field /\ v = now
      BY <1>1, <2>2, <3>1 DEF AttemptBody
    <3> QED BY <1>1, <1>3, <2>2, <3>1, <3>2
  <2> QED BY <1>4, <2>1, <2>2 DEF Tells
<1>5. cmd.type = "updateTrip" => cmd.body.leftHomeAt # key[2]
  <2> SUFFICES ASSUME cmd.type = "updateTrip" PROVE cmd.body.leftHomeAt # key[2]
    OBVIOUS
  <2>1. Known(diary, key)
    BY <1>1 DEF TripsKept
  <2>2. key[2] \in 1..clock
    BY <1>2, <2>1 DEF Known
  <2>3. cmd.body.leftHomeAt \in {now, Nil}
    BY <1>1 DEF TripBody, TripFields
  <2> QED BY <1>2, <2>2, <2>3, OutboxSystemAssumption
<1> QED BY <1>4, <1>5 DEF Honest

(* And it comes after the attempt before it; then all that the script has  *)
(* brought is there.                                                       *)
LEMMA IssuedComesAfter ==
  ASSUME ScriptInTurn, TypeOK,
         NEW t, NEW u, NEW cmd, NEW slot, NEW field,
         Follows(t, u, cmd, slot, field),
         cmd.type = "upsertAttempt" => slot = cmd.attempt,
         cmd.type = "createTrip" \/ (t \in Trips /\ u.key = t.key),
         NEW s, NEW b, cmd.type # "createTrip" => Visited(s, b, t)
  PROVE  /\ cmd.type = "upsertAttempt" /\ cmd.attempt[2] > 1 =>
              There(s, b, t.key, Prev(cmd.attempt))
         /\ \A c : /\ \A k, a : There(s, b, k, a) => There(s, c, k, a)
                   /\ cmd.type = "upsertAttempt" => There(s, c, t.key, cmd.attempt)
                   => Visited(s, c, u)
<1>1. /\ Script \in Seq(Attempts \X AttemptFields) /\ Len(Script) \in Nat
      /\ DOMAIN Script = 1..Len(Script) /\ Arrived = Len(Script) + 1
  BY OutboxSystemAssumption DEF Arrived
<1>2. cmd.type # "createTrip" => t.pos \in 0..Arrived
  BY DEF Trips
<1>3. ASSUME cmd.type # "createTrip", t.pos # Arrived,
             NEW p \in DOMAIN Script, p <= t.pos
      PROVE  There(s, b, t.key, Script[p][1])
  BY <1>3 DEF Visited, There
<1>4. CASE cmd.type = "upsertAttempt"
  <2>1. PICK pos \in DOMAIN Script :
          /\ pos > t.pos /\ u.pos = pos /\ slot = Script[pos][1]
          /\ \A j \in (t.pos + 1)..(pos - 1) :
               \/ Script[j][1] = Script[pos][1]
               \/ t.pos > 0 /\ Script[j][1] = Script[t.pos][1]
    BY <1>4 DEF Follows
  <2>2. t.pos \in Int /\ t.pos >= 0 /\ t.pos # Arrived /\ pos \in Int
    BY <1>1, <1>2, <1>4, <2>1
  <2>3. cmd.attempt = Script[pos][1]
    BY <1>4, <2>1
  <2>4. ASSUME NEW p \in DOMAIN Script, p < pos
        PROVE  Script[p][1] = cmd.attempt \/ There(s, b, t.key, Script[p][1])
    <3>1. CASE p <= t.pos
      BY <1>3, <1>4, <2>2, <3>1
    <3>2. CASE p > t.pos
      <4>1. p \in (t.pos + 1)..(pos - 1)
        BY <1>1, <2>2, <2>4, <3>2
      <4>2. CASE Script[p][1] = Script[pos][1]
        BY <2>3, <4>2
      <4>3. CASE t.pos > 0 /\ Script[p][1] = Script[t.pos][1]
        <5>1. t.pos \in DOMAIN Script /\ t.pos <= t.pos
          BY <1>1, <2>1, <2>2, <4>3
        <5> QED BY <1>3, <1>4, <2>2, <4>3, <5>1
      <4> QED BY <2>1, <4>1, <4>2, <4>3
    <3> QED BY <1>1, <2>2, <3>1, <3>2
  <2>5. ASSUME cmd.attempt[2] > 1 PROVE There(s, b, t.key, Prev(cmd.attempt))
    <3>1. PICK p \in 1..(pos - 1) : Script[p][1] = Prev(cmd.attempt)
      BY <2>3, <2>5 DEF ScriptInTurn
    <3>2. p \in DOMAIN Script /\ p < pos
      BY <1>1, <2>2
    <3>3. Prev(cmd.attempt) # cmd.attempt
      <4>1. Script[pos] \in Attempts \X AttemptFields
        BY <1>1
      <4>2. cmd.attempt \in Legs \X (Nat \ {0})
        BY <2>3, <4>1, OutboxSystemAssumption
      <4> QED BY <4>2 DEF Prev
    <3> QED BY <2>4, <3>1, <3>2, <3>3
  <2>6. ASSUME NEW c, \A k, a : There(s, b, k, a) => There(s, c, k, a),
               There(s, c, t.key, cmd.attempt)
        PROVE  Visited(s, c, u)
    <3>1. ASSUME NEW p \in DOMAIN Script, p <= u.pos
          PROVE  There(s, c, u.key, Script[p][1])
      <4>1. p = pos \/ p < pos
        BY <1>1, <2>1, <2>2, <3>1
      <4>2. u.key = t.key
        BY <1>4
      <4> QED BY <2>3, <2>4, <2>6, <4>1, <4>2
    <3> QED BY <3>1 DEF Visited, There
  <2> QED BY <1>4, <2>5, <2>6
<1>5. CASE cmd.type # "upsertAttempt"
  <2> SUFFICES ASSUME NEW c, \A k, a : There(s, b, k, a) => There(s, c, k, a),
                      u.pos # Arrived, NEW p \in DOMAIN Script, p <= u.pos
               PROVE  There(s, c, u.key, Script[p][1])
    BY <1>5 DEF Visited, There
  <2>1. u.pos # 0
    BY <1>1
  <2>2. u = t /\ cmd.type # "createTrip"
    <3>1. cmd.type = "createTrip" => u.pos = 0
      BY DEF Follows
    <3> QED BY <1>5, <2>1, <3>1 DEF Follows
  <2> QED BY <1>3, <2>2
<1> QED BY <1>4, <1>5

(* Recording: what is put in comes in turn.                                *)
LEMMA IssuedKeepsTurn ==
  ASSUME ScriptInTurn, Kept, TripsKept, TurnKept, Record,
         NEW cmd, NEW key, NEW slot, NEW field, Issues(cmd, key, slot, field)
  PROVE  TurnKept'
<1>1. BoxTyped /\ RecorderTyped /\ IsState(box) /\ Awaited /\ Tracked /\ TypeOK
  BY TypeParts DEF Kept, BoxTyped, QueueKept
<1>2. /\ Recording /\ Writes(key, slot, field) /\ Enqueue(cmd)
      /\ cmd \in Commands /\ ~IsDelete(cmd) /\ cmd.key = key
      /\ key \in Keys
      /\ trip'.key = key
      /\ IF cmd.type = "createTrip" THEN key[2] = now
         ELSE trip # NoTrip /\ trip.key = key
      /\ cmd.type = "upsertAttempt" => slot = cmd.attempt
      /\ cmd.type = "uploadGps" => cmd.points = <<now>>
  BY DEF Issues
<1>3. /\ InTurn(diary) /\ BoxHonest(diary, box)
      /\ trip # NoTrip => SoFar(diary, trip) /\ Visited(server, box, trip)
      /\ NoneWaits(server, box) /\ CreateOnce(box) /\ AllPreceded(server, box)
      /\ HeadsOnly(box)
  BY DEF TurnKept
<1>4. /\ InTurn(diary') /\ SoFar(diary', trip')
      /\ OneMore(diary, diary', key, slot, field)
  BY <1>1, <1>3, IssuedInTurn
<1>5. Grows(diary, diary')
  BY <1>4 DEF OneMore
<1>6. /\ box' = Enqueued(box, cmd)
      /\ server' = server /\ late' = late /\ call' = call
  BY <1>2 DEF Enqueue, Persist, Recording, serverVars, driverVars
<1>7. Gentle(box, box') /\ Holds(box, box')
  BY <1>1, <1>2, EnqueueStep
<1>8. Honest(diary', cmd.key, cmd)
  BY <1>1, <1>2, <1>4, IssuedHonest
<1>9. cmd.type = "uploadGps" => \E p : cmd.points = <<p>>
  BY <1>2
<1>10. BoxHonest(diary', box')
  <2>1. RowsDated(diary, server)
    BY DEF TripsKept
  <2>2. BoxHonest(diary', box)
    BY <1>3, <1>5, <2>1, LaterHonest
  <2> QED BY <1>1, <1>2, <1>6, <1>8, <1>9, <2>2, PutInHonest
<1>11. cmd.type = "createTrip" => ~Known(diary, key)
  BY <1>1, <1>2 DEF Known, RecorderTyped, now, clock
<1>12. cmd.type # "createTrip" => ~Deletes(box, key)
  BY <1>1, <1>2 DEF Tracked
<1>13. key \in DOMAIN box.tripIds =>
         box.tripIds[key] \in S!Ids(server) /\ cmd.type # "createTrip"
  BY <1>11, <1>12 DEF TripsKept, BoxKnown, IdsRight, RightId
<1>14. Follows(trip, trip', cmd, slot, field)
  BY <1>1, IssuedFollows
<1>15. cmd.type = "createTrip" \/ (trip \in Trips /\ trip'.key = trip.key)
  BY <1>1, <1>2 DEF RecorderTyped
<1>16. cmd.type # "createTrip" => Visited(server, box, trip)
  BY <1>2, <1>3
<1>17. /\ cmd.type = "upsertAttempt" /\ cmd.attempt[2] > 1 =>
            There(server, box, trip.key, Prev(cmd.attempt))
       /\ \A c : /\ \A k, a : There(server, box, k, a) => There(server, c, k, a)
                 /\ cmd.type = "upsertAttempt" =>
                      There(server, c, trip.key, cmd.attempt)
                 => Visited(server, c, trip')
  BY <1>1, <1>2, <1>14, <1>15, <1>16, IssuedComesAfter
<1>18. cmd.type = "upsertAttempt" => trip.key = cmd.key
  BY <1>2
<1>19. /\ box'.tripIds = box.tripIds
       /\ MergesIn(box, box', cmd) \/ ComesLast(box, box', cmd)
  BY <1>1, <1>2, <1>6, <1>9, PutIn
<1>20. /\ \A k, a : There(server, box, k, a) => There(server, box', k, a)
       /\ cmd.type = "upsertAttempt" => There(server, box', cmd.key, cmd.attempt)
       /\ \A k : OnlyDeletes(box, k) => OnlyDeletes(box', k) \/ k = cmd.key
       /\ NoneWaits(server, box') /\ CreateOnce(box') /\ AllPreceded(server, box')
  BY <1>2, <1>3, <1>13, <1>17, <1>18, <1>19, PutInTurn
<1>21. Visited(server, box', trip')
  BY <1>17, <1>18, <1>20
<1>22. HeadsOnly(box')
  BY <1>1, <1>3, <1>7, GentleKeepsHeads
<1>23. KeepsIds(server, box, box')
  BY <1>2, <1>12, <1>13, <1>19, <1>20 DEF KeepsIds
<1> QED BY <1>1, <1>4, <1>5, <1>6, <1>7, <1>10, <1>19, <1>20, <1>21, <1>22, <1>23,
           PhoneKeepsTurn

(* A cancel takes away what is not under way; what is left of the trip has *)
(* nothing of its lane before it.                                          *)
LEMMA DiscardedTurn ==
  ASSUME NEW s, NEW b, IsState(b), HeadsOnly(b), NEW key \in Keys,
         NEW c, c = Discarded(b, key)
  PROVE  /\ c.tripIds = b.tripIds
         /\ KeepsIds(s, b, c)
         /\ \A d : BoxHonest(d, b) => BoxHonest(d, c)
         /\ NoneWaits(s, b) => NoneWaits(s, c)
         /\ CreateOnce(b) => CreateOnce(c)
         /\ AllPreceded(s, b) => AllPreceded(s, c)
<1> DEFINE delete == [type |-> "deleteTrip", key |-> key]
<1>1. /\ c.tripIds = b.tripIds
      /\ Ids(c) \subseteq (Ids(b) \ Discardable(b, key)) \cup {b.nextId}
      /\ Ids(b) \ Discardable(b, key) \subseteq Ids(c)
      /\ b.nextId \notin Ids(b)
      /\ \A i \in Ids(b) \ Discardable(b, key) : c.entries[i] = b.entries[i]
      /\ b.nextId \in Ids(c) => c.entries[b.nextId] = NewEntry(delete)
  <2> DEFINE r == Discarded(b, key)
             needed == ~Deleting(b, key)
                         /\ (key \in DOMAIN b.tripIds \/ CreateMayHaveLanded(b, key))
  <2>1. /\ r.tripIds = b.tripIds
        /\ r.deadLetters = b.deadLetters
        /\ r.paused = b.paused
        /\ b.nextId \notin Ids(b)
        /\ Ids(r) = (Ids(b) \ Discardable(b, key))
                      \cup IF needed THEN {b.nextId} ELSE {}
        /\ \A i \in Ids(b) \ Discardable(b, key) : r.entries[i] = b.entries[i]
        /\ needed => r.entries[b.nextId] =
                       NewEntry([type |-> "deleteTrip", key |-> key])
    BY DiscardedParts
  <2>2. c = r
    OBVIOUS
  <2> HIDE DEF r, needed
  <2>3. CASE needed
    BY <2>1, <2>2, <2>3
  <2>4. CASE ~needed
    BY <2>1, <2>2, <2>4
  <2> QED BY <2>3, <2>4
<1>2. b.nextId \in Ids(c) =>
        /\ TypeAt(c, b.nextId) = "deleteTrip" /\ KeyAt(c, b.nextId) = key
        /\ c.entries[b.nextId].cmd = delete
  BY <1>1 DEF NewEntry, TypeAt, KeyAt
<1>3. \A i \in Ids(c) : i # b.nextId =>
        /\ i \in Ids(b) /\ i \notin Discardable(b, key)
        /\ c.entries[i] = b.entries[i]
        /\ TypeAt(c, i) = TypeAt(b, i) /\ KeyAt(c, i) = KeyAt(b, i)
  BY <1>1 DEF TypeAt, KeyAt
<1>4. \A k : OnlyDeletes(b, k) => OnlyDeletes(c, k)
  BY <1>2, <1>3 DEF OnlyDeletes
<1>5. KeepsIds(s, b, c) /\ (NoneWaits(s, b) => NoneWaits(s, c))
  BY <1>1, <1>4 DEF KeepsIds, NoneWaits
<1>6. ASSUME NEW d, BoxHonest(d, b) PROVE BoxHonest(d, c)
  <2>1. Silent(delete)
    BY Quiet
  <2>2. Honest(d, key, delete)
    BY <2>1 DEF Honest, Silent
  <2> QED BY <1>2, <1>3, <1>6, <2>2 DEF BoxHonest
<1>7. CreateOnce(b) => CreateOnce(c)
  BY <1>1, <1>2, <1>3 DEF CreateOnce, CreateWaits
<1>8. ASSUME AllPreceded(s, b) PROVE AllPreceded(s, c)
  <2> SUFFICES ASSUME NEW i \in Ids(c), NEW a, a = c.entries[i].cmd.attempt,
                      TypeAt(c, i) = "upsertAttempt", a[2] > 1
               PROVE  \/ \E j \in Ids(c) : j < i /\ Brings(c, j, KeyAt(c, i), Prev(a))
                      \/ HasAttempt(s, c, KeyAt(c, i), Prev(a))
    BY DEF AllPreceded, Preceded
  <2>1. /\ i \in Ids(b) /\ i \notin Discardable(b, key)
        /\ c.entries[i] = b.entries[i]
        /\ TypeAt(b, i) = "upsertAttempt" /\ KeyAt(c, i) = KeyAt(b, i)
    BY <1>2, <1>3
  <2>2. \/ \E j \in Ids(b) : j < i /\ Brings(b, j, KeyAt(b, i), Prev(a))
        \/ HasAttempt(s, b, KeyAt(b, i), Prev(a))
    BY <1>8, <2>1 DEF AllPreceded, Preceded
  <2>3. CASE HasAttempt(s, b, KeyAt(b, i), Prev(a))
    BY <1>1, <2>1, <2>3 DEF HasAttempt
  <2>4. ASSUME NEW j \in Ids(b), j < i, Brings(b, j, KeyAt(b, i), Prev(a))
        PROVE  \E m \in Ids(c) : m < i /\ Brings(c, m, KeyAt(c, i), Prev(a))
    <3>1. CASE KeyAt(b, i) # key
      <4>1. j \notin Discardable(b, key)
        BY <2>4, <3>1 DEF Discardable, OfTrip, Brings, KeyAt
      <4>2. j \in Ids(c) /\ c.entries[j] = b.entries[j]
        BY <1>1, <4>1
      <4> QED BY <2>1, <2>4, <4>2 DEF Brings, KeyAt, TypeAt
    <3>2. CASE KeyAt(b, i) = key
      <4>1. b.entries[i].inFlight
        BY <2>1, <3>2 DEF Discardable, OfTrip, IsDelete, TypeAt, KeyAt
      <4>2. IsLaneHead(b, i)
        BY <2>1, <4>1 DEF HeadsOnly
      <4>3. LaneOf(b, j) = LaneOf(b, i)
        BY <2>1, <2>4 DEF Brings, LaneOf, Lane, TypeAt, KeyAt
      <4>4. i <= j
        BY <4>2, <4>3 DEF IsLaneHead
      <4>5. i \in Int /\ j \in Int
        <5>1. b.nextId \in Nat /\ Ids(b) \subseteq 1..(b.nextId - 1)
          BY StateFields
        <5>2. i \in 1..(b.nextId - 1) /\ j \in 1..(b.nextId - 1)
          BY <2>1, <5>1
        <5> QED BY <5>2
      <4> QED BY <2>4, <4>4, <4>5
    <3> QED BY <3>1, <3>2
  <2> QED BY <2>2, <2>3, <2>4
<1> QED BY <1>1, <1>5, <1>6, <1>7, <1>8

(* Recording keeps the turn.                                               *)
LEMMA RecordKeepsTurn ==
  ASSUME ScriptInTurn, Kept, TripsKept, TurnKept, Record
  PROVE  TurnKept'
<1>1. BoxTyped /\ RecorderTyped /\ IsState(box) /\ Awaited
  BY TypeParts DEF Kept, BoxTyped
<1>2. ASSUME NEW cmd, NEW key, NEW slot, NEW field, Issues(cmd, key, slot, field)
      PROVE  TurnKept'
  BY <1>2, IssuedKeepsTurn
<1>3. /\ InTurn(diary) /\ BoxHonest(diary, box) /\ NoneWaits(server, box)
      /\ CreateOnce(box) /\ AllPreceded(server, box) /\ HeadsOnly(box)
  BY DEF TurnKept
<1>4. CASE EndTrip \/ NothingToRecord \/ PersistRecorder
  <2>1. /\ box' = box /\ diary' = diary /\ trip' \in {trip, NoTrip}
        /\ call' = call /\ server' = server /\ late' = late
    BY <1>4 DEF EndTrip, NothingToRecord, PersistRecorder, Recording, driverVars,
                historyVars, serverVars
  <2>2. SameSaid(box, box')
    BY <2>1 DEF SameSaid
  <2> QED BY <1>1, <1>3, <2>1, <2>2, SameKeepsTurn
<1>5. CASE CancelTrip
  <2>1. /\ trip # NoTrip /\ box' = Discarded(box, trip.key) /\ diary' = diary
        /\ trip' = NoTrip /\ call' = call /\ server' = server /\ late' = late
    BY <1>5 DEF CancelTrip, Discard, Persist, Recording, driverVars, serverVars
  <2>2. trip.key \in Keys
    BY <2>1 DEF TripsKept, Known
  <2>3. /\ box'.tripIds = box.tripIds
        /\ KeepsIds(server, box, box')
        /\ BoxHonest(diary, box')
        /\ NoneWaits(server, box') /\ CreateOnce(box') /\ AllPreceded(server, box')
    BY <1>1, <1>3, <2>1, <2>2, DiscardedTurn
  <2>4. Grows(diary, diary')
    BY <1>1, <2>1 DEF RecorderTyped, Grows
  <2>5. Gentle(box, box') /\ Holds(box, box')
    BY <1>1, <2>1, <2>2, DiscardedGentle, DiscardedHolds
  <2>6. HeadsOnly(box')
    BY <1>1, <1>3, <2>5, GentleKeepsHeads
  <2> QED BY <1>1, <1>3, <2>1, <2>3, <2>4, <2>5, <2>6, PhoneKeepsTurn
<1> QED BY <1>1, <1>2, <1>4, <1>5, RecordSteps

(* What goes out is its command, and a delete is the last of its trip.     *)
LEMMA SentRight ==
  ASSUME TypeOK, TripsKept, TurnKept, NEW i \in Dispatchable(box), NEW c,
         c = [id |-> i, key |-> box.entries[i].cmd.key,
              req |-> RequestOf(box.entries[i].cmd), answer |-> NoAnswer]
  PROVE  CallRight(diary, server, box, c)
<1> DEFINE cmd == box.entries[i].cmd
<1>1. /\ i \in Ids(box) /\ Resolvable(box, cmd) /\ IsState(box)
      /\ IsDelete(cmd) => AloneInTrip(box, i)
  BY DEF Dispatchable, Ready, TypeOK
<1>2. cmd \in Commands
  BY <1>1, StateFields, EntryFields
<1>3. KeyAt(box, i) = cmd.key /\ TypeAt(box, i) = cmd.type
  BY DEF KeyAt, TypeAt
<1>4. cmd.key \in Keys /\ Honest(diary, cmd.key, cmd)
  BY <1>1, <1>3 DEF TurnKept, BoxHonest
<1>5. c.id = i /\ c.key = cmd.key /\ c.req = RequestOf(cmd) /\ c.answer = NoAnswer
  OBVIOUS
<1>6. IsDelete(cmd) => OnlyDeletes(box, cmd.key)
  BY <1>1, <1>3 DEF AloneInTrip, OnlyDeletes, IsDelete, KeyAt, TypeAt
<1>7. box.entries[i].cmd = cmd
  OBVIOUS
<1> HIDE DEF cmd
<1>8. Same(RequestOf(cmd), cmd)
  BY <1>2, CommandParts DEF RequestOf, Same
<1>9. ASSUME cmd.type # "createTrip"
      PROVE  /\ ReqRight(diary, server, box, RequestOf(cmd), cmd.key)
             /\ cmd.key \in DOMAIN box.tripIds
             /\ RequestOf(cmd).tripId = box.tripIds[cmd.key]
  <2> DEFINE req == RequestOf(cmd)
  <2>1. cmd.key \in DOMAIN box.tripIds
    BY <1>1, <1>4, <1>9, OutboxAssumption DEF Resolvable
  <2>2. req.tripId = box.tripIds[cmd.key]
    BY <1>2, <1>4, <1>9, <2>1, OutboxAssumption, CommandParts DEF RequestOf
  <2>3. Names(diary, server, req.tripId, cmd.key)
    BY <2>1, <2>2 DEF TripsKept, IdsRight, RightId
  <2> HIDE DEF req
  <2>4. \A slot, f, v : Tells(req, slot, f, v) <=> Tells(cmd, slot, f, v)
    BY <1>8, SameTells DEF req
  <2>5. /\ req.type = cmd.type
        /\ req.type = "updateTrip" => req.body = cmd.body
    BY <1>8 DEF Same, req
  <2>6. Honest(diary, cmd.key, req)
    BY <1>4, <2>4, <2>5 DEF Honest
  <2>7. req.type = "deleteTrip" => OnlyDeletes(box, cmd.key)
    BY <1>6, <2>5 DEF IsDelete
  <2>8. ReqRight(diary, server, box, req, cmd.key)
    BY <2>1, <2>2, <2>3, <2>6, <2>7 DEF ReqRight
  <2> QED BY <2>1, <2>2, <2>8 DEF req
<1>10. /\ NoAnswer \notin {Delivered, NotFound, Refused, Unreadable}
       /\ \A id \in Nat : NoAnswer # TripCreated(id)
  BY NoCallAssumption DEF Answers, Failures, TripCreated
<1>11. c.req.type = cmd.type /\ (c.req.type = "upsertAttempt" => c.req.attempt = cmd.attempt)
  BY <1>5, <1>8 DEF Same
<1> QED BY <1>5, <1>7, <1>9, <1>10, <1>11 DEF CallRight

(* An answer that takes entry i out: what it brought the server has.       *)
LEMMA TakenOutTurn ==
  ASSUME NEW s, NEW b, IsState(b), NEW c, NEW i \in Ids(b),
         Ids(c) = Ids(b) \ {i}, \A j \in Ids(c) : c.entries[j] = b.entries[j],
         KeepsIds(s, b, c),
         \A k \in DOMAIN c.tripIds :
           \/ c.tripIds[k] \in S!Ids(s)
           \/ k \in DOMAIN b.tripIds /\ c.tripIds[k] = b.tripIds[k],
         TypeAt(b, i) = "upsertAttempt" =>
           HasAttempt(s, b, KeyAt(b, i), b.entries[i].cmd.attempt)
  PROVE  /\ \A d : BoxHonest(d, b) => BoxHonest(d, c)
         /\ NoneWaits(s, b) => NoneWaits(s, c)
         /\ HeadsOnly(b) => HeadsOnly(c)
         /\ AllPreceded(s, b) => AllPreceded(s, c)
         /\ \A t : Visited(s, b, t) => Visited(s, c, t)
<1>1. \A j \in Ids(c) : /\ j \in Ids(b) /\ c.entries[j] = b.entries[j]
                        /\ TypeAt(c, j) = TypeAt(b, j) /\ KeyAt(c, j) = KeyAt(b, j)
                        /\ LaneOf(c, j) = LaneOf(b, j)
  BY DEF TypeAt, KeyAt, LaneOf
<1>2. ASSUME NEW d, BoxHonest(d, b) PROVE BoxHonest(d, c)
  BY <1>1, <1>2 DEF BoxHonest
<1>3. NoneWaits(s, b) => NoneWaits(s, c)
  BY <1>1 DEF NoneWaits, OnlyDeletes
<1>4. HeadsOnly(b) => HeadsOnly(c)
  BY <1>1 DEF HeadsOnly, IsLaneHead
<1>5. \A k, a : HasAttempt(s, b, k, a) => HasAttempt(s, c, k, a)
  BY DEF HasAttempt, KeepsIds
<1>6. ASSUME NEW j \in Ids(b), NEW k, NEW a, Brings(b, j, k, a)
      PROVE  (j \in Ids(c) /\ Brings(c, j, k, a)) \/ HasAttempt(s, c, k, a)
  <2>1. CASE j = i
    BY <1>5, <1>6, <2>1 DEF Brings
  <2>2. CASE j # i
    BY <1>1, <1>6, <2>2 DEF Brings
  <2> QED BY <2>1, <2>2
<1>7. ASSUME AllPreceded(s, b) PROVE AllPreceded(s, c)
  <2> SUFFICES ASSUME NEW m \in Ids(c), NEW a, a = c.entries[m].cmd.attempt,
                      TypeAt(c, m) = "upsertAttempt", a[2] > 1
               PROVE  \/ \E j \in Ids(c) : j < m /\ Brings(c, j, KeyAt(c, m), Prev(a))
                      \/ HasAttempt(s, c, KeyAt(c, m), Prev(a))
    BY DEF AllPreceded, Preceded
  <2>1. \/ \E j \in Ids(b) : j < m /\ Brings(b, j, KeyAt(c, m), Prev(a))
        \/ HasAttempt(s, b, KeyAt(c, m), Prev(a))
    BY <1>1, <1>7 DEF AllPreceded, Preceded
  <2> QED BY <1>5, <1>6, <2>1
<1>8. ASSUME NEW t, Visited(s, b, t) PROVE Visited(s, c, t)
  BY <1>5, <1>6, <1>8 DEF Visited
<1> QED BY <1>2, <1>3, <1>4, <1>7, <1>8

(* An answer keeps the turn.                                               *)
LEMMA ReturnKeepsTurn ==
  ASSUME Kept, TripsKept, TurnKept, Return
  PROVE  TurnKept'
<1> DEFINE i == call.id
           outcome == call.answer
           cmd == box.entries[i].cmd
           c == Completed(box, i, outcome)
<1>1. IsState(box) /\ Awaited /\ Orderly(box) /\ RecorderTyped
  BY TypeParts DEF Kept, BoxTyped, QueueKept
<1>2. /\ call # NoCall /\ outcome # NoAnswer /\ call' = NoCall
      /\ i \in Ids(box) /\ box.entries[i].inFlight
      /\ box' = c
      /\ server' = server /\ late' = late /\ diary' = diary /\ trip' = trip
  BY DEF Return, Complete, Persist, serverVars, recorderVars, historyVars
<1>3. /\ outcome \in OutcomesOf(cmd, Nat)
      /\ call.req.type = cmd.type
      /\ TypeAt(box, i) = cmd.type /\ KeyAt(box, i) = cmd.key
  BY <1>1, <1>2 DEF Awaited, TypeAt, KeyAt
<1>4. call.key = cmd.key
  BY <1>2, <1>3 DEF TripsKept, CallFit
<1>5. CallRight(diary, server, box, call)
  BY <1>2 DEF TurnKept
<1>6. /\ InTurn(diary) /\ BoxHonest(diary, box) /\ NoneWaits(server, box)
      /\ CreateOnce(box) /\ AllPreceded(server, box) /\ HeadsOnly(box)
      /\ trip # NoTrip => SoFar(diary, trip) /\ Visited(server, box, trip)
  BY DEF TurnKept
<1>7. Grows(diary, diary')
  BY <1>1, <1>2 DEF RecorderTyped, Grows
<1>8. \/ /\ cmd.type = "createTrip"
         /\ \E id \in Nat : outcome = TripCreated(id) /\ c = AfterTripCreated(box, i, id)
      \/ /\ cmd.type # "createTrip"
         /\ \/ outcome \in {Delivered, Unreadable}
            \/ outcome = NotFound /\ IsDelete(cmd)
         /\ c = AfterDelivered(box, i)
      \/ outcome = Transient /\ c = AfterRetry(box, i)
      \/ outcome = Unauthorized /\ c = AfterPause(box, i)
      \/ /\ \/ outcome = Refused
            \/ outcome = NotFound /\ ~IsDelete(cmd)
            \/ outcome = Unreadable /\ cmd.type = "createTrip"
         /\ c = AfterReject(box, i)
  BY <1>1, <1>2, <1>3, CompletedCases
<1> HIDE DEF c
<1>9. ASSUME Ids(box') = Ids(box) \ {i},
             \A j \in Ids(box') : box'.entries[j] = box.entries[j],
             KeepsIds(server, box, box'), CreateOnce(box'),
             \A k \in DOMAIN box'.tripIds :
               \/ box'.tripIds[k] \in S!Ids(server)
               \/ k \in DOMAIN box.tripIds /\ box'.tripIds[k] = box.tripIds[k],
             cmd.type = "upsertAttempt" =>
               HasAttempt(server, box, KeyAt(box, i), cmd.attempt)
      PROVE  TurnKept'
  <2>1. /\ BoxHonest(diary, box')
        /\ NoneWaits(server, box') /\ HeadsOnly(box') /\ AllPreceded(server, box')
        /\ trip # NoTrip => Visited(server, box', trip)
    BY <1>1, <1>2, <1>3, <1>6, <1>9, TakenOutTurn
  <2> QED BY <1>1, <1>2, <1>6, <1>7, <1>9, <2>1, PhoneKeepsTurn
<1>10. ASSUME NEW id \in Nat, cmd.type = "createTrip", outcome = TripCreated(id),
              c = AfterTripCreated(box, i, id)
       PROVE  TurnKept'
  <2> DEFINE key == cmd.key
  <2>1. /\ Ids(box') = Ids(box) \ {i}
        /\ \A j \in Ids(box') : box'.entries[j] = box.entries[j]
        /\ DOMAIN box'.tripIds = DOMAIN box.tripIds \cup {key}
        /\ box'.tripIds[key] = id
        /\ \A k \in DOMAIN box.tripIds \ {key} : box'.tripIds[k] = box.tripIds[k]
    BY <1>1, <1>2, <1>10, TripCreatedParts
  <2>2. id \in S!Ids(server)
    BY <1>5, <1>10 DEF CallRight
  <2>3. key \notin DOMAIN box.tripIds
    BY <1>2, <1>3, <1>6, <1>10 DEF CreateOnce, CreateWaits
  <2>4. \A j \in Ids(box') : TypeAt(box', j) = TypeAt(box, j) /\ KeyAt(box', j) = KeyAt(box, j)
    BY <2>1 DEF TypeAt, KeyAt
  <2>5. \A k : OnlyDeletes(box, k) => OnlyDeletes(box', k)
    BY <2>1, <2>4 DEF OnlyDeletes
  <2>6. KeepsIds(server, box, box')
    BY <2>1, <2>3, <2>5 DEF KeepsIds
  <2>7. ~CreateWaits(box', key)
    <3> SUFFICES ASSUME NEW j \in Ids(box'), TypeAt(box', j) = "createTrip",
                        KeyAt(box', j) = key
                 PROVE  FALSE
      BY DEF CreateWaits
    <3>1. i <= j /\ j <= i /\ j # i /\ j \in Ids(box)
      BY <1>1, <1>2, <1>3, <1>10, <2>1, <2>4 DEF Orderly, CreateFirst
    <3>2. box.nextId \in Nat /\ Ids(box) \subseteq 1..(box.nextId - 1)
      BY <1>1, StateFields
    <3>3. i \in 1..(box.nextId - 1) /\ j \in 1..(box.nextId - 1)
      BY <1>2, <3>1, <3>2
    <3> QED BY <3>1, <3>2, <3>3
  <2>8. \A k : CreateWaits(box', k) => CreateWaits(box, k)
    BY <2>1, <2>4 DEF CreateWaits
  <2>9. CreateOnce(box')
    BY <1>6, <2>1, <2>7, <2>8 DEF CreateOnce
  <2> QED BY <1>9, <1>10, <2>1, <2>2, <2>3, <2>6, <2>9
<1>11. CASE cmd.type # "createTrip" /\ c = AfterDelivered(box, i)
            /\ (outcome \in {Delivered, Unreadable} \/ (outcome = NotFound /\ IsDelete(cmd)))
  <2>1. /\ Ids(box') = Ids(box) \ {i}
        /\ \A j \in Ids(box') : box'.entries[j] = box.entries[j]
        /\ DOMAIN box'.tripIds = IF IsDelete(cmd) THEN DOMAIN box.tripIds \ {cmd.key}
                                 ELSE DOMAIN box.tripIds
        /\ \A k \in DOMAIN box'.tripIds : box'.tripIds[k] = box.tripIds[k]
    <3> DEFINE r == AfterDelivered(box, i)
    <3>1. /\ Ids(r) = Ids(box) \ {i}
          /\ \A j \in Ids(r) : r.entries[j] = box.entries[j]
          /\ DOMAIN r.tripIds = IF IsDelete(cmd) THEN DOMAIN box.tripIds \ {cmd.key}
                               ELSE DOMAIN box.tripIds
          /\ \A k \in DOMAIN r.tripIds : r.tripIds[k] = box.tripIds[k]
      BY <1>1, <1>2, DeliveredParts
    <3>2. box' = r
      BY <1>2, <1>11
    <3> HIDE DEF r
    <3> QED BY <3>1, <3>2
  <2>2. IsDelete(cmd) => box.tripIds[cmd.key] \notin S!Ids(server)
    BY <1>3, <1>4, <1>5, <1>11 DEF CallRight, IsDelete
  <2>3. \A j \in Ids(box') : TypeAt(box', j) = TypeAt(box, j) /\ KeyAt(box', j) = KeyAt(box, j)
    BY <2>1 DEF TypeAt, KeyAt
  <2>4. \A k : OnlyDeletes(box, k) => OnlyDeletes(box', k)
    BY <2>1, <2>3 DEF OnlyDeletes
  <2>5. KeepsIds(server, box, box')
    BY <2>1, <2>2, <2>4 DEF KeepsIds
  <2>6. CreateOnce(box')
    BY <1>6, <2>1, <2>3 DEF CreateOnce, CreateWaits
  <2>7. cmd.type = "upsertAttempt" => HasAttempt(server, box, KeyAt(box, i), cmd.attempt)
    BY <1>3, <1>4, <1>5, <1>11 DEF CallRight, IsDelete
  <2>8. \A k \in DOMAIN box'.tripIds :
          k \in DOMAIN box.tripIds /\ box'.tripIds[k] = box.tripIds[k]
    BY <2>1
  <2> QED BY <1>9, <2>1, <2>5, <2>6, <2>7, <2>8
<1>12. CASE (outcome = Transient /\ c = AfterRetry(box, i))
            \/ (outcome = Unauthorized /\ c = AfterPause(box, i))
  <2>1. /\ box'.tripIds = box.tripIds
        /\ Ids(box') = Ids(box)
        /\ \A j \in Ids(box) \ {i} : box'.entries[j] = box.entries[j]
        /\ box'.entries[i].cmd = cmd
        /\ ~box'.entries[i].inFlight
    BY <1>1, <1>2, <1>12, PutBackParts
  <2>2. \A j \in Ids(box) : /\ box'.entries[j].cmd = box.entries[j].cmd
                            /\ box'.entries[j].inFlight => box.entries[j].inFlight
    BY <2>1
  <2>3. SameSaid(box, box') /\ SameQueue(box, box')
    BY <2>1, <2>2 DEF SameSaid, SameQueue
  <2>4. HeadsOnly(box')
    BY <1>6, <2>3, SameSaidTurn
  <2> QED BY <1>1, <1>2, <2>3, <2>4, SameKeepsTurn
<1>13. CASE c = AfterReject(box, i)
            /\ \/ outcome = Refused
               \/ outcome = NotFound /\ ~IsDelete(cmd)
               \/ outcome = Unreadable /\ cmd.type = "createTrip"
  BY <1>3, <1>5, <1>13 DEF CallRight, IsDelete
<1> QED BY <1>8, <1>10, <1>11, <1>12, <1>13

(* The driver keeps the turn: it sends, takes answers and waits.           *)
LEMMA DriveKeepsTurn ==
  ASSUME Reliable, Kept, TripsKept, TurnKept, Drive
  PROVE  TurnKept'
<1>1. /\ BoxTyped /\ RecorderTyped /\ DriverTyped /\ IsState(box) /\ Awaited
      /\ TypeOK /\ HeadsOnly(box)
  BY TypeParts DEF Kept, BoxTyped, TurnKept
<1>2. /\ trip' = trip /\ diary' = diary /\ server' = server /\ late' = late
  BY DEF Drive, SendOne, SendFailsToSave, FindsNothing, DrainEnds, Ending, Driving,
         Return, WakeFires, TimePasses, Expedite, SaveToken, ClearReviews,
         recorderVars, historyVars, serverVars
<1>3. ASSUME SameQueue(box, box'), call' = call PROVE TurnKept'
  <2>1. SameSaid(box, box')
    BY <1>3 DEF SameQueue, SameSaid
  <2>2. HeadsOnly(box')
    BY <1>1, <1>3, <2>1, SameSaidTurn
  <2> QED BY <1>1, <1>2, <1>3, <2>1, <2>2, SameKeepsTurn
<1>4. CASE SendOne
  <2>1. PICK i \in Dispatchable(box) :
          /\ box' = Dispatched(box, i)
          /\ call' = [id |-> i, key |-> box.entries[i].cmd.key,
                      req |-> RequestOf(box.entries[i].cmd), answer |-> NoAnswer]
    BY <1>4 DEF SendOne
  <2>2. i \in Ids(box)
    BY DEF Dispatchable, Ready
  <2>3. CallRight(diary, server, box, call')
    BY <1>1, <2>1, SentRight
  <2>4. SameCmds(box, box')
    BY <1>1, <2>1, <2>2, FlagsSameCmds
  <2>5. SameSaid(box, box')
    BY <2>4 DEF SameCmds, SameSaid
  <2>6. HeadsOnly(box')
    BY <1>1, <2>1, DispatchedState
  <2>7. Fits(diary, server, box, call'.req)
    <3>1. CallFit(diary, server, removed, Dispatched(box, i), call')
      BY <1>1, <2>1, SentFits
    <3>2. Shrinks(box, box')
      BY <1>1, <2>1, <2>2, DispatchedShrinks
    <3>3. \A k : Doomed(box', k) => Doomed(box, k)
      BY <2>5 DEF SameSaid, Doomed, Deletes, HasTrip, CreateWaits, TypeAt, KeyAt
    <3> QED BY <2>1, <3>1, <3>3 DEF CallFit, Fits
  <2>8. call'.id \in Ids(box)
    BY <2>1, <2>2
  <2> QED BY <1>1, <1>2, <2>3, <2>5, <2>6, <2>7, <2>8, SameKeepsTurn
<1>5. CASE SendFailsToSave
  BY <1>5 DEF SendFailsToSave, Reliable
<1>6. CASE FindsNothing \/ DrainEnds \/ WakeFires
  <2>1. box' = box /\ call' = call
    BY <1>6 DEF FindsNothing, DrainEnds, Ending, WakeFires
  <2>2. SameQueue(box, box')
    BY <2>1 DEF SameQueue
  <2> QED BY <1>3, <2>1, <2>2
<1>7. CASE Return
  BY <1>7, ReturnKeepsTurn
<1>8. ASSUME NEW i \in Ids(box), TimePasses(i) PROVE TurnKept'
  <2>1. box' = Due(box, i) /\ call' = call
    BY <1>8 DEF TimePasses, RetryDue, driverVars
  <2> QED BY <1>1, <1>3, <2>1, FlagsOrderly
<1>9. CASE Expedite \/ SaveToken \/ ClearReviews
  <2>1. box' \in {Expedited(box), Resumed(box), Cleared(box)} /\ call' = call
    BY <1>9 DEF Expedite, ExpediteRetries, SaveToken, Resume, ClearReviews,
                ClearDeadLetters, Persist, driverVars
  <2>2. SameQueue(box, box')
    BY <1>1, <2>1, FlagsOrderly
  <2> QED BY <1>3, <2>1, <2>2
<1> QED BY <1>4, <1>5, <1>6, <1>7, <1>8, <1>9 DEF Drive

(* A relaunch starts from what is in the files, and nothing is awaited.    *)
LEMMA CrashKeepsTurn ==
  ASSUME Reliable, Kept, TripsKept, TurnKept, Crash
  PROVE  TurnKept'
<1>1. /\ BoxTyped /\ RecorderTyped /\ IsState(saved) /\ Awaited /\ HeadsOnly(box)
      /\ SameRecords(box, saved) /\ RecorderSaved
  BY TypeParts DEF Kept, QueueKept, BoxTyped, TurnKept
<1>2. /\ box' = Reloaded(saved) /\ trip' = savedTrip /\ call' = NoCall
      /\ server' = server /\ late' = late /\ diary' = diary
      /\ turn # "persist"
  BY DEF Crash, Relaunch, Reliable, serverVars, historyVars
<1>3. trip' = trip
  BY <1>1, <1>2 DEF RecorderSaved
<1>4. SameQueue(box, box')
  BY <1>1, <1>2, RelaunchKeeps
<1>5. SameSaid(box, box')
  BY <1>4 DEF SameQueue, SameSaid
<1>6. HeadsOnly(box')
  BY <1>1, <1>4, <1>5, SameSaidTurn
<1> QED BY <1>1, <1>2, <1>3, <1>5, <1>6, SameKeepsTurn

-----------------------------------------------------------------------------
(* The network. *)

(* The attempts of the trip being recorded stay, as nobody deletes it.     *)
LEMMA VisitedGoesOn ==
  ASSUME NEW d, NEW s, NEW t, NEW r, NEW b, Evolves(d, s, t, b), Goes(d, s, t, b),
         IdsRight(d, s, r, b), NEW u, ~Deletes(b, u.key), Visited(s, b, u)
  PROVE  Visited(t, b, u)
<1>1. ASSUME NEW a, HasAttempt(s, b, u.key, a) PROVE HasAttempt(t, b, u.key, a)
  <2>1. /\ u.key \in DOMAIN b.tripIds /\ b.tripIds[u.key] \in S!Ids(s)
        /\ a \in DOMAIN s.trips[b.tripIds[u.key]].attempts
    BY <1>1 DEF HasAttempt
  <2>2. RowKey(d, s, b.tripIds[u.key]) = u.key
    BY <2>1 DEF IdsRight, RightId, Names
  <2>3. ~Doomed(b, u.key)
    BY <2>1 DEF Doomed, HasTrip
  <2>4. b.tripIds[u.key] \in S!Ids(t)
    BY <2>1, <2>2, <2>3 DEF Evolves
  <2> QED BY <2>1, <2>4 DEF Goes, HasAttempt
<1> QED BY <1>1 DEF Visited

(* The call c is that of its entry.                                        *)
OfEntry(b, c) ==
  /\ c.id \in Ids(b)
  /\ b.entries[c.id].inFlight
  /\ KeyAt(b, c.id) = c.key /\ TypeAt(b, c.id) = c.req.type
  /\ c.req \in PhoneRequests

(* What was true of an answer is true after the next request.              *)
LEMMA CallGoesOn ==
  ASSUME NEW d, NEW s, NEW t, NEW r, NEW b, IsServer(s), IsServer(t), IsState(b),
         Evolves(d, s, t, b), Goes(d, s, t, b), IdsRight(d, s, r, b),
         NEW c, OfEntry(b, c), CallRight(d, s, b, c),
         \A id \in Nat : c.answer = TripCreated(id) =>
           c.req.type = "createTrip" /\ Names(d, s, id, c.key)
  PROVE  CallRight(d, t, b, c)
<1>1. c.id \in Ids(b) /\ KeyAt(b, c.id) = c.key /\ TypeAt(b, c.id) = c.req.type
  BY DEF OfEntry
<1>2. c.req.type # "deleteTrip" => ~OnlyDeletes(b, c.key)
  BY <1>1 DEF OnlyDeletes
<1>3. ASSUME c.req.type # "createTrip"
      PROVE  /\ ReqRight(d, s, b, c.req, c.key) /\ ReqRight(d, t, b, c.req, c.key)
             /\ c.key \in DOMAIN b.tripIds /\ c.req.tripId = b.tripIds[c.key]
             /\ c.req.tripId \in Nat
  <2>1. /\ ReqRight(d, s, b, c.req, c.key)
        /\ c.key \in DOMAIN b.tripIds /\ c.req.tripId = b.tripIds[c.key]
    BY <1>3 DEF CallRight
  <2>2. c.req.tripId \in Nat
    BY <2>1 DEF IsState
  <2>3. c.req.tripId \in Int
    BY <2>2
  <2> QED BY <2>1, <2>2, <2>3, GoesOn
<1>4. ASSUME c.req.type = "upsertAttempt", HasAttempt(s, b, c.key, c.req.attempt)
      PROVE  HasAttempt(t, b, c.key, c.req.attempt)
  BY <1>2, <1>4, GoesOn
<1>5. ASSUME c.req.type = "deleteTrip", c.req.tripId \notin S!Ids(s)
      PROVE  c.req.tripId \notin S!Ids(t)
  <2>1. c.req.tripId <= s.lastId
    BY <1>3, <1>5 DEF ReqRight, Names
  <2> QED BY <1>5, <2>1 DEF Evolves
<1>6. ASSUME NEW id \in Nat, c.answer = TripCreated(id), id \in S!Ids(s)
      PROVE  id \in S!Ids(t)
  <2>1. c.req.type = "createTrip" /\ RowKey(d, s, id) = c.key
    BY <1>6 DEF Names
  <2> QED BY <1>2, <1>6, <2>1 DEF Goes
<1> QED BY <1>3, <1>4, <1>5, <1>6 DEF CallRight

(* A request the server handles, in time or late, leaves things in turn.   *)
LEMMA HandledTurn ==
  ASSUME Kept, TripsKept, TurnKept, NEW req \in PhoneRequests,
         Fits(diary, server, box, req), Handles(req),
         req.type # "createTrip" =>
           \E k \in Keys : ReqRight(diary, server, box, req, k)
  PROVE  /\ RowsHonest(diary, server') /\ Unique(server') /\ Named(diary, server', box)
         /\ NoneWaits(server', box) /\ AllPreceded(server', box)
         /\ trip # NoTrip => Visited(server', box, trip)
         /\ call # NoCall => CallRight(diary, server', box, call)
         /\ LateRight(diary, server', box, late)
<1>1. /\ BoxTyped /\ DriverTyped /\ RecorderTyped /\ IsServer(server) /\ Awaited
      /\ Len(diary) \in Nat /\ IsState(box)
  BY TypeParts DEF Kept, RecorderTyped, BoxTyped
<1>2. /\ RowsDated(diary, server) /\ IdsRight(diary, server, removed, box)
      /\ call # NoCall => CallFit(diary, server, removed, box, call)
  BY DEF TripsKept
<1>3. /\ InTurn(diary) /\ RowsHonest(diary, server) /\ Unique(server)
      /\ Named(diary, server, box) /\ NoneWaits(server, box) /\ AllPreceded(server, box)
      /\ trip # NoTrip => Visited(server, box, trip)
      /\ call # NoCall => CallRight(diary, server, box, call)
      /\ LateRight(diary, server, box, late)
  BY DEF TurnKept
<1>4. server' = S!Served(server, req).state
  BY DEF Handles
<1>5. diary \in Seq(Writings)
  BY <1>1 DEF RecorderTyped
<1>6. IsServer(server') /\ Evolves(diary, server, server', box)
  BY <1>1, <1>2, <1>4, ServedType, ServedEvolves
<1>7. /\ RowsHonest(diary, server') /\ Unique(server') /\ Named(diary, server', box)
      /\ Goes(diary, server, server', box)
  BY <1>1, <1>2, <1>3, <1>4, <1>5, ServedInTurn
<1>8. /\ NoneWaits(server', box) /\ AllPreceded(server', box)
      /\ \A k, q : ReqRight(diary, server, box, q, k) /\ q.tripId \in Int
                     => ReqRight(diary, server', box, q, k)
  BY <1>1, <1>2, <1>3, <1>6, <1>7, GoesOn
<1>9. trip # NoTrip => Visited(server', box, trip)
  <2>1. trip # NoTrip => ~Deletes(box, trip.key)
    BY DEF Kept, QueueKept, Tracked
  <2> QED BY <1>2, <1>3, <1>6, <1>7, <2>1, VisitedGoesOn
<1>10. ASSUME call # NoCall PROVE CallRight(diary, server', box, call)
  <2>1. OfEntry(box, call)
    <3>1. call.req \in PhoneRequests
      BY <1>1, <1>10 DEF DriverTyped, Calls
    <3> QED BY <1>1, <1>2, <1>10, <3>1 DEF OfEntry, Awaited, CallFit, TypeAt
  <2>2. \A id \in Nat : call.answer = TripCreated(id) =>
          call.req.type = "createTrip" /\ Names(diary, server, id, call.key)
    BY <1>1, <1>2, <1>10, CreatedByCreate DEF CallFit, RightId
  <2> QED BY <1>1, <1>2, <1>3, <1>6, <1>7, <1>10, <2>1, <2>2, CallGoesOn
<1>11. LateRight(diary, server', box, late)
  <2> SUFFICES ASSUME NEW q \in late, q.type # "createTrip"
               PROVE  /\ q.tripId \in Nat
                      /\ \E k \in Keys : ReqRight(diary, server', box, q, k)
    BY DEF LateRight
  <2>1. q.tripId \in Nat
    BY <1>3 DEF LateRight
  <2>2. PICK k \in Keys : ReqRight(diary, server, box, q, k)
    BY <1>3 DEF LateRight
  <2>3. q.tripId \in Int
    BY <2>1
  <2> QED BY <1>8, <2>1, <2>2, <2>3
<1> QED BY <1>3, <1>7, <1>8, <1>9, <1>10, <1>11

(* Whoever is not deleting finds the row, and the attempt before is there. *)
LEMMA CallFindsRow ==
  ASSUME NEW d, NEW s, NEW b, IsState(b), NoneWaits(s, b), AllPreceded(s, b),
         HeadsOnly(b), NEW c, OfEntry(b, c), CallRight(d, s, b, c),
         c.req.type \notin {"createTrip", "deleteTrip"}
  PROVE  /\ c.req.tripId \in S!Ids(s)
         /\ c.req.type = "upsertAttempt" /\ c.req.attempt[2] > 1 =>
              Prev(c.req.attempt) \in DOMAIN s.trips[c.req.tripId].attempts
<1>1. /\ c.id \in Ids(b) /\ b.entries[c.id].inFlight
      /\ KeyAt(b, c.id) = c.key /\ TypeAt(b, c.id) = c.req.type
  BY DEF OfEntry
<1>2. c.key \in DOMAIN b.tripIds /\ c.req.tripId = b.tripIds[c.key]
  BY DEF CallRight
<1>3. c.req.tripId \in S!Ids(s)
  BY <1>1, <1>2 DEF NoneWaits, OnlyDeletes
<1>4. ASSUME c.req.type = "upsertAttempt", c.req.attempt[2] > 1
      PROVE  Prev(c.req.attempt) \in DOMAIN s.trips[c.req.tripId].attempts
  <2>1. c.req.attempt = b.entries[c.id].cmd.attempt
    BY <1>4 DEF CallRight
  <2>2. \/ \E j \in Ids(b) : j < c.id /\ Brings(b, j, c.key, Prev(c.req.attempt))
        \/ HasAttempt(s, b, c.key, Prev(c.req.attempt))
    BY <1>1, <1>4, <2>1 DEF AllPreceded, Preceded
  <2>3. ASSUME NEW j \in Ids(b), j < c.id, Brings(b, j, c.key, Prev(c.req.attempt))
        PROVE  FALSE
    <3>1. IsLaneHead(b, c.id)
      BY <1>1 DEF HeadsOnly
    <3>2. LaneOf(b, j) = LaneOf(b, c.id)
      BY <1>1, <1>4, <2>3 DEF Brings, LaneOf, Lane, TypeAt, KeyAt
    <3>3. c.id <= j
      BY <3>1, <3>2 DEF IsLaneHead
    <3>4. b.nextId \in Nat /\ Ids(b) \subseteq 1..(b.nextId - 1)
      BY StateFields
    <3>5. j \in 1..(b.nextId - 1) /\ c.id \in 1..(b.nextId - 1)
      BY <1>1, <3>4
    <3> QED BY <2>3, <3>3, <3>5
  <2> QED BY <1>2, <2>2, <2>3 DEF HasAttempt
<1> QED BY <1>3, <1>4

(* Points of a row that is there are taken.                                *)
LEMMA PointsTaken ==
  ASSUME NEW s, IsServer(s), NEW req \in PhoneRequests, req.type = "uploadGps",
         req.tripId \in S!Ids(s)
  PROVE  S!Served(s, req).outcome = Delivered
<1> DEFINE t == S!Served(s, req).state
           outcome == S!Served(s, req).outcome
           id == req.tripId
<1>1. \/ /\ id # NoTrip /\ id \notin S!Ids(s)
         /\ t = s
         /\ outcome = NotFound
      \/ /\ id = NoTrip \/ id \in S!Ids(s)
         /\ outcome = Delivered
         /\ t = [trips |-> s.trips, gps |-> t.gps, lastId |-> s.lastId]
         /\ S!Ids(t) = S!Ids(s)
         /\ DOMAIN t.gps = DOMAIN s.gps \cup req.points
         /\ t.gps = [p \in DOMAIN t.gps |->
                       IF p \in DOMAIN s.gps THEN s.gps[p] ELSE id]
  BY GpsParts
<1> HIDE DEF t, outcome
<1>2. outcome = Delivered
  BY <1>1
<1> QED BY <1>2 DEF outcome

(* A delete leaves no row, whether it finds one or not; t is the server    *)
(* after it.                                                               *)
LEMMA DeleteTakes ==
  ASSUME NEW s, IsServer(s), NEW req \in PhoneRequests, req.type = "deleteTrip",
         NEW t, t = S!Served(s, req).state
  PROVE  /\ S!Served(s, req).outcome \in {Delivered, NotFound}
         /\ req.tripId \notin S!Ids(t)
<1> DEFINE u == S!Served(s, req).state
           outcome == S!Served(s, req).outcome
           id == req.tripId
<1>1. /\ outcome = IF id \in S!Ids(s) THEN Delivered ELSE NotFound
      /\ id \notin S!Ids(s) => u = s
      /\ u = [trips |-> u.trips, gps |-> u.gps, lastId |-> s.lastId]
      /\ S!Ids(u) = S!Ids(s) \ {id}
      /\ u.trips = [i \in S!Ids(u) |-> u.trips[i]]
      /\ \A i \in S!Ids(u) : u.trips[i] = s.trips[i]
      /\ DOMAIN u.gps \subseteq DOMAIN s.gps
      /\ u.gps = [p \in DOMAIN u.gps |-> s.gps[p]]
      /\ id \in S!Ids(s) => DOMAIN u.gps = {p \in DOMAIN s.gps : s.gps[p] # id}
  BY DeleteParts
<1>2. t = u
  OBVIOUS
<1> HIDE DEF u, outcome
<1>3. outcome \in {Delivered, NotFound} /\ id \notin S!Ids(t)
  BY <1>1, <1>2
<1> QED BY <1>3 DEF outcome

(* A request in time is not turned down, and its answer is true: c is the  *)
(* call before, m the call after it is served.                             *)
LEMMA ServedRight ==
  ASSUME ScriptInTurn, NEW d \in Seq(Writings), InTurn(d), NEW s, IsServer(s),
         RowsDated(d, s), RowsHonest(d, s), Unique(s),
         NEW b, IsState(b), Named(d, s, b), NoneWaits(s, b), AllPreceded(s, b),
         HeadsOnly(b), NEW c, OfEntry(b, c), CallRight(d, s, b, c),
         NEW t, t = S!Served(s, c.req).state, CallRight(d, t, b, c),
         NEW m, m.id = c.id, m.key = c.key, m.req = c.req,
         m.answer \in {S!Served(s, c.req).outcome, Transient}
  PROVE  CallRight(d, t, b, m)
<1> DEFINE req == c.req
           outcome == S!Served(s, req).outcome
<1>1. req \in PhoneRequests
  BY DEF OfEntry
<1>2. /\ req.type # "createTrip" =>
           /\ ReqRight(d, s, b, req, c.key) /\ ReqRight(d, t, b, req, c.key)
           /\ c.key \in DOMAIN b.tripIds /\ req.tripId = b.tripIds[c.key]
      /\ req.type = "upsertAttempt" => req.attempt = b.entries[c.id].cmd.attempt
  BY DEF CallRight
<1>3. req.type \notin {"createTrip", "deleteTrip"} =>
        /\ req.tripId \in S!Ids(s)
        /\ req.type = "upsertAttempt" /\ req.attempt[2] > 1 =>
             Prev(req.attempt) \in DOMAIN s.trips[req.tripId].attempts
  BY CallFindsRow
<1>4. CASE req.type = "createTrip"
  <2>1. PICK id : outcome = TripCreated(id)
    BY <1>1, <1>4, CreateAccepted
  <2>2. id \in S!Ids(t)
    <3>1. \/ t = s /\ \E i \in S!SameKey(s, req) :
                        outcome = IF s.trips[i].tripDate = Today THEN TripCreated(i)
                                  ELSE Refused
          \/ outcome = TripCreated(s.lastId + 1) /\ S!Ids(t) = S!Ids(s) \cup {s.lastId + 1}
      BY <1>1, <1>4, CreateParts
    <3>2. CASE t = s /\ \E i \in S!SameKey(s, req) :
                        outcome = IF s.trips[i].tripDate = Today THEN TripCreated(i)
                                  ELSE Refused
      <4>1. PICK i \in S!SameKey(s, req) :
              outcome = IF s.trips[i].tripDate = Today THEN TripCreated(i) ELSE Refused
        BY <3>2
      <4>2. i = id
        BY <2>1, <4>1 DEF TripCreated, Refused
      <4>3. i \in S!Ids(s)
        BY <4>1 DEF S!SameKey
      <4> QED BY <3>2, <4>2, <4>3
    <3>3. CASE outcome = TripCreated(s.lastId + 1)
                 /\ S!Ids(t) = S!Ids(s) \cup {s.lastId + 1}
      BY <2>1, <3>3 DEF TripCreated
    <3> QED BY <3>1, <3>2, <3>3
  <2>3. m.answer \in {TripCreated(id), Transient}
    BY <2>1
  <2>4. /\ m.answer \notin {Refused, Unreadable, NotFound}
        /\ \A i \in Nat : m.answer = TripCreated(i) => i = id
    BY <2>3 DEF TripCreated, Transient, Refused, Unreadable, NotFound
  <2> QED BY <1>4, <2>2, <2>4 DEF CallRight
<1>5. CASE req.type \notin {"createTrip", "deleteTrip"}
  <2>1. req.type \in {"updateTrip", "upsertAttempt", "uploadGps"}
    BY <1>1, <1>5 DEF PhoneRequests
  <2>2. outcome = Delivered
    <3>1. CASE req.type = "updateTrip"
      BY <1>1, <1>2, <1>3, <1>5, <3>1, UpdateInTurn
    <3>2. CASE req.type = "upsertAttempt"
      BY <1>1, <1>2, <1>3, <1>5, <3>2, UpsertInTurn
    <3>3. CASE req.type = "uploadGps"
      <4>1. req.tripId \in S!Ids(s)
        BY <1>3, <1>5
      <4> QED BY <1>1, <3>3, <4>1, PointsTaken
    <3> QED BY <2>1, <3>1, <3>2, <3>3
  <2>3. m.answer \in {Delivered, Transient}
    BY <2>2
  <2>4. /\ m.answer \notin {Refused, Unreadable, NotFound}
        /\ \A i \in Nat : m.answer # TripCreated(i)
    BY <2>3 DEF TripCreated, Transient, Refused, Unreadable, NotFound, Delivered
  <2>5. req.type = "upsertAttempt" => HasAttempt(t, b, c.key, req.attempt)
    <3> SUFFICES ASSUME req.type = "upsertAttempt"
                 PROVE  HasAttempt(t, b, c.key, req.attempt)
      OBVIOUS
    <3>1. req.tripId \in S!Ids(s) /\ ReqRight(d, s, b, req, c.key)
      BY <1>2, <1>3, <1>5
    <3>2. /\ req.attempt \in DOMAIN t.trips[req.tripId].attempts
          /\ AttemptTaken(d, s, t, req.tripId, c.key)
      BY <1>1, <2>2, <3>1, UpsertInTurn
    <3> QED BY <1>2, <1>5, <3>1, <3>2 DEF HasAttempt, AttemptTaken
  <2> QED BY <1>2, <1>5, <2>4, <2>5 DEF CallRight
<1>6. CASE req.type = "deleteTrip"
  <2>1. /\ outcome \in {Delivered, NotFound}
        /\ req.tripId \notin S!Ids(t)
    BY <1>1, <1>6, DeleteTakes
  <2>2. m.answer \in {Delivered, NotFound, Transient}
    BY <2>1
  <2>3. /\ m.answer \notin {Refused, Unreadable}
        /\ \A i \in Nat : m.answer # TripCreated(i)
    BY <2>2 DEF TripCreated, Transient, Refused, Unreadable, NotFound, Delivered
  <2> QED BY <1>2, <1>6, <2>1, <2>3 DEF CallRight
<1> QED BY <1>4, <1>5, <1>6

(* A call that failed on the way is as right as it was.                    *)
LEMMA FailedRight ==
  ASSUME NEW d, NEW s, NEW b, NEW c, CallRight(d, s, b, c),
         NEW m, m.id = c.id, m.key = c.key, m.req = c.req,
         m.answer \in {Transient, Unauthorized}
  PROVE  CallRight(d, s, b, m)
<1>1. /\ m.answer \notin {Refused, Unreadable, NotFound, Delivered}
      /\ \A i \in Nat : m.answer # TripCreated(i)
  BY DEF TripCreated, Transient, Unauthorized, Refused, Unreadable, NotFound, Delivered
<1> QED BY <1>1 DEF CallRight

(* The network keeps the turn.                                             *)
LEMMA NetworkKeepsTurn ==
  ASSUME Reliable, ScriptInTurn, Kept, TripsKept, TurnKept, Network
  PROVE  TurnKept'
<1>1. /\ BoxTyped /\ DriverTyped /\ RecorderTyped /\ IsServer(server) /\ Awaited
      /\ IsState(box) /\ diary \in Seq(Writings)
  BY TypeParts DEF Kept, RecorderTyped, BoxTyped
<1>2. /\ box' = box /\ trip' = trip /\ diary' = diary
  BY DEF Network, Served, TurnedAway, TimesOut, ArrivesLate, Networking,
         recorderVars, historyVars
<1>3. call # NoCall => CallFit(diary, server, removed, box, call)
  BY DEF TripsKept
<1>4. /\ InTurn(diary) /\ BoxHonest(diary, box) /\ CreateOnce(box) /\ HeadsOnly(box)
      /\ RowsHonest(diary, server) /\ Unique(server) /\ Named(diary, server, box)
      /\ NoneWaits(server, box) /\ AllPreceded(server, box)
      /\ trip # NoTrip => SoFar(diary, trip) /\ Visited(server, box, trip)
      /\ call # NoCall => CallRight(diary, server, box, call)
      /\ LateRight(diary, server, box, late)
  BY DEF TurnKept
<1>5. SUFFICES
        /\ RowsHonest(diary, server') /\ Unique(server') /\ Named(diary, server', box)
        /\ NoneWaits(server', box) /\ AllPreceded(server', box)
        /\ trip # NoTrip => Visited(server', box, trip)
        /\ call' # NoCall => CallRight(diary, server', box, call')
        /\ LateRight(diary, server', box, late')
  BY <1>2, <1>4 DEF TurnKept
<1>6. call # NoCall => call' # NoCall
  <2>1. DriverTyped'
    BY StepKept, TypeParts DEF Kept, Next
  <2>2. drain' = drain
    BY DEF Network, Served, TurnedAway, TimesOut, ArrivesLate, Networking
  <2> QED BY <1>1, <2>1, <2>2 DEF DriverTyped
<1>7. ASSUME Waiting, NEW answer, call' = [call EXCEPT !.answer = answer]
      PROVE  /\ call # NoCall /\ call' # NoCall
             /\ call'.req = call.req /\ call'.id = call.id /\ call'.key = call.key
             /\ call'.answer = answer
  <2>1. call \in Calls
    BY <1>1, <1>7 DEF Waiting, DriverTyped
  <2> QED BY <1>6, <1>7, <2>1 DEF Calls, Waiting
<1>8. ASSUME call # NoCall
      PROVE  /\ OfEntry(box, call) /\ call.req \in PhoneRequests
             /\ Fits(diary, server, box, call.req)
             /\ CallRight(diary, server, box, call)
             /\ call.req.type # "createTrip" =>
                  call.req.tripId \in Nat
                    /\ \E k \in Keys : ReqRight(diary, server, box, call.req, k)
  <2>1. call.req \in PhoneRequests
    BY <1>1, <1>8 DEF DriverTyped, Calls
  <2>2. OfEntry(box, call)
    BY <1>1, <1>3, <1>8, <2>1 DEF OfEntry, Awaited, CallFit, TypeAt
  <2>3. Fits(diary, server, box, call.req) /\ CallRight(diary, server, box, call)
    BY <1>3, <1>4, <1>8 DEF CallFit
  <2>4. call.key \in Keys
    BY <1>4, <2>2 DEF BoxHonest, OfEntry
  <2>5. call.req.type # "createTrip" =>
          /\ ReqRight(diary, server, box, call.req, call.key)
          /\ call.key \in DOMAIN box.tripIds /\ call.req.tripId = box.tripIds[call.key]
    BY <2>3 DEF CallRight
  <2>6. call.req.type # "createTrip" => call.req.tripId \in Nat
    BY <1>1, <2>5 DEF IsState
  <2> QED BY <2>1, <2>2, <2>3, <2>4, <2>5, <2>6
<1>9. CASE Served
  <2>1. Waiting /\ Handles(call.req) /\ late' = late
    BY <1>9 DEF Served
  <2>2. PICK answer \in Understood(S!Served(server, call.req).outcome) :
          call' = [call EXCEPT !.answer = answer]
    BY <1>9 DEF Served
  <2>3. answer \in {S!Served(server, call.req).outcome, Transient}
    BY DEF Understood, Reliable, Transient, Unauthorized, Unreadable
  <2>4. server' = S!Served(server, call.req).state
    BY <2>1 DEF Handles
  <2>5. /\ call # NoCall /\ call' # NoCall
        /\ call'.req = call.req /\ call'.id = call.id /\ call'.key = call.key
        /\ call'.answer = answer
    BY <1>7, <2>1, <2>2
  <2>6. /\ RowsHonest(diary, server') /\ Unique(server') /\ Named(diary, server', box)
        /\ NoneWaits(server', box) /\ AllPreceded(server', box)
        /\ trip # NoTrip => Visited(server', box, trip)
        /\ CallRight(diary, server', box, call)
        /\ LateRight(diary, server', box, late)
    BY <1>8, <2>1, <2>5, HandledTurn
  <2>7. RowsDated(diary, server)
    BY DEF TripsKept
  <2>8. CallRight(diary, server', box, call')
    BY <1>1, <1>4, <1>8, <2>3, <2>4, <2>5, <2>6, <2>7, ServedRight
  <2> QED BY <2>1, <2>6, <2>8
<1>10. CASE TurnedAway
  <2>1. Waiting /\ server' = server /\ late' = late
    BY <1>10 DEF TurnedAway, serverVars
  <2>2. PICK answer \in {Transient, Unauthorized} : call' = [call EXCEPT !.answer = answer]
    BY <1>10 DEF TurnedAway, Reliable
  <2>3. /\ call # NoCall
        /\ call'.req = call.req /\ call'.id = call.id /\ call'.key = call.key
        /\ call'.answer = answer
    BY <1>7, <2>1, <2>2
  <2>4. CallRight(diary, server, box, call')
    BY <1>8, <2>3, FailedRight
  <2> QED BY <1>4, <2>1, <2>4
<1>11. CASE TimesOut
  <2>1. /\ Waiting /\ server' = server /\ late' = late \cup {call.req}
        /\ call' = [call EXCEPT !.answer = Transient]
    BY <1>11 DEF TimesOut, serverVars
  <2>2. /\ call # NoCall
        /\ call'.req = call.req /\ call'.id = call.id /\ call'.key = call.key
        /\ call'.answer = Transient
    BY <1>7, <2>1
  <2>3. CallRight(diary, server, box, call')
    BY <1>8, <2>2, FailedRight
  <2>4. LateRight(diary, server, box, late')
    BY <1>4, <1>8, <2>1, <2>2 DEF LateRight
  <2> QED BY <1>4, <2>1, <2>3, <2>4
<1>12. CASE ArrivesLate
  <2>1. PICK req \in late : Handles(req) /\ late' = late \ {req}
    BY <1>12 DEF ArrivesLate
  <2>2. call' = call
    BY <1>12 DEF ArrivesLate
  <2>3. req \in PhoneRequests /\ Fits(diary, server, box, req)
    BY <1>1 DEF DriverTyped, TripsKept
  <2>4. req.type # "createTrip" => \E k \in Keys : ReqRight(diary, server, box, req, k)
    BY <1>4 DEF LateRight
  <2>5. /\ RowsHonest(diary, server') /\ Unique(server') /\ Named(diary, server', box)
        /\ NoneWaits(server', box) /\ AllPreceded(server', box)
        /\ trip # NoTrip => Visited(server', box, trip)
        /\ call # NoCall => CallRight(diary, server', box, call)
        /\ LateRight(diary, server', box, late)
    BY <2>1, <2>3, <2>4, HandledTurn
  <2>6. LateRight(diary, server', box, late')
    BY <2>1, <2>5 DEF LateRight
  <2> QED BY <2>2, <2>5, <2>6
<1> QED BY <1>9, <1>10, <1>11, <1>12 DEF Network

(* At the start there is nothing,                                          *)
LEMMA InitTurnKept == Init => TurnKept
<1> SUFFICES ASSUME Init PROVE TurnKept
  OBVIOUS
<1>1. /\ Ids(box) = {} /\ DOMAIN box.tripIds = {} /\ S!Ids(server) = {} /\ late = {}
      /\ call = NoCall /\ trip = NoTrip
  BY DEF Init, Empty, Ids, S!Ids, S!NewServer
<1>2. 1..Len(diary) = {}
  BY DEF Init
<1>3. InTurn(diary)
  BY <1>2 DEF InTurn
<1> QED BY <1>1, <1>3 DEF TurnKept, BoxHonest, RowsHonest, Unique, Named, NoneWaits,
                          CreateOnce, HeadsOnly, AllPreceded, LateRight

(* and every step keeps things in turn.                                    *)
LEMMA StepTurnKept ==
  ASSUME Reliable, ScriptInTurn
  PROVE  Kept /\ TripsKept /\ TurnKept /\ [Next]_vars => TurnKept'
<1> SUFFICES ASSUME Kept, TripsKept, TurnKept, [Next]_vars
             PROVE  TurnKept'
  OBVIOUS
<1>1. CASE Record
  BY <1>1, RecordKeepsTurn
<1>2. CASE Drive
  BY <1>2, DriveKeepsTurn
<1>3. CASE Network
  BY <1>3, NetworkKeepsTurn
<1>4. CASE Crash
  BY <1>4, CrashKeepsTurn
<1>5. CASE UNCHANGED vars
  <2>1. /\ box' = box /\ server' = server /\ call' = call /\ diary' = diary
        /\ trip' = trip /\ late' = late
    BY <1>5 DEF vars, recorderVars, driverVars, serverVars, historyVars
  <2> QED BY <2>1 DEF TurnKept
<1> QED BY <1>1, <1>2, <1>3, <1>4, <1>5 DEF Next

(* The server turns nothing down that was recorded in order: a command     *)
(* finds its trip, behind the attempt it follows, and with times the trip  *)
(* is in order with; only a delete may find its trip gone.  For any number *)
(* of trips, crashes, retries and late requests, and any recorder that     *)
(* brings the attempts of a route in turn (Outbox.swift:225-260,           *)
(* CommuteTripService.kt, update and upsertAttempt).                       *)
THEOREM NothingIsTurnedDown ==
  ASSUME Reliable, ScriptInTurn
  PROVE  Spec => []NoneTurnedDown
<1>1. TurnKept => NoneTurnedDown
  BY DEF TurnKept, CallRight, NoneTurnedDown
<1> QED BY <1>1, InitKept, StepKept, InitTripsKept, StepTripsKept, InitTurnKept,
           StepTurnKept, PTL DEF Spec

-----------------------------------------------------------------------------
(***************************************************************************)
(* The server follows the diary.  What it shows of a trip has no gap: with *)
(* a record it has all the trip recorded before, as the queue hands them   *)
(* over in the order they were recorded.                                   *)
(***************************************************************************)

-----------------------------------------------------------------------------
(* No gaps. *)

(* Record n is one of trip k and its attempts; points are no part of a row.*)
OfRow(d, k, n) == d[n].key = k /\ d[n].slot # GpsSlot

GapFree(d, s) ==
  \A id \in S!Ids(s) : \A slot, f, v : Shows(s.trips[id], slot, f, v) =>
    \A n \in 1..v : OfRow(d, RowKey(d, s, id), n) => Has(d, s, n)

(* Record n is carried by entry i or one before it.                        *)
Ahead(d, b, i, n) == \E j \in Ids(b) : j <= i /\ Bears(d, b.entries[j].cmd, n)

(* What was recorded before something an entry tells does not come after   *)
(* the entry.                                                              *)
Upheld(d, s, b) ==
  \A i \in Ids(b) : \A slot, f, v : Tells(b.entries[i].cmd, slot, f, v) =>
    \A n \in 1..v : OfRow(d, KeyAt(b, i), n) => Has(d, s, n) \/ Ahead(d, b, i, n)

(* The row of a trip with an id is the one of that id.                     *)
Sole(d, s, b) ==
  \A id \in S!Ids(s) :
    RowKey(d, s, id) \in DOMAIN b.tripIds => b.tripIds[RowKey(d, s, id)] = id

(* What command cmd carries is on the server.                              *)
Landed(d, s, cmd) ==
  \A n \in 1..Len(d) : d[n].slot # GpsSlot /\ Bears(d, cmd, n) => Has(d, s, n)

(* Nothing brings back a trip that was removed.                            *)
Departed(d, s, b, r) == \A k \in r : ~CreateWaits(b, k) /\ ~MadeTrip(d, s, k)

Undisturbed == late = {} /\ overtaken = {} /\ box.deadLetters = {} /\ reviewed = {}

PrefixKept ==
  /\ GapFree(diary, server)
  /\ Upheld(diary, server, box)
  /\ Sole(diary, server, box)
  /\ call # NoCall /\ call.answer = Delivered =>
       Landed(diary, server, box.entries[call.id].cmd)
  /\ Departed(diary, server, box, removed)
  /\ \A k \in cancelled : Known(diary, k)
  /\ trip # NoTrip => trip.key \notin cancelled
  /\ Undisturbed

(* A record that is on the server stays there as the diary goes on.        *)
LEMMA HasLater ==
  ASSUME NEW d, NEW e, Grows(d, e), NEW s, RowsDated(d, s),
         NEW n \in 1..Len(d), Has(d, s, n)
  PROVE  Has(e, s, n)
<1>1. Settled(d, s, {}, {}, n)
  BY DEF Settled
<1>2. Settled(e, s, {}, {}, n)
  BY <1>1, SettledLater
<1> QED BY <1>2 DEF Settled

(* And so does what was handed over.                                       *)
LEMMA LandedLater ==
  ASSUME NEW d, NEW e, Grows(d, e), NEW s, RowsDated(d, s),
         NEW cmd, NEW x, Intended(d, cmd, x), cmd.type # "createTrip",
         Landed(d, s, cmd)
  PROVE  Landed(e, s, cmd)
<1> SUFFICES ASSUME NEW n \in 1..Len(e), e[n].slot # GpsSlot, Bears(e, cmd, n)
             PROVE  Has(e, s, n)
  BY DEF Landed
<1>1. n \in 1..Len(d) /\ Bears(d, cmd, n)
  BY BearsBack
<1>2. d[n] = e[n]
  BY <1>1, BearsLater
<1>3. Has(d, s, n)
  BY <1>1, <1>2 DEF Landed
<1> QED BY <1>1, <1>3, HasLater

(* What is new in the diary is newer than what the server shows.           *)
LEMMA GapFreeLater ==
  ASSUME NEW d, NEW e, Grows(d, e), NEW s, RowsDated(d, s), NEW b,
         RowsMeant(d, s, b), GapFree(d, s)
  PROVE  GapFree(e, s)
<1> SUFFICES ASSUME NEW id \in S!Ids(s), NEW slot, NEW f, NEW v,
                    Shows(s.trips[id], slot, f, v),
                    NEW n \in 1..v, OfRow(e, RowKey(e, s, id), n)
             PROVE  Has(e, s, n)
  BY DEF GapFree
<1>1. v \in 1..Len(d)
  BY DEF RowsMeant
<1>2. n \in 1..Len(d)
  BY <1>1 DEF Grows
<1>3. RowKey(e, s, id) = RowKey(d, s, id)
  BY LaterKnown
<1>4. OfRow(d, RowKey(d, s, id), n)
  BY <1>2, <1>3 DEF OfRow, Grows
<1>5. Has(d, s, n)
  BY <1>4 DEF GapFree
<1> QED BY <1>2, <1>5, HasLater

(* Entries go, and others come that tell nothing: an entry that stays      *)
(* misses none that had to go out before it.                               *)
LEMMA FewerUpheld ==
  ASSUME NEW d, NEW s, NEW b, IsState(b), NEW c,
         \A i \in Ids(b) : Past(d, b.entries[i].cmd),
         \A i \in Ids(c) : \/ i \in Ids(b) /\ c.entries[i].cmd = b.entries[i].cmd
                           \/ Silent(c.entries[i].cmd),
         \A i \in Ids(b) \ Ids(c) : \A j \in Ids(b) \cap Ids(c) :
           /\ i < j /\ KeyAt(b, i) = KeyAt(b, j)
           /\ ~Silent(b.entries[j].cmd)
           => Landed(d, s, b.entries[i].cmd),
         \A i \in Ids(b) \cap Ids(c) : c.entries[i].cmd = b.entries[i].cmd,
         Len(d) \in Nat, Upheld(d, s, b)
  PROVE  Upheld(d, s, c)
<1> SUFFICES ASSUME NEW i \in Ids(c), NEW slot, NEW f, NEW v,
                    Tells(c.entries[i].cmd, slot, f, v),
                    NEW n \in 1..v, OfRow(d, KeyAt(c, i), n)
             PROVE  Has(d, s, n) \/ Ahead(d, c, i, n)
  BY DEF Upheld
<1>1. i \in Ids(b) /\ c.entries[i].cmd = b.entries[i].cmd
  BY DEF Silent
<1>2. Tells(b.entries[i].cmd, slot, f, v) /\ KeyAt(c, i) = KeyAt(b, i)
  BY <1>1 DEF KeyAt
<1>3. v \in 1..Len(d)
  BY <1>1, <1>2 DEF Past
<1>4. n \in 1..Len(d)
  BY <1>3
<1>5. Has(d, s, n) \/ Ahead(d, b, i, n)
  BY <1>1, <1>2 DEF Upheld
<1>6. ASSUME NEW j \in Ids(b), j <= i, Bears(d, b.entries[j].cmd, n)
      PROVE  Has(d, s, n) \/ Ahead(d, c, i, n)
  <2>1. CASE j \in Ids(c)
    BY <1>6, <2>1 DEF Ahead
  <2>2. CASE j \notin Ids(c)
    <3>2. b.nextId \in Nat /\ Ids(b) \subseteq 1..(b.nextId - 1)
      BY StateFields
    <3>3. i \in Int /\ j \in Int /\ i # j
      BY <1>1, <2>2, <3>2
    <3>4. j < i
      BY <1>6, <3>3
    <3>5. KeyAt(b, j) = KeyAt(b, i)
      BY <1>2, <1>6 DEF Bears, OfRow, KeyAt
    <3>6. ~Silent(b.entries[i].cmd)
      BY <1>2 DEF Silent
    <3>7. Landed(d, s, b.entries[j].cmd)
      BY <1>1, <2>2, <3>4, <3>5, <3>6
    <3> QED BY <1>4, <1>6, <3>7 DEF Landed, OfRow
  <2> QED BY <2>1, <2>2
<1> QED BY <1>5, <1>6 DEF Ahead

(* A queue that says the same upholds the same.                            *)
LEMMA SameSaidUpheld ==
  ASSUME NEW d, NEW s, NEW b, NEW c, SameSaid(b, c)
  PROVE  /\ Upheld(d, s, b) => Upheld(d, s, c)
         /\ Sole(d, s, b) => Sole(d, s, c)
         /\ \A k : CreateWaits(c, k) => CreateWaits(b, k)
<1>1. \A i : KeyAt(c, i) = c.entries[i].cmd.key /\ KeyAt(b, i) = b.entries[i].cmd.key
             /\ TypeAt(c, i) = c.entries[i].cmd.type /\ TypeAt(b, i) = b.entries[i].cmd.type
  BY DEF KeyAt, TypeAt
<1>2. \A i \in Ids(b) : \A n : Ahead(d, b, i, n) => Ahead(d, c, i, n)
  BY DEF SameSaid, Ahead
<1>3. Upheld(d, s, b) => Upheld(d, s, c)
  BY <1>1, <1>2 DEF SameSaid, Upheld
<1>4. Sole(d, s, b) => Sole(d, s, c)
  BY DEF SameSaid, Sole
<1> QED BY <1>1, <1>3, <1>4 DEF SameSaid, CreateWaits

(* There is one row of a trip: the one of its id, or the one of its create.*)
LEMMA OneRowIs ==
  ASSUME TurnKept, PrefixKept
  PROVE  OneRow(diary, server)
<1> SUFFICES ASSUME NEW i \in S!Ids(server), NEW j \in S!Ids(server),
                    RowKey(diary, server, i) = RowKey(diary, server, j)
             PROVE  i = j
  BY DEF OneRow
<1> DEFINE k == RowKey(diary, server, i)
<1>1. CASE k \in DOMAIN box.tripIds
  BY <1>1 DEF PrefixKept, Sole
<1>2. CASE k \notin DOMAIN box.tripIds
  <2>1. AsCreated(server.trips[i], k) /\ AsCreated(server.trips[j], k)
    BY <1>2 DEF TurnKept, Named
  <2> QED BY <2>1 DEF TurnKept, Unique, AsCreated
<1> QED BY <1>1, <1>2

(* What every step of the phone has in common.                             *)
LEMMA PhoneKeepsPrefix ==
  ASSUME TripsKept, RecordsKept, PrefixKept, Awaited,
         server' = server, removed' = removed, late' = late, overtaken' = overtaken,
         reviewed' = reviewed, box'.deadLetters = box.deadLetters,
         Grows(diary, diary'),
         Upheld(diary', server, box'), Sole(diary, server, box'),
         \A k : CreateWaits(box', k) => CreateWaits(box, k) \/ ~Known(diary, k),
         \A k \in cancelled' : Known(diary', k),
         trip' # NoTrip => trip'.key \notin cancelled',
         \/ call' = call /\ Holds(box, box')
         \/ call' # NoCall => call'.answer = NoAnswer
  PROVE  PrefixKept'
<1>1. /\ RowsDated(diary, server) /\ RowsMeant(diary, server, box)
      /\ removed \subseteq cancelled
      /\ BoxMeant(diary, box, cancelled)
  BY DEF TripsKept, RecordsKept
<1>2. /\ GapFree(diary, server) /\ Departed(diary, server, box, removed)
      /\ \A k \in cancelled : Known(diary, k)
      /\ call # NoCall /\ call.answer = Delivered =>
           Landed(diary, server, box.entries[call.id].cmd)
      /\ Undisturbed
  BY DEF PrefixKept
<1>3. GapFree(diary', server)
  BY <1>1, <1>2, GapFreeLater
<1>4. \A id \in S!Ids(server) : RowKey(diary', server, id) = RowKey(diary, server, id)
  BY <1>1, LaterKnown
<1>5. Sole(diary', server, box')
  BY <1>4 DEF Sole
<1>6. Departed(diary', server, box', removed)
  <2> SUFFICES ASSUME NEW k \in removed
               PROVE  ~CreateWaits(box', k) /\ ~MadeTrip(diary', server, k)
    BY DEF Departed
  <2>1. ~CreateWaits(box, k) /\ ~MadeTrip(diary, server, k) /\ Known(diary, k)
    BY <1>1, <1>2 DEF Departed
  <2> QED BY <1>4, <2>1 DEF MadeTrip
<1>7. call' # NoCall /\ call'.answer = Delivered =>
        Landed(diary', server, box'.entries[call'.id].cmd)
  <2> SUFFICES ASSUME call' # NoCall, call'.answer = Delivered
               PROVE  Landed(diary', server, box'.entries[call'.id].cmd)
    OBVIOUS
  <2>1. Delivered # NoAnswer
    BY NoCallAssumption DEF Answers
  <2>2. call' = call /\ Holds(box, box')
    BY <2>1
  <2>3. /\ call.id \in Ids(box) /\ box.entries[call.id].inFlight
        /\ Delivered \in OutcomesOf(box.entries[call.id].cmd, Nat)
    BY <2>1, <2>2 DEF Awaited
  <2>4. box.entries[call.id].cmd.type # "createTrip"
    BY <2>3 DEF OutcomesOf, Delivered, TripCreated, Failures, Transient,
                Unauthorized, NotFound, Refused, Unreadable
  <2>5. box'.entries[call'.id].cmd = box.entries[call.id].cmd
    BY <2>2, <2>3 DEF Holds
  <2>6. Intended(diary, box.entries[call.id].cmd, cancelled)
    BY <1>1, <2>3 DEF BoxMeant
  <2>7. Landed(diary, server, box.entries[call.id].cmd)
    BY <1>2, <2>2
  <2> QED BY <1>1, <2>4, <2>5, <2>6, <2>7, LandedLater
<1>8. Undisturbed'
  BY <1>2 DEF Undisturbed
<1> QED BY <1>3, <1>5, <1>6, <1>7, <1>8 DEF PrefixKept

(* Flags are no matter.                                                    *)
LEMMA SameKeepsPrefix ==
  ASSUME TripsKept, RecordsKept, PrefixKept, Awaited, RecorderTyped,
         SameSaid(box, box'), box'.deadLetters = box.deadLetters,
         server' = server, removed' = removed, late' = late, overtaken' = overtaken,
         reviewed' = reviewed, diary' = diary, cancelled' = cancelled,
         trip' \in {trip, NoTrip},
         \/ call' = call /\ Holds(box, box')
         \/ call' # NoCall => call'.answer = NoAnswer
  PROVE  PrefixKept'
<1>1. Grows(diary, diary')
  BY DEF RecorderTyped, Grows
<1>2. /\ Upheld(diary, server, box) /\ Sole(diary, server, box)
      /\ \A k \in cancelled : Known(diary, k)
      /\ trip # NoTrip => trip.key \notin cancelled
  BY DEF PrefixKept
<1>3. /\ Upheld(diary, server, box') /\ Sole(diary, server, box')
      /\ \A k : CreateWaits(box', k) => CreateWaits(box, k)
  BY <1>2, SameSaidUpheld
<1> QED BY <1>1, <1>2, <1>3, PhoneKeepsPrefix

(* What a command that waits carries it still carries when another is put  *)
(* in.                                                                     *)
LEMMA EnqueuedBearsOn ==
  ASSUME NEW d, NEW e, NEW b, IsState(b), NEW cmd \in Commands, Grows(d, e),
         Latest(d, e, cmd), NEW n \in 1..Len(d), NEW i \in Ids(b),
         Bears(d, b.entries[i].cmd, n), NEW c, c = Enqueued(b, cmd)
  PROVE  i \in Ids(c) /\ Bears(e, c.entries[i].cmd, n)
<1> DEFINE old == b.entries[i].cmd
           new == c.entries[i].cmd
<1>2. Bears(e, old, n) /\ d[n] = e[n]
  BY BearsLater
<1>3. i \in Ids(c) /\ new.type = old.type /\ new.key = old.key
  BY EnqueuedParts
<1>4. CASE i \notin Mergeable(b, cmd)
  <2>1. c.entries[i] = b.entries[i]
    BY <1>4, EnqueuedEntries
  <2> QED BY <1>2, <1>3, <2>1
<1>5. CASE i \in Mergeable(b, cmd)
  <2>1. /\ cmd.type \in {"updateTrip", "upsertAttempt"}
        /\ old.type = cmd.type
        /\ new.body = Merged(old.body, cmd.body)
        /\ cmd.type = "upsertAttempt" =>
             old.attempt = cmd.attempt /\ new.attempt = cmd.attempt
    BY <1>5, EnqueuedEntries
  <2>2. old \in Commands
    BY StateFields, EntryFields
  <2> HIDE DEF old, new
  <2>3. PICK v \in n..Len(d) : Tells(old, d[n].slot, d[n].field, v)
    BY <2>1 DEF Bears, old
  <2>4. \/ Tells(new, d[n].slot, d[n].field, v)
        \/ \E m : Tells(cmd, d[n].slot, d[n].field, m) /\ Tells(new, d[n].slot, d[n].field, m)
    BY <1>3, <2>1, <2>2, <2>3, MergedKeeps
  <2>5. \E m \in n..Len(e) : Tells(new, d[n].slot, d[n].field, m)
    <3>1. v \in n..Len(e) /\ Len(e) \in n..Len(e)
      BY DEF Grows
    <3> QED BY <2>4, <3>1 DEF Latest
  <2> QED BY <1>2, <1>3, <2>5 DEF Bears, new
<1> QED BY <1>4, <1>5

(* What comes in with the newest record comes behind all that was recorded.*)
LEMMA EnqueuedUpheld ==
  ASSUME NEW d, NEW e, Grows(d, e), NEW s, RowsDated(d, s), NEW b, IsState(b), NEW x,
         BoxMeant(d, b, x), NEW cmd \in Commands, Latest(d, e, cmd),
         cmd.type = "uploadGps" => \E p : cmd.points = <<p>>,
         NEW c, c = Enqueued(b, cmd), IsState(c), Orderly(c), BoxHonest(e, c),
         \A n \in 1..Len(e) : OfRow(e, e[Len(e)].key, n) =>
           Has(e, s, n) \/ Queued(e, c, n),
         Upheld(d, s, b)
  PROVE  Upheld(e, s, c)
<1> SUFFICES ASSUME NEW i \in Ids(c), NEW slot, NEW f, NEW v,
                    Tells(c.entries[i].cmd, slot, f, v),
                    NEW n \in 1..v, OfRow(e, KeyAt(c, i), n)
             PROVE  Has(e, s, n) \/ Ahead(e, c, i, n)
  BY DEF Upheld
<1>1. Newer(d, e, b, c)
  BY EnqueuedNewer
<1>2. /\ i \in Ids(b) => KeyAt(c, i) = KeyAt(b, i)
      /\ \/ i \in Ids(b) /\ Tells(b.entries[i].cmd, slot, f, v)
         \/ News(d, e, c, i, v)
  BY <1>1, NewerParts
<1>3. CASE i \in Ids(b) /\ Tells(b.entries[i].cmd, slot, f, v)
  <2>1. v \in 1..Len(d)
    BY <1>3 DEF BoxMeant, Intended, Past
  <2>2. n \in 1..Len(d)
    BY <2>1 DEF Grows
  <2>3. OfRow(d, KeyAt(b, i), n)
    BY <1>2, <1>3, <2>2 DEF OfRow, Grows
  <2>4. Has(d, s, n) \/ Ahead(d, b, i, n)
    BY <1>3, <2>3 DEF Upheld
  <2>5. ASSUME NEW j \in Ids(b), j <= i, Bears(d, b.entries[j].cmd, n)
        PROVE  Ahead(e, c, i, n)
    <3>1. j \in Ids(c) /\ Bears(e, c.entries[j].cmd, n)
      BY <2>2, <2>5, EnqueuedBearsOn
    <3> QED BY <2>5, <3>1 DEF Ahead
  <2> QED BY <2>2, <2>4, <2>5, HasLater DEF Ahead
<1>4. CASE News(d, e, c, i, v)
  <2>1. v = Len(e) /\ \A j \in Ids(c) :
          i < j /\ KeyAt(c, j) = KeyAt(c, i) => Silent(c.entries[j].cmd)
    BY <1>4 DEF News
  <2>2. KeyAt(c, i) = e[Len(e)].key
    <3>1. Honest(e, KeyAt(c, i), c.entries[i].cmd)
      BY DEF BoxHonest
    <3>2. Recorded(e, KeyAt(c, i), slot, f, v)
      BY <3>1 DEF Honest
    <3> QED BY <2>1, <3>2 DEF Recorded
  <2>3. Has(e, s, n) \/ Queued(e, c, n)
    BY <2>1, <2>2
  <2>4. ASSUME NEW j \in Ids(c), Bears(e, c.entries[j].cmd, n)
        PROVE  j <= i
    <3>1. KeyAt(c, j) = KeyAt(c, i)
      BY <2>4 DEF Bears, OfRow, KeyAt
    <3>2. c.nextId \in Nat /\ Ids(c) \subseteq 1..(c.nextId - 1)
      BY StateFields
    <3>3. i \in Int /\ j \in Int
      BY <3>2
    <3>4. CASE TypeAt(c, j) = "createTrip"
      BY <3>1, <3>4 DEF Orderly, CreateFirst
    <3>5. CASE \E w \in n..Len(e) : Tells(c.entries[j].cmd, e[n].slot, e[n].field, w)
      BY <2>1, <3>1, <3>3, <3>5 DEF Silent
    <3> QED BY <2>4, <3>4, <3>5 DEF Bears, OfRow, TypeAt
  <2> QED BY <2>3, <2>4 DEF Queued, Ahead
<1> QED BY <1>2, <1>3, <1>4

(* Points and deletes carry nothing of a row.                              *)
LEMMA NothingToLand ==
  ASSUME NEW d, NEW s, NEW cmd, cmd.type \in {"uploadGps", "deleteTrip"}
  PROVE  Landed(d, s, cmd)
<1>1. Silent(cmd)
  BY Quiet
<1> QED BY <1>1 DEF Landed, Bears, Silent

(* A cancel leaves of the trip only what is under way, and that is first;  *)
(* so nothing that is dropped was to come before it.                       *)
LEMMA DiscardedUpheld ==
  ASSUME NEW d, NEW s, NEW b, IsState(b), HeadsOnly(b), NEW x, BoxMeant(d, b, x),
         NEW key \in Keys, Len(d) \in Nat, NEW c, c = Discarded(b, key),
         Upheld(d, s, b)
  PROVE  Upheld(d, s, c)
<1>1. /\ b.nextId \notin Ids(b)
      /\ Ids(b) \ Discardable(b, key) \subseteq Ids(c)
      /\ Ids(c) \subseteq (Ids(b) \ Discardable(b, key)) \cup {b.nextId}
      /\ \A i \in Ids(b) \ Discardable(b, key) : c.entries[i] = b.entries[i]
      /\ b.nextId \in Ids(c) =>
           c.entries[b.nextId] = NewEntry([type |-> "deleteTrip", key |-> key])
  BY DiscardedParts
<1>2. b.nextId \in Ids(c) => Silent(c.entries[b.nextId].cmd)
  <2> SUFFICES ASSUME b.nextId \in Ids(c)
               PROVE  Silent(c.entries[b.nextId].cmd)
    OBVIOUS
  <2>1. c.entries[b.nextId].cmd.type = "deleteTrip"
    BY <1>1 DEF NewEntry
  <2> QED BY <2>1, Quiet
<1>3. \A i \in Ids(b) : Past(d, b.entries[i].cmd)
  BY DEF BoxMeant, Intended
<1>4. \A i \in Ids(c) : \/ i \in Ids(b) /\ c.entries[i].cmd = b.entries[i].cmd
                        \/ Silent(c.entries[i].cmd)
  BY <1>1, <1>2
<1>5. \A i \in Ids(b) \cap Ids(c) : c.entries[i].cmd = b.entries[i].cmd
  BY <1>1
<1>6. ASSUME NEW i \in Ids(b) \ Ids(c), NEW j \in Ids(b) \cap Ids(c),
             i < j, KeyAt(b, i) = KeyAt(b, j), ~Silent(b.entries[j].cmd)
      PROVE  Landed(d, s, b.entries[i].cmd)
  <2>1. i \in Discardable(b, key) /\ j \in Ids(b) /\ j \notin Discardable(b, key)
    BY <1>1
  <2>2. b.entries[i].cmd.key = key /\ ~IsDelete(b.entries[i].cmd)
    BY <2>1 DEF Discardable, OfTrip
  <2>3. b.entries[j].cmd.key = key
    BY <1>6, <2>2 DEF KeyAt
  <2>4. b.entries[j].cmd.type \in {"updateTrip", "upsertAttempt"}
    BY <1>6, Quiet
  <2>5. b.entries[j].inFlight
    BY <2>1, <2>3, <2>4 DEF Discardable, OfTrip, IsDelete
  <2>6. CASE b.entries[i].cmd.type = "uploadGps"
    BY <2>6, NothingToLand
  <2>7. CASE b.entries[i].cmd.type # "uploadGps"
    <3>1. LaneOf(b, i) = LaneOf(b, j)
      BY <2>2, <2>3, <2>4, <2>7 DEF LaneOf, Lane
    <3>2. j <= i
      BY <2>1, <2>5, <3>1 DEF HeadsOnly, IsLaneHead
    <3>3. b.nextId \in Nat /\ Ids(b) \subseteq 1..(b.nextId - 1)
      BY StateFields
    <3>4. i \in Int /\ j \in Int
      BY <2>1, <3>3
    <3> QED BY <1>6, <3>2, <3>4
  <2> QED BY <2>6, <2>7
<1> QED BY <1>3, <1>4, <1>5, <1>6, FewerUpheld

(* A command is recorded.                                                  *)
LEMMA IssuedKeepsPrefix ==
  ASSUME TimesOnly, Kept, TripsKept, RecordsKept, TurnKept, PrefixKept,
         Kept', RecordsKept', TurnKept', Record,
         NEW cmd, NEW key, NEW slot, NEW field, Issues(cmd, key, slot, field)
  PROVE  PrefixKept'
<1>1. /\ RecorderTyped /\ IsState(box) /\ Awaited /\ IsState(box') /\ Orderly(box')
  BY TypeParts DEF Kept, BoxTyped, QueueKept
<1>2. /\ Recording /\ Writes(key, slot, field) /\ Enqueue(cmd)
      /\ cmd \in Commands /\ ~IsDelete(cmd) /\ cmd.key = key /\ key \in Keys
      /\ slot \in {TripSlot, GpsSlot} \cup Attempts
      /\ field \in TripFields \cup AttemptFields \cup {"point"}
      /\ trip'.key = key
      /\ IF cmd.type = "createTrip" THEN key[2] = now
         ELSE trip # NoTrip /\ trip.key = key
      /\ cmd.type = "uploadGps" => cmd.points = <<now>>
  BY DEF Issues
<1>3. /\ now \in Times /\ Len(diary') = now /\ cancelled' = cancelled
      /\ reviewed' = reviewed
      /\ \A n \in 1..clock : diary'[n] = diary[n]
      /\ diary'[now] = [key |-> key, slot |-> slot, field |-> field]
  BY <1>1, <1>2, WritesStep
<1>4. Grows(diary, diary') /\ diary'[Len(diary')].key = key
  BY <1>1, <1>3 DEF Grows, RecorderTyped, Times, now, clock
<1>5. /\ box' = Enqueued(box, cmd)
      /\ server' = server /\ late' = late /\ call' = call /\ removed' = removed
      /\ overtaken' = overtaken
  BY <1>2 DEF Enqueue, Persist, Recording, serverVars, driverVars
<1>6. Holds(box, box') /\ box'.deadLetters = box.deadLetters
  BY <1>1, <1>2, <1>5, EnqueuedHolds, EnqueuedParts
<1>7. Latest(diary, diary', cmd)
  BY <1>1, <1>2, IssuedMeans
<1>8. cmd.type = "uploadGps" => \E p : cmd.points = <<p>>
  BY <1>2
<1>9. cmd.type = "createTrip" => ~Known(diary, key)
  BY <1>1, <1>2 DEF Known, RecorderTyped, now, clock
<1>10. /\ \A k \in cancelled : Known(diary, k)
       /\ trip # NoTrip => trip.key \notin cancelled
       /\ Undisturbed /\ Upheld(diary, server, box) /\ Sole(diary, server, box)
  BY DEF PrefixKept
<1>11. key \notin cancelled
  BY <1>2, <1>9, <1>10
<1>12. \A k \in cancelled' : Known(diary', k)
  BY <1>3, <1>4, <1>10, LaterKnown
<1>13. /\ box'.tripIds = box.tripIds
       /\ \A k : CreateWaits(box', k) =>
            CreateWaits(box, k) \/ (cmd.type = "createTrip" /\ k = cmd.key)
  BY <1>1, <1>2, <1>5, <1>8, EnqueuedGo
<1>14. \A k : CreateWaits(box', k) => CreateWaits(box, k) \/ ~Known(diary, k)
  BY <1>2, <1>9, <1>13
<1>15. Sole(diary, server, box')
  BY <1>10, <1>13 DEF Sole
<1>16. RowsDated(diary, server) /\ BoxMeant(diary, box, cancelled)
  BY DEF TripsKept, RecordsKept
<1>17. \A n \in 1..Len(diary') : OfRow(diary', diary'[Len(diary')].key, n) =>
         Has(diary', server, n) \/ Queued(diary', box', n)
  <2>1. AllCovered(diary', server', box', box'.deadLetters \cup reviewed',
                   cancelled', overtaken')
    BY DEF RecordsKept
  <2>2. box'.deadLetters \cup reviewed' = {} /\ overtaken' = {}
    BY <1>3, <1>5, <1>6, <1>10 DEF Undisturbed
  <2>3. AllCovered(diary', server, box', {}, cancelled, {})
    BY <1>3, <1>5, <2>1, <2>2
  <2>4. \A n \in 1..Len(diary') : \/ diary'[n].key \in cancelled
                                  \/ Has(diary', server, n)
                                  \/ Queued(diary', box', n)
    BY <2>3 DEF AllCovered, Covered, Settled, Shown
  <2> QED BY <1>4, <1>11, <2>4 DEF OfRow
<1>18. BoxHonest(diary', box')
  BY DEF TurnKept
<1>19. Upheld(diary', server, box')
  BY <1>1, <1>2, <1>4, <1>5, <1>7, <1>8, <1>10, <1>16, <1>17, <1>18, EnqueuedUpheld
<1>20. trip' # NoTrip => trip'.key \notin cancelled'
  BY <1>2, <1>3, <1>11
<1> QED BY <1>1, <1>3, <1>4, <1>5, <1>6, <1>12, <1>14, <1>15, <1>19, <1>20,
           PhoneKeepsPrefix

(* Recording: the newest record is queued behind the others of its trip.   *)
LEMMA RecordKeepsPrefix ==
  ASSUME TimesOnly, Kept, TripsKept, RecordsKept, TurnKept, PrefixKept,
         Kept', RecordsKept', TurnKept', Record
  PROVE  PrefixKept'
<1>1. BoxTyped /\ RecorderTyped /\ IsState(box) /\ Awaited
  BY TypeParts DEF Kept, BoxTyped
<1>2. ASSUME NEW cmd, NEW key, NEW slot, NEW field, Issues(cmd, key, slot, field)
      PROVE  PrefixKept'
  BY <1>2, IssuedKeepsPrefix
<1>3. /\ \A k \in cancelled : Known(diary, k)
      /\ trip # NoTrip => trip.key \notin cancelled
      /\ Upheld(diary, server, box) /\ Sole(diary, server, box)
  BY DEF PrefixKept
<1>4. CASE EndTrip \/ NothingToRecord \/ PersistRecorder
  <2>1. /\ box' = box /\ diary' = diary /\ trip' \in {trip, NoTrip}
        /\ call' = call /\ server' = server /\ late' = late
        /\ removed' = removed /\ overtaken' = overtaken
        /\ reviewed' = reviewed /\ cancelled' = cancelled
    BY <1>4 DEF EndTrip, NothingToRecord, PersistRecorder, Recording, driverVars,
                historyVars, serverVars
  <2>2. SameSaid(box, box') /\ Holds(box, box')
    BY <2>1 DEF SameSaid, Holds
  <2> QED BY <1>1, <2>1, <2>2, SameKeepsPrefix
<1>5. CASE CancelTrip
  <2>1. /\ trip # NoTrip /\ box' = Discarded(box, trip.key) /\ diary' = diary
        /\ trip' = NoTrip /\ call' = call /\ server' = server /\ late' = late
        /\ removed' = removed /\ overtaken' = overtaken
        /\ reviewed' = reviewed /\ cancelled' = cancelled \cup {trip.key}
    BY <1>5 DEF CancelTrip, Discard, Persist, Recording, driverVars, serverVars
  <2>2. Known(diary, trip.key) /\ trip.key \in Keys
    BY <2>1 DEF TripsKept, Known
  <2>3. Grows(diary, diary') /\ Len(diary) \in Nat
    BY <1>1, <2>1 DEF RecorderTyped, Grows
  <2>4. Holds(box, box')
    BY <1>1, <2>1, <2>2, DiscardedHolds
  <2>5. box'.deadLetters = box.deadLetters /\ box'.tripIds = box.tripIds
    BY <1>1, <2>1, <2>2, DiscardedParts
  <2>6. HeadsOnly(box) /\ BoxMeant(diary, box, cancelled)
    BY DEF TurnKept, RecordsKept
  <2>7. Upheld(diary', server, box')
    BY <1>1, <1>3, <2>1, <2>2, <2>3, <2>6, DiscardedUpheld
  <2>8. \A k : CreateWaits(box', k) => CreateWaits(box, k)
    BY <1>1, <2>1, <2>2, DiscardedGo
  <2>9. Sole(diary, server, box')
    BY <1>3, <2>5 DEF Sole
  <2>10. \A k \in cancelled' : Known(diary', k)
    BY <1>3, <2>1, <2>2
  <2> QED BY <1>1, <2>1, <2>3, <2>4, <2>5, <2>7, <2>8, <2>9, <2>10, PhoneKeepsPrefix
<1> QED BY <1>1, <1>2, <1>4, <1>5, RecordSteps

(* A relaunch starts from what is in the files.                            *)
LEMMA CrashKeepsPrefix ==
  ASSUME Reliable, Kept, TripsKept, RecordsKept, PrefixKept, Crash
  PROVE  PrefixKept'
<1>1. /\ RecorderTyped /\ IsState(saved) /\ Awaited
      /\ SameRecords(box, saved) /\ RecorderSaved
  BY TypeParts DEF Kept, QueueKept, BoxTyped
<1>2. /\ box' = Reloaded(saved) /\ trip' = savedTrip /\ call' = NoCall
      /\ server' = server /\ late' = late /\ diary' = diary
      /\ removed' = removed /\ overtaken' = overtaken
      /\ reviewed' = reviewed /\ cancelled' = cancelled
      /\ turn # "persist"
  BY DEF Crash, Relaunch, Reliable, serverVars, historyVars
<1>3. trip' = trip
  BY <1>1, <1>2 DEF RecorderSaved
<1>4. SameQueue(box, box') /\ SameRecords(box', saved)
  BY <1>1, <1>2, RelaunchKeeps
<1>5. SameSaid(box, box')
  BY <1>4 DEF SameQueue, SameSaid
<1>6. box'.deadLetters = box.deadLetters
  BY <1>1, <1>4 DEF SameRecords
<1> QED BY <1>1, <1>2, <1>3, <1>5, <1>6, SameKeepsPrefix

(* A trip that was made is there since it was begun.                       *)
LEMMA MadeHasLanded ==
  ASSUME NEW d, Begun(d), NEW s, RowsDated(d, s), NEW id \in S!Ids(s),
         NEW cmd, cmd.type = "createTrip", RowKey(d, s, id) = cmd.key
  PROVE  Landed(d, s, cmd)
<1> SUFFICES ASSUME NEW n \in 1..Len(d), d[n].slot # GpsSlot, Bears(d, cmd, n)
             PROVE  Has(d, s, n)
  BY DEF Landed
<1> DEFINE m == s.trips[id].fields.leftHomeAt
<1>1. m \in 1..Len(d) /\ d[m].key = cmd.key
  BY DEF RowsDated, RowKey
<1>2. d[n].key = cmd.key /\ n = cmd.key[2]
  <2>1. Silent(cmd)
    BY Quiet
  <2> QED BY <2>1 DEF Bears, Silent
<1>3. n <= m /\ d[n].slot = TripSlot /\ d[n].field = "leftHomeAt"
  BY <1>1, <1>2 DEF Begun
<1>4. Shows(s.trips[id], d[n].slot, d[n].field, m) /\ m >= n
  <2>1. m # Nil /\ m >= n
    BY <1>1, <1>3, OutboxSystemAssumption
  <2> QED BY <1>3, <2>1 DEF Shows, TripFields
<1>5. RowKey(d, s, id) = d[n].key
  BY <1>2
<1> QED BY <1>4, <1>5 DEF Has

(* An answer takes out what is on the server.                              *)
LEMMA ReturnKeepsPrefix ==
  ASSUME Kept, TripsKept, RecordsKept, TurnKept, PrefixKept, Return
  PROVE  PrefixKept'
<1> DEFINE i == call.id
           outcome == call.answer
           cmd == box.entries[i].cmd
           c == Completed(box, i, outcome)
<1>1. IsState(box) /\ Awaited /\ Orderly(box) /\ RecorderTyped
  BY TypeParts DEF Kept, BoxTyped, QueueKept
<1>2. /\ call # NoCall /\ outcome # NoAnswer /\ call' = NoCall
      /\ i \in Ids(box) /\ box.entries[i].inFlight
      /\ box' = c
      /\ server' = server /\ late' = late /\ diary' = diary /\ trip' = trip
      /\ removed' = removed /\ overtaken' = overtaken
      /\ reviewed' = reviewed /\ cancelled' = cancelled
  BY DEF Return, Complete, Persist, serverVars, recorderVars, historyVars
<1>3. /\ outcome \in OutcomesOf(cmd, Nat)
      /\ call.req.type = cmd.type
  BY <1>1, <1>2 DEF Awaited
<1>4. /\ call.key = cmd.key
      /\ \A id \in Nat : outcome = TripCreated(id) =>
           RightId(diary, server, removed, box, id, cmd.key)
  BY <1>2 DEF TripsKept, CallFit, KeyAt
<1>5. CallRight(diary, server, box, call)
  BY <1>2 DEF TurnKept
<1>6. /\ Upheld(diary, server, box) /\ Sole(diary, server, box)
      /\ outcome = Delivered => Landed(diary, server, cmd)
      /\ \A k \in cancelled : Known(diary, k)
      /\ trip # NoTrip => trip.key \notin cancelled
  BY <1>2 DEF PrefixKept
<1>7. Grows(diary, diary') /\ Len(diary) \in Nat
  BY <1>1, <1>2 DEF RecorderTyped, Grows
<1>8. \/ /\ cmd.type = "createTrip"
         /\ \E id \in Nat : outcome = TripCreated(id) /\ c = AfterTripCreated(box, i, id)
      \/ /\ cmd.type # "createTrip"
         /\ \/ outcome \in {Delivered, Unreadable}
            \/ outcome = NotFound /\ IsDelete(cmd)
         /\ c = AfterDelivered(box, i)
      \/ outcome = Transient /\ c = AfterRetry(box, i)
      \/ outcome = Unauthorized /\ c = AfterPause(box, i)
      \/ /\ \/ outcome = Refused
            \/ outcome = NotFound /\ ~IsDelete(cmd)
            \/ outcome = Unreadable /\ cmd.type = "createTrip"
         /\ c = AfterReject(box, i)
  BY <1>1, <1>2, <1>3, CompletedCases
<1> HIDE DEF c
<1>9. ASSUME Ids(box') = Ids(box) \ {i},
             \A j \in Ids(box') : box'.entries[j] = box.entries[j],
             box'.deadLetters = box.deadLetters,
             Sole(diary, server, box'), Landed(diary, server, cmd)
      PROVE  PrefixKept'
  <2>1. \A j \in Ids(box) : Past(diary, box.entries[j].cmd)
    BY DEF RecordsKept, BoxMeant, Intended
  <2>2. /\ \A j \in Ids(box') : j \in Ids(box) /\ box'.entries[j].cmd = box.entries[j].cmd
        /\ \A j \in Ids(box) \ Ids(box') : j = i
    BY <1>9
  <2>3. Upheld(diary, server, box')
    <3>1. \A j \in Ids(box) \ Ids(box') : Landed(diary, server, box.entries[j].cmd)
      BY <1>9, <2>2
    <3> QED BY <1>1, <1>6, <1>7, <2>1, <2>2, <3>1, FewerUpheld
  <2>4. \A k : CreateWaits(box', k) => CreateWaits(box, k)
    BY <2>2 DEF CreateWaits, TypeAt, KeyAt
  <2>5. Upheld(diary', server, box')
    BY <1>2, <2>3
  <2>6. /\ \A k \in cancelled' : Known(diary', k)
        /\ trip' # NoTrip => trip'.key \notin cancelled'
    BY <1>2, <1>6
  <2> QED BY <1>1, <1>2, <1>7, <1>9, <2>4, <2>5, <2>6, PhoneKeepsPrefix
<1>10. ASSUME NEW id \in Nat, cmd.type = "createTrip", outcome = TripCreated(id),
              c = AfterTripCreated(box, i, id)
       PROVE  PrefixKept'
  <2> DEFINE key == cmd.key
             r == AfterTripCreated(box, i, id)
  <2>1. /\ r = [entries |-> r.entries, tripIds |-> r.tripIds,
                deadLetters |-> box.deadLetters, nextId |-> box.nextId,
                paused |-> box.paused]
        /\ Ids(r) = Ids(box) \ {i}
        /\ \A j \in Ids(r) : r.entries[j] = box.entries[j]
        /\ DOMAIN r.tripIds = DOMAIN box.tripIds \cup {key}
        /\ r.tripIds[key] = id
        /\ \A k \in DOMAIN box.tripIds \ {key} : r.tripIds[k] = box.tripIds[k]
    BY <1>1, <1>2, TripCreatedParts
  <2>2. box' = r
    BY <1>2, <1>10
  <2> HIDE DEF r
  <2>3. box'.deadLetters = box.deadLetters
    BY <2>1, <2>2
  <2>4. id \in S!Ids(server)
    BY <1>5, <1>10 DEF CallRight
  <2>5. RowKey(diary, server, id) = key
    BY <1>4, <1>10, <2>4 DEF RightId, Names
  <2>6. Landed(diary, server, cmd)
    BY <1>10, <2>4, <2>5, MadeHasLanded DEF RecordsKept, TripsKept
  <2>7. OneRow(diary, server)
    BY OneRowIs
  <2>8. Sole(diary, server, box')
    BY <1>6, <2>1, <2>2, <2>4, <2>5, <2>7 DEF Sole, OneRow
  <2> QED BY <1>9, <2>1, <2>2, <2>3, <2>6, <2>8
<1>11. CASE cmd.type # "createTrip" /\ c = AfterDelivered(box, i)
            /\ (outcome \in {Delivered, Unreadable} \/ (outcome = NotFound /\ IsDelete(cmd)))
  <2> DEFINE r == AfterDelivered(box, i)
  <2>1. /\ r = [entries |-> r.entries, tripIds |-> r.tripIds,
                deadLetters |-> box.deadLetters, nextId |-> box.nextId,
                paused |-> box.paused]
        /\ Ids(r) = Ids(box) \ {i}
        /\ \A j \in Ids(r) : r.entries[j] = box.entries[j]
        /\ DOMAIN r.tripIds = IF IsDelete(cmd) THEN DOMAIN box.tripIds \ {cmd.key}
                             ELSE DOMAIN box.tripIds
        /\ \A k \in DOMAIN r.tripIds : r.tripIds[k] = box.tripIds[k]
    BY <1>1, <1>2, DeliveredParts
  <2>2. box' = r
    BY <1>2, <1>11
  <2> HIDE DEF r
  <2>3. box'.deadLetters = box.deadLetters
    BY <2>1, <2>2
  <2>4. Sole(diary, server, box')
    BY <1>6, <2>1, <2>2 DEF Sole
  <2>5. Landed(diary, server, cmd)
    BY <1>5, <1>6, <1>11, NothingToLand DEF CallRight, IsDelete
  <2> QED BY <1>9, <2>1, <2>2, <2>3, <2>4, <2>5
<1>12. CASE (outcome = Transient /\ c = AfterRetry(box, i))
            \/ (outcome = Unauthorized /\ c = AfterPause(box, i))
  <2>1. /\ box' = [entries |-> box'.entries, tripIds |-> box.tripIds,
                   deadLetters |-> box.deadLetters, nextId |-> box.nextId,
                   paused |-> box'.paused]
        /\ Ids(box') = Ids(box)
        /\ \A j \in Ids(box) \ {i} : box'.entries[j] = box.entries[j]
        /\ box'.entries[i].cmd = cmd
    BY <1>1, <1>2, <1>12, PutBackParts
  <2>2. \A j \in Ids(box) : box'.entries[j].cmd = box.entries[j].cmd
    BY <2>1
  <2>3. box'.tripIds = box.tripIds /\ box'.deadLetters = box.deadLetters
    BY <2>1
  <2>4. SameSaid(box, box')
    BY <2>1, <2>2, <2>3 DEF SameSaid
  <2> QED BY <1>1, <1>2, <2>3, <2>4, SameKeepsPrefix
<1>13. CASE c = AfterReject(box, i)
            /\ \/ outcome = Refused
               \/ outcome = NotFound /\ ~IsDelete(cmd)
               \/ outcome = Unreadable /\ cmd.type = "createTrip"
  BY <1>3, <1>5, <1>13 DEF CallRight, IsDelete
<1> QED BY <1>8, <1>10, <1>11, <1>12, <1>13

(* The driver: what it sends, takes and waits for changes no record.       *)
LEMMA DriveKeepsPrefix ==
  ASSUME Reliable, Kept, TripsKept, RecordsKept, TurnKept, PrefixKept, Drive
  PROVE  PrefixKept'
<1>1. /\ RecorderTyped /\ IsState(box) /\ Awaited
  BY TypeParts DEF Kept, BoxTyped
<1>2. box.deadLetters = {}
  BY DEF PrefixKept, Undisturbed
<1>3. ASSUME ~ClearReviews
      PROVE  /\ trip' = trip /\ diary' = diary /\ server' = server /\ late' = late
             /\ removed' = removed /\ overtaken' = overtaken
             /\ reviewed' = reviewed /\ cancelled' = cancelled
  BY <1>3 DEF Drive, SendOne, SendFailsToSave, FindsNothing, DrainEnds, Ending, Driving,
         Return, WakeFires, TimePasses, Expedite, SaveToken,
         recorderVars, historyVars, serverVars
<1>4. ASSUME ~ClearReviews, SameSaid(box, box'), box'.deadLetters = box.deadLetters,
             \/ call' = call /\ Holds(box, box')
             \/ call' # NoCall => call'.answer = NoAnswer
      PROVE  PrefixKept'
  BY <1>1, <1>3, <1>4, SameKeepsPrefix
<1>5. CASE SendOne
  <2>1. PICK i \in Dispatchable(box) :
          /\ box' = Dispatched(box, i)
          /\ call' = [id |-> i, key |-> box.entries[i].cmd.key,
                      req |-> RequestOf(box.entries[i].cmd), answer |-> NoAnswer]
    BY <1>5 DEF SendOne
  <2>2. i \in Ids(box)
    BY DEF Dispatchable, Ready
  <2>3. SameCmds(box, box')
    BY <1>1, <2>1, <2>2, FlagsSameCmds
  <2>4. SameSaid(box, box')
    BY <2>3 DEF SameCmds, SameSaid
  <2>5. box'.deadLetters = box.deadLetters
    BY <1>1, <2>1, <2>2, DispatchedParts
  <2>6. call'.answer = NoAnswer
    BY <2>1
  <2>7. ~ClearReviews
    BY <1>2 DEF ClearReviews
  <2> QED BY <1>4, <2>4, <2>5, <2>6, <2>7
<1>6. CASE SendFailsToSave
  BY <1>6 DEF SendFailsToSave, Reliable
<1>7. CASE FindsNothing \/ DrainEnds \/ WakeFires
  <2>1. box' = box /\ call' = call
    BY <1>7 DEF FindsNothing, DrainEnds, Ending, WakeFires
  <2>2. SameSaid(box, box') /\ Holds(box, box') /\ box'.deadLetters = box.deadLetters
    BY <2>1 DEF SameSaid, Holds
  <2>3. ~ClearReviews
    BY <1>2 DEF ClearReviews
  <2> QED BY <1>4, <2>1, <2>2, <2>3
<1>8. CASE Return
  BY <1>8, ReturnKeepsPrefix
<1>9. ASSUME NEW i \in Ids(box), TimePasses(i) PROVE PrefixKept'
  <2>1. box' = Due(box, i) /\ call' = call
    BY <1>9 DEF TimePasses, RetryDue, driverVars
  <2>2. SameQueue(box, box') /\ Holds(box, box') /\ box'.deadLetters = box.deadLetters
    BY <1>1, <2>1, FlagsOrderly, FlagsHold, FlagsLetters
  <2>3. SameSaid(box, box')
    BY <2>2 DEF SameQueue, SameSaid
  <2>4. ~ClearReviews
    BY <1>2 DEF ClearReviews
  <2> QED BY <1>4, <2>1, <2>2, <2>3, <2>4
<1>10. CASE Expedite \/ SaveToken
  <2>1. box' \in {Expedited(box), Resumed(box)} /\ call' = call
    BY <1>10 DEF Expedite, ExpediteRetries, SaveToken, Resume, Persist, driverVars
  <2>2. SameQueue(box, box') /\ Holds(box, box') /\ box'.deadLetters = box.deadLetters
    BY <1>1, <2>1, FlagsOrderly, FlagsHold, FlagsLetters
  <2>3. SameSaid(box, box')
    BY <2>2 DEF SameQueue, SameSaid
  <2>4. ~ClearReviews
    BY <1>2 DEF ClearReviews
  <2> QED BY <1>4, <2>1, <2>2, <2>3, <2>4
<1>11. CASE ClearReviews
  BY <1>2, <1>11 DEF ClearReviews
<1> QED BY <1>5, <1>6, <1>7, <1>8, <1>9, <1>10, <1>11 DEF Drive

(* The network. *)

(* A request under way is that of entry i, the head of its lane.           *)
Sent(d, s, b, x, req, i) ==
  /\ i \in Ids(b) /\ KeyAt(b, i) \in Keys
  /\ IsLaneHead(b, i)
  /\ Same(req, b.entries[i].cmd)
  /\ Fits(d, s, b, req)
  /\ req.type = "createTrip" => KeyAt(b, i) = <<req.route, req.leftHomeAt>>
  /\ req.type # "createTrip" => /\ Meant(d, s, b, x, req, KeyAt(b, i))
                                /\ ReqRight(d, s, b, req, KeyAt(b, i))

(* Unless it is a delete, what the server has it still has.                *)
LEMMA SentHas ==
  ASSUME NEW d \in Seq(Writings), NEW s, IsServer(s), NEW b, NEW x,
         NEW req \in PhoneRequests, RowsDated(d, s), RowsMeant(d, s, b),
         NEW i, Sent(d, s, b, x, req, i), req.type # "deleteTrip",
         NEW n \in 1..Len(d), Has(d, s, n)
  PROVE  Has(d, S!Served(s, req).state, n)
<1>1. Fits(d, s, b, req) /\ i \in Ids(b) /\ KeyAt(b, i) \in Keys
      /\ Same(req, b.entries[i].cmd)
  BY DEF Sent
<1>2. req.type # "createTrip" =>
        \E k \in Keys : /\ Meant(d, s, b, {}, req, k)
                        /\ \E j \in Ids(b) : /\ KeyAt(b, j) = k
                                             /\ Same(req, b.entries[j].cmd)
  <2> SUFFICES ASSUME req.type # "createTrip"
               PROVE  Meant(d, s, b, {}, req, KeyAt(b, i))
    BY <1>1
  <2>1. Meant(d, s, b, x, req, KeyAt(b, i))
    BY DEF Sent
  <2> QED BY <2>1 DEF Meant
<1>3. Settled(d, s, {}, {}, n)
  BY DEF Settled
<1>4. Settled(d, S!Served(s, req).state, {}, {}, n)
  BY <1>1, <1>2, <1>3, ServedKeeps
<1> QED BY <1>4 DEF Settled

(* A delete leaves what is not of its trip.                                *)
LEMMA DeletedHas ==
  ASSUME NEW d, NEW s, IsServer(s), NEW req \in PhoneRequests, req.type = "deleteTrip",
         NEW n, d[n].slot # GpsSlot, Has(d, s, n),
         req.tripId \in S!Ids(s) => RowKey(d, s, req.tripId) # d[n].key,
         NEW t, t = S!Served(s, req).state
  PROVE  Has(d, t, n)
<1>1. /\ S!Ids(t) = S!Ids(s) \ {req.tripId}
      /\ \A j \in S!Ids(t) : t.trips[j] = s.trips[j]
  <2> DEFINE u == S!Served(s, req).state
             outcome == S!Served(s, req).outcome
             id == req.tripId
  <2>1. /\ outcome = IF id \in S!Ids(s) THEN Delivered ELSE NotFound
        /\ id \notin S!Ids(s) => u = s
        /\ u = [trips |-> u.trips, gps |-> u.gps, lastId |-> s.lastId]
        /\ S!Ids(u) = S!Ids(s) \ {id}
        /\ u.trips = [i \in S!Ids(u) |-> u.trips[i]]
        /\ \A i \in S!Ids(u) : u.trips[i] = s.trips[i]
        /\ DOMAIN u.gps \subseteq DOMAIN s.gps
        /\ u.gps = [p \in DOMAIN u.gps |-> s.gps[p]]
        /\ id \in S!Ids(s) => DOMAIN u.gps = {p \in DOMAIN s.gps : s.gps[p] # id}
    BY DeleteParts
  <2> HIDE DEF u
  <2> QED BY <2>1 DEF u
<1>2. PICK id \in S!Ids(s) : \E v :
        /\ RowKey(d, s, id) = d[n].key
        /\ Shows(s.trips[id], d[n].slot, d[n].field, v)
        /\ v >= n
  BY DEF Has
<1>3. id \in S!Ids(t) /\ t.trips[id] = s.trips[id]
  BY <1>1, <1>2
<1>4. RowKey(d, t, id) = RowKey(d, s, id)
  BY <1>3 DEF RowKey
<1> QED BY <1>2, <1>3, <1>4 DEF Has

(* What a delivered request carried is on the server.                      *)
LEMMA SentLands ==
  ASSUME NEW d \in Seq(Writings), NEW s, IsServer(s), NEW b, IsState(b), NEW x,
         NEW req \in PhoneRequests, RowsDated(d, s),
         NEW i, Sent(d, s, b, x, req, i), req.type # "createTrip",
         S!Served(s, req).outcome = Delivered
  PROVE  Landed(d, S!Served(s, req).state, b.entries[i].cmd)
<1> DEFINE cmd == b.entries[i].cmd
<1>1. /\ Fits(d, s, b, req) /\ Same(req, cmd) /\ Meant(d, s, b, x, req, cmd.key)
      /\ i \in Ids(b)
  BY DEF Sent, KeyAt
<1>2. cmd \in Commands /\ cmd.type # "createTrip"
  <2>1. cmd \in Commands
    BY <1>1, StateFields, EntryFields
  <2> QED BY <1>1, <2>1 DEF Same
<1> HIDE DEF cmd
<1>3. \A n \in 1..Len(d) : Bears(d, cmd, n) => Has(d, S!Served(s, req).state, n)
  BY <1>1, <1>2, ServedDelivers
<1> QED BY <1>3 DEF Landed, cmd

(* What comes before the head of a lane, of a row, is what it carries.     *)
LEMMA AheadOfHead ==
  ASSUME NEW d, NEW b, IsState(b), NEW i \in Ids(b), IsLaneHead(b, i),
         b.entries[i].cmd.type # "uploadGps",
         NEW n, OfRow(d, KeyAt(b, i), n), Ahead(d, b, i, n)
  PROVE  Bears(d, b.entries[i].cmd, n)
<1>1. PICK j \in Ids(b) : j <= i /\ Bears(d, b.entries[j].cmd, n)
  BY DEF Ahead
<1>2. /\ d[n].slot # GpsSlot
      /\ b.entries[j].cmd.key = b.entries[i].cmd.key
  BY <1>1 DEF Bears, OfRow, KeyAt
<1>3. b.entries[j].cmd.type # "uploadGps"
  <2> SUFFICES ASSUME b.entries[j].cmd.type = "uploadGps"
               PROVE  FALSE
    OBVIOUS
  <2>1. Silent(b.entries[j].cmd)
    BY Quiet
  <2> QED BY <1>1, <1>2, <2>1 DEF Bears, Silent
<1>4. LaneOf(b, j) = LaneOf(b, i)
  BY <1>2, <1>3 DEF LaneOf, Lane
<1>5. i <= j
  BY <1>4 DEF IsLaneHead
<1>6. b.nextId \in Nat /\ Ids(b) \subseteq 1..(b.nextId - 1)
  BY StateFields
<1>7. i \in Int /\ j \in Int
  BY <1>6
<1>8. i = j
  BY <1>1, <1>5, <1>7
<1> QED BY <1>1, <1>8

(* A new row shows when its trip was begun.                                *)
LEMMA NewRowGapFree ==
  ASSUME NEW d, Begun(d), NEW t, NEW id \in S!Ids(t), NEW req,
         t.trips[id] = S!NewTrip(req), Known(d, <<req.route, req.leftHomeAt>>),
         NEW slot, NEW f, NEW v, Shows(t.trips[id], slot, f, v),
         NEW n \in 1..v, OfRow(d, RowKey(d, t, id), n)
  PROVE  Has(d, t, n)
<1> DEFINE m == req.leftHomeAt
<1>1. m \in 1..Len(d) /\ d[m].key = <<req.route, m>>
  BY DEF Known
<1>2. /\ t.trips[id].fields = [g \in TripFields |-> IF g = "leftHomeAt" THEN m ELSE Nil]
      /\ t.trips[id].attempts = << >>
  BY DEF S!NewTrip, S!TripFields, TripFields
<1>3. t.trips[id].fields.leftHomeAt = m
  BY <1>2 DEF TripFields
<1>4. v = m
  BY <1>2 DEF Shows, TripFields
<1>5. d[n].key = <<req.route, m>>
  BY <1>1, <1>3 DEF OfRow, RowKey
<1>6. n \in 1..Len(d) /\ n <= m
  BY <1>1, <1>4
<1>7. m <= n
  BY <1>5, <1>6 DEF Begun
<1>8. n = m
  BY <1>1, <1>6, <1>7
<1>9. d[n].slot = TripSlot /\ d[n].field = "leftHomeAt"
  BY <1>5, <1>6, <1>8 DEF Begun
<1>10. Shows(t.trips[id], TripSlot, "leftHomeAt", m)
  <2>1. m # Nil
    BY <1>1, OutboxSystemAssumption
  <2> QED BY <1>3, <2>1 DEF Shows, TripFields
<1>11. m >= n /\ RowKey(d, t, id) = d[n].key
  BY <1>1, <1>3, <1>8 DEF RowKey
<1> QED BY <1>9, <1>10, <1>11, SlotsApart DEF Has

(* A row is changed only by a request that is answered as delivered.       *)
LEMMA ChangedIsDelivered ==
  ASSUME NEW s, IsServer(s), NEW req \in PhoneRequests,
         req.type \in {"updateTrip", "upsertAttempt"},
         S!Served(s, req).state # s
  PROVE  S!Served(s, req).outcome = Delivered
<1>1. CASE req.type = "updateTrip"
  <2> DEFINE t == S!Served(s, req).state
             outcome == S!Served(s, req).outcome
             id == req.tripId
             fields == S!Overlay(s.trips[id].fields, req.body)
             row == [s.trips[id] EXCEPT !.fields = fields]
  <2>1. \/ /\ id \notin S!Ids(s)
           /\ t = s
           /\ outcome = NotFound
        \/ /\ id \in S!Ids(s)
           /\ t = s
           /\ outcome = Refused
           /\ \/ ~S!TripOrdered(row)
              \/ \E i \in S!Ids(s) \ {id} :
                   S!HasKey(s.trips[i], row.route, row.fields.leftHomeAt)
        \/ /\ id \in S!Ids(s)
           /\ outcome = Delivered
           /\ t = [trips |-> t.trips, gps |-> s.gps, lastId |-> s.lastId]
           /\ S!Ids(t) = S!Ids(s)
           /\ t.trips = [i \in S!Ids(t) |-> t.trips[i]]
           /\ t.trips[id] =
                [route |-> s.trips[id].route, tripDate |-> s.trips[id].tripDate,
                 fields |-> fields, attempts |-> s.trips[id].attempts]
           /\ \A i \in S!Ids(s) \ {id} : t.trips[i] = s.trips[i]
    BY <1>1, UpdateParts
  <2>2. t # s
    OBVIOUS
  <2> HIDE DEF t, outcome, fields, row
  <2>3. outcome = Delivered
    BY <2>1, <2>2
  <2> QED BY <2>3 DEF outcome
<1>2. CASE req.type = "upsertAttempt"
  <2> DEFINE t == S!Served(s, req).state
             outcome == S!Served(s, req).outcome
             id == req.tripId
             k == req.attempt
             old == s.trips[id]
             new == t.trips[id]
  <2>1. \/ /\ id \notin S!Ids(s)
           /\ t = s
           /\ outcome = NotFound
        \/ /\ id \in S!Ids(s)
           /\ t = s
           /\ outcome = Refused
           /\ ~Accepts(old, k, req.body)
        \/ /\ id \in S!Ids(s)
           /\ outcome = Delivered
           /\ t = [trips |-> t.trips, gps |-> s.gps, lastId |-> s.lastId]
           /\ S!Ids(t) = S!Ids(s)
           /\ t.trips = [i \in S!Ids(t) |-> t.trips[i]]
           /\ \A i \in S!Ids(s) \ {id} : t.trips[i] = s.trips[i]
           /\ new = [route |-> old.route, tripDate |-> old.tripDate,
                     fields |-> old.fields, attempts |-> new.attempts]
           /\ k[1] \in Legs
           /\ Attempted(Upserted(old.attempts, k, req.body), new.attempts)
    BY <1>2, UpsertParts
  <2>2. t # s
    OBVIOUS
  <2> HIDE DEF t, outcome, old, new
  <2>3. outcome = Delivered
    BY <2>1, <2>2
  <2> QED BY <2>3 DEF outcome
<1> QED BY <1>1, <1>2

(* A row is as free of gaps as the entries of its trip are upheld.         *)
LEMMA SentGapFree ==
  ASSUME NEW d \in Seq(Writings), Begun(d), NEW s, IsServer(s), NEW b, IsState(b), NEW x,
         NEW req \in PhoneRequests, RowsDated(d, s), RowsMeant(d, s, b),
         BoxMeant(d, b, x), OneRow(d, s), GapFree(d, s), Upheld(d, s, b),
         NEW i, Sent(d, s, b, x, req, i), NEW t, t = S!Served(s, req).state
  PROVE  GapFree(d, t)
<1> SUFFICES ASSUME NEW id \in S!Ids(t), NEW slot, NEW f, NEW v,
                    Shows(t.trips[id], slot, f, v),
                    NEW n \in 1..v, OfRow(d, RowKey(d, t, id), n)
             PROVE  Has(d, t, n)
  BY DEF GapFree
<1>1. ASSUME req.type # "deleteTrip", NEW m \in 1..Len(d), Has(d, s, m)
      PROVE  Has(d, t, m)
  BY <1>1, SentHas
<1>2. ASSUME id \in S!Ids(s), t.trips[id] = s.trips[id]
      PROVE  Has(d, t, n)
  <2>1. RowKey(d, t, id) = RowKey(d, s, id)
    BY <1>2 DEF RowKey
  <2>2. n \in 1..Len(d)
    <3>1. v \in 1..Len(d)
      BY <1>2 DEF RowsMeant
    <3>2. Len(d) \in Nat
      OBVIOUS
    <3> QED BY <3>1, <3>2
  <2>3. Has(d, s, n)
    BY <1>2, <2>1 DEF GapFree
  <2>4. CASE req.type = "deleteTrip"
    <3>1. req.tripId \notin S!Ids(t)
      BY <2>4, DeleteTakes
    <3>2. d[n].slot # GpsSlot /\ d[n].key = RowKey(d, s, id)
      BY <2>1 DEF OfRow
    <3>3. req.tripId \in S!Ids(s) => RowKey(d, s, req.tripId) # d[n].key
      BY <1>2, <3>1, <3>2 DEF OneRow
    <3> QED BY <2>3, <2>4, <3>2, <3>3, DeletedHas
  <2> QED BY <1>1, <2>2, <2>3, <2>4
<1>3. CASE req.type = "createTrip"
  <2> DEFINE u == S!Served(s, req).state
             outcome == S!Served(s, req).outcome
             new == s.lastId + 1
  <2>1. \/ u = s
        \/ /\ S!Ids(u) = S!Ids(s) \cup {new}
           /\ u.trips[new] = S!NewTrip(req)
           /\ \A j \in S!Ids(s) : j # new /\ u.trips[j] = s.trips[j]
    <3>1. \/ /\ u = s
             /\ \E j \in S!SameKey(s, req) :
                  outcome = IF s.trips[j].tripDate = Today THEN TripCreated(j)
                            ELSE Refused
          \/ /\ S!SameKey(s, req) = {}
             /\ outcome = TripCreated(new)
             /\ u = [trips |-> u.trips, gps |-> s.gps, lastId |-> new]
             /\ S!Ids(u) = S!Ids(s) \cup {new}
             /\ u.trips = [j \in S!Ids(u) |-> u.trips[j]]
             /\ u.trips[new] = S!NewTrip(req)
             /\ \A j \in S!Ids(s) : j # new /\ u.trips[j] = s.trips[j]
      BY <1>3, CreateParts
    <3> HIDE DEF u, outcome, new
    <3> QED BY <3>1
  <2>2. t = u
    OBVIOUS
  <2> HIDE DEF u, outcome, new
  <2>3. CASE id \in S!Ids(s)
    BY <1>2, <2>1, <2>2, <2>3
  <2>4. CASE id \notin S!Ids(s)
    <3>1. t.trips[id] = S!NewTrip(req)
      BY <2>1, <2>2, <2>4
    <3>2. Known(d, <<req.route, req.leftHomeAt>>)
      BY <1>3 DEF Sent, Fits
    <3> QED BY <3>1, <3>2, NewRowGapFree
  <2> QED BY <2>3, <2>4
<1>4. CASE req.type \in {"updateTrip", "upsertAttempt"}
  <2>1. \/ t = s
        \/ /\ req.tripId \in S!Ids(s)
           /\ S!Ids(t) = S!Ids(s)
           /\ \A j \in S!Ids(s) \ {req.tripId} : t.trips[j] = s.trips[j]
           /\ Took(s.trips[req.tripId], t.trips[req.tripId], req)
    BY <1>4, ServedTook
  <2>2. CASE t = s \/ id # req.tripId
    BY <1>2, <2>1, <2>2
  <2>3. CASE t # s /\ id = req.tripId
    <3> DEFINE cmd == b.entries[i].cmd
               k == KeyAt(b, i)
    <3>1. /\ i \in Ids(b) /\ IsLaneHead(b, i) /\ Same(req, cmd) /\ Fits(d, s, b, req)
          /\ Names(d, s, id, k)
      BY <1>4, <2>3 DEF Sent, Meant
    <3>2. RowKey(d, s, id) = k
      BY <2>1, <2>3, <3>1 DEF Names
    <3>3. RowKey(d, t, id) = k
      <4>1. Len(d) \in Nat
        OBVIOUS
      <4>2. Evolves(d, s, t, b)
        BY <3>1, <4>1, ServedEvolves
      <4>3. id <= s.lastId
        BY <2>1, <2>3 DEF IsServer
      <4> QED BY <2>1, <2>3, <3>2, <4>2, <4>3 DEF Evolves
    <3>4. Tells(req, slot, f, v) \/ Shows(s.trips[id], slot, f, v)
      BY <2>1, <2>3 DEF Took
    <3>5. v \in 1..Len(d)
      <4>1. Past(d, req)
        BY <1>4 DEF Sent, Meant
      <4> QED BY <2>1, <2>3, <3>4, <4>1 DEF Past, RowsMeant
    <3>6. n \in 1..Len(d)
      <4>1. Len(d) \in Nat
        OBVIOUS
      <4> QED BY <3>5, <4>1
    <3>7. CASE Shows(s.trips[id], slot, f, v)
      <4>1. Has(d, s, n)
        BY <2>1, <2>3, <3>2, <3>3, <3>7 DEF GapFree
      <4> QED BY <1>1, <1>4, <3>6, <4>1
    <3>8. CASE Tells(req, slot, f, v)
      <4>1. Tells(cmd, slot, f, v)
        BY <3>1, <3>8, SameTells
      <4>2. OfRow(d, k, n)
        BY <3>3
      <4>3. Has(d, s, n) \/ Ahead(d, b, i, n)
        BY <3>1, <4>1, <4>2 DEF Upheld
      <4>4. ASSUME Ahead(d, b, i, n) PROVE Has(d, t, n)
        <5>1. cmd.type # "uploadGps" /\ req.type # "createTrip"
          BY <1>4, <3>1 DEF Same
        <5>2. Bears(d, cmd, n)
          BY <3>1, <4>2, <4>4, <5>1, AheadOfHead
        <5>3. S!Served(s, req).outcome = Delivered
          BY <1>4, <2>3, ChangedIsDelivered
        <5>4. Landed(d, t, cmd)
          BY <5>1, <5>3, SentLands
        <5> QED BY <3>6, <4>2, <5>2, <5>4 DEF Landed, OfRow
      <4> QED BY <1>1, <1>4, <3>6, <4>3, <4>4
    <3> QED BY <3>4, <3>7, <3>8
  <2> QED BY <2>2, <2>3
<1>5. CASE req.type \in {"uploadGps", "deleteTrip"}
  <2>1. CASE req.type = "deleteTrip"
    <3> DEFINE u == S!Served(s, req).state
               outcome == S!Served(s, req).outcome
               row == req.tripId
    <3>1. /\ outcome = IF row \in S!Ids(s) THEN Delivered ELSE NotFound
          /\ row \notin S!Ids(s) => u = s
          /\ u = [trips |-> u.trips, gps |-> u.gps, lastId |-> s.lastId]
          /\ S!Ids(u) = S!Ids(s) \ {row}
          /\ u.trips = [j \in S!Ids(u) |-> u.trips[j]]
          /\ \A j \in S!Ids(u) : u.trips[j] = s.trips[j]
          /\ DOMAIN u.gps \subseteq DOMAIN s.gps
          /\ u.gps = [p \in DOMAIN u.gps |-> s.gps[p]]
          /\ row \in S!Ids(s) => DOMAIN u.gps = {p \in DOMAIN s.gps : s.gps[p] # row}
      BY <2>1, DeleteParts
    <3>2. t = u
      OBVIOUS
    <3> HIDE DEF u, outcome
    <3> QED BY <1>2, <3>1, <3>2
  <2>2. CASE req.type = "uploadGps"
    <3> DEFINE u == S!Served(s, req).state
               outcome == S!Served(s, req).outcome
               row == req.tripId
    <3>1. \/ /\ row # NoTrip /\ row \notin S!Ids(s)
             /\ u = s
             /\ outcome = NotFound
          \/ /\ row = NoTrip \/ row \in S!Ids(s)
             /\ outcome = Delivered
             /\ u = [trips |-> s.trips, gps |-> u.gps, lastId |-> s.lastId]
             /\ S!Ids(u) = S!Ids(s)
             /\ DOMAIN u.gps = DOMAIN s.gps \cup req.points
             /\ u.gps = [p \in DOMAIN u.gps |->
                           IF p \in DOMAIN s.gps THEN s.gps[p] ELSE row]
      BY <2>2, GpsParts
    <3>2. t = u
      OBVIOUS
    <3> HIDE DEF u, outcome
    <3>3. u.trips = s.trips /\ S!Ids(u) = S!Ids(s)
      BY <3>1
    <3> QED BY <1>2, <3>2, <3>3
  <2> QED BY <1>5, <2>1, <2>2
<1> QED BY <1>3, <1>4, <1>5 DEF PhoneRequests

(* What waits is still upheld; of a trip that is deleted nothing waits.    *)
LEMMA SentUpheld ==
  ASSUME NEW d \in Seq(Writings), NEW s, IsServer(s), NEW b, NEW x,
         NEW req \in PhoneRequests, RowsDated(d, s), RowsMeant(d, s, b),
         BoxMeant(d, b, x), Upheld(d, s, b),
         NEW i, Sent(d, s, b, x, req, i), NEW t, t = S!Served(s, req).state
  PROVE  Upheld(d, t, b)
<1> SUFFICES ASSUME NEW j \in Ids(b), NEW slot, NEW f, NEW v,
                    Tells(b.entries[j].cmd, slot, f, v),
                    NEW n \in 1..v, OfRow(d, KeyAt(b, j), n), Has(d, s, n)
             PROVE  Has(d, t, n)
  BY DEF Upheld
<1>1. n \in 1..Len(d)
  <2>1. v \in 1..Len(d) /\ Len(d) \in Nat
    BY DEF BoxMeant, Intended, Past
  <2> QED BY <2>1
<1>2. CASE req.type # "deleteTrip"
  BY <1>1, <1>2, SentHas
<1>3. CASE req.type = "deleteTrip"
  <2>1. ASSUME req.tripId \in S!Ids(s), RowKey(d, s, req.tripId) = d[n].key
        PROVE  FALSE
    <3>1. ReqRight(d, s, b, req, KeyAt(b, i))
      BY <1>3 DEF Sent
    <3>2. RowKey(d, s, req.tripId) = KeyAt(b, i) /\ OnlyDeletes(b, KeyAt(b, i))
      BY <1>3, <2>1, <3>1 DEF ReqRight, Names
    <3>3. KeyAt(b, j) = KeyAt(b, i)
      BY <2>1, <3>2 DEF OfRow
    <3>4. b.entries[j].cmd.type = "deleteTrip"
      BY <3>2, <3>3 DEF OnlyDeletes, TypeAt
    <3>5. Silent(b.entries[j].cmd)
      BY <3>4, Quiet
    <3> QED BY <3>5 DEF Silent
  <2>2. d[n].slot # GpsSlot
    BY DEF OfRow
  <2> QED BY <1>3, <2>1, <2>2, DeletedHas
<1> QED BY <1>2, <1>3

(* A row is one of before, or that of the create.                          *)
LEMMA SentRows ==
  ASSUME NEW d, Len(d) \in Nat, NEW s, IsServer(s), NEW b, NEW x,
         NEW req \in PhoneRequests, RowsDated(d, s),
         NEW i, Sent(d, s, b, x, req, i), NEW t, t = S!Served(s, req).state
  PROVE  /\ \A r \in S!Ids(t) :
              \/ r \in S!Ids(s) /\ RowKey(d, t, r) = RowKey(d, s, r)
              \/ req.type = "createTrip" /\ RowKey(d, t, r) = KeyAt(b, i)
         /\ \A r \in S!Ids(s) \ S!Ids(t) : req.type = "deleteTrip" /\ r = req.tripId
<1>1. Fits(d, s, b, req)
  BY DEF Sent
<1>2. CASE req.type # "createTrip"
  <2>1. OneRowTouched(d, s, t, req)
    BY <1>1, <1>2, PlainServed
  <2> QED BY <2>1 DEF OneRowTouched
<1>3. CASE req.type = "createTrip"
  <2> DEFINE u == S!Served(s, req).state
             outcome == S!Served(s, req).outcome
             new == s.lastId + 1
             m == req.leftHomeAt
  <2>1. \/ /\ u = s
           /\ \E j \in S!SameKey(s, req) :
                outcome = IF s.trips[j].tripDate = Today THEN TripCreated(j)
                          ELSE Refused
        \/ /\ S!SameKey(s, req) = {}
           /\ outcome = TripCreated(new)
           /\ u = [trips |-> u.trips, gps |-> s.gps, lastId |-> new]
           /\ S!Ids(u) = S!Ids(s) \cup {new}
           /\ u.trips = [j \in S!Ids(u) |-> u.trips[j]]
           /\ u.trips[new] = S!NewTrip(req)
           /\ \A j \in S!Ids(s) : j # new /\ u.trips[j] = s.trips[j]
    BY <1>3, CreateParts
  <2>2. t = u
    OBVIOUS
  <2>3. S!NewTrip(req).fields.leftHomeAt = m
    BY DEF S!NewTrip, S!TripFields
  <2>4. d[m].key = KeyAt(b, i)
    BY <1>1, <1>3 DEF Fits, Known, Sent
  <2> HIDE DEF u, outcome, new, m
  <2>5. CASE t = s
    BY <2>5
  <2>6. CASE t # s
    <3>1. /\ S!Ids(t) = S!Ids(s) \cup {new}
          /\ t.trips[new] = S!NewTrip(req)
          /\ \A j \in S!Ids(s) : t.trips[j] = s.trips[j]
      BY <2>1, <2>2, <2>6
    <3>2. RowKey(d, t, new) = KeyAt(b, i)
      BY <2>3, <2>4, <3>1 DEF RowKey
    <3>3. \A r \in S!Ids(s) : RowKey(d, t, r) = RowKey(d, s, r)
      BY <3>1 DEF RowKey
    <3> QED BY <1>3, <3>1, <3>2, <3>3
  <2> QED BY <2>5, <2>6
<1> QED BY <1>2, <1>3

(* So ids stay those of the only row, and what was removed stays away.     *)
LEMMA SentDeparted ==
  ASSUME NEW d, Len(d) \in Nat, NEW s, IsServer(s), NEW b, NEW x, CreateOnce(b),
         NEW req \in PhoneRequests, RowsDated(d, s), OneRow(d, s), Sole(d, s, b),
         NEW i, Sent(d, s, b, x, req, i), NEW t, t = S!Served(s, req).state,
         NEW r, Departed(d, s, b, r)
  PROVE  Sole(d, t, b) /\ Departed(d, t, b, r \cup RemovedBy(d, s, t))
<1>1. /\ \A id \in S!Ids(t) :
           \/ id \in S!Ids(s) /\ RowKey(d, t, id) = RowKey(d, s, id)
           \/ req.type = "createTrip" /\ RowKey(d, t, id) = KeyAt(b, i)
      /\ \A id \in S!Ids(s) \ S!Ids(t) : req.type = "deleteTrip" /\ id = req.tripId
  BY SentRows
<1>2. req.type = "createTrip" => CreateWaits(b, KeyAt(b, i))
  BY DEF Sent, Same, CreateWaits, TypeAt
<1>3. Sole(d, t, b)
  BY <1>1, <1>2 DEF Sole, CreateOnce
<1>4. ASSUME NEW k \in r PROVE ~CreateWaits(b, k) /\ ~MadeTrip(d, t, k)
  BY <1>1, <1>2, <1>4 DEF Departed, MadeTrip
<1>5. ASSUME NEW k \in RemovedBy(d, s, t) PROVE ~CreateWaits(b, k) /\ ~MadeTrip(d, t, k)
  <2>1. PICK id \in S!Ids(s) \ S!Ids(t) : RowKey(d, s, id) = k
    BY <1>5 DEF RemovedBy
  <2>2. req.type = "deleteTrip" /\ id = req.tripId
    BY <1>1
  <2>3. ReqRight(d, s, b, req, KeyAt(b, i))
    BY <2>2 DEF Sent
  <2>4. k = KeyAt(b, i) /\ k \in DOMAIN b.tripIds
    BY <2>1, <2>2, <2>3 DEF ReqRight, Names
  <2>5. ~CreateWaits(b, k)
    BY <2>4 DEF CreateOnce
  <2>6. ~MadeTrip(d, t, k)
    BY <1>1, <2>1, <2>2 DEF MadeTrip, OneRow
  <2> QED BY <2>5, <2>6
<1> QED BY <1>3, <1>4, <1>5 DEF Departed

(* The request that is awaited is sent as it was meant.                    *)
LEMMA CallIsSent ==
  ASSUME Kept, TripsKept, RecordsKept, TurnKept, call # NoCall
  PROVE  Sent(diary, server, box, cancelled, call.req, call.id)
<1>1. DriverTyped /\ Awaited
  BY TypeParts DEF Kept
<1>2. call.id \in Ids(box) /\ box.entries[call.id].inFlight
  BY <1>1 DEF Awaited
<1>3. /\ CallMeant(diary, server, box, cancelled, overtaken, call)
      /\ CallFit(diary, server, removed, box, call)
      /\ CallRight(diary, server, box, call)
      /\ HeadsOnly(box) /\ BoxMeant(diary, box, cancelled)
  BY DEF RecordsKept, TripsKept, TurnKept
<1>4. IsLaneHead(box, call.id)
  BY <1>2, <1>3 DEF HeadsOnly
<1>5. KeyAt(box, call.id) \in Keys
  BY <1>2, <1>3 DEF BoxMeant, Intended, KeyAt
<1>6. /\ Same(call.req, box.entries[call.id].cmd)
      /\ call.req.type # "createTrip" =>
           Meant(diary, server, box, cancelled, call.req, KeyAt(box, call.id))
  BY <1>3 DEF CallMeant
<1>7. /\ Fits(diary, server, box, call.req)
      /\ call.key = KeyAt(box, call.id)
      /\ call.req.type = "createTrip" =>
           call.key = <<call.req.route, call.req.leftHomeAt>>
  BY <1>3 DEF CallFit
<1>8. call.req.type # "createTrip" => ReqRight(diary, server, box, call.req, call.key)
  BY <1>3 DEF CallRight
<1> QED BY <1>2, <1>4, <1>5, <1>6, <1>7, <1>8 DEF Sent

(* The network: a request that is served brings a row to the next prefix.  *)
LEMMA NetworkKeepsPrefix ==
  ASSUME Reliable, MaxLate = 0, Kept, TripsKept, RecordsKept, TurnKept, PrefixKept,
         Network
  PROVE  PrefixKept'
<1>1. RecorderTyped /\ DriverTyped /\ IsState(box) /\ IsServer(server) /\ Awaited
  BY TypeParts DEF Kept, BoxTyped
<1>2. /\ box' = box /\ diary' = diary /\ cancelled' = cancelled /\ reviewed' = reviewed
      /\ trip' = trip
  BY DEF Network, Served, TurnedAway, TimesOut, ArrivesLate, Networking, historyVars,
         recorderVars
<1>3. /\ GapFree(diary, server) /\ Upheld(diary, server, box)
      /\ Sole(diary, server, box) /\ Departed(diary, server, box, removed)
      /\ Undisturbed
      /\ \A k \in cancelled : Known(diary, k)
      /\ trip # NoTrip => trip.key \notin cancelled
  BY DEF PrefixKept
<1>4. ~TimesOut /\ ~ArrivesLate
  <2>1. late = {}
    BY <1>3 DEF Undisturbed
  <2>2. Cardinality({}) = 0
    BY FS_EmptySet
  <2>3. ~(Cardinality(late) < MaxLate)
    BY <2>1, <2>2
  <2> QED BY <2>1, <2>3 DEF TimesOut, ArrivesLate
<1>5. CASE TurnedAway
  <2>1. /\ Waiting /\ server' = server /\ removed' = removed /\ overtaken' = overtaken
        /\ late' = late
    BY <1>5 DEF TurnedAway, serverVars
  <2>2. PICK answer \in {Transient, Unauthorized} : call' = [call EXCEPT !.answer = answer]
    BY <1>5 DEF TurnedAway, Reliable
  <2>3. call'.answer = answer
    BY <1>1, <2>1, <2>2, AnsweredParts
  <2>4. answer # Delivered
    BY DEF Transient, Unauthorized, Delivered
  <2>5. Undisturbed'
    BY <1>2, <1>3, <2>1 DEF Undisturbed
  <2> QED BY <1>2, <1>3, <2>1, <2>3, <2>4, <2>5 DEF PrefixKept
<1>6. CASE Served
  <2> DEFINE req == call.req
             i == call.id
             t == S!Served(server, req).state
  <2>1. Waiting /\ Handles(call.req) /\ late' = late /\ overtaken' = overtaken
    BY <1>6 DEF Served
  <2>2. PICK answer \in Understood(S!Served(server, call.req).outcome) :
          call' = [call EXCEPT !.answer = answer]
    BY <1>6 DEF Served
  <2>3. /\ call.req \in PhoneRequests
        /\ call'.req = call.req /\ call'.id = call.id /\ call'.answer = answer
    BY <1>1, <2>1, <2>2, AnsweredParts
  <2>4. call # NoCall /\ i \in Ids(box) /\ box.entries[i].inFlight
    BY <1>1, <2>1 DEF Waiting, Awaited
  <2>5. Sent(diary, server, box, cancelled, req, i)
    BY <2>4, CallIsSent
  <2>6. server' = t /\ removed' = removed \cup RemovedBy(diary, server, t)
    <3>1. server' = t
      BY <2>1 DEF Handles
    <3>2. \A id : KeyOf(server.trips[id]) = RowKey(diary, server, id)
      BY DEF KeyOf, RowKey
    <3>3. removed' = removed \cup {RowKey(diary, server, id) :
                       id \in DOMAIN server.trips \ DOMAIN server'.trips}
      BY <2>1, <3>2 DEF Handles
    <3> QED BY <3>1, <3>3 DEF RemovedBy, S!Ids
  <2>7. /\ Begun(diary) /\ BoxMeant(diary, box, cancelled)
        /\ RowsMeant(diary, server, box) /\ RowsDated(diary, server)
        /\ diary \in Seq(Writings) /\ Len(diary) \in Nat
        /\ OneRow(diary, server) /\ CreateOnce(box)
    <3>1. diary \in Seq(Writings)
      BY <1>1 DEF RecorderTyped
    <3>2. OneRow(diary, server) /\ CreateOnce(box)
      BY OneRowIs DEF TurnKept
    <3> QED BY <3>1, <3>2 DEF RecordsKept, TripsKept
  <2>8. GapFree(diary, t)
    BY <1>1, <1>3, <2>3, <2>5, <2>7, SentGapFree
  <2>9. Upheld(diary, t, box)
    BY <1>1, <1>3, <2>3, <2>5, <2>7, SentUpheld
  <2>10. /\ Sole(diary, t, box)
         /\ Departed(diary, t, box, removed \cup RemovedBy(diary, server, t))
    BY <1>1, <1>3, <2>3, <2>5, <2>7, SentDeparted
  <2>11. ASSUME call'.answer = Delivered
         PROVE  Landed(diary, t, box.entries[i].cmd)
    <3>1. req.type # "createTrip" /\ S!Served(server, req).outcome = Delivered
      BY <1>1, <2>2, <2>3, <2>11, AnswerMeans
    <3> QED BY <1>1, <2>3, <2>5, <2>7, <3>1, SentLands
  <2>12. Undisturbed'
    BY <1>2, <1>3, <2>1 DEF Undisturbed
  <2> HIDE DEF t
  <2> QED BY <1>2, <1>3, <2>3, <2>6, <2>8, <2>9, <2>10, <2>11, <2>12 DEF PrefixKept
<1> QED BY <1>4, <1>5, <1>6 DEF Network

(* At first nothing is recorded,                                           *)
LEMMA InitPrefixKept == Init => PrefixKept
<1> SUFFICES ASSUME Init PROVE PrefixKept
  OBVIOUS
<1>1. /\ Ids(box) = {} /\ S!Ids(server) = {} /\ call = NoCall /\ trip = NoTrip
      /\ removed = {} /\ cancelled = {}
  BY DEF Init, Empty, Ids, S!Ids, S!NewServer
<1>2. Undisturbed
  BY DEF Init, Empty, Undisturbed
<1> QED BY <1>1, <1>2 DEF PrefixKept, GapFree, Upheld, Sole, Departed

(* and every step leaves the server at a prefix of the diary.              *)
LEMMA StepPrefixKept ==
  ASSUME Reliable, TimesOnly, ScriptInTurn, MaxLate = 0
  PROVE  Kept /\ TripsKept /\ RecordsKept /\ TurnKept /\ PrefixKept /\ [Next]_vars
           => PrefixKept'
<1> SUFFICES ASSUME Kept, TripsKept, RecordsKept, TurnKept, PrefixKept, [Next]_vars
             PROVE  PrefixKept'
  OBVIOUS
<1>1. CASE Record
  <2>1. Kept' /\ RecordsKept' /\ TurnKept'
    BY StepKept, StepRecordsKept, StepTurnKept
  <2> QED BY <1>1, <2>1, RecordKeepsPrefix
<1>2. CASE Drive
  BY <1>2, DriveKeepsPrefix
<1>3. CASE Network
  BY <1>3, NetworkKeepsPrefix
<1>4. CASE Crash
  BY <1>4, CrashKeepsPrefix
<1>5. CASE UNCHANGED vars
  <2>1. /\ box' = box /\ server' = server /\ call' = call /\ diary' = diary
        /\ trip' = trip /\ late' = late /\ removed' = removed /\ overtaken' = overtaken
        /\ cancelled' = cancelled /\ reviewed' = reviewed
    BY <1>5 DEF vars, recorderVars, driverVars, serverVars, historyVars
  <2> QED BY <2>1 DEF PrefixKept, Undisturbed
<1> QED BY <1>1, <1>2, <1>3, <1>4, <1>5 DEF Next

-----------------------------------------------------------------------------
(* The diary of TripDiary. *)

(* The latest record of each field among the first m of trip k.            *)
UpTo(d, k, m) ==
  {<<d[n].slot, d[n].field, n>> :
     n \in {w \in 1..m :
       /\ d[w].key = k
       /\ d[w].slot \in {TripSlot} \cup Attempts
       /\ ~ \E v \in (w + 1)..m : d[v] = d[w]}}

(* What the server holds of trip k.                                        *)
Held(d, s, k) ==
  UNION {RowContent(s.trips[i]) : i \in {j \in S!Ids(s) : RowKey(d, s, j) = k}}

Following(d, s, b) ==
  /\ d \in Seq(Writings) /\ IsServer(s) /\ RowsDated(d, s)
  /\ RowsMeant(d, s, b) /\ RowsHonest(d, s) /\ OneRow(d, s) /\ GapFree(d, s)

(* A set of numbers with a bound has a greatest one.                       *)
LEMMA Greatest ==
  ASSUME NEW N \in Nat, NEW V, V \subseteq 1..N, V # {}
  PROVE  \E m \in V : \A v \in V : v <= m
<1> DEFINE T == {N - v : v \in V}
<1>1. T \subseteq Nat /\ T # {}
  <2>1. \A v \in V : v \in 1..N
    OBVIOUS
  <2>2. \A v \in V : N - v \in Nat
    BY <2>1
  <2> QED BY <2>2
<1>2. \E x \in T : \A y \in T : x <= y
  BY <1>1, Least
<1>3. PICK m \in V : \A v \in V : N - m <= N - v
  BY <1>2
<1>4. \A v \in V : v <= m
  <2> TAKE v \in V
  <2>1. v \in 1..N /\ m \in 1..N /\ N - m <= N - v
    BY <1>3
  <2> QED BY <2>1
<1> QED BY <1>4

(* The attempts of a row are numbered from 1.                              *)
LEMMA AttemptsNumbered ==
  ASSUME NEW s, IsServer(s), NEW id \in S!Ids(s)
  PROVE  DOMAIN s.trips[id].attempts \subseteq Legs \X (Nat \ {0})
<1>1. DOMAIN s.trips[id].attempts \subseteq Legs \X {k[2] : k \in Attempts}
  BY DEF IsServer, S!IsTrip
<1>2. {k[2] : k \in Attempts} \subseteq Nat \ {0}
  BY OutboxSystemAssumption
<1> QED BY <1>1, <1>2

(* A row shows one value of a field, of the trip or an attempt.            *)
LEMMA ShowsOne ==
  ASSUME NEW d \in Seq(Writings), NEW s, IsServer(s), RowsHonest(d, s),
         NEW id \in S!Ids(s), NEW slot, NEW f, NEW v, Shows(s.trips[id], slot, f, v)
  PROVE  /\ slot \in {TripSlot} \cup Attempts
         /\ Recorded(d, RowKey(d, s, id), slot, f, v)
         /\ \A w : Shows(s.trips[id], slot, f, w) => w = v
<1>1. Recorded(d, RowKey(d, s, id), slot, f, v)
  BY DEF RowsHonest, RowHonest
<1>2. slot \in {TripSlot, GpsSlot} \cup Attempts
  BY <1>1, WritingParts DEF Recorded
<1>3. DOMAIN s.trips[id].attempts \subseteq Legs \X (Nat \ {0})
  BY AttemptsNumbered
<1>4. TripSlot \notin DOMAIN s.trips[id].attempts /\ GpsSlot \notin DOMAIN s.trips[id].attempts
  <2>1. TripSlot[2] = 0 /\ GpsSlot[2] = 0
    BY DEF TripSlot, GpsSlot
  <2>2. \A a \in DOMAIN s.trips[id].attempts : a[2] # 0
    BY <1>3
  <2> QED BY <2>1, <2>2
<1>5. slot # GpsSlot
  BY <1>4, SlotsApart DEF Shows
<1>6. \A w : Shows(s.trips[id], slot, f, w) => w = v
  BY <1>4 DEF Shows
<1> QED BY <1>1, <1>2, <1>5, <1>6

(* A row is what some prefix of the diary says of its trip.                *)
LEMMA RowIsUpTo ==
  ASSUME NEW d, NEW s, NEW b, Following(d, s, b), NEW id \in S!Ids(s)
  PROVE  \E m \in 1..Len(d) :
           /\ RowContent(s.trips[id]) = UpTo(d, RowKey(d, s, id), m)
           /\ UpTo(d, RowKey(d, s, id), m) # {}
<1> DEFINE row == s.trips[id]
           k == RowKey(d, s, id)
           V == {v \in 1..Len(d) : \E slot, f : Shows(row, slot, f, v)}
<1>1. d \in Seq(Writings) /\ IsServer(s) /\ RowsDated(d, s) /\ Len(d) \in Nat
      /\ RowsMeant(d, s, b) /\ RowsHonest(d, s) /\ OneRow(d, s) /\ GapFree(d, s)
  BY DEF Following
<1>2. \A slot, f, v : Shows(row, slot, f, v) => v \in V
  BY <1>1 DEF RowsMeant
<1>3. Shows(row, TripSlot, "leftHomeAt", row.fields.leftHomeAt)
  <2>1. row.fields.leftHomeAt \in 1..Len(d)
    BY <1>1 DEF RowsDated
  <2>2. row.fields.leftHomeAt # Nil
    BY <2>1, OutboxSystemAssumption
  <2> QED BY <2>2 DEF Shows, TripFields
<1>4. PICK m \in V : \A v \in V : v <= m
  <2>1. V # {}
    BY <1>2, <1>3
  <2>2. V \subseteq 1..Len(d)
    OBVIOUS
  <2> HIDE DEF V
  <2> QED BY <1>1, <2>1, <2>2, Greatest
<1>5. m \in 1..Len(d)
  OBVIOUS
<1>6. PICK slot0, f0 : Shows(row, slot0, f0, m)
  OBVIOUS
<1> HIDE DEF V
<1>7. ASSUME NEW slot, NEW f, NEW v, Shows(row, slot, f, v)
      PROVE  /\ v \in 1..m /\ d[v].key = k /\ d[v].slot = slot /\ d[v].field = f
             /\ slot \in {TripSlot} \cup Attempts /\ slot # GpsSlot
             /\ \A w : Shows(row, slot, f, w) => w = v
  <2>1. /\ slot \in {TripSlot} \cup Attempts
        /\ Recorded(d, k, slot, f, v)
        /\ \A w : Shows(row, slot, f, w) => w = v
    BY <1>1, <1>7, ShowsOne
  <2>2. v <= m
    BY <1>2, <1>4, <1>7
  <2>3. v \in 1..m
    BY <1>1, <1>5, <2>1, <2>2 DEF Recorded
  <2> QED BY <2>1, <2>3, SlotsApart DEF Recorded
<1>8. ASSUME NEW w \in 1..m, d[w].key = k, d[w].slot \in {TripSlot} \cup Attempts
      PROVE  \E v \in w..m : Shows(row, d[w].slot, d[w].field, v)
  <2>1. d[w].slot # GpsSlot
    BY <1>8, SlotsApart
  <2>2. Has(d, s, w)
    BY <1>1, <1>6, <1>8, <2>1 DEF GapFree, OfRow
  <2>3. PICK i \in S!Ids(s) : \E v :
          /\ RowKey(d, s, i) = d[w].key
          /\ Shows(s.trips[i], d[w].slot, d[w].field, v)
          /\ v >= w
    BY <2>1, <2>2 DEF Has
  <2>4. i = id
    BY <1>1, <1>8, <2>3 DEF OneRow
  <2>5. PICK v : Shows(row, d[w].slot, d[w].field, v) /\ v >= w
    BY <2>3, <2>4
  <2>6. v \in 1..m
    BY <1>7, <2>5
  <2>7. v \in w..m
    BY <1>1, <1>5, <2>5, <2>6
  <2> QED BY <2>5, <2>7
<1>9. \A c \in RowContent(row) : \E slot, f, v : c = <<slot, f, v>>
  BY DEF RowContent
<1>10. ASSUME NEW c \in RowContent(row) PROVE c \in UpTo(d, k, m)
  <2>1. PICK slot, f, v : c = <<slot, f, v>>
    BY <1>9
  <2>2. Shows(row, slot, f, v)
    BY <2>1, ContentIsShown
  <2>3. /\ v \in 1..m /\ d[v].key = k /\ d[v].slot = slot /\ d[v].field = f
        /\ slot \in {TripSlot} \cup Attempts
        /\ \A w : Shows(row, slot, f, w) => w = v
    BY <1>7, <2>2
  <2>4. ASSUME NEW w \in (v + 1)..m, d[w] = d[v] PROVE FALSE
    <3>1. w \in 1..m /\ w > v
      BY <1>5, <2>3, <2>4
    <3>2. PICK u \in w..m : Shows(row, d[w].slot, d[w].field, u)
      BY <1>8, <2>3, <2>4, <3>1
    <3>3. u = v
      BY <2>3, <2>4, <3>2
    <3> QED BY <1>5, <2>3, <3>1, <3>2, <3>3
  <2> QED BY <2>1, <2>3, <2>4 DEF UpTo
<1>11. ASSUME NEW c \in UpTo(d, k, m) PROVE c \in RowContent(row)
  <2>1. PICK w \in 1..m :
          /\ c = <<d[w].slot, d[w].field, w>>
          /\ d[w].key = k
          /\ d[w].slot \in {TripSlot} \cup Attempts
          /\ ~ \E v \in (w + 1)..m : d[v] = d[w]
    BY DEF UpTo
  <2>2. PICK v \in w..m : Shows(row, d[w].slot, d[w].field, v)
    BY <1>8, <2>1
  <2>3. /\ v \in 1..m /\ d[v].key = k /\ d[v].slot = d[w].slot
        /\ d[v].field = d[w].field
    BY <1>7, <2>2
  <2>4. d[v] \in Writings /\ d[w] \in Writings
    BY <1>1, <1>5, <2>3
  <2>5. d[v] = d[w]
    BY <2>1, <2>3, <2>4 DEF Writings
  <2>6. v = w
    BY <1>5, <2>1, <2>2, <2>3, <2>5
  <2>7. <<d[w].slot, d[w].field, w>> \in RowContent(row)
    BY <2>2, <2>6, ContentIsShown
  <2> QED BY <2>1, <2>7
<1>12. RowContent(row) = UpTo(d, k, m)
  BY <1>10, <1>11
<1>13. RowContent(row) # {}
  BY <1>3, ContentIsShown
<1> QED BY <1>5, <1>12, <1>13

(* So the server holds of a trip a prefix of the diary, or nothing.        *)
LEMMA HeldIsUpTo ==
  ASSUME NEW d, NEW s, NEW b, Following(d, s, b), NEW k
  PROVE  /\ MadeTrip(d, s, k) => /\ \E m \in 1..Len(d) : Held(d, s, k) = UpTo(d, k, m)
                                 /\ Held(d, s, k) # {}
         /\ ~MadeTrip(d, s, k) => Held(d, s, k) = {}
         /\ \A id \in S!Ids(s) :
              RowKey(d, s, id) = k => Held(d, s, k) = RowContent(s.trips[id])
<1>1. OneRow(d, s)
  BY DEF Following
<1>2. ASSUME NEW id \in S!Ids(s), RowKey(d, s, id) = k
      PROVE  Held(d, s, k) = RowContent(s.trips[id])
  <2>1. {j \in S!Ids(s) : RowKey(d, s, j) = k} = {id}
    BY <1>1, <1>2 DEF OneRow
  <2> QED BY <2>1 DEF Held
<1>3. ~MadeTrip(d, s, k) => Held(d, s, k) = {}
  BY DEF MadeTrip, Held
<1>4. ASSUME MadeTrip(d, s, k)
      PROVE  /\ \E m \in 1..Len(d) : Held(d, s, k) = UpTo(d, k, m)
             /\ Held(d, s, k) # {}
  <2>1. PICK id \in S!Ids(s) : RowKey(d, s, id) = k
    BY <1>4 DEF MadeTrip
  <2> QED BY <1>2, <2>1, RowIsUpTo
<1> QED BY <1>2, <1>3, <1>4

(* A delete of a row that is gone changes nothing.                         *)
LEMMA DeleteOfNothing ==
  ASSUME NEW s, IsServer(s), NEW req \in PhoneRequests, req.type = "deleteTrip",
         req.tripId \notin S!Ids(s)
  PROVE  S!Served(s, req).state = s
<1> DEFINE u == S!Served(s, req).state
           outcome == S!Served(s, req).outcome
           row == req.tripId
<1>1. /\ outcome = IF row \in S!Ids(s) THEN Delivered ELSE NotFound
      /\ row \notin S!Ids(s) => u = s
      /\ u = [trips |-> u.trips, gps |-> u.gps, lastId |-> s.lastId]
      /\ S!Ids(u) = S!Ids(s) \ {row}
      /\ u.trips = [j \in S!Ids(u) |-> u.trips[j]]
      /\ \A j \in S!Ids(u) : u.trips[j] = s.trips[j]
      /\ DOMAIN u.gps \subseteq DOMAIN s.gps
      /\ u.gps = [p \in DOMAIN u.gps |-> s.gps[p]]
      /\ row \in S!Ids(s) => DOMAIN u.gps = {p \in DOMAIN s.gps : s.gps[p] # row}
  BY DeleteParts
<1>2. row \notin S!Ids(s)
  OBVIOUS
<1> HIDE DEF u, outcome, row
<1>3. u = s
  BY <1>1, <1>2
<1> QED BY <1>3 DEF u

(* A request leaves the rows of other trips alone.                         *)
LEMMA SentElsewhere ==
  ASSUME NEW d, Len(d) \in Nat, NEW s, IsServer(s), NEW b, NEW x,
         NEW req \in PhoneRequests, RowsDated(d, s),
         NEW i, Sent(d, s, b, x, req, i), NEW t, t = S!Served(s, req).state
  PROVE  /\ \A r \in S!Ids(s) : RowKey(d, s, r) # KeyAt(b, i) =>
              r \in S!Ids(t) /\ t.trips[r] = s.trips[r]
         /\ \A r \in S!Ids(t) : RowKey(d, t, r) # KeyAt(b, i) =>
              r \in S!Ids(s) /\ RowKey(d, s, r) = RowKey(d, t, r)
<1>1. \A r \in S!Ids(t) : RowKey(d, t, r) # KeyAt(b, i) =>
        r \in S!Ids(s) /\ RowKey(d, s, r) = RowKey(d, t, r)
  BY SentRows
<1>2. req.type # "createTrip" /\ req.tripId \in S!Ids(s) =>
        RowKey(d, s, req.tripId) = KeyAt(b, i)
  BY DEF Sent, Meant, Names
<1>3. ASSUME NEW r \in S!Ids(s), RowKey(d, s, r) # KeyAt(b, i)
      PROVE  r \in S!Ids(t) /\ t.trips[r] = s.trips[r]
  <2>1. CASE req.type = "createTrip"
    <3> DEFINE u == S!Served(s, req).state
               outcome == S!Served(s, req).outcome
               new == s.lastId + 1
    <3>1. \/ /\ u = s
             /\ \E j \in S!SameKey(s, req) :
                  outcome = IF s.trips[j].tripDate = Today THEN TripCreated(j)
                            ELSE Refused
          \/ /\ S!SameKey(s, req) = {}
             /\ outcome = TripCreated(new)
             /\ u = [trips |-> u.trips, gps |-> s.gps, lastId |-> new]
             /\ S!Ids(u) = S!Ids(s) \cup {new}
             /\ u.trips = [j \in S!Ids(u) |-> u.trips[j]]
             /\ u.trips[new] = S!NewTrip(req)
             /\ \A j \in S!Ids(s) : j # new /\ u.trips[j] = s.trips[j]
      BY <2>1, CreateParts
    <3>2. t = u
      OBVIOUS
    <3> HIDE DEF u, outcome, new
    <3> QED BY <1>3, <3>1, <3>2
  <2>2. CASE req.type \in {"updateTrip", "upsertAttempt"}
    <3> DEFINE id == req.tripId
    <3>1. \/ t = s /\ S!Served(s, req).outcome # Delivered
          \/ /\ id \in S!Ids(s)
             /\ S!Ids(t) = S!Ids(s)
             /\ t.gps = s.gps
             /\ \A j \in S!Ids(s) \ {id} : t.trips[j] = s.trips[j]
             /\ Took(s.trips[id], t.trips[id], req)
      BY <2>2, ServedTook
    <3>2. id \in S!Ids(s) => r # id
      BY <1>2, <1>3, <2>2
    <3> HIDE DEF id
    <3> QED BY <1>3, <3>1, <3>2
  <2>3. CASE req.type = "uploadGps"
    <3> DEFINE u == S!Served(s, req).state
               outcome == S!Served(s, req).outcome
               row == req.tripId
    <3>1. \/ /\ row # NoTrip /\ row \notin S!Ids(s)
             /\ u = s
             /\ outcome = NotFound
          \/ /\ row = NoTrip \/ row \in S!Ids(s)
             /\ outcome = Delivered
             /\ u = [trips |-> s.trips, gps |-> u.gps, lastId |-> s.lastId]
             /\ S!Ids(u) = S!Ids(s)
             /\ DOMAIN u.gps = DOMAIN s.gps \cup req.points
             /\ u.gps = [p \in DOMAIN u.gps |->
                           IF p \in DOMAIN s.gps THEN s.gps[p] ELSE row]
      BY <2>3, GpsParts
    <3>2. t = u
      OBVIOUS
    <3> HIDE DEF u, outcome
    <3>3. u.trips = s.trips /\ S!Ids(u) = S!Ids(s)
      BY <3>1
    <3> QED BY <1>3, <3>2, <3>3
  <2>4. CASE req.type = "deleteTrip"
    <3> DEFINE u == S!Served(s, req).state
               outcome == S!Served(s, req).outcome
               row == req.tripId
    <3>1. /\ outcome = IF row \in S!Ids(s) THEN Delivered ELSE NotFound
          /\ row \notin S!Ids(s) => u = s
          /\ u = [trips |-> u.trips, gps |-> u.gps, lastId |-> s.lastId]
          /\ S!Ids(u) = S!Ids(s) \ {row}
          /\ u.trips = [j \in S!Ids(u) |-> u.trips[j]]
          /\ \A j \in S!Ids(u) : u.trips[j] = s.trips[j]
          /\ DOMAIN u.gps \subseteq DOMAIN s.gps
          /\ u.gps = [p \in DOMAIN u.gps |-> s.gps[p]]
          /\ row \in S!Ids(s) => DOMAIN u.gps = {p \in DOMAIN s.gps : s.gps[p] # row}
      BY <2>4, DeleteParts
    <3>2. t = u
      OBVIOUS
    <3>3. row \in S!Ids(s) => r # row
      BY <1>2, <1>3, <2>4
    <3> HIDE DEF u, outcome, row
    <3> QED BY <1>3, <3>1, <3>2, <3>3
  <2> QED BY <2>1, <2>2, <2>3, <2>4 DEF PhoneRequests
<1> QED BY <1>1, <1>3

(* Nothing of a newer content is older than what it replaces.              *)
Renews(new, old) ==
  \A c \in old : \E e \in new : e[1] = c[1] /\ e[2] = c[2] /\ e[3] >= c[3]

(* A request brings one trip to a newer prefix of its records, or takes it *)
(* away, or changes nothing of it.                                         *)
LEMMA SentHeld ==
  ASSUME NEW d, NEW s, NEW b, Following(d, s, b), NEW x,
         NEW req \in PhoneRequests, NEW i, Sent(d, s, b, x, req, i),
         NEW t, t = S!Served(s, req).state, Following(d, t, b),
         NEW k, k = KeyAt(b, i)
  PROVE  /\ \A j : j # k => Held(d, t, j) = Held(d, s, j)
         /\ \/ /\ RemovedBy(d, s, t) = {}
               /\ \/ Held(d, t, k) = Held(d, s, k)
                  \/ /\ MadeTrip(d, t, k)
                     /\ Renews(Held(d, t, k), Held(d, s, k))
            \/ /\ RemovedBy(d, s, t) = {k}
               /\ Held(d, s, k) # {}
               /\ Held(d, t, k) = {}
<1>1. /\ d \in Seq(Writings) /\ Len(d) \in Nat /\ IsServer(s) /\ RowsDated(d, s)
      /\ RowsMeant(d, s, b) /\ OneRow(d, s) /\ RowsHonest(d, s)
      /\ OneRow(d, t) /\ IsServer(t)
  BY DEF Following
<1>2. /\ \A r \in S!Ids(s) : RowKey(d, s, r) # k =>
           r \in S!Ids(t) /\ t.trips[r] = s.trips[r]
      /\ \A r \in S!Ids(t) : RowKey(d, t, r) # k =>
           r \in S!Ids(s) /\ RowKey(d, s, r) = RowKey(d, t, r)
  BY <1>1, SentElsewhere
<1>3. /\ \A r \in S!Ids(t) :
           \/ r \in S!Ids(s) /\ RowKey(d, t, r) = RowKey(d, s, r)
           \/ req.type = "createTrip" /\ RowKey(d, t, r) = k
      /\ \A r \in S!Ids(s) \ S!Ids(t) : req.type = "deleteTrip" /\ r = req.tripId
  BY <1>1, SentRows
<1>4. req.type = "deleteTrip" =>
        /\ req.tripId \notin S!Ids(t)
        /\ req.tripId \in S!Ids(s) => RowKey(d, s, req.tripId) = k
  BY <1>1, DeleteTakes DEF Sent, Meant, Names
<1>5. ASSUME NEW j, j # k PROVE Held(d, t, j) = Held(d, s, j)
  <2>1. \A r \in S!Ids(s) : RowKey(d, s, r) = j =>
          r \in S!Ids(t) /\ t.trips[r] = s.trips[r] /\ RowKey(d, t, r) = j
    BY <1>2, <1>5 DEF RowKey
  <2>2. \A r \in S!Ids(t) : RowKey(d, t, r) = j =>
          r \in S!Ids(s) /\ RowKey(d, s, r) = j
    BY <1>2, <1>5
  <2>3. CASE MadeTrip(d, s, j)
    <3>1. PICK r \in S!Ids(s) : RowKey(d, s, r) = j
      BY <2>3 DEF MadeTrip
    <3>2. Held(d, s, j) = RowContent(s.trips[r])
      BY <3>1, HeldIsUpTo
    <3>3. r \in S!Ids(t) /\ t.trips[r] = s.trips[r] /\ RowKey(d, t, r) = j
      BY <2>1, <3>1
    <3>4. Held(d, t, j) = RowContent(t.trips[r])
      BY <3>3, HeldIsUpTo
    <3> QED BY <3>2, <3>3, <3>4
  <2>4. CASE ~MadeTrip(d, s, j)
    <3>1. ~MadeTrip(d, t, j)
      BY <2>2, <2>4 DEF MadeTrip
    <3> QED BY <2>4, <3>1, HeldIsUpTo
  <2> QED BY <2>3, <2>4
<1>6. CASE S!Ids(s) \ S!Ids(t) # {}
  <2>1. /\ req.type = "deleteTrip" /\ req.tripId \in S!Ids(s)
        /\ S!Ids(s) \ S!Ids(t) = {req.tripId}
    BY <1>3, <1>4, <1>6
  <2>2. RowKey(d, s, req.tripId) = k
    BY <1>4, <2>1
  <2>3. RemovedBy(d, s, t) = {k}
    BY <2>1, <2>2 DEF RemovedBy
  <2>4. MadeTrip(d, s, k)
    BY <2>1, <2>2 DEF MadeTrip
  <2>5. ~MadeTrip(d, t, k)
    <3> SUFFICES ASSUME NEW r \in S!Ids(t), RowKey(d, t, r) = k PROVE FALSE
      BY DEF MadeTrip
    <3>1. r \in S!Ids(s) /\ RowKey(d, s, r) = k
      BY <1>3, <2>1
    <3>2. r = req.tripId
      BY <1>1, <2>1, <2>2, <3>1 DEF OneRow
    <3> QED BY <1>4, <2>1, <3>2
  <2>6. Held(d, s, k) # {} /\ Held(d, t, k) = {}
    BY <2>4, <2>5, HeldIsUpTo
  <2> QED BY <1>5, <2>3, <2>6
<1>7. CASE S!Ids(s) \ S!Ids(t) = {}
  <2>1. RemovedBy(d, s, t) = {}
    BY <1>7 DEF RemovedBy
  <2>2. CASE ~MadeTrip(d, t, k)
    <3>1. ~MadeTrip(d, s, k)
      <4> SUFFICES ASSUME NEW r \in S!Ids(s), RowKey(d, s, r) = k PROVE FALSE
        BY DEF MadeTrip
      <4>1. r \in S!Ids(t)
        BY <1>7
      <4>2. RowKey(d, t, r) = k
        BY <1>3, <4>1
      <4> QED BY <2>2, <4>1, <4>2 DEF MadeTrip
    <3>2. Held(d, t, k) = Held(d, s, k)
      BY <2>2, <3>1, HeldIsUpTo
    <3> QED BY <1>5, <2>1, <3>2
  <2>3. CASE MadeTrip(d, t, k)
    <3>1. CASE req.type = "deleteTrip"
      <4>1. req.tripId \notin S!Ids(s)
        BY <1>4, <1>7, <3>1
      <4>2. t = s
        BY <1>1, <3>1, <4>1, DeleteOfNothing
      <4> QED BY <1>5, <2>1, <4>2
    <3>2. CASE req.type # "deleteTrip"
      <4>1. ASSUME NEW c \in Held(d, s, k)
            PROVE  \E e \in Held(d, t, k) : e[1] = c[1] /\ e[2] = c[2] /\ e[3] >= c[3]
        <5>1. PICK r \in S!Ids(s) : RowKey(d, s, r) = k /\ c \in RowContent(s.trips[r])
          BY <4>1 DEF Held
        <5>2. PICK slot, f, v : c = <<slot, f, v>>
          BY <5>1 DEF RowContent
        <5>3. Shows(s.trips[r], slot, f, v)
          BY <5>1, <5>2, ContentIsShown
        <5>4. /\ slot \in {TripSlot} \cup Attempts
              /\ Recorded(d, k, slot, f, v)
              /\ \A w : Shows(s.trips[r], slot, f, w) => w = v
          BY <1>1, <5>1, <5>3, ShowsOne
        <5>5. /\ v \in 1..Len(d) /\ d[v].key = k /\ d[v].slot = slot
              /\ d[v].field = f /\ d[v].slot # GpsSlot
          BY <5>4, SlotsApart DEF Recorded
        <5>6. v >= v
          BY <1>1, <5>5
        <5>7. Has(d, s, v)
          BY <5>1, <5>3, <5>5, <5>6 DEF Has
        <5>8. Has(d, t, v)
          BY <1>1, <3>2, <5>5, <5>7, SentHas
        <5>9. PICK q \in S!Ids(t) : \E w :
                /\ RowKey(d, t, q) = k
                /\ Shows(t.trips[q], slot, f, w)
                /\ w >= v
          BY <5>5, <5>8 DEF Has
        <5>10. PICK w : Shows(t.trips[q], slot, f, w) /\ w >= v
          BY <5>9
        <5>11. <<slot, f, w>> \in RowContent(t.trips[q])
          BY <5>10, ContentIsShown
        <5>12. <<slot, f, w>> \in Held(d, t, k)
          BY <5>9, <5>11 DEF Held
        <5> QED BY <5>2, <5>10, <5>12
      <4>2. Renews(Held(d, t, k), Held(d, s, k))
        BY <4>1 DEF Renews
      <4> QED BY <1>5, <2>1, <2>3, <4>2
    <3> QED BY <3>1, <3>2
  <2> QED BY <2>2, <2>3
<1> QED BY <1>6, <1>7

(* The mapping, now and after a step.                                      *)
LEMMA StoredIs == Stored = [k \in Keys |-> Held(diary, server, k)]
<1>1. \A k : RowsOf(k) = {j \in S!Ids(server) : RowKey(diary, server, j) = k}
  BY DEF RowsOf, RowKey, KeyOf, S!Ids
<1> QED BY <1>1 DEF Stored, Held

(* The same after a step.                                                  *)
LEMMA StoredIsLater == (Stored = [k \in Keys |-> Held(diary, server, k)])'
BY StoredIs, PTL

(* What holds at every moment of a system that turns nothing down and gives*)
(* no request up.                                                          *)
DiaryKept == Kept /\ TripsKept /\ RecordsKept /\ TurnKept /\ PrefixKept

(* So the server follows the diary,                                        *)
LEMMA FollowingNow == DiaryKept => Following(diary, server, box)
<1> SUFFICES ASSUME DiaryKept PROVE Following(diary, server, box)
  OBVIOUS
<1>1. Kept /\ TripsKept /\ RecordsKept /\ TurnKept /\ PrefixKept
  BY DEF DiaryKept
<1>2. diary \in Seq(Writings) /\ IsServer(server)
  BY <1>1, TypeParts DEF Kept, RecorderTyped
<1>3. OneRow(diary, server)
  BY <1>1, OneRowIs
<1> QED BY <1>1, <1>2, <1>3 DEF Following, TripsKept, RecordsKept, TurnKept, PrefixKept

(* after a step too.                                                       *)
LEMMA FollowingLater == (DiaryKept => Following(diary, server, box))'
BY FollowingNow, PTL

(* A step of the phone leaves what the server holds.                       *)
LEMMA PhoneMaps ==
  ASSUME RowsDated(diary, server), Grows(diary, diary'), server' = server
  PROVE  Stored' = Stored
<1>1. \A id \in S!Ids(server) : RowKey(diary', server, id) = RowKey(diary, server, id)
  BY LaterKnown
<1>2. \A k : {j \in S!Ids(server) : RowKey(diary', server, j) = k}
               = {j \in S!Ids(server) : RowKey(diary, server, j) = k}
  BY <1>1
<1>3. \A k : Held(diary', server, k) = Held(diary, server, k)
  BY <1>2 DEF Held
<1> QED BY <1>3, StoredIs, StoredIsLater

(* The phone writes its diary, or cancels.                                 *)
LEMMA RecordMaps ==
  ASSUME DiaryKept, DiaryKept', Record
  PROVE  Diary!Next \/ UNCHANGED Diary!diaryVars
<1>1. RecorderTyped /\ RowsDated(diary, server)
  BY TypeParts DEF DiaryKept, Kept, TripsKept
<1>2. Len(diary) \in Nat /\ diary \in Seq(Writings)
  BY <1>1 DEF RecorderTyped
<1>3. ASSUME NEW cmd, NEW key, NEW slot, NEW field, Issues(cmd, key, slot, field)
      PROVE  Diary!Next
  <2>1. /\ Recording /\ Writes(key, slot, field)
        /\ key \in Keys
        /\ slot \in {TripSlot, GpsSlot} \cup Attempts
        /\ field \in TripFields \cup AttemptFields \cup {"point"}
        /\ (trip # NoTrip /\ trip.key = key) \/ key[2] = now
    BY <1>3 DEF Issues
  <2>2. server' = server /\ removed' = removed
    BY <2>1 DEF Recording, serverVars
  <2>3. /\ diary' = Append(diary, [key |-> key, slot |-> slot, field |-> field])
        /\ Len(diary) < MaxClock /\ cancelled' = cancelled
    BY <2>1 DEF Writes, clock
  <2>4. /\ diary' \in Seq(Writings) /\ Len(diary') = Len(diary) + 1
        /\ \A n \in 1..Len(diary) : diary'[n] = diary[n]
        /\ diary'[Len(diary')].key = key
    <3>1. [key |-> key, slot |-> slot, field |-> field] \in Writings
      BY <2>1 DEF Writings
    <3> QED BY <1>2, <2>3, <3>1
  <2>5. SubSeq(diary', 1, Len(diary)) = diary
    <3>1. SubSeq(diary', 1, Len(diary)) = [n \in 1..Len(diary) |-> diary'[n]]
      BY <1>2, <2>4
    <3>2. diary = [n \in 1..Len(diary) |-> diary[n]]
      BY <1>2
    <3> QED BY <2>4, <3>1, <3>2
  <2>6. Grows(diary, diary')
    BY <1>2, <2>4 DEF Grows
  <2>7. Stored' = Stored
    BY <1>1, <2>2, <2>6, PhoneMaps
  <2>8. key \notin cancelled
    <3>1. /\ trip # NoTrip => trip.key \notin cancelled
          /\ \A k \in cancelled : Known(diary, k)
      BY DEF DiaryKept, PrefixKept
    <3>2. CASE trip # NoTrip /\ trip.key = key
      BY <3>1, <3>2
    <3>3. CASE key[2] = now
      <4>1. ~Known(diary, key)
        BY <1>2, <3>3 DEF Known, now, clock
      <4> QED BY <3>1, <4>1
    <3> QED BY <2>1, <3>2, <3>3
  <2>9. Diary!Write
    BY <2>2, <2>3, <2>4, <2>5, <2>7, <2>8 DEF Diary!Write
  <2> QED BY <2>9 DEF Diary!Next
<1>4. CASE EndTrip \/ NothingToRecord \/ PersistRecorder
  <2>1. /\ diary' = diary /\ cancelled' = cancelled /\ server' = server
        /\ removed' = removed
    BY <1>4 DEF EndTrip, NothingToRecord, PersistRecorder, Recording, historyVars, serverVars
  <2>2. Grows(diary, diary')
    BY <1>2, <2>1 DEF Grows
  <2>3. Stored' = Stored
    BY <1>1, <2>1, <2>2, PhoneMaps
  <2> QED BY <2>1, <2>3 DEF Diary!diaryVars
<1>5. CASE CancelTrip
  <2>1. /\ trip # NoTrip /\ diary' = diary /\ server' = server /\ removed' = removed
        /\ cancelled' = cancelled \cup {trip.key}
    BY <1>5 DEF CancelTrip, Recording, serverVars
  <2>2. Grows(diary, diary')
    BY <1>2, <2>1 DEF Grows
  <2>3. Stored' = Stored
    BY <1>1, <2>1, <2>2, PhoneMaps
  <2>4. trip.key \in Keys
    BY <2>1 DEF DiaryKept, TripsKept, Known
  <2>5. Diary!Cancel(trip.key)
    BY <2>1, <2>3 DEF Diary!Cancel
  <2> QED BY <2>4, <2>5 DEF Diary!Next
<1> QED BY <1>1, <1>3, <1>4, <1>5, RecordSteps

(* Driver and crash write nothing,                                         *)
LEMMA DriveMaps ==
  ASSUME DiaryKept, Drive \/ Crash
  PROVE  UNCHANGED Diary!diaryVars
<1>1. RecorderTyped /\ RowsDated(diary, server)
  BY TypeParts DEF DiaryKept, Kept, TripsKept
<1>2. /\ diary' = diary /\ cancelled' = cancelled /\ server' = server
      /\ removed' = removed
  BY DEF Drive, Crash, SendOne, SendFailsToSave, FindsNothing, DrainEnds, Ending, Return,
         WakeFires, TimePasses, Expedite, SaveToken, ClearReviews, Driving, historyVars,
         serverVars
<1>3. Grows(diary, diary')
  BY <1>1, <1>2 DEF RecorderTyped, Grows
<1>4. Stored' = Stored
  BY <1>1, <1>2, <1>3, PhoneMaps
<1> QED BY <1>2, <1>4 DEF Diary!diaryVars

(* and the server is brought to a newer prefix of one trip, or removes it. *)
LEMMA NetworkMaps ==
  ASSUME Reliable, MaxLate = 0, DiaryKept, DiaryKept', Network
  PROVE  Diary!Next \/ UNCHANGED Diary!diaryVars
<1>1. /\ RecorderTyped /\ DriverTyped /\ Awaited /\ RowsDated(diary, server)
      /\ Kept /\ TripsKept /\ RecordsKept /\ TurnKept
      /\ Undisturbed
  BY TypeParts DEF DiaryKept, Kept, TripsKept, PrefixKept
<1>2. diary' = diary /\ cancelled' = cancelled /\ box' = box
  BY DEF Network, Served, TurnedAway, TimesOut, ArrivesLate, Networking, historyVars
<1>3. ~TimesOut /\ ~ArrivesLate
  <2>1. late = {}
    BY <1>1 DEF Undisturbed
  <2>2. Cardinality({}) = 0
    BY FS_EmptySet
  <2>3. ~(Cardinality(late) < MaxLate)
    BY <2>1, <2>2
  <2> QED BY <2>1, <2>3 DEF TimesOut, ArrivesLate
<1>4. CASE TurnedAway
  <2>1. server' = server /\ removed' = removed
    BY <1>4 DEF TurnedAway, serverVars
  <2>2. Grows(diary, diary')
    BY <1>1, <1>2 DEF RecorderTyped, Grows
  <2>3. Stored' = Stored
    BY <1>1, <2>1, <2>2, PhoneMaps
  <2> QED BY <1>2, <2>1, <2>3 DEF Diary!diaryVars
<1>5. CASE Served
  <2> DEFINE req == call.req
             i == call.id
             k == KeyAt(box, i)
             old == Held(diary, server, k)
             new == Held(diary, server', k)
  <2>1. call # NoCall /\ req \in PhoneRequests
    <3>1. Waiting
      BY <1>5 DEF Served
    <3> QED BY <1>1, <3>1 DEF Waiting, DriverTyped, Calls
  <2>2. Sent(diary, server, box, cancelled, req, i)
    BY <1>1, <2>1, CallIsSent
  <2>3. /\ server' = S!Served(server, req).state
        /\ removed' = removed \cup RemovedBy(diary, server, server')
    <3>1. Handles(req)
      BY <1>5 DEF Served
    <3>2. \A id : KeyOf(server.trips[id]) = RowKey(diary, server, id)
      BY DEF KeyOf, RowKey
    <3>3. removed' = removed \cup {RowKey(diary, server, id) :
                       id \in DOMAIN server.trips \ DOMAIN server'.trips}
      BY <3>1, <3>2 DEF Handles
    <3> QED BY <3>1, <3>3 DEF Handles, RemovedBy, S!Ids
  <2>4. Following(diary, server, box) /\ Following(diary, server', box)
    BY <1>2, FollowingNow, FollowingLater
  <2>5. k \in Keys
    BY <2>2 DEF Sent
  <2>6. /\ \A j : j # k => Held(diary, server', j) = Held(diary, server, j)
        /\ \/ /\ RemovedBy(diary, server, server') = {}
              /\ \/ new = old
                 \/ /\ MadeTrip(diary, server', k)
                    /\ Renews(new, old)
           \/ /\ RemovedBy(diary, server, server') = {k}
              /\ old # {}
              /\ new = {}
    <3>1. k = KeyAt(box, i)
      OBVIOUS
    <3> HIDE DEF req, i, k
    <3> QED BY <2>1, <2>2, <2>3, <2>4, <3>1, SentHeld
  <2>7. /\ Departed(diary, server', box, removed')
        /\ removed' \subseteq cancelled
    <3>1. Departed(diary', server', box', removed') /\ removed' \subseteq cancelled'
      BY DEF DiaryKept, PrefixKept, RecordsKept
    <3> QED BY <1>2, <3>1
  <2>8. /\ Stored = [j \in Keys |-> Held(diary, server, j)]
        /\ Stored' = [j \in Keys |-> Held(diary, server', j)]
    BY <1>2, StoredIs, StoredIsLater
  <2>9. MadeTrip(diary, server', k) =>
          /\ \E m \in 1..Len(diary) : new = UpTo(diary, k, m)
          /\ new # {}
    BY <2>4, HeldIsUpTo
  <2> HIDE DEF req, i, k, old, new
  <2>10. /\ Stored[k] = old /\ Stored'[k] = new
         /\ Stored' = [Stored EXCEPT ![k] = new]
    <3>1. Stored[k] = old /\ Stored'[k] = new
      BY <2>5, <2>8 DEF old, new
    <3>2. [Stored EXCEPT ![k] = new]
            = [j \in Keys |-> IF j = k THEN new ELSE Held(diary, server, j)]
      BY <2>8
    <3>3. \A j \in Keys : Held(diary, server', j)
                            = IF j = k THEN new ELSE Held(diary, server, j)
      BY <2>6 DEF new
    <3> QED BY <2>8, <3>1, <3>2, <3>3
  <2>11. CASE RemovedBy(diary, server, server') = {} /\ new = old
    <3>1. Stored' = Stored
      BY <2>6, <2>8, <2>11 DEF new, old
    <3>2. removed' = removed
      BY <2>3, <2>11
    <3> QED BY <1>2, <3>1, <3>2 DEF Diary!diaryVars
  <2>12. CASE /\ RemovedBy(diary, server, server') = {} /\ new # old
              /\ MadeTrip(diary, server', k) /\ Renews(new, old)
    <3>1. PICK m \in 1..Len(diary) : new = UpTo(diary, k, m)
      BY <2>9, <2>12
    <3>2. new = Diary!Content(k, m)
      BY <3>1 DEF Diary!Content, UpTo
    <3>3. removed' = removed
      BY <2>3, <2>12
    <3>4. k \notin removed
      BY <2>7, <2>12, <3>3 DEF Departed
    <3>5. Diary!NotOlder(Diary!Content(k, m), Stored[k])
      BY <2>10, <2>12, <3>2 DEF Diary!NotOlder, Renews
    <3>6. Diary!Content(k, m) # {}
      BY <2>9, <2>12, <3>2
    <3>7. Diary!Sync(k)
      BY <1>2, <2>10, <2>12, <3>2, <3>3, <3>4, <3>5, <3>6 DEF Diary!Sync
    <3> QED BY <2>5, <3>7 DEF Diary!Next
  <2>13. CASE RemovedBy(diary, server, server') = {k} /\ old # {} /\ new = {}
    <3>1. removed' = removed \cup {k}
      BY <2>3, <2>13
    <3>2. k \in cancelled
      BY <2>7, <3>1
    <3>3. Diary!Remove(k)
      BY <1>2, <2>10, <2>13, <3>1, <3>2 DEF Diary!Remove
    <3> QED BY <2>5, <3>3 DEF Diary!Next
  <2> QED BY <2>6, <2>11, <2>12, <2>13
<1> QED BY <1>3, <1>4, <1>5 DEF Network

(* The outbox keeps its promise: what the server holds of a trip is always *)
(* what some prefix of the phone's records says of it, never an older one  *)
(* than before, and a trip goes away only after its user cancelled it, for *)
(* good.  For any number of trips, crashes and answers lost on the way, of *)
(* a phone that gives no request up while it is still under way            *)
(* (Outbox.swift:127, OutboxCommand.swift:20).                             *)
THEOREM SystemRefinesDiary ==
  ASSUME Reliable, TimesOnly, ScriptInTurn, MaxLate = 0
  PROVE  Spec => RefinesDiary
<1>1. Init => Diary!Init
  <2> SUFFICES ASSUME Init PROVE Diary!Init
    OBVIOUS
  <2>1. diary = << >> /\ cancelled = {} /\ removed = {} /\ S!Ids(server) = {}
    BY DEF Init, S!Ids, S!NewServer
  <2>2. \A k : Held(diary, server, k) = {}
    BY <2>1 DEF Held
  <2> QED BY <2>1, <2>2, StoredIs DEF Diary!Init
<1>2. Init => DiaryKept
  BY InitKept, InitTripsKept, InitRecordsKept, InitTurnKept, InitPrefixKept DEF DiaryKept
<1>3. DiaryKept /\ [Next]_vars => DiaryKept'
  BY StepKept, StepTripsKept, StepRecordsKept, StepTurnKept, StepPrefixKept DEF DiaryKept
<1>4. DiaryKept /\ DiaryKept' /\ [Next]_vars => [Diary!Next]_(Diary!diaryVars)
  <2> SUFFICES ASSUME DiaryKept, DiaryKept', [Next]_vars
               PROVE  Diary!Next \/ UNCHANGED Diary!diaryVars
    OBVIOUS
  <2>1. CASE Record
    BY <2>1, RecordMaps
  <2>2. CASE Drive \/ Crash
    BY <2>2, DriveMaps
  <2>3. CASE Network
    BY <2>3, NetworkMaps
  <2>4. CASE UNCHANGED vars
    BY <2>4 DEF vars, serverVars, historyVars, Diary!diaryVars, Stored, RowsOf, KeyOf
  <2> QED BY <2>1, <2>2, <2>3, <2>4 DEF Next
<1> QED BY <1>1, <1>2, <1>3, <1>4, PTL DEF Spec, RefinesDiary, Diary!Spec

=============================================================================
