----------------------------- MODULE TripDiary ------------------------------
(***************************************************************************)
(* What the outbox promises, without queue, network or crash: the phone    *)
(* writes a diary of its trips, and what the server holds of a trip is at  *)
(* every moment what some prefix of the diary says, never an older one     *)
(* than before.  A trip goes away only after its user cancelled it, and    *)
(* then for good.                                                          *)
(*                                                                         *)
(* An entry of the diary sets one field of one slot (the trip itself or a  *)
(* boarding attempt) of one trip; its value is its own number.             *)
(***************************************************************************)
EXTENDS Integers, Sequences

CONSTANTS Keys, Slots, MaxWrites

VARIABLES
  diary,      \* every write so far: [key, slot, field]
  cancelled,  \* trips their user cancelled
  stored,     \* what the server holds of each trip: {<<slot, field, value>>}
  removed     \* trips the server held and does not hold any more

diaryVars == <<diary, cancelled, stored, removed>>

(* The latest value of each field among the first m writes.                *)
Content(k, m) ==
  {<<diary[n].slot, diary[n].field, n>> :
     n \in {w \in 1..m :
       /\ diary[w].key = k
       /\ diary[w].slot \in Slots
       /\ ~ \E v \in (w + 1)..m : diary[v] = diary[w]}}

NotOlder(new, old) ==
  \A c \in old : \E d \in new : d[1] = c[1] /\ d[2] = c[2] /\ d[3] >= c[3]

Init ==
  /\ diary = << >>
  /\ cancelled = {}
  /\ stored = [k \in Keys |-> {}]
  /\ removed = {}

Write ==
  /\ Len(diary') = Len(diary) + 1
  /\ Len(diary) < MaxWrites
  /\ SubSeq(diary', 1, Len(diary)) = diary
  /\ diary'[Len(diary')].key \notin cancelled
  /\ UNCHANGED <<cancelled, stored, removed>>

Cancel(k) ==
  /\ cancelled' = cancelled \cup {k}
  /\ UNCHANGED <<diary, stored, removed>>

Sync(k) ==
  /\ stored'[k] # stored[k]
  /\ k \notin removed
  /\ \E m \in 1..Len(diary) :
       /\ Content(k, m) # {}
       /\ NotOlder(Content(k, m), stored[k])
       /\ stored' = [stored EXCEPT ![k] = Content(k, m)]
  /\ UNCHANGED <<diary, cancelled, removed>>

Remove(k) ==
  /\ k \in cancelled
  /\ stored[k] # {}
  /\ stored' = [stored EXCEPT ![k] = {}]
  /\ removed' = removed \cup {k}
  /\ UNCHANGED <<diary, cancelled>>

Next == Write \/ \E k \in Keys : Cancel(k) \/ Sync(k) \/ Remove(k)

Spec == Init /\ [][Next]_diaryVars

(* Every trip that is not cancelled is on the server as the diary has it,  *)
(* and every cancelled one is gone.                                        *)
InStep ==
  \A k \in Keys : stored[k] = IF k \in cancelled THEN {}
                              ELSE Content(k, Len(diary))
=============================================================================
