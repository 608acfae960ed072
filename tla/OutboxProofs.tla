---------------------------- MODULE OutboxProofs ----------------------------
(***************************************************************************)
(* Proofs about OutboxAlone, for any keys, commands, limits and ids.       *)
(***************************************************************************)
EXTENDS OutboxAlone, OutboxLemmas

(* Each step is the sending of a request, a relaunch, or gentle.           *)
LEMMA Steps ==
  ASSUME TypeOK, [Next]_outboxVars
  PROVE  /\ IsState(box')
         /\ IsState(saved')
         /\ \/ Gentle(box, box')
            \/ \E i \in Dispatchable(box) : box' = Dispatched(box, i)
            \/ IsState(box') /\ \A i \in Ids(box') : ~box'.entries[i].inFlight
<1> USE DEF TypeOK
<1>1. ASSUME NEW b, Gentle(box, b), Persist(b)
      PROVE  IsState(box') /\ IsState(saved') /\ Gentle(box, box')
  BY <1>1 DEF Persist, Gentle
<1>2. CASE \E cmd \in AppCommands : Put(cmd)
  <2> PICK cmd \in AppCommands : Put(cmd)
    BY <1>2
  <2>1. cmd \in Commands
    BY OutboxAloneAssumption
  <2> QED BY <1>1, <2>1, EnqueuedGentle DEF Put, Enqueue
<1>3. CASE SendNext
  <2> PICK i \in Dispatchable(box) : Persist(Dispatched(box, i))
    BY <1>3 DEF SendNext
  <2> QED BY DispatchedState DEF Persist
<1>4. CASE Answer
  <2> PICK i \in Ids(box) :
        \E outcome \in OutcomesOf(box.entries[i].cmd, ServerIds) :
          Complete(i, outcome)
    BY <1>4 DEF Answer
  <2> PICK outcome \in OutcomesOf(box.entries[i].cmd, ServerIds) :
        Complete(i, outcome)
    OBVIOUS
  <2> QED BY <1>1, CompletedGentle, OutboxAloneAssumption DEF Complete
<1>5. CASE \E key \in Keys : Cancel(key)
  BY <1>1, <1>5, DiscardedGentle DEF Cancel, Discard
<1>6. CASE Resume
  BY <1>1, <1>6, ResumedGentle DEF Resume
<1>7. CASE ExpediteRetries
  BY <1>1, <1>7, ExpeditedGentle DEF ExpediteRetries
<1>8. CASE ClearDeadLetters
  BY <1>1, <1>8, ClearedGentle DEF ClearDeadLetters
<1>9. CASE \E i \in Ids(box) : RetryDue(i)
  <2> PICK i \in Ids(box) : RetryDue(i)
    BY <1>9
  <2>1. Gentle(box, box')
    BY DueGentle DEF RetryDue
  <2>2. IsState(saved')
    BY DueGentle DEF RetryDue, Gentle
  <2> QED BY <2>1, <2>2 DEF Gentle
<1>10. CASE Relaunch
  <2>1. box' = Reloaded(saved) /\ saved' = saved
    BY <1>10 DEF Relaunch
  <2> QED BY <2>1, ReloadedGentle DEF Gentle
<1>11. CASE UNCHANGED outboxVars
  BY <1>11 DEF outboxVars, Gentle, KeepsSent, NewComeLast
<1> QED BY <1>2, <1>3, <1>4, <1>5, <1>6, <1>7, <1>8, <1>9, <1>10, <1>11 DEF Next

(* The empty outbox is well formed.                                        *)
LEMMA InitialState == OutboxInit => TypeOK /\ OnlyHeadsInFlight
BY DEF OutboxInit, TypeOK, OnlyHeadsInFlight, IsState, Empty, Ids

(* Whatever the app, the driver and the disk do, the outbox in memory and  *)
(* the one on disk are well formed.                                        *)
THEOREM TypeCorrect == Spec => []TypeOK
<1>1. OutboxInit => TypeOK
  BY InitialState
<1>2. TypeOK /\ [Next]_outboxVars => TypeOK'
  BY Steps DEF TypeOK
<1> QED BY <1>1, <1>2, PTL DEF Spec

(* The commands of a lane go out one at a time and in order: what is under *)
(* way is the oldest of its lane, for any number of trips, lanes, requests *)
(* under way, failing saves and relaunches.                                *)
THEOREM LanesStayOrdered == Spec => []OnlyHeadsInFlight
<1>1. OutboxInit => TypeOK /\ OnlyHeadsInFlight
  BY InitialState
<1>2. ASSUME TypeOK, OnlyHeadsInFlight, [Next]_outboxVars
      PROVE  OnlyHeadsInFlight'
  <2>1. HeadsOnly(box)
    BY <1>2 DEF OnlyHeadsInFlight, HeadsOnly
  <2>2. HeadsOnly(box')
    BY <1>2, <2>1, Steps, GentleKeepsHeads, DispatchedState DEF TypeOK, HeadsOnly
  <2> QED BY <2>2 DEF OnlyHeadsInFlight, HeadsOnly
<1>3. TypeOK /\ [Next]_outboxVars => TypeOK'
  BY Steps DEF TypeOK
<1> QED BY <1>1, <1>2, <1>3, PTL DEF Spec

(* A command that is under way is not changed by anything until its answer *)
(* or a relaunch: the answer is always for the command the entry holds.    *)
THEOREM SentStaysFrozen == Spec => SentIsFrozen
<1> DEFINE Frozen == \A i \in Ids(box) \cap Ids(box') :
                       box.entries[i].inFlight /\ box'.entries[i].inFlight =>
                         box'.entries[i].cmd = box.entries[i].cmd
<1>1. ASSUME TypeOK, [Next]_outboxVars PROVE [Frozen]_outboxVars
  BY <1>1, Steps, DispatchedState DEF TypeOK, Gentle, KeepsSent
<1> QED BY <1>1, TypeCorrect, PTL DEF Spec, SentIsFrozen
=============================================================================
