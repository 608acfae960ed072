---------------------------- MODULE OutboxAlone -----------------------------
(***************************************************************************)
(* The outbox under any use of its interface: any commands in any order,   *)
(* an executor that has as many requests under way as next allows, answers *)
(* in any order, discards, relaunches and failing saves at any moment.     *)
(* What holds here holds of every app and driver built on Outbox.swift.    *)
(***************************************************************************)
EXTENDS Outbox

CONSTANTS
  AppCommands,  \* the commands the app enqueues
  ServerIds,    \* trip ids the server gives
  MaxId         \* the last entry id handed out (bound)

(* The app never enqueues a delete itself (OutboxCommand.swift:27-28).     *)
ASSUME OutboxAloneAssumption ==
  /\ AppCommands \subseteq Commands
  /\ \A cmd \in AppCommands : ~IsDelete(cmd)
  /\ ServerIds \subseteq Nat
  /\ MaxId \in Nat

Put(cmd) == Enqueue(cmd) /\ box'.nextId <= MaxId + 1

Cancel(key) == Discard(key) /\ box'.nextId <= MaxId + 1

Answer ==
  \E i \in Ids(box) :
    \E outcome \in OutcomesOf(box.entries[i].cmd, ServerIds) : Complete(i, outcome)

Next ==
  \/ \E cmd \in AppCommands : Put(cmd)
  \/ SendNext
  \/ Answer
  \/ \E key \in Keys : Cancel(key)
  \/ Resume
  \/ ExpediteRetries
  \/ ClearDeadLetters
  \/ \E i \in Ids(box) : RetryDue(i)
  \/ Relaunch

Spec == OutboxInit /\ [][Next]_outboxVars

-----------------------------------------------------------------------------
(* Types of the state, in memory and on disk: above all, every queued      *)
(* command has an id of its own that the queue gave out, below the next    *)
(* one, however batches are cut, commands merged or dropped and the file   *)
(* read back (Outbox.swift:153-174): an id is never given out twice.       *)
TypeOK == IsState(box) /\ IsState(saved)

(* At most one command of a lane is under way, and it is the oldest: a     *)
(* later record of a trip never overtakes an earlier one, whatever is      *)
(* merged, retried, discarded or answered meanwhile (OutboxCommand.swift:  *)
(* 52, 62-65).                                                             *)
OnlyHeadsInFlight ==
  \A i \in Ids(box) : box.entries[i].inFlight => IsLaneHead(box, i)

(* What is under way is what the queue says is under way: merging, retries *)
(* and discards never touch a command that was sent and not answered, so   *)
(* an answer is never taken for a different command (Outbox.swift:176-179).*)
SentIsFrozen ==
  [][\A i \in Ids(box) \cap Ids(box') :
       box.entries[i].inFlight /\ box'.entries[i].inFlight =>
         box'.entries[i].cmd = box.entries[i].cmd]_outboxVars
=============================================================================
