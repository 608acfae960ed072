---------------------------- MODULE RouteEditor -----------------------------
(***************************************************************************)
(* The page where the legs of a route are edited (RouteEditPage.tsx,       *)
(* LegCards.tsx, SignalCrossingsEditor.tsx, legRules.ts), with the legs    *)
(* and crossings on the server (RouteLegs) and the phone that measures     *)
(* trips on them meanwhile.                                                *)
(*                                                                         *)
(* The page keeps a draft of the legs, made once from the server's, and    *)
(* sends it as a whole.  Crossings of a walk are saved apart from the      *)
(* legs, from an editor that exists only while its walk is selected.       *)
(* Nothing stops the user from going on while a save is under way.         *)
(***************************************************************************)
EXTENDS RouteLegs, SequencesExt

CONSTANTS
  Home, Office,   \* ends of the route
  StopAt,         \* where a stop is
  Distance,       \* walkDistanceM of two points
  TypedDistances, TypedTimes,  \* what is entered into the number fields
  Crossings,      \* a traffic signal, from which side, which light
  FirstCrossing,  \* what pressing a signal adds (nt, Pd)
  StoredLegs,     \* the lists of legs a page may open with
  MaxSteps,       \* bound: what the user does
  MaxCrossings,   \* bound: crossings of a walk
  MaxMeasured     \* bound: legs that trips are recorded on

ASSUME EditorData ==
  /\ {Home, Office} \subseteq Points
  /\ MaxSteps \in Nat /\ MaxCrossings \in Nat /\ MaxMeasured \in Nat

VARIABLES
  legs,      \* server: the legs of the route
  measured,  \* server: ids of legs that trips were recorded on
  nextId,    \* server: the next id of a leg
  drafts,    \* the legs as edited
  baseline,  \* the requests that make the legs last heard of
  selected,  \* key of the selected card, or None
  pick,      \* what the next press on the map places: [key, target], or None
  search,    \* stops are offered for [key, which], or None
  saved,     \* "saved" is shown
  edited,    \* crossings as edited, not saved: [key, items], or None
  save,      \* the save of the legs under way, or None
  crossingSave,  \* the save of crossings under way, or None
  register,  \* the registration of a new signal under way, or None
  nextKey,   \* next key of a new card
  steps,     \* what the user has done so far (bound)
  impatient  \* does the user go on while a call is under way?

server == <<legs, measured, nextId>>
page   == <<drafts, baseline, selected, pick, search, saved, edited, nextKey>>
calls  == <<save, crossingSave, register>>
vars   == <<server, page, calls, steps, impatient>>

-----------------------------------------------------------------------------
(* Drafts and requests (legRules.ts)                                       *)

NewKey(n) == <<"new", n>>

LegKey(id) == <<"leg", id>>

NewWalk(key, start, end) ==
  [key |-> key, id |-> None, type |-> "WALK", start |-> start, end |-> end,
   dist |-> IF None \in {start, end} THEN None ELSE Distance[start, end],
   typed |-> FALSE, crossings |-> << >>]

NewTransit(key) ==
  [key |-> key, id |-> None, type |-> "TRANSIT",
   line |-> None, board |-> None, alight |-> None, sec |-> None]

(* Faulty: the distance is taken from the map again.                       *)
DraftFromLegRemeasured(leg) ==
  IF leg.type = "WALK"
  THEN [NewWalk(LegKey(leg.id), leg.start, leg.end) EXCEPT
          !.id = leg.id, !.crossings = leg.crossings]
  ELSE [key |-> LegKey(leg.id), id |-> leg.id, type |-> "TRANSIT",
        line |-> leg.line, board |-> leg.board, alight |-> leg.alight,
        sec |-> leg.sec]

DraftFromLeg(leg) ==
  IF leg.type = "WALK"
  THEN [key |-> LegKey(leg.id), id |-> leg.id, type |-> "WALK",
        start |-> leg.start, end |-> leg.end, dist |-> leg.dist,
        typed |-> leg.dist # None, crossings |-> leg.crossings]
  ELSE [key |-> LegKey(leg.id), id |-> leg.id, type |-> "TRANSIT",
        line |-> leg.line, board |-> leg.board, alight |-> leg.alight,
        sec |-> leg.sec]

DraftsFromLegs(ls) == [i \in DOMAIN ls |-> DraftFromLeg(ls[i])]

Blank == [start |-> None, end |-> None, dist |-> None, line |-> None,
          board |-> None, alight |-> None, sec |-> None]

ToLegRequest(d) ==
  [id |-> d.id, type |-> d.type] @@
  IF d.type = "WALK"
  THEN [Blank EXCEPT !.start = d.start, !.end = d.end, !.dist = d.dist]
  ELSE [Blank EXCEPT !.line = d.line, !.board = d.board,
                     !.alight = d.alight, !.sec = d.sec]

ToLegRequests(ds) == [i \in DOMAIN ds |-> ToLegRequest(ds[i])]

(* What no leg can have, whatever the others are; and what each needs.     *)
OwnProblems(reqs) ==
  {<<"off the map", i>> : i \in {j \in DOMAIN reqs :
     {reqs[j].start, reqs[j].end} \cap OffMap # {}}}
  \cup {<<"distance", i>> : i \in {j \in DOMAIN reqs :
          reqs[j].dist # None /\ reqs[j].dist <= 0}}
  \cup {<<"time", i>> : i \in {j \in DOMAIN reqs :
          reqs[j].sec # None /\ reqs[j].sec <= 0}}
  \cup {<<"missing", i>> : i \in {j \in DOMAIN reqs :
          None \in IF reqs[j].type = "WALK" THEN {reqs[j].start, reqs[j].end}
                   ELSE {reqs[j].line, reqs[j].board, reqs[j].alight, reqs[j].sec}}}
  \cup {<<"same stop", i>> : i \in {j \in DOMAIN reqs :
          reqs[j].board # None /\ reqs[j].board = reqs[j].alight}}

(* Faulty: the last leg may be a ride.                                     *)
OrderProblemsOpenEnd(reqs) ==
  {<<"ends", i>> : i \in {j \in {1} : reqs[j].type # "WALK"}}
  \cup {<<"turns", i>> : i \in {j \in 2 .. Len(reqs) :
          reqs[j - 1].type = reqs[j].type}}

OrderProblems(reqs) ==
  {<<"ends", i>> : i \in {j \in {1, Len(reqs)} : reqs[j].type # "WALK"}}
  \cup {<<"turns", i>> : i \in {j \in 2 .. Len(reqs) :
          reqs[j - 1].type = reqs[j].type}}

(* validateLegRequests: every problem, named by its kind and place.  The   *)
(* places are contiguous and the ids distinct by construction.             *)
LegProblems(reqs) ==
  IF reqs = << >> THEN {<<"no legs", 0>>}
  ELSE OwnProblems(reqs) \cup OrderProblems(reqs)

(* validateDrafts: also what the server checks once it has read the stops. *)
Problems(ds) ==
  LegProblems(ToLegRequests(ds))
  \cup {<<"mode", i>> : i \in {j \in DOMAIN ds :
          /\ ds[j].type = "TRANSIT"
          /\ ds[j].line # None
          /\ \E s \in {ds[j].board, ds[j].alight} \ {None} :
               ModeOf[s] # ModeOf[ds[j].line]}}

(* Moved up (-1) or down (1); the list as it was at its ends.              *)
MoveDraft(list, i, delta) ==
  IF i + delta \in DOMAIN list
  THEN [list EXCEPT ![i] = list[i + delta], ![i + delta] = list[i]]
  ELSE list

(* A walk with an end moved: a distance the user did not type follows.     *)
WithPoint(d, which, p) ==
  LET moved == [d EXCEPT ![which] = p]
  IN IF moved.typed THEN moved
     ELSE [moved EXCEPT !.dist = IF None \in {moved.start, moved.end} THEN None
                                 ELSE Distance[moved.start, moved.end]]

PointOf(stop) == IF stop = None THEN None ELSE StopAt[stop]

-----------------------------------------------------------------------------
(* The page                                                                *)

Keys(ds) == {ds[i].key : i \in DOMAIN ds}
IndexOf(key) == CHOOSE i \in DOMAIN drafts : drafts[i].key = key
DraftOf(key) == drafts[IndexOf(key)]
Walks    == {d.key : d \in {e \in Range(drafts) : e.type = "WALK"}}
Transits == {d.key : d \in {e \in Range(drafts) : e.type = "TRANSIT"}}

Dirty == ToLegRequests(drafts) # baseline

(* The walk whose crossings are being edited: selected, and stored.        *)
EditorFor(ds, sel) ==
  \E i \in DOMAIN ds : ds[i].key = sel /\ ds[i].type = "WALK" /\ ds[i].id # None

CrossingItems ==
  IF edited # None /\ edited.key = selected THEN edited.items
  ELSE DraftOf(selected).crossings

(* A call made by an editor that is gone by now: its callback is dropped.  *)
Live(call) ==
  IF call = None THEN None
  ELSE [call EXCEPT !.live = /\ call.live
                             /\ selected' = call.key
                             /\ EditorFor(drafts', selected')]

Rendered == crossingSave' = Live(crossingSave) /\ register' = Live(register)

Free == /\ impatient \/ (save = None /\ crossingSave = None /\ register = None)
        /\ UNCHANGED impatient

(* A step of the user; to select a card is not counted.                    *)
Step == Free /\ steps < MaxSteps /\ steps' = steps + 1

(* edit(next), in a card that is selected by the same click.               *)
Edit(next) ==
  /\ Step
  /\ drafts' = next
  /\ saved' = FALSE
  /\ UNCHANGED <<server, baseline, edited, save>>

Update(key, d) == Edit([drafts EXCEPT ![IndexOf(key)] = d])

Select(key) ==
  /\ Free
  /\ key \in Keys(drafts) /\ key # selected
  /\ selected' = key
  /\ UNCHANGED <<server, drafts, baseline, pick, search, saved, edited,
                 nextKey, save, steps>>
  /\ Rendered

TogglePick(key, target) ==
  /\ Step
  /\ \/ key \in Walks /\ target \in {"start", "end"}
     \/ key \in Transits /\ target \in {"board", "alight"}
  /\ pick' = IF pick = [key |-> key, target |-> target] THEN None
             ELSE [key |-> key, target |-> target]
  /\ selected' = key
  /\ UNCHANGED <<server, drafts, baseline, search, saved, edited, nextKey,
                 save>>
  /\ Rendered

(* The map is pressed.  A key may be outdated: then no draft changes.      *)
ClickMap(p) ==
  /\ pick # None
  /\ pick' = None
  /\ \/ /\ pick.target \in {"start", "end"}
        /\ Edit([i \in DOMAIN drafts |->
                   IF drafts[i].key = pick.key /\ drafts[i].type = "WALK"
                   THEN WithPoint(drafts[i], pick.target, p) ELSE drafts[i]])
        /\ UNCHANGED search
     \/ /\ Free
        /\ pick.target \in {"board", "alight"}
        /\ search' = [key |-> pick.key, which |-> pick.target]
        /\ UNCHANGED <<server, drafts, baseline, saved, edited, save, steps>>
  /\ UNCHANGED <<selected, nextKey, crossingSave, register>>

(* An end of a walk is dragged on the map.                                 *)
DragEnd(key, which, p) ==
  /\ key \in Walks /\ DraftOf(key)[which] # None
  /\ Update(key, WithPoint(DraftOf(key), which, p))
  /\ UNCHANGED <<selected, pick, search, nextKey, crossingSave, register>>

(* Near the neighbouring walk, or the stop, or an end of the route.        *)
Nearby(key, which) ==
  /\ Step
  /\ key \in Transits
  /\ search' = [key |-> key, which |-> which]
  /\ selected' = key
  /\ UNCHANGED <<server, drafts, baseline, pick, saved, edited, nextKey,
                 save>>
  /\ Rendered

(* The stops on offer have the mode of the line, if there is one.          *)
Candidates ==
  IF search = None THEN {}
  ELSE IF search.key \in Transits /\ DraftOf(search.key).line # None
  THEN {s \in Stops : ModeOf[s] = ModeOf[DraftOf(search.key).line]}
  ELSE Stops

(* The stop is set, and the end of the walk beside it follows when it was  *)
(* not set or at the former stop.  Chosen in the card or on the map; with  *)
(* an outdated key the handler throws.                                     *)
ChooseStop(stop) ==
  /\ stop \in Candidates
  /\ search.key \in Transits
  /\ LET i   == IndexOf(search.key)
         old == PointOf(drafts[i][search.which])
         ni  == IF search.which = "board" THEN i - 1 ELSE i + 1
         end == IF search.which = "board" THEN "end" ELSE "start"
         follows(x) == x.type = "WALK" /\ (x[end] = None \/ x[end] = old)
     IN Edit([j \in DOMAIN drafts |->
                IF j = i THEN [drafts[i] EXCEPT ![search.which] = stop]
                ELSE IF j = ni /\ follows(drafts[j])
                THEN WithPoint(drafts[j], end, PointOf(stop))
                ELSE drafts[j]])
  /\ selected' \in {selected, search.key}
  /\ search' = None
  /\ Rendered
  /\ UNCHANGED <<pick, nextKey>>

SetLine(key, line) == Update(key, [DraftOf(key) EXCEPT !.line = line])

SetTravelTime(key, sec) == Update(key, [DraftOf(key) EXCEPT !.sec = sec])

(* The fields of a ride (TransitLegCard).                                  *)
InTransitCard(key) ==
  /\ key \in Transits
  /\ \/ \E line \in Lines : SetLine(key, line)
     \/ \E sec \in TypedTimes : SetTravelTime(key, sec)

SetDistance(key, dist) ==
  Update(key, [DraftOf(key) EXCEPT !.dist = dist, !.typed = TRUE])

StraightDistance(key) ==
  LET d == DraftOf(key)
  IN Update(key, WithPoint([d EXCEPT !.typed = FALSE], "start", d.start))

(* The fields of a walk (WalkLegCard).                                     *)
InWalkCard(key) ==
  /\ key \in Walks
  /\ \/ \E dist \in TypedDistances : SetDistance(key, dist)
     \/ /\ None \notin {DraftOf(key).start, DraftOf(key).end}
        /\ StraightDistance(key)

RemoveLeg(key) == Edit(SelectSeq(drafts, LAMBDA d : d.key # key))

(* What is done in a card: the click selects the card as well, after the   *)
(* handler.                                                                *)
InCard(key) ==
  /\ \/ InWalkCard(key)
     \/ InTransitCard(key)
     \/ \E delta \in {-1, 1} :
          /\ IndexOf(key) + delta \in DOMAIN drafts
          /\ Edit(MoveDraft(drafts, IndexOf(key), delta))
     \/ RemoveLeg(key)
  /\ selected' = key
  /\ Rendered
  /\ UNCHANGED <<pick, search, nextKey>>

(* A ride after a walk; the walk ends where the ride begins, not yet set,  *)
(* and a new walk leads on to where it ended.                              *)
InsertTransitAfter(key) ==
  /\ key \in Walks
  /\ LET i == IndexOf(key)
         w == drafts[i]
     IN Edit(SubSeq(drafts, 1, i - 1)
             \o <<WithPoint([w EXCEPT !.typed = FALSE], "end", None),
                  NewTransit(NewKey(nextKey)),
                  NewWalk(NewKey(nextKey + 1), None, w.end)>>
             \o SubSeq(drafts, i + 1, Len(drafts)))
  /\ nextKey' = nextKey + 2
  /\ selected' = key
  /\ Rendered
  /\ UNCHANGED <<pick, search>>

LastPoint ==
  IF drafts = << >> THEN Home
  ELSE IF Last(drafts).type = "WALK" THEN Last(drafts).end
  ELSE PointOf(Last(drafts).alight)

AppendLeg ==
  /\ \E d \in {NewWalk(NewKey(nextKey), LastPoint, Office),
               NewTransit(NewKey(nextKey))} :
       Edit(Append(drafts, d))
  /\ nextKey' = nextKey + 1
  /\ UNCHANGED <<selected, pick, search, crossingSave, register>>

-----------------------------------------------------------------------------
(* Saving the legs                                                         *)

Save ==
  /\ save = None /\ Step
  /\ saved' = FALSE
  /\ save' = IF Problems(drafts) # {} THEN None
             ELSE [reqs |-> ToLegRequests(drafts), answer |-> None,
                   at |-> IF selected \in Keys(drafts) THEN IndexOf(selected) ELSE 0]
  /\ UNCHANGED <<server, drafts, baseline, selected, pick, search, edited,
                 nextKey, crossingSave, register>>

SaveServed ==
  /\ save # None /\ save.answer = None
  /\ LET answer == ReplaceLegs(legs, save.reqs, measured, nextId)
     IN /\ save' = [save EXCEPT !.answer = answer]
        /\ IF answer.status = "ok"
           THEN /\ legs' = answer.legs
                /\ nextId' = nextId + Cardinality(Ids(answer.legs) \ Ids(legs))
           ELSE UNCHANGED <<legs, nextId>>
  /\ UNCHANGED <<measured, page, crossingSave, register, steps, impatient>>

(* The draft is made anew from the answer.                                 *)
Adopt(stored) ==
  LET next == DraftsFromLegs(stored)
  IN /\ drafts' = next
     /\ baseline' = ToLegRequests(next)
     /\ selected' = IF save.at \in DOMAIN next THEN next[save.at].key ELSE None
     /\ edited' = None
     /\ saved' = TRUE

SaveAnswered ==
  /\ save # None /\ save.answer # None
  /\ save' = None
  /\ IF save.answer.status = "ok" THEN Adopt(save.answer.legs)
     ELSE UNCHANGED <<drafts, baseline, selected, edited, saved>>
  /\ Rendered
  /\ UNCHANGED <<server, pick, search, nextKey, steps, impatient>>

-----------------------------------------------------------------------------
(* Crossings of the selected walk                                          *)

SetCrossings(items) ==
  /\ Len(items) <= MaxCrossings
  /\ edited' = [key |-> selected, items |-> items]

(* A signal is pressed on the map or in the list.                          *)
AddSignal == SetCrossings(Append(CrossingItems, FirstCrossing))

ChangeCrossing ==
  LET items == CrossingItems
  IN \/ \E i \in DOMAIN items, c \in Crossings :
          c # items[i] /\ SetCrossings([items EXCEPT ![i] = c])
     \/ \E i \in DOMAIN items \ {1} : SetCrossings(MoveDraft(items, i, -1))
     \/ \E i \in DOMAIN items : SetCrossings(RemoveAt(items, i))

EditCrossings ==
  /\ Step
  /\ EditorFor(drafts, selected)
  /\ AddSignal \/ ChangeCrossing
  /\ UNCHANGED <<server, drafts, baseline, selected, pick, search, saved,
                 nextKey, calls>>

(* Bound: one save of crossings at a time, also from different walks.      *)
SaveCrossings ==
  /\ Step
  /\ crossingSave = None
  /\ EditorFor(drafts, selected)
  /\ crossingSave' = [key |-> selected, legId |-> DraftOf(selected).id,
                      items |-> CrossingItems, answer |-> None, live |-> TRUE]
  /\ UNCHANGED <<server, page, save, register>>

CrossingsServed ==
  /\ crossingSave # None /\ crossingSave.answer = None
  /\ LET answer == ReplaceSignalCrossings(legs, crossingSave.legId,
                                          crossingSave.items)
     IN /\ crossingSave' = [crossingSave EXCEPT !.answer =
             IF answer.status = "ok"
             THEN [status |-> "ok",
                   legs |-> <<Row(answer.legs, crossingSave.legId)>>]
             ELSE answer]
        /\ legs' = IF answer.status = "ok" THEN answer.legs ELSE legs
  /\ UNCHANGED <<measured, nextId, page, save, register, steps, impatient>>

(* Faulty: the draft keeps the crossings it was made with.                 *)
OnCrossingsSavedApart(key, stored) == drafts

OnCrossingsSaved(key, stored) ==
  [i \in DOMAIN drafts |->
     IF drafts[i].key = key /\ drafts[i].type = "WALK"
     THEN [drafts[i] EXCEPT !.crossings = stored] ELSE drafts[i]]

(* Unless the editor that asked is gone.                                   *)
CrossingsAnswered ==
  /\ crossingSave # None /\ crossingSave.answer # None
  /\ crossingSave' = None
  /\ IF crossingSave.live /\ crossingSave.answer.status = "ok"
     THEN /\ drafts' = OnCrossingsSaved(crossingSave.key,
                                        crossingSave.answer.legs[1].crossings)
          /\ edited' = None
     ELSE UNCHANGED <<drafts, edited>>
  /\ UNCHANGED <<server, baseline, selected, pick, search, saved, nextKey,
                 save, register, steps, impatient>>

(* A new signal is registered; when it is there it is added to the         *)
(* crossings as they were when the button was pressed.                     *)
RegisterSignal ==
  /\ Step
  /\ register = None
  /\ EditorFor(drafts, selected) /\ Len(CrossingItems) < MaxCrossings
  /\ register' = [key |-> selected, items |-> CrossingItems, live |-> TRUE]
  /\ UNCHANGED <<server, page, save, crossingSave>>

RegisterAnswered ==
  /\ register # None
  /\ register' = None
  /\ edited' = IF register.live
               THEN [key |-> register.key,
                     items |-> Append(register.items, FirstCrossing)]
               ELSE edited
  /\ UNCHANGED <<server, drafts, baseline, selected, pick, search, saved,
                 nextKey, save, crossingSave, steps, impatient>>

-----------------------------------------------------------------------------
(* The phone records a trip on a leg.  Bound: while a save of the legs is   *)
(* under way; nothing else looks at it.                                    *)
Measure ==
  /\ save # None
  /\ Cardinality(measured) < MaxMeasured
  /\ \E id \in Ids(legs) \ measured : measured' = measured \cup {id}
  /\ UNCHANGED <<legs, nextId, page, calls, steps, impatient>>

(* The page opens with the legs the server has, or with one walk.          *)
Init ==
  /\ legs \in StoredLegs
  /\ measured = {}
  /\ nextId = Len(legs) + 1
  /\ drafts = IF legs = << >> THEN <<NewWalk(NewKey(1), Home, Office)>>
              ELSE DraftsFromLegs(legs)
  /\ baseline = ToLegRequests(DraftsFromLegs(legs))
  /\ selected = None /\ pick = None /\ search = None
  /\ saved = FALSE
  /\ edited = None /\ save = None /\ crossingSave = None /\ register = None
  /\ nextKey = 2
  /\ steps = 0
  /\ impatient \in BOOLEAN

Next ==
  \/ \E key \in Keys(drafts) :
       \/ Select(key)
       \/ InCard(key)
       \/ InsertTransitAfter(key)
       \/ \E target \in {"start", "end", "board", "alight"} : TogglePick(key, target)
       \/ \E which \in {"start", "end"}, p \in Points : DragEnd(key, which, p)
       \/ \E which \in {"board", "alight"} : Nearby(key, which)
  \/ \E p \in Points : ClickMap(p)
  \/ \E stop \in Stops : ChooseStop(stop)
  \/ AppendLeg
  \/ Save \/ SaveServed \/ SaveAnswered
  \/ EditCrossings \/ SaveCrossings \/ CrossingsServed \/ CrossingsAnswered
  \/ RegisterSignal \/ RegisterAnswered
  \/ Measure

Spec == Init /\ [][Next]_vars

-----------------------------------------------------------------------------
(* Properties                                                              *)

(* What the page lets pass is not a bad request to the server, and what it *)
(* holds back would be one (legRules.ts:145): the two sets of rules agree  *)
(* on every draft that editing leads to.                                   *)
RulesAgree ==
  Problems(drafts) = {} <=>
  ReplaceLegs(legs, ToLegRequests(drafts), {}, nextId).status # "bad"

(* "Unsaved changes" is told from what the server has: also after saves    *)
(* that are refused, and while the user goes on editing                    *)
(* (RouteEditPage.tsx:91).                                                 *)
BaselineIsStored ==
  (save = None \/ save.answer = None) =>
  baseline = ToLegRequests(DraftsFromLegs(legs))

(* The answer to a save shows leg by leg what was sent, each under an id   *)
(* of its own: the one it had, if it had one (API.md, replacing legs).     *)
AnswerMirrors ==
  (save # None /\ save.answer # None /\ save.answer.status = "ok") =>
  LET got == ToLegRequests(DraftsFromLegs(save.answer.legs))
  IN /\ Len(got) = Len(save.reqs)
     /\ Cardinality(Ids(got)) = Len(got)
     /\ \A i \in DOMAIN got :
          /\ [got[i] EXCEPT !.id = None] = [save.reqs[i] EXCEPT !.id = None]
          /\ save.reqs[i].id \in {None, got[i].id}

(* Crossings are saved apart from the legs, and what was saved is what the *)
(* draft shows (RouteEditPage.tsx:229).                                    *)
CrossingsShownAreStored ==
  (save = None /\ crossingSave = None) =>
  \A d \in Range(drafts) :
    (d.type = "WALK" /\ d.id # None) => d.crossings = Row(legs, d.id).crossings

(* What the page shows as stored is what the server has: the legs, the     *)
(* answer to a save, and the crossings, these if the user waits for each   *)
(* answer; and no two cards share a key.                                   *)
ShownIsStored ==
  /\ BaselineIsStored
  /\ AnswerMirrors
  /\ impatient \/ CrossingsShownAreStored
  /\ IsInjective([i \in DOMAIN drafts |-> drafts[i].key])

(* A leg that trips were recorded on stays, and stays a walk or a ride     *)
(* (RouteLegService.kt:145-146).                                           *)
MeasuredStay ==
  [][\A id \in measured :
       id \in Ids(legs') /\ Row(legs', id).type = Row(legs, id).type]_vars

(* What was entered, whatever the ids.                                     *)
Contents(ds) == [i \in DOMAIN ds |-> [ToLegRequest(ds[i]) EXCEPT !.id = None]]

(* The answer to a save makes the draft anew: for a user who waits for it, *)
(* with nothing changed of what was entered (RouteEditPage.tsx:48).        *)
PatientEditsSurvive ==
  [][save # None /\ save' = None /\ ~ impatient
     => Contents(drafts') = Contents(drafts)]_vars
=============================================================================
