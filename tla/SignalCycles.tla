----------------------------- MODULE SignalCycles -----------------------------
(***************************************************************************)
(* The signal cycles of one intersection: the web client's editor of the   *)
(* rows the user measured (desktop/src/signals/cycleRules.ts, pages/       *)
(* SignalCycleEditor.tsx, useSignalCycles and useReplaceSignalCycles of    *)
(* api/queries.ts), the server that replaces them as a whole, each PUT in  *)
(* a transaction of its own (backend TrafficSignalCycleService.kt), and    *)
(* the row the analytics picks for a time of day.  A time or a number that *)
(* does not parse is NaN.                                                  *)
(***************************************************************************)
EXTENDS Integers, FiniteSets, SequencesExt

CONSTANTS
  DayTypes,             \* the day types in their order; a first new row gets the first
  Instants,             \* times of day, as numbers
  MinCycle, MaxCycle,   \* 30 and 300 s
  MaxRows,              \* 100
  NewStart, NewEnd,     \* 07:00 and 10:00, what a new row starts with
  Edits,                \* what the user types: [field, value]
  Others,               \* the other client's PUT bodies
  Given,                \* the rows of other sources
  None,
  MaxEdits, MaxSaves, MaxElsewhere, MaxRefetches      \* bounds

NaN == -1
Clients == {"here", "elsewhere"}
Sources == <<"USER_OBSERVED", "PUBLIC_API", "DEFAULT_ASSUMPTION">>
Days == Range(DayTypes)
IndexOf(seq, e) == CHOOSE i \in DOMAIN seq : seq[i] = e
Rank(row) == IndexOf(Sources, row.source)

(* A row of a request, and one that the server has.                        *)
CycleBodies == [day : Days, start : Int, end : Int, cycle : Int, red : Int]
CycleRows == [id : Int, day : Days, start : Int, end : Int, cycle : Int, red : Int,
              source : Range(Sources)]

ASSUME SignalCyclesAssumption ==
  /\ Instants \subseteq Nat /\ {NewStart, NewEnd} \subseteq Instants
  /\ MinCycle \in Nat /\ MaxCycle \in Nat
  /\ DayTypes \in Seq(Days) /\ Len(DayTypes) > 0
  /\ \A edit \in Edits :
       \/ edit.field = "day" /\ edit.value \in Days
       \/ edit.field \in {"start", "end", "cycle", "red"} /\ edit.value \in Int
  /\ Others \subseteq Seq(CycleBodies)
  /\ None \notin CycleRows

(* Ids of rows the user measured count from 1.                             *)
ASSUME GivenAssumption ==
  /\ Given \subseteq CycleRows /\ IsFiniteSet(Given)
  /\ \A r \in Given : r.source # "USER_OBSERVED" /\ r.id < 1
  /\ \A a, b \in Given : a.id = b.id => a = b

VARIABLES
  rows,       \* the server's rows, each with an id
  nextId,
  cached,     \* the client's copy, None while it has none
  refetch,    \* a read under way: None, or what it got
  mounted,    \* the form is shown; an error takes its place
  drafts,     \* the rows being edited
  nextKey,
  wrong,      \* problems are shown
  saved,      \* "saved" is shown
  call,       \* the save under way
  puts,       \* of each client, the transaction of its PUT, None if there is none
  crossed,    \* history: the PUT that stored last was overtaken by another
  spent       \* the bounds used up

form == <<cached, refetch, mounted, drafts, nextKey, wrong, saved>>
store == <<rows, nextId, puts, crossed>>
vars == <<rows, nextId, cached, refetch, mounted, drafts, nextKey, wrong, saved, call,
          puts, crossed, spent>>

-----------------------------------------------------------------------------
(* Rules of the two sides. *)

Draft(row) == [key |-> <<"row", row.id>>, day |-> row.day, start |-> row.start,
               end |-> row.end, cycle |-> row.cycle, red |-> row.red]

(* The order of a list of rows: day type, start, source.                   *)
Earlier(a, b) ==
  LET place(r) == <<IndexOf(DayTypes, r.day), r.start, Rank(r), r.id>>
      differ == {i \in 1 .. 4 : place(a)[i] # place(b)[i]}
  IN differ # {} /\ place(a)[Min(differ)] < place(b)[Min(differ)]

(* The elements of a set in an order: k - 1 of them come before the k-th.   *)
InOrder(set, Before(_, _)) ==
  [k \in 1 .. Cardinality(set) |->
     CHOOSE e \in set : Cardinality({o \in set : Before(o, e)}) = k - 1]

(* What the user measured. *)
Own(set) == {r \in set : r.source = "USER_OBSERVED"}

(* The drafts of the user's own rows, in the server's order. *)
DraftsFromCycles(set) ==
  LET sorted == InOrder(Own(set), Earlier)
  IN [i \in DOMAIN sorted |-> Draft(sorted[i])]

ToCycleRequests(list) ==
  [i \in DOMAIN list |-> [day |-> list[i].day, start |-> list[i].start, end |-> list[i].end,
                          cycle |-> list[i].cycle, red |-> list[i].red]]

RowOk(r) ==
  /\ r.cycle \in MinCycle .. MaxCycle
  /\ r.red # NaN /\ r.red > 0 /\ r.red < r.cycle
  /\ r.start # NaN /\ r.end # NaN /\ r.start < r.end

(* The whole bands of a day by their start; equal ones as they were.       *)
ByStart(list, day) ==
  LET whole == {i \in DOMAIN list : /\ list[i].day = day
                                    /\ NaN \notin {list[i].start, list[i].end}
                                    /\ list[i].start < list[i].end}
      Sooner(i, j) == \/ list[i].start < list[j].start
                      \/ list[i].start = list[j].start /\ i < j
      order == InOrder(whole, Sooner)
  IN [k \in DOMAIN order |-> list[order[k]]]

(* Bands that touch overlap. *)
FaultyNeighboursApart(list) ==
  \A i \in 1 .. Len(list) - 1 : list[i + 1].start > list[i].end
NeighboursApart(list) ==
  \A i \in 1 .. Len(list) - 1 : list[i + 1].start >= list[i].end

(* The client: all problems at once; none of them leaves the request be.   *)
ValidateCycleRequests(list) ==
  /\ Len(list) <= MaxRows
  /\ \A i \in DOMAIN list : RowOk(list[i])
  /\ \A day \in Days : NeighboursApart(ByStart(list, day))

(* The server: all bands of a day by their start; equal ones as they were. *)
Bands(list, day) ==
  LET Sooner(i, j) == \/ list[i].start < list[j].start
                      \/ list[i].start = list[j].start /\ i < j
  IN InOrder({i \in DOMAIN list : list[i].day = day}, Sooner)

(* It refuses the request at the first problem, by row, then by neighbours *)
(* of each day.                                                            *)
ServerAccepts(list) ==
  /\ Len(list) <= MaxRows
  /\ \A i \in DOMAIN list :
       /\ NaN \notin {list[i].cycle, list[i].red, list[i].start, list[i].end}
       /\ ~(list[i].cycle < MinCycle \/ list[i].cycle > MaxCycle)
       /\ ~(list[i].red <= 0 \/ list[i].red >= list[i].cycle)
       /\ list[i].start < list[i].end
  /\ \A day \in Days :
       LET order == Bands(list, day)
       IN \A k \in 1 .. Len(order) - 1 : ~(list[order[k + 1]].start < list[order[k]].end)

(* The row in force at a time of day: the best source of those that        *)
(* contain it, the earliest start among its own (effectiveCycle).          *)
Containing(set, day, at) == {r \in set : r.day = day /\ r.start <= at /\ at < r.end}
(* The earliest start, whatever its source. *)
FaultyEffectiveCycle(set, day, at) ==
  LET hits == InOrder(Containing(set, day, at), Earlier)
  IN IF hits = <<>> THEN None ELSE hits[1]
EffectiveCycle(set, day, at) ==
  LET Better(a, b) == Rank(a) < Rank(b) \/ (Rank(a) = Rank(b) /\ Earlier(a, b))
      hits == InOrder(Containing(set, day, at), Better)
  IN IF hits = <<>> THEN None ELSE hits[1]

-----------------------------------------------------------------------------
Spend(what, most) == spent[what] < most /\ spent' = [spent EXCEPT ![what] = @ + 1]

Init ==
  /\ rows = Given
  /\ nextId = 1
  /\ cached = None
  /\ refetch = [got |-> None]
  /\ mounted = FALSE
  /\ drafts = <<>>
  /\ nextKey = 1
  /\ wrong = FALSE
  /\ saved = FALSE
  /\ call = None
  /\ puts = [who \in Clients |-> None]
  /\ crossed = FALSE
  /\ spent = [edits |-> 0, saves |-> 0, elsewhere |-> 0, refetches |-> 0]

(* What was said of the last save stays. *)
FaultyChange(next) ==
  /\ mounted
  /\ Spend("edits", MaxEdits)
  /\ drafts' = next
  /\ wrong' = FALSE
  /\ UNCHANGED <<store, cached, refetch, mounted, saved, call>>

(* Every edit of the form takes back what was said of the last save.       *)
Change(next) ==
  /\ mounted
  /\ Spend("edits", MaxEdits)
  /\ drafts' = next
  /\ saved' = FALSE
  /\ wrong' = FALSE
  /\ UNCHANGED <<store, cached, refetch, mounted, call>>

Patch(key, edit) ==
  /\ Change([i \in DOMAIN drafts |->
              IF drafts[i].key = key THEN [drafts[i] EXCEPT ![edit.field] = edit.value]
              ELSE drafts[i]])
  /\ UNCHANGED nextKey

NewCycleDraft(day) ==
  [key |-> <<"new", nextKey>>, day |-> day, start |-> NewStart, end |-> NewEnd,
   cycle |-> NaN, red |-> NaN]

AddRow ==
  /\ Change(Append(drafts,
       NewCycleDraft(IF drafts = <<>> THEN DayTypes[1] ELSE drafts[Len(drafts)].day)))
  /\ nextKey' = nextKey + 1

RemoveRow(key) ==
  /\ LET kept == InOrder({i \in DOMAIN drafts : drafts[i].key # key}, <)
     IN Change([k \in DOMAIN kept |-> drafts[kept[k]]])
  /\ UNCHANGED nextKey

(* submit: problems are shown, or the request goes; bound: not before an   *)
(* earlier save is answered, though a form shown anew would send one.      *)
Submit ==
  LET body == ToCycleRequests(drafts) IN
  /\ mounted /\ call = None
  /\ Spend("saves", MaxSaves)
  /\ wrong' = ~ValidateCycleRequests(body)
  /\ saved' = FALSE
  /\ call' = IF wrong' THEN None ELSE [body |-> body, got |-> None, watched |-> TRUE]
  /\ UNCHANGED <<store, cached, refetch, mounted, drafts, nextKey>>

(* A PUT reads what the user measured, to delete it by id.                 *)
FindRows(who, body) ==
  /\ puts[who] = None
  /\ puts' = [puts EXCEPT ![who] = [step |-> "found", body |-> body, found |-> Own(rows),
                                    added |-> {}, answer |-> {}, passed |-> FALSE]]

(* The save reaches the server. *)
ServeSave ==
  /\ call # None /\ call.got = None /\ puts["here"] = None
  /\ IF ServerAccepts(call.body)
       THEN FindRows("here", call.body) /\ UNCHANGED call
       ELSE call' = [call EXCEPT !.got = [ok |-> FALSE]] /\ UNCHANGED puts
  /\ UNCHANGED <<form, rows, nextId, crossed, spent>>

(* Another client has the same intersection open. *)
Elsewhere(body) ==
  /\ Spend("elsewhere", MaxElsewhere)
  /\ ServerAccepts(body)
  /\ FindRows("elsewhere", body)
  /\ UNCHANGED <<form, rows, nextId, crossed, call>>

Inserted(body) ==
  {[id |-> nextId + i, day |-> body[i].day, start |-> body[i].start, end |-> body[i].end,
    cycle |-> body[i].cycle, red |-> body[i].red, source |-> "USER_OBSERVED"]
   : i \in DOMAIN body}

(* The deletion waits for a PUT under way that has deleted one of the same *)
(* rows, and for nothing else; nobody else sees what a PUT did so far.     *)
ReplaceRows(who) ==
  /\ puts[who] # None /\ puts[who].step = "found"
  /\ \A o \in Clients \ {who} :
       puts[o] # None /\ puts[o].step # "found" => puts[o].found \cap puts[who].found = {}
  /\ puts' = [puts EXCEPT ![who].step = "written", ![who].added = Inserted(puts[who].body)]
  /\ nextId' = nextId + Len(puts[who].body)
  /\ UNCHANGED <<form, rows, crossed, call, spent>>

(* It deletes only the found rows that are not sent again. *)
FaultyWithUserRows(put) ==
  {r \in rows : r \in put.found => \E i \in DOMAIN put.body :
                                    put.body[i].day = r.day /\ put.body[i].start = r.start}
  \cup put.added
(* What a PUT leaves of the rows that are stored by then.                  *)
WithUserRows(put) == (rows \ put.found) \cup put.added

ReadBack(who) ==
  /\ puts[who] # None /\ puts[who].step = "written"
  /\ puts' = [puts EXCEPT ![who].step = "read", ![who].answer = WithUserRows(puts[who])]
  /\ UNCHANGED <<form, rows, nextId, crossed, call, spent>>

Commit(who) ==
  /\ puts[who] # None /\ puts[who].step = "read"
  /\ rows' = WithUserRows(puts[who])
  /\ crossed' = puts[who].passed
  /\ puts' = [o \in Clients |-> IF o = who \/ puts[o] = None THEN None
                                ELSE [puts[o] EXCEPT !.passed = TRUE]]
  /\ call' = IF who = "here" THEN [call EXCEPT !.got = [ok |-> TRUE, rows |-> puts[who].answer]]
             ELSE call
  /\ UNCHANGED <<form, nextId, spent>>

(* The answer goes into the cache; the form takes it up if it is the one   *)
(* that asked, over whatever was typed meanwhile.                          *)
SaveAnswered ==
  /\ call # None /\ call.got # None
  /\ call' = None
  /\ IF ~call.got.ok THEN UNCHANGED <<cached, drafts, saved>>
     ELSE /\ cached' = call.got.rows
          /\ IF call.watched
               THEN drafts' = DraftsFromCycles(call.got.rows) /\ saved' = TRUE
               ELSE UNCHANGED <<drafts, saved>>
  /\ UNCHANGED <<store, refetch, mounted, nextKey, wrong, spent>>

(* The first read, and the reads when the window gets the focus.           *)
Refocus ==
  /\ refetch = None
  /\ Spend("refetches", MaxRefetches)
  /\ refetch' = [got |-> None]
  /\ UNCHANGED <<store, cached, mounted, drafts, nextKey, wrong, saved, call>>

ServeRead ==
  /\ refetch # None /\ refetch.got = None
  /\ refetch' = [got |-> [rows |-> rows]]
  /\ UNCHANGED <<store, cached, mounted, drafts, nextKey, wrong, saved, call, spent>>

(* The form is made anew only if it was not there. *)
ReadOk ==
  /\ refetch # None /\ refetch.got # None
  /\ refetch' = None
  /\ cached' = refetch.got.rows
  /\ mounted' = TRUE
  /\ IF mounted THEN UNCHANGED <<drafts, wrong, saved>>
     ELSE /\ drafts' = DraftsFromCycles(refetch.got.rows)
          /\ wrong' = FALSE /\ saved' = FALSE
  /\ UNCHANGED <<store, nextKey, call, spent>>

(* A read that fails takes the form away, with what was typed into it, and *)
(* with the form's part in a save under way.                               *)
ReadFailed ==
  /\ refetch # None
  /\ cached # None
  /\ refetch' = None
  /\ mounted' = FALSE
  /\ drafts' = <<>> /\ wrong' = FALSE /\ saved' = FALSE
  /\ call' = IF call = None THEN None ELSE [call EXCEPT !.watched = FALSE]
  /\ UNCHANGED <<store, cached, nextKey, spent>>

Next ==
  \/ \E d \in Range(drafts) :
       RemoveRow(d.key) \/ \E edit \in Edits : Patch(d.key, edit)
  \/ AddRow \/ Submit \/ ServeSave \/ SaveAnswered
  \/ \E body \in Others : Elsewhere(body)
  \/ \E who \in Clients : ReplaceRows(who) \/ ReadBack(who) \/ Commit(who)
  \/ Refocus \/ ServeRead \/ ReadOk \/ ReadFailed

Spec == Init /\ [][Next]_vars

-----------------------------------------------------------------------------
(* No two bands of a day overlap. *)
PairsApart(list) ==
  \A i, j \in DOMAIN list :
    i # j /\ list[i].day = list[j].day =>
      list[i].end <= list[j].start \/ list[j].end <= list[i].start

(* A request the form lets through is one the server takes, and it lets    *)
(* through all of those (validateCycleRequests compares neighbours among   *)
(* the whole bands of a day, validate among all bands once every row is    *)
(* sound), and in such a request no two bands of a day overlap, neighbours *)
(* or not: "빈 배열이면 서버 규칙상 400이 날 이유가 없다".                           *)
RulesAgree ==
  LET body == ToCycleRequests(drafts)
  IN /\ ValidateCycleRequests(body) <=> ServerAccepts(body)
     /\ ServerAccepts(body) => PairsApart(body)

(* At most one measured row is in force at a time of day, unless another   *)
(* PUT was stored while the one stored last was under way: two that cross  *)
(* may leave both sets, and the next one that is served alone leaves only  *)
(* its own again (replaceUserObserved).  Always the row that is chosen is  *)
(* a measured one wherever there is one, else the best source's            *)
(* (effectiveCycle, resolve_cycle).                                        *)
OneRowInForce ==
  \A day \in Days, at \in Instants :
    LET hits == Containing(rows, day, at)
        chosen == EffectiveCycle(rows, day, at)
    IN /\ ~crossed => Cardinality(Own(hits)) <= 1
       /\ Own(hits) # {} => chosen \in Own(hits)
       /\ chosen = None <=> hits = {}
       /\ hits # {} => \A r \in hits : Rank(chosen) <= Rank(r)

(* While "saved" is shown and no other client has written, the form holds  *)
(* the measured rows the server has, in its order, whatever was typed      *)
(* while the save was under way.                                           *)
SavedIsStored ==
  saved /\ spent.elsewhere = 0 => drafts = DraftsFromCycles(rows)

(* What the repository says and the code does not keep: at most one        *)
(* measured row is ever in force at a time of day.  "사용자 행은 API(...)가 같은   *)
(* day_type 안의 겹침을 막는다" (docs/DATA_MODEL.md:253); but two PUTs that find   *)
(* the same rows to delete both insert their own.                          *)
NeverTwoInForce ==
  \A day \in Days, at \in Instants : Cardinality(Own(Containing(rows, day, at))) <= 1

=============================================================================
