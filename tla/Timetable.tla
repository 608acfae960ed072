------------------------------ MODULE Timetable ------------------------------
(***************************************************************************)
(* The timetable file as the web client reads and previews it, and as the  *)
(* server imports it (desktop/src/schedules/csv.ts and next.ts, backend    *)
(* TransitScheduleService.kt).  A line of a file is blank, a header, a row *)
(* of the wrong shape, or a row of five cells.  An id or a time that does  *)
(* not parse is NaN; a day type and a direction are as they are written.   *)
(***************************************************************************)
EXTENDS Integers, SequencesExt

CONSTANTS
  LineIds, StopIds,    \* what the server has
  Times,               \* times of a day, as numbers
  Dates,               \* consecutive dates, as numbers
  DayTypeOn,           \* the day type of each date (DayTypeResolver)
  Directions,
  MaxLimit             \* 50 in both sources

DayTypes == {"WEEKDAY", "SATURDAY", "SUNDAY_HOLIDAY"}
NaN == -1

ASSUME TimetableAssumption ==
  /\ Times \subseteq Nat /\ Dates \subseteq Nat /\ MaxLimit \in Nat \ {0}
  /\ DayTypeOn \in [Dates -> DayTypes]

Blank == [shape |-> "blank"]
Header == [shape |-> "header"]
Short == [shape |-> "short"]
Row(l, s, d, dir, t) ==
  [shape |-> "row", line |-> l, stop |-> s, day |-> d, direction |-> dir, time |-> t]

Key(r) == <<r.line, r.stop, r.day, r.direction>>
Keys == LineIds \X StopIds \X DayTypes \X Directions

(* What both languages make of a cell: a day type in capitals, a direction *)
(* without the white space around it.                                      *)
Capitals(day) ==
  CASE day = "weekday" -> "WEEKDAY" [] day = "Saturday" -> "SATURDAY" [] OTHER -> day
Trimmed(direction) == IF direction = " " THEN "" ELSE direction

ParsedRow(l) ==
  [line |-> l.line, stop |-> l.stop, day |-> Capitals(l.day),
   direction |-> Trimmed(l.direction), time |-> l.time]

-----------------------------------------------------------------------------
(* The client: the first bad line is the problem, else the rows.           *)
Filled(lines) == {i \in DOMAIN lines : lines[i] # Blank}

(* A header anywhere is passed over. *)
FaultyIsHeader(lines, i) == lines[i] = Header
IsHeader(lines, i) == lines[i] = Header /\ i = Min(Filled(lines))

RowsOf(lines, at) == [k \in 1 .. Cardinality(at) |-> ParsedRow(lines[SetToSortSeq(at, <)[k]])]

(* The day type is looked up as it is written.                             *)
FaultyDaysNamed(cell) == {d \in DayTypes : d = cell}
DaysNamed(cell) == {d \in DayTypes : d = Capitals(cell)}

(* parseRow of the client: the first bad column, 0 for their number and 6  *)
(* for none.                                                               *)
BadColumn(l) ==
  IF l.shape # "row" THEN IF l = Header THEN 1 ELSE 0
  ELSE IF l.line = NaN THEN 1
  ELSE IF l.stop = NaN THEN 2
  ELSE IF DaysNamed(l.day) = {} THEN 3
  ELSE IF Trimmed(l.direction) = "" THEN 4
  ELSE IF l.time = NaN THEN 5 ELSE 6

ParseScheduleCsv(lines) ==
  LET data == {i \in Filled(lines) : ~IsHeader(lines, i)}
      bad == {i \in data : BadColumn(lines[i]) < 6}
  IN [problem |-> IF bad # {} THEN {<<Min(bad), BadColumn(lines[Min(bad)])>>} ELSE {},
      rows |-> IF bad = {} THEN RowsOf(lines, data) ELSE <<>>,
      valid |-> bad = {} /\ data # {}]

TimesIn(rows, key) == {r.time : r \in {x \in Range(rows) : Key(x) = key}}
CountIn(rows, key) == Cardinality({i \in DOMAIN rows : Key(rows[i]) = key})

Departures(rows) == Cardinality({<<Key(r), r.time>> : r \in Range(rows)})

(* The preview: what goes in, and per group what it replaces.              *)
Summarize(rows) ==
  [rows |-> Len(rows),
   departures |-> Departures(rows),
   duplicates |-> Len(rows) - Departures(rows),
   groups |-> [key \in {Key(r) : r \in Range(rows)} |->
     [rows |-> CountIn(rows, key), departures |-> Cardinality(TimesIn(rows, key)),
      first |-> Min(TimesIn(rows, key)), last |-> Max(TimesIn(rows, key))]]]

(* What the checker may offer: the stops and directions of a line.         *)
StopCandidates(line, rows) == {r.stop : r \in {x \in Range(rows) : x.line = line}} \ {0, NaN}
DirectionCandidates(line, stop, rows) ==
  {r.direction : r \in {x \in Range(rows) : x.line = line /\ x.stop = stop}}

(* The draft of the checker, filled with the first row of an upload.       *)
DraftFromRows(draft, rows) ==
  IF rows = <<>> THEN draft
  ELSE [draft EXCEPT !.line = rows[1].line, !.stop = rows[1].stop,
                     !.direction = rows[1].direction]

(* Whether the checker asks the server, or names a problem.                *)
NextQueryOk(d) ==
  /\ d.line # NaN /\ d.stop \in Nat \ {0} /\ Trimmed(d.direction) # ""
  /\ d.limit \in 1 .. MaxLimit

-----------------------------------------------------------------------------
(* The server: line by line, and the first problem ends the request.  In a *)
(* row the cells are read from the left.                                   *)
Refused(l) ==
  IF l.shape = "short" THEN {0}
  ELSE IF l.shape = "header" THEN {1}
  ELSE LET fails == <<l.line = NaN, l.stop = NaN, Capitals(l.day) \notin DayTypes,
                      Trimmed(l.direction) = "", l.time = NaN>>
           bad == {c \in 1 .. 5 : fails[c]}
       IN IF bad = {} THEN {} ELSE {Min(bad)}

ParseRows(lines) ==
  FoldLeft(LAMBDA seen, i :
      IF seen.refused # {} \/ lines[i] = Blank THEN seen
      ELSE IF seen.first /\ lines[i] = Header THEN [seen EXCEPT !.first = FALSE]
      ELSE IF Refused(lines[i]) = {}
        THEN [seen EXCEPT !.first = FALSE, !.rows = Append(@, ParsedRow(lines[i]))]
      ELSE [seen EXCEPT !.refused = {<<i, c>> : c \in Refused(lines[i])}],
    [first |-> TRUE, rows |-> <<>>, refused |-> {}],
    [i \in DOMAIN lines |-> i])

Accepts(lines) ==
  LET parsed == ParseRows(lines) IN
  /\ lines # <<>>
  /\ parsed.refused = {} /\ parsed.rows # <<>>
  /\ \A r \in Range(parsed.rows) : r.line \in LineIds /\ r.stop \in StopIds

(* A line's rows at a stop are replaced whatever their direction.          *)
FaultyReplaced(db, rows) ==
  [key \in Keys |->
     IF \E r \in Range(rows) : <<r.line, r.stop, r.day>> = <<key[1], key[2], key[3]>>
       THEN TimesIn(rows, key) ELSE db[key]]
(* Each group the file names is replaced as a whole, the others stay.      *)
Replaced(db, rows) ==
  [key \in Keys |-> IF CountIn(rows, key) > 0 THEN TimesIn(rows, key) ELSE db[key]]

Counts(db, rows) ==
  LET keys == {Key(r) : r \in Range(rows)}
      Sum(Of(_)) == FoldSet(LAMBDA key, n : n + Of(key), 0, keys)
      Created(key) == Cardinality(TimesIn(rows, key) \ db[key])
      Updated(key) == Cardinality(TimesIn(rows, key) \cap db[key])
      Skipped(key) == CountIn(rows, key) - Cardinality(TimesIn(rows, key))
  IN [fetched |-> Len(rows), created |-> Sum(Created), updated |-> Sum(Updated),
      skipped |-> Sum(Skipped)]

-----------------------------------------------------------------------------
(* The departures of one date from a time on, at most "limit" of them.     *)
Take(db, line, stop, dir, date, time, limit) ==
  LET from == {t \in db[<<line, stop, DayTypeOn[date], dir>>] : t >= time}
      sorted == SetToSortSeq(from, <)
  IN [k \in 1 .. Min({limit, Len(sorted)}) |-> [date |-> date, time |-> sorted[k]]]

(* The next day is the same kind of day. *)
FaultyDeparturesFrom(db, line, stop, dir, date, time, limit) ==
  LET today == Take(db, line, stop, dir, date, time, limit)
      again == Take(db, line, stop, dir, date, 0, limit - Len(today))
  IN today \o [k \in DOMAIN again |-> [again[k] EXCEPT !.date = date + 1]]
(* Today's, and as many of the next day as are missing.                    *)
DeparturesFrom(db, line, stop, dir, date, time, limit) ==
  LET today == Take(db, line, stop, dir, date, time, limit)
      missing == limit - Len(today)
  IN IF missing > 0
       THEN today \o Take(db, line, stop, dir, date + 1, 0, missing)
       ELSE today

(* The status nextDepartures answers with: its four checks in their order. *)
NextStatus(q) ==
  IF q.limit \notin 1 .. MaxLimit \/ Trimmed(q.direction) = "" THEN 400
  ELSE IF q.line \notin LineIds \/ q.stop \notin StopIds THEN 404
  ELSE 200
=============================================================================
