---------------------------- MODULE ScheduleUpload ----------------------------
(***************************************************************************)
(* The timetable page of the web client: a file is picked and read,        *)
(* checked, previewed, confirmed and uploaded, and the next departures are *)
(* asked for (desktop/src/pages/ScheduleUpload.tsx, SchedulesPage.tsx,     *)
(* NextDeparturesChecker.tsx), with the server's import.  Reading a file   *)
(* is asynchronous and not cancelled; a new pick lets go of an upload that *)
(* is under way, which goes on.                                            *)
(***************************************************************************)
EXTENDS Timetable

CONSTANTS
  Files,         \* the files on the user's disk
  Lines,         \* their lines
  TooLarge,      \* the ones over the server's upload limit (1 MB)
  None,
  Typed,         \* what the user types into the checker: [field, value]
  MaxPicks, MaxUploads, MaxEdits     \* bounds

ASSUME ScheduleUploadAssumption ==
  None \notin Files /\ TooLarge \subseteq Files

VARIABLES
  db,         \* the server's timetable: the times of each group
  impatient,  \* the user picks again while a file is read or uploaded
  picked,     \* what the page shows of the picked file
  reading,    \* files whose bytes are being read
  confirmed,  \* the box under the scope is ticked
  agreed,     \* the file whose scope was shown when it was
  uploads,    \* the imports under way, each with the answer the server gave
  result,     \* the counts shown
  problem,    \* the upload error shown, with what really happened
  rows,       \* the rows handed to the page for the checker
  draft,      \* the checker's form
  asked,      \* the query it was last sent with
  spent       \* the bounds used up

vars == <<db, impatient, picked, reading, confirmed, agreed, uploads, result, problem, rows,
          draft, asked, spent>>

NothingPicked == [kind |-> "none", file |-> None]
EmptyDraft == [line |-> NaN, stop |-> NaN, direction |-> "", limit |-> 1]
Shown(file) == ParseScheduleCsv(Lines[file])
Pending == \E i \in DOMAIN uploads : uploads[i].watched

Init ==
  /\ db = [key \in Keys |-> {}]
  /\ impatient \in BOOLEAN
  /\ picked = NothingPicked
  /\ reading = <<>>
  /\ confirmed = FALSE
  /\ agreed = None
  /\ uploads = <<>>
  /\ result = None
  /\ problem = None
  /\ rows = <<>>
  /\ draft = EmptyDraft
  /\ asked = None
  /\ spent = [picks |-> 0, uploads |-> 0, edits |-> 0]

Spend(what, most) == spent[what] < most /\ spent' = [spent EXCEPT ![what] = @ + 1]

(* The last upload's result is left standing, and so is the box.           *)
FaultyForget ==
  /\ rows' = <<>>
  /\ problem' = None
  /\ uploads' = [i \in DOMAIN uploads |-> [uploads[i] EXCEPT !.watched = FALSE]]
  /\ UNCHANGED <<result, confirmed>>
(* What a new pick clears; nobody waits for the uploads under way now.     *)
Forget ==
  /\ rows' = <<>>
  /\ result' = None
  /\ problem' = None
  /\ confirmed' = FALSE
  /\ uploads' = [i \in DOMAIN uploads |-> [uploads[i] EXCEPT !.watched = FALSE]]

(* onFile, until it awaits the bytes of the file. *)
PickFile(file) ==
  /\ Spend("picks", MaxPicks)
  /\ impatient \/ (reading = <<>> /\ uploads = <<>>)
  /\ Forget
  /\ IF file = None THEN picked' = NothingPicked /\ UNCHANGED reading
     ELSE IF Lines[file] = <<>>
       THEN picked' = [kind |-> "invalid", file |-> file] /\ UNCHANGED reading
     ELSE picked' = [kind |-> "reading", file |-> file] /\ reading' = Append(reading, file)
  /\ UNCHANGED <<db, impatient, agreed, draft, asked>>

(* onFile, once it has the bytes: the files are ready in any order.        *)
FileRead(i) ==
  /\ reading' = RemoveAt(reading, i)
  /\ LET file == reading[i] IN
       IF Shown(file).valid
         THEN /\ picked' = [kind |-> "valid", file |-> file]
              /\ rows' = Shown(file).rows
         ELSE /\ picked' = [kind |-> "invalid", file |-> file]
              /\ UNCHANGED rows
  /\ UNCHANGED <<db, impatient, confirmed, agreed, uploads, result, problem, draft, asked,
                 spent>>

Confirm ==
  /\ picked.kind = "valid" /\ result = None
  /\ confirmed' = ~confirmed
  /\ agreed' = IF confirmed THEN None ELSE picked.file
  /\ UNCHANGED <<db, impatient, picked, reading, uploads, result, problem, rows, draft,
                 asked, spent>>

MayUpload == picked.kind = "valid" /\ confirmed /\ result = None /\ ~Pending

Submit ==
  /\ MayUpload
  /\ Spend("uploads", MaxUploads)
  /\ uploads' = Append(uploads, [file |-> picked.file, watched |-> TRUE, got |-> None])
  /\ problem' = None
  /\ UNCHANGED <<db, impatient, picked, reading, confirmed, agreed, result, rows, draft,
                 asked>>

(* The import: one transaction, in whatever order the requests arrive.     *)
Answer(i, applied, counts) ==
  uploads' = [uploads EXCEPT ![i].got = [applied |-> applied, counts |-> counts]]

ServeImport(i) ==
  LET file == uploads[i].file
      read == ParseRows(Lines[file]).rows
  IN
  /\ uploads[i].got = None
  /\ IF file \notin TooLarge /\ Accepts(Lines[file])
       THEN /\ db' = Replaced(db, read)
            /\ \E counts \in {Counts(db, read), None} : Answer(i, TRUE, counts)   \* or lost
       ELSE Answer(i, FALSE, None) /\ UNCHANGED db
  /\ UNCHANGED <<impatient, picked, reading, confirmed, agreed, result, problem, rows, draft,
                 asked, spent>>

(* The request never arrives. *)
LoseImport(i) ==
  /\ uploads[i].got = None
  /\ Answer(i, FALSE, None)
  /\ UNCHANGED <<db, impatient, picked, reading, confirmed, agreed, result, problem, rows,
                 draft, asked, spent>>

(* The answer; the form takes it up only if it still waits for this one.   *)
UploadAnswered(i) ==
  LET u == uploads[i] IN
  /\ u.got # None
  /\ uploads' = RemoveAt(uploads, i)
  /\ IF ~u.watched THEN UNCHANGED <<result, problem, confirmed, draft>>
     ELSE IF u.got.counts # None
       THEN /\ result' = u.got.counts
            /\ confirmed' = FALSE
            /\ draft' = DraftFromRows(draft, Shown(u.file).rows)
            /\ UNCHANGED problem
     ELSE /\ problem' = [applied |-> u.got.applied]
          /\ UNCHANGED <<result, confirmed, draft>>
  /\ UNCHANGED <<db, impatient, picked, reading, agreed, rows, asked, spent>>

EditDraft(edit) ==
  /\ Spend("edits", MaxEdits)
  /\ draft' = [draft EXCEPT ![edit.field] = edit.value]
  /\ UNCHANGED <<db, impatient, picked, reading, confirmed, agreed, uploads, result, problem,
                 rows, asked>>

(* The checker asks, or names a problem and keeps what it shows.           *)
AskNext ==
  /\ NextQueryOk(draft)
  /\ asked' = [draft EXCEPT !.direction = Trimmed(@)]
  /\ UNCHANGED <<db, impatient, picked, reading, confirmed, agreed, uploads, result, problem,
                 rows, draft, spent>>

Next ==
  \/ \E file \in Files \cup {None} : PickFile(file)
  \/ \E i \in DOMAIN reading : FileRead(i)
  \/ Confirm \/ Submit \/ AskNext
  \/ \E i \in DOMAIN uploads : ServeImport(i) \/ LoseImport(i) \/ UploadAnswered(i)
  \/ \E edit \in Typed : EditDraft(edit)

Spec == Init /\ [][Next]_vars

-----------------------------------------------------------------------------
(* The check of a file before it goes is the server's own (csv.ts against  *)
(* TransitScheduleService.parseRows): the same file has the same first bad *)
(* line, for the same cell of it, and the same rows, whatever header and   *)
(* blank lines it has and however day types and directions are written;    *)
(* what only the server can refuse is an unknown id or the size of the     *)
(* file.  And a query the checker lets through gets no 400, and a 404 only *)
(* for a line or a stop the server does not have (nextQuery of next.ts     *)
(* against nextDepartures): what a file that went in set it to is there.   *)
RulesAgree ==
  /\ picked.file # None =>
       LET lines == Lines[picked.file] IN
       /\ ParseScheduleCsv(lines).problem = ParseRows(lines).refused
       /\ ParseScheduleCsv(lines).valid <=>
            /\ ParseRows(lines).refused = {}
            /\ ParseRows(lines).rows # <<>>
       /\ ParseScheduleCsv(lines).valid =>
            ParseScheduleCsv(lines).rows = ParseRows(lines).rows
  /\ asked # None =>
       /\ NextStatus(asked) # 400
       /\ NextStatus(asked) = 404 => spent.edits > 0

(* The numbers of the preview are the ones the server counts (summarize:   *)
(* rows = fetched, departures = created + updated, duplicates = skipped),  *)
(* whatever was in the timetable when the import came.                     *)
CountsForetold ==
  \A i \in DOMAIN uploads :
    uploads[i].got # None /\ uploads[i].got.counts # None =>
      LET counts == uploads[i].got.counts
          preview == Summarize(Shown(uploads[i].file).rows)
      IN /\ counts.fetched = preview.rows
         /\ counts.created + counts.updated = preview.departures
         /\ counts.skipped = preview.duplicates

(* An import changes the groups the preview named and no other, each to    *)
(* as many departures, from the first to the last, as it said (the scope   *)
(* "파일에 없는 조합 ... 은 건드리지 않습니다").                                  *)
ScopeForetold ==
  db' # db => \E i \in DOMAIN uploads :
    LET groups == Summarize(Shown(uploads[i].file).rows).groups IN
    /\ uploads'[i].got # uploads[i].got
    /\ \A key \in Keys :
         IF key \in DOMAIN groups
           THEN /\ Cardinality(db'[key]) = groups[key].departures
                /\ Min(db'[key]) = groups[key].first
                /\ Max(db'[key]) = groups[key].last
           ELSE db'[key] = db[key]

(* What the preview and the scope say is what an import does.              *)
PreviewForetells == [](CountsForetold) /\ [][ScopeForetold]_vars

(* A user who waits for a file to be read and uploaded before picking the  *)
(* next one uploads only what was confirmed, and when the counts are shown *)
(* the file's groups are in force as previewed and the checker is set to   *)
(* a stop and a direction it also offers, unless the user typed since.     *)
PatientGetsItsFile ==
  ~impatient =>
    /\ confirmed => agreed = picked.file
    /\ result # None =>
         LET own == Shown(picked.file).rows IN
         /\ rows = own
         /\ \A key \in {Key(r) : r \in Range(own)} : db[key] = TimesIn(own, key)
         /\ spent.edits = 0 =>
              /\ draft.stop \in StopCandidates(draft.line, rows)
              /\ draft.direction \in DirectionCandidates(draft.line, draft.stop, rows)

(* The next departures are the earliest at or after the given time, over   *)
(* that day and the next with the day type of each, in order, and no more  *)
(* than asked for (departuresFrom).                                        *)
DeparturesRight ==
  \A key \in {<<k[1], k[2], k[4]>> : k \in {x \in Keys : \E d \in DayTypes :
                db[<<x[1], x[2], d, x[4]>>] # {}}},
     date \in {d \in Dates : d + 1 \in Dates}, time \in Times, limit \in 1 .. MaxLimit :
    LET given == DeparturesFrom(db, key[1], key[2], key[3], date, time, limit)
        Before(a, b) == a.date < b.date \/ (a.date = b.date /\ a.time < b.time)
        running == {d \in [date : {date, date + 1}, time : Times] :
                      d.time \in db[<<key[1], key[2], DayTypeOn[d.date], key[3]>>]}
        ahead == {d \in running : ~Before(d, [date |-> date, time |-> time])}
    IN /\ Len(given) = Min({limit, Cardinality(ahead)})
       /\ Range(given) \subseteq ahead
       /\ \A i, j \in DOMAIN given : i < j => Before(given[i], given[j])
       /\ \A d \in ahead \ Range(given) : \A g \in Range(given) : Before(g, d)

-----------------------------------------------------------------------------
(* What the page says, and does not keep for a user in a hurry.            *)

(* "교체 범위를 확인해야 올릴 수 있다": the file that goes is the one whose     *)
(* scope was confirmed.  A slow read of an earlier pick lands after the    *)
(* box was ticked for a later one, and leaves the tick.                    *)
ConfirmedIsUploaded ==
  [][\A i \in DOMAIN uploads' : i \notin DOMAIN uploads => uploads'[i].file = agreed]_vars

(* "서버가 거절했습니다. 아무 행도 들어가지 않았습니다." is also shown when the      *)
(* answer was lost and the rows are in.                                    *)
RefusedMeansNothing == problem # None => ~problem.applied
=============================================================================
