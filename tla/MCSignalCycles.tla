---------------------------- MODULE MCSignalCycles ----------------------------
(* Bounds for SignalCycles: two day types, times 0 .. 3 in place of the    *)
(* seconds of a day, two rows of other sources that overlap.               *)
EXTENDS SignalCycles

DayOrder == <<"WEEKDAY", "SATURDAY">>
Body(day, start, end) == [day |-> day, start |-> start, end |-> end, cycle |-> 120, red |-> 90]
OtherBodies == {<<Body("WEEKDAY", 1, 3), Body("WEEKDAY", 0, 1)>>}
GivenRows == {
  [id |-> -1, day |-> "WEEKDAY", start |-> 0, end |-> 3, cycle |-> 100, red |-> 50,
   source |-> "DEFAULT_ASSUMPTION"],
  [id |-> -2, day |-> "WEEKDAY", start |-> 1, end |-> 3, cycle |-> 90, red |-> 60,
   source |-> "PUBLIC_API"]}
TypedValues ==
  [field : {"cycle"}, value : {29, 30, 301}] \cup [field : {"red"}, value : {29, 30}]
  \cup [field : {"start"}, value : {0}] \cup [field : {"end"}, value : {NaN, 3}]
  \cup [field : {"day"}, value : {"SATURDAY"}]
=============================================================================
