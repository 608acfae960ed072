--------------------------- MODULE MCScheduleUpload ---------------------------
(* Files for ScheduleUpload: one with a header, a repeated time and two    *)
(* days, a later edition with the other direction and days in small        *)
(* letters, one with a second header for a row, one with rows that have    *)
(* more than one bad cell, one with a line nobody knows, one over the size *)
(* limit, one of blank lines and an empty one.                             *)
EXTENDS ScheduleUpload

CONSTANTS first, edition, broken, garbled, unknown, large, blank, empty

DiskFiles == {first, edition, broken, garbled, unknown, large, blank, empty}
DiskLines ==
  [f \in DiskFiles |->
     CASE f = first -> <<Blank, Header, Row(1, 1, "WEEKDAY", "UP", 2), Row(1, 1, "WEEKDAY", "UP", 2),
                         Row(1, 1, "SATURDAY", "UP", 2)>>
       [] f = edition -> <<Row(1, 1, "weekday", "UP", 1), Row(1, 1, "WEEKDAY", "DN", 3),
                           Row(1, 1, "WEEKDAY", "UP", 3)>>
       [] f = broken -> <<Header, Blank, Row(1, 1, "WEEKDAY", "UP", 1), Header, Short>>
       [] f = garbled -> <<Row(1, 1, "Saturday", "UP", 1), Row(1, 1, "Sunday", " ", NaN),
                           Row(NaN, 1, "WEEKDAY", "UP", NaN)>>
       [] f = unknown -> <<Row(9, 1, "WEEKDAY", "UP", 1)>>
       [] f = large -> <<Row(1, 1, "WEEKDAY", "UP", 1)>>
       [] f = blank -> <<Blank, Blank>>
       [] f = empty -> <<>>]

FridayToSunday == <<"WEEKDAY", "SATURDAY", "SUNDAY_HOLIDAY">>
TypedInChecker == {[field |-> "limit", value |-> 2], [field |-> "limit", value |-> 3],
                   [field |-> "stop", value |-> 0],
                   [field |-> "stop", value |-> 9], [field |-> "direction", value |-> " "],
                   [field |-> "direction", value |-> "DN"]}
=============================================================================
