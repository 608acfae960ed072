--------------------------- MODULE MCDesktopClient ---------------------------
(* Bounds for DesktopClient: one route, one trip and one signal, and two   *)
(* sets of tours that together show every page.                            *)
EXTENDS DesktopClient

CONSTANTS r1, t1, s1, k1, k2

TwoTokens == {k1, k2}
OnlyRoute == {r1}
OnlyTrip == {t1}
OnlySignal == {s1}
OpenedLists == {NextDepartures, CyclesOf(s1)}

(* The pages with forms, and the one that reads at intervals.              *)
FormTours == {
  {<<"detail", r1>>, List},
  {<<"create">>, <<"edit", r1>>},
  {<<"trip", t1, r1>>},
  {<<"ops">>}}

(* The pages that put together what several queries read.                  *)
SurveyTours == {
  {<<"trips">>},
  {<<"schedules">>},
  {<<"calibration", r1>>},
  {<<"recommendations", r1>>}}

EveryTour == FormTours \cup SurveyTours
EventsOf == [pages \in EveryTour |-> IF pages \in FormTours THEN 4 ELSE 3]
=============================================================================
