----------------------------- MODULE MCRecorder -----------------------------
(* A commute of two legs with a change (the stop where the first leg ends  *)
(* is the one where the second begins), and a commute of one leg whose     *)
(* last stop is at the destination.                                        *)
EXTENDS RecorderSystem

CONSTANTS leg1, leg2, home, stop, change, last, work

MCLegsOf == [r \in Routes |-> <<leg1, leg2>>]
MCDirectionOf == [r \in Routes |-> "toWork"]

(* The last instant is in the hours of the way home.                       *)
MCUsualDirection ==
  [t \in Times |-> IF \A s \in Times : s <= t THEN "toHome" ELSE "toWork"]

MCRoute == CHOOSE r \in Routes : TRUE

MCRolesOf ==
  [region \in {home, stop, change, last, work} |->
     CASE region = home -> {[kind |-> "origin", route |-> MCRoute]}
       [] region = stop ->
            {[kind |-> "boardStop", route |-> MCRoute, leg |-> leg1]}
       [] region = change ->
            {[kind |-> "alightStop", route |-> MCRoute, leg |-> leg1],
             [kind |-> "boardStop", route |-> MCRoute, leg |-> leg2]}
       [] region = last ->
            {[kind |-> "alightStop", route |-> MCRoute, leg |-> leg2]}
       [] region = work -> {[kind |-> "destination", route |-> MCRoute]}]

MCShortLegsOf == [r \in Routes |-> <<leg1>>]

MCShortRolesOf ==
  [region \in {home, stop, last} |->
     CASE region = home -> {[kind |-> "origin", route |-> MCRoute]}
       [] region = stop ->
            {[kind |-> "boardStop", route |-> MCRoute, leg |-> leg1]}
       [] region = last ->
            {[kind |-> "alightStop", route |-> MCRoute, leg |-> leg1],
             [kind |-> "destination", route |-> MCRoute]}]
=============================================================================
