----------------------------- MODULE MCSchedule -----------------------------
(***************************************************************************)
(* A small instance of Schedule for TLC: ramps up and down, rates above    *)
(* and below one request a second, stages of two lengths.  Some loads fall *)
(* so steeply that arrivalTime has no solution, and on a long stage a      *)
(* change of one, from no rate too, is no slope.                           *)
(***************************************************************************)
EXTENDS Schedule

SomeStages == [duration : {3, 12}, target : {1, 2, 6}]
Least == -100  \* longer than any load here
=============================================================================
