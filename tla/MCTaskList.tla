----------------------------- MODULE MCTaskList -----------------------------
(***************************************************************************)
(* Instances of TaskList for TLC: two workers, one of which has a capped   *)
(* run, two tasks, half-second ticks.  The id x2 is both the one add_many  *)
(* makes up for the second task and one a caller may choose.               *)
(***************************************************************************)
EXTENDS TaskList, TLC

CONSTANTS w1, w2, x1, x2, x3

MCAuto == <<x1, x2>>
=============================================================================
