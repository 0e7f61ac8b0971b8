--------------------------- MODULE MCCountAndPlan ---------------------------
(***************************************************************************)
(* CountAndPlan for TLC: two counters and two planners stand for the       *)
(* nine and the sixteen of the program.                                    *)
(***************************************************************************)
EXTENDS CountAndPlan
=============================================================================
