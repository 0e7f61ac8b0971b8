--------------------------- MODULE MCMemLocators ----------------------------
(***************************************************************************)
(* MemLocators for TLC.  Two or three planners stand for the sixteen of    *)
(* the program, which run the same loop.                                   *)
(***************************************************************************)
EXTENDS MemLocators, TLC

(* The planners are interchangeable; used by the safety runs only.         *)
Symmetry == Permutations(Planners)
=============================================================================
