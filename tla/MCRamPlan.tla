----------------------------- MODULE MCRamPlan ------------------------------
(***************************************************************************)
(* RamPlan for TLC: every placement of a few walks over the words.  With   *)
(* three rows per segment the walks reach a boundary inside an entry, at   *)
(* its end, several times within one entry, and not at all.                *)
(***************************************************************************)
EXTENDS RamPlan

E(c, n) == [chunk |-> c, count |-> n]

MCWalks == {<<>>, <<E(0, 1)>>, <<E(0, 2), E(1, 1)>>, <<E(0, 1), E(1, 7)>>}

(* The finding needs no more than one access per word.                     *)
MCWalksFew == {<<>>, <<E(0, 1)>>}
=============================================================================
