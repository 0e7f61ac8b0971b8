--------------------------- MODULE MCImmutablePlan ---------------------------
(***************************************************************************)
(* ImmutablePlan for TLC: every placement of a few walks over the words,   *)
(* so that gaps and entries end before, at and several segments behind the *)
(* end of a segment, also across a page nobody has accessed.               *)
(***************************************************************************)
EXTENDS ImmutablePlan

E(c, n) == [chunk |-> c, count |-> n]

MCWalks == {<<>>, <<E(0, 1)>>, <<E(0, 1), E(1, 1)>>, <<E(1, 5)>>}
=============================================================================
