---------------------------- MODULE MCAddrSlots -----------------------------
(***************************************************************************)
(* AddrSlots for TLC.  Blocks of 6 words hold two entries instead of       *)
(* seven, which puts chains of one, two and three blocks within reach of   *)
(* an exhaustive search.                                                   *)
(***************************************************************************)
EXTENDS AddrSlots

(* One word may get a chain of three blocks; blocks of the others lie in   *)
(* between.                                                                *)
MCMaxRows == [o \in Offsets |-> CASE o = 0 -> 2 [] o = 1 -> 5 [] OTHER -> 1]
MCMaxRowsWalk == [o \in Offsets |-> 6]
=============================================================================
