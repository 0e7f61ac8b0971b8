---------------------------- MODULE MCMemContext ----------------------------
(***************************************************************************)
(* MemContext for TLC.  Two or three counting threads stand for the nine   *)
(* of the program: they run the same loop and share nothing they write.    *)
(***************************************************************************)
EXTENDS MemContext, TLC

(* The counters are interchangeable; used by the safety runs only.         *)
Symmetry == Permutations(Counters)
=============================================================================
