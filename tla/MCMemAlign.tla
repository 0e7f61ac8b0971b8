---------------------------- MODULE MCMemAlign ------------------------------
(***************************************************************************)
(* MemAlign for TLC: segments of a few rows, so that a trace of a handful  *)
(* of accesses fills several of them within a chunk and across chunks.     *)
(***************************************************************************)
EXTENDS MemAlign
=============================================================================
