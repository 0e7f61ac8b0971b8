---------------------------- MODULE MCCountPhase -----------------------------
(***************************************************************************)
(* CountPhase for TLC: two threads and pages of four words, so that page 4,*)
(* the first of RAM, is at 1280 and page 1, the last of ROM, ends at 1088. *)
(***************************************************************************)
EXTENDS CountPhase

A(addr, bytes, write) == [addr |-> addr, bytes |-> bytes, write |-> write]

(* Whole words, parts of a word, and accesses that cross from a word of    *)
(* thread 0 to one of thread 1, from thread 1 to the following offset,     *)
(* from page 4 to page 5, and out of ROM.                                  *)
MCAccesses ==
  {A(1280, 8, FALSE), A(1288, 8, TRUE), A(1284, 4, TRUE), A(1284, 8, TRUE),
   A(1292, 8, FALSE), A(1308, 8, TRUE), A(1084, 8, FALSE)}

(* Two of them, for the traces that exercise the loader.                   *)
MCFew == {A(1284, 8, TRUE), A(1280, 8, FALSE)}

Whole(accesses) == [accesses |-> accesses, got |-> Len(accesses)]
InFormat(format, files) == [format |-> format, files |-> files]

(* Every trace of up to three accesses in two chunks.                      *)
MCTraces ==
  {InFormat("new", <<Whole(c), Whole(d)>>) :
     c \in BoundedSeq(MCAccesses, 2), d \in BoundedSeq(MCAccesses, 1)}

(* In the old format.                                                      *)
MCOldTraces ==
  {InFormat("old", <<Whole(c), Whole(d)>>) :
     c \in BoundedSeq(MCFew, 2), d \in BoundedSeq(MCFew, 1)}

(* Those that begin with an access in the first file.                      *)
MCOldTracesFromFirst == {d \in MCOldTraces : d.files[1].accesses # <<>>}

(* A file that is read in part or not at all, and one file too many.       *)
MCPartTraces ==
  {InFormat(format, <<[accesses |-> c, got |-> n], Whole(<<A(1284, 8, TRUE)>>)>>) :
     format \in {"new", "old"}, n \in -1 .. 1, c \in [1 .. 1 -> MCFew]}
  \cup {InFormat("new", <<Whole(<<a>>), [accesses |-> <<a>>, got |-> n], Whole(<<a>>)>>) :
          n \in -1 .. 1, a \in MCFew}

MCDirectories == MCTraces \cup MCOldTraces \cup MCPartTraces

(* A zeroed page, and what an access in either format leaves behind.       *)
MCGarbage == {Record(format, A(1288, 4, TRUE)) : format \in {"new", "old"}}
               \cup {[addr |-> 0, flags |-> [high |-> 0, low |-> 0]]}
=============================================================================
