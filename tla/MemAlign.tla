------------------------------ MODULE MemAlign -------------------------------
(***************************************************************************)
(* The plan of the unaligned accesses: MemAlignCounter                     *)
(* (mem_align_counter.hpp), which turns the trace into check points as it  *)
(* counts.  An access that is not an aligned 8-byte one is an operation of *)
(* the memory-align machine and takes 2, 3 or 5 of its rows; a check point *)
(* says which operations of a chunk an instance (segment) of the machine   *)
(* executes: count of them, after the first `skip' of the chunk, from row  *)
(* `offset' of the segment on.                                             *)
(***************************************************************************)
EXTENDS Integers, Sequences, FiniteSets, SequencesExt, Accumulation

CONSTANTS
  Rows,      \* MEM_ALIGN_ROWS
  NumChunks, \* chunks of the trace
  MaxOps     \* bound: unaligned accesses of the trace

ASSUME AlignAssumption ==
  /\ Rows \in Nat /\ Rows >= 5
  /\ NumChunks \in Nat \ {0}
  /\ MaxOps \in Nat

VARIABLES
  chunk_id,        \* the chunk execute_chunk is running on
  skip,            \* unaligned accesses of the chunk so far
  segment_id,      \* the open segment, -1 before the first
  available_rows,  \* rows left in it
  checkpoints,     \* what debug prints
  trace            \* the unaligned accesses counted so far: chunk and rows

vars == <<chunk_id, skip, segment_id, available_rows, checkpoints, trace>>

Init ==
  /\ chunk_id = 0
  /\ skip = 0
  /\ segment_id = -1
  /\ available_rows = 0
  /\ checkpoints = <<>>
  /\ trace = <<>>

-----------------------------------------------------------------------------
(* Mutant: skip goes on counting over the chunks.                          *)
SkipOfNextChunkKept == skip

SkipOfNextChunk == 0

(* execute: the following chunk.                                           *)
NextChunk ==
  /\ chunk_id + 1 < NumChunks
  /\ chunk_id' = chunk_id + 1
  /\ skip' = SkipOfNextChunk
  /\ UNCHANGED <<segment_id, available_rows, checkpoints, trace>>

(* Rows of an access: one or two words, read or read and written, plus one.*)
OpRows == {words * accesses + 1 : words \in 1 .. 2, accesses \in 1 .. 2}

(* Mutant: the last row of a segment is not used.                          *)
NeedsSegmentEarly(ops) == available_rows <= ops

(* Mutant: an operation may run over the end of its segment.               *)
NeedsSegmentLate(ops) == available_rows = 0

NeedsSegment(ops) == available_rows < ops

(* open_segment: the operation is the first of a new segment.              *)
OpenSegment(ops) ==
  /\ NeedsSegment(ops)
  /\ segment_id' = segment_id + 1
  /\ checkpoints' = Append(checkpoints,
       [segment_id |-> segment_id + 1, chunk_id |-> chunk_id, skip |-> skip,
        count |-> 1, rows |-> ops, offset |-> 0])
  /\ available_rows' = Rows - ops

(* open_chunk: the first operation of the chunk, in the open segment.      *)
OpenChunk(ops) ==
  /\ ~NeedsSegment(ops)
  /\ Last(checkpoints).chunk_id # chunk_id
  /\ checkpoints' = Append(checkpoints,
       [segment_id |-> segment_id, chunk_id |-> chunk_id, skip |-> 0,
        count |-> 1, rows |-> ops, offset |-> Rows - available_rows])
  /\ available_rows' = available_rows - ops
  /\ UNCHANGED segment_id

(* One more operation for the last check point.                            *)
ExtendLast(ops) ==
  /\ ~NeedsSegment(ops)
  /\ Last(checkpoints).chunk_id = chunk_id
  /\ checkpoints' = [checkpoints EXCEPT ![Len(checkpoints)].count = @ + 1,
                                        ![Len(checkpoints)].rows = @ + ops]
  /\ available_rows' = available_rows - ops
  /\ UNCHANGED segment_id

(* execute_chunk on an unaligned access: add_mem_align_op and ++skip.      *)
AddMemAlignOp(ops) ==
  /\ Len(trace) < MaxOps
  /\ OpenSegment(ops) \/ OpenChunk(ops) \/ ExtendLast(ops)
  /\ skip' = skip + 1
  /\ trace' = Append(trace, [chunk |-> chunk_id, rows |-> ops])
  /\ UNCHANGED chunk_id

(* The end of the trace.                                                   *)
Finished == chunk_id = NumChunks - 1 /\ UNCHANGED vars

Next == NextChunk \/ (\E ops \in OpRows : AddMemAlignOp(ops)) \/ Finished

Spec == Init /\ [][Next]_vars

-----------------------------------------------------------------------------
(* Properties                                                              *)

CheckPoints ==
  [segment_id : Nat, chunk_id : 0 .. NumChunks - 1, skip : Nat,
   count : Nat \ {0}, rows : Nat \ {0}, offset : 0 .. Rows]

(* The types of the plan; the unsigned available_rows never wraps.         *)
TypeOK ==
  /\ chunk_id \in 0 .. NumChunks - 1
  /\ skip \in 0 .. MaxOps
  /\ segment_id \in -1 .. MaxOps
  /\ available_rows \in 0 .. Rows
  /\ checkpoints \in Seq(CheckPoints)
  /\ trace \in Seq([chunk : 0 .. NumChunks - 1, rows : OpRows])

Counts == [j \in DOMAIN checkpoints |-> checkpoints[j].count]

(* The accesses of the trace before check point i takes over.              *)
OpsBefore(i) == RunningTotal(Counts)[i - 1]

(* The rows of the first n accesses of the trace.                          *)
RowsBefore(n) == RunningTotal([k \in DOMAIN trace |-> trace[k].rows])[n]

(* Those of them that belong to chunk c.                                   *)
OfChunk(c, n) == {k \in 1 .. n : trace[k].chunk = c}

(* The check points cut the trace into consecutive runs, each within one   *)
(* chunk and with the rows of its accesses; skip counts the accesses of    *)
(* the chunk that precede the run, whichever way the check point was       *)
(* opened.                                                                 *)
CheckPointsTileTrace ==
  /\ OpsBefore(Len(checkpoints) + 1) = Len(trace)
  /\ \A i \in DOMAIN checkpoints :
       LET cp == checkpoints[i]
           first == OpsBefore(i)
           last == first + cp.count
       IN  /\ \A k \in first + 1 .. last : trace[k].chunk = cp.chunk_id
           /\ cp.rows = RowsBefore(last) - RowsBefore(first)
           /\ cp.skip = Cardinality(OfChunk(cp.chunk_id, first))

(* What each check point adds to the rows of segment s.                    *)
SegmentRows(s) ==
  [j \in DOMAIN checkpoints |->
     IF checkpoints[j].segment_id = s THEN checkpoints[j].rows ELSE 0]

RowsOfSegment(s) == Total(SegmentRows(s))

(* Within a segment the check points lie one behind the other from row 0   *)
(* on, they fit into it, and a segment is given up only for an operation   *)
(* that does not fit any more.                                             *)
SegmentsPacked ==
  \A i \in DOMAIN checkpoints :
    LET cp == checkpoints[i]
    IN  /\ cp.offset = RunningTotal(SegmentRows(cp.segment_id))[i - 1]
        /\ cp.offset + cp.rows <= Rows
        /\ i > 1 /\ cp.offset = 0 =>
             /\ cp.segment_id = checkpoints[i - 1].segment_id + 1
             /\ RowsOfSegment(cp.segment_id - 1) + trace[OpsBefore(i) + 1].rows > Rows

=============================================================================
