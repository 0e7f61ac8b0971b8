---------------------------- MODULE ImmutablePlan ----------------------------
(***************************************************************************)
(* The plan of the ROM and of the input pages: ImmutableMemPlanner         *)
(* (immutable_mem_planner.hpp).  In memory that is written once every word *)
(* between two accessed ones takes a row too.  One thread goes over the    *)
(* scan, lays the gaps and the entries out in segments of `rows' rows and  *)
(* records the entries, but not the gaps, in the check points.             *)
(*                                                                         *)
(* An action is one iteration of the loops of add_intermediate_rows and    *)
(* add_rows, or the code between them; the planner shares nothing that     *)
(* changes with another thread.                                            *)
(***************************************************************************)
EXTENDS CounterScan, MemSegment

CONSTANTS
  Rows,    \* ROM_ROWS, INPUT_ROWS: rows of a segment
  NoEntry  \* reference_addr_chunk == NO_CHUNK_ID

ASSUME ImmutableAssumption ==
  /\ Rows \in Nat \ {0}
  /\ NoEntry \notin [chunk : Nat, addr : Nat, skip : Nat]

VARIABLES
  walk,             \* word -> what get_initial_pos / get_next_pos visit
  scan,             \* the entries in the order the nested loops come by them
  entry,            \* rank in scan of the entry add_to_current_segment is called with
  pc,               \* "intermediates", "gap", "preopen", "rows" or "closed"
  pending,          \* rows of the gap, or of the entry, that have no place yet
  intermediate,     \* rows of the gap before the entry: intermediate_rows
  last_addr,        \* the word of the entry before
  rows_available,   \* rows free in the current segment
  reference,        \* reference_addr_chunk, reference_addr, reference_skip
  current_segment,
  segments          \* the closed segments

vars == <<walk, scan, entry, pc, pending, intermediate, last_addr, rows_available,
          reference, current_segment, segments>>

Init ==
  /\ walk \in Tables
  /\ scan = Scan(walk)
  /\ entry = 1
  /\ pc = "intermediates"
  /\ pending = 0
  /\ intermediate = 0
  /\ last_addr = 0
  /\ rows_available = Rows
  /\ reference = NoEntry
  /\ current_segment = EmptySegment
  /\ segments = <<>>

-----------------------------------------------------------------------------
(* Mutant: a segment begins without a check point of what precedes it.     *)
OpenedEmpty == EmptySegment

(* The segment open_segment begins with: the place where the last entry    *)
(* was left.                                                               *)
Opened ==
  IF reference = NoEntry THEN EmptySegment
  ELSE AddOrUpdate(EmptySegment, reference.chunk, reference.addr, reference.skip, 0)

(* close_segment                                                           *)
Closed(segment) == Append(segments, segment)

(* Mutant: the gap includes the entry's own word.                          *)
GapInclusive(from, to) == IF to > from THEN to - from ELSE 0

(* Mutant: the difference of the addresses is not compared with 8.         *)
GapUnguarded(from, to) == to - from - 1

(* add_intermediates: the words strictly between last_addr and addr.       *)
Gap(from, to) == IF to > from + 1 THEN to - from - 1 ELSE 0

(* add_to_current_segment: set_current_chunk and the size of the gap.      *)
AddIntermediates ==
  /\ pc = "intermediates"
  /\ entry <= Len(scan)
  /\ LET gap == Gap(last_addr, scan[entry].word)
     IN  /\ intermediate' = gap
         /\ pending' = gap
  /\ last_addr' = scan[entry].word
  /\ pc' = "gap"
  /\ UNCHANGED <<walk, scan, entry, rows_available, reference, current_segment, segments>>

(* consume_intermediate_rows: in a full segment it opens the next one and  *)
(* consumes nothing.  Gap rows leave no trace in the segment.              *)
ConsumeIntermediateRows ==
  /\ pc = "gap"
  /\ pending > 0
  /\ IF rows_available = 0
       THEN /\ segments' = Closed(current_segment)
            /\ current_segment' = Opened
            /\ rows_available' = Rows
            /\ UNCHANGED pending
       ELSE /\ rows_available' = rows_available - Least(pending, rows_available)
            /\ pending' = pending - Least(pending, rows_available)
            /\ UNCHANGED <<segments, current_segment>>
  /\ UNCHANGED <<walk, scan, entry, pc, intermediate, last_addr, reference>>

(* Mutant: no announcement of the entry in the segment the gap has filled. *)
AnnouncedNever(e) == current_segment

(* preopen_segment: a gap that ends with the segment makes the next entry  *)
(* part of it, with one row more than the segment has.                     *)
Announced(e) ==
  IF intermediate > 0 THEN AddOrUpdate(current_segment, e.chunk, e.word, 0, 1)
                      ELSE current_segment

(* preopen_segment, then set_reference.                                    *)
PreopenSegment ==
  LET e == scan[entry]
  IN  /\ pc = "gap"
      /\ pending = 0
      /\ IF rows_available = 0
           THEN /\ segments' = Closed(Announced(e))
                /\ current_segment' = Opened
                /\ rows_available' = Rows
           ELSE UNCHANGED <<segments, current_segment, rows_available>>
      /\ reference' = [chunk |-> e.chunk, addr |-> e.word, skip |-> 0]
      /\ pending' = e.count
      /\ pc' = "rows"
      /\ UNCHANGED <<walk, scan, entry, intermediate, last_addr>>

(* Mutant: consume_rows does not keep reference_skip up to date.           *)
SkippedUnchanged(n) == reference.skip

Skipped(n) == reference.skip + n

(* consume_rows: in a full segment it opens the next one, with the skip of *)
(* the entry, and consumes nothing; the entry is through when nothing is   *)
(* pending.                                                                *)
ConsumeRows ==
  LET e    == scan[entry]
      n    == Least(pending, rows_available)
      skip == e.count - pending
  IN  /\ pc = "rows"
      /\ IF rows_available = 0
           THEN /\ segments' = Closed(current_segment)
                /\ current_segment' = AddOrUpdate(Opened, e.chunk, e.word, skip, 0)
                /\ rows_available' = Rows
           ELSE /\ current_segment' = AddOrUpdate(current_segment, e.chunk, e.word, skip, n)
                /\ rows_available' = rows_available - n
                /\ UNCHANGED segments
      /\ reference' = [reference EXCEPT !.skip = Skipped(n)]
      /\ pending' = pending - n
      /\ IF pending' = 0 THEN pc' = "intermediates" /\ entry' = entry + 1
                         ELSE UNCHANGED <<pc, entry>>
      /\ UNCHANGED <<walk, scan, intermediate, last_addr>>

(* Mutant: a last segment that is full is not closed.                      *)
MustCloseUnlessFull == 0 < rows_available /\ rows_available < Rows

(* rows_available < rows_by_segment: the segment has rows.                 *)
MustClose == rows_available < Rows

CloseLastSegment ==
  /\ pc = "intermediates"
  /\ entry > Len(scan)
  /\ pc' = "closed"
  /\ IF MustClose
       THEN /\ segments' = Closed(current_segment)
            /\ current_segment' = EmptySegment
       ELSE UNCHANGED <<segments, current_segment>>
  /\ UNCHANGED <<walk, scan, entry, pending, intermediate, last_addr, rows_available,
                 reference>>

(* collect_segments: the result by segment id.                             *)
Collected == [id \in 0 .. Len(segments) - 1 |-> segments[id + 1]]

Finished == pc = "closed" /\ UNCHANGED vars

Next ==
  \/ AddIntermediates
  \/ ConsumeIntermediateRows
  \/ PreopenSegment
  \/ ConsumeRows
  \/ CloseLastSegment
  \/ Finished

Spec == Init /\ [][Next]_vars

-----------------------------------------------------------------------------
(* The layout of the rows, as a reference                                  *)

(* The words between an entry and the one before it; ahead of the first    *)
(* entry those behind the first word of the region.                        *)
GapBefore(i) ==
  LET previous == IF i = 1 THEN 0 ELSE scan[i - 1].word
  IN  Cardinality({w \in Words : previous < w /\ w < scan[i].word})

(* The rows an entry takes with the gap before it.                         *)
RowsTaken == [j \in DOMAIN scan |-> GapBefore(j) + scan[j].count]

(* The row an entry begins at, and the one after its last.                 *)
Begins(i) == RunningTotal(RowsTaken)[i - 1] + GapBefore(i)
Ends(i) == Begins(i) + scan[i].count
TotalRows == IF scan = <<>> THEN 0 ELSE Ends(Len(scan))

(* It begins right behind a slice that ends with a gap.                    *)
AnnouncedIn(i, k) == Begins(i) = (k + 1) * Rows /\ GapBefore(i) > 0

(* Rows k * Rows .. (k + 1) * Rows - 1 of an entry, or the one that        *)
(* announces it.                                                           *)
RowsInSlice(i, k) ==
  LET from == Max({Begins(i), k * Rows})
      to   == Min({Ends(i), (k + 1) * Rows})
  IN  IF from < to THEN to - from ELSE IF AnnouncedIn(i, k) THEN 1 ELSE 0

(* The entry that holds, or is the last before, the row ahead of segment   *)
(* k: the place from which the values at its beginning are known.          *)
AnchorOf(k) ==
  {i \in DOMAIN scan : /\ Begins(i) < k * Rows
                       /\ \A j \in DOMAIN scan : Begins(j) < k * Rows => j <= i}

InSlice(k) == AnchorOf(k) \cup {i \in DOMAIN scan : RowsInSlice(i, k) > 0}

SliceRows(k) == [i \in DOMAIN scan |-> RowsInSlice(i, k)]
ChunkRows(k, chunk) ==
  [i \in DOMAIN scan |-> IF scan[i].chunk = chunk THEN RowsInSlice(i, k) ELSE 0]

(* The check point of a chunk, read off the layout.                        *)
SliceCheckPoint(k, chunk) ==
  LET mine  == {i \in InSlice(k) : scan[i].chunk = chunk}
      first == Min(mine)
      last  == Max(mine)
  IN  [from_addr  |-> scan[first].word,
       from_skip  |-> IF k * Rows > Begins(first)
                        THEN Least(scan[first].count, k * Rows - Begins(first)) ELSE 0,
       from_count |-> RowsInSlice(first, k),
       to_addr    |-> scan[last].word,
       to_count   |-> RowsInSlice(last, k),
       count      |-> Total(ChunkRows(k, chunk)),
       debug_row  |-> RunningTotal(SliceRows(k))[first - 1]]

Slice(k) == [chunk \in {scan[i].chunk : i \in InSlice(k)} |-> SliceCheckPoint(k, chunk)]

-----------------------------------------------------------------------------
(* Properties                                                              *)

(* The types of the planner's state.                                       *)
TypeOK ==
  /\ walk \in Tables
  /\ scan \in Seq(Entries)
  /\ entry \in 1 .. Len(scan) + 1
  /\ pc \in {"intermediates", "gap", "rows", "closed"}
  /\ pending \in Nat
  /\ intermediate \in Nat
  /\ last_addr \in Words
  /\ rows_available \in 0 .. Rows
  /\ reference \in [chunk : Chunks, addr : Words, skip : Nat] \cup {NoEntry}

(* The rows handed out so far, in closed segments and in the current one,  *)
(* end where the layout says the planner is: in the gap before an entry,   *)
(* in the entry or behind it.  No row is lost or doubled when a gap or an  *)
(* entry runs over the ends of several segments.                           *)
RowsHandedOut == Len(segments) * Rows + (Rows - rows_available)

RowsAccountedFor ==
  /\ pc = "intermediates" => RowsHandedOut = IF entry = 1 THEN 0 ELSE Ends(entry - 1)
  /\ pc = "gap" => RowsHandedOut = Begins(entry) - pending
  /\ pc = "rows" => RowsHandedOut = Ends(entry) - pending

(* A closed segment is the slice of the layout with its number: for every  *)
(* chunk where it enters, where it leaves and how many of its rows lie in  *)
(* between; it begins with the place where the last entry before it was    *)
(* left, and ends with the entry behind a gap that fills it up.  (Stated   *)
(* of the newest one in every state: closed segments do not change.)       *)
SegmentsAreSlices ==
  segments # <<>> => Last(segments).chunks = Slice(Len(segments) - 1)

(* At the end the collected plan has as many segments as the rows of the   *)
(* layout need, no empty one and none left open.                           *)
PlanCoversScan ==
  pc = "closed" => DOMAIN Collected = 0 .. (TotalRows + Rows - 1) \div Rows - 1

=============================================================================
