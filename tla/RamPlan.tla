------------------------------- MODULE RamPlan -------------------------------
(***************************************************************************)
(* The two-level plan of the RAM pages: MemPlanner (mem_planner.hpp),      *)
(* MemSegment (mem_segment.hpp) and MemCheckPoint (mem_check_point.hpp).   *)
(*                                                                         *)
(* The counters have stopped and their tables do not change any more.  The *)
(* words of memory in address order, each with the entries (chunk, count)  *)
(* of its walk, form one long list of rows, count rows per entry.  The     *)
(* quick planner (generate_locators) runs over the entries and marks where *)
(* every segment of `rows' rows begins; a segment planner                  *)
(* (execute_from_locator) starts at such a mark, without having seen what  *)
(* precedes it, and records per chunk where it enters and leaves the       *)
(* segment.                                                                *)
(*                                                                         *)
(* Locators are claimed in order and a segment depends on nothing but its  *)
(* locator and the tables, so one planner stands for all (MemLocators has  *)
(* the competition for the locators).                                      *)
(***************************************************************************)
EXTENDS CounterScan, MemSegment

CONSTANT Rows  \* RAM_ROWS, rows of a segment

ASSUME RowsAssumption == Rows \in Nat \ {0}

NoSegment == EmptySegment  \* current_segment == nullptr

VARIABLES
  walk,            \* word -> what get_initial_pos / get_next_pos visit
  scan,            \* the entries in the order the nested loops come by them
  entry,           \* generate_locators: rank in scan of the entry it is at
  count,           \* generate_locators: rows of that entry still to place
  rows_available,  \* generate_locators: rows free in the current segment
  locators,        \* MemLocators, without its concurrency
  completed,       \* set_completed has been called
  segments,        \* the segments executed so far, by segment id
  errors           \* how many times a planner printed ERROR

vars == <<walk, scan, entry, count, rows_available, locators, completed, segments,
          errors>>

-----------------------------------------------------------------------------
Init ==
  /\ walk \in Tables
  /\ scan = Scan(walk)
  /\ entry = 1
  /\ count = IF scan = <<>> THEN 0 ELSE scan[1].count
  /\ rows_available = Rows
  /\ locators = <<>>
  /\ completed = FALSE
  /\ segments = <<>>
  /\ errors = 0

-----------------------------------------------------------------------------
(* The quick planner                                                       *)

(* Mutant: the mark is put at the beginning of the entry.                  *)
SkipFromZero(e, left) == 0

(* Mutant: a full segment is skipped, whatever part of it the entry has.   *)
SkipRows(e, left) == Rows

(* initial_count - count: the rows of the entry that come before the mark. *)
Skip(e, left) == e.count - left

Locator(word, cpos, skip) == [word |-> word, cpos |-> cpos, skip |-> skip]

(* The first word with entries: inserted_first_locator.  The position is   *)
(* that of the newest entry, which the planner of segment 0 does not use.  *)
PushFirstLocator ==
  /\ locators = <<>>
  /\ entry <= Len(scan)
  /\ LET w == scan[entry].word
     IN  locators' = <<Locator(w, Len(walk[w]), 0)>>
  /\ UNCHANGED <<walk, scan, entry, count, rows_available, completed, segments, errors>>

(* The entry is through: get_next_pos, or the next word of the scan.       *)
Advance ==
  /\ entry' = entry + 1
  /\ count' = IF entry < Len(scan) THEN scan[entry + 1].count ELSE 0

(* Mutant: an entry that fills the segment exactly is not a boundary.      *)
FitsExactly == rows_available >= count

(* rows_available > count: the rest of the entry lies inside the segment.  *)
Fits == rows_available > count

ConsumeEntry ==
  /\ locators # <<>>
  /\ entry <= Len(scan)
  /\ Fits
  /\ rows_available' = rows_available - count
  /\ Advance
  /\ UNCHANGED <<walk, scan, locators, completed, segments, errors>>

(* The segment ends within the entry, or with its last row: the mark of    *)
(* the next segment.                                                       *)
PushLocator ==
  /\ locators # <<>>
  /\ entry <= Len(scan)
  /\ ~Fits
  /\ LET e    == scan[entry]
         left == count - rows_available
     IN  /\ locators' = Append(locators, Locator(e.word, e.cpos, Skip(e, left)))
         /\ IF left > 0 THEN entry' = entry /\ count' = left ELSE Advance
  /\ rows_available' = Rows
  /\ UNCHANGED <<walk, scan, completed, segments, errors>>

SetCompleted ==
  /\ ~completed
  /\ entry > Len(scan)
  /\ completed' = TRUE
  /\ UNCHANGED <<walk, scan, entry, count, rows_available, locators, segments, errors>>

-----------------------------------------------------------------------------
(* The segment planners                                                    *)

(* MemPlanner::add_chunk: the rows go into the segment as far as it has    *)
(* room; a full segment ends the planner's loops.                          *)
AddChunk(plan, e, skip) ==
  LET added == Least(e.count - skip, plan.available)
  IN  [segment   |-> IF plan.segment = NoSegment
                       THEN SegmentFrom(e.chunk, e.word, skip, added)
                       ELSE AddOrUpdate(plan.segment, e.chunk, e.word, 0, added),
       available |-> plan.available - added]

(* get_max_offset: the highest offset some thread has accessed in the page.*)
UpToMaxOffset(w) ==
  \E x \in Accessed(walk, PageOf(w)) : OffsetOf(w) <= OffsetOf(x)

(* Mutant: the planner does not go on to the pages behind its locator's.   *)
ResumedWordOnePage(first, w) ==
  /\ first <= w /\ PageOf(w) = PageOf(first) /\ ScannedPage(PageOf(w))
  /\ UpToMaxOffset(w) /\ walk[w] # <<>>

(* The loops of execute_from_locator, from word first on, come by the word *)
(* with pos # 0: in the page of first up to the highest offset, in every   *)
(* other page between its limits.                                          *)
ResumedWord(first, w) ==
  /\ first <= w
  /\ ScannedPage(PageOf(w))
  /\ IF PageOf(w) = PageOf(first) THEN UpToMaxOffset(w) ELSE WithinLimits(walk, w)
  /\ walk[w] # <<>>

ScanFrom(first) ==
  Concatenation([i \in 1 .. NumWords |->
                   IF ResumedWord(first, i - 1) THEN EntriesOf(walk, i - 1) ELSE <<>>])

(* Mutant: every planner trusts the position of its locator.               *)
ResumesInsideAlways(id, l) == TRUE

(* The planner of segment 0 starts its first word from the beginning, and  *)
(* so does one that finds nothing at its locator with the word after that. *)
ResumesInside(id, l) == id # 0 /\ walk[l.word] # <<>>

FirstRank(id, l) == IF ResumesInside(id, l) THEN l.cpos ELSE 1
FirstSkip(id, l) == IF ResumesInside(id, l) THEN l.skip ELSE 0

(* What is left of the segment, and the segment, after each entry.         *)
Filling(entries, start, skip) ==
  LET plan[n \in start .. Len(entries)] ==
        IF n = start
          THEN AddChunk([segment |-> NoSegment, available |-> Rows], entries[n], skip)
          ELSE IF plan[n - 1].available = 0 THEN plan[n - 1]
               ELSE AddChunk(plan[n - 1], entries[n], 0)
  IN  plan

(* The segment of id is built from the tables, from the locator on.        *)
Build(id, l) ==
  LET ahead == ScanFrom(l.word)
  IN  Filling(ahead, FirstRank(id, l), FirstSkip(id, l))[Len(ahead)].segment

(* The two conditions under which execute_from_locator prints ERROR: no    *)
(* entries at the locator's word, and more rows to skip than the entry has.*)
PrintsError(id, l) ==
  \/ walk[l.word] = <<>>
  \/ FirstSkip(id, l) > walk[l.word][FirstRank(id, l)].count

ExecuteFromLocator ==
  LET id == Len(segments)
      l  == locators[id + 1]
  IN  /\ id < Len(locators)
      /\ segments' = Append(segments, Build(id, l))
      /\ errors' = errors + IF PrintsError(id, l) THEN 1 ELSE 0
      /\ UNCHANGED <<walk, scan, entry, count, rows_available, locators, completed>>

-----------------------------------------------------------------------------
PlanComplete == completed /\ Len(segments) = Len(locators)

Finished == PlanComplete /\ UNCHANGED vars

Next ==
  \/ PushFirstLocator
  \/ ConsumeEntry
  \/ PushLocator
  \/ SetCompleted
  \/ ExecuteFromLocator
  \/ Finished

Spec == Init /\ [][Next]_vars

-----------------------------------------------------------------------------
(* The list of rows, as a reference                                        *)

RowCounts == [j \in DOMAIN scan |-> scan[j].count]
RowsBefore(i) == RunningTotal(RowCounts)[i - 1]
RowsUpTo(i) == RowsBefore(i) + scan[i].count
TotalRows == RowsBefore(Len(scan) + 1)

(* Rows k * Rows .. (k + 1) * Rows - 1 of entry i.                         *)
RowsInSlice(i, k) ==
  LET from == Max({RowsBefore(i), k * Rows})
      to   == Min({RowsUpTo(i), (k + 1) * Rows})
  IN  IF from < to THEN to - from ELSE 0

(* The entries of a slice; the entry that ended with the previous slice is *)
(* the anchor the slice starts from ("we need to pass by offset,cpos to    *)
(* get last value").                                                       *)
InSlice(k) ==
  {i \in DOMAIN scan : RowsInSlice(i, k) > 0 \/ (k > 0 /\ RowsUpTo(i) = k * Rows)}

(* The row of the segment that debug_row says an entry begins at: too high *)
(* by the rows of the segment's first entry, which are counted twice.      *)
RowOf(k, i) ==
  LET begin == Min(InSlice(k))
  IN  IF i = begin THEN 0 ELSE RowsBefore(i) - k * Rows + RowsInSlice(begin, k)

(* The check point of a chunk, read off the list of rows.                  *)
SliceCheckPoint(k, chunk) ==
  LET mine  == {i \in InSlice(k) : scan[i].chunk = chunk}
      first == Min(mine)
      last  == Max(mine)
  IN  [from_addr  |-> scan[first].word,
       from_skip  |-> IF k * Rows > RowsBefore(first) THEN k * Rows - RowsBefore(first) ELSE 0,
       from_count |-> RowsInSlice(first, k),
       to_addr    |-> scan[last].word,
       to_count   |-> RowsInSlice(last, k),
       count      |-> Total([i \in DOMAIN scan |-> IF i \in mine THEN RowsInSlice(i, k) ELSE 0]),
       debug_row  |-> RowOf(k, first)]

Slice(k) == [chunk \in {scan[i].chunk : i \in InSlice(k)} |-> SliceCheckPoint(k, chunk)]

-----------------------------------------------------------------------------
(* Properties                                                              *)

(* The types of the plan's state: what is left of an entry, and of a       *)
(* segment, is positive while the scan goes on.                            *)
TypeOK ==
  /\ walk \in Tables
  /\ scan \in Seq(Entries)
  /\ entry \in 1 .. Len(scan) + 1
  /\ entry <= Len(scan) => count \in 1 .. scan[entry].count
  /\ rows_available \in 1 .. Rows
  /\ \A i \in DOMAIN locators :
       /\ locators[i].word \in Words
       /\ locators[i].cpos \in DOMAIN walk[locators[i].word]
       /\ locators[i].skip \in Nat
  /\ completed \in BOOLEAN
  /\ Len(segments) <= Len(locators)
  /\ errors \in Nat

(* Locator k marks row k * Rows of the list, inside or at the end of an    *)
(* entry, however many segments an entry spans and whatever page, offset   *)
(* or thread it is found at.                                               *)
LocatorsOnBoundaries ==
  \A k \in 1 .. Len(locators) - 1 :
    \E i \in DOMAIN scan :
      /\ locators[k + 1].word = scan[i].word
      /\ locators[k + 1].cpos = scan[i].cpos
      /\ locators[k + 1].skip \in 1 .. scan[i].count
      /\ RowsBefore(i) + locators[k + 1].skip = k * Rows

(* A segment built from its locator alone is the slice of the list of rows *)
(* with its number: for every chunk the address and skip it enters with,   *)
(* the address it leaves at and the rows in between.  (Stated of the newest *)
(* one in every state: finished segments do not change.)                   *)
SegmentsAreSlices ==
  segments # <<>> => Last(segments).chunks = Slice(Len(segments) - 1)

(* The checks in execute_from_locator never fire: the locator's word has   *)
(* entries and its skip fits into the entry.                               *)
NoPlannerError == errors = 0

(* When quick planner and planners are through there is a segment for      *)
(* every slice of the list, and a last one with whatever is left, which is *)
(* empty when the rows fill their segments exactly.                        *)
PlanCoversScan ==
  PlanComplete =>
    Len(segments) = IF TotalRows = 0 THEN 0 ELSE TotalRows \div Rows + 1

RowsPlanned(segment) ==
  MapThenSumSet(LAMBDA c : segment.chunks[c].count, DOMAIN segment.chunks)

RowsCounted ==
  MapThenSumSet(LAMBDA w : FoldLeft(LAMBDA n, e : n + e.count, 0, walk[w]), Words)

(* What prepare in mem_count_and_plan.hpp asks for when it gives the RAM   *)
(* planners the whole region: all rows counted in it are planned.  The     *)
(* last page of the region is not.                                         *)
RegionPlanned ==
  PlanComplete =>
    MapThenSumSet(LAMBDA i : RowsPlanned(segments[i]), DOMAIN segments) = RowsCounted

=============================================================================
