------------------------------ MODULE MemSegment ------------------------------
(***************************************************************************)
(* A segment of a plan: class MemSegment (mem_segment.hpp), a map from the *)
(* ids of chunks to check points, and class MemCheckPoint                  *)
(* (mem_check_point.hpp), which says where a chunk enters the segment and  *)
(* where it leaves it.                                                     *)
(***************************************************************************)
EXTENDS Naturals

EmptySegment == [chunks |-> <<>>, tot_count |-> 0]

(* `row' is the row of the segment at which the chunk enters it.           *)
CheckPoint(addr, skip, n, row) ==
  [from_addr |-> addr, from_skip |-> skip, to_addr |-> addr, to_count |-> n,
   count |-> n, from_count |-> n, debug_row |-> row]

(* MemCheckPoint::add_rows                                                 *)
AddRows(cp, addr, n) ==
  [cp EXCEPT !.count = @ + n,
             !.from_count = IF addr = cp.from_addr THEN @ + n ELSE @,
             !.to_addr = addr,
             !.to_count = IF addr = cp.to_addr THEN @ + n ELSE n]

(* MemSegment::add_or_update                                               *)
AddOrUpdate(segment, chunk, addr, skip, n) ==
  [chunks    |-> [c \in DOMAIN segment.chunks \cup {chunk} |->
                    IF c # chunk THEN segment.chunks[c]
                    ELSE IF c \in DOMAIN segment.chunks THEN AddRows(segment.chunks[c], addr, n)
                    ELSE CheckPoint(addr, skip, n, segment.tot_count)],
   tot_count |-> segment.tot_count + n]

(* The constructor with a first check point: add_or_update has added its   *)
(* rows to tot_count, and they are added once more.                        *)
SegmentFrom(chunk, addr, skip, n) ==
  [AddOrUpdate(EmptySegment, chunk, addr, skip, n) EXCEPT !.tot_count = @ + n]

=============================================================================
