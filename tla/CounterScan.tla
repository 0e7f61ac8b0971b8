----------------------------- MODULE CounterScan -----------------------------
(***************************************************************************)
(* How the planners read the counters: the loops over pages, offsets and   *)
(* threads that MemPlanner (mem_planner.hpp) and ImmutableMemPlanner       *)
(* (immutable_mem_planner.hpp) share, over tables that do not change any   *)
(* more.                                                                   *)
(*                                                                         *)
(* A word is numbered offset * MAX_THREADS + thread_index, which is the    *)
(* order of addresses; the walk of a word is the sequence of entries       *)
(* (chunk, count) that get_initial_pos and get_next_pos visit, and a       *)
(* position in a counter's slots is the rank of the entry in it (AddrSlots *)
(* has the positions).  A walk has its chunks in order: it is a chain of   *)
(* AddrSlots, or one without its first block, and those are in order.      *)
(***************************************************************************)
EXTENDS Naturals, Sequences, SequencesExt, Accumulation

CONSTANTS
  Threads,   \* MAX_THREADS
  PageSize,  \* ADDR_PAGE_SIZE, offsets per page
  Pages,     \* pages of the region the planner is constructed for
  Chunks,    \* ids of the chunks
  Walks      \* the walks a word can have, the empty one included

ASSUME ScanAssumption ==
  /\ Threads \in Nat \ {0}
  /\ PageSize \in Nat \ {0}
  /\ Pages \in Nat \ {0}
  /\ Chunks \subseteq Nat
  /\ Walks \subseteq Seq([chunk : Chunks, count : Nat \ {0}])
  /\ \A v \in Walks : \A i, j \in DOMAIN v : i < j => v[i].chunk < v[j].chunk

NumWords == Pages * PageSize * Threads
Words == 0 .. NumWords - 1
OffsetOf(w) == w \div Threads
PageOf(w) == OffsetOf(w) \div PageSize

(* addr_to_page(from_addr + size - 1): the page of the region's last byte. *)
ToPage == Pages - 1

(* What the counters hold: a walk for every word.                          *)
Tables == [Words -> Walks]

Accessed(walk, page) == {w \in Words : PageOf(w) = page /\ walk[w] # <<>>}

(* get_offset_limits: the offsets of the page between the lowest and the   *)
(* highest one that some thread has accessed.                              *)
WithinLimits(walk, w) ==
  \E v, x \in Accessed(walk, PageOf(w)) :
    OffsetOf(v) <= OffsetOf(w) /\ OffsetOf(w) <= OffsetOf(x)

(* The condition of the page loops.                                        *)
ScannedPage(page) == page < ToPage

(* The three nested loops come by the word with pos # 0.                   *)
ScannedWord(walk, w) ==
  ScannedPage(PageOf(w)) /\ WithinLimits(walk, w) /\ walk[w] # <<>>

EntriesOf(walk, w) ==
  [c \in DOMAIN walk[w] |->
     [word |-> w, cpos |-> c, chunk |-> walk[w][c].chunk, count |-> walk[w][c].count]]

(* All their entries, in the order the planners come by them.              *)
Scan(walk) ==
  Concatenation([i \in 1 .. NumWords |->
                   IF ScannedWord(walk, i - 1) THEN EntriesOf(walk, i - 1) ELSE <<>>])

Entries == [word : Words, cpos : Nat \ {0}, chunk : Chunks, count : Nat \ {0}]

Least(m, n) == IF m < n THEN m ELSE n

=============================================================================
