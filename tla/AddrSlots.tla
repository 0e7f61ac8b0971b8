------------------------------ MODULE AddrSlots ------------------------------
(***************************************************************************)
(* The store of one MemCounter (mem_counter.hpp): addr_count_table maps the*)
(* offset of a word to the position of its newest entry in addr_slots; the *)
(* entries (chunk id, count) of a word live in a chain of blocks of        *)
(* ADDR_SLOT_SIZE words that count_aligned takes from the array one after  *)
(* the other, and that the planners walk with get_initial_pos and          *)
(* get_next_pos once the counting is over.                                 *)
(*                                                                         *)
(* Word 0 of a block is the position of the previous block of the chain,   *)
(* 0 in a first block.  Word 1 is the position of the next block and, in   *)
(* the last block, of the first one: the chain is a ring.  The remaining   *)
(* words are the entries.  A table position of 0 means "never accessed".   *)
(*                                                                         *)
(* A MemCounter belongs to one thread; an action is one call of            *)
(* count_aligned, split by the path it takes.  The code masks positions    *)
(* with a power of two; % says the same for it and for any even size.      *)
(***************************************************************************)
EXTENDS Integers, Sequences, FiniteSets, FiniteSetsExt, Accumulation

CONSTANTS
  NumOffsets,  \* offsets of addr_count_table
  PageSize,    \* ADDR_PAGE_SIZE, offsets per page
  SlotSize,    \* ADDR_SLOT_SIZE, words per block
  Slots,       \* ADDR_SLOTS, blocks in addr_slots
  NumChunks,   \* chunks of the trace
  Ops,         \* the counts count_aligned is called with
  MaxRows,     \* bound: offset -> its rows
  Garbage,     \* what aligned_alloc leaves in addr_slots
  EmptyPage    \* first_offset of a page without accesses (0xFFFFFFFF)

ASSUME SlotsAssumption ==
  /\ NumOffsets \in Nat \ {0}
  /\ PageSize \in Nat \ {0}
  /\ SlotSize \in Nat /\ SlotSize >= 4 /\ SlotSize % 2 = 0
  /\ Slots \in Nat
  /\ NumChunks \in Nat \ {0}
  /\ Ops \subseteq Nat \ {0}
  /\ Garbage \notin Nat
  /\ EmptyPage \in Nat /\ EmptyPage >= NumOffsets

Offsets == 0 .. NumOffsets - 1

ASSUME BoundAssumption == MaxRows \in [Offsets -> Nat]

Page(o) == o \div PageSize
Pages == {Page(o) : o \in Offsets}
Words == 0 .. Slots * SlotSize - 1

VARIABLES
  addr_count_table,  \* offset -> [pos, count]
  addr_slots,        \* the array of blocks
  free_slot,         \* blocks handed out
  first_offset,      \* page -> lowest offset accessed
  last_offset,       \* page -> highest offset accessed
  current_chunk,     \* the chunk execute_chunk is running on
  terminated         \* get_next_slot_pos has thrown: std::terminate

vars == <<addr_count_table, addr_slots, free_slot, first_offset, last_offset,
          current_chunk, terminated>>

Init ==
  /\ addr_count_table = [o \in Offsets |-> [pos |-> 0, count |-> 0]]
  /\ addr_slots = [w \in Words |-> Garbage]
  /\ free_slot = 0
  /\ first_offset = [p \in Pages |-> EmptyPage]
  /\ last_offset = [p \in Pages |-> 0]
  /\ current_chunk = 0
  /\ terminated = FALSE

-----------------------------------------------------------------------------
(* Positions                                                               *)

(* pos & ADDR_SLOT_MASK                                                    *)
BlockOf(pos) == pos - (pos % SlotSize)

(* The entry at pos is the last one its block has room for.                *)
IsLastEntry(pos) == pos % SlotSize = SlotSize - 2

(* Mutant: every block is taken for the first one of its chain.            *)
InitialPosOwnBlock(pos) == BlockOf(pos) + 2

(* get_initial_pos: where a walk of the chain that ends in pos starts.     *)
InitialPos(pos) ==
  LET tpos == BlockOf(pos)
  IN  IF addr_slots[tpos] = 0 THEN tpos + 2 ELSE addr_slots[tpos + 1] + 2

(* get_next_pos, called with the position of an entry's count.             *)
NextPos(pos) ==
  LET next == addr_slots[BlockOf(pos) + 1]
  IN  IF pos % SlotSize < SlotSize - 1 THEN pos + 1
      ELSE IF next # 0 THEN next + 2 ELSE 0

-----------------------------------------------------------------------------
(* count_aligned                                                           *)

Pos(o) == addr_count_table[o].pos

(* Bound on the number of rows of a word.                                  *)
Within(o, n) == addr_count_table[o].count + n <= MaxRows[o]

(* Mutant: the limit of get_next_slot_pos is off by one.                   *)
HasFreeSlotLate == free_slot <= Slots

(* Mutant: the last block is never handed out.                             *)
HasFreeSlotEarly == free_slot + 1 < Slots

(* get_next_slot_pos does not throw.                                       *)
HasFreeSlot == free_slot < Slots

(* Mutant: get_next_slot_pos forgets to advance.                           *)
TakenSlotStuck == free_slot

TakenSlot == free_slot + 1

(* Mutant: the total of the table misses the first access.                 *)
FirstCountZero(n) == 0

FirstCount(n) == n

(* Mutant: last_offset is not raised by the first offset of a page.        *)
RaisedLastIfSet(p, o) == IF last_offset[p] = 0 THEN 0 ELSE Max({last_offset[p], o})

RaisedLast(p, o) == Max({last_offset[p], o})

(* The word has no block: it gets one, whose ring is the block itself, and *)
(* widens the range of its page.                                           *)
FirstAccess(o, n) ==
  LET pos == free_slot * SlotSize
      p   == Page(o)
  IN  /\ Pos(o) = 0
      /\ HasFreeSlot
      /\ free_slot' = TakenSlot
      /\ addr_slots' = [addr_slots EXCEPT ![pos] = 0, ![pos + 1] = pos,
                                          ![pos + 2] = current_chunk, ![pos + 3] = n]
      /\ addr_count_table' = [addr_count_table EXCEPT ![o] =
                                [pos |-> pos + 2, count |-> FirstCount(n)]]
      /\ first_offset' = [first_offset EXCEPT ![p] = Min({@, o})]
      /\ last_offset' = [last_offset EXCEPT ![p] = RaisedLast(p, o)]
      /\ UNCHANGED <<current_chunk, terminated>>

(* The newest entry is of the current chunk: its count grows.              *)
SameChunk(o, n) ==
  /\ Pos(o) # 0
  /\ addr_slots[Pos(o)] = current_chunk
  /\ addr_slots' = [addr_slots EXCEPT ![Pos(o) + 1] = @ + n]
  /\ addr_count_table' = [addr_count_table EXCEPT ![o].count = @ + n]
  /\ UNCHANGED <<free_slot, first_offset, last_offset, current_chunk, terminated>>

(* A further chunk and the block has room: the next entry.                 *)
NextEntry(o, n) ==
  LET pos == Pos(o) + 2
  IN  /\ Pos(o) # 0
      /\ addr_slots[Pos(o)] # current_chunk
      /\ ~IsLastEntry(Pos(o))
      /\ addr_slots' = [addr_slots EXCEPT ![pos] = current_chunk, ![pos + 1] = n]
      /\ addr_count_table' = [addr_count_table EXCEPT ![o] =
                                [pos |-> pos, count |-> @.count + n]]
      /\ UNCHANGED <<free_slot, first_offset, last_offset, current_chunk, terminated>>

(* Mutant: the new last block does not close the ring.                     *)
RingHeadSelf(tpos) == tpos

(* What the new last block points to: the first block of the chain.        *)
RingHead(tpos) == addr_slots[tpos + 1]

(* A further chunk and the block is full: a new last block.                *)
NextBlock(o, n) ==
  LET npos == free_slot * SlotSize
      tpos == Pos(o) - SlotSize + 2
  IN  /\ Pos(o) # 0
      /\ addr_slots[Pos(o)] # current_chunk
      /\ IsLastEntry(Pos(o))
      /\ HasFreeSlot
      /\ free_slot' = TakenSlot
      /\ addr_slots' = [addr_slots EXCEPT
                          ![npos] = tpos, ![npos + 1] = RingHead(tpos),
                          ![npos + 2] = current_chunk, ![npos + 3] = n,
                          ![tpos + 1] = npos]
      /\ addr_count_table' = [addr_count_table EXCEPT ![o] =
                                [pos |-> npos + 2, count |-> @.count + n]]
      /\ UNCHANGED <<first_offset, last_offset, current_chunk, terminated>>

(* A block is needed and none is left: get_next_slot_pos throws in a thread*)
(* without a handler.  The total of a known word has grown by then.        *)
NoFreeSlot(o, n) ==
  /\ ~HasFreeSlot
  /\ Pos(o) # 0 => addr_slots[Pos(o)] # current_chunk /\ IsLastEntry(Pos(o))
  /\ addr_count_table' = [addr_count_table EXCEPT ![o].count =
                            IF Pos(o) = 0 THEN @ ELSE @ + n]
  /\ terminated' = TRUE
  /\ UNCHANGED <<addr_slots, free_slot, first_offset, last_offset, current_chunk>>

CountAligned(o, n) ==
  /\ ~terminated
  /\ Within(o, n)
  /\ \/ FirstAccess(o, n)
     \/ SameChunk(o, n)
     \/ NextEntry(o, n)
     \/ NextBlock(o, n)
     \/ NoFreeSlot(o, n)

(* execute: the following chunk.                                           *)
NextChunk ==
  /\ ~terminated
  /\ current_chunk + 1 < NumChunks
  /\ current_chunk' = current_chunk + 1
  /\ UNCHANGED <<addr_count_table, addr_slots, free_slot, first_offset, last_offset,
                 terminated>>

(* The end of the last chunk, or of the process.                           *)
Finished ==
  /\ terminated \/ current_chunk = NumChunks - 1
  /\ UNCHANGED vars

Next == NextChunk \/ (\E o \in Offsets, n \in Ops : CountAligned(o, n)) \/ Finished

Spec == Init /\ [][Next]_vars

-----------------------------------------------------------------------------
(* Walks                                                                   *)

EntryAt(pos) == [chunk |-> addr_slots[pos], count |-> addr_slots[pos + 1]]

(* The planners' loop from position `from' to the newest entry of o,       *)
(* cut off when it has made as many steps as there are words.              *)
WalkFrom(o, from) ==
  LET walk[fuel \in 0 .. Slots * SlotSize] ==
        [cpos \in Nat |->
           IF cpos = 0 \/ fuel = 0 THEN <<>>
           ELSE <<cpos>> \o (IF cpos = Pos(o) THEN <<>>
                                              ELSE walk[fuel - 1][NextPos(cpos + 1)])]
  IN  walk[Slots * SlotSize][from]

(* The positions the planners visit.                                       *)
Walk(o) == IF Pos(o) = 0 THEN <<>> ELSE WalkFrom(o, InitialPos(Pos(o)))

(* All positions of the word: from the first block the ring leads to.      *)
Chain(o) ==
  IF Pos(o) = 0 THEN <<>> ELSE WalkFrom(o, addr_slots[BlockOf(Pos(o)) + 1] + 2)

EntriesAt(walk) == [i \in DOMAIN walk |-> EntryAt(walk[i])]

BlocksOf(o) == LET chain == Chain(o) IN {BlockOf(chain[i]) : i \in DOMAIN chain}

RowsIn(walk) == Total([i \in DOMAIN walk |-> addr_slots[walk[i] + 1]])

(* The entries a block has room for.                                       *)
EntriesPerBlock == (SlotSize - 2) \div 2

-----------------------------------------------------------------------------
(* Properties                                                              *)

(* The types of the store; a word of addr_slots is read by the code only   *)
(* after count_aligned has written it, which the properties below need.    *)
TypeOK ==
  /\ addr_count_table \in [Offsets -> [pos : 0 .. Slots * SlotSize, count : Nat]]
  /\ addr_slots \in [Words -> Nat \cup {Garbage}]
  /\ free_slot \in 0 .. Slots
  /\ first_offset \in [Pages -> Offsets \cup {EmptyPage}]
  /\ last_offset \in [Pages -> Offsets]
  /\ current_chunk \in 0 .. NumChunks - 1
  /\ terminated \in BOOLEAN

History == INSTANCE AddrHistory WITH
             history <- [o \in Offsets |-> EntriesAt(Chain(o))]

(* The store implements AddrHistory: along the ring every word keeps one   *)
(* entry per chunk that touched it, in order and with its count, whatever  *)
(* the words whose blocks lie in between did.                              *)
ImplementsHistory == History!Spec

(* A chain of two blocks whose first one is block 0 of the array: the only *)
(* second block whose word 0 is 0.                                         *)
SecondBlockLooksFirst(o) ==
  /\ Pos(o) # 0
  /\ 0 \in BlocksOf(o)
  /\ Cardinality(BlocksOf(o)) = 2

(* A planner's walk visits the whole chain of the word; for the one word   *)
(* that owns block 0, while it has two blocks, it visits the second block  *)
(* only.                                                                   *)
WalkIsChain ==
  \A o \in Offsets :
    Walk(o) = IF SecondBlockLooksFirst(o)
                THEN SubSeq(Chain(o), EntriesPerBlock + 1, Len(Chain(o)))
                ELSE Chain(o)

NoBlockSharedOrLost ==
  /\ \A o, q \in Offsets : o # q => BlocksOf(o) \cap BlocksOf(q) = {}
  /\ UNION {BlocksOf(o) : o \in Offsets} = {s * SlotSize : s \in 0 .. free_slot - 1}

(* No block belongs to two words and none that was handed out is lost; the *)
(* store gives up only when every block of addr_slots is in a chain.       *)
BlocksPartitioned ==
  /\ NoBlockSharedOrLost
  /\ terminated => free_slot = Slots

(* The total of a word in addr_count_table is the sum over its chain.      *)
CountIsChainTotal ==
  ~terminated => \A o \in Offsets : addr_count_table[o].count = RowsIn(Chain(o))

(* The range of a page is exactly that of its accessed offsets, so that    *)
(* get_offset_limits' scan misses none; a page without any has an empty    *)
(* range.                                                                  *)
LimitsAreTight ==
  \A p \in Pages :
    LET used == {o \in Offsets : Page(o) = p /\ Pos(o) # 0}
    IN  /\ first_offset[p] = Min(used \cup {EmptyPage})
        /\ last_offset[p] = Max(used \cup {0})

(* What the planner's comment in generate_locators takes for granted when  *)
(* it skips a word by get_count_table instead of walking it: the walk goes *)
(* over as many rows as the table says.  The walk of SecondBlockLooksFirst *)
(* does not.                                                               *)
WalkMatchesCountTable ==
  ~terminated => \A o \in Offsets : addr_count_table[o].count = RowsIn(Walk(o))

=============================================================================
