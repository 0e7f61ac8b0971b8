------------------------------ MODULE CountPhase ------------------------------
(***************************************************************************)
(* What the counting threads make of the trace: MemCounter::execute_chunk  *)
(* with the address map of mem_counter.hpp, and the classification of      *)
(* accesses in MemAlignCounter::execute_chunk (mem_align_counter.hpp).     *)
(*                                                                         *)
(* Every MemCounter goes over all accesses and counts the words whose      *)
(* address selects it, so that words, not accesses, are divided among the  *)
(* threads: an access that crosses a word boundary is counted by two of    *)
(* them.  A thread takes the chunks one after the other (MemContext has    *)
(* the hand-over); what count_aligned does with its entry is AddrHistory,  *)
(* which AddrSlots implements; where MemAlignCounter puts its rows is      *)
(* MemAlign.  The threads start when TraceLoader has loaded the trace.     *)
(*                                                                         *)
(* An address is that of the code with the page of 2^26 bytes scaled down  *)
(* to PageBytes: the bits above the page are the code's.                   *)
(***************************************************************************)
EXTENDS TraceLoader

CONSTANTS
  Threads,   \* MAX_THREADS
  PageSize,  \* ADDR_PAGE_SIZE, offsets per page
  Align      \* the MemAlignCounter thread

ASSUME CountAssumption ==
  /\ Threads \in Nat /\ Threads > 1
  /\ PageSize \in Nat \ {0}
  /\ Align \notin Nat

-----------------------------------------------------------------------------
(* The address map                                                         *)

MaxPages == 20
PageBytes == PageSize * Threads * 8
Offsets == 0 .. MaxPages * PageSize - 1

(* page_to_addr: two pages from 0x80, two from 0x90, sixteen from 0xA0 on; *)
(* a page takes four steps of the highest byte.                            *)
PageKey(page) == IF page < 2 THEN 32 + page ELSE IF page < 4 THEN 34 + page ELSE 36 + page
PageToAddr(page) == PageKey(page) * PageBytes

(* Mutant: the pages from 0xA0 on are numbered from 3.                     *)
PagesAtShifted(key) ==
  {p \in 0 .. 1 : key = 32 + p} \cup {p \in 2 .. 3 : key = 34 + p}
    \cup {p \in 3 .. 18 : key = 37 + p}

(* The switch of addr_to_offset, a table of its own: the page a case of    *)
(* the highest byte stands for, if there is one.                           *)
PagesAt(key) ==
  {p \in 0 .. 1 : key = 32 + p} \cup {p \in 2 .. 3 : key = 34 + p}
    \cup {p \in 4 .. 19 : key = 36 + p}

PageOf(addr) == PagesAt(addr \div PageBytes)

(* addr_to_offset does not throw.                                          *)
Mapped(addr) == PageOf(addr) # {}

(* Mutant: the address of the page is not subtracted.                      *)
AddrToOffsetUnbased(addr) == addr \div (Threads * 8)

AddrToOffset(addr) ==
  LET page == CHOOSE p \in PageOf(addr) : TRUE
  IN  page * PageSize + (addr % PageBytes) \div (Threads * 8)

OffsetToAddr(offset, thread) ==
  PageToAddr(offset \div PageSize) + (offset % PageSize) * Threads * 8 + thread * 8

-----------------------------------------------------------------------------
VARIABLES
  current,     \* counting thread -> the chunk it is in
  position,    \* counting thread -> accesses of that chunk it has gone through
  table,       \* MemCounter -> offset -> entries, for the offsets it has seen
  align,       \* MemAlignCounter: operations and rows
  terminated   \* the process has ended: addr_to_offset has thrown, or the
               \* assertion of MemAlignCounter has failed

Tallies == [chunk : 0 .. MaxChunks - 1, count : Nat \ {0}]

vars == <<loader_vars, current, position, table, align, terminated>>

Counters == 0 .. Threads - 1
Actors == Counters \cup {Align}

Init ==
  /\ LoaderInit
  /\ current = [t \in Actors |-> 1]
  /\ position = [t \in Actors |-> 0]
  /\ table = [t \in Counters |-> <<>>]
  /\ align = [ops |-> 0, rows |-> 0]
  /\ terminated = FALSE

AccessOf(t) == loaded[current[t]][position[t] + 1]

(* The loop of execute_chunk goes on: chunk_eod != chunk_data.             *)
InChunk(t) == current[t] \in DOMAIN loaded /\ position[t] < Len(loaded[current[t]])

(* flags & 0xFF                                                            *)
Bytes(r) == r.flags.low % 256

Aligned(r) == Bytes(r) = 8 /\ r.addr % 8 = 0
FirstWord(r) == r.addr - (r.addr % 8)

(* Mutant: an access that ends with its word is taken for one that crosses.*)
CrossesAtEnd(r) == Bytes(r) + (r.addr % 8) >= 8

Crosses(r) == Bytes(r) + (r.addr % 8) > 8

(* (addr & ADDR_MASK) == addr_mask                                         *)
Mine(t, addr) == (addr \div 8) % Threads = t

(* The word of the access that counter t counts, if any: no two words of   *)
(* an access are of the same counter.                                      *)
WordsOf(t, r) ==
  IF Mine(t, FirstWord(r)) THEN {FirstWord(r)}
  ELSE IF ~Aligned(r) /\ Crosses(r) /\ Mine(t, FirstWord(r) + 8) THEN {FirstWord(r) + 8}
  ELSE {}

(* Mutant: a write that is not aligned is counted like a read.             *)
RowsIgnoringWrites(r) == 1

(* One row; 1 + (flags >> 16) for a part of a word.                        *)
RowsPerWord(r) == IF Aligned(r) THEN 1 ELSE 1 + r.flags.high

EntriesAt(t, o) == IF o \in DOMAIN table[t] THEN table[t][o] ELSE <<>>

(* Mutant: the entry of the last access is not looked at.                  *)
CountedAlways(entries, chunk, n) == Append(entries, [chunk |-> chunk, count |-> n])

(* count_aligned, as AddrHistory has it.                                   *)
Counted(entries, chunk, n) ==
  IF entries # <<>> /\ Last(entries).chunk = chunk
    THEN [entries EXCEPT ![Len(entries)].count = @ + n]
    ELSE Append(entries, [chunk |-> chunk, count |-> n])

Step(t) == position' = [position EXCEPT ![t] = @ + 1]

(* MemCounter::execute_chunk: an access without a word of this thread.     *)
SkipAccess(t) ==
  /\ InChunk(t)
  /\ WordsOf(t, AccessOf(t)) = {}
  /\ Step(t)
  /\ UNCHANGED <<loader_vars, current, table, align, terminated>>

(* MemCounter::execute_chunk: count_aligned on the thread's word.          *)
CountAccess(t) ==
  /\ InChunk(t)
  /\ \E word \in WordsOf(t, AccessOf(t)) :
       LET o == AddrToOffset(word)
           e == Counted(EntriesAt(t, o), current[t] - 1, RowsPerWord(AccessOf(t)))
       IN  /\ Mapped(word)
           /\ table' = [table EXCEPT ![t] =
                          [x \in DOMAIN table[t] \cup {o} |->
                             IF x = o THEN e ELSE table[t][x]]]
  /\ Step(t)
  /\ UNCHANGED <<loader_vars, current, align, terminated>>

(* A word outside of the pages: the exception ends the process.            *)
UnmappedAccess(t) ==
  /\ InChunk(t)
  /\ \E word \in WordsOf(t, AccessOf(t)) : ~Mapped(word)
  /\ terminated' = TRUE
  /\ UNCHANGED <<loader_vars, current, position, table, align>>

(* Mutant: the program is built with NDEBUG.                               *)
AssertedNothing(r) == TRUE

(* assert(bytes == 1 || bytes == 2 || bytes == 4 || bytes == 8)            *)
Asserted(r) == Bytes(r) \in {1, 2, 4, 8}

(* MemAlignCounter::execute_chunk on one access: addr_count * ops_by_addr  *)
(* rows and another one, unless bytes == 8 and the address is aligned.     *)
AlignRows(r) ==
  LET addr_count  == IF Crosses(r) THEN 2 ELSE 1
      ops_by_addr == IF r.flags.high % 2 = 1 THEN 2 ELSE 1
  IN  addr_count * ops_by_addr + 1

AlignAccess ==
  LET r == AccessOf(Align)
  IN  /\ InChunk(Align)
      /\ Asserted(r)
      /\ align' = IF Aligned(r) THEN align
                  ELSE [ops |-> align.ops + 1, rows |-> align.rows + AlignRows(r)]
      /\ Step(Align)
      /\ UNCHANGED <<loader_vars, current, table, terminated>>

AssertionFails ==
  /\ InChunk(Align)
  /\ ~Asserted(AccessOf(Align))
  /\ terminated' = TRUE
  /\ UNCHANGED <<loader_vars, current, position, table, align>>

(* execute: the following chunk.                                           *)
NextChunk(t) ==
  /\ ~InChunk(t)
  /\ current[t] < Len(loaded)
  /\ current' = [current EXCEPT ![t] = @ + 1]
  /\ position' = [position EXCEPT ![t] = 0]
  /\ UNCHANGED <<loader_vars, table, align, terminated>>

AllCounted ==
  /\ ~loading /\ ~terminated
  /\ \A t \in Actors : current[t] >= Len(loaded) /\ ~InChunk(t)

Finished == (AllCounted \/ terminated) /\ UNCHANGED vars

LoadTrace == Load /\ UNCHANGED <<current, position, table, align, terminated>>

CountTrace ==
  \/ \E t \in Counters : SkipAccess(t) \/ CountAccess(t) \/ UnmappedAccess(t)
  \/ AlignAccess
  \/ AssertionFails
  \/ \E t \in Actors : NextChunk(t)

Next ==
  \/ LoadTrace
  \/ ~loading /\ ~terminated /\ CountTrace
  \/ Finished

Spec == Init /\ [][Next]_vars

-----------------------------------------------------------------------------
(* What has to come out                                                    *)

(* The access reads or writes a byte of the word.                          *)
Touches(a, word) == a.addr < word + 8 /\ word < a.addr + a.bytes

(* The rows of a word an access needs: one for a whole word, one for a     *)
(* read of a part of it, two for a read and a write of a part.             *)
RowsOf(a, word) ==
  IF ~Touches(a, word) THEN 0
  ELSE IF a.write /\ ~(a.addr = word /\ a.bytes = 8) THEN 2 ELSE 1

(* How many of the accesses recorded for chunk c thread t has gone through.*)
SeenOf(t, c) ==
  IF c < current[t] THEN Len(directory.files[c].accesses)
  ELSE IF c = current[t] THEN position[t] ELSE 0

(* The rows of a word they need.                                           *)
RowsSeen(t, c, word) ==
  LET accesses == directory.files[c].accesses
      rows     == [i \in DOMAIN accesses |-> RowsOf(accesses[i], word)]
  IN  RunningTotal(rows)[SeenOf(t, c)]

InOrder(entries) ==
  \A i, j \in DOMAIN entries : i < j => entries[i].chunk < entries[j].chunk

(* What a chunk has in the entries of a word.                              *)
Tallied(entries, chunk, rows) ==
  IF rows = 0 THEN \A i \in DOMAIN entries : entries[i].chunk # chunk
  ELSE \E i \in DOMAIN entries : entries[i] = [chunk |-> chunk, count |-> rows]

(* The rows in the entries of a counter.                                   *)
RowsStored(t) ==
  Total([n \in 1 .. MaxPages * PageSize |-> SumOver(EntriesAt(t, n - 1), LAMBDA e : e.count)])

RowsCounted == Total([n \in 1 .. Threads |-> RowsStored(n - 1)])

OverTrace(value(_)) == Total([c \in DOMAIN loaded |-> SumOver(loaded[c], value)])

-----------------------------------------------------------------------------
(* Properties                                                              *)

(* The types of the loader, of the threads' positions and of their tables. *)
TypeOK ==
  /\ LoaderTypeOK
  /\ current \in [Actors -> 1 .. MaxChunks]
  /\ position \in [Actors -> Nat]
  /\ \A t \in Actors :
       position[t] # 0 =>
         current[t] \in DOMAIN loaded /\ position[t] <= Len(loaded[current[t]])
  /\ DOMAIN table = Counters
  /\ \A t \in Counters :
       /\ DOMAIN table[t] \subseteq Offsets
       /\ \A o \in DOMAIN table[t] : table[t][o] \in Seq(Tallies)
  /\ align \in [ops : Nat, rows : Nat]
  /\ terminated \in BOOLEAN

(* When the format of the trace is recognised the tables hold the rows of  *)
(* every word the bytes of the recorded accesses reach, in the thread and  *)
(* at the offset from which the planners compute the word's address: no    *)
(* word of an access is missed, counted by two threads, or filed where     *)
(* offset_to_addr finds another address, at the ends of blocks of words    *)
(* and of pages included; and a chunk that was read short spoils no other. *)
TableIsTrace ==
  Understood =>
    \A t \in Counters, o \in Offsets :
      /\ InOrder(EntriesAt(t, o))
      /\ \A c \in IntactChunks :
           Tallied(EntriesAt(t, o), c - 1, RowsSeen(t, c, OffsetToAddr(o, t)))

(* Three pieces of code agree on the rows of a trace, in either format:    *)
(* the counters together count the operations count_operations makes of    *)
(* the accesses that are handed over, and MemAlignCounter has one row more *)
(* than that for each of its accesses.  What load prints as tot_ops is the *)
(* same for the new format only: an old trace is added up before it is     *)
(* converted.                                                              *)
OperationsConserved ==
  AllCounted /\ IntactChunks = DOMAIN loaded =>
    /\ RowsCounted = OverTrace(CountOperations)
    /\ directory.format = "new" => tot_ops = RowsCounted
    /\ align.ops = OverTrace(LAMBDA r : IF Aligned(r) THEN 0 ELSE 1)
    /\ align.rows = OverTrace(LAMBDA r : IF Aligned(r) THEN 0 ELSE 1 + CountOperations(r))

(* A trace that load takes for one of the other format never gets to the   *)
(* plan phase: the assertion of MemAlignCounter stops it, whatever the     *)
(* counters have made of it meanwhile, unless there is nothing to count.   *)
MisreadTraceStopped ==
  AllCounted /\ IntactChunks = DOMAIN loaded =>
    Understood \/ \A c \in DOMAIN loaded : loaded[c] = <<>>

Store(t) ==
  INSTANCE AddrHistory WITH
    NumChunks <- MaxChunks,
    Ops <- {1, 2} \cup {1 + r.flags.high : r \in Garbage},
    current_chunk <- current[t] - 1,
    history <- [o \in Offsets |-> EntriesAt(t, o)]

(* For its own words a thread takes the steps AddrHistory allows, if the   *)
(* format is recognised: one access changes one word, by one or two rows,  *)
(* and a chunk is left for good.                                           *)
StoresHistories ==
  /\ \A t \in Counters : Store(t)!Init
  /\ [][Understood => \A t \in Counters :
           current[t] # current'[t] \/ table[t] # table'[t] => Store(t)!Next]_vars

(* What the assertion in MemAlignCounter::execute_chunk takes for granted  *)
(* of every trace that is handed over.  load does not provide it.          *)
EveryAccessAsserted ==
  ~loading => \A c \in DOMAIN loaded : \A i \in DOMAIN loaded[c] : Asserted(loaded[c][i])

=============================================================================
