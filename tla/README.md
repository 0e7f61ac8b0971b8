# Verification of mem_count_and_plan

TLA+ modules, TLC models and TLAPS proofs for `mem_count_and_plan`, a C++17
program that reads the memory trace of a zkVM in chunks, counts the rows every
word of memory needs, and plans which chunks contribute which rows to which
segment of the memory state machines.  Line numbers refer to the files in
`src/`.

## 1. The system

| Component | State | Operations | Talks to |
|---|---|---|---|
| `MemTest` (mem_test.hpp, tools.hpp) | the loaded chunks | `load`, `execute` | `MemCountAndPlan` by calls |
| `MemCountAndPlan` (mem_count_and_plan.hpp) | the workers, the orchestrator thread | `prepare`, `execute`, `count_phase`, `plan_phase`, `add_chunk`, `set_completed`, `wait` | starts and joins all threads |
| `MemContext` (mem_context.hpp) | `chunks[]`, atomics `chunks_count`, `chunks_completed` | `add_chunk`, `set_completed`, `get_chunk` | driver writes, nine counters read |
| `MemCounter` x 8 (mem_counter.hpp) | `addr_count_table`, `addr_slots`, `free_slot`, page limits | `execute`, `execute_chunk`, `count_aligned`, `get_initial_pos`, `get_next_pos`, the address map | written by its own thread, read by the planners after the join |
| `MemAlignCounter` (mem_align_counter.hpp) | `checkpoints`, `available_rows`, `segment_id`, `skip` | `execute_chunk`, `add_mem_align_op`, `open_chunk`, `open_segment` | thread of its own |
| `MemPlanner` as quick planner (mem_planner.hpp) | `rows_available` | `generate_locators` | pushes into `MemLocators` |
| `MemLocators` (mem_locators.hpp) | `locators[]`, atomics `write_pos`, `read_pos`, `completed` | `push_locator`, `get_locator`, `set_completed` | one writer, sixteen readers |
| `MemPlanner` x 16 | `current_segment`, `rows_available` | `get_next_locator`, `execute_from_locators`, `execute_from_locator`, `add_chunk` | claim locators, fill `MemSegments` |
| `ImmutableMemPlanner` x 2 (immutable_mem_planner.hpp) | `segments`, `current_segment`, the reference, `last_addr` | `execute`, `add_to_current_segment`, `add_intermediates`, `preopen_segment`, `add_rows`, `close_last_segment` | ROM and input pages, a thread each |
| `MemSegments`, `MemSegment`, `MemCheckPoint` | map id -> segment under a mutex; per segment map chunk -> check point | `set`, `add_or_update`, `add_rows` | filled by the planners |

The driver loads the files, starts the orchestrator thread and hands it one
chunk every 350 us.  In the **count phase** nine threads read every chunk as it
comes.  When all are joined the **plan phase** starts nineteen threads that
read the counters' tables; sixteen of them wait for locators that another one
is still generating.

What is hard here: the lock-free hand-over of chunks and locators and the way
the readers learn that nothing more will come; hand-made linked storage with
positions that double as marks; two pieces of code (quick planner and segment
planners) that must agree to the row about where segments begin although they
see different parts of the data; boundaries of blocks, offsets, pages, segments
and regions; two phases that share memory without a lock and are kept apart by
joins alone; a trace whose format has to be guessed from its first access, in
files that may be missing or short.  Nothing is persisted, and no message can
be lost; there is no crash recovery to model.

What makes each component correct:

- hand-over of chunks: every counter sees every chunk, once, in order, and ends;
- counters: each word touched by an access is counted by exactly one thread
  under an offset that leads back to its address; per word the chunks in order
  with their rows; blocks never shared, walks complete, page limits exact;
- locators: each claimed once, each built, filed under its own number; all
  planners end;
- RAM plan: segment *k* is rows *k*·RAM_ROWS … of the list of rows in the order of
  addresses, whoever builds it;
- ROM and input plan: the same for the layout with gaps, closed exactly once;
- unaligned accesses: the check points tile the trace and segments are full;
- the program: a planning thread sees the tables the counters have left and
  nothing earlier, no thread outlives the memory it uses, and it ends;
- the loader: a trace that is understood is counted as it was recorded, and one
  that is misunderstood does not reach the plan.

PROJECT.json lists the hazards with their lines and the properties that watch
them.

## 2. The modules

| Module | Models | Specification of |
|---|---|---|
| `MemContext` | `MemContext`, `MemTest::execute`, the loop of both `execute` | driver and counters, one atomic access per action |
| `CountAndPlan` | `MemCountAndPlan`, the end of `MemTest::execute` and of `main` | the whole program after loading; composes `MemContext` and `MemLocators` |
| `TraceLoader` | `MemTest::load`, `load_from_compact_file`, `count_operations` | the loaded trace, in either format, from files read in part |
| `CountPhase` | both `execute_chunk`, the address map | the threads' views of the same accesses; extends `TraceLoader` |
| `AddrHistory` | what a counter promises: per word a list of (chunk, rows) | abstract specification |
| `AddrSlots` | `count_aligned`, blocks, table, limits, walks | the store; implements `AddrHistory` |
| `SegmentQueue` | what generator and planners promise each other: locators offered, taken and built in single steps | abstract specification |
| `MemLocators` | `MemLocators`, `get_next_locator`, `execute_from_locators`, `MemSegments::set` | generator and planners, one atomic access per action; implements `SegmentQueue` |
| `CounterScan` | the loops over pages, offsets and threads, `to_page`, `get_offset_limits` | operators shared by the two plans |
| `MemSegment` | `MemSegment`, `MemCheckPoint` | operators shared by the two plans |
| `Accumulation` | sums and concatenations along a sequence | recursive functions that the store, the plans and the unaligned accesses are compared with |
| `RamPlan` | `generate_locators`, `execute_from_locator`, `add_chunk` | the two-level plan |
| `ImmutablePlan` | `ImmutableMemPlanner` | the plan with gaps, one loop iteration per action |
| `MemAlign` | `MemAlignCounter` | the plan of unaligned accesses |
| `MC*` | constants for TLC | |
| `CountAndPlanProofs`, `MemLocatorsProofs`, `CountPhaseProofs`, `AddrSlotsProofs`, `RamPlanProofs`, `ImmutablePlanProofs`, `MemAlignProofs`, `AccumulationProofs` | | theorems |

How the pieces fit.  `CountAndPlan` extends `MemContext` (the driver and the
counters are its processes, with the guard that the orchestrator has started
them) and takes `MemLocators` with `INSTANCE` for the generator and the planners.
A counter's tables are named by the chunks it has counted; `tables_read` collects
the contents any planning thread has worked from.  `MemContext` by itself shows that a counter goes over a prefix of
the trace in order; `CountPhase` takes that as its order of chunks and shows
what the threads make of the accesses, against the bytes of the accesses and as
steps of `AddrHistory` (one copy per thread, `INSTANCE ... WITH`).  `AddrSlots`
is the detailed store for a few words and implements `AddrHistory` under the
refinement mapping that reads the chain along its ring.  `RamPlan` and
`ImmutablePlan` start from arbitrary tables of such histories, which do not
change any more; that they do not is `PlannedFromFinalTables` of `CountAndPlan`.
`RamPlan` has the locators without their concurrency, `MemLocators` the
concurrency without what is in a locator: a locator is its rank, and it is
never changed once written.

What the code writes twice is modelled twice.  The address map is three tables in
the code: `PagesAt` is the switch of `addr_to_offset`, `PageToAddr` the one of
`page_to_addr`, and that they are inverse is a lemma; `addr_to_page` is called by the
constructors of the planners alone and stands in `CounterScan` (`ToPage`).  `CounterScan` is the
scan of the quick planner and of the immutable planner; the segment planner
begins in the middle of it with loops of its own (mem_planner.hpp:159-221), which
`RamPlan` has as `ScanFrom`: `to_page`, the page limits and the page, offset and
thread of the first iteration are taken there from the locator.

Correspondence.  Variables have the names of the members they model; actions
the names of the functions, or of the part of a function up to the next atomic
access.  `pc`, `driver`, `orchestrator`, `generator`, `attempt` and `entry` are program counters
and the position in the nested loops; `counted`, `history` and `walk` name data
the properties speak about.  PROJECT.json `map` gives the lines.

Memory model.  The program is built for x86 (`-mavx2`).  Loads are not
reordered, and plain stores become visible before the atomic store after them;
an action is therefore one atomic access with the thread-local work behind it.
`push_locator` publishes with a relaxed store (mem_locators.hpp:40): on x86,
with the order of the stores kept by the compiler, this is what is modelled; a
weaker machine is not.  `compare_exchange_weak` does not fail spuriously on x86.

## 3. The runs

| Run | Question | Bounds |
|---|---|---|
| `count_and_plan` | may a counter skip, repeat or read an unwritten chunk; do the joins keep the phases apart and threads off freed memory; does the program end; which counter can fall short | 2 counters, 4 files, 3 entries of `chunks[]`, 2 planners, 2 locators, 2 immutable planners |
| `context_lost` (violation) | does every counter count the whole trace | 2 counters, 2 chunks |
| `count_phase` | is every word of an access counted once and found again, in either format and from files read in part; is a misread trace stopped | 2 threads, pages of 4 words, traces of up to 2 + 1 accesses out of seven kinds, of two kinds in the old format and in directories read in part |
| `count_format` (violation) | does every access that is handed over satisfy the assertion of `MemAlignCounter` | traces in the old format of up to 2 + 1 accesses |
| `slots` | are chains complete, walks right, blocks never shared, totals and page limits exact; refinement of `AddrHistory` | 3 words in 2 pages, 5 chunks, counts 1 and 2, blocks of 2 entries, 4 blocks |
| `slots_walk` (violation) | does the walk have the rows of the table | 1 word |
| `locators` | claimed once, none lost, right number; do planners leave and drain the queue; refinement of `SegmentQueue` with its fairness | 3 planners, 3 locators |
| `locators_lost` (violation) | is every locator built | 2 planners, 2 locators |
| `ram_plan` | do locators mark the boundaries and are segments the slices between them | 4 walks over 6 words, segments of 3 rows |
| `ram_plan_region` (violation) | are all rows of the region planned | 6 words in 3 pages |
| `immutable_plan` | are gaps and entries laid out without loss, and check points those of the layout | 4 walks over 6 words, segments of 2 rows |
| `mem_align` | do check points tile the trace and fill segments | traces of up to 6 accesses in 4 chunks, segments of 8 rows |

Why the bounds suffice.  Counters share nothing they write, so two show every
interleaving with the driver and with each other; two planners and two locators
(three in `locators`) are enough for the joins, which ask only whether a thread
is left; more files than entries of `chunks[]` makes the load stop at the bound, and
`ProgramTypeOK` notices if it does not.
Three planners can lose a compare-exchange to one another in turn, and three locators
leave one to be pushed while others are claimed.  A chain behaves
differently with one, two and three blocks, and blocks of three words interleave
in all orders; both blocks and chunks run out.  `BlocksPartitioned` also says that
the store gives up only when every block is in a chain, the last one included.  A word takes at most `MaxRows`
rows, so that one word has the long chain and the others get into its way.
Uninitialised memory (`Garbage`) is a zeroed page or an access of either format:
what matters of it is how it looks to the format test and whether its address
and bytes can be counted.  `OperationsConserved` compares the rows counted with the
accesses as they were recorded, in either format, and with what `load` has added up
in the new one; a trace in the old format is added up before it is converted
(mem_test.hpp:58, 61-71), so that figure says nothing there.  Flags in the old format have nothing in bits 0 to
26: the conversion drops them, and no file in that format is in the repository
to say otherwise.  In the plans an entry is
shorter than a segment, ends with it, crosses it, and spans several; gaps
likewise; a page may be empty, and the last page is not scanned.  `MaxRows`
and the sets of walks and traces are the only bounds that are not
constants of the program; they stand in the guards or in the MC modules.

Deadlock is checked in every run: every specification has a `Finished` (or
`ProgramEnded`) step that is enabled only when the threads have ended.

### Fairness

Liveness is checked under `FairSpec` (of `MemLocators`) and `FairProgramSpec`: weak
fairness for the driver, the orchestrator, the generator and each thread; a
join is a step that is enabled when the threads it waits for have ended.  The
threads never wait for a lock that is held across a step (the mutex of `MemSegments` is held for one insertion), they poll
with `usleep`, and the operating system runs every runnable thread again and
again; this is all weak fairness says.  Nothing is assumed about speed or about
who wins a compare-exchange.

### Findings

1. `context_lost` - `get_chunk` (mem_context.hpp:37-45) loads `chunks_count`, then
   `chunks_completed`.  A counter descheduled between the two while the driver
   adds its last chunks and completes returns without them.  `LateReaderCountsAll`
   (holds) says that this is the only way to fall short.
2. `locators_lost` - `get_next_locator` (mem_planner.hpp:114-130) leaves after an
   empty look, a sleep and a look at `completed`.  Locators pushed during the
   sleep are lost when all planners are in it.  `DrainedAfterCompletion` (holds)
   says that one planner still working or starting over is enough.
3. `slots_walk` - `get_initial_pos` (mem_counter.hpp:159) takes the second block of the
   chain that begins at block 0 for a first one, so that the planners miss the
   rows of its first block while the chain has two.  `WalkIsChain` (holds) says
   that this is the only wrong walk.
4. `ram_plan_region` - the last page of a region is never planned
   (mem_planner.hpp:95 against 171 and 240; likewise immutable_mem_planner.hpp:78, 103).

5. `count_format` - `load` (mem_test.hpp:63) looks for the old format in bits 24 to
   27 of the first access, where that format has only the write bit (27); its
   bytes are in bits 28 to 31 (mem_test.hpp:69, mask `0xF0000000`).  A trace that
   begins with a read is not converted, and the first access stops the program
   at the assertion of mem_align_counter.hpp:55.  `MisreadTraceStopped` (holds)
   says that the assertion does stop every such trace; a build with `NDEBUG`
   would plan it.

The other properties hold.  Four oddities are modelled as they are: a locator
too many when the rows fill their segments exactly, the position of the first
locator (that of the newest entry, which the planner of segment 0 replaces), the extra row with which `preopen_segment` announces the entry behind a gap, and
`debug_row` of a RAM segment, which is too high by the rows of its first entry
(mem_segment.hpp:117 adds to `tot_count` what `add_or_update` has added).

## 4. The proofs

For every value of the constants that satisfies the assumptions in the modules:

- `CountAndPlanProofs`, the hand-over of chunks (the specification of
  `MemContext`): `CountsAPrefix`.  The inductive invariant adds that the published
  entries of `chunks[]` hold their own number (also the one about to be published)
  and that a counter about to execute has a cursor below `chunks_count`; without
  it the entry read could be anything.  `LateReaderMissesNothing` is the safety half
  of `LateReaderCountsAll`: a counter that has not looked at `chunks_count` for the
  last time when `chunks_completed` is set cannot return short.  From then on
  `ShortOfNothing` is stable: `chunks_count` is final, so an empty look means that
  the counter has everything.
- `MemLocatorsProofs`: types, `ClaimedOnce`, `ClaimsAccountedFor`, `SegmentHasItsLocator`.
  The inductive invariant is their conjunction with: entries below `write_pos`
  are written, a planner's copy of `read_pos` is not ahead of it, and a planner
  before the compare-exchange has seen a `write_pos` above its copy.  A successful
  compare-exchange then claims a written entry nobody holds.  From the same
  invariant: `MemLocators` implements `SegmentQueue` (`RefinesQueue`); what is offered
  and taken are `write_pos` and `read_pos`, and a step is one of the abstract queue
  only at the store of `write_pos`, at `completed`, at a successful compare-exchange,
  at the filing of a segment and at the exit of a planner.
  `LateStarterMissesNothing` is the safety half of `DrainedAfterCompletion`, and says
  when `EveryLocatorPlanned`, which the code does not provide, does hold: if one
  planner is working or starting over when `completed` is set, the planners cannot
  all leave with a locator unplanned.  From then on the queue is empty or some
  planner has seen it non-empty or is still to look (`Draining`); when all have
  left it is empty, and by `ClaimsAccountedFor` every locator has its segment.
- `CountAndPlanProofs`, the program: `ProgramTypeOK`, `PlannedFromFinalTables`,
  `SegmentsFiledInTime`, `NothingRunsAfterMain`, `CountsAPrefix`, and that the program
  implements the specifications of `MemContext` and of `MemLocators`.  Every step is a
  step of `MemContext`, a step of `MemLocators`, or leaves the variables of either
  alone, so both inductive invariants carry over as they are.  What is added is
  `Phases`: each value of `orchestrator` and `main` tells which threads have ended.
  A counter that has returned takes no step, so the tables stay what they were at
  the first read.
- `CountPhaseProofs`: types, `TableIsTrace`, `MisreadTraceStopped`, `StoresHistories`,
  `OperationsConserved`.
  First the arithmetic: the pages of `addr_to_offset` are those of `page_to_addr`
  (`PagesOfKey`), and `AddrToOffset` and `OffsetToAddr` are inverse on the words
  of a thread, because the map divides by `Threads * 8` and the address selects
  the remainder (`AddrOfItsOffset`, `OffsetOfItsAddr`); an access touches its own word and, if it
  crosses into it, the next one, whose thread is another (`WordsTouched`).  The
  inductive invariant says, next to `TableIsTrace`, what `load` has left in memory
  (`LoadedIs`: the accesses read from the file, in either format, and behind them what was there),
  that the counters have not begun before it returns (`NotStarted`), that no entry is of a later
  chunk than the one its counter is in (`EntriesBehind`; without it an access
  could raise an entry that is not its own), and that what `MemAlignCounter` has
  gone through has passed its assertion (`AlignPassed`), from which a misread
  trace is not got through.  `OperationsConserved` has an invariant of its own
  (`RowsSummed`): the rows stored by a thread, like the two counts of
  `MemAlignCounter`, are a sum over the accesses it has gone through
  (`CountAccessStores` says so of one access and one thread).  At the end all have
  gone through all of them; the sum over threads of sums over accesses is the sum
  over accesses of sums over threads (`TotalExchange`), and what the threads store
  for one access, in whichever format it was recorded, is `CountOperations` of it, because its two words have two owners
  (`AccessRows`).
- `AddrSlotsProofs`: types, `WalkIsChain`, `BlocksPartitioned`, `CountIsChainTotal`,
  `LimitsAreTight`, the refinement of `AddrHistory` (`ImplementsHistory`), that the
  histories of `AddrHistory` list strictly increasing chunks (`AbstractInOrder`), and
  through the refinement that the chunks along every chain do.  `Chain` is what the walk over
  the links of the slots finds, so the proof first says what a chain is (`IsChain`: the
  places of a ring of blocks, full but for the newest, whose positions determine
  the first block, the newest entry and the links), and that a call keeps the chains
  of other words (`SameChain`) and makes the one of its own word longer by one
  entry or raises its last one (`ChainGrows`).  The partition of the blocks is what
  keeps one word's write out of another's chain; a store that has given up has no
  slot left (`BlocksPartitioned`).
- `RamPlanProofs`: types, `LocatorsOnBoundaries`, `NoPlannerError`, `PlanCoversScan`,
  `SegmentsAreSlices`.  The first four follow from one inductive invariant: the rows
  of the entries gone through are those of the full segments and of the current
  one (`RowsAddUp`), and an entry of the scan stands where the tables have it
  (`ScanFaithful`).  That a segment is its slice is an induction along the
  segment planner's loop.  What its own loops come by, from the word of the locator
  on, is the rest of the scan (`ScanFromIsRest`, by `ConcatenationRest`), so the induction
  goes along the scan although the planner never sees its beginning.  The locator leads to the first row of the slice
  (`BeginsAt`), and after every entry the planner has recorded, chunk by chunk, what
  the slice has up to it, with as much room left as the slice has rows to come
  (`Filled`).  `ScanOrdered` is needed because `add_rows` tells the words of a chunk
  apart by their address: a word must not come back within a chunk.
- `ImmutablePlanProofs`: types, `RowsAccountedFor`, `PlanCoversScan`, `SegmentsAreSlices`.
  The inductive
  invariant says what the planner carries from one call to the next: `last_addr` is
  the word of the entry before, an entry that is being laid out has rows left, and
  its reference is set.  A segment that is exactly full at the end is closed once.
  `SegmentsAreSlices` has a second invariant on top of it (`PlanInv`): the current
  segment holds what its slice has up to the entry before, or up to this one once
  its rows are counted (`CurrentHolds`), and a segment that `consume_rows` has opened
  inside of an entry has the place but none of the rows yet (`Resumed`).  The
  reference and the number of intermediate rows are carried along from the entry
  they belong to (`CarriedAlong`), and, as in `RamPlan`, no word comes back within a
  chunk (`ScanOrdered`).
- `MemAlignProofs`: types, `CheckPointsTileTrace`, `SegmentsPacked`.  The inductive
  invariant adds that the skip of the current chunk is the number of its unaligned
  accesses so far, that check points are in the order of the chunks, and that the
  rows of the open segment and `available_rows` are together a whole segment.
- `AccumulationProofs`: induction over naturals and over intervals as facts about sets
  (the library's induction takes an operator, which the provers cannot
  instantiate), that recursively defined functions exist, the laws of running
  totals, of concatenations (and of what is left of one from some element on) and of sums of sums, and that a non-empty finite set of
  naturals has a largest and a smallest member.

Each proof has one lemma per action, and the theorem combines them with the
temporal rule for invariants.

Assumed of the constants are the types (in `TraceLoader`, that files hold
accesses of 1, 2, 4 or 8 bytes, and memory an address and flags of 32 bits,
whatever they are), that there are two
counters at least, that a block of slots has an even number
of them, four at least, that a segment has room for an entry (one row; five in
`MemAlign`, the most an access takes), and in `CounterScan` that a walk lists its
chunks in order: a walk is a chain or one without its first block (`WalkIsChain`),
and chains are in order (`ChainsInOrder`).

Every safety invariant and every action property of the passing runs is proved.  Model-checked only: the
liveness properties (TLAPS has no fairness or ENABLED), with them that
`MemLocators` keeps the fairness `SegmentQueue` promises; and the runs that expect a
violation.

## 5. Not modelled

- `mem_planner_org.hpp` and the second half of main.cpp (after `#ifdef false`) are
  never compiled, tools.cpp is not in the Makefile's build, `CircularQueue` and
  `LockFreeRingBuffer` are not used.  They are earlier versions of code that is
  modelled, about a quarter of the lines.
- The hash table of mem_segment.hpp is constructed by `MemPlanner` and not used
  in this configuration; the branches without `MEM_CHECK_POINT_MAP` do not compile.
- Three throws that cannot be reached: `get_initial_pos` out of bounds
  (mem_counter.hpp:154), excluded by `TypeOK` of `AddrSlots`; more rows than there is
  room for in `consume_rows` and `consume_intermediate_rows` (immutable_mem_planner.hpp:220,
  237): both are called with a minimum of `rows_available`.
- Printing and timing, with what only feeds them: `elapsed`, `locators_done`,
  `max_chunks`, `tot_chunks`, `large_segments`, `queue_full`, `stats`.
- `MemContext::clear` and `destroy_mem_count_and_plan` are never called.
- Weaker memory models than that of x86 (see section 2), and a trace with more
  segments than `MAX_LOCATORS`: `push_locator` has no check, and the number of
  locators is assumed to fit.

## 6. Plan

Done: `MemContext`, `MemLocators`, `AddrHistory`, `AddrSlots`, `CounterScan`, `MemSegment`,
`RamPlan`, `ImmutablePlan`, `CountPhase`, `MemAlign`, in this order of importance, then
`CountAndPlan`, `TraceLoader` and `SegmentQueue`, with the proofs above.

Next modules: a planner's step of `RamPlan` under the concurrency of `MemLocators`
(the composed plan implements the sequential one).
