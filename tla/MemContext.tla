----------------------------- MODULE MemContext -----------------------------
(***************************************************************************)
(* The hand-over of trace chunks from the driver to the counting threads:  *)
(* class MemContext (mem_context.hpp), the producer loop of MemTest        *)
(* (mem_test.hpp) and the consumer loop shared by MemCounter::execute and  *)
(* MemAlignCounter::execute.                                               *)
(*                                                                         *)
(* The array chunks[] is append-only and is written by one thread.  Each   *)
(* counting thread owns a private cursor chunk_id and reads every chunk.   *)
(* An action is one atomic load or store together with the thread-local    *)
(* work that follows it, so that get_chunk's two loads (of chunks_count    *)
(* and of chunks_completed) are two steps between which the producer runs. *)
(*                                                                         *)
(* The build is for x86 (-mavx2): loads stay in program order and a plain  *)
(* store is visible before the atomic store that follows it, which the     *)
(* acquire/release pair of chunks_count also guarantees by itself.         *)
(***************************************************************************)
EXTENDS Naturals, Sequences

CONSTANTS
  Counters,   \* the MAX_THREADS MemCounter threads and the MemAlignCounter one
  NumFiles,   \* how many chunk files the trace directory holds
  MaxChunks,  \* MAX_CHUNKS, the capacity of chunks[]
  NoChunk     \* the content of an entry of chunks[] nobody has written

ASSUME ContextAssumption ==
  /\ Counters # {}
  /\ NumFiles \in Nat
  /\ MaxChunks \in Nat
  /\ NoChunk \notin Nat

Entries == 0 .. MaxChunks - 1

(* Mutant: MemTest::load goes on while there are files.                    *)
NumChunksUnlimited == NumFiles

(* MemTest::load stops at the first missing file or at MAX_CHUNKS chunks:  *)
(* add_chunk itself does not look at the capacity of chunks[].             *)
NumChunks == IF NumFiles < MaxChunks THEN NumFiles ELSE MaxChunks

ChunkIds == 0 .. NumChunks - 1

VARIABLES
  chunks,           \* the array; a chunk's data is named by its position in the trace
  chunks_count,     \* atomic: entries published so far
  chunks_completed, \* atomic: no further chunk will come
  driver,           \* where the producer is: "write", "publish" or "wait"
  pc,               \* where each counter is inside its get_chunk / execute_chunk loop
  chunk_id,         \* each counter's cursor
  counted           \* the data each counter has run execute_chunk on, in order

vars == <<chunks, chunks_count, chunks_completed, driver, pc, chunk_id, counted>>

Init ==
  /\ chunks = [i \in Entries |-> NoChunk]
  /\ chunks_count = 0
  /\ chunks_completed = FALSE
  /\ driver = "write"
  /\ pc = [w \in Counters |-> "load_count"]
  /\ chunk_id = [w \in Counters |-> 0]
  /\ counted = [w \in Counters |-> <<>>]

-----------------------------------------------------------------------------
(* The producer: MemTest::execute calls add_chunk for every loaded chunk,  *)
(* then set_completed, then waits.                                         *)

(* add_chunk, first half: the plain stores into chunks[chunks_count].      *)
AddChunkWrite ==
  /\ driver = "write"
  /\ chunks_count < NumChunks
  /\ chunks' = [chunks EXCEPT ![chunks_count] = chunks_count]
  /\ driver' = "publish"
  /\ UNCHANGED <<chunks_count, chunks_completed, pc, chunk_id, counted>>

(* add_chunk, second half: the release store that publishes the entry.     *)
AddChunkPublish ==
  /\ driver = "publish"
  /\ chunks_count' = chunks_count + 1
  /\ driver' = "write"
  /\ UNCHANGED <<chunks, chunks_completed, pc, chunk_id, counted>>

(* Mutant: completion is announced while the last chunk is still to come.  *)
AllAddedButOne == chunks_count + 1 >= NumChunks

(* The producer's loop has run over the whole trace.                       *)
AllAdded == chunks_count = NumChunks

SetCompleted ==
  /\ driver = "write"
  /\ AllAdded
  /\ chunks_completed' = TRUE
  /\ driver' = "wait"
  /\ UNCHANGED <<chunks, chunks_count, pc, chunk_id, counted>>

-----------------------------------------------------------------------------
(* A counter w: while ((chunk = get_chunk(chunk_id)) != nullptr)           *)
(*                execute_chunk(chunk_id++, ...).                          *)

(* The negation of get_chunk's loop condition.                             *)
Published(id) == id < chunks_count

(* get_chunk: load chunks_count and compare it with the cursor.            *)
LoadCount(w) ==
  /\ pc[w] = "load_count"
  /\ pc' = [pc EXCEPT ![w] = IF Published(chunk_id[w]) THEN "execute"
                                                       ELSE "load_completed"]
  /\ UNCHANGED <<chunks, chunks_count, chunks_completed, driver, chunk_id, counted>>

(* Mutant: get_chunk keeps polling after completion.                       *)
AfterLoadCompletedNoReturn == "load_count"

(* get_chunk: nullptr when completed, else usleep(1) and once more.        *)
AfterLoadCompleted == IF chunks_completed THEN "returned" ELSE "load_count"

LoadCompleted(w) ==
  /\ pc[w] = "load_completed"
  /\ pc' = [pc EXCEPT ![w] = AfterLoadCompleted]
  /\ UNCHANGED <<chunks, chunks_count, chunks_completed, driver, chunk_id, counted>>

(* Mutant: the thread forgets ++chunk_id.                                  *)
NextChunkIdStuck(id) == id

NextChunkId(id) == id + 1

(* execute_chunk on the entry get_chunk returned, then ++chunk_id.         *)
ExecuteChunk(w) ==
  /\ pc[w] = "execute"
  /\ counted' = [counted EXCEPT ![w] = Append(@, chunks[chunk_id[w]])]
  /\ chunk_id' = [chunk_id EXCEPT ![w] = NextChunkId(@)]
  /\ pc' = [pc EXCEPT ![w] = "load_count"]
  /\ UNCHANGED <<chunks, chunks_count, chunks_completed, driver>>

-----------------------------------------------------------------------------
Driver == AddChunkWrite \/ AddChunkPublish \/ SetCompleted

Counter(w) == LoadCount(w) \/ LoadCompleted(w) \/ ExecuteChunk(w)

(* All counters joined: the count phase is over.                           *)
CountPhaseOver == driver = "wait" /\ \A w \in Counters : pc[w] = "returned"

Finished == CountPhaseOver /\ UNCHANGED vars

Next == Driver \/ (\E w \in Counters : Counter(w)) \/ Finished

(* The operating system runs every runnable thread again and again.        *)
Fairness == WF_vars(Driver) /\ \A w \in Counters : WF_vars(Counter(w))

Spec == Init /\ [][Next]_vars

FairSpec == Spec /\ Fairness

-----------------------------------------------------------------------------
(* Properties                                                              *)

(* The types of the shared and of the thread-local variables: nothing is   *)
(* published behind the capacity of chunks[], a cursor stays inside of it, *)
(* and only data of the trace is ever counted.                             *)
TypeOK ==
  /\ chunks \in [Entries -> ChunkIds \cup {NoChunk}]
  /\ chunks_count \in 0 .. NumChunks
  /\ chunks_count <= MaxChunks
  /\ chunks_completed \in BOOLEAN
  /\ driver \in {"write", "publish", "wait"}
  /\ pc \in [Counters -> {"load_count", "load_completed", "execute", "returned"}]
  /\ chunk_id \in [Counters -> 0 .. NumChunks]
  /\ counted \in [Counters -> Seq(ChunkIds)]

(* Whatever the interleaving of the producer with get_chunk's two loads,   *)
(* every counter has run execute_chunk on exactly the first chunk_id       *)
(* chunks of the trace, in trace order, each once and never on an entry    *)
(* that add_chunk has not finished writing.                                *)
CountsAPrefix ==
  \A w \in Counters :
    /\ Len(counted[w]) = chunk_id[w]
    /\ \A i \in 1 .. Len(counted[w]) : counted[w][i] = i - 1

(* A counter that is about to load chunks_count, or to execute a chunk,    *)
(* when chunks_completed is already set counts the whole trace before it   *)
(* returns: only a counter caught between get_chunk's two loads can fall   *)
(* short.                                                                  *)
LateReaderCountsAll ==
  \A w \in Counters :
    (chunks_completed /\ pc[w] \in {"load_count", "execute"})
      ~> (pc[w] = "returned" /\ Len(counted[w]) = NumChunks)

(* Every counting thread leaves its loop, so the joins of count_phase      *)
(* return.                                                                 *)
CountPhaseEnds == <>[]CountPhaseOver

(* What the driver in mem_test.hpp relies on: it hands over every chunk    *)
(* before set_completed and takes the joined result for the whole trace.   *)
(* get_chunk does not provide it.                                          *)
EveryCounterCountsAll ==
  \A w \in Counters : pc[w] = "returned" => Len(counted[w]) = NumChunks

=============================================================================
