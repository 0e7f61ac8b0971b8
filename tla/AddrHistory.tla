----------------------------- MODULE AddrHistory -----------------------------
(***************************************************************************)
(* What a MemCounter promises the planners about the words it counts: for  *)
(* each table offset the list of the chunks that touched it, in trace      *)
(* order, with the rows each of them adds.  There is no notion of slot,    *)
(* block or position here; AddrSlots is the store that implements it.      *)
(***************************************************************************)
EXTENDS Naturals, Sequences

CONSTANTS
  Offsets,    \* the offsets of addr_count_table this counter is asked about
  NumChunks,  \* chunks of the trace
  Ops         \* how many rows one access may add

Entries == [chunk : 0 .. NumChunks - 1, count : Nat \ {0}]

VARIABLES
  current_chunk,  \* the chunk execute_chunk is running on
  history         \* offset -> sequence of entries

vars == <<current_chunk, history>>

Init ==
  /\ current_chunk = 0
  /\ history = [o \in Offsets |-> <<>>]

(* execute returns to get_chunk and goes on with the following chunk.      *)
NextChunk ==
  /\ current_chunk + 1 < NumChunks
  /\ current_chunk' = current_chunk + 1
  /\ UNCHANGED history

(* The newest entry of the word is of the current chunk.                   *)
Touched(o) ==
  history[o] # <<>> /\ history[o][Len(history[o])].chunk = current_chunk

(* A further access in the chunk that touched the word last.               *)
Extend(o, n) ==
  /\ Touched(o)
  /\ history' = [history EXCEPT ![o][Len(history[o])].count = @ + n]
  /\ UNCHANGED current_chunk

(* The first access of a chunk to the word.                                *)
Start(o, n) ==
  /\ ~Touched(o)
  /\ history' = [history EXCEPT ![o] = Append(@, [chunk |-> current_chunk, count |-> n])]
  /\ UNCHANGED current_chunk

Next == NextChunk \/ \E o \in Offsets, n \in Ops : Extend(o, n) \/ Start(o, n)

Spec == Init /\ [][Next]_vars

-----------------------------------------------------------------------------
(* Every history is a sequence of entries with positive counts.            *)
TypeOK ==
  /\ current_chunk \in 0 .. NumChunks - 1
  /\ history \in [Offsets -> Seq(Entries)]

(* A history lists its chunks in strictly increasing order and none that   *)
(* has not started: the order generate_locators numbers the rows in.       *)
ChunksInOrder ==
  \A o \in Offsets :
    /\ \A i, j \in DOMAIN history[o] : i < j => history[o][i].chunk < history[o][j].chunk
    /\ \A i \in DOMAIN history[o] : history[o][i].chunk <= current_chunk

=============================================================================
