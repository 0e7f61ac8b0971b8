----------------------------- MODULE TraceLoader -----------------------------
(***************************************************************************)
(* MemTest::load (mem_test.hpp) with load_from_compact_file and            *)
(* count_operations (tools.hpp): the chunk files of a directory are read   *)
(* one after the other into the chunks that execute hands over.            *)
(*                                                                         *)
(* A trace is recorded in one of two formats.  The new one has the bytes   *)
(* of an access in bits 0 to 15 of its flags and the write bit from bit 16 *)
(* on; the old one has the bytes in bits 28 to 31 and the write bit in     *)
(* bit 27.  Flags are modelled by their two 16-bit halves.  The            *)
(* arithmetic of load is on them, so that reading a trace in the wrong     *)
(* format gives what it gives in the program.                              *)
(*                                                                         *)
(* Directories that are read in part are modelled too: a file that cannot  *)
(* be opened, measured or read ends the trace, and one that is read short  *)
(* leaves what malloc returned at the end of its chunk.                    *)
(***************************************************************************)
EXTENDS Integers, Sequences, SequencesExt, Accumulation

CONSTANTS
  Directories,  \* the trace directories: a format, and files of accesses
  MaxChunks,    \* MAX_CHUNKS
  Garbage       \* what uninitialised memory may hold where an access is expected

Access == [addr : Nat, bytes : {1, 2, 4, 8}, write : BOOLEAN]
Half == {n \in Nat : n < 65536}
Raw == [addr : Nat, flags : [high : Half, low : Half]]

(* `got' accesses of a file are read; -1 when load_from_compact_file fails. *)
ASSUME LoaderAssumption ==
  /\ MaxChunks \in Nat \ {0}
  /\ Garbage # {} /\ Garbage \subseteq Raw
  /\ \A d \in Directories :
       /\ d.format \in {"new", "old"}
       /\ \A i \in DOMAIN d.files :
            /\ d.files[i].accesses \in Seq(Access)
            /\ d.files[i].got \in -1 .. Len(d.files[i].accesses)

VARIABLES
  directory,  \* what argv[1] names
  loaded,     \* MemTest::chunks
  convert,    \* the trace is taken for one in the old format
  tot_ops,    \* operations by count_operations, of the flags as they were read
  loading     \* load has not returned

loader_vars == <<directory, loaded, convert, tot_ops, loading>>

LoaderInit ==
  /\ directory \in Directories
  /\ loaded = <<>>
  /\ convert = FALSE
  /\ tot_ops = 0
  /\ loading = TRUE

-----------------------------------------------------------------------------
(* Flags                                                                   *)

Bit(b) == IF b THEN 1 ELSE 0

(* MemCountersBusData, as the two kinds of recorder have written it.       *)
Record(format, a) ==
  [addr |-> a.addr,
   flags |-> IF format = "new"
               THEN [high |-> Bit(a.write), low |-> a.bytes]
               ELSE [high |-> a.bytes * 4096 + Bit(a.write) * 2048, low |-> 0]]

(* flags & 0xF000000                                                       *)
LooksOld(flags) == (flags.high \div 256) % 16 # 0

(* ((flags & 0x08000000) >> 11) | ((flags & 0xF0000000) >> 28)             *)
Converted(flags) == [high |-> (flags.high \div 2048) % 2, low |-> flags.high \div 4096]

(* count_operations on one access.                                         *)
CountOperations(r) ==
  LET bytes  == r.flags.low % 16
      offset == r.addr % 8
      write  == r.flags.high % 2 = 1
  IN  IF offset = 0 /\ bytes = 8 THEN 1
      ELSE (IF offset + bytes > 8 THEN 2 ELSE 1) * (IF write THEN 2 ELSE 1)

SumOver(sequence, value(_)) == Total([i \in DOMAIN sequence |-> value(sequence[i])])

-----------------------------------------------------------------------------
NextFile == Len(loaded) + 1

(* The condition of load's loop: room, and a file that can be read.        *)
Loadable ==
  /\ Len(loaded) < MaxChunks
  /\ NextFile \in DOMAIN directory.files
  /\ directory.files[NextFile].got >= 0

(* load_from_compact_file: the size of the chunk is that of the file,      *)
(* however much of it has been read.                                       *)
ChunksFrom(file) ==
  LET read == [i \in 1 .. file.got |-> Record(directory.format, file.accesses[i])]
  IN  {read \o rest : rest \in [1 .. Len(file.accesses) - file.got -> Garbage]}

(* chunk_data[0], also of a chunk without accesses.                        *)
FirstOf(chunk) == IF chunk = <<>> THEN Garbage ELSE {Head(chunk)}

(* A pass of load's loop: operations are counted, the format is decided,   *)
(* and the chunk is converted in place.                                    *)
LoadChunk ==
  /\ loading
  /\ Loadable
  /\ \E chunk \in ChunksFrom(directory.files[NextFile]) :
       \E first \in FirstOf(chunk) :
         /\ convert' = (convert \/ (loaded = <<>> /\ LooksOld(first.flags)))
         /\ loaded' = Append(loaded,
              IF convert' THEN [i \in DOMAIN chunk |->
                                  [chunk[i] EXCEPT !.flags = Converted(@)]]
                          ELSE chunk)
         /\ tot_ops' = tot_ops + SumOver(chunk, CountOperations)
  /\ UNCHANGED <<directory, loading>>

LoadEnds ==
  /\ loading
  /\ ~Loadable
  /\ loading' = FALSE
  /\ UNCHANGED <<directory, loaded, convert, tot_ops>>

Load == LoadChunk \/ LoadEnds

-----------------------------------------------------------------------------
(* The types of the loader's state.                                        *)
LoaderTypeOK ==
  /\ directory \in Directories
  /\ loaded \in Seq(Seq(Raw))
  /\ Len(loaded) <= MaxChunks
  /\ convert \in BOOLEAN
  /\ tot_ops \in Nat
  /\ loading \in BOOLEAN

(* The format has been recognised.                                         *)
Understood == convert = (directory.format = "old")

(* The chunks whose file has been read to its end.                         *)
IntactChunks ==
  {c \in DOMAIN loaded : directory.files[c].got = Len(directory.files[c].accesses)}

=============================================================================
