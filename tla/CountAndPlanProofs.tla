------------------------- MODULE CountAndPlanProofs -------------------------
(***************************************************************************)
(* Proofs about MemContext and CountAndPlan, for any number of threads,    *)
(* chunks and locators.                                                    *)
(*                                                                         *)
(* CountsAPrefix is not inductive: that a counter appends the right datum  *)
(* rests on the entry at its cursor being written, hence on the cursor     *)
(* being below chunks_count when it executes, and on entries below         *)
(* chunks_count holding their own datum.                                   *)
(*                                                                         *)
(* A step of the program is a step of the hand-over of chunks, a step of   *)
(* the queue of locators, or neither: the invariants proved of the two     *)
(* carry over.  What the joins add is Phases: how far the orchestrator is  *)
(* tells which threads have ended, and a thread that has ended does not    *)
(* write its tables again.                                                 *)
(***************************************************************************)
EXTENDS TLAPS, CountAndPlan

-----------------------------------------------------------------------------
(* The hand-over of chunks                                                 *)

(* What add_chunk has published, or is about to publish, is written.       *)
PublishedWritten ==
  /\ \A i \in 0 .. chunks_count - 1 : chunks[i] = i
  /\ driver = "publish" => /\ chunks_count < NumChunks
                           /\ chunks[chunks_count] = chunks_count

(* get_chunk returns only entries below the published count.               *)
CursorPublished ==
  \A w \in Counters :
    /\ chunk_id[w] <= chunks_count
    /\ pc[w] = "execute" => chunk_id[w] < chunks_count

IInv == TypeOK /\ PublishedWritten /\ CursorPublished /\ CountsAPrefix

(* The chunks handed over fit into chunks[].                               *)
LEMMA NumChunksType == NumChunks \in Nat /\ MaxChunks \in Nat /\ NumChunks <= MaxChunks
  BY ContextAssumption DEF NumChunks

(* The empty log, with every cursor at its beginning, is consistent.       *)
LEMMA InitIInv == Init => IInv
<1> SUFFICES ASSUME Init PROVE IInv
  OBVIOUS
<1> USE NumChunksType DEF ChunkIds, Entries
<1>1. chunks = [i \in Entries |-> NoChunk] /\ chunks_count = 0
  BY DEF Init
<1>2. chunks_completed = FALSE /\ driver = "write"
  BY DEF Init
<1>3. pc = [w \in Counters |-> "load_count"] /\ chunk_id = [w \in Counters |-> 0]
  BY DEF Init
<1>4. counted = [w \in Counters |-> <<>>]
  BY DEF Init
<1>5. counted \in [Counters -> Seq(ChunkIds)]
  BY <1>4
<1>6. TypeOK
  <2>1. chunks \in [Entries -> ChunkIds \cup {NoChunk}]
    BY <1>1
  <2>2. /\ chunks_count \in 0 .. NumChunks /\ chunks_count <= MaxChunks
        /\ chunk_id \in [Counters -> 0 .. NumChunks]
    BY <1>1, <1>3
  <2> QED
    BY <1>2, <1>3, <1>5, <2>1, <2>2 DEF TypeOK
<1>7. PublishedWritten
  BY <1>1, <1>2 DEF PublishedWritten
<1>8. CursorPublished
  BY <1>1, <1>3 DEF CursorPublished
<1>9. CountsAPrefix
  <2>1. \A w \in Counters : Len(counted[w]) = 0
    BY <1>4
  <2> QED
    BY <1>3, <2>1 DEF CountsAPrefix
<1> QED
  BY <1>6, <1>7, <1>8, <1>9 DEF IInv

(* Every step of the driver and of the counters keeps the log and the      *)
(* cursors consistent.                                                     *)
LEMMA NextIInv == IInv /\ [Next]_vars => IInv'
<1> SUFFICES ASSUME IInv, [Next]_vars PROVE IInv'
  OBVIOUS
<1> USE NumChunksType, ContextAssumption DEF IInv, ChunkIds, Entries
<1>1. CASE AddChunkWrite
  <2> USE <1>1 DEF AddChunkWrite
  <2>1. TypeOK'
    BY DEF TypeOK
  <2>2. PublishedWritten'
    BY DEF TypeOK, PublishedWritten
  <2>3. CursorPublished'
    BY DEF CursorPublished
  <2>4. CountsAPrefix'
    BY DEF CountsAPrefix
  <2> QED
    BY <2>1, <2>2, <2>3, <2>4
<1>2. CASE AddChunkPublish
  <2> USE <1>2 DEF AddChunkPublish
  <2>1. TypeOK'
    BY DEF TypeOK, PublishedWritten
  <2>2. PublishedWritten'
    BY DEF TypeOK, PublishedWritten
  <2>3. CursorPublished'
    BY DEF TypeOK, CursorPublished
  <2>4. CountsAPrefix'
    BY DEF CountsAPrefix
  <2> QED
    BY <2>1, <2>2, <2>3, <2>4
<1>3. CASE SetCompleted
  BY <1>3 DEF SetCompleted, TypeOK, PublishedWritten, CursorPublished, CountsAPrefix
<1>4. ASSUME NEW w \in Counters, LoadCount(w) PROVE IInv'
  <2> USE <1>4 DEF LoadCount
  <2>1. TypeOK'
    BY DEF TypeOK
  <2>2. PublishedWritten'
    BY DEF PublishedWritten
  <2>3. CursorPublished'
    BY DEF TypeOK, CursorPublished, Published
  <2>4. CountsAPrefix'
    BY DEF CountsAPrefix
  <2> QED
    BY <2>1, <2>2, <2>3, <2>4
<1>5. ASSUME NEW w \in Counters, LoadCompleted(w) PROVE IInv'
  <2> USE <1>5 DEF LoadCompleted, AfterLoadCompleted
  <2>1. TypeOK'
    BY DEF TypeOK
  <2>2. CursorPublished'
    BY DEF TypeOK, CursorPublished
  <2> QED
    BY <2>1, <2>2 DEF PublishedWritten, CountsAPrefix
<1>6. ASSUME NEW w \in Counters, ExecuteChunk(w) PROVE IInv'
  <2> USE <1>6 DEF ExecuteChunk, NextChunkId
  <2>1. /\ chunk_id[w] \in 0 .. chunks_count - 1
        /\ chunks[chunk_id[w]] = chunk_id[w]
        /\ chunk_id[w] \in ChunkIds
        /\ counted[w] \in Seq(ChunkIds)
    BY DEF TypeOK, CursorPublished, PublishedWritten
  <2>2. TypeOK'
    BY <2>1 DEF TypeOK
  <2>3. PublishedWritten'
    BY DEF PublishedWritten
  <2>4. CursorPublished'
    BY <2>1 DEF TypeOK, CursorPublished
  <2>5. CountsAPrefix'
    <3> SUFFICES ASSUME NEW v \in Counters
                 PROVE  /\ Len(counted'[v]) = chunk_id'[v]
                        /\ \A i \in 1 .. Len(counted'[v]) : counted'[v][i] = i - 1
      BY DEF CountsAPrefix
    <3>1. CASE v # w
      BY <3>1 DEF TypeOK, CountsAPrefix
    <3>2. CASE v = w
      <4>1. counted'[w] = Append(counted[w], chunk_id[w]) /\ chunk_id'[w] = chunk_id[w] + 1
        BY <2>1 DEF TypeOK
      <4>2. /\ Len(counted[w]) = chunk_id[w]
            /\ \A i \in 1 .. Len(counted[w]) : counted[w][i] = i - 1
        BY DEF CountsAPrefix
      <4> QED
        BY <2>1, <3>2, <4>1, <4>2
    <3> QED
      BY <3>1, <3>2
  <2> QED
    BY <2>2, <2>3, <2>4, <2>5
<1>7. CASE UNCHANGED vars
  BY <1>7 DEF vars, TypeOK, PublishedWritten, CursorPublished, CountsAPrefix
<1> QED
  BY <1>1, <1>2, <1>3, <1>4, <1>5, <1>6, <1>7
     DEF Next, Driver, Counter, Finished

(* The strengthened invariant holds in every reachable state.              *)
THEOREM Invariance == Spec => []IInv
  BY InitIInv, NextIInv, PTL DEF Spec

(* Type correctness of the hand-over.                                      *)
THEOREM TypeCorrect == Spec => []TypeOK
<1>1. IInv => TypeOK
  BY DEF IInv
<1> QED
  BY <1>1, Invariance, PTL

(* Every counter has executed exactly the first chunk_id chunks of the     *)
(* trace, in order: get_chunk never skips, repeats or returns an unwritten *)
(* entry.                                                                  *)
THEOREM CountersCountPrefixes == Spec => []CountsAPrefix
<1>1. IInv => CountsAPrefix
  BY DEF IInv
<1> QED
  BY <1>1, Invariance, PTL

(* What get_chunk promises a counter that looks at the published count     *)
(* after completion: it may not yet have counted everything, but when it   *)
(* stops it has.                                                           *)
LateReader(w) == chunks_completed /\ pc[w] \in {"load_count", "execute"}
ShortOfNothing(w) ==
  chunks_completed /\ (pc[w] \in {"load_completed", "returned"} => chunk_id[w] = NumChunks)

(* Completion is announced when everything has been handed over.           *)
CompletedAll == chunks_completed => driver = "wait" /\ chunks_count = NumChunks

LEMMA CompletionFollowsAll == Spec => []CompletedAll
<1>1. Init => CompletedAll
  BY DEF Init, CompletedAll
<1>2. CompletedAll /\ [Next]_vars => CompletedAll'
  BY DEF CompletedAll, Next, Driver, AddChunkWrite, AddChunkPublish, SetCompleted, AllAdded,
         Counter, LoadCount, LoadCompleted, ExecuteChunk, Finished, vars
<1> QED
  BY <1>1, <1>2, PTL DEF Spec

LEMMA StaysShortOfNothing ==
  ASSUME NEW w \in Counters
  PROVE  IInv /\ CompletedAll /\ ShortOfNothing(w) /\ [Next]_vars => ShortOfNothing(w)'
<1> SUFFICES ASSUME IInv, CompletedAll, ShortOfNothing(w), [Next]_vars
             PROVE  ShortOfNothing(w)'
  OBVIOUS
<1>1. /\ chunks_completed /\ driver = "wait" /\ chunks_count = NumChunks
      /\ chunk_id[w] \in 0 .. NumChunks /\ NumChunks \in Nat
      /\ pc \in [Counters -> {"load_count", "load_completed", "execute", "returned"}]
      /\ chunk_id \in [Counters -> 0 .. NumChunks]
  BY NumChunksType DEF IInv, TypeOK, CompletedAll, ShortOfNothing
<1>2. CASE Driver
  BY <1>1, <1>2 DEF Driver, AddChunkWrite, AddChunkPublish, SetCompleted
<1>3. ASSUME NEW v \in Counters, LoadCount(v) PROVE ShortOfNothing(w)'
  <2>1. chunks_completed' /\ chunk_id' = chunk_id
    BY <1>1, <1>3 DEF LoadCount
  <2>2. CASE v # w
    <3>1. pc'[w] = pc[w]
      BY <1>1, <1>3, <2>2 DEF LoadCount
    <3> QED
      BY <2>1, <3>1 DEF ShortOfNothing
  <2>3. CASE v = w
    <3>1. pc'[w] = IF chunk_id[w] < NumChunks THEN "execute" ELSE "load_completed"
      BY <1>1, <1>3, <2>3 DEF LoadCount, Published
    <3> QED
      BY <1>1, <2>1, <3>1 DEF ShortOfNothing
  <2> QED
    BY <2>2, <2>3
<1>4. ASSUME NEW v \in Counters, LoadCompleted(v) PROVE ShortOfNothing(w)'
  <2>1. chunks_completed' /\ chunk_id' = chunk_id
    BY <1>1, <1>4 DEF LoadCompleted
  <2>2. pc'[w] = "returned" => pc[w] \in {"load_completed", "returned"}
    BY <1>1, <1>4 DEF LoadCompleted
  <2>3. pc'[w] = "load_completed" => pc[w] = "load_completed"
    BY <1>1, <1>4 DEF LoadCompleted, AfterLoadCompleted
  <2> QED
    BY <2>1, <2>2, <2>3 DEF ShortOfNothing
<1>5. ASSUME NEW v \in Counters, ExecuteChunk(v) PROVE ShortOfNothing(w)'
  <2>1. chunks_completed' /\ pc' = [pc EXCEPT ![v] = "load_count"]
    BY <1>1, <1>5 DEF ExecuteChunk
  <2>2. v # w => chunk_id'[w] = chunk_id[w]
    BY <1>1, <1>5 DEF ExecuteChunk
  <2> QED
    BY <1>1, <2>1, <2>2 DEF ShortOfNothing
<1>6. CASE UNCHANGED vars
  BY <1>6 DEF vars, ShortOfNothing
<1> QED
  BY <1>2, <1>3, <1>4, <1>5, <1>6 DEF Next, Counter, Finished

(* A counter that is about to load chunks_count, or to execute a chunk,    *)
(* when chunks_completed is set never returns with less than the whole     *)
(* trace: of LateReaderCountsAll what does not depend on fairness.         *)
THEOREM LateReaderMissesNothing ==
  ASSUME NEW w \in Counters
  PROVE  Spec => [](LateReader(w) => [](pc[w] = "returned" => Len(counted[w]) = NumChunks))
<1>1. LateReader(w) => ShortOfNothing(w)
  BY DEF LateReader, ShortOfNothing
<1>2. IInv /\ ShortOfNothing(w) => (pc[w] = "returned" => Len(counted[w]) = NumChunks)
  BY DEF IInv, CountsAPrefix, ShortOfNothing
<1> QED
  BY <1>1, <1>2, StaysShortOfNothing, Invariance, CompletionFollowsAll, PTL DEF Spec

-----------------------------------------------------------------------------
(* The program                                                             *)

QueueProofs == INSTANCE MemLocatorsProofs WITH pc <- planner_pc

(* What the orchestrator and the driver have joined has ended, and nobody  *)
(* has read a table before the planning began.                             *)
Phases ==
  /\ PlanStarted => CountersJoined
  /\ tables_read # {} => PlanStarted
  /\ orchestrator = "done" => PlannersJoined
  /\ main = "ended" => orchestrator = "done" /\ driver = "wait"

ProgramInv == IInv /\ QueueProofs!IInv /\ ProgramTypeOK /\ Phases /\ PlannedFromFinalTables

(* A step of the program is a step of the hand-over of chunks.             *)
LEMMA StepOfContext == [ProgramNext]_program_vars => [Next]_vars
<1> USE DEF context_vars
<1>1. DriverStep => Next
  BY DEF DriverStep, Next
<1>2. ASSUME NEW w \in Counters PROVE CounterStep(w) => Next
  BY DEF CounterStep, Next
<1>3. ProgramNext => [Next]_vars
  BY <1>1, <1>2 DEF ProgramNext, WaitAndEnd, Orchestrator, StartCounters, JoinCounters,
     JoinPlanners, GeneratorStep, PlannerStep, ImmutableStep, ProgramEnded, program_vars
<1> QED
  BY <1>3 DEF program_vars

(* A step of the program is a step of the queue of locators.               *)
LEMMA StepOfQueue == [ProgramNext]_program_vars => [Queue!Next]_queue_vars
<1>1. GeneratorStep => Queue!Next
  BY DEF GeneratorStep, Queue!Next
<1>2. ASSUME NEW p \in Planners PROVE PlannerStep(p) => Queue!Next
  BY DEF PlannerStep, Queue!Next
<1>3. ProgramNext => [Queue!Next]_queue_vars
  BY <1>1, <1>2 DEF ProgramNext, DriverStep, WaitAndEnd, Orchestrator, StartCounters,
     JoinCounters, JoinPlanners, CounterStep, ImmutableStep, ProgramEnded, program_vars
<1> QED
  BY <1>3 DEF program_vars

(* The invariant of the queue, as MemLocatorsProofs has proved it.         *)
LEMMA QueueInit == Queue!Init => QueueProofs!IInv
  BY QueueProofs!InitIInv, PlanAssumption
     DEF Queue!Init, QueueProofs!Init, Queue!Positions, QueueProofs!Positions

(* Every step of the queue keeps it.                                       *)
LEMMA QueueStep == QueueProofs!IInv /\ [QueueProofs!Next]_queue_vars => QueueProofs!IInv'
  BY QueueProofs!NextIInv, PlanAssumption DEF queue_vars, QueueProofs!vars

(* The queue's step, as CountAndPlan and as the proofs name it.            *)
LEMMA SameQueueStep == Queue!Next => QueueProofs!Next
<1>1. Queue!Generator => QueueProofs!Generator
  BY DEF Queue!Generator, Queue!PushWrite, Queue!PushPublish, Queue!SetCompleted,
     Queue!AllPushed, QueueProofs!Generator, QueueProofs!PushWrite,
     QueueProofs!PushPublish, QueueProofs!SetCompleted, QueueProofs!AllPushed
<1>2. ASSUME NEW p \in Planners PROVE Queue!Planner(p) => QueueProofs!Planner(p)
  <2>1. Queue!LoadRead(p) => QueueProofs!LoadRead(p)
    BY DEF Queue!LoadRead, QueueProofs!LoadRead
  <2>2. Queue!LoadWrite(p) => QueueProofs!LoadWrite(p)
    BY DEF Queue!LoadWrite, Queue!QueueEmpty, QueueProofs!LoadWrite,
       QueueProofs!QueueEmpty
  <2>3. Queue!CompareExchange(p) => QueueProofs!CompareExchange(p)
    BY DEF Queue!CompareExchange, Queue!MayAdvance, Queue!AfterFailure,
       QueueProofs!CompareExchange, QueueProofs!MayAdvance, QueueProofs!AfterFailure
  <2>4. Queue!CheckCompleted(p) => QueueProofs!CheckCompleted(p)
    BY DEF Queue!CheckCompleted, Queue!AfterCheck, QueueProofs!CheckCompleted,
       QueueProofs!AfterCheck
  <2>5. Queue!ExecuteFromLocator(p) => QueueProofs!ExecuteFromLocator(p)
    BY DEF Queue!ExecuteFromLocator, Queue!SegmentId, Queue!AfterExecute, Queue!Filed,
       QueueProofs!ExecuteFromLocator, QueueProofs!SegmentId, QueueProofs!AfterExecute,
       QueueProofs!Filed
  <2> QED
    BY <2>1, <2>2, <2>3, <2>4, <2>5 DEF Queue!Planner, QueueProofs!Planner
<1>3. Queue!Finished => QueueProofs!Finished
  BY DEF Queue!Finished, Queue!AllExited, Queue!vars, QueueProofs!Finished,
     QueueProofs!AllExited, QueueProofs!vars
<1> QED
  BY <1>1, <1>2, <1>3 DEF Queue!Next, QueueProofs!Next

(* The queue's types, as CountAndPlan names them.                          *)
LEMMA QueueTypes == QueueProofs!IInv => Queue!TypeOK
  BY DEF QueueProofs!IInv, QueueProofs!TypeOK, Queue!TypeOK, QueueProofs!Positions,
     Queue!Positions

(* The program starts with nothing handed over and nobody joined.          *)
LEMMA InitProgramInv == ProgramInit => ProgramInv
<1> SUFFICES ASSUME ProgramInit PROVE ProgramInv
  OBVIOUS
<1>1. IInv
  BY InitIInv DEF ProgramInit
<1>2. QueueProofs!IInv
  BY QueueInit DEF ProgramInit
<1>3. ProgramTypeOK
  <2>1. TypeOK
    BY <1>1 DEF IInv
  <2> QED
    BY <1>2, <2>1, QueueTypes DEF ProgramInit, ProgramTypeOK
<1>4. Phases /\ PlannedFromFinalTables
  BY DEF ProgramInit, Phases, PlanStarted, PlannedFromFinalTables
<1> QED
  BY <1>1, <1>2, <1>3, <1>4 DEF ProgramInv

(* The types of the composition's own state.                               *)
OwnTypeOK ==
  /\ orchestrator \in {"start", "count", "plan", "done"}
  /\ main \in {"running", "ended"}
  /\ immutable \in [Immutables -> {"scan", "done"}]
  /\ \A tables \in tables_read : tables \in [Counters -> Seq(ChunkIds)]

(* A step of the program keeps those types and the order of the phases:    *)
(* one case for each kind of step.                                         *)
LEMMA NextPhases ==
  ProgramInv /\ ProgramNext => OwnTypeOK' /\ Phases' /\ PlannedFromFinalTables'
<1> SUFFICES ASSUME ProgramInv, ProgramNext
             PROVE  OwnTypeOK' /\ Phases' /\ PlannedFromFinalTables'
  OBVIOUS
<1> USE DEF ProgramInv, ProgramTypeOK, OwnTypeOK, Phases, PlannedFromFinalTables
<1>1. CASE DriverStep
  BY <1>1 DEF DriverStep, Driver, AddChunkWrite, AddChunkPublish, SetCompleted, PlanStarted,
     CountersJoined, PlannersJoined, Queue!AllExited, queue_vars
<1>2. CASE WaitAndEnd
  BY <1>2 DEF WaitAndEnd, Joinable, PlanStarted, CountersJoined, PlannersJoined,
     Queue!AllExited, queue_vars, context_vars, vars
<1>3. CASE StartCounters
  BY <1>3 DEF StartCounters, PlanStarted, CountersJoined, queue_vars, context_vars, vars
<1>4. CASE JoinCounters
  BY <1>4 DEF JoinCounters, PlanStarted, CountersJoined, queue_vars, context_vars, vars
<1>5. CASE JoinPlanners
  BY <1>5 DEF JoinPlanners, PlanStarted, CountersJoined, PlannersJoined, Queue!AllExited,
     queue_vars, context_vars, vars
<1>6. ASSUME NEW w \in Counters, CounterStep(w)
      PROVE  OwnTypeOK' /\ Phases' /\ PlannedFromFinalTables'
  <2>1. ~PlanStarted
    BY <1>6 DEF CounterStep, Counter, LoadCount, LoadCompleted, ExecuteChunk,
       CountersJoined
  <2> QED
    BY <1>6, <2>1 DEF CounterStep, PlanStarted
<1>7. CASE GeneratorStep
  BY <1>7 DEF GeneratorStep, PlanStarted, CountersJoined, PlannersJoined, Queue!AllExited,
     Queue!Generator, Queue!PushWrite, Queue!PushPublish, Queue!SetCompleted, context_vars,
     vars, TypeOK
<1>8. ASSUME NEW p \in Planners, PlannerStep(p)
      PROVE  OwnTypeOK' /\ Phases' /\ PlannedFromFinalTables'
  <2>1. orchestrator = "plan" /\ tables_read' \subseteq tables_read \cup {counted}
    BY <1>8 DEF PlannerStep, PlanStarted, PlannersJoined, Queue!AllExited, Queue!Planner,
       Queue!LoadRead, Queue!LoadWrite, Queue!CompareExchange, Queue!CheckCompleted,
       Queue!ExecuteFromLocator
  <2>2. UNCHANGED <<orchestrator, main, immutable, counted, pc, driver>>
    BY <1>8 DEF PlannerStep, context_vars, vars
  <2> QED
    BY <2>1, <2>2 DEF PlanStarted, CountersJoined, TypeOK
<1>9. ASSUME NEW i \in Immutables, ImmutableStep(i)
      PROVE  OwnTypeOK' /\ Phases' /\ PlannedFromFinalTables'
  BY <1>9 DEF ImmutableStep, PlanStarted, CountersJoined, PlannersJoined, context_vars, vars,
     TypeOK
<1>10. CASE ProgramEnded
  BY <1>10 DEF ProgramEnded, program_vars, PlanStarted, CountersJoined, PlannersJoined,
     Queue!AllExited, queue_vars, context_vars, vars
<1> QED
  BY <1>1, <1>2, <1>3, <1>4, <1>5, <1>6, <1>7, <1>8, <1>9, <1>10
     DEF ProgramNext, Orchestrator

(* Every step keeps the two components' invariants and the order of the    *)
(* phases.                                                                 *)
LEMMA NextProgramInv == ProgramInv /\ [ProgramNext]_program_vars => ProgramInv'
<1> SUFFICES ASSUME ProgramInv, [ProgramNext]_program_vars PROVE ProgramInv'
  OBVIOUS
<1>1. IInv'
  BY StepOfContext, NextIInv DEF ProgramInv
<1>2. QueueProofs!IInv'
  BY StepOfQueue, SameQueueStep, QueueStep DEF ProgramInv
<1>3. Queue!TypeOK'
  BY <1>2 DEF QueueProofs!IInv, QueueProofs!TypeOK, Queue!TypeOK, QueueProofs!Positions,
     Queue!Positions
<1>4. OwnTypeOK' /\ Phases' /\ PlannedFromFinalTables'
  <2>1. CASE ProgramNext
    BY <2>1, NextPhases
  <2>2. CASE UNCHANGED program_vars
    BY <2>2 DEF ProgramInv, ProgramTypeOK, OwnTypeOK, Phases, PlannedFromFinalTables,
       program_vars, PlanStarted, CountersJoined, PlannersJoined, Queue!AllExited,
       queue_vars, context_vars, vars
  <2> QED
    BY <2>1, <2>2
<1>5. ProgramTypeOK'
  BY <1>1, <1>3, <1>4 DEF ProgramTypeOK, OwnTypeOK, IInv
<1> QED
  BY <1>1, <1>2, <1>4, <1>5 DEF ProgramInv

(* The invariant of the whole program.                                     *)
THEOREM ProgramInvariance == ProgramSpec => []ProgramInv
  BY InitProgramInv, NextProgramInv, PTL DEF ProgramSpec

(* Type correctness of the composition.                                    *)
THEOREM ProgramTypeCorrect == ProgramSpec => []ProgramTypeOK
<1>1. ProgramInv => ProgramTypeOK
  BY DEF ProgramInv
<1> QED
  BY <1>1, ProgramInvariance, PTL

(* The program hands over its chunks as MemContext says: what is true of   *)
(* that component's specification is true of the program.                  *)
THEOREM ProgramRefinesContext == ProgramSpec => Spec
<1>1. ProgramInit => Init
  BY DEF ProgramInit
<1> QED
  BY <1>1, StepOfContext, PTL DEF ProgramSpec, Spec

(* The program's planning threads share out the locators as MemLocators    *)
(* says.                                                                   *)
THEOREM ProgramRefinesLocators == ProgramSpec => QueueProofs!Spec
<1>1. ProgramInit => QueueProofs!Init
  BY DEF ProgramInit, Queue!Init, QueueProofs!Init, Queue!Positions, QueueProofs!Positions
<1>2. [ProgramNext]_program_vars => [QueueProofs!Next]_(QueueProofs!vars)
  BY StepOfQueue, SameQueueStep DEF queue_vars, QueueProofs!vars
<1> QED
  BY <1>1, <1>2, PTL DEF ProgramSpec, QueueProofs!Spec

(* Whatever the orchestrator and the planners do, every counter executes   *)
(* the first chunks of the trace, each once, in order.                     *)
THEOREM ProgramCountsPrefixes == ProgramSpec => []CountsAPrefix
  BY ProgramRefinesContext, CountersCountPrefixes, PTL

(* All planning threads work from the tables that the counters have left.  *)
THEOREM PlanFromFinalTables == ProgramSpec => []PlannedFromFinalTables
<1>1. ProgramInv => PlannedFromFinalTables
  BY DEF ProgramInv
<1> QED
  BY <1>1, ProgramInvariance, PTL

(* plan_phase returns with a segment filed for every locator claimed, and  *)
(* no planner left that holds the reference to its local ram_segments.     *)
THEOREM SegmentsInTime == ProgramSpec => []SegmentsFiledInTime
<1>1. ProgramInv => SegmentsFiledInTime
  <2> SUFFICES ASSUME ProgramInv, orchestrator = "done"
               PROVE  /\ \A p \in Planners : planner_pc[p] = "exited"
                      /\ \A i \in 0 .. read_pos - 1 : segments[i] = i
    BY DEF SegmentsFiledInTime
  <2>1. \A p \in Planners : planner_pc[p] = "exited"
    BY DEF ProgramInv, Phases, PlannersJoined, Queue!AllExited
  <2>2. ASSUME NEW i \in 0 .. read_pos - 1 PROVE segments[i] = i
    <3>1. i \in QueueProofs!Positions /\ i < read_pos
      BY PlanAssumption DEF ProgramInv, QueueProofs!IInv, QueueProofs!TypeOK,
         QueueProofs!Positions
    <3>2. segments[i] # NoLocator
      BY <2>1, <3>1 DEF ProgramInv, QueueProofs!IInv, QueueProofs!ClaimsAccountedFor,
         QueueProofs!Holds
    <3> QED
      BY <3>1, <3>2 DEF ProgramInv, QueueProofs!IInv, QueueProofs!SegmentHasItsLocator
  <2> QED
    BY <2>1, <2>2
<1> QED
  BY <1>1, ProgramInvariance, PTL

(* When MemTest frees the chunks' data every thread has ended.             *)
THEOREM NothingLeftRunning == ProgramSpec => []NothingRunsAfterMain
<1>1. ProgramInv => NothingRunsAfterMain
  BY DEF ProgramInv, Phases, NothingRunsAfterMain, CountPhaseOver, PlanStarted,
     CountersJoined, PlannersJoined
<1> QED
  BY <1>1, ProgramInvariance, PTL

=============================================================================
