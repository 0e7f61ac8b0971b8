---------------------------- MODULE CountAndPlan ----------------------------
(***************************************************************************)
(* The whole program after MemTest::load: MemTest::execute (mem_test.hpp)  *)
(* and MemCountAndPlan (mem_count_and_plan.hpp), which compose the         *)
(* hand-over of chunks (MemContext) with the queue of locators             *)
(* (MemLocators).                                                          *)
(*                                                                         *)
(* The driver starts an orchestrator thread, hands it the chunks and       *)
(* waits.  The orchestrator starts the counting threads and joins them,    *)
(* then starts the planning threads and joins those.  Counters and         *)
(* planners share the counters' tables without a lock, the planners file   *)
(* their segments in a local variable of plan_phase, and the counters read *)
(* memory that MemTest frees: the joins are all that keeps these apart.    *)
(*                                                                         *)
(* What a counter's tables hold is named by the chunks it has counted.     *)
(* The number of locators, which depends on it, is a constant.             *)
(***************************************************************************)
EXTENDS MemContext

CONSTANTS
  Planners,     \* plan_workers
  Immutables,   \* rom_data_planner and input_data_planner
  NumLocators, MaxLocators, NoLocator  \* see MemLocators

ASSUME PlanAssumption ==
  /\ Planners # {}
  /\ NumLocators \in Nat
  /\ MaxLocators \in Nat
  /\ NumLocators <= MaxLocators
  /\ NoLocator \notin Nat

VARIABLES
  orchestrator, \* detach_execute: "start", "count", "plan" or "done"
  main,         \* MemTest: "running", or "ended" when its chunks have been freed
  immutable,    \* ImmutableMemPlanner threads: "scan" or "done"
  tables_read,  \* the contents of the tables planning threads have worked from
  \* the variables of MemLocators
  locators, write_pos, read_pos, completed, generator, planner_pc, current_read,
  attempt, segments

Queue == INSTANCE MemLocators WITH pc <- planner_pc

context_vars == vars
queue_vars == <<locators, write_pos, read_pos, completed, generator, planner_pc,
                current_read, attempt, segments>>
program_vars == <<context_vars, orchestrator, main, immutable, tables_read, queue_vars>>

(* prepare; execute has created the orchestrator thread.                   *)
ProgramInit ==
  /\ Init
  /\ Queue!Init
  /\ orchestrator = "start"
  /\ main = "running"
  /\ immutable = [i \in Immutables |-> "scan"]
  /\ tables_read = {}

-----------------------------------------------------------------------------
(* The driver: add_chunk, set_completed.                                   *)
DriverStep ==
  /\ Driver
  /\ UNCHANGED <<orchestrator, main, immutable, tables_read, queue_vars>>

(* Mutant: wait only makes sure that the orchestrator has been started.    *)
JoinableOnceStarted == orchestrator # "start"

(* parallel_execute->join() returns.                                       *)
Joinable == orchestrator = "done"

(* wait; then ~MemTest frees the data of the chunks.                       *)
WaitAndEnd ==
  /\ driver = "wait"
  /\ main = "running"
  /\ Joinable
  /\ main' = "ended"
  /\ UNCHANGED <<context_vars, orchestrator, immutable, tables_read, queue_vars>>

-----------------------------------------------------------------------------
(* count_phase                                                             *)

StartCounters ==
  /\ orchestrator = "start"
  /\ orchestrator' = "count"
  /\ UNCHANGED <<context_vars, main, immutable, tables_read, queue_vars>>

CounterStep(w) ==
  /\ orchestrator # "start"
  /\ Counter(w)
  /\ UNCHANGED <<orchestrator, main, immutable, tables_read, queue_vars>>

(* Mutant: the planning begins with the first counter that is joined.      *)
SomeCounterJoined == \E w \in Counters : pc[w] = "returned"

CountersJoined == \A w \in Counters : pc[w] = "returned"

(* The joins of count_phase, then the thread creations of plan_phase.      *)
JoinCounters ==
  /\ orchestrator = "count"
  /\ CountersJoined
  /\ orchestrator' = "plan"
  /\ UNCHANGED <<context_vars, main, immutable, tables_read, queue_vars>>

-----------------------------------------------------------------------------
(* plan_phase                                                              *)

PlanStarted == orchestrator \in {"plan", "done"}

(* generate_locators reads the tables for every locator it pushes.         *)
GeneratorStep ==
  /\ PlanStarted
  /\ Queue!Generator
  /\ tables_read' = tables_read \cup {counted}
  /\ UNCHANGED <<context_vars, orchestrator, main, immutable>>

(* A planner reads them in execute_from_locator.                           *)
PlannerStep(p) ==
  /\ PlanStarted
  /\ Queue!Planner(p)
  /\ tables_read' = IF planner_pc[p] = "execute" THEN tables_read \cup {counted}
                                                 ELSE tables_read
  /\ UNCHANGED <<context_vars, orchestrator, main, immutable>>

(* ImmutableMemPlanner::execute, whose result is a member of the planner.  *)
ImmutableStep(i) ==
  /\ PlanStarted
  /\ immutable[i] = "scan"
  /\ immutable' = [immutable EXCEPT ![i] = "done"]
  /\ tables_read' = tables_read \cup {counted}
  /\ UNCHANGED <<context_vars, orchestrator, main, queue_vars>>

(* Mutant: plan_threads, which hold the two immutable planners and the     *)
(* quick one, are joined, and the planners, in a vector of their own, not. *)
PlannersNotJoined == generator = "done" /\ \A i \in Immutables : immutable[i] = "done"

PlannersJoined == Queue!AllExited /\ \A i \in Immutables : immutable[i] = "done"

(* The joins of plan_phase; it collects and prints the segments, and its   *)
(* local variable ram_segments is gone.                                    *)
JoinPlanners ==
  /\ orchestrator = "plan"
  /\ PlannersJoined
  /\ orchestrator' = "done"
  /\ UNCHANGED <<context_vars, main, immutable, tables_read, queue_vars>>

-----------------------------------------------------------------------------
Orchestrator == StartCounters \/ JoinCounters \/ JoinPlanners

ProgramEnded == main = "ended" /\ UNCHANGED program_vars

ProgramNext ==
  \/ DriverStep
  \/ WaitAndEnd
  \/ Orchestrator
  \/ \E w \in Counters : CounterStep(w)
  \/ GeneratorStep
  \/ \E p \in Planners : PlannerStep(p)
  \/ \E i \in Immutables : ImmutableStep(i)
  \/ ProgramEnded

(* The operating system runs every runnable thread again and again; a join *)
(* returns when the thread has ended.                                      *)
ProgramFairness ==
  /\ WF_program_vars(DriverStep \/ WaitAndEnd)
  /\ WF_program_vars(Orchestrator)
  /\ \A w \in Counters : WF_program_vars(CounterStep(w))
  /\ WF_program_vars(GeneratorStep)
  /\ \A p \in Planners : WF_program_vars(PlannerStep(p))
  /\ \A i \in Immutables : WF_program_vars(ImmutableStep(i))

ProgramSpec == ProgramInit /\ [][ProgramNext]_program_vars

FairProgramSpec == ProgramSpec /\ ProgramFairness

-----------------------------------------------------------------------------
(* Properties, with those of MemContext, which hold in the composition too *)

(* The types of the composition's own state.                               *)
ProgramTypeOK ==
  /\ TypeOK
  /\ Queue!TypeOK
  /\ orchestrator \in {"start", "count", "plan", "done"}
  /\ main \in {"running", "ended"}
  /\ immutable \in [Immutables -> {"scan", "done"}]
  /\ \A tables \in tables_read : tables \in [Counters -> Seq(ChunkIds)]

(* All planning threads, whenever they look, work from the same tables,    *)
(* the ones the counters have left: no counter writes once a planning      *)
(* thread has begun to read without a lock (mem_count_and_plan.hpp:117).   *)
PlannedFromFinalTables == \A tables \in tables_read : tables = counted

(* A segment is filed in ram_segments, a local variable of plan_phase that *)
(* the planners hold a reference to, only while plan_phase has not         *)
(* returned; and what it prints has a segment for every locator claimed.   *)
SegmentsFiledInTime ==
  orchestrator = "done" =>
    /\ \A p \in Planners : planner_pc[p] = "exited"
    /\ \A i \in 0 .. read_pos - 1 : segments[i] = i

(* The data of the chunks is freed, and main returns, when no thread of    *)
(* the program is left that could read it.                                 *)
NothingRunsAfterMain ==
  main = "ended" =>
    /\ CountPhaseOver
    /\ Queue!AllExited
    /\ \A i \in Immutables : immutable[i] = "done"

(* The program ends: both phases' joins return, whatever the threads and   *)
(* the driver do to each other.                                            *)
ProgramEnds == <>(main = "ended")

=============================================================================
