---------------------------- MODULE MemLocators -----------------------------
(***************************************************************************)
(* The queue of locators between the quick planner and the MAX_MEM_PLANNERS*)
(* segment planners: class MemLocators (mem_locators.hpp), the pushes of   *)
(* MemPlanner::generate_locators and the loop of execute_from_locators     *)
(* with get_next_locator (mem_planner.hpp).                                *)
(*                                                                         *)
(* The array locators[] is append-only with a single writer; the planners  *)
(* compete for its entries with a compare-exchange on read_pos, and the    *)
(* position an entry is claimed at is the id of the segment built from it. *)
(* An action is one atomic access together with the thread-local work that *)
(* follows.  A locator is named by its rank in the order of generation;    *)
(* how it is computed and what is built from it is the subject of RamPlan. *)
(*                                                                         *)
(* The build is for x86: push_locator's plain stores are visible before    *)
(* its store to write_pos although that store is relaxed (the compiler     *)
(* keeps their order too), and compare_exchange_weak does not fail         *)
(* spuriously.                                                             *)
(***************************************************************************)
EXTENDS Naturals, FiniteSets

CONSTANTS
  Planners,     \* the planner threads
  NumLocators,  \* how many locators generate_locators pushes
  MaxLocators,  \* MAX_LOCATORS, the capacity of locators[]
  NoLocator     \* the content of an entry nobody has written; no claim

ASSUME LocatorsAssumption ==
  /\ Planners # {}
  /\ NumLocators \in Nat
  /\ MaxLocators \in Nat
  /\ NumLocators <= MaxLocators
  /\ NoLocator \notin Nat

Positions == 0 .. MaxLocators - 1

VARIABLES
  locators,      \* the array
  write_pos,     \* atomic: entries pushed
  read_pos,      \* atomic: entries claimed
  completed,     \* atomic: generate_locators has finished
  generator,     \* where generate_locators is: "write", "publish" or "done"
  pc,            \* where each planner is inside get_locator / get_next_locator
  current_read,  \* get_locator's local copy of read_pos; the claimed position
  attempt,       \* which get_locator of the get_next_locator call this is
  segments       \* MemSegments: segment id -> the locator it was built from

vars == <<locators, write_pos, read_pos, completed, generator, pc,
          current_read, attempt, segments>>

Init ==
  /\ locators = [i \in Positions |-> NoLocator]
  /\ write_pos = 0
  /\ read_pos = 0
  /\ completed = FALSE
  /\ generator = "write"
  /\ pc = [p \in Planners |-> "load_read"]
  /\ current_read = [p \in Planners |-> 0]
  /\ attempt = [p \in Planners |-> "first"]
  /\ segments = [i \in Positions |-> NoLocator]

-----------------------------------------------------------------------------
(* The quick planner: generate_locators.                                   *)

(* push_locator: the plain stores into locators[write_pos].                *)
PushWrite ==
  /\ generator = "write"
  /\ write_pos < NumLocators
  /\ locators' = [locators EXCEPT ![write_pos] = write_pos]
  /\ generator' = "publish"
  /\ UNCHANGED <<write_pos, read_pos, completed, pc, current_read, attempt, segments>>

(* push_locator: the relaxed store of write_pos.                           *)
PushPublish ==
  /\ generator = "publish"
  /\ write_pos' = write_pos + 1
  /\ generator' = "write"
  /\ UNCHANGED <<locators, read_pos, completed, pc, current_read, attempt, segments>>

(* The scan of the counters' tables is over.                               *)
AllPushed == write_pos = NumLocators

SetCompleted ==
  /\ generator = "write"
  /\ AllPushed
  /\ completed' = TRUE
  /\ generator' = "done"
  /\ UNCHANGED <<locators, write_pos, read_pos, pc, current_read, attempt, segments>>

-----------------------------------------------------------------------------
(* A planner p.                                                            *)

(* get_locator: current_read = read_pos.                                   *)
LoadRead(p) ==
  /\ pc[p] = "load_read"
  /\ current_read' = [current_read EXCEPT ![p] = read_pos]
  /\ pc' = [pc EXCEPT ![p] = "load_write"]
  /\ UNCHANGED <<locators, write_pos, read_pos, completed, generator, attempt, segments>>

(* Mutant: an empty queue is not recognised.                               *)
QueueEmptyOffByOne(p) == current_read[p] = write_pos + 1

(* get_locator: current_read == current_write.                             *)
QueueEmpty(p) == current_read[p] = write_pos

(* get_locator: load write_pos.  On an empty queue get_locator returns     *)
(* nullptr: after the first call get_next_locator tries again at once,     *)
(* after a later one it sets its local completed and sleeps.               *)
LoadWrite(p) ==
  /\ pc[p] = "load_write"
  /\ IF ~QueueEmpty(p)
       THEN /\ pc' = [pc EXCEPT ![p] = "cas"]
            /\ UNCHANGED attempt
       ELSE IF attempt[p] = "first"
         THEN /\ pc' = [pc EXCEPT ![p] = "load_read"]
              /\ attempt' = [attempt EXCEPT ![p] = "loop"]
         ELSE /\ pc' = [pc EXCEPT ![p] = "check_completed"]
              /\ UNCHANGED attempt
  /\ UNCHANGED <<locators, write_pos, read_pos, completed, generator, current_read, segments>>

(* Mutant: a load and a store instead of the compare-exchange.             *)
MayAdvanceUnchecked(p) == TRUE

(* compare_exchange_weak(current_read, current_read + 1) succeeds.         *)
MayAdvance(p) == read_pos = current_read[p]

(* Mutant: a failed compare-exchange does not refresh current_read.        *)
AfterFailureStale(p) == current_read

AfterFailure(p) == [current_read EXCEPT ![p] = read_pos]

(* get_locator: the compare-exchange; on failure back to loading write_pos *)
(* with current_read refreshed.                                            *)
CompareExchange(p) ==
  /\ pc[p] = "cas"
  /\ IF MayAdvance(p)
       THEN /\ read_pos' = current_read[p] + 1
            /\ pc' = [pc EXCEPT ![p] = "execute"]
            /\ UNCHANGED current_read
       ELSE /\ current_read' = AfterFailure(p)
            /\ pc' = [pc EXCEPT ![p] = "load_write"]
            /\ UNCHANGED read_pos
  /\ UNCHANGED <<locators, write_pos, completed, generator, attempt, segments>>

(* Mutant: the planner goes on polling after completion.                   *)
AfterCheckNoExit == "load_read"

AfterCheck == IF completed THEN "exited" ELSE "load_read"

(* get_next_locator: completed && locators.is_completed() ends the planner *)
(* (without another look at the queue); otherwise get_locator again.       *)
CheckCompleted(p) ==
  /\ pc[p] = "check_completed"
  /\ pc' = [pc EXCEPT ![p] = AfterCheck]
  /\ UNCHANGED <<locators, write_pos, read_pos, completed, generator, current_read,
                 attempt, segments>>

(* Mutant: the segment is filed under the queue's position, not the claim's.*)
SegmentIdShared(p) == read_pos - 1

(* get_locator: segment_id = current_read.                                 *)
SegmentId(p) == current_read[p]

(* Mutant: after a segment completion is looked at before the queue.       *)
AfterExecuteCheck == "check_completed"

AfterExecute == "load_read"

(* MemSegments::set                                                        *)
Filed(id, segment) == [segments EXCEPT ![id] = segment]

(* execute_from_locator on the claimed entry, then MemSegments::set.  The  *)
(* entry does not change any more, so reading it and filing the segment    *)
(* under the mutex are one step.                                           *)
ExecuteFromLocator(p) ==
  /\ pc[p] = "execute"
  /\ segments' = Filed(SegmentId(p), locators[current_read[p]])
  /\ pc' = [pc EXCEPT ![p] = AfterExecute]
  /\ attempt' = [attempt EXCEPT ![p] = "first"]
  /\ UNCHANGED <<locators, write_pos, read_pos, completed, generator, current_read>>

-----------------------------------------------------------------------------
Generator == PushWrite \/ PushPublish \/ SetCompleted

Planner(p) ==
  \/ LoadRead(p)
  \/ LoadWrite(p)
  \/ CompareExchange(p)
  \/ CheckCompleted(p)
  \/ ExecuteFromLocator(p)

AllExited == generator = "done" /\ \A p \in Planners : pc[p] = "exited"

Finished == AllExited /\ UNCHANGED vars

Next == Generator \/ (\E p \in Planners : Planner(p)) \/ Finished

(* The operating system runs every runnable thread again and again.        *)
Fairness == WF_vars(Generator) /\ \A p \in Planners : WF_vars(Planner(p))

Spec == Init /\ [][Next]_vars

FairSpec == Spec /\ Fairness

-----------------------------------------------------------------------------
(* Properties                                                              *)

(* The types of the queue, of the planners' locals and of the result map.  *)
TypeOK ==
  /\ locators \in [Positions -> 0 .. NumLocators - 1 \cup {NoLocator}]
  /\ write_pos \in 0 .. NumLocators
  /\ read_pos \in 0 .. NumLocators
  /\ completed \in BOOLEAN
  /\ generator \in {"write", "publish", "done"}
  /\ pc \in [Planners ->
       {"load_read", "load_write", "cas", "check_completed", "execute", "exited"}]
  /\ current_read \in [Planners -> 0 .. NumLocators]
  /\ attempt \in [Planners -> {"first", "loop"}]
  /\ segments \in [Positions -> 0 .. NumLocators - 1 \cup {NoLocator}]

Holds(p, i) == pc[p] = "execute" /\ current_read[p] = i

(* However the compare-exchanges interleave, a pushed locator is claimed   *)
(* by at most one planner, and one that has its segment is not claimed     *)
(* again: no segment is built twice.                                       *)
ClaimedOnce ==
  \A i \in Positions :
    /\ \A p, q \in Planners : Holds(p, i) /\ Holds(q, i) => p = q
    /\ segments[i] # NoLocator => \A p \in Planners : ~Holds(p, i)

(* The positions below read_pos are exactly those being executed or        *)
(* executed: a claim is never dropped and nothing is claimed that has not  *)
(* been pushed completely.                                                 *)
ClaimsAccountedFor ==
  /\ read_pos <= write_pos
  /\ \A i \in Positions :
       i < read_pos <=> (segments[i] # NoLocator \/ \E p \in Planners : Holds(p, i))

(* A finished segment was built from the locator of its own rank, with the *)
(* fields push_locator wrote: get_locator's segment_id matches the entry   *)
(* it returned.                                                            *)
SegmentHasItsLocator ==
  \A i \in Positions : segments[i] # NoLocator => segments[i] = i

(* A planner that starts a get_locator, or is building a segment, once     *)
(* completed is set sees to it that the queue is drained.                  *)
DrainedAfterCompletion ==
  (completed /\ \E p \in Planners : pc[p] \in {"load_read", "execute"})
    ~> (read_pos = write_pos)

(* Every planner thread leaves its loop, so the joins of plan_phase return.*)
PlannersExit == <>[]AllExited

Abstract ==
  INSTANCE SegmentQueue WITH
    offered <- write_pos,
    closed <- completed,
    taken <- read_pos,
    holding <- [p \in Planners |-> IF pc[p] = "execute" THEN current_read[p] ELSE NoLocator],
    built <- {i \in Positions : segments[i] # NoLocator},
    left <- {p \in Planners : pc[p] = "exited"}

(* The three atomics implement a queue from which the planners take the    *)
(* locators in order and one at a time: a get_locator takes effect at its  *)
(* successful compare-exchange, whatever other planners and the generator  *)
(* do between its loads, and every segment begun is filed.                 *)
ImplementsQueue == Abstract!FairSpec

(* What plan_phase relies on after its joins when it prints ram_segments,  *)
(* and the driver when it waits for the plan of the trace: every locator   *)
(* has its segment.  get_next_locator does not provide it.                 *)
EveryLocatorPlanned ==
  AllExited => \A i \in 0 .. NumLocators - 1 : segments[i] # NoLocator

=============================================================================
