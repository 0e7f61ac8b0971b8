---------------------------- MODULE SegmentQueue ----------------------------
(***************************************************************************)
(* What the quick planner and the segment planners promise each other,     *)
(* abstractly: locators are offered in order, each is taken by one planner *)
(* in the order of the offers, its segment is built once, and a planner    *)
(* without a segment to build leaves some time after the last offer.  To   *)
(* offer and to take are single steps.  MemLocators implements this.       *)
(*                                                                         *)
(* A planner may leave although locators are on offer: get_next_locator    *)
(* promises no more (see EveryLocatorPlanned in MemLocators).              *)
(***************************************************************************)
EXTENDS Naturals

CONSTANTS
  Planners,     \* the planner threads
  NumLocators,  \* how many locators generate_locators pushes
  NoLocator     \* a planner without a locator

VARIABLES
  offered,  \* how many locators have been pushed
  closed,   \* nothing more is offered
  taken,    \* how many have been claimed
  holding,  \* planner -> the locator it builds the segment of
  built,    \* the locators whose segment is filed
  left      \* the planners that have left

queue_vars == <<offered, closed, taken, holding, built, left>>

Init ==
  /\ offered = 0
  /\ closed = FALSE
  /\ taken = 0
  /\ holding = [p \in Planners |-> NoLocator]
  /\ built = {}
  /\ left = {}

Offer ==
  /\ offered < NumLocators
  /\ offered' = offered + 1
  /\ UNCHANGED <<closed, taken, holding, built, left>>

Close ==
  /\ ~closed
  /\ offered = NumLocators
  /\ closed' = TRUE
  /\ UNCHANGED <<offered, taken, holding, built, left>>

Idle(p) == p \notin left /\ holding[p] = NoLocator

Take(p) ==
  /\ Idle(p)
  /\ taken < offered
  /\ holding' = [holding EXCEPT ![p] = taken]
  /\ taken' = taken + 1
  /\ UNCHANGED <<offered, closed, built, left>>

BuildSegment(p) ==
  /\ holding[p] # NoLocator
  /\ built' = built \cup {holding[p]}
  /\ holding' = [holding EXCEPT ![p] = NoLocator]
  /\ UNCHANGED <<offered, closed, taken, left>>

Leave(p) ==
  /\ Idle(p)
  /\ closed
  /\ left' = left \cup {p}
  /\ UNCHANGED <<offered, closed, taken, holding, built>>

Next ==
  \/ Offer
  \/ Close
  \/ \E p \in Planners : Take(p) \/ BuildSegment(p) \/ Leave(p)

Spec == Init /\ [][Next]_queue_vars

(* Everything is offered, every segment that was begun is finished, and a  *)
(* planner that finds nothing to do any more leaves.  Nothing is promised  *)
(* of who takes a locator, or of whether one is taken.                     *)
Fairness ==
  /\ WF_queue_vars(Offer \/ Close)
  /\ \A p \in Planners : WF_queue_vars(BuildSegment(p)) /\ WF_queue_vars(Leave(p))

FairSpec == Spec /\ Fairness

=============================================================================
