-------------------------- MODULE MemLocatorsProofs --------------------------
(***************************************************************************)
(* Proofs about MemLocators, for any number of planners and of locators.   *)
(*                                                                         *)
(* The compare-exchange succeeds on a local copy of read_pos that was      *)
(* found below an earlier value of write_pos.  ClaimedOnce therefore rests *)
(* on ClaimsAccountedFor (the position about to be claimed is held by      *)
(* nobody and has no segment), which rests on copies never being ahead of  *)
(* read_pos and on a planner at the compare-exchange having seen its entry *)
(* published.  What a segment is built from rests on published entries     *)
(* being written.                                                          *)
(***************************************************************************)
EXTENDS TLAPS, MemLocators

(* What push_locator has published, or is about to publish, is written.    *)
PushedWritten ==
  /\ \A i \in 0 .. write_pos - 1 : locators[i] = i
  /\ generator = "publish" => /\ write_pos < NumLocators
                              /\ locators[write_pos] = write_pos

(* get_locator's copies of read_pos are old or current, a planner at the   *)
(* compare-exchange has seen its entry, and one with a claim is past it.   *)
CopiesBehind ==
  \A p \in Planners :
    /\ current_read[p] <= read_pos
    /\ pc[p] = "cas" => current_read[p] < write_pos
    /\ pc[p] = "execute" => current_read[p] < read_pos

IInv == /\ TypeOK
        /\ PushedWritten
        /\ CopiesBehind
        /\ ClaimedOnce
        /\ ClaimsAccountedFor
        /\ SegmentHasItsLocator

(* The empty queue is consistent.                                          *)
LEMMA InitIInv == Init => IInv
<1> SUFFICES ASSUME Init PROVE IInv
  OBVIOUS
<1> USE LocatorsAssumption DEF Positions
<1>1. write_pos = 0 /\ read_pos = 0 /\ completed = FALSE /\ generator = "write"
  BY DEF Init
<1>2. pc = [p \in Planners |-> "load_read"] /\ attempt = [p \in Planners |-> "first"]
  BY DEF Init
<1>3. current_read = [p \in Planners |-> 0]
  BY DEF Init
<1>4. locators = [i \in Positions |-> NoLocator] /\ segments = [i \in Positions |-> NoLocator]
  BY DEF Init
<1>5. TypeOK
  <2>1. /\ locators \in [Positions -> 0 .. NumLocators - 1 \cup {NoLocator}]
        /\ segments \in [Positions -> 0 .. NumLocators - 1 \cup {NoLocator}]
    BY <1>4
  <2>2. current_read \in [Planners -> 0 .. NumLocators]
    BY <1>3
  <2>3. write_pos \in 0 .. NumLocators /\ read_pos \in 0 .. NumLocators
    BY <1>1
  <2> QED
    BY <1>1, <1>2, <2>1, <2>2, <2>3 DEF TypeOK
<1>6. PushedWritten
  BY <1>1 DEF PushedWritten
<1>7. CopiesBehind
  <2>1. \A p \in Planners : current_read[p] = 0 /\ pc[p] = "load_read"
    BY <1>2, <1>3
  <2> QED
    BY <1>1, <2>1 DEF CopiesBehind
<1>8. \A p \in Planners, i \in Positions : ~Holds(p, i)
  BY <1>2 DEF Holds
<1>9. \A i \in Positions : segments[i] = NoLocator
  BY <1>4
<1>10. ClaimedOnce /\ ClaimsAccountedFor /\ SegmentHasItsLocator
  BY <1>1, <1>8, <1>9 DEF ClaimedOnce, ClaimsAccountedFor, SegmentHasItsLocator
<1> QED
  BY <1>5, <1>6, <1>7, <1>10 DEF IInv

(* The steps of the quick planner: no claim and no segment changes, and    *)
(* write_pos only grows.                                                   *)
LEMMA GeneratorIInv == IInv /\ Generator => IInv'
<1> SUFFICES ASSUME IInv, Generator PROVE IInv'
  OBVIOUS
<1> USE LocatorsAssumption DEF IInv, Positions
<1>1. CASE PushWrite
  <2> USE <1>1 DEF PushWrite
  <2>1. TypeOK'
    BY DEF TypeOK
  <2>2. PushedWritten'
    BY DEF TypeOK, PushedWritten
  <2>3. CopiesBehind'
    BY DEF CopiesBehind
  <2> QED
    BY <2>1, <2>2, <2>3
       DEF ClaimedOnce, ClaimsAccountedFor, SegmentHasItsLocator, Holds
<1>2. CASE PushPublish
  <2> USE <1>2 DEF PushPublish
  <2>1. TypeOK'
    BY DEF TypeOK, PushedWritten
  <2>2. PushedWritten'
    BY DEF TypeOK, PushedWritten
  <2>3. CopiesBehind'
    BY DEF TypeOK, CopiesBehind
  <2>4. ClaimsAccountedFor'
    BY DEF TypeOK, ClaimsAccountedFor, Holds
  <2> QED
    BY <2>1, <2>2, <2>3, <2>4 DEF ClaimedOnce, SegmentHasItsLocator, Holds
<1>3. CASE SetCompleted
  BY <1>3 DEF SetCompleted, TypeOK, PushedWritten, CopiesBehind, ClaimedOnce,
              ClaimsAccountedFor, SegmentHasItsLocator, Holds
<1> QED
  BY <1>1, <1>2, <1>3 DEF Generator

(* A planner's step that neither claims nor builds: it moves among the     *)
(* program points without a claim and may refresh its copy of read_pos.    *)
LEMMA SearchIInv ==
  ASSUME IInv, NEW p \in Planners,
         LoadRead(p) \/ LoadWrite(p) \/ CheckCompleted(p)
  PROVE  IInv'
<1> USE LocatorsAssumption DEF IInv, Positions
<1>1. /\ pc[p] \in {"load_read", "load_write", "check_completed"}
      /\ UNCHANGED <<locators, write_pos, read_pos, completed, generator, segments>>
  BY DEF LoadRead, LoadWrite, CheckCompleted
<1>2. /\ \A q \in Planners : q # p => pc'[q] = pc[q] /\ current_read'[q] = current_read[q]
      /\ pc'[p] \in {"load_read", "load_write", "cas", "check_completed", "exited"}
      /\ current_read'[p] \in {current_read[p], read_pos}
      /\ pc'[p] = "cas" => current_read'[p] = current_read[p] /\ current_read[p] # write_pos
  BY DEF LoadRead, LoadWrite, CheckCompleted, AfterCheck, QueueEmpty, TypeOK
<1>3. TypeOK'
  <2>1. /\ pc' \in [Planners ->
               {"load_read", "load_write", "cas", "check_completed", "execute", "exited"}]
        /\ attempt' \in [Planners -> {"first", "loop"}]
    BY DEF LoadRead, LoadWrite, CheckCompleted, AfterCheck, TypeOK
  <2>2. current_read' \in [Planners -> 0 .. NumLocators]
    BY DEF LoadRead, LoadWrite, CheckCompleted, TypeOK
  <2> QED
    BY <1>1, <2>1, <2>2 DEF TypeOK
<1>4. PushedWritten'
  BY <1>1 DEF PushedWritten
<1>5. CopiesBehind'
  BY <1>1, <1>2 DEF TypeOK, CopiesBehind, ClaimsAccountedFor
<1>6. \A q \in Planners, i \in Positions : Holds(q, i)' <=> Holds(q, i)
  BY <1>1, <1>2 DEF Holds
<1> QED
  BY <1>1, <1>3, <1>4, <1>5, <1>6 DEF ClaimedOnce, ClaimsAccountedFor, SegmentHasItsLocator

(* The compare-exchange: a success turns the position at read_pos, held by *)
(* nobody so far, into a claim of p.                                       *)
LEMMA CompareExchangeIInv ==
  ASSUME IInv, NEW p \in Planners, CompareExchange(p)
  PROVE  IInv'
<1> USE LocatorsAssumption DEF IInv, Positions
<1>1. pc[p] = "cas" /\ UNCHANGED <<locators, write_pos, completed, generator, attempt, segments>>
  BY DEF CompareExchange
<1>2. CASE ~MayAdvance(p)
  <2>1. /\ read_pos' = read_pos
        /\ pc' = [pc EXCEPT ![p] = "load_write"]
        /\ current_read' = [current_read EXCEPT ![p] = read_pos]
    BY <1>2 DEF CompareExchange, AfterFailure
  <2>2. TypeOK'
    BY <1>1, <2>1 DEF TypeOK
  <2>3. PushedWritten' /\ CopiesBehind'
    BY <1>1, <2>1 DEF TypeOK, PushedWritten, CopiesBehind
  <2>4. \A q \in Planners, i \in Positions : Holds(q, i)' <=> Holds(q, i)
    BY <1>1, <2>1 DEF Holds, TypeOK
  <2> QED
    BY <1>1, <2>1, <2>2, <2>3, <2>4
       DEF ClaimedOnce, ClaimsAccountedFor, SegmentHasItsLocator
<1>3. CASE MayAdvance(p)
  <2>1. /\ current_read[p] = read_pos
        /\ read_pos' = read_pos + 1
        /\ pc' = [pc EXCEPT ![p] = "execute"]
        /\ current_read' = current_read
    BY <1>3 DEF CompareExchange, MayAdvance
  <2>2. read_pos \in Positions /\ read_pos < write_pos
    BY <1>1, <2>1 DEF TypeOK, CopiesBehind
  <2>3. TypeOK'
    BY <1>1, <2>1, <2>2 DEF TypeOK
  <2>4. PushedWritten' /\ CopiesBehind'
    BY <1>1, <2>1, <2>2 DEF TypeOK, PushedWritten, CopiesBehind
  <2>5. \A q \in Planners, i \in Positions :
          Holds(q, i)' <=> (Holds(q, i) \/ (q = p /\ i = read_pos))
    BY <1>1, <2>1 DEF Holds, TypeOK
  <2>6. segments[read_pos] = NoLocator /\ \A q \in Planners : ~Holds(q, read_pos)
    BY <2>2 DEF ClaimsAccountedFor, TypeOK
  <2>7. ClaimedOnce'
    BY <1>1, <2>2, <2>5, <2>6 DEF ClaimedOnce
  <2>8. ClaimsAccountedFor'
    BY <1>1, <2>1, <2>2, <2>5 DEF ClaimsAccountedFor, TypeOK
  <2>9. SegmentHasItsLocator'
    BY <1>1 DEF SegmentHasItsLocator
  <2> QED
    BY <2>3, <2>4, <2>7, <2>8, <2>9
<1> QED
  BY <1>2, <1>3

(* Building the segment turns p's claim into a finished segment with the   *)
(* same number, made from the entry of that number.                        *)
LEMMA ExecuteIInv ==
  ASSUME IInv, NEW p \in Planners, ExecuteFromLocator(p)
  PROVE  IInv'
<1> USE LocatorsAssumption DEF IInv, Positions
<1> DEFINE c == current_read[p]
<1>1. /\ pc[p] = "execute"
      /\ segments' = [segments EXCEPT ![c] = locators[c]]
      /\ pc' = [pc EXCEPT ![p] = "load_read"]
      /\ attempt' = [attempt EXCEPT ![p] = "first"]
      /\ UNCHANGED <<locators, write_pos, read_pos, completed, generator, current_read>>
  BY DEF ExecuteFromLocator, SegmentId, AfterExecute, Filed
<1>2. c \in Positions /\ c < read_pos /\ c < write_pos /\ c \in Nat
  BY <1>1 DEF TypeOK, CopiesBehind, ClaimsAccountedFor
<1>3. locators[c] = c /\ c # NoLocator
  BY <1>2 DEF PushedWritten, TypeOK
<1> HIDE DEF c
<1>4. TypeOK'
  BY <1>1, <1>2, <1>3 DEF TypeOK
<1>5. PushedWritten' /\ CopiesBehind'
  BY <1>1 DEF TypeOK, PushedWritten, CopiesBehind
<1>6. \A q \in Planners, i \in Positions : Holds(q, i)' <=> (Holds(q, i) /\ q # p)
  BY <1>1 DEF Holds, TypeOK
<1>7. Holds(p, c) /\ \A i \in Positions : Holds(p, i) => i = c
  BY <1>1 DEF Holds, c
<1>8. /\ segments'[c] = c
      /\ \A i \in Positions : i # c => segments'[i] = segments[i]
  BY <1>1, <1>2, <1>3 DEF TypeOK
<1>9. ClaimedOnce'
  BY <1>2, <1>6, <1>7, <1>8 DEF ClaimedOnce
<1>10. ClaimsAccountedFor'
  BY <1>1, <1>2, <1>3, <1>6, <1>7, <1>8 DEF ClaimsAccountedFor
<1>11. SegmentHasItsLocator'
  BY <1>8 DEF SegmentHasItsLocator
<1> QED
  BY <1>4, <1>5, <1>9, <1>10, <1>11

(* Every step of the quick planner and of the planners.                    *)
LEMMA NextIInv == IInv /\ [Next]_vars => IInv'
<1>1. IInv /\ UNCHANGED vars => IInv'
  BY DEF vars, IInv, TypeOK, PushedWritten, CopiesBehind, ClaimedOnce,
         ClaimsAccountedFor, SegmentHasItsLocator, Holds
<1> QED
  BY <1>1, GeneratorIInv, SearchIInv, CompareExchangeIInv, ExecuteIInv
     DEF Next, Planner, Finished

(* The strengthened invariant holds in every reachable state.              *)
THEOREM Invariance == Spec => []IInv
  BY InitIInv, NextIInv, PTL DEF Spec

(* Type correctness of the queue.                                          *)
THEOREM TypeCorrect == Spec => []TypeOK
<1>1. IInv => TypeOK
  BY DEF IInv
<1> QED
  BY <1>1, Invariance, PTL

(* No locator is claimed by two planners, and none twice.                  *)
THEOREM LocatorsClaimedOnce == Spec => []ClaimedOnce
<1>1. IInv => ClaimedOnce
  BY DEF IInv
<1> QED
  BY <1>1, Invariance, PTL

(* No claim is lost: what is below read_pos is being built or built.       *)
THEOREM NoClaimLost == Spec => []ClaimsAccountedFor
<1>1. IInv => ClaimsAccountedFor
  BY DEF IInv
<1> QED
  BY <1>1, Invariance, PTL

(* Each segment is built from the locator with its number.                 *)
THEOREM SegmentsFromTheirLocators == Spec => []SegmentHasItsLocator
<1>1. IInv => SegmentHasItsLocator
  BY DEF IInv
<1> QED
  BY <1>1, Invariance, PTL

(* The refinement mapping, by name.                                        *)
HoldingOf == [p \in Planners |-> IF pc[p] = "execute" THEN current_read[p] ELSE NoLocator]
Built == {i \in Positions : segments[i] # NoLocator}
Left == {p \in Planners : pc[p] = "exited"}

(* The initial state is that of the abstract queue.                        *)
LEMMA RefineInit == Init => Abstract!Init
<1> SUFFICES ASSUME Init PROVE Abstract!Init
  OBVIOUS
<1>1. \A p \in Planners : pc[p] = "load_read"
  BY DEF Init
<1>2. Built = {} /\ Left = {}
  BY <1>1 DEF Init, Built, Left
<1>3. HoldingOf = [p \in Planners |-> NoLocator]
  BY <1>1 DEF HoldingOf
<1> QED
  BY <1>2, <1>3 DEF Init, Abstract!Init, Built, Left, HoldingOf

(* The generator offers at the store of write_pos and closes at completion. *)
LEMMA RefineGenerator ==
  ASSUME IInv, Generator
  PROVE  [Abstract!Next]_(Abstract!queue_vars)
<1> USE DEF Abstract!Next, Abstract!queue_vars
<1>1. CASE PushWrite
  BY <1>1 DEF PushWrite
<1>2. CASE PushPublish
  BY <1>2 DEF PushPublish, IInv, PushedWritten, Abstract!Offer
<1>3. CASE SetCompleted
  BY <1>3 DEF SetCompleted, AllPushed, IInv, TypeOK, Abstract!Close
<1> QED
  BY <1>1, <1>2, <1>3 DEF Generator

(* A planner that searches stutters, or leaves when the queue is closed.   *)
LEMMA RefineSearch ==
  ASSUME IInv, NEW p \in Planners, LoadRead(p) \/ LoadWrite(p) \/ CheckCompleted(p)
  PROVE  [Abstract!Next]_(Abstract!queue_vars)
<1>1. /\ pc[p] \in {"load_read", "load_write", "check_completed"}
      /\ UNCHANGED <<write_pos, completed, read_pos, segments>>
  BY DEF LoadRead, LoadWrite, CheckCompleted
<1>2. /\ pc'[p] # "execute"
      /\ \A q \in Planners : q # p => pc'[q] = pc[q] /\ current_read'[q] = current_read[q]
      /\ pc'[p] = "exited" => completed
  BY DEF LoadRead, LoadWrite, CheckCompleted, AfterCheck, IInv, TypeOK
<1>3. HoldingOf' = HoldingOf
  BY <1>1, <1>2 DEF HoldingOf
<1>4. Built' = Built
  BY <1>1 DEF Built
<1>5. CASE pc'[p] = "exited"
  <2>1. Left' = Left \cup {p} /\ p \notin Left
    BY <1>1, <1>2, <1>5 DEF Left
  <2>2. HoldingOf[p] = NoLocator
    BY <1>1 DEF HoldingOf
  <2> QED
    BY <1>1, <1>2, <1>3, <1>4, <1>5, <2>1, <2>2
       DEF Abstract!Next, Abstract!Leave, Abstract!Idle, HoldingOf, Built, Left
<1>6. CASE pc'[p] # "exited"
  <2>1. Left' = Left
    BY <1>1, <1>2, <1>6 DEF Left
  <2> QED
    BY <1>1, <1>3, <1>4, <2>1 DEF Abstract!queue_vars, HoldingOf, Built, Left
<1> QED
  BY <1>5, <1>6

(* A compare-exchange takes the next locator, or stutters.                 *)
LEMMA RefineCompareExchange ==
  ASSUME IInv, NEW p \in Planners, CompareExchange(p)
  PROVE  [Abstract!Next]_(Abstract!queue_vars)
<1>1. pc[p] = "cas" /\ UNCHANGED <<write_pos, completed, segments>>
  BY DEF CompareExchange
<1>2. Built' = Built
  BY <1>1 DEF Built
<1>3. CASE MayAdvance(p)
  <2>1. /\ current_read[p] = read_pos
        /\ read_pos' = read_pos + 1
        /\ pc' = [pc EXCEPT ![p] = "execute"]
        /\ current_read' = current_read
    BY <1>3 DEF CompareExchange, MayAdvance
  <2>2. read_pos < write_pos
    BY <1>1, <2>1 DEF IInv, CopiesBehind
  <2>3. HoldingOf' = [HoldingOf EXCEPT ![p] = read_pos] /\ HoldingOf[p] = NoLocator
    BY <1>1, <2>1 DEF HoldingOf, IInv, TypeOK
  <2>4. Left' = Left /\ p \notin Left
    BY <1>1, <2>1 DEF Left, IInv, TypeOK
  <2> QED
    BY <1>1, <1>2, <2>1, <2>2, <2>3, <2>4
       DEF Abstract!Next, Abstract!Take, Abstract!Idle, HoldingOf, Built, Left
<1>4. CASE ~MayAdvance(p)
  <2>1. /\ read_pos' = read_pos
        /\ pc' = [pc EXCEPT ![p] = "load_write"]
        /\ current_read' = [current_read EXCEPT ![p] = read_pos]
    BY <1>4 DEF CompareExchange, AfterFailure
  <2>2. HoldingOf' = HoldingOf
    BY <1>1, <2>1 DEF HoldingOf, IInv, TypeOK
  <2>3. Left' = Left
    BY <1>1, <2>1 DEF Left, IInv, TypeOK
  <2> QED
    BY <1>1, <1>2, <2>1, <2>2, <2>3 DEF Abstract!queue_vars, HoldingOf, Built, Left
<1> QED
  BY <1>3, <1>4

(* Filing a segment is the abstract queue's.                               *)
LEMMA RefineExecute ==
  ASSUME IInv, NEW p \in Planners, ExecuteFromLocator(p)
  PROVE  [Abstract!Next]_(Abstract!queue_vars)
<1> DEFINE c == current_read[p]
<1>1. /\ pc[p] = "execute"
      /\ segments' = [segments EXCEPT ![c] = locators[c]]
      /\ pc' = [pc EXCEPT ![p] = "load_read"]
      /\ UNCHANGED <<write_pos, read_pos, completed, current_read>>
  BY DEF ExecuteFromLocator, SegmentId, AfterExecute, Filed
<1>2. c \in Positions /\ c \in 0 .. write_pos - 1 /\ c \in Nat
  BY <1>1, LocatorsAssumption
     DEF IInv, TypeOK, CopiesBehind, ClaimsAccountedFor, Positions
<1>3. locators[c] = c /\ c # NoLocator
  BY <1>2, LocatorsAssumption DEF IInv, PushedWritten
<1> HIDE DEF c
<1>4. Built' = Built \cup {c}
  BY <1>1, <1>2, <1>3 DEF Built, IInv, TypeOK
<1>5. HoldingOf[p] = c /\ HoldingOf' = [HoldingOf EXCEPT ![p] = NoLocator]
  BY <1>1 DEF HoldingOf, c, IInv, TypeOK
<1>6. Left' = Left
  BY <1>1 DEF Left, IInv, TypeOK
<1> QED
  BY <1>1, <1>3, <1>4, <1>5, <1>6
     DEF Abstract!Next, Abstract!BuildSegment, HoldingOf, Built, Left

(* The queue of atomics implements the abstract queue (its steps; that     *)
(* fairness is kept is left to the model checker).                         *)
THEOREM RefinesQueue == Spec => Abstract!Spec
<1>1. IInv /\ [Next]_vars => [Abstract!Next]_(Abstract!queue_vars)
  <2>1. UNCHANGED vars => UNCHANGED Abstract!queue_vars
    BY DEF vars, Abstract!queue_vars
  <2> QED
    BY <2>1, RefineGenerator, RefineSearch, RefineCompareExchange, RefineExecute
       DEF Next, Planner, Finished
<1> QED
  BY RefineInit, <1>1, Invariance, PTL DEF Spec, Abstract!Spec
-----------------------------------------------------------------------------
(* What get_next_locator promises once completed is set: it may miss       *)
(* locators (EveryLocatorPlanned does not hold), but not when one planner  *)
(* is still about to look at the queue.                                    *)
LateStarter == completed /\ \E p \in Planners : pc[p] \in {"load_read", "execute"}

(* Planner p does not leave its loop before it has seen the queue again, or*)
(* it has seen it non-empty.                                               *)
Drains(p) ==
  \/ pc[p] \in {"load_read", "cas", "execute"}
  \/ pc[p] = "load_write" /\ current_read[p] < write_pos

Draining == completed /\ (read_pos = write_pos \/ \E p \in Planners : Drains(p))

(* Completion is announced when everything has been pushed.                *)
CompletedAll == completed => generator = "done" /\ write_pos = NumLocators

LEMMA CompletionFollowsPushes == Spec => []CompletedAll
<1>1. Init => CompletedAll
  BY DEF Init, CompletedAll
<1>2. CompletedAll /\ [Next]_vars => CompletedAll'
  BY DEF CompletedAll, Next, Generator, PushWrite, PushPublish, SetCompleted, AllPushed,
         Planner, LoadRead, LoadWrite, CompareExchange, CheckCompleted, ExecuteFromLocator,
         Finished, vars
<1> QED
  BY <1>1, <1>2, PTL DEF Spec

(* A planner that drains goes on to do so, or leaves the queue drained.    *)
LEMMA DrainsOn ==
  ASSUME IInv, CompletedAll, completed, NEW p \in Planners, Drains(p), Planner(p)
  PROVE  read_pos' = write_pos' \/ Drains(p)'
<1>1. /\ pc \in [Planners ->
           {"load_read", "load_write", "cas", "check_completed", "execute", "exited"}]
      /\ current_read \in [Planners -> 0 .. NumLocators]
      /\ read_pos \in Nat /\ write_pos \in Nat /\ read_pos <= write_pos
      /\ current_read[p] \in Nat
  BY LocatorsAssumption DEF IInv, TypeOK, ClaimsAccountedFor
<1>2. CASE LoadRead(p)
  <2>1. pc'[p] = "load_write" /\ current_read'[p] = read_pos /\ write_pos' = write_pos
        /\ read_pos' = read_pos
    BY <1>1, <1>2 DEF LoadRead
  <2> QED
    BY <1>1, <2>1 DEF Drains
<1>3. CASE LoadWrite(p)
  <2>1. pc[p] = "load_write" /\ current_read[p] < write_pos
    BY <1>3 DEF LoadWrite, Drains
  <2>2. pc'[p] = "cas"
    BY <1>1, <1>3, <2>1 DEF LoadWrite, QueueEmpty
  <2> QED
    BY <2>2 DEF Drains
<1>4. CASE CompareExchange(p)
  <2>1. CASE MayAdvance(p)
    <3>1. pc'[p] = "execute"
      BY <1>1, <1>4, <2>1 DEF CompareExchange
    <3> QED
      BY <3>1 DEF Drains
  <2>2. CASE ~MayAdvance(p)
    <3>1. pc'[p] = "load_write" /\ current_read'[p] = read_pos /\ write_pos' = write_pos
          /\ read_pos' = read_pos
      BY <1>1, <1>4, <2>2 DEF CompareExchange, AfterFailure
    <3> QED
      BY <1>1, <3>1 DEF Drains
  <2> QED
    BY <2>1, <2>2
<1>5. ~CheckCompleted(p)
  BY DEF CheckCompleted, Drains
<1>6. CASE ExecuteFromLocator(p)
  <2>1. pc'[p] = "load_read"
    BY <1>1, <1>6 DEF ExecuteFromLocator, AfterExecute
  <2> QED
    BY <2>1 DEF Drains
<1> QED
  BY <1>2, <1>3, <1>4, <1>5, <1>6 DEF Planner

(* What another planner does leaves p draining, and an empty queue empty.  *)
LEMMA OthersLetDrain ==
  ASSUME IInv, CompletedAll, completed, NEW q \in Planners, Planner(q)
  PROVE  /\ completed' /\ write_pos' = write_pos
         /\ read_pos = write_pos => read_pos' = write_pos
         /\ \A p \in Planners : p # q /\ Drains(p) => Drains(p)'
<1>1. /\ pc \in [Planners ->
           {"load_read", "load_write", "cas", "check_completed", "execute", "exited"}]
      /\ current_read \in [Planners -> 0 .. NumLocators]
      /\ write_pos \in Nat
  BY LocatorsAssumption DEF IInv, TypeOK
<1>2. completed' /\ write_pos' = write_pos
  BY DEF Planner, LoadRead, LoadWrite, CompareExchange, CheckCompleted, ExecuteFromLocator
<1>3. \A p \in Planners : p # q => pc'[p] = pc[p] /\ current_read'[p] = current_read[p]
  BY <1>1 DEF Planner, LoadRead, LoadWrite, CompareExchange, CheckCompleted,
              ExecuteFromLocator, AfterFailure
<1>4. read_pos = write_pos => read_pos' = write_pos
  <2>1. CASE CompareExchange(q)
    <3>1. current_read[q] < write_pos
      BY <2>1 DEF CompareExchange, IInv, CopiesBehind
    <3> QED
      BY <1>1, <2>1, <3>1 DEF CompareExchange, MayAdvance
  <2>2. CASE ~CompareExchange(q)
    BY <2>2 DEF Planner, LoadRead, LoadWrite, CheckCompleted, ExecuteFromLocator
  <2> QED
    BY <2>1, <2>2
<1> QED
  BY <1>2, <1>3, <1>4 DEF Drains

LEMMA StaysDraining == IInv /\ CompletedAll /\ Draining /\ [Next]_vars => Draining'
<1> SUFFICES ASSUME IInv, CompletedAll, Draining, [Next]_vars PROVE Draining'
  OBVIOUS
<1>1. completed /\ generator = "done"
  BY DEF Draining, CompletedAll
<1>2. ~Generator
  BY <1>1 DEF Generator, PushWrite, PushPublish, SetCompleted
<1>3. ASSUME NEW q \in Planners, Planner(q) PROVE Draining'
  <2>1. completed' /\ write_pos' = write_pos /\ (read_pos = write_pos => read_pos' = write_pos)
    BY <1>1, <1>3, OthersLetDrain
  <2>2. CASE read_pos = write_pos
    BY <2>1, <2>2 DEF Draining
  <2>3. ASSUME NEW p \in Planners, Drains(p) PROVE Draining'
    <3>1. CASE p = q
      <4>1. read_pos' = write_pos' \/ Drains(p)'
        BY <1>1, <1>3, <2>3, <3>1, DrainsOn
      <4> QED
        BY <2>1, <4>1 DEF Draining
    <3>2. CASE p # q
      <4>1. Drains(p)'
        BY <1>1, <1>3, <2>3, <3>2, OthersLetDrain
      <4> QED
        BY <2>1, <4>1 DEF Draining
    <3> QED
      BY <3>1, <3>2
  <2> QED
    BY <2>2, <2>3 DEF Draining
<1>4. CASE UNCHANGED vars
  BY <1>4 DEF vars, Draining, Drains
<1> QED
  BY <1>2, <1>3, <1>4 DEF Next, Finished

(* When all have left and the queue was being drained, every locator has   *)
(* its segment: it was claimed, and nobody holds a claim any more.         *)
LEMMA DrainedIsPlanned == IInv /\ CompletedAll /\ Draining => EveryLocatorPlanned
<1> SUFFICES ASSUME IInv, CompletedAll, Draining, AllExited,
                    NEW i \in 0 .. NumLocators - 1
             PROVE  segments[i] # NoLocator
  BY DEF EveryLocatorPlanned
<1>1. \A p \in Planners : ~Drains(p) /\ ~Holds(p, i)
  BY DEF AllExited, Drains, Holds
<1>2. read_pos = NumLocators
  BY <1>1 DEF Draining, CompletedAll
<1>3. i \in Positions /\ i < read_pos
  BY <1>2, LocatorsAssumption DEF Positions
<1> QED
  BY <1>1, <1>3 DEF IInv, ClaimsAccountedFor

(* A planner that is about to look at the queue, or is building a segment, *)
(* when completed is set sees to it that plan_phase joins planners that    *)
(* have built every segment: of DrainedAfterCompletion what does not depend*)
(* on fairness, and when EveryLocatorPlanned can be relied upon.           *)
THEOREM LateStarterMissesNothing == Spec => [](LateStarter => []EveryLocatorPlanned)
<1>1. LateStarter => Draining
  BY DEF LateStarter, Draining, Drains
<1> QED
  BY <1>1, DrainedIsPlanned, StaysDraining, Invariance, CompletionFollowsPushes, PTL DEF Spec


=============================================================================
