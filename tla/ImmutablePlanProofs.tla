------------------------- MODULE ImmutablePlanProofs --------------------------
(***************************************************************************)
(* Proofs about ImmutablePlan, for any tables and any number of rows.      *)
(*                                                                         *)
(* RowsAccountedFor becomes inductive with what the planner carries along: *)
(* last_addr is the word of the entry before, so that the gap it computes  *)
(* is that of the layout; an entry that is being laid out has rows left;   *)
(* and there is a place to return to while its rows are counted.           *)
(*                                                                         *)
(* That a closed segment is its slice rests on a second invariant, over    *)
(* the first: the scan goes by words and chunks (ScanOrdered), the planner *)
(* carries the gap and the place it has reached (CarriedAlong), and the    *)
(* segment it fills has what the slice has up to the entry before, or up   *)
(* to this one, or just the place inside this one (CurrentHolds).          *)
(***************************************************************************)
EXTENDS ImmutablePlan, AccumulationProofs, FiniteSetTheorems

References == [chunk : Chunks, addr : Words, skip : Nat]

(* What add_to_current_segment knows of the scan at each of its stages.    *)
PlaceKnown ==
  /\ pc = "intermediates" => last_addr = (IF entry = 1 THEN 0 ELSE scan[entry - 1].word)
  /\ pc = "gap" => entry <= Len(scan) /\ last_addr = scan[entry].word
  /\ pc = "rows" => /\ entry <= Len(scan)
                    /\ last_addr = scan[entry].word
                    /\ pending \in 1 .. scan[entry].count
                    /\ reference \in References

(* The segments are a sequence.                                            *)
PlanTyped == segments \in Seq({segments[i] : i \in DOMAIN segments})

(* When the last segment is closed it is counted among the full ones.      *)
PlanClosed ==
  pc = "closed" =>
    /\ entry = Len(scan) + 1
    /\ TotalRows = IF MustClose THEN (Len(segments) - 1) * Rows + (Rows - rows_available)
                                ELSE Len(segments) * Rows

IInv == TypeOK /\ PlanTyped /\ PlaceKnown /\ RowsAccountedFor /\ PlanClosed

-----------------------------------------------------------------------------
(* The layout                                                              *)

(* The scan of a table consists of entries.                                *)
LEMMA ScanType ==
  ASSUME NEW t \in Tables
  PROVE  Scan(t) \in Seq(Entries)
<1> DEFINE Visits == [chunk : Chunks, count : Nat \ {0}]
           parts == [i \in 1 .. NumWords |->
                       IF ScannedWord(t, i - 1) THEN EntriesOf(t, i - 1) ELSE <<>>]
<1>1. NumWords \in Nat
  <2>1. Pages * PageSize \in Nat
    BY ScanAssumption
  <2> QED
    BY <2>1, ScanAssumption DEF NumWords
<1>2. ASSUME NEW w \in Words
      PROVE  EntriesOf(t, w) \in Seq(Entries)
  <2> DEFINE n == Len(t[w])
  <2>1. t[w] \in Seq(Visits)
    BY ScanAssumption DEF Tables
  <2>2. n \in Nat /\ DOMAIN t[w] = 1 .. n /\ \A c \in 1 .. n : t[w][c] \in Visits
    BY <2>1, SeqIsFunction
  <2> HIDE DEF n
  <2>3. \A c \in 1 .. n : c \in Nat \ {0}
    BY <2>2
  <2>4. EntriesOf(t, w) \in [1 .. n -> Entries]
    BY <2>2, <2>3 DEF EntriesOf, Entries
  <2> QED
    BY <2>2, <2>4, FunctionIsSeq
<1>3. \A i \in 1 .. NumWords : parts[i] \in Seq(Entries)
  <2>1. \A i \in 1 .. NumWords : i - 1 \in Words
    BY <1>1 DEF Words
  <2> QED
    BY <1>2, <2>1
<1>4. parts \in Seq(Seq(Entries))
  BY <1>1, <1>3
<1>5. Scan(t) = Concatenation(parts)
  BY DEF Scan
<1> HIDE DEF parts
<1> QED
  BY <1>4, <1>5, ConcatenationPlaces

(* An entry says how many rows it has.                                     *)
LEMMA ScanEntry ==
  ASSUME scan \in Seq(Entries)
  PROVE  /\ Len(scan) \in Nat /\ DOMAIN scan = 1 .. Len(scan)
         /\ \A i \in 1 .. Len(scan) : /\ scan[i].count \in Nat \ {0}
                                      /\ scan[i].word \in Words
                                      /\ scan[i].chunk \in Chunks
<1>1. \A i \in 1 .. Len(scan) : scan[i] \in Entries
  BY SeqIsFunction
<1>2. Len(scan) \in Nat /\ DOMAIN scan = 1 .. Len(scan)
  BY SeqIsFunction
<1> QED
  BY <1>1, <1>2 DEF Entries

(* Words are numbered from 0 on.                                           *)
LEMMA WordsType == NumWords \in Nat /\ Words \subseteq Nat /\ 0 \in Words
<1>1. NumWords \in Nat \ {0}
  <2>1. Pages * PageSize \in Nat \ {0}
    BY ScanAssumption
  <2> QED
    BY <2>1, ScanAssumption DEF NumWords
<1> QED
  BY <1>1 DEF Words

(* add_intermediates computes the number of words between two addresses.   *)
LEMMA GapIsCardinality ==
  ASSUME NEW p \in Words, NEW q \in Words
  PROVE  Gap(p, q) = Cardinality({w \in Words : p < w /\ w < q}) /\ Gap(p, q) \in Nat
<1>1. p \in Nat /\ q \in Nat
  BY WordsType
<1>2. {w \in Words : p < w /\ w < q} = p + 1 .. q - 1
  <2>1. NumWords \in Nat
    BY WordsType
  <2>2. q <= NumWords - 1
    BY <2>1 DEF Words
  <2> QED
    BY <1>1, <2>1, <2>2 DEF Words
<1>3. Cardinality(p + 1 .. q - 1) = IF p + 1 > q - 1 THEN 0 ELSE (q - 1) - (p + 1) + 1
  <2>1. p + 1 \in Int /\ q - 1 \in Int
    BY <1>1
  <2> QED
    BY <2>1, FS_Interval
<1>4. Gap(p, q) = IF p + 1 > q - 1 THEN 0 ELSE (q - 1) - (p + 1) + 1
  BY <1>1 DEF Gap
<1>5. Gap(p, q) \in Nat
  BY <1>1 DEF Gap
<1> QED
  BY <1>2, <1>3, <1>4, <1>5

(* The layout puts an entry and the gap before it behind the entry before. *)
LEMMA Layout ==
  ASSUME scan \in Seq(Entries)
  PROVE  /\ \A i \in 1 .. Len(scan) :
              /\ GapBefore(i) \in Nat /\ Begins(i) \in Nat /\ Ends(i) \in Nat
              /\ Ends(i) = Begins(i) + scan[i].count
              /\ Begins(i) = (IF i = 1 THEN 0 ELSE Ends(i - 1)) + GapBefore(i)
              /\ GapBefore(i) = Gap(IF i = 1 THEN 0 ELSE scan[i - 1].word, scan[i].word)
<1> USE ScanEntry
<1>1. ASSUME NEW i \in 1 .. Len(scan)
      PROVE  /\ GapBefore(i) = Gap(IF i = 1 THEN 0 ELSE scan[i - 1].word, scan[i].word)
             /\ GapBefore(i) \in Nat
  <2> DEFINE p == IF i = 1 THEN 0 ELSE scan[i - 1].word
  <2>1. i # 1 => i - 1 \in 1 .. Len(scan)
    OBVIOUS
  <2>2. p \in Words /\ scan[i].word \in Words
    BY <2>1, WordsType
  <2>3. GapBefore(i) = Cardinality({w \in Words : p < w /\ w < scan[i].word})
    BY DEF GapBefore
  <2> HIDE DEF p
  <2>4. GapBefore(i) = Gap(p, scan[i].word) /\ GapBefore(i) \in Nat
    BY <2>2, <2>3, GapIsCardinality
  <2> QED
    BY <2>4 DEF p
<1> DEFINE N == Len(scan)
           r == RunningTotal(RowsTaken)
<1>2. \A i \in 1 .. N : GapBefore(i) + scan[i].count \in Nat
  BY <1>1
<1>3. RowsTaken \in [1 .. N -> Nat] /\ N \in Nat
  BY <1>2 DEF RowsTaken
<1>4. RowsTaken \in Seq(Nat) /\ Len(RowsTaken) = N
  BY <1>3, FunctionIsSeq
<1>5. \A i \in 1 .. N : RowsTaken[i] = GapBefore(i) + scan[i].count
  BY DEF RowsTaken
<1>6. /\ r \in [0 .. N -> Nat]
      /\ r[0] = 0
      /\ \A n \in 1 .. N : r[n] = r[n - 1] + (GapBefore(n) + scan[n].count)
  BY <1>4, <1>5, RunningTotalDef
<1>7. \A i : Begins(i) = r[i - 1] + GapBefore(i) /\ Ends(i) = Begins(i) + scan[i].count
  BY DEF Begins, Ends
<1> HIDE DEF r
<1>8. ASSUME NEW i \in 1 .. N
      PROVE  /\ Begins(i) \in Nat /\ Ends(i) \in Nat /\ Ends(i) = Begins(i) + scan[i].count
             /\ Ends(i) = r[i]
             /\ Begins(i) = r[i - 1] + GapBefore(i)
  <2>1. i - 1 \in 0 .. N /\ r[i - 1] \in Nat
    BY <1>3, <1>6
  <2>2. scan[i].count \in Nat
    OBVIOUS
  <2>3. r[i] = r[i - 1] + (GapBefore(i) + scan[i].count)
    BY <1>6
  <2>4. Begins(i) = r[i - 1] + GapBefore(i) /\ Ends(i) = Begins(i) + scan[i].count
    BY <1>7
  <2>5. GapBefore(i) \in Nat
    BY <1>1
  <2> QED
    BY <2>1, <2>2, <2>3, <2>4, <2>5
<1>9. ASSUME NEW i \in 1 .. N
      PROVE  Begins(i) = (IF i = 1 THEN 0 ELSE Ends(i - 1)) + GapBefore(i)
  <2>1. CASE i = 1
    <3>1. Begins(1) = r[0] + GapBefore(1)
      BY <1>7
    <3> QED
      BY <1>6, <2>1, <3>1
  <2>2. CASE i # 1
    <3>1. i - 1 \in 1 .. N
      BY <2>2
    <3>2. Ends(i - 1) = r[i - 1]
      BY <1>8, <3>1
    <3> QED
      BY <1>8, <2>2, <3>2
  <2> QED
    BY <2>1, <2>2
<1> QED
  BY <1>1, <1>8, <1>9

-----------------------------------------------------------------------------
(* The steps of the planner                                                *)

(* The layout is that of the scan.                                         *)
LEMMA LayoutStays ==
  ASSUME UNCHANGED scan
  PROVE  /\ \A i : Begins(i)' = Begins(i)
         /\ \A i : Ends(i)' = Ends(i)
         /\ TotalRows' = TotalRows
  BY DEF Begins, Ends, TotalRows, RowsTaken, GapBefore

(* What the rest of the proof needs to know of a state.                    *)
LEMMA StateFacts ==
  ASSUME IInv
  PROVE  /\ Len(scan) \in Nat /\ DOMAIN scan = 1 .. Len(scan)
         /\ \A i \in 1 .. Len(scan) :
              /\ scan[i].count \in Nat \ {0}
              /\ scan[i].word \in Words
              /\ scan[i].chunk \in Chunks
              /\ Begins(i) \in Nat /\ Ends(i) \in Nat
              /\ Ends(i) = Begins(i) + scan[i].count
         /\ Len(segments) \in Nat
         /\ entry \in Nat \ {0} /\ entry <= Len(scan) + 1
         /\ pending \in Nat /\ rows_available \in 0 .. Rows /\ Rows \in Nat \ {0}
<1>1. scan \in Seq(Entries) /\ segments \in Seq({segments[i] : i \in DOMAIN segments})
  BY DEF IInv, TypeOK, PlanTyped
<1>2. Len(scan) \in Nat /\ DOMAIN scan = 1 .. Len(scan) /\ Len(segments) \in Nat
  BY <1>1, SeqIsFunction
<1>3. entry \in Nat \ {0} /\ entry <= Len(scan) + 1
  BY <1>2 DEF IInv, TypeOK
<1>4. pending \in Nat /\ rows_available \in 0 .. Rows /\ Rows \in Nat \ {0}
  BY ImmutableAssumption DEF IInv, TypeOK
<1> QED
  BY <1>1, <1>2, <1>3, <1>4, ScanEntry, Layout

(* Before the first gap.                                                   *)
LEMMA InitIInv == Init => IInv
<1> SUFFICES ASSUME Init PROVE IInv
  OBVIOUS
<1>1. scan \in Seq(Entries)
  BY ScanType DEF Init
<1>2. Len(scan) \in Nat
  BY <1>1
<1>3. entry \in 1 .. Len(scan) + 1 /\ entry = 1
  BY <1>2 DEF Init
<1>4. rows_available = Rows /\ Rows \in Nat \ {0}
  BY ImmutableAssumption DEF Init
<1>5. segments = <<>> /\ Len(segments) = 0
  BY DEF Init
<1>6. TypeOK
  BY <1>1, <1>3, <1>4, WordsType DEF Init, TypeOK
<1>7. PlanTyped
  BY <1>5 DEF PlanTyped
<1>8. PlaceKnown
  BY <1>3 DEF Init, PlaceKnown
<1>9. RowsAccountedFor
  BY <1>3, <1>4, <1>5 DEF Init, RowsAccountedFor, RowsHandedOut
<1>10. PlanClosed
  BY DEF Init, PlanClosed
<1> QED
  BY <1>6, <1>7, <1>8, <1>9, <1>10 DEF IInv

(* The gap computed is the one of the layout.                              *)
LEMMA AddIntermediatesIInv ==
  ASSUME IInv, AddIntermediates
  PROVE  IInv'
<1> DEFINE gap == Gap(last_addr, scan[entry].word)
<1>1. /\ UNCHANGED <<walk, scan, entry, rows_available, reference, segments>>
      /\ pc = "intermediates" /\ pc' = "gap"
      /\ pending' = gap /\ intermediate' = gap
      /\ last_addr' = scan[entry].word
  BY DEF AddIntermediates
<1>2. entry \in 1 .. Len(scan)
  BY StateFacts DEF AddIntermediates
<1>3. gap \in Nat
  BY <1>2, StateFacts, GapIsCardinality DEF IInv, TypeOK
<1>4. gap = GapBefore(entry)
  BY <1>1, <1>2, Layout DEF IInv, TypeOK, PlaceKnown
<1>5. RowsHandedOut = Begins(entry) - gap
  <2>1. RowsHandedOut = IF entry = 1 THEN 0 ELSE Ends(entry - 1)
    BY <1>1 DEF IInv, RowsAccountedFor
  <2>2. Begins(entry) = (IF entry = 1 THEN 0 ELSE Ends(entry - 1)) + gap
    BY <1>2, <1>4, Layout DEF IInv, TypeOK
  <2>3. (IF entry = 1 THEN 0 ELSE Ends(entry - 1)) \in Nat
    <3>1. entry # 1 => entry - 1 \in 1 .. Len(scan)
      BY <1>2
    <3> QED
      BY <3>1, StateFacts
  <2> DEFINE before == IF entry = 1 THEN 0 ELSE Ends(entry - 1)
             b == Begins(entry)
  <2>4. RowsHandedOut = before /\ b = before + gap /\ before \in Nat
    BY <2>1, <2>2, <2>3
  <2> HIDE DEF before, b, gap
  <2>5. RowsHandedOut = b - gap
    BY <1>3, <2>4
  <2> QED
    BY <2>5 DEF b
<1>6. RowsHandedOut' = RowsHandedOut
  BY <1>1 DEF RowsHandedOut
<1> HIDE DEF gap
<1>7. TypeOK'
  BY <1>1, <1>2, <1>3, StateFacts DEF IInv, TypeOK
<1>8. PlanTyped' /\ PlaceKnown' /\ PlanClosed'
  BY <1>1, <1>2 DEF IInv, PlanTyped, PlaceKnown, PlanClosed
<1>9. RowsAccountedFor'
  BY <1>1, <1>5, <1>6, LayoutStays DEF RowsAccountedFor
<1> QED
  BY <1>7, <1>8, <1>9 DEF IInv

(* A full segment that is closed makes room for as many rows.              *)
LEMMA ClosingKeepsRows ==
  ASSUME IInv, rows_available = 0, rows_available' = Rows, NEW segment,
         segments' = Closed(segment)
  PROVE  RowsHandedOut' = RowsHandedOut /\ PlanTyped'
<1> DEFINE n == Len(segments)
<1>1. n \in Nat /\ Len(segments') = n + 1 /\ PlanTyped'
  BY AppendIsSeq DEF IInv, PlanTyped, Closed
<1>2. RowsHandedOut' = (n + 1) * Rows + (Rows - Rows)
  BY <1>1 DEF RowsHandedOut
<1>3. RowsHandedOut = n * Rows + (Rows - 0)
  BY DEF RowsHandedOut
<1>4. (n + 1) * Rows + (Rows - Rows) = n * Rows + (Rows - 0)
  <2> HIDE DEF n
  <2> QED
    BY <1>1, ImmutableAssumption
<1> QED
  BY <1>1, <1>2, <1>3, <1>4

(* Rows taken from the current segment are rows handed out.                *)
LEMMA TakingRows ==
  ASSUME IInv, NEW n \in Nat, n <= rows_available, rows_available' = rows_available - n,
         UNCHANGED segments
  PROVE  RowsHandedOut' = RowsHandedOut + n /\ rows_available' \in 0 .. Rows
<1> DEFINE full == Len(segments) * Rows
<1>1. full \in Nat
  BY StateFacts
<1>2. RowsHandedOut = full + (Rows - rows_available)
      /\ RowsHandedOut' = full + (Rows - rows_available')
  BY DEF RowsHandedOut
<1>3. Rows \in Nat /\ rows_available \in Nat /\ rows_available <= Rows
  BY StateFacts
<1> DEFINE before == RowsHandedOut
           after == RowsHandedOut'
<1>4. before = full + (Rows - rows_available) /\ after = full + (Rows - (rows_available - n))
  BY <1>2
<1> HIDE DEF full, before, after
<1>5. after = before + n
  BY <1>1, <1>3, <1>4
<1>6. rows_available - n \in 0 .. Rows
  BY <1>3
<1> QED
  BY <1>5, <1>6 DEF before, after

(* Rows of the gap.                                                        *)
LEMMA ConsumeIntermediateRowsIInv ==
  ASSUME IInv, ConsumeIntermediateRows
  PROVE  IInv'
<1>1. /\ UNCHANGED <<walk, scan, entry, pc, intermediate, last_addr, reference>>
      /\ pc = "gap"
  BY DEF ConsumeIntermediateRows
<1> DEFINE n == IF rows_available = 0 THEN 0 ELSE Least(pending, rows_available)
<1>2. n \in Nat /\ n <= pending /\ n <= rows_available /\ pending' = pending - n
  BY StateFacts DEF ConsumeIntermediateRows, Least
<1>3. RowsHandedOut' = RowsHandedOut + n /\ rows_available' \in 0 .. Rows /\ PlanTyped'
  <2>1. CASE rows_available = 0
    <3>1. rows_available' = Rows /\ segments' = Closed(current_segment)
      BY <2>1 DEF ConsumeIntermediateRows
    <3>2. RowsHandedOut' = RowsHandedOut /\ PlanTyped'
      BY <2>1, <3>1, ClosingKeepsRows
    <3>3. RowsHandedOut \in Int
      BY StateFacts DEF RowsHandedOut
    <3> QED
      BY <2>1, <3>1, <3>2, <3>3, StateFacts
  <2>2. CASE rows_available # 0
    <3>1. rows_available' = rows_available - n /\ UNCHANGED segments
      BY <2>2 DEF ConsumeIntermediateRows
    <3>2. PlanTyped'
      BY <3>1 DEF IInv, PlanTyped
    <3> HIDE DEF n
    <3> QED
      BY <1>2, <3>1, <3>2, TakingRows
  <2> QED
    BY <2>1, <2>2
<1> HIDE DEF n
<1>4. entry \in 1 .. Len(scan)
  BY <1>1, StateFacts DEF IInv, PlaceKnown
<1>5. RowsHandedOut' = Begins(entry) - pending'
  <2>1. RowsHandedOut = Begins(entry) - pending
    BY <1>1 DEF IInv, RowsAccountedFor
  <2>2. Begins(entry) \in Nat
    BY <1>4, StateFacts
  <2> QED
    BY <1>2, <1>3, <2>1, <2>2, StateFacts
<1>6. TypeOK'
  BY <1>1, <1>2, <1>3, StateFacts DEF IInv, TypeOK
<1>7. PlaceKnown' /\ PlanClosed'
  BY <1>1 DEF IInv, PlaceKnown, PlanClosed
<1>8. RowsAccountedFor'
  BY <1>1, <1>5, LayoutStays DEF RowsAccountedFor
<1> QED
  BY <1>3, <1>6, <1>7, <1>8 DEF IInv

(* Behind the gap the entry begins.                                        *)
LEMMA PreopenSegmentIInv ==
  ASSUME IInv, PreopenSegment
  PROVE  IInv'
<1> DEFINE e == scan[entry]
<1>1. /\ UNCHANGED <<walk, scan, entry, intermediate, last_addr>>
      /\ pc = "gap" /\ pc' = "rows" /\ pending = 0 /\ pending' = e.count
      /\ reference' = [chunk |-> e.chunk, addr |-> e.word, skip |-> 0]
  BY DEF PreopenSegment
<1>2. entry \in 1 .. Len(scan) /\ last_addr = e.word
  BY <1>1, StateFacts DEF IInv, PlaceKnown
<1>3. /\ e.count \in Nat \ {0} /\ e.word \in Words /\ e.chunk \in Chunks
      /\ Begins(entry) \in Nat /\ Ends(entry) = Begins(entry) + e.count
  BY <1>2, StateFacts
<1>4. RowsHandedOut' = RowsHandedOut /\ rows_available' \in 0 .. Rows /\ PlanTyped'
  <2>1. CASE rows_available = 0
    <3>1. rows_available' = Rows /\ segments' = Closed(Announced(e))
      BY <2>1 DEF PreopenSegment
    <3> QED
      BY <2>1, <3>1, ClosingKeepsRows, StateFacts
  <2>2. CASE rows_available # 0
    <3>1. UNCHANGED <<segments, rows_available>>
      BY <2>2 DEF PreopenSegment
    <3> QED
      BY <3>1, StateFacts DEF IInv, PlanTyped, RowsHandedOut
  <2> QED
    BY <2>1, <2>2
<1>5. RowsHandedOut' = Ends(entry) - pending'
  <2>1. RowsHandedOut = Begins(entry) - 0
    BY <1>1 DEF IInv, RowsAccountedFor
  <2> HIDE DEF e
  <2> QED
    BY <1>1, <1>3, <1>4, <2>1
<1> HIDE DEF e
<1>6. reference' \in References
  BY <1>1, <1>3 DEF References
<1>7. TypeOK'
  BY <1>1, <1>3, <1>4, <1>6 DEF IInv, TypeOK, References
<1>8. PlaceKnown'
  BY <1>1, <1>2, <1>3, <1>6 DEF PlaceKnown, e
<1>9. PlanClosed'
  BY <1>1 DEF PlanClosed
<1>10. RowsAccountedFor'
  BY <1>1, <1>5, LayoutStays DEF RowsAccountedFor
<1> QED
  BY <1>4, <1>7, <1>8, <1>9, <1>10 DEF IInv

(* Rows of the entry; with the last one it is through.                     *)
LEMMA ConsumeRowsIInv ==
  ASSUME IInv, ConsumeRows
  PROVE  IInv'
<1> DEFINE e == scan[entry]
           n == Least(pending, rows_available)
<1>1. /\ UNCHANGED <<walk, scan, intermediate, last_addr>>
      /\ pc = "rows" /\ pending' = pending - n
      /\ reference' = [reference EXCEPT !.skip = Skipped(n)]
      /\ IF pending' = 0 THEN pc' = "intermediates" /\ entry' = entry + 1
                         ELSE UNCHANGED <<pc, entry>>
  BY DEF ConsumeRows
<1>2. /\ entry \in 1 .. Len(scan) /\ last_addr = e.word
      /\ pending \in 1 .. e.count /\ reference \in References
  BY <1>1, StateFacts DEF IInv, PlaceKnown
<1>3. n \in Nat /\ n <= pending /\ n <= rows_available
  BY StateFacts DEF Least
<1>4. e.count \in Nat /\ Ends(entry) \in Nat
  BY <1>2, StateFacts
<1>5. RowsHandedOut' = RowsHandedOut + n /\ rows_available' \in 0 .. Rows /\ PlanTyped'
  <2>1. CASE rows_available = 0
    <3>1. rows_available' = Rows /\ segments' = Closed(current_segment)
      BY <2>1 DEF ConsumeRows
    <3>2. RowsHandedOut' = RowsHandedOut /\ PlanTyped'
      BY <2>1, <3>1, ClosingKeepsRows
    <3>3. RowsHandedOut \in Int
      BY StateFacts DEF RowsHandedOut
    <3> QED
      BY <1>3, <2>1, <3>1, <3>2, <3>3, StateFacts
  <2>2. CASE rows_available # 0
    <3>1. rows_available' = rows_available - n /\ UNCHANGED segments
      BY <2>2 DEF ConsumeRows
    <3>2. PlanTyped'
      BY <3>1 DEF IInv, PlanTyped
    <3> HIDE DEF n
    <3> QED
      BY <1>3, <3>1, <3>2, TakingRows
  <2> QED
    BY <2>1, <2>2
<1> HIDE DEF n
<1>6. RowsHandedOut' = Ends(entry) - pending'
  <2>1. RowsHandedOut = Ends(entry) - pending
    BY <1>1 DEF IInv, RowsAccountedFor
  <2> QED
    BY <1>1, <1>3, <1>4, <1>5, <2>1, StateFacts
<1>7. reference' \in References
  <2>1. reference.skip + n \in Nat
    BY <1>2, <1>3 DEF References
  <2> QED
    BY <1>1, <1>2, <2>1 DEF References, Skipped
<1>8. pending' \in Nat
  BY <1>1, <1>3, StateFacts
<1> HIDE DEF e
<1>9. CASE pending' = 0
  <2>1. pc' = "intermediates" /\ entry' = entry + 1
    BY <1>1, <1>9
  <2>2. entry' \in 1 .. Len(scan) + 1 /\ entry' # 1 /\ entry' - 1 = entry
    BY <1>2, <2>1, StateFacts
  <2>3. TypeOK'
    BY <1>1, <1>5, <1>7, <1>8, <2>1, <2>2 DEF IInv, TypeOK, References
  <2>4. PlaceKnown' /\ PlanClosed'
    BY <1>1, <1>2, <2>1, <2>2 DEF PlaceKnown, PlanClosed, e
  <2>5. RowsAccountedFor'
    <3>1. RowsHandedOut' = Ends(entry)
      BY <1>4, <1>6, <1>9
    <3> QED
      BY <1>1, <2>1, <2>2, <3>1, LayoutStays DEF RowsAccountedFor
  <2> QED
    BY <1>5, <2>3, <2>4, <2>5 DEF IInv
<1>10. CASE pending' # 0
  <2>1. pc' = "rows" /\ entry' = entry
    BY <1>1, <1>10
  <2>2. pending' \in 1 .. e.count
    BY <1>1, <1>2, <1>3, <1>4, <1>8, <1>10
  <2>3. TypeOK'
    BY <1>1, <1>5, <1>7, <1>8, <2>1 DEF IInv, TypeOK, References
  <2>4. PlaceKnown' /\ PlanClosed'
    BY <1>1, <1>2, <1>7, <2>1, <2>2, StateFacts DEF PlaceKnown, PlanClosed, e
  <2>5. RowsAccountedFor'
    BY <1>1, <1>6, <2>1, LayoutStays DEF RowsAccountedFor
  <2> QED
    BY <1>5, <2>3, <2>4, <2>5 DEF IInv
<1> QED
  BY <1>9, <1>10

(* The rows of the layout are those handed out when the scan is through.   *)
LEMMA CloseLastSegmentIInv ==
  ASSUME IInv, CloseLastSegment
  PROVE  IInv'
<1>1. /\ UNCHANGED <<walk, scan, entry, pending, intermediate, last_addr, rows_available,
                     reference>>
      /\ pc = "intermediates" /\ pc' = "closed" /\ entry = Len(scan) + 1
  BY StateFacts DEF CloseLastSegment
<1>2. TotalRows = RowsHandedOut
  <2>1. RowsHandedOut = IF entry = 1 THEN 0 ELSE Ends(entry - 1)
    BY <1>1 DEF IInv, RowsAccountedFor
  <2>2. entry - 1 = Len(scan) /\ (entry = 1 <=> scan = <<>>)
    BY <1>1, StateFacts DEF IInv, TypeOK
  <2> QED
    BY <2>1, <2>2 DEF TotalRows
<1>3. /\ PlanTyped'
      /\ Len(segments) = IF MustClose' THEN Len(segments') - 1 ELSE Len(segments')
      /\ ~MustClose' => rows_available = Rows
  <2>1. CASE MustClose
    <3>1. segments' = Closed(current_segment)
      BY <2>1 DEF CloseLastSegment
    <3>2. PlanTyped' /\ Len(segments') = Len(segments) + 1
      BY <3>1, AppendIsSeq DEF IInv, PlanTyped, Closed
    <3> QED
      BY <1>1, <2>1, <3>2, StateFacts DEF MustClose
  <2>2. CASE ~MustClose
    <3>1. UNCHANGED segments
      BY <2>2 DEF CloseLastSegment
    <3>2. rows_available = Rows
      BY <2>2, StateFacts DEF MustClose
    <3> QED
      BY <1>1, <2>2, <3>1, <3>2 DEF MustClose, IInv, PlanTyped
  <2> QED
    BY <2>1, <2>2
<1>4. TypeOK' /\ PlaceKnown' /\ RowsAccountedFor'
  BY <1>1 DEF IInv, TypeOK, PlaceKnown, RowsAccountedFor
<1>5. PlanClosed'
  <2>1. TotalRows' = Len(segments) * Rows + (Rows - rows_available)
    BY <1>1, <1>2, LayoutStays DEF RowsHandedOut
  <2>2. Len(segments) * Rows \in Nat
    BY StateFacts
  <2>3. ~MustClose' => TotalRows' = Len(segments') * Rows
    BY <1>3, <2>1, <2>2, StateFacts
  <2>4. MustClose' => TotalRows' = (Len(segments') - 1) * Rows + (Rows - rows_available')
    BY <1>1, <1>3, <2>1
  <2> QED
    BY <1>1, <2>3, <2>4 DEF PlanClosed
<1> QED
  BY <1>3, <1>4, <1>5 DEF IInv

(* Every step of the planner keeps the inductive invariant.                *)
LEMMA NextIInv ==
  ASSUME IInv, [Next]_vars
  PROVE  IInv'
<1>1. CASE AddIntermediates
  BY <1>1, AddIntermediatesIInv
<1>2. CASE ConsumeIntermediateRows
  BY <1>2, ConsumeIntermediateRowsIInv
<1>3. CASE PreopenSegment
  BY <1>3, PreopenSegmentIInv
<1>4. CASE ConsumeRows
  BY <1>4, ConsumeRowsIInv
<1>5. CASE CloseLastSegment
  BY <1>5, CloseLastSegmentIInv
<1>6. CASE UNCHANGED vars
  <2>1. RowsAccountedFor'
    BY <1>6, LayoutStays DEF vars, IInv, RowsAccountedFor, RowsHandedOut
  <2>2. PlanClosed'
    BY <1>6, LayoutStays DEF vars, IInv, PlanClosed, MustClose
  <2> QED
    BY <1>6, <2>1, <2>2 DEF vars, IInv, TypeOK, PlanTyped, PlaceKnown
<1>7. CASE Finished
  BY <1>6, <1>7 DEF Finished
<1> QED
  BY <1>1, <1>2, <1>3, <1>4, <1>5, <1>6, <1>7 DEF Next

(* The inductive invariant holds in every state.                           *)
LEMMA Invariance == Spec => []IInv
<1>1. Init => IInv
  BY InitIInv
<1>2. IInv /\ [Next]_vars => IInv'
  BY NextIInv
<1> QED
  BY <1>1, <1>2, PTL DEF Spec

-----------------------------------------------------------------------------
(* The state of the planner is well-typed; in particular the reference it  *)
(* opens segments with is a place of the region or none.                   *)
THEOREM ImmutableTypeCorrect == Spec => []TypeOK
<1>1. IInv => TypeOK
  BY DEF IInv
<1> QED
  BY <1>1, Invariance, PTL

(* No row of a gap or of an entry is lost or doubled where a segment ends  *)
(* inside it (consume_intermediate_rows, preopen_segment, consume_rows).   *)
THEOREM ImmutableRowsAccountedFor == Spec => []RowsAccountedFor
<1>1. IInv => RowsAccountedFor
  BY DEF IInv
<1> QED
  BY <1>1, Invariance, PTL

(* The collected plan has as many segments as the rows need.               *)
LEMMA CollectedCovers ==
  ASSUME IInv
  PROVE  PlanCoversScan
<1> SUFFICES ASSUME pc = "closed"
             PROVE  DOMAIN Collected = 0 .. (TotalRows + Rows - 1) \div Rows - 1
  BY DEF PlanCoversScan
<1> DEFINE n == Len(segments)
           total == TotalRows
<1>1. n \in Nat /\ Rows \in Nat \ {0} /\ rows_available \in 0 .. Rows
  BY StateFacts
<1>2. total = IF MustClose THEN (n - 1) * Rows + (Rows - rows_available) ELSE n * Rows
  BY DEF IInv, PlanClosed
<1>3. MustClose <=> rows_available < Rows
  BY DEF MustClose
<1> HIDE DEF n, total
<1>4. (total + Rows - 1) \div Rows = n
  <2> DEFINE q == total + Rows - 1
             r == IF MustClose THEN Rows - rows_available - 1 ELSE Rows - 1
  <2>1. q = n * Rows + r /\ r \in 0 .. Rows - 1
    <3>1. (n - 1) * Rows = n * Rows - Rows /\ n * Rows \in Nat
      BY <1>1
    <3> DEFINE m == n * Rows
    <3>2. total = IF MustClose THEN m - Rows + (Rows - rows_available) ELSE m
      BY <1>2, <3>1
    <3>3. m \in Nat
      BY <3>1
    <3> HIDE DEF m
    <3>4. q = m + r /\ r \in 0 .. Rows - 1
      BY <1>1, <1>3, <3>2, <3>3
    <3> QED
      BY <3>4 DEF m
  <2> HIDE DEF q, r
  <2>2. q \div Rows = n
    BY <1>1, <2>1
  <2> QED
    BY <2>2 DEF q
<1>5. DOMAIN Collected = 0 .. n - 1
  BY DEF Collected, n
<1> QED
  BY <1>4, <1>5 DEF total

(* At the end the plan covers the layout, for any tables: no empty segment *)
(* and none left open.                                                     *)
THEOREM ImmutablePlanCoversScan == Spec => []PlanCoversScan
<1>1. IInv => PlanCoversScan
  BY CollectedCovers
<1> QED
  BY <1>1, Invariance, PTL

-----------------------------------------------------------------------------
(* Slices                                                                  *)

(* The scan goes by words and, within a word, by chunks.                   *)
ScanOrdered ==
  \A j \in 1 .. Len(scan) : \A i \in 1 .. j - 1 :
    \/ scan[i].word < scan[j].word
    \/ scan[i].word = scan[j].word /\ scan[i].chunk < scan[j].chunk

LEMMA ScanIsOrdered ==
  ASSUME walk \in Tables, scan = Scan(walk)
  PROVE  ScanOrdered
<1> DEFINE parts == [i \in 1 .. NumWords |->
                       IF ScannedWord(walk, i - 1) THEN EntriesOf(walk, i - 1) ELSE <<>>]
           Visits == [chunk : Chunks, count : Nat \ {0}]
<1>1. NumWords \in Nat /\ \A n \in 1 .. NumWords : n - 1 \in Words
  BY WordsType DEF Words
<1>2. ASSUME NEW n \in 1 .. NumWords
      PROVE  /\ parts[n] \in Seq(Entries)
             /\ \A c \in 1 .. Len(parts[n]) :
                  /\ parts[n][c].word = n - 1
                  /\ parts[n][c].chunk = walk[n - 1][c].chunk
                  /\ c \in DOMAIN walk[n - 1]
  <2> DEFINE w == n - 1
             m == Len(walk[w])
             f == EntriesOf(walk, w)
  <2>1. w \in Words
    BY <1>1
  <2>2. walk[w] \in Seq(Visits)
    BY <2>1, ScanAssumption DEF Tables
  <2>3. m \in Nat /\ DOMAIN walk[w] = 1 .. m /\ \A c \in 1 .. m : walk[w][c] \in Visits
    <3> HIDE DEF Visits, w
    <3> QED
      BY <2>2, SeqIsFunction
  <2>4. f = [c \in 1 .. m |-> [word |-> w, cpos |-> c, chunk |-> walk[w][c].chunk,
                               count |-> walk[w][c].count]]
    BY <2>3 DEF EntriesOf
  <2>5. parts[n] = f \/ parts[n] = <<>>
    OBVIOUS
  <2> HIDE DEF w, m, f, parts
  <2>6. \A c \in 1 .. m : c \in Nat \ {0}
    BY <2>3
  <2>7. f \in [1 .. m -> Entries]
    BY <2>1, <2>3, <2>4, <2>6 DEF Entries
  <2>8. f \in Seq(Entries) /\ Len(f) = m
    BY <2>3, <2>7, FunctionIsSeq
  <2>9. \A c \in 1 .. m : f[c].word = w /\ f[c].chunk = walk[w][c].chunk /\ c \in DOMAIN walk[w]
    BY <2>3, <2>4
  <2>10. CASE parts[n] = f
    BY <2>8, <2>9, <2>10 DEF w
  <2>11. CASE parts[n] = <<>>
    BY <2>11
  <2> QED
    BY <2>5, <2>10, <2>11
<1>3. parts \in Seq(Seq(Entries)) /\ Len(parts) = NumWords
  BY <1>1, <1>2
<1>4. scan = Concatenation(parts)
  BY DEF Scan
<1> HIDE DEF parts
<1>5. PICK a, b : scan \in Seq(Entries) /\ Places(parts, scan, NumWords, a, b)
  BY <1>3, <1>4, ConcatenationPlaces
<1>6. ASSUME NEW i \in 1 .. Len(scan)
      PROVE  /\ a[i] \in 1 .. NumWords
             /\ scan[i].word = a[i] - 1
             /\ scan[i].chunk = walk[a[i] - 1][b[i]].chunk
             /\ b[i] \in DOMAIN walk[a[i] - 1]
  <2>1. a[i] \in 1 .. NumWords /\ b[i] \in 1 .. Len(parts[a[i]]) /\ scan[i] = parts[a[i]][b[i]]
    BY <1>5 DEF Places
  <2> QED
    BY <1>2, <2>1, Zenon
<1>7. ASSUME NEW j \in 1 .. Len(scan), NEW i \in 1 .. j - 1
      PROVE  \/ scan[i].word < scan[j].word
             \/ scan[i].word = scan[j].word /\ scan[i].chunk < scan[j].chunk
  <2>1. i \in 1 .. Len(scan)
    BY <1>5
  <2>2. a[i] < a[j] \/ (a[i] = a[j] /\ b[i] < b[j])
    BY <1>5 DEF Places
  <2>3. CASE a[i] < a[j]
    <3>1. PICK m \in 1 .. NumWords, n \in 1 .. NumWords : m = a[i] /\ n = a[j]
      BY <1>6, <2>1
    <3>2. m - 1 < n - 1
      BY <1>1, <2>3, <3>1
    <3> QED
      BY <1>6, <2>1, <3>1, <3>2
  <2>4. CASE a[i] = a[j] /\ b[i] < b[j]
    <3> DEFINE v == walk[a[j] - 1]
    <3>1. v \in Walks
      BY <1>1, <1>6 DEF Tables
    <3>2. b[i] \in DOMAIN v /\ b[j] \in DOMAIN v
      BY <1>6, <2>1, <2>4
    <3>3. v[b[i]].chunk < v[b[j]].chunk
      BY <2>4, <3>1, <3>2, ScanAssumption
    <3> QED
      BY <1>6, <2>1, <2>4, <3>3
  <2> QED
    BY <2>2, <2>3, <2>4
<1> QED
  BY <1>7 DEF ScanOrdered

(* A check point of a chunk that is new in a segment, and one that is not. *)
LEMMA SegmentGrows ==
  ASSUME NEW segment, NEW c, NEW addr, NEW skip, NEW n
  PROVE  LET t == AddOrUpdate(segment, c, addr, skip, n)
         IN  /\ t = [chunks |-> t.chunks, tot_count |-> segment.tot_count + n]
             /\ t.tot_count = segment.tot_count + n
             /\ t.chunks = [x \in DOMAIN t.chunks |-> t.chunks[x]]
             /\ DOMAIN t.chunks = DOMAIN segment.chunks \cup {c}
             /\ \A x \in DOMAIN segment.chunks : x # c => t.chunks[x] = segment.chunks[x]
             /\ t.chunks[c] = IF c \in DOMAIN segment.chunks
                                THEN AddRows(segment.chunks[c], addr, n)
                                ELSE CheckPoint(addr, skip, n, segment.tot_count)
BY DEF AddOrUpdate

(* More rows of a chunk, of a word that it was not at first nor last.      *)
LEMMA AddRowsIs ==
  ASSUME NEW a, NEW b, NEW l, NEW c, NEW t, NEW n, NEW d, NEW addr, NEW row,
         addr # a, addr # t
  PROVE  AddRows([from_addr |-> a, from_skip |-> b, from_count |-> l, to_addr |-> t,
                  to_count |-> c, count |-> n, debug_row |-> d], addr, row)
           = [from_addr |-> a, from_skip |-> b, from_count |-> l, to_addr |-> addr,
              to_count |-> row, count |-> n + row, debug_row |-> d]
<1> DEFINE p == [from_addr |-> a, from_skip |-> b, from_count |-> l, to_addr |-> t,
                 to_count |-> c, count |-> n, debug_row |-> d]
<1>1. p.from_addr # addr /\ p.to_addr # addr /\ p.from_count = l
  OBVIOUS
<1>2. AddRows(p, addr, row) =
        [p EXCEPT !.count = @ + row, !.from_count = @, !.to_addr = addr, !.to_count = row]
  BY <1>1 DEF AddRows
<1> QED
  BY <1>2

(* The entries lie one behind the other.                                   *)
LEMMA EndsBefore ==
  ASSUME IInv, NEW i \in 1 .. Len(scan), NEW j \in i + 1 .. Len(scan)
  PROVE  Ends(i) <= Begins(j) /\ Begins(i) < Begins(j)
<1> DEFINE L == Len(scan)
           T == {n \in i + 1 .. L : Ends(i) <= Begins(n)}
<1>1. L \in Nat /\ i \in Nat /\ i \in 1 .. L /\ i + 1 \in 1 .. L
  BY StateFacts
<1>2. \A n \in 1 .. L : /\ Begins(n) \in Nat /\ Ends(n) \in Nat /\ GapBefore(n) \in Nat
                        /\ Begins(n) < Ends(n)
                        /\ n # 1 => Begins(n) = Ends(n - 1) + GapBefore(n)
  <2>1. scan \in Seq(Entries)
    BY DEF IInv, TypeOK
  <2> SUFFICES ASSUME NEW n \in 1 .. L
               PROVE  /\ Begins(n) \in Nat /\ Ends(n) \in Nat /\ GapBefore(n) \in Nat
                      /\ Begins(n) < Ends(n)
                      /\ n # 1 => Begins(n) = Ends(n - 1) + GapBefore(n)
    OBVIOUS
  <2>2. /\ Begins(n) \in Nat /\ Ends(n) \in Nat /\ GapBefore(n) \in Nat
        /\ Ends(n) = Begins(n) + scan[n].count
        /\ n # 1 => Begins(n) = Ends(n - 1) + GapBefore(n)
    BY <2>1, Layout
  <2>3. scan[n].count \in Nat \ {0}
    BY StateFacts
  <2> QED
    BY <2>2, <2>3
<1>3. i + 1 \in T
  <2>1. Begins(i + 1) = Ends((i + 1) - 1) + GapBefore(i + 1) /\ (i + 1) - 1 = i /\ i + 1 # 1
    BY <1>1, <1>2
  <2>2. Ends(i) \in Nat /\ GapBefore(i + 1) \in Nat
    BY <1>1, <1>2
  <2>3. Ends(i) <= Begins(i + 1)
    BY <2>1, <2>2
  <2> QED
    BY <1>1, <2>3
<1>4. ASSUME NEW n \in i + 1 .. L - 1, n \in T PROVE n + 1 \in T
  <2>1. n \in 1 .. L /\ n + 1 \in 1 .. L /\ (n + 1) - 1 = n /\ n + 1 # 1 /\ n + 1 \in i + 1 .. L
    BY <1>1
  <2>2. Begins(n + 1) = Ends(n) + GapBefore(n + 1)
    BY <1>2, <2>1
  <2>3. PICK x \in Nat, y \in Nat, z \in Nat, g \in Nat, u \in Nat :
          x = Ends(i) /\ y = Begins(n) /\ z = Ends(n) /\ g = GapBefore(n + 1) /\ u = Begins(n + 1)
    BY <1>1, <1>2, <2>1
  <2>4. x <= y /\ y < z /\ u = z + g
    BY <1>2, <1>4, <2>1, <2>2, <2>3
  <2>5. x <= u
    BY <2>4
  <2> QED
    BY <2>1, <2>3, <2>5
<1> HIDE DEF T
<1>5. \A n \in i + 1 .. L : n \in T
  <2>1. i + 1 \in Int /\ L \in Int
    BY <1>1
  <2> HIDE DEF L
  <2> QED
    BY <1>3, <1>4, <2>1, IntervalInduction
<1>6. Ends(i) <= Begins(j)
  BY <1>5 DEF T
<1>7. j \in 1 .. L
  BY <1>1
<1>8. PICK x \in Nat, y \in Nat, z \in Nat : x = Begins(i) /\ y = Ends(i) /\ z = Begins(j)
  BY <1>1, <1>2, <1>7
<1>9. x < y /\ y <= z
  BY <1>1, <1>2, <1>6, <1>8
<1> QED
  BY <1>6, <1>8, <1>9

(* The rows of an entry in a slice, by the numbers of its rows.            *)
LEMMA RowsInSliceIs ==
  ASSUME IInv, NEW k \in Nat, NEW i \in 1 .. Len(scan), NEW lo \in Nat, lo = k * Rows
  PROVE  LET a == Begins(i)
             b == Ends(i)
         IN  /\ a \in Nat /\ b \in Nat /\ a < b /\ b = a + scan[i].count /\ GapBefore(i) \in Nat
             /\ RowsInSlice(i, k) =
                  IF b > lo /\ a < lo + Rows
                    THEN Least(b, lo + Rows) - (IF a < lo THEN lo ELSE a)
                    ELSE IF a = lo + Rows /\ GapBefore(i) > 0 THEN 1 ELSE 0
             /\ RowsInSlice(i, k) \in Nat
<1> DEFINE a == Begins(i)
           b == Ends(i)
           g == GapBefore(i)
           from == Max({a, k * Rows})
           to == Min({b, (k + 1) * Rows})
           rows == RowsInSlice(i, k)
<1>1. /\ a \in Nat /\ b \in Nat /\ a < b /\ b = a + scan[i].count
      /\ Rows \in Nat \ {0} /\ g \in Nat
  <2>1. a \in Nat /\ scan[i].count \in Nat \ {0} /\ Rows \in Nat \ {0}
    BY StateFacts
  <2>2. b = a + scan[i].count
    BY StateFacts
  <2>3. g \in Nat
    BY Layout DEF IInv, TypeOK
  <2> HIDE DEF a, b, g
  <2> QED
    BY <2>1, <2>2, <2>3
<1>2. (k + 1) * Rows = lo + Rows
  BY <1>1
<1>3. rows = IF from < to THEN to - from ELSE IF a = (k + 1) * Rows /\ g > 0 THEN 1 ELSE 0
  BY DEF RowsInSlice, AnnouncedIn
<1> HIDE DEF a, b, g, rows
<1>4. from = (IF a < lo THEN lo ELSE a) /\ to = Least(b, lo + Rows)
  <2>1. PICK hi \in Nat : hi = lo + Rows
    BY <1>1
  <2>2. from = Max({a, lo}) /\ to = Min({b, hi})
    BY <1>2, <2>1
  <2>3. from = (IF a < lo THEN lo ELSE a) /\ to = (IF b < hi THEN b ELSE hi)
    BY <1>1, <2>2, MaxMinPair
  <2> QED
    BY <2>1, <2>3 DEF Least
<1> HIDE DEF from, to
<1>5. from < to <=> b > lo /\ a < lo + Rows
  BY <1>1, <1>4 DEF Least
<1>6. rows = IF b > lo /\ a < lo + Rows
               THEN Least(b, lo + Rows) - (IF a < lo THEN lo ELSE a)
               ELSE IF a = lo + Rows /\ g > 0 THEN 1 ELSE 0
  BY <1>2, <1>3, <1>4, <1>5
<1>7. rows \in Nat
  BY <1>1, <1>6 DEF Least
<1> QED
  BY <1>1, <1>6, <1>7 DEF a, b, g, rows

(* The rows of a slice, and those of a chunk in it, entry by entry.        *)
LEMMA SliceRowsGrow ==
  ASSUME IInv, NEW k \in Nat, NEW c, NEW w,
         w = SliceRows(k) \/ w = ChunkRows(k, c)
  PROVE  /\ w \in Seq(Nat) /\ Len(w) = Len(scan)
         /\ \A i \in 1 .. Len(scan) :
              /\ w = SliceRows(k) => w[i] = RowsInSlice(i, k)
              /\ w = ChunkRows(k, c) => w[i] = IF scan[i].chunk = c THEN RowsInSlice(i, k) ELSE 0
              /\ RowsInSlice(i, k) = 0 => w[i] = 0
<1> DEFINE L == Len(scan)
<1>1. L \in Nat /\ DOMAIN scan = 1 .. L
  BY StateFacts
<1>2. PICK lo \in Nat : lo = k * Rows
  BY StateFacts
<1>3. \A i \in 1 .. L : RowsInSlice(i, k) \in Nat
  BY <1>2, RowsInSliceIs
<1> HIDE DEF L
<1>4. CASE w = SliceRows(k)
  <2>1. w \in [1 .. L -> Nat] /\ \A i \in 1 .. L : w[i] = RowsInSlice(i, k)
    BY <1>1, <1>3, <1>4 DEF SliceRows
  <2>2. w \in Seq(Nat) /\ Len(w) = L
    BY <1>1, <2>1, FunctionIsSeq
  <2>3. w = ChunkRows(k, c) =>
          \A i \in 1 .. L : w[i] = IF scan[i].chunk = c THEN RowsInSlice(i, k) ELSE 0
    BY <1>1 DEF ChunkRows
  <2> QED
    BY <2>1, <2>2, <2>3 DEF L
<1>5. CASE w = ChunkRows(k, c)
  <2>1. /\ w \in [1 .. L -> Nat]
        /\ \A i \in 1 .. L : w[i] = IF scan[i].chunk = c THEN RowsInSlice(i, k) ELSE 0
    BY <1>1, <1>3, <1>5 DEF ChunkRows
  <2>2. w \in Seq(Nat) /\ Len(w) = L
    BY <1>1, <2>1, FunctionIsSeq
  <2>3. w = SliceRows(k) => \A i \in 1 .. L : w[i] = RowsInSlice(i, k)
    BY <1>1 DEF SliceRows
  <2> QED
    BY <2>1, <2>2, <2>3 DEF L
<1> QED
  BY <1>4, <1>5

(* An entry behind the slice that does not begin right behind it, or       *)
(* begins there without a gap, is not in it.                               *)
LEMMA LaterNotInSlice ==
  ASSUME IInv, NEW k \in Nat, NEW i \in 1 .. Len(scan), NEW lo \in Nat, lo = k * Rows,
         Begins(i) > lo + Rows \/ (Begins(i) = lo + Rows /\ GapBefore(i) = 0)
  PROVE  i \notin InSlice(k) /\ RowsInSlice(i, k) = 0
<1>1. PICK a, b, g, r : a = Begins(i) /\ b = Ends(i) /\ g = GapBefore(i) /\ r = RowsInSlice(i, k)
  OBVIOUS
<1>2. /\ a \in Nat /\ b \in Nat /\ g \in Nat
      /\ r = IF b > lo /\ a < lo + Rows THEN Least(b, lo + Rows) - (IF a < lo THEN lo ELSE a)
             ELSE IF a = lo + Rows /\ g > 0 THEN 1 ELSE 0
  BY <1>1, RowsInSliceIs
<1>3. Rows \in Nat
  BY StateFacts
<1>4. ~(a < lo + Rows) /\ ~(a < lo) /\ ~(a = lo + Rows /\ g > 0)
  BY <1>1, <1>2, <1>3
<1>5. r = 0
  BY <1>2, <1>4
<1>6. i \notin AnchorOf(k)
  BY <1>1, <1>4 DEF AnchorOf
<1>7. RowsInSlice(i, k) = 0 /\ ~(0 > 0)
  BY <1>1, <1>5
<1>8. i \notin {j \in DOMAIN scan : RowsInSlice(j, k) > 0}
  BY <1>7
<1> QED
  BY <1>6, <1>7, <1>8 DEF InSlice

-----------------------------------------------------------------------------
(* What a segment has of a slice                                           *)

(* The entries of the slice up to the n-th of the scan, and those of a     *)
(* chunk among them.                                                       *)
Gone(k, n) == {i \in InSlice(k) : i <= n}
Mine(k, c, n) == {i \in Gone(k, n) : scan[i].chunk = c}

(* The rows of an entry that lie ahead of the slice.                       *)
SkipIn(i, k) ==
  IF k * Rows > Begins(i) THEN Least(scan[i].count, k * Rows - Begins(i)) ELSE 0

(* The check point of a chunk that has come to the segment with entry f,   *)
(* and was there last with entry g.                                        *)
CheckPointOf(k, c, f, g, n) ==
  [from_addr  |-> scan[f].word,
   from_skip  |-> SkipIn(f, k),
   from_count |-> RowsInSlice(f, k),
   to_addr    |-> scan[g].word,
   to_count   |-> RowsInSlice(g, k),
   count      |-> RunningTotal(ChunkRows(k, c))[n],
   debug_row  |-> RunningTotal(SliceRows(k))[f - 1]]

(* The segment has what the slice has up to entry n.                       *)
Recorded(k, n, chunks) ==
  /\ chunks = [c \in DOMAIN chunks |-> chunks[c]]
  /\ DOMAIN chunks = {scan[i].chunk : i \in Gone(k, n)}
  /\ \A c \in DOMAIN chunks :
       \E f, g : /\ Smallest(f, Mine(k, c, n)) /\ Largest(g, Mine(k, c, n))
                 /\ chunks[c] = CheckPointOf(k, c, f, g, n)

Holds(k, n, segment) ==
  /\ Recorded(k, n, segment.chunks)
  /\ segment.tot_count = RunningTotal(SliceRows(k))[n]

(* When nothing else of the slice is to come, the segment is the slice.    *)
LEMMA RecordedIsSlice ==
  ASSUME IInv, NEW k \in Nat, NEW n \in 0 .. Len(scan), NEW chunks, Recorded(k, n, chunks),
         \A i \in n + 1 .. Len(scan) : i \notin InSlice(k) /\ RowsInSlice(i, k) = 0
  PROVE  chunks = Slice(k)
<1> DEFINE L == Len(scan)
<1>1. L \in Nat /\ DOMAIN scan = 1 .. L /\ InSlice(k) \subseteq 1 .. L
  BY StateFacts DEF InSlice, AnchorOf
<1>2. Gone(k, n) = InSlice(k)
  <2>1. \A i \in 1 .. L : i <= n \/ i \in n + 1 .. L
    BY <1>1
  <2> QED
    BY <1>1, <2>1 DEF Gone
<1>3. ASSUME NEW c \in DOMAIN chunks PROVE chunks[c] = SliceCheckPoint(k, c)
  <2> DEFINE mine == {i \in InSlice(k) : scan[i].chunk = c}
             w == ChunkRows(k, c)
  <2>1. Mine(k, c, n) = mine
    BY <1>2 DEF Mine
  <2>2. PICK f, g : /\ Smallest(f, mine) /\ Largest(g, mine)
                    /\ chunks[c] = CheckPointOf(k, c, f, g, n)
    BY <2>1 DEF Recorded
  <2>3. Min(mine) = f /\ Max(mine) = g
    <3>1. mine \subseteq Nat
      BY <1>1
    <3> HIDE DEF mine
    <3> QED
      BY <2>2, <3>1, MinIs, MaxIs
  <2>4. Total(w) = RunningTotal(w)[n]
    <3>1. w \in Seq(Nat) /\ Len(w) = L /\ \A i \in n + 1 .. L : w[i] = 0
      <4>1. \A i \in n + 1 .. L : i \in 1 .. L
        BY <1>1
      <4> QED
        BY <4>1, SliceRowsGrow
    <3>2. n \in 0 .. Len(w) /\ L \in n .. Len(w)
      BY <1>1, <3>1
    <3> HIDE DEF w, L
    <3>3. RunningTotal(w)[L] = RunningTotal(w)[n]
      BY <3>1, <3>2, RunningTotalFlat
    <3> QED
      BY <3>1, <3>3 DEF Total
  <2> HIDE DEF w
  <2>5. SliceCheckPoint(k, c) = CheckPointOf(k, c, f, g, n)
    BY <2>3, <2>4 DEF SliceCheckPoint, CheckPointOf, SkipIn, w
  <2> QED
    BY <2>2, <2>5
<1>4. DOMAIN chunks = {scan[i].chunk : i \in InSlice(k)}
  BY <1>2 DEF Recorded
<1>5. chunks = [c \in DOMAIN chunks |-> chunks[c]]
  BY DEF Recorded
<1>6. chunks = [c \in DOMAIN chunks |-> SliceCheckPoint(k, c)]
  BY <1>3, <1>5
<1> QED
  BY <1>4, <1>6 DEF Slice

(* Before its first entry a slice has nothing.                             *)
LEMMA HoldsNothing ==
  ASSUME IInv, NEW k \in Nat, NEW n \in 0 .. Len(scan),
         \A i \in 1 .. n : i \notin InSlice(k) /\ RowsInSlice(i, k) = 0
  PROVE  Holds(k, n, EmptySegment)
<1>1. Len(scan) \in Nat /\ DOMAIN scan = 1 .. Len(scan) /\ InSlice(k) \subseteq 1 .. Len(scan)
  BY StateFacts DEF InSlice, AnchorOf
<1>2. Gone(k, n) = {}
  <2>1. \A i \in 1 .. Len(scan) : i <= n => i \in 1 .. n
    BY <1>1
  <2> QED
    BY <1>1, <2>1 DEF Gone
<1>3. DOMAIN EmptySegment.chunks = {} /\ EmptySegment.tot_count = 0
  BY DEF EmptySegment
<1>4. EmptySegment.chunks = [c \in DOMAIN EmptySegment.chunks |-> EmptySegment.chunks[c]]
  BY DEF EmptySegment
<1>5. Recorded(k, n, EmptySegment.chunks)
  BY <1>2, <1>3, <1>4 DEF Recorded
<1>6. RunningTotal(SliceRows(k))[n] = 0
  <2> DEFINE w == SliceRows(k)
  <2>1. w \in Seq(Nat) /\ Len(w) = Len(scan) /\ \A i \in 1 .. n : w[i] = 0
    <3>1. \A i \in 1 .. n : i \in 1 .. Len(scan)
      BY <1>1
    <3> QED
      BY <3>1, SliceRowsGrow
  <2> HIDE DEF w
  <2>2. RunningTotal(w)[n] = 0
    BY <2>1, RunningTotalOfZeros
  <2> QED
    BY <2>2 DEF w
<1> QED
  BY <1>3, <1>5, <1>6 DEF Holds

(* The next entry of the slice: its rows are added to the check point of   *)
(* its chunk, or become a new one.                                         *)
LEMMA NextInSlice ==
  ASSUME IInv, ScanOrdered, NEW k \in Nat, NEW m \in 1 .. Len(scan), m \in InSlice(k),
         NEW segment, Holds(k, m - 1, segment),
         NEW row, row = RowsInSlice(m, k), NEW skip, skip = SkipIn(m, k)
  PROVE  Holds(k, m, AddOrUpdate(segment, scan[m].chunk, scan[m].word, skip, row))
<1> DEFINE n == m - 1
           h == scan[m].chunk
           addr == scan[m].word
           old == segment.chunks
           next == AddOrUpdate(segment, h, addr, skip, row)
           new == next.chunks
<1>1. PICK lo \in Nat : lo = k * Rows
  BY StateFacts
<1>2. /\ Len(scan) \in Nat /\ n \in 0 .. Len(scan) /\ n \in Nat /\ m \in Nat /\ n < m
      /\ DOMAIN scan = 1 .. Len(scan)
  BY StateFacts
<1>3. InSlice(k) \subseteq 1 .. Len(scan)
  BY <1>2 DEF InSlice, AnchorOf
<1>4. /\ new = [x \in DOMAIN new |-> new[x]]
      /\ DOMAIN new = DOMAIN old \cup {h}
      /\ \A x \in DOMAIN old : x # h => new[x] = old[x]
      /\ new[h] = IF h \in DOMAIN old THEN AddRows(old[h], addr, row)
                  ELSE CheckPoint(addr, skip, row, segment.tot_count)
      /\ next.tot_count = segment.tot_count + row
  BY SegmentGrows
<1> HIDE DEF next
<1>5. Gone(k, m) = Gone(k, n) \cup {m} /\ m \notin Gone(k, n)
  <2>1. \A i \in 1 .. Len(scan) : i <= m <=> (i <= n \/ i = m)
    BY <1>2
  <2> QED
    BY <1>2, <1>3, <2>1 DEF Gone
<1>6. /\ Mine(k, h, m) = Mine(k, h, n) \cup {m}
      /\ \A c : c # h => Mine(k, c, m) = Mine(k, c, n)
  BY <1>5 DEF Mine
<1>7. Recorded(k, n, old) /\ segment.tot_count = RunningTotal(SliceRows(k))[n]
  BY DEF Holds
<1>8. DOMAIN old = {scan[i].chunk : i \in Gone(k, n)}
  BY <1>7 DEF Recorded
<1>9. DOMAIN new = {scan[i].chunk : i \in Gone(k, m)}
  BY <1>4, <1>5, <1>8
<1>10. row \in Nat /\ Mine(k, h, n) \subseteq 1 .. n
  <2>1. row \in Nat
    BY <1>1, RowsInSliceIs
  <2>2. Mine(k, h, n) \subseteq 1 .. n
    BY <1>2, <1>3 DEF Mine, Gone
  <2> QED
    BY <2>1, <2>2
<1>11. RunningTotal(SliceRows(k))[m] = RunningTotal(SliceRows(k))[n] + row
  <2> DEFINE w == SliceRows(k)
  <2>1. w \in Seq(Nat) /\ m \in 1 .. Len(w) /\ w[m] = row
    BY SliceRowsGrow
  <2> HIDE DEF w
  <2>2. RunningTotal(w)[m] = RunningTotal(w)[n] + w[m]
    BY <2>1, RunningTotalStep
  <2> QED
    BY <2>1, <2>2 DEF w
<1>12. ASSUME NEW c
       PROVE  /\ RunningTotal(ChunkRows(k, c))[n] \in Nat
              /\ RunningTotal(ChunkRows(k, c))[m] =
                   RunningTotal(ChunkRows(k, c))[n] + IF c = h THEN row ELSE 0
              /\ Mine(k, c, n) = {} => RunningTotal(ChunkRows(k, c))[n] = 0
  <2> DEFINE w == ChunkRows(k, c)
  <2>1. /\ w \in Seq(Nat) /\ Len(w) = Len(scan)
        /\ \A i \in 1 .. Len(scan) : w[i] = IF scan[i].chunk = c THEN RowsInSlice(i, k) ELSE 0
    BY SliceRowsGrow
  <2> HIDE DEF w
  <2>2. w[m] = IF c = h THEN row ELSE 0
    BY <2>1
  <2>3. RunningTotal(w)[n] \in Nat /\ RunningTotal(w)[m] = RunningTotal(w)[n] + w[m]
    BY <2>1, RunningTotalStep
  <2>4. ASSUME Mine(k, c, n) = {} PROVE RunningTotal(w)[n] = 0
    <3>1. ASSUME NEW j \in 1 .. n PROVE w[j] = 0
      <4>1. j \in 1 .. Len(scan) /\ j <= n
        BY <1>2
      <4>2. ~(j \in InSlice(k) /\ scan[j].chunk = c)
        BY <2>4, <4>1 DEF Mine, Gone
      <4>3. CASE scan[j].chunk = c
        <5>1. ~(RowsInSlice(j, k) > 0) /\ RowsInSlice(j, k) \in Nat
          BY <1>1, <1>2, <4>1, <4>2, <4>3, RowsInSliceIs DEF InSlice
        <5> QED
          BY <2>1, <4>1, <5>1
      <4>4. CASE scan[j].chunk # c
        BY <2>1, <4>1, <4>4
      <4> QED
        BY <4>3, <4>4
    <3>2. n \in 0 .. Len(w)
      BY <1>2, <2>1
    <3> QED
      BY <2>1, <3>1, <3>2, RunningTotalOfZeros
  <2> QED
    BY <2>2, <2>3, <2>4 DEF w
<1>13. ASSUME NEW c \in DOMAIN new, c # h
       PROVE  \E f, g : /\ Smallest(f, Mine(k, c, m)) /\ Largest(g, Mine(k, c, m))
                        /\ new[c] = CheckPointOf(k, c, f, g, m)
  <2>1. c \in DOMAIN old /\ new[c] = old[c] /\ Mine(k, c, m) = Mine(k, c, n)
    BY <1>4, <1>6, <1>13
  <2>2. PICK f, g : /\ Smallest(f, Mine(k, c, n)) /\ Largest(g, Mine(k, c, n))
                    /\ old[c] = CheckPointOf(k, c, f, g, n)
    BY <1>7, <2>1 DEF Recorded
  <2>3. RunningTotal(ChunkRows(k, c))[m] = RunningTotal(ChunkRows(k, c))[n]
    BY <1>12, <1>13
  <2>4. CheckPointOf(k, c, f, g, m) = CheckPointOf(k, c, f, g, n)
    BY <2>3 DEF CheckPointOf
  <2> QED
    BY <2>1, <2>2, <2>4
<1>14. ASSUME h \in DOMAIN old
       PROVE  \E f, g : /\ Smallest(f, Mine(k, h, m)) /\ Largest(g, Mine(k, h, m))
                        /\ new[h] = CheckPointOf(k, h, f, g, m)
  <2>1. PICK f, g : /\ Smallest(f, Mine(k, h, n)) /\ Largest(g, Mine(k, h, n))
                    /\ old[h] = CheckPointOf(k, h, f, g, n)
    BY <1>7, <1>14 DEF Recorded
  <2>2. /\ f \in 1 .. n /\ scan[f].chunk = h
        /\ g \in 1 .. n /\ scan[g].chunk = h
    BY <1>10, <2>1 DEF Smallest, Largest, Mine
  <2>3. scan[f].word # addr /\ scan[g].word # addr
    <3>1. ASSUME NEW i \in 1 .. n, scan[i].chunk = h PROVE scan[i].word # addr
      <4>1. i \in 1 .. m - 1 /\ i \in 1 .. Len(scan)
        BY <1>2
      <4>2. \/ scan[i].word < addr
            \/ scan[i].chunk < h
        BY <1>2, <4>1 DEF ScanOrdered
      <4>3. scan[i].word \in Nat /\ addr \in Nat /\ h \in Nat
        <5>1. scan[i].word \in Words /\ addr \in Words /\ h \in Chunks
          BY <4>1, StateFacts
        <5> QED
          BY <5>1, WordsType, ScanAssumption
      <4> QED
        BY <3>1, <4>2, <4>3
    <3> QED
      BY <2>2, <3>1
  <2>4. Smallest(f, Mine(k, h, m)) /\ Largest(m, Mine(k, h, m))
    <3> HIDE DEF n
    <3> QED
      BY <1>2, <1>6, <1>10, <2>1, <2>2 DEF Smallest, Largest
  <2>5. new[h] = CheckPointOf(k, h, f, m, m)
    <3> DEFINE p == CheckPointOf(k, h, f, g, n)
    <3>1. new[h] = AddRows(p, addr, row)
      BY <1>4, <1>14, <2>1
    <3>2. p.from_addr # addr /\ p.to_addr # addr
      BY <2>3 DEF CheckPointOf
    <3>3. AddRows(p, addr, row) =
            [from_addr |-> p.from_addr, from_skip |-> p.from_skip, from_count |-> p.from_count,
             to_addr |-> addr, to_count |-> row, count |-> p.count + row,
             debug_row |-> p.debug_row]
      BY <3>2, AddRowsIs DEF CheckPointOf
    <3>4. RunningTotal(ChunkRows(k, h))[m] = RunningTotal(ChunkRows(k, h))[n] + row
      BY <1>12
    <3>5. AddRows(p, addr, row) = CheckPointOf(k, h, f, m, m)
      BY <3>3, <3>4 DEF CheckPointOf
    <3> QED
      BY <3>1, <3>5
  <2> QED
    BY <2>4, <2>5
<1>15. ASSUME h \notin DOMAIN old
       PROVE  \E f, g : /\ Smallest(f, Mine(k, h, m)) /\ Largest(g, Mine(k, h, m))
                        /\ new[h] = CheckPointOf(k, h, f, g, m)
  <2>1. Mine(k, h, n) = {}
    BY <1>8, <1>15 DEF Mine
  <2>2. Smallest(m, Mine(k, h, m)) /\ Largest(m, Mine(k, h, m))
    BY <1>2, <1>6, <2>1 DEF Smallest, Largest
  <2>3. RunningTotal(ChunkRows(k, h))[m] = row
    <3>1. RunningTotal(ChunkRows(k, h))[n] = 0
      BY <1>12, <2>1
    <3>2. RunningTotal(ChunkRows(k, h))[m] = RunningTotal(ChunkRows(k, h))[n] + row
      BY <1>12
    <3>3. 0 + row = row
      BY <1>10
    <3> QED
      BY <3>1, <3>2, <3>3
  <2>4. new[h] = CheckPoint(addr, skip, row, RunningTotal(SliceRows(k))[m - 1])
    BY <1>4, <1>7, <1>15
  <2>5. new[h] = CheckPointOf(k, h, m, m, m)
    BY <2>3, <2>4 DEF CheckPoint, CheckPointOf
  <2> QED
    BY <2>2, <2>5
<1>16. ASSUME NEW c \in DOMAIN new
       PROVE  \E f, g : /\ Smallest(f, Mine(k, c, m)) /\ Largest(g, Mine(k, c, m))
                        /\ new[c] = CheckPointOf(k, c, f, g, m)
  <2>1. CASE c = h
    BY <1>14, <1>15, <2>1
  <2>2. CASE c # h
    BY <1>13, <2>2
  <2> QED
    BY <2>1, <2>2
<1>17. Recorded(k, m, new)
  BY <1>4, <1>9, <1>16 DEF Recorded
<1>18. next.tot_count = RunningTotal(SliceRows(k))[m]
  BY <1>4, <1>7, <1>11
<1> QED
  BY <1>17, <1>18 DEF Holds, next

(* A segment opens with the place where the last entry ahead of it was     *)
(* left, and with the rows this one has in the slice.                      *)
LEMMA OpeningHolds ==
  ASSUME IInv, ScanOrdered, NEW k \in Nat, NEW m \in 1 .. Len(scan), NEW lo \in Nat,
         lo = k * Rows, Begins(m) < lo, \A j \in m + 1 .. Len(scan) : Begins(j) >= lo
  PROVE  Holds(k, m, AddOrUpdate(EmptySegment, scan[m].chunk, scan[m].word,
                                 Least(scan[m].count, lo - Begins(m)), RowsInSlice(m, k)))
<1>1. Len(scan) \in Nat /\ DOMAIN scan = 1 .. Len(scan) /\ m - 1 \in 0 .. Len(scan)
  BY StateFacts
<1>2. m \in InSlice(k)
  <2>1. \A j \in 1 .. Len(scan) : Begins(j) < lo => j <= m
    <3> SUFFICES ASSUME NEW j \in 1 .. Len(scan), j > m PROVE ~(Begins(j) < lo)
      BY <1>1
    <3>1. j \in m + 1 .. Len(scan)
      BY <1>1
    <3>2. Begins(j) \in Nat /\ Begins(j) >= lo
      BY <3>1, StateFacts
    <3> QED
      BY <3>2
  <2> QED
    BY <1>1, <2>1 DEF InSlice, AnchorOf
<1>3. ASSUME NEW i \in 1 .. m - 1 PROVE i \notin InSlice(k) /\ RowsInSlice(i, k) = 0
  <2>1. i \in 1 .. Len(scan) /\ m \in i + 1 .. Len(scan) /\ ~(m <= i)
    BY <1>1
  <2>2. PICK a, b, x, r : /\ a = Begins(i) /\ b = Ends(i) /\ x = Begins(m)
                          /\ r = RowsInSlice(i, k)
    OBVIOUS
  <2>3. /\ a \in Nat /\ b \in Nat /\ a < b
        /\ r = IF b > lo /\ a < lo + Rows THEN Least(b, lo + Rows) - (IF a < lo THEN lo ELSE a)
               ELSE IF a = lo + Rows /\ GapBefore(i) > 0 THEN 1 ELSE 0
    BY <2>1, <2>2, RowsInSliceIs
  <2>4. b <= x /\ x \in Nat /\ x < lo /\ Rows \in Nat
    BY <2>1, <2>2, EndsBefore, StateFacts
  <2>5. ~(b > lo) /\ ~(a = lo + Rows)
    BY <2>3, <2>4
  <2>6. RowsInSlice(i, k) = 0 /\ ~(0 > 0)
    BY <2>2, <2>3, <2>5
  <2>7. i \notin AnchorOf(k)
    BY <1>1, <2>1 DEF AnchorOf
  <2>8. i \notin {j \in DOMAIN scan : RowsInSlice(j, k) > 0}
    BY <2>6
  <2> QED
    BY <2>6, <2>7, <2>8 DEF InSlice
<1>4. Holds(k, m - 1, EmptySegment)
  BY <1>1, <1>3, HoldsNothing
<1>5. SkipIn(m, k) = Least(scan[m].count, lo - Begins(m))
  BY StateFacts DEF SkipIn
<1> QED
  BY <1>2, <1>4, <1>5, NextInSlice

(* Adding no rows where nothing is yet, and then rows of the same entry,   *)
(* is adding these.                                                        *)
LEMMA AddedToNone ==
  ASSUME NEW c, NEW addr, NEW skip, NEW other, NEW n \in Nat
  PROVE  AddOrUpdate(AddOrUpdate(EmptySegment, c, addr, skip, 0), c, addr, other, n)
           = AddOrUpdate(EmptySegment, c, addr, skip, n)
<1> DEFINE s == AddOrUpdate(EmptySegment, c, addr, skip, 0)
           cp == [from_addr |-> addr, from_skip |-> skip, to_addr |-> addr, to_count |-> 0,
                  count |-> 0, from_count |-> 0, debug_row |-> 0]
           cq == [from_addr |-> addr, from_skip |-> skip, to_addr |-> addr, to_count |-> n,
                  count |-> n, from_count |-> n, debug_row |-> 0]
<1>1. EmptySegment.tot_count = 0 /\ DOMAIN EmptySegment.chunks = {} /\ 0 + 0 = 0 /\ 0 + n = n
  BY DEF EmptySegment
<1>2. s = [chunks |-> [x \in {c} |-> cp], tot_count |-> 0]
  BY <1>1 DEF AddOrUpdate, CheckPoint
<1>3. AddRows(cp, addr, n) = cq
  <2>1. cp.from_addr = addr /\ cp.to_addr = addr
    OBVIOUS
  <2>2. AddRows(cp, addr, n) =
          [cp EXCEPT !.count = @ + n, !.from_count = @ + n, !.to_addr = addr, !.to_count = @ + n]
    BY <2>1 DEF AddRows
  <2> QED
    BY <1>1, <2>2
<1>4. AddOrUpdate(EmptySegment, c, addr, skip, n) = [chunks |-> [x \in {c} |-> cq], tot_count |-> n]
  BY <1>1 DEF AddOrUpdate, CheckPoint
<1> HIDE DEF s, cp, cq
<1>5. s.chunks = [x \in {c} |-> cp] /\ DOMAIN s.chunks = {c} /\ s.chunks[c] = cp /\ s.tot_count = 0
  BY <1>2
<1>6. AddOrUpdate(s, c, addr, other, n) = [chunks |-> [x \in {c} |-> cq], tot_count |-> n]
  BY <1>1, <1>3, <1>5 DEF AddOrUpdate
<1> QED
  BY <1>4, <1>6 DEF s

-----------------------------------------------------------------------------
(* The segment that is being filled                                        *)

PlaceIn(i, skip) == [chunk |-> scan[i].chunk, addr |-> scan[i].word, skip |-> skip]

(* `intermediate' is the gap of the layout, and the reference is the place *)
(* that the planner has reached.                                           *)
CarriedAlong ==
  /\ pc = "gap" => intermediate = GapBefore(entry) /\ pending <= intermediate
  /\ pc \in {"intermediates", "gap"} =>
       reference = IF entry = 1 THEN NoEntry ELSE PlaceIn(entry - 1, scan[entry - 1].count)
  /\ pc = "rows" =>
       /\ reference = PlaceIn(entry, scan[entry].count - pending)
       /\ rows_available = 0 => pending < scan[entry].count

(* A segment that consume_rows has opened inside of an entry: it has the   *)
(* place, and none of the rows yet.                                        *)
Resumed ==
  LET e == scan[entry]
  IN  /\ rows_available = Rows
      /\ current_segment = AddOrUpdate(EmptySegment, e.chunk, e.word, e.count - pending, 0)

(* The current segment has what its slice has up to the entry before, or   *)
(* up to this one when its rows have been counted.                         *)
CurrentHolds ==
  LET k == Len(segments)
  IN  /\ pc \in {"intermediates", "gap"} => Holds(k, entry - 1, current_segment)
      /\ pc = "rows" =>
           IF pending = scan[entry].count THEN Holds(k, entry - 1, current_segment)
           ELSE IF rows_available = 0 THEN Holds(k, entry, current_segment)
           ELSE Resumed

PlanInv == ScanOrdered /\ CarriedAlong /\ CurrentHolds /\ SegmentsAreSlices

(* No slice changes as long as the scan does not.                          *)
LEMMA SliceStays ==
  ASSUME UNCHANGED scan
  PROVE  /\ ScanOrdered' = ScanOrdered
         /\ \A k : Slice(k)' = Slice(k)
         /\ \A k, n, s : Holds(k, n, s)' = Holds(k, n, s)
<1>1. (\A i : Begins(i)' = Begins(i)) /\ (\A i : Ends(i)' = Ends(i))
  BY LayoutStays
<1>2. \A i : GapBefore(i)' = GapBefore(i)
  BY DEF GapBefore
<1>3. \A i, k : RowsInSlice(i, k)' = RowsInSlice(i, k)
  BY <1>1, <1>2 DEF RowsInSlice, AnnouncedIn
<1>4. \A k : AnchorOf(k)' = AnchorOf(k)
  BY <1>1 DEF AnchorOf
<1>5. \A k : InSlice(k)' = InSlice(k)
  BY <1>3, <1>4 DEF InSlice
<1>6. \A k : SliceRows(k)' = SliceRows(k)
  BY <1>3 DEF SliceRows
<1>7. \A k, c : ChunkRows(k, c)' = ChunkRows(k, c)
  BY <1>3 DEF ChunkRows
<1>8. \A k, c : SliceCheckPoint(k, c)' = SliceCheckPoint(k, c)
  <2> SUFFICES ASSUME NEW k, NEW c PROVE SliceCheckPoint(k, c)' = SliceCheckPoint(k, c)
    OBVIOUS
  <2>1. {i \in InSlice(k)' : scan'[i].chunk = c} = {i \in InSlice(k) : scan[i].chunk = c}
    BY <1>5
  <2>2. InSlice(k)' = InSlice(k) /\ SliceRows(k)' = SliceRows(k)
        /\ ChunkRows(k, c)' = ChunkRows(k, c)
    BY <1>5, <1>6, <1>7
  <2> QED
    BY <1>1, <1>3, <2>1, <2>2 DEF SliceCheckPoint
<1>9. \A k : Slice(k)' = Slice(k)
  <2> SUFFICES ASSUME NEW k PROVE Slice(k)' = Slice(k)
    OBVIOUS
  <2>1. {scan'[i].chunk : i \in InSlice(k)'} = {scan[i].chunk : i \in InSlice(k)}
    BY <1>5
  <2> QED
    BY <1>8, <2>1 DEF Slice
<1>10. \A k, n : Gone(k, n)' = Gone(k, n)
  BY <1>5 DEF Gone
<1>11. \A k, c, n : Mine(k, c, n)' = Mine(k, c, n)
  BY <1>10 DEF Mine
<1>12. \A k, c, f, g, n : CheckPointOf(k, c, f, g, n)' = CheckPointOf(k, c, f, g, n)
  BY <1>1, <1>3, <1>6, <1>7 DEF CheckPointOf, SkipIn
<1>13. ASSUME NEW k, NEW n, NEW chunks PROVE Recorded(k, n, chunks)' = Recorded(k, n, chunks)
  <2>1. {scan[i].chunk : i \in Gone(k, n)}' = {scan[i].chunk : i \in Gone(k, n)}
    BY <1>10
  <2>2. \A c : Mine(k, c, n)' = Mine(k, c, n)
    BY <1>11
  <2>3. \A c, f, g : CheckPointOf(k, c, f, g, n)' = CheckPointOf(k, c, f, g, n)
    BY <1>12
  <2> DEFINE D == {scan[i].chunk : i \in Gone(k, n)}
             At(c, f, g) == /\ Smallest(f, Mine(k, c, n)) /\ Largest(g, Mine(k, c, n))
                            /\ chunks[c] = CheckPointOf(k, c, f, g, n)
  <2>4. \A c, f, g : At(c, f, g)' <=> At(c, f, g)
    BY <2>2, <2>3 DEF Smallest, Largest
  <2>5. Recorded(k, n, chunks) <=>
          /\ chunks = [c \in DOMAIN chunks |-> chunks[c]] /\ DOMAIN chunks = D
          /\ \A c \in DOMAIN chunks : \E f, g : At(c, f, g)
    BY DEF Recorded
  <2>6. Recorded(k, n, chunks)' <=>
          /\ chunks = [c \in DOMAIN chunks |-> chunks[c]] /\ DOMAIN chunks = D'
          /\ \A c \in DOMAIN chunks : \E f, g : At(c, f, g)'
    BY DEF Recorded
  <2>7. D' = D
    BY <2>1
  <2> HIDE DEF D, At
  <2>8. Recorded(k, n, chunks)' <=> Recorded(k, n, chunks)
    BY <2>4, <2>5, <2>6, <2>7
  <2>9. Recorded(k, n, chunks) \in BOOLEAN /\ Recorded(k, n, chunks)' \in BOOLEAN
    BY DEF Recorded
  <2> QED
    BY <2>8, <2>9
<1>14. \A k, n, s : Holds(k, n, s)' = Holds(k, n, s)
  BY <1>6, <1>13 DEF Holds
<1>15. ScanOrdered' = ScanOrdered
  BY DEF ScanOrdered
<1> QED
  BY <1>9, <1>14, <1>15

LEMMA InitPlanInv == Init => PlanInv
<1> SUFFICES ASSUME Init PROVE PlanInv
  OBVIOUS
<1>1. IInv
  BY InitIInv
<1>2. ScanOrdered
  BY ScanIsOrdered DEF Init
<1>3. pc = "intermediates" /\ entry = 1 /\ reference = NoEntry /\ segments = <<>>
      /\ current_segment = EmptySegment /\ Len(segments) = 0
  BY DEF Init
<1>4. CarriedAlong
  BY <1>3 DEF CarriedAlong
<1>5. Holds(0, 0, EmptySegment)
  BY <1>1, HoldsNothing, StateFacts
<1>6. CurrentHolds
  <2>1. entry - 1 = 0
    BY <1>3
  <2> QED
    BY <1>3, <1>5, <2>1 DEF CurrentHolds
<1>7. SegmentsAreSlices
  BY <1>3 DEF SegmentsAreSlices
<1> QED
  BY <1>2, <1>4, <1>6, <1>7 DEF PlanInv

(* Where the planner is in the rows of its segment.                        *)
LEMMA PlaceInSegment ==
  ASSUME IInv
  PROVE  \E k \in Nat, lo \in Nat :
           /\ k = Len(segments) /\ lo = k * Rows /\ (k + 1) * Rows = lo + Rows
           /\ pc = "gap" => /\ entry \in 1 .. Len(scan)
                            /\ Begins(entry) = lo + (Rows - rows_available) + pending
           /\ pc = "rows" => /\ entry \in 1 .. Len(scan)
                             /\ Ends(entry) = lo + (Rows - rows_available) + pending
                             /\ pending \in 1 .. scan[entry].count
<1>1. PICK k \in Nat : k = Len(segments)
  BY StateFacts
<1>2. PICK lo \in Nat : lo = k * Rows
  BY StateFacts
<1>3. (k + 1) * Rows = lo + Rows
  BY <1>2, StateFacts
<1>4. RowsHandedOut = lo + (Rows - rows_available)
  BY <1>1, <1>2 DEF RowsHandedOut
<1>5. /\ pending \in Nat /\ rows_available \in 0 .. Rows /\ Rows \in Nat
      /\ entry \in Nat \ {0} /\ Len(scan) \in Nat
  BY StateFacts
<1>6. ASSUME pc = "gap"
      PROVE  entry \in 1 .. Len(scan) /\ Begins(entry) = lo + (Rows - rows_available) + pending
  <2>1. entry \in 1 .. Len(scan)
    BY <1>5, <1>6 DEF IInv, PlaceKnown
  <2>2. Begins(entry) \in Nat /\ RowsHandedOut = Begins(entry) - pending
    BY <1>6, <2>1, StateFacts DEF IInv, RowsAccountedFor
  <2>3. Begins(entry) = lo + (Rows - rows_available) + pending
    BY <1>4, <1>5, <2>2
  <2> QED
    BY <2>1, <2>3
<1>7. ASSUME pc = "rows"
      PROVE  /\ entry \in 1 .. Len(scan)
             /\ Ends(entry) = lo + (Rows - rows_available) + pending
             /\ pending \in 1 .. scan[entry].count
  <2>1. entry \in 1 .. Len(scan) /\ pending \in 1 .. scan[entry].count
    BY <1>5, <1>7 DEF IInv, PlaceKnown
  <2>2. Ends(entry) \in Nat /\ RowsHandedOut = Ends(entry) - pending
    BY <1>7, <2>1, StateFacts DEF IInv, RowsAccountedFor
  <2>3. Ends(entry) = lo + (Rows - rows_available) + pending
    BY <1>4, <1>5, <2>2
  <2> QED
    BY <2>1, <2>3
<1> QED
  BY <1>1, <1>2, <1>3, <1>6, <1>7

(* A segment that is opened in or behind the gap of an entry has what the  *)
(* next slice has up to the entry before.                                  *)
LEMMA OpenedInGap ==
  ASSUME IInv, PlanInv, pc = "gap", rows_available = 0
  PROVE  Holds(Len(segments) + 1, entry - 1, Opened)
<1>1. PICK k \in Nat, lo \in Nat :
        /\ k = Len(segments) /\ (k + 1) * Rows = lo + Rows
        /\ entry \in 1 .. Len(scan)
        /\ Begins(entry) = lo + (Rows - rows_available) + pending
  BY PlaceInSegment
<1>2. PICK hi \in Nat : hi = lo + Rows
  BY <1>1, StateFacts
<1>3. Begins(entry) = hi + pending /\ pending \in Nat /\ Len(scan) \in Nat
  BY <1>1, <1>2, StateFacts
<1>4. k + 1 \in Nat /\ hi = (k + 1) * Rows
  BY <1>1, <1>2
<1>5. CASE entry = 1
  <2>1. Opened = EmptySegment
    BY <1>5 DEF Opened, PlanInv, CarriedAlong
  <2>2. Holds(k + 1, 0, EmptySegment)
    BY <1>3, <1>4, HoldsNothing
  <2>3. entry - 1 = 0
    BY <1>5
  <2> QED
    BY <1>1, <2>1, <2>2, <2>3
<1>6. CASE entry # 1
  <2>1. PICK m \in 1 .. Len(scan) : m = entry - 1 /\ entry = m + 1
    BY <1>1, <1>3, <1>6
  <2>2. reference = PlaceIn(m, scan[m].count)
    BY <1>6, <2>1 DEF PlanInv, CarriedAlong
  <2>3. Opened = AddOrUpdate(EmptySegment, scan[m].chunk, scan[m].word, scan[m].count, 0)
    <3>1. reference # NoEntry
      <4>1. reference \in [chunk : Nat, addr : Nat, skip : Nat]
        <5>1. scan[m].chunk \in Nat /\ scan[m].word \in Nat /\ scan[m].count \in Nat
          BY StateFacts, WordsType, ScanAssumption
        <5> QED
          BY <2>2, <5>1 DEF PlaceIn
      <4> QED
        BY <4>1, ImmutableAssumption
    <3> QED
      BY <2>2, <3>1 DEF Opened, PlaceIn
  <2>4. PICK a, b, g, c : /\ a = Begins(m) /\ b = Ends(m) /\ g = GapBefore(entry)
                          /\ c = scan[m].count
    OBVIOUS
  <2>5. /\ a \in Nat /\ b \in Nat /\ c \in Nat \ {0} /\ b = a + c /\ g \in Nat
        /\ b + g = hi + pending /\ pending <= g
    <3>1. scan \in Seq(Entries)
      BY DEF IInv, TypeOK
    <3>2. Begins(entry) = Ends(m) + GapBefore(entry) /\ GapBefore(entry) \in Nat
      BY <1>1, <1>6, <2>1, <3>1, Layout
    <3>3. pending <= GapBefore(entry)
      BY DEF PlanInv, CarriedAlong
    <3> QED
      BY <1>3, <2>4, <3>2, <3>3, StateFacts
  <2>6. b <= hi /\ a < hi
    BY <1>3, <2>5
  <2>7. \A j \in m + 1 .. Len(scan) : Begins(j) >= hi
    <3> SUFFICES ASSUME NEW j \in m + 1 .. Len(scan) PROVE Begins(j) >= hi
      OBVIOUS
    <3>1. PICK x, y : x = Begins(entry) /\ y = Begins(j)
      OBVIOUS
    <3>2. x = hi + pending /\ x \in Nat /\ y \in Nat
      BY <1>1, <1>3, <2>1, <3>1, StateFacts
    <3>3. x = y \/ x < y
      <4>1. j = entry \/ j \in entry + 1 .. Len(scan)
        BY <1>1, <1>3, <2>1
      <4> QED
        BY <1>1, <3>1, <4>1, EndsBefore
    <3> QED
      BY <1>3, <3>1, <3>2, <3>3
  <2>8. RowsInSlice(m, k + 1) = 0
    <3>1. PICK r : r = RowsInSlice(m, k + 1)
      OBVIOUS
    <3>2. r = IF b > hi /\ a < hi + Rows THEN Least(b, hi + Rows) - (IF a < hi THEN hi ELSE a)
              ELSE IF a = hi + Rows /\ GapBefore(m) > 0 THEN 1 ELSE 0
      BY <1>4, <2>4, <3>1, RowsInSliceIs
    <3>3. ~(b > hi) /\ ~(a = hi + Rows)
      BY <2>5, <2>6, StateFacts
    <3> QED
      BY <3>1, <3>2, <3>3
  <2>9. Least(scan[m].count, hi - Begins(m)) = scan[m].count
    <3>1. Least(c, hi - a) = c
      BY <2>5, <2>6 DEF Least
    <3> QED
      BY <2>4, <3>1
  <2>10. Holds(k + 1, m, AddOrUpdate(EmptySegment, scan[m].chunk, scan[m].word,
                                     Least(scan[m].count, hi - Begins(m)), RowsInSlice(m, k + 1)))
    BY <1>4, <2>4, <2>6, <2>7, OpeningHolds DEF PlanInv
  <2> QED
    BY <1>1, <2>1, <2>3, <2>8, <2>9, <2>10
<1> QED
  BY <1>5, <1>6

(* What is closed ahead of an entry that begins behind the slice, without  *)
(* being announced in it, is the slice.                                    *)
LEMMA ClosedIsSlice ==
  ASSUME IInv, NEW k \in Nat, NEW lo \in Nat, lo = k * Rows, NEW n \in 0 .. Len(scan),
         NEW segment, Holds(k, n, segment),
         n < Len(scan) =>
           \/ Begins(n + 1) > lo + Rows
           \/ Begins(n + 1) = lo + Rows /\ GapBefore(n + 1) = 0
  PROVE  segment.chunks = Slice(k)
<1>1. Len(scan) \in Nat /\ Rows \in Nat
  BY StateFacts
<1>2. ASSUME NEW i \in n + 1 .. Len(scan)
      PROVE  i \notin InSlice(k) /\ RowsInSlice(i, k) = 0
  <2>1. i \in 1 .. Len(scan) /\ n + 1 \in 1 .. Len(scan) /\ n < Len(scan)
    BY <1>1
  <2>2. CASE i = n + 1
    BY <2>1, <2>2, LaterNotInSlice
  <2>3. CASE i # n + 1
    <3>1. PICK x, y : x = Begins(n + 1) /\ y = Begins(i)
      OBVIOUS
    <3>2. x \in Nat /\ y \in Nat /\ x < y
      <4>1. i \in (n + 1) + 1 .. Len(scan)
        BY <1>1, <2>3
      <4> QED
        BY <2>1, <3>1, <4>1, EndsBefore, StateFacts
    <3>3. x >= lo + Rows
      BY <1>1, <2>1, <3>1, <3>2
    <3>4. y > lo + Rows
      BY <1>1, <3>2, <3>3
    <3> QED
      BY <2>1, <3>1, <3>4, LaterNotInSlice
  <2> QED
    BY <2>2, <2>3
<1>3. Recorded(k, n, segment.chunks)
  BY DEF Holds
<1> QED
  BY <1>2, <1>3, RecordedIsSlice

(* The newest segment is the one that is closed.                           *)
LEMMA NewestIsSlice ==
  ASSUME IInv, UNCHANGED scan, NEW segment, segments' = Closed(segment),
         segment.chunks = Slice(Len(segments))
  PROVE  SegmentsAreSlices' /\ Len(segments') = Len(segments) + 1
<1>1. PICK k \in Nat : k = Len(segments)
  BY StateFacts
<1>2. Len(segments') = k + 1 /\ segments'[k + 1] = segment
  BY <1>1 DEF IInv, PlanTyped, Closed
<1>3. Last(segments)' = segment /\ (Len(segments) - 1)' = k
  BY <1>2 DEF Last
<1>4. \A n : Slice(n)' = Slice(n)
  BY SliceStays
<1>5. (Last(segments).chunks = Slice(Len(segments) - 1))'
  BY <1>1, <1>3, <1>4
<1> QED
  BY <1>1, <1>2, <1>5 DEF SegmentsAreSlices

(* The gap of an entry is that of the layout.                              *)
LEMMA AddIntermediatesPlanInv ==
  ASSUME IInv, PlanInv, AddIntermediates
  PROVE  PlanInv'
<1>1. /\ UNCHANGED <<walk, scan, entry, rows_available, reference, current_segment, segments>>
      /\ pc = "intermediates" /\ pc' = "gap"
      /\ intermediate' = Gap(last_addr, scan[entry].word) /\ pending' = intermediate'
  BY DEF AddIntermediates
<1>2. entry \in 1 .. Len(scan)
  BY StateFacts DEF AddIntermediates
<1>3. intermediate' = GapBefore(entry) /\ pending' <= intermediate'
  <2>1. intermediate' = GapBefore(entry)
    BY <1>1, <1>2, Layout DEF IInv, TypeOK, PlaceKnown
  <2>2. GapBefore(entry) \in Nat
    BY <1>2, Layout DEF IInv, TypeOK
  <2> QED
    BY <1>1, <2>1, <2>2
<1>4. CarriedAlong'
  BY <1>1, <1>3 DEF PlanInv, CarriedAlong, PlaceIn, GapBefore
<1>5. CurrentHolds'
  BY <1>1, SliceStays DEF PlanInv, CurrentHolds
<1> QED
  BY <1>1, <1>4, <1>5, SliceStays DEF PlanInv, SegmentsAreSlices, Last

(* A gap that runs over the end of a segment.                              *)
LEMMA ConsumeIntermediateRowsPlanInv ==
  ASSUME IInv, PlanInv, ConsumeIntermediateRows
  PROVE  PlanInv'
<1>1. /\ UNCHANGED <<walk, scan, entry, pc, intermediate, last_addr, reference>>
      /\ pc = "gap" /\ pending > 0 /\ pending' <= pending
  BY StateFacts DEF ConsumeIntermediateRows, Least
<1>2. PICK k \in Nat, lo \in Nat :
        /\ k = Len(segments) /\ lo = k * Rows
        /\ entry \in 1 .. Len(scan)
        /\ Begins(entry) = lo + (Rows - rows_available) + pending
  BY <1>1, PlaceInSegment
<1>3. ScanOrdered' /\ \A n, s, m : Holds(n, s, m)' = Holds(n, s, m)
  BY <1>1, SliceStays DEF PlanInv
<1>4. CarriedAlong'
  <2>1. pending' <= intermediate /\ intermediate = GapBefore(entry)
    <3>1. pending <= intermediate /\ intermediate = GapBefore(entry)
      BY <1>1 DEF PlanInv, CarriedAlong
    <3>2. pending \in Nat /\ pending' \in Int /\ intermediate \in Nat
      BY StateFacts DEF IInv, TypeOK, ConsumeIntermediateRows, Least
    <3> QED
      BY <1>1, <3>1, <3>2
  <2> QED
    BY <1>1, <2>1 DEF PlanInv, CarriedAlong, PlaceIn, GapBefore
<1>5. Holds(k, entry - 1, current_segment)
  BY <1>1, <1>2 DEF PlanInv, CurrentHolds
<1>6. CASE rows_available = 0
  <2>1. segments' = Closed(current_segment) /\ current_segment' = Opened
    BY <1>6 DEF ConsumeIntermediateRows
  <2>2. current_segment.chunks = Slice(k)
    <3>1. PICK n \in 0 .. Len(scan) : n = entry - 1 /\ entry = n + 1
      BY <1>2, StateFacts
    <3>2. Begins(n + 1) > lo + Rows
      BY <1>1, <1>2, <1>6, <3>1, StateFacts
    <3> QED
      BY <1>2, <1>5, <3>1, <3>2, ClosedIsSlice
  <2>3. SegmentsAreSlices' /\ Len(segments') = k + 1
    BY <1>1, <1>2, <2>1, <2>2, NewestIsSlice
  <2>4. Holds(k + 1, entry - 1, Opened)
    BY <1>1, <1>2, <1>6, OpenedInGap
  <2>5. CurrentHolds'
    BY <1>1, <1>3, <2>1, <2>3, <2>4 DEF CurrentHolds
  <2> QED
    BY <1>3, <1>4, <2>3, <2>5 DEF PlanInv
<1>7. CASE rows_available # 0
  <2>1. UNCHANGED <<segments, current_segment>>
    BY <1>7 DEF ConsumeIntermediateRows
  <2>2. CurrentHolds'
    BY <1>1, <1>2, <1>3, <1>5, <2>1 DEF CurrentHolds
  <2> QED
    BY <1>1, <1>3, <1>4, <2>1, <2>2, SliceStays DEF PlanInv, SegmentsAreSlices, Last
<1> QED
  BY <1>6, <1>7

(* A segment that ends with a gap announces the entry behind it.           *)
LEMMA AnnouncingHolds ==
  ASSUME IInv, PlanInv, pc = "gap", pending = 0, rows_available = 0
  PROVE  Announced(scan[entry]).chunks = Slice(Len(segments))
<1> DEFINE e == scan[entry]
<1>1. PICK k \in Nat, lo \in Nat :
        /\ k = Len(segments) /\ lo = k * Rows
        /\ entry \in 1 .. Len(scan)
        /\ Begins(entry) = lo + (Rows - rows_available) + pending
  BY PlaceInSegment
<1>2. Begins(entry) = lo + Rows /\ Rows \in Nat \ {0} /\ Len(scan) \in Nat
  BY <1>1, StateFacts
<1>3. intermediate = GapBefore(entry) /\ GapBefore(entry) \in Nat
  BY <1>1, Layout DEF IInv, TypeOK, PlanInv, CarriedAlong
<1>4. Holds(k, entry - 1, current_segment)
  BY <1>1 DEF PlanInv, CurrentHolds
<1>5. CASE intermediate = 0
  <2>1. Announced(e) = current_segment
    <3>1. ~(intermediate > 0)
      BY <1>5
    <3> QED
      BY <3>1 DEF Announced
  <2>2. PICK n \in 0 .. Len(scan) : n = entry - 1 /\ entry = n + 1
    BY <1>1, <1>2
  <2>3. current_segment.chunks = Slice(k)
    <3>1. Begins(n + 1) = lo + Rows /\ GapBefore(n + 1) = 0
      BY <1>2, <1>3, <1>5, <2>2
    <3>2. Holds(k, n, current_segment)
      BY <1>4, <2>2
    <3> QED
      BY <1>1, <3>1, <3>2, ClosedIsSlice
  <2> QED
    BY <1>1, <2>1, <2>3
<1>6. CASE intermediate # 0
  <2>1. GapBefore(entry) > 0 /\ intermediate > 0
    BY <1>3, <1>6
  <2>2. RowsInSlice(entry, k) = 1 /\ SkipIn(entry, k) = 0
    <3>1. PICK a, b, r : a = Begins(entry) /\ b = Ends(entry) /\ r = RowsInSlice(entry, k)
      OBVIOUS
    <3>2. r = IF b > lo /\ a < lo + Rows THEN Least(b, lo + Rows) - (IF a < lo THEN lo ELSE a)
              ELSE IF a = lo + Rows /\ GapBefore(entry) > 0 THEN 1 ELSE 0
      BY <1>1, <3>1, RowsInSliceIs
    <3>3. a = lo + Rows /\ ~(a < lo + Rows) /\ ~(lo > a)
      BY <1>2, <3>1
    <3>4. r = 1
      BY <2>1, <3>2, <3>3
    <3>5. SkipIn(entry, k) = 0
      BY <1>1, <3>1, <3>3 DEF SkipIn
    <3> QED
      BY <3>1, <3>4, <3>5
  <2>3. entry \in InSlice(k)
    BY <1>1, <2>2, StateFacts DEF InSlice
  <2>4. Announced(e) = AddOrUpdate(current_segment, e.chunk, e.word, 0, 1)
    BY <2>1 DEF Announced
  <2>5. Holds(k, entry, Announced(e))
    BY <1>1, <1>4, <2>2, <2>3, <2>4, NextInSlice DEF PlanInv
  <2>6. entry < Len(scan) => Begins(entry + 1) > lo + Rows
    <3> SUFFICES ASSUME entry < Len(scan) PROVE Begins(entry + 1) > lo + Rows
      OBVIOUS
    <3>1. entry + 1 \in 1 .. Len(scan) /\ entry + 1 \in entry + 1 .. Len(scan)
      BY <1>1, <1>2
    <3>2. Begins(entry) < Begins(entry + 1)
      BY <1>1, <3>1, EndsBefore
    <3> QED
      BY <1>2, <3>2
  <2>7. entry \in 0 .. Len(scan)
    BY <1>1, <1>2
  <2>8. Announced(e).chunks = Slice(k)
    <3> HIDE DEF e
    <3> QED
      BY <1>1, <2>5, <2>6, <2>7, ClosedIsSlice
  <2> QED
    BY <1>1, <2>8
<1> QED
  BY <1>5, <1>6

(* The reference is the beginning of the entry.                            *)
LEMMA PreopenSegmentPlanInv ==
  ASSUME IInv, PlanInv, PreopenSegment
  PROVE  PlanInv'
<1> DEFINE e == scan[entry]
<1>1. /\ UNCHANGED <<walk, scan, entry, intermediate, last_addr>>
      /\ pc = "gap" /\ pc' = "rows" /\ pending = 0 /\ pending' = e.count
      /\ reference' = [chunk |-> e.chunk, addr |-> e.word, skip |-> 0]
  BY DEF PreopenSegment
<1>2. PICK k \in Nat : k = Len(segments) /\ entry \in 1 .. Len(scan)
  BY <1>1, PlaceInSegment
<1>3. ScanOrdered' /\ \A n, s, m : Holds(n, s, m)' = Holds(n, s, m)
  BY <1>1, SliceStays DEF PlanInv
<1>4. Holds(k, entry - 1, current_segment)
  BY <1>1, <1>2 DEF PlanInv, CurrentHolds
<1>5. rows_available' # 0
  <2>1. Rows # 0
    BY StateFacts
  <2> QED
    BY <2>1 DEF PreopenSegment
<1>6. CarriedAlong'
  <2>1. e.count \in Nat
    BY <1>2, StateFacts
  <2>2. (PlaceIn(entry, scan[entry].count - pending))' = [chunk |-> e.chunk, addr |-> e.word,
                                                           skip |-> e.count - e.count]
    BY <1>1 DEF PlaceIn
  <2>3. e.count - e.count = 0
    BY <2>1
  <2> QED
    BY <1>1, <1>5, <2>2, <2>3 DEF CarriedAlong
<1>7. CASE rows_available = 0
  <2>1. segments' = Closed(Announced(e)) /\ current_segment' = Opened
    BY <1>7 DEF PreopenSegment
  <2>2. Announced(e).chunks = Slice(k)
    BY <1>1, <1>2, <1>7, AnnouncingHolds
  <2>3. SegmentsAreSlices' /\ Len(segments') = k + 1
    <3> HIDE DEF e
    <3> QED
      BY <1>1, <1>2, <2>1, <2>2, NewestIsSlice
  <2>4. Holds(k + 1, entry - 1, Opened)
    BY <1>1, <1>2, <1>7, OpenedInGap
  <2>5. CurrentHolds'
    BY <1>1, <1>3, <2>1, <2>3, <2>4 DEF CurrentHolds
  <2> QED
    BY <1>3, <1>6, <2>3, <2>5 DEF PlanInv
<1>8. CASE rows_available # 0
  <2>1. UNCHANGED <<segments, current_segment>>
    BY <1>8 DEF PreopenSegment
  <2>2. CurrentHolds'
    BY <1>1, <1>2, <1>3, <1>4, <2>1 DEF CurrentHolds
  <2> QED
    BY <1>1, <1>3, <1>6, <2>1, <2>2, SliceStays DEF PlanInv, SegmentsAreSlices, Last
<1> QED
  BY <1>7, <1>8

(* The rows of an entry that go into the current segment are those it has  *)
(* in the slice.                                                           *)
LEMMA RowsTakenHold ==
  ASSUME IInv, PlanInv, pc = "rows", rows_available # 0,
         NEW n, n = Least(pending, rows_available), NEW skip, skip = scan[entry].count - pending
  PROVE  Holds(Len(segments), entry,
               AddOrUpdate(current_segment, scan[entry].chunk, scan[entry].word, skip, n))
<1> DEFINE e == scan[entry]
<1>1. PICK k \in Nat, lo \in Nat :
        /\ k = Len(segments) /\ lo = k * Rows
        /\ entry \in 1 .. Len(scan)
        /\ Ends(entry) = lo + (Rows - rows_available) + pending
        /\ pending \in 1 .. e.count
  BY PlaceInSegment
<1>2. PICK a, b, c, r, g : /\ a = Begins(entry) /\ b = Ends(entry) /\ c = e.count
                           /\ r = RowsInSlice(entry, k) /\ g = GapBefore(entry)
  OBVIOUS
<1>3. /\ a \in Nat /\ b \in Nat /\ c \in Nat /\ b = a + c
      /\ r = IF b > lo /\ a < lo + Rows THEN Least(b, lo + Rows) - (IF a < lo THEN lo ELSE a)
             ELSE IF a = lo + Rows /\ g > 0 THEN 1 ELSE 0
      /\ b = lo + (Rows - rows_available) + pending
      /\ pending \in 1 .. c /\ rows_available \in 1 .. Rows /\ Rows \in Nat \ {0}
  <2>1. /\ a \in Nat /\ b \in Nat /\ b = a + c
        /\ r = IF b > lo /\ a < lo + Rows THEN Least(b, lo + Rows) - (IF a < lo THEN lo ELSE a)
               ELSE IF a = lo + Rows /\ g > 0 THEN 1 ELSE 0
    BY <1>1, <1>2, RowsInSliceIs
  <2>2. rows_available \in 0 .. Rows /\ Rows \in Nat \ {0} /\ c \in Nat
    BY <1>1, <1>2, StateFacts
  <2>3. rows_available \in 1 .. Rows
    BY <2>2
  <2> QED
    BY <1>1, <1>2, <2>1, <2>2, <2>3
<1>4. CASE pending = c
  <2>1. a = lo + (Rows - rows_available) /\ ~(lo > a) /\ ~(a < lo) /\ b > lo /\ a < lo + Rows
    BY <1>3, <1>4
  <2>2. r = n /\ r > 0
    BY <1>3, <1>4, <2>1 DEF Least
  <2>3. SkipIn(entry, k) = 0 /\ skip = 0
    BY <1>1, <1>2, <1>3, <1>4, <2>1 DEF SkipIn
  <2>4. entry \in InSlice(k)
    BY <1>1, <1>2, <2>2, StateFacts DEF InSlice
  <2>5. Holds(k, entry - 1, current_segment)
    BY <1>1, <1>2, <1>4 DEF PlanInv, CurrentHolds
  <2>6. Holds(k, entry, AddOrUpdate(current_segment, e.chunk, e.word, skip, n))
    BY <1>1, <1>2, <2>2, <2>3, <2>4, <2>5, NextInSlice DEF PlanInv
  <2> QED
    BY <1>1, <2>6
<1>5. CASE pending # c
  <2>1. Resumed
    BY <1>2, <1>5 DEF PlanInv, CurrentHolds
  <2>2. /\ rows_available = Rows
        /\ current_segment = AddOrUpdate(EmptySegment, e.chunk, e.word, skip, 0)
    BY <2>1 DEF Resumed
  <2>3. n \in Nat
    BY <1>3 DEF Least
  <2>4. AddOrUpdate(current_segment, e.chunk, e.word, skip, n)
          = AddOrUpdate(EmptySegment, e.chunk, e.word, skip, n)
    BY <2>2, <2>3, AddedToNone
  <2>5. b = lo + pending /\ a < lo /\ lo - a = c - pending
    BY <1>3, <1>5, <2>2
  <2>6. Least(c, lo - a) = c - pending /\ r = n
    BY <1>3, <1>5, <2>2, <2>5 DEF Least
  <2>7. \A j \in entry + 1 .. Len(scan) : Begins(j) >= lo
    <3> SUFFICES ASSUME NEW j \in entry + 1 .. Len(scan) PROVE Begins(j) >= lo
      OBVIOUS
    <3>1. PICK x : x = Begins(j)
      OBVIOUS
    <3>2. b <= x
      BY <1>1, <1>2, <3>1, EndsBefore
    <3>3. x \in Nat
      <4>1. j \in 1 .. Len(scan)
        BY <1>1, StateFacts
      <4> QED
        BY <3>1, <4>1, StateFacts
    <3>4. x >= lo
      BY <1>3, <2>5, <3>2, <3>3
    <3> QED
      BY <3>1, <3>4
  <2>8. Holds(k, entry, AddOrUpdate(EmptySegment, e.chunk, e.word,
                                    Least(e.count, lo - Begins(entry)), RowsInSlice(entry, k)))
    <3>1. Begins(entry) < lo
      BY <1>2, <2>5
    <3> QED
      BY <1>1, <2>7, <3>1, OpeningHolds DEF PlanInv
  <2>9. Least(e.count, lo - Begins(entry)) = skip /\ RowsInSlice(entry, k) = n
    BY <1>2, <2>6
  <2> QED
    BY <1>1, <2>4, <2>8, <2>9
<1> QED
  BY <1>4, <1>5

(* Rows of an entry, and an entry that runs over the end of a segment.     *)
LEMMA ConsumeRowsPlanInv ==
  ASSUME IInv, PlanInv, ConsumeRows
  PROVE  PlanInv'
<1> DEFINE e == scan[entry]
           n == Least(pending, rows_available)
           skip == e.count - pending
<1>1. /\ UNCHANGED <<walk, scan, intermediate, last_addr>>
      /\ pc = "rows" /\ pending' = pending - n
      /\ reference' = [reference EXCEPT !.skip = reference.skip + n]
      /\ IF pending' = 0 THEN pc' = "intermediates" /\ entry' = entry + 1
                         ELSE UNCHANGED <<pc, entry>>
  BY DEF ConsumeRows, Skipped
<1>2. PICK k \in Nat, lo \in Nat :
        /\ k = Len(segments) /\ lo = k * Rows
        /\ entry \in 1 .. Len(scan)
        /\ Ends(entry) = lo + (Rows - rows_available) + pending
        /\ pending \in 1 .. e.count
  BY <1>1, PlaceInSegment
<1>3. PICK c \in Nat \ {0} : c = e.count
  BY <1>2, StateFacts
<1>4. /\ pending \in 1 .. c /\ rows_available \in 0 .. Rows /\ Rows \in Nat \ {0}
      /\ entry \in Nat \ {0} /\ Len(scan) \in Nat
      /\ n \in Nat /\ n <= pending /\ n <= rows_available
      /\ n = 0 <=> rows_available = 0
  <2>1. /\ pending \in 1 .. c /\ rows_available \in 0 .. Rows /\ Rows \in Nat \ {0}
        /\ entry \in Nat \ {0} /\ Len(scan) \in Nat
    BY <1>2, <1>3, StateFacts
  <2> QED
    BY <2>1 DEF Least
<1>5. ScanOrdered' /\ \A x, y, z : Holds(x, y, z)' = Holds(x, y, z)
  BY <1>1, SliceStays DEF PlanInv
<1>6. reference' = PlaceIn(entry, c - pending')
  <2>1. reference = PlaceIn(entry, c - pending)
    BY <1>1, <1>3 DEF PlanInv, CarriedAlong
  <2>2. (c - pending) + n = c - pending'
    BY <1>1, <1>4
  <2>3. reference' = PlaceIn(entry, (c - pending) + n)
    BY <1>1, <2>1 DEF PlaceIn
  <2> QED
    BY <2>2, <2>3
<1>7. CASE rows_available = 0
  <2>1. /\ segments' = Closed(current_segment) /\ rows_available' = Rows
        /\ current_segment' = AddOrUpdate(Opened, e.chunk, e.word, skip, 0)
    BY <1>7 DEF ConsumeRows
  <2>2. pending < c /\ pending' = pending /\ pc' = "rows" /\ entry' = entry
    <3>1. pending < c
      BY <1>1, <1>3, <1>7 DEF PlanInv, CarriedAlong
    <3>2. pending' = pending
      BY <1>1, <1>4, <1>7
    <3>3. pending' # 0
      BY <1>4, <3>2
    <3> QED
      BY <1>1, <3>1, <3>2, <3>3
  <2>3. current_segment.chunks = Slice(k)
    <3>1. Holds(k, entry, current_segment)
      <4>1. pending # scan[entry].count
        BY <1>3, <1>4, <2>2
      <4> QED
        BY <1>1, <1>2, <1>7, <4>1 DEF PlanInv, CurrentHolds
    <3>2. entry < Len(scan) => Begins(entry + 1) > lo + Rows
      <4> SUFFICES ASSUME entry < Len(scan) PROVE Begins(entry + 1) > lo + Rows
        OBVIOUS
      <4>1. entry + 1 \in 1 .. Len(scan) /\ entry + 1 \in entry + 1 .. Len(scan)
        BY <1>4
      <4>2. PICK x, y : x = Ends(entry) /\ y = Begins(entry + 1)
        OBVIOUS
      <4>3. x <= y /\ y \in Nat /\ x = lo + Rows + pending
        BY <1>2, <1>4, <1>7, <4>1, <4>2, EndsBefore, StateFacts
      <4>4. y > lo + Rows
        BY <1>4, <4>3
      <4> QED
        BY <4>2, <4>4
    <3>3. entry \in 0 .. Len(scan)
      BY <1>2, <1>4
    <3> QED
      BY <1>2, <3>1, <3>2, <3>3, ClosedIsSlice
  <2>4. SegmentsAreSlices' /\ Len(segments') = k + 1
    BY <1>1, <1>2, <2>1, <2>3, NewestIsSlice
  <2>5. current_segment' = AddOrUpdate(EmptySegment, e.chunk, e.word, skip, 0)
    <3>1. reference = [chunk |-> e.chunk, addr |-> e.word, skip |-> skip]
      BY <1>1 DEF PlanInv, CarriedAlong, PlaceIn
    <3>2. reference # NoEntry
      <4>1. e.chunk \in Nat /\ e.word \in Nat /\ skip \in Nat
        <5>1. skip \in Nat
          BY <1>3, <1>4
        <5>2. e.chunk \in Nat /\ e.word \in Nat
          BY <1>2, StateFacts, WordsType, ScanAssumption
        <5> QED
          BY <5>1, <5>2
      <4> HIDE DEF e, skip
      <4>2. reference \in [chunk : Nat, addr : Nat, skip : Nat]
        BY <3>1, <4>1
      <4> QED
        BY <4>2, ImmutableAssumption
    <3> HIDE DEF e, skip
    <3>3. Opened = AddOrUpdate(EmptySegment, e.chunk, e.word, skip, 0)
      BY <3>1, <3>2 DEF Opened
    <3>4. 0 \in Nat
      OBVIOUS
    <3> QED
      BY <2>1, <3>3, <3>4, AddedToNone
  <2>6. Resumed' /\ rows_available' # 0 /\ pending' # (scan[entry].count)'
    <3>1. Resumed'
      BY <1>1, <2>1, <2>2, <2>5 DEF Resumed
    <3>2. pending' # (scan[entry].count)'
      BY <1>1, <1>3, <1>4, <2>2
    <3> QED
      BY <1>4, <2>1, <3>1, <3>2
  <2>7. CurrentHolds'
    BY <2>2, <2>6 DEF CurrentHolds
  <2>8. CarriedAlong'
    <3>1. (PlaceIn(entry, scan[entry].count - pending))' = PlaceIn(entry, c - pending')
      BY <1>1, <1>3, <2>2 DEF PlaceIn
    <3> QED
      BY <1>6, <2>2, <2>6, <3>1 DEF CarriedAlong
  <2> QED
    BY <1>5, <2>4, <2>7, <2>8 DEF PlanInv
<1>8. CASE rows_available # 0
  <2>1. /\ UNCHANGED segments /\ rows_available' = rows_available - n
        /\ current_segment' = AddOrUpdate(current_segment, e.chunk, e.word, skip, n)
    BY <1>8 DEF ConsumeRows
  <2>2. Holds(k, entry, current_segment')
    BY <1>1, <1>2, <1>8, <2>1, RowsTakenHold
  <2>3. SegmentsAreSlices'
    BY <1>1, <2>1, SliceStays DEF PlanInv, SegmentsAreSlices, Last
  <2>4. CASE pending' = 0
    <3>1. pc' = "intermediates" /\ entry' = entry + 1 /\ entry' # 1 /\ entry' - 1 = entry
      BY <1>1, <1>4, <2>4
    <3>2. CurrentHolds'
      BY <1>2, <1>5, <2>1, <2>2, <3>1 DEF CurrentHolds
    <3>3. reference' = (PlaceIn(entry - 1, scan[entry - 1].count))'
      <4>1. c - pending' = c
        BY <1>3, <2>4
      <4>2. (PlaceIn(entry - 1, scan[entry - 1].count))' = PlaceIn(entry, c)
        BY <1>1, <1>3, <3>1 DEF PlaceIn
      <4> QED
        BY <1>6, <4>1, <4>2
    <3>4. CarriedAlong'
      BY <3>1, <3>3 DEF CarriedAlong
    <3> QED
      BY <1>5, <2>3, <3>2, <3>4 DEF PlanInv
  <2>5. CASE pending' # 0
    <3>1. pc' = "rows" /\ entry' = entry
      BY <1>1, <2>5
    <3>2. n < pending /\ n = rows_available /\ rows_available' = 0 /\ pending' < c
      <4>1. n < pending
        BY <1>1, <1>4, <2>5
      <4>2. n = rows_available
        BY <1>4, <4>1 DEF Least
      <4> QED
        BY <1>1, <1>4, <1>8, <2>1, <4>1, <4>2
    <3>3. (scan[entry].count)' = c /\ pending' # c
      <4>1. pending' \in Int
        BY <1>1, <1>4
      <4> QED
        BY <1>1, <1>3, <3>1, <3>2, <4>1
    <3>4. CurrentHolds'
      BY <1>2, <1>5, <2>1, <2>2, <3>1, <3>2, <3>3 DEF CurrentHolds
    <3>5. CarriedAlong'
      <4>1. (PlaceIn(entry, scan[entry].count - pending))' = PlaceIn(entry, c - pending')
        BY <1>1, <1>3, <3>1 DEF PlaceIn
      <4> QED
        BY <1>6, <3>1, <3>2, <3>3, <4>1 DEF CarriedAlong
    <3> QED
      BY <1>5, <2>3, <3>4, <3>5 DEF PlanInv
  <2> QED
    BY <2>4, <2>5
<1> QED
  BY <1>7, <1>8

(* The last segment is closed when the scan is through.                    *)
LEMMA CloseLastSegmentPlanInv ==
  ASSUME IInv, PlanInv, CloseLastSegment
  PROVE  PlanInv'
<1>1. /\ UNCHANGED scan /\ pc = "intermediates" /\ pc' = "closed"
      /\ entry - 1 = Len(scan) /\ Len(scan) \in Nat
  BY StateFacts DEF CloseLastSegment
<1>2. CarriedAlong' /\ CurrentHolds' /\ ScanOrdered'
  BY <1>1, SliceStays DEF CarriedAlong, CurrentHolds, PlanInv
<1>3. SegmentsAreSlices'
  <2>1. CASE MustClose
    <3>1. segments' = Closed(current_segment)
      BY <2>1 DEF CloseLastSegment
    <3>2. PICK k \in Nat, lo \in Nat : k = Len(segments) /\ lo = k * Rows
      BY PlaceInSegment
    <3>3. Holds(k, Len(scan), current_segment)
      BY <1>1, <3>2 DEF PlanInv, CurrentHolds
    <3>4. Len(scan) \in 0 .. Len(scan) /\ ~(Len(scan) < Len(scan))
      BY <1>1
    <3>5. current_segment.chunks = Slice(k)
      BY <3>2, <3>3, <3>4, ClosedIsSlice
    <3> QED
      BY <1>1, <3>1, <3>2, <3>5, NewestIsSlice
  <2>2. CASE ~MustClose
    BY <1>1, <2>2, SliceStays DEF CloseLastSegment, PlanInv, SegmentsAreSlices, Last
  <2> QED
    BY <2>1, <2>2
<1> QED
  BY <1>2, <1>3 DEF PlanInv

LEMMA NextPlanInv ==
  ASSUME IInv, PlanInv, [Next]_vars
  PROVE  PlanInv'
<1>1. CASE AddIntermediates
  BY <1>1, AddIntermediatesPlanInv
<1>2. CASE ConsumeIntermediateRows
  BY <1>2, ConsumeIntermediateRowsPlanInv
<1>3. CASE PreopenSegment
  BY <1>3, PreopenSegmentPlanInv
<1>4. CASE ConsumeRows
  BY <1>4, ConsumeRowsPlanInv
<1>5. CASE CloseLastSegment
  BY <1>5, CloseLastSegmentPlanInv
<1>6. CASE UNCHANGED vars
  <2>1. SegmentsAreSlices' /\ ScanOrdered'
    BY <1>6, SliceStays DEF vars, PlanInv, SegmentsAreSlices, Last
  <2>2. CarriedAlong'
    BY <1>6 DEF vars, PlanInv, CarriedAlong, PlaceIn, GapBefore
  <2>3. CurrentHolds'
    BY <1>6, SliceStays DEF vars, PlanInv, CurrentHolds, Resumed
  <2> QED
    BY <2>1, <2>2, <2>3 DEF PlanInv
<1>7. CASE Finished
  BY <1>6, <1>7 DEF Finished
<1> QED
  BY <1>1, <1>2, <1>3, <1>4, <1>5, <1>6, <1>7 DEF Next

(* A closed segment is the slice of the layout with its number: every      *)
(* chunk enters and leaves it where the layout says, it begins with the    *)
(* place where the last entry ahead of it was left, and a gap that fills   *)
(* it up announces the entry behind.                                       *)
THEOREM ImmutableSegmentsAreSlices == Spec => []SegmentsAreSlices
<1>1. Init => PlanInv
  BY InitPlanInv
<1>2. IInv /\ PlanInv /\ [Next]_vars => PlanInv'
  BY NextPlanInv
<1>3. PlanInv => SegmentsAreSlices
  BY DEF PlanInv
<1> QED
  BY <1>1, <1>2, <1>3, Invariance, PTL DEF Spec


=============================================================================
