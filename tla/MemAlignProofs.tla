---------------------------- MODULE MemAlignProofs -----------------------------
(***************************************************************************)
(* Proofs about MemAlign, for any size of the segments, any number of      *)
(* chunks and any trace of any length.                                     *)
(*                                                                         *)
(* The two properties speak of the check points alone; what keeps them is  *)
(* their relation to the three counters execute_chunk carries along.       *)
(* Bounded relates the numbers of operations; SkipCounts says that skip    *)
(* counts the chunk's accesses; ChunksInOrder that no access of a later    *)
(* chunk was seen yet, so that the first one of a chunk may write skip 0;  *)
(* OpenSegmentFilled that available_rows is what the check points of the   *)
(* open segment leave of it.                                               *)
(***************************************************************************)
EXTENDS MemAlign, AccumulationProofs, FiniteSetTheorems, SequenceTheorems

Bounded ==
  /\ Len(trace) <= MaxOps
  /\ skip <= Len(trace)
  /\ segment_id < Len(trace)

SkipCounts == skip = Cardinality(OfChunk(chunk_id, Len(trace)))

ChunksInOrder ==
  checkpoints # <<>> =>
    /\ Last(checkpoints).chunk_id <= chunk_id
    /\ \A k \in DOMAIN trace : trace[k].chunk <= Last(checkpoints).chunk_id

OpenSegmentFilled ==
  /\ segment_id = -1 <=> checkpoints = <<>>
  /\ checkpoints = <<>> => available_rows = 0
  /\ checkpoints # <<>> =>
       /\ available_rows < Rows
       /\ Last(checkpoints).segment_id = segment_id
       /\ RowsOfSegment(segment_id) = Rows - available_rows
  /\ \A i \in DOMAIN checkpoints : checkpoints[i].segment_id <= segment_id

IInv ==
  /\ TypeOK
  /\ Bounded
  /\ SkipCounts
  /\ ChunksInOrder
  /\ OpenSegmentFilled
  /\ CheckPointsTileTrace
  /\ SegmentsPacked

-----------------------------------------------------------------------------
(* The properties, of any table c of check points and any trace t          *)

Accesses == [chunk : 0 .. NumChunks - 1, rows : OpRows]

CountsOf(c) == [j \in DOMAIN c |-> c[j].count]

RowsOf(t) == [k \in DOMAIN t |-> t[k].rows]

RowsIn(c, s) == [j \in DOMAIN c |-> IF c[j].segment_id = s THEN c[j].rows ELSE 0]

ChunkIn(t, h, n) == {k \in 1 .. n : t[k].chunk = h}

Tiled(c, t, i) ==
  LET first == RunningTotal(CountsOf(c))[i - 1]
      last == first + c[i].count
  IN  /\ \A k \in first + 1 .. last : t[k].chunk = c[i].chunk_id
      /\ c[i].rows = RunningTotal(RowsOf(t))[last] - RunningTotal(RowsOf(t))[first]
      /\ c[i].skip = Cardinality(ChunkIn(t, c[i].chunk_id, first))

Tile(c, t) ==
  /\ RunningTotal(CountsOf(c))[Len(c)] = Len(t)
  /\ \A i \in 1 .. Len(c) : Tiled(c, t, i)

Packed(c, t, i) ==
  LET s == c[i].segment_id
  IN  /\ c[i].offset = RunningTotal(RowsIn(c, s))[i - 1]
      /\ c[i].offset + c[i].rows <= Rows
      /\ i > 1 /\ c[i].offset = 0 =>
           /\ s = c[i - 1].segment_id + 1
           /\ Total(RowsIn(c, s - 1)) + t[RunningTotal(CountsOf(c))[i - 1] + 1].rows > Rows

Pack(c, t) == \A i \in 1 .. Len(c) : Packed(c, t, i)

(* The last check point of c, one access of ops rows longer.               *)
Longer(c, ops) == [c EXCEPT ![Len(c)].count = @ + 1, ![Len(c)].rows = @ + ops]

(* An access takes two to five rows.                                       *)
LEMMA OpRowsType == OpRows \subseteq 2 .. 5
<1> SUFFICES ASSUME NEW words \in 1 .. 2, NEW accesses \in 1 .. 2
             PROVE  words * accesses + 1 \in 2 .. 5
  BY DEF OpRows
<1>1. words = 1 \/ words = 2
  OBVIOUS
<1> QED
  BY <1>1

(* The parts of a check point.                                             *)
LEMMA CheckPointParts ==
  ASSUME NEW cp \in CheckPoints
  PROVE  /\ cp.segment_id \in Nat /\ cp.chunk_id \in Nat /\ cp.skip \in Nat
         /\ cp.count \in Nat /\ cp.count >= 1 /\ cp.rows \in Nat /\ cp.rows >= 1
         /\ cp.offset \in Nat
  BY AlignAssumption DEF CheckPoints

(* The tables a list of check points is summed up from.                    *)
LEMMA Tables ==
  ASSUME NEW c \in Seq(CheckPoints)
  PROVE  /\ Len(c) \in Nat /\ DOMAIN c = 1 .. Len(c)
         /\ \A i \in 1 .. Len(c) : c[i] \in CheckPoints
         /\ CountsOf(c) \in Seq(Nat) /\ Len(CountsOf(c)) = Len(c)
         /\ \A i \in 1 .. Len(c) : CountsOf(c)[i] = c[i].count
         /\ \A s : /\ RowsIn(c, s) \in Seq(Nat) /\ Len(RowsIn(c, s)) = Len(c)
                   /\ \A i \in 1 .. Len(c) :
                        RowsIn(c, s)[i] = IF c[i].segment_id = s THEN c[i].rows ELSE 0
<1>1. /\ Len(c) \in Nat /\ DOMAIN c = 1 .. Len(c)
      /\ \A i \in 1 .. Len(c) : c[i] \in CheckPoints
  BY SeqIsFunction
<1> DEFINE m == Len(c)
<1>2. CountsOf(c) \in [1 .. m -> Nat] /\ \A i \in 1 .. m : CountsOf(c)[i] = c[i].count
  BY <1>1, CheckPointParts DEF CountsOf
<1>3. ASSUME NEW s
      PROVE  /\ RowsIn(c, s) \in [1 .. m -> Nat]
             /\ \A i \in 1 .. m : RowsIn(c, s)[i] = IF c[i].segment_id = s THEN c[i].rows ELSE 0
  BY <1>1, CheckPointParts DEF RowsIn
<1> HIDE DEF m
<1>4. CountsOf(c) \in Seq(Nat) /\ Len(CountsOf(c)) = m
  BY <1>1, <1>2, FunctionIsSeq DEF m
<1>5. ASSUME NEW s PROVE RowsIn(c, s) \in Seq(Nat) /\ Len(RowsIn(c, s)) = m
  BY <1>1, <1>3, FunctionIsSeq DEF m
<1> QED
  BY <1>1, <1>2, <1>3, <1>4, <1>5 DEF m

(* And the table of the rows of a trace.                                   *)
LEMMA TraceTables ==
  ASSUME NEW t \in Seq(Accesses)
  PROVE  /\ Len(t) \in Nat /\ DOMAIN t = 1 .. Len(t)
         /\ \A k \in 1 .. Len(t) : t[k].chunk \in Nat /\ t[k].rows \in Nat
         /\ RowsOf(t) \in Seq(Nat) /\ Len(RowsOf(t)) = Len(t)
         /\ \A k \in 1 .. Len(t) : RowsOf(t)[k] = t[k].rows
<1>1. /\ Len(t) \in Nat /\ DOMAIN t = 1 .. Len(t)
      /\ \A k \in 1 .. Len(t) : t[k] \in Accesses
  BY SeqIsFunction
<1>2. \A a \in Accesses : a.chunk \in Nat /\ a.rows \in Nat
  <2>1. \A x \in OpRows : x \in Nat
    BY OpRowsType
  <2>2. \A x \in 0 .. NumChunks - 1 : x \in Nat
    BY AlignAssumption
  <2> QED
    BY <2>1, <2>2 DEF Accesses
<1> DEFINE m == Len(t)
<1>3. RowsOf(t) \in [1 .. m -> Nat] /\ \A i \in 1 .. m : RowsOf(t)[i] = t[i].rows
  BY <1>1, <1>2 DEF RowsOf
<1> HIDE DEF m
<1>4. RowsOf(t) \in Seq(Nat) /\ Len(RowsOf(t)) = m
  BY <1>1, <1>3, FunctionIsSeq DEF m
<1> QED
  BY <1>1, <1>2, <1>3, <1>4 DEF m

(* Where the accesses of a check point lie in the trace.                   *)
LEMMA RunInTrace ==
  ASSUME NEW c \in Seq(CheckPoints), NEW n \in Nat,
         RunningTotal(CountsOf(c))[Len(c)] = n, NEW i \in 1 .. Len(c)
  PROVE  LET r == RunningTotal(CountsOf(c))
         IN  /\ r[i - 1] \in Nat /\ r[i] = r[i - 1] + c[i].count
             /\ r[i - 1] < r[i] /\ r[i] <= n
<1>1. /\ CountsOf(c) \in Seq(Nat) /\ Len(CountsOf(c)) = Len(c)
      /\ CountsOf(c)[i] = c[i].count /\ c[i].count \in Nat /\ c[i].count >= 1
  BY Tables, CheckPointParts
<1> QED
  BY <1>1, RunningTotalStep

(* A new check point behind the others.                                    *)
LEMMA Opened ==
  ASSUME NEW c \in Seq(CheckPoints), NEW new \in CheckPoints
  PROVE  LET d == Append(c, new)
             m == Len(c)
         IN  /\ d \in Seq(CheckPoints) /\ Len(d) = m + 1 /\ d[m + 1] = new
             /\ \A i \in 1 .. m : d[i] = c[i]
             /\ \A n \in 0 .. m :
                  RunningTotal(CountsOf(d))[n] = RunningTotal(CountsOf(c))[n]
             /\ RunningTotal(CountsOf(d))[m + 1] = RunningTotal(CountsOf(c))[m] + new.count
             /\ \A s : /\ \A n \in 0 .. m :
                            RunningTotal(RowsIn(d, s))[n] = RunningTotal(RowsIn(c, s))[n]
                       /\ Total(RowsIn(d, s)) =
                            Total(RowsIn(c, s))
                              + IF new.segment_id = s THEN new.rows ELSE 0
<1> DEFINE d == Append(c, new)
           m == Len(c)
<1>1. d \in Seq(CheckPoints) /\ Len(d) = m + 1 /\ d[m + 1] = new
  OBVIOUS
<1>2. \A i \in 1 .. m : d[i] = c[i]
  OBVIOUS
<1>3. m \in Nat /\ new.count \in Nat /\ new.rows \in Nat
  BY CheckPointParts
<1> HIDE DEF d, m
<1>4. CountsOf(d) = Append(CountsOf(c), new.count)
  <2> DEFINE v == CountsOf(d)
             w == Append(CountsOf(c), new.count)
             u == CountsOf(c)
  <2>1. v \in Seq(Nat) /\ Len(v) = m + 1 /\ \A i \in 1 .. m + 1 : v[i] = d[i].count
    BY <1>1, Tables
  <2>2. u \in Seq(Nat) /\ Len(u) = m /\ \A i \in 1 .. m : u[i] = c[i].count
    BY Tables DEF m
  <2>3. w = Append(u, new.count)
    OBVIOUS
  <2> HIDE DEF v, w, u
  <2>4. w \in Seq(Nat) /\ Len(w) = m + 1 /\ w[m + 1] = new.count /\ \A i \in 1 .. m : w[i] = u[i]
    BY <1>3, <2>2, <2>3
  <2>5. \A i \in 1 .. m + 1 : v[i] = w[i]
    <3> SUFFICES ASSUME NEW i \in 1 .. m + 1 PROVE v[i] = w[i]
      OBVIOUS
    <3>1. i \in 1 .. m \/ i = m + 1
      BY <1>3
    <3> QED
      BY <1>1, <1>2, <2>1, <2>2, <2>4, <3>1
  <2>6. v = w
    BY <2>1, <2>4, <2>5, SeqEqual
  <2> QED
    BY <2>6 DEF v, w
<1>5. ASSUME NEW s
      PROVE  RowsIn(d, s) = Append(RowsIn(c, s), IF new.segment_id = s THEN new.rows ELSE 0)
  <2> DEFINE x == IF new.segment_id = s THEN new.rows ELSE 0
             v == RowsIn(d, s)
             u == RowsIn(c, s)
             w == Append(u, x)
  <2>1. /\ v \in Seq(Nat) /\ Len(v) = m + 1
        /\ \A i \in 1 .. m + 1 : v[i] = IF d[i].segment_id = s THEN d[i].rows ELSE 0
    BY <1>1, Tables
  <2>2. /\ u \in Seq(Nat) /\ Len(u) = m
        /\ \A i \in 1 .. m : u[i] = IF c[i].segment_id = s THEN c[i].rows ELSE 0
    BY Tables DEF m
  <2>3. x \in Nat
    BY <1>3
  <2>4. v[m + 1] = x
    BY <1>1, <1>3, <2>1
  <2>5. \A i \in 1 .. m : v[i] = u[i]
    <3> HIDE DEF v, u
    <3> SUFFICES ASSUME NEW i \in 1 .. m PROVE v[i] = u[i]
      OBVIOUS
    <3>1. i \in 1 .. m + 1 /\ d[i] = c[i]
      BY <1>2, <1>3
    <3>2. v[i] = IF c[i].segment_id = s THEN c[i].rows ELSE 0
      BY <2>1, <3>1
    <3> QED
      BY <2>2, <3>2
  <2> HIDE DEF v, u, x
  <2>6. w \in Seq(Nat) /\ Len(w) = m + 1 /\ w[m + 1] = x /\ \A i \in 1 .. m : w[i] = u[i]
    BY <1>3, <2>2, <2>3
  <2> HIDE DEF w
  <2>7. \A i \in 1 .. m + 1 : v[i] = w[i]
    <3> SUFFICES ASSUME NEW i \in 1 .. m + 1 PROVE v[i] = w[i]
      OBVIOUS
    <3>1. i \in 1 .. m \/ i = m + 1
      BY <1>3
    <3> QED
      BY <2>4, <2>5, <2>6, <3>1
  <2>8. v = w
    BY <2>1, <2>6, <2>7, SeqEqual
  <2> QED
    BY <2>8 DEF v, w, u, x
<1>6. /\ \A n \in 0 .. m : RunningTotal(CountsOf(d))[n] = RunningTotal(CountsOf(c))[n]
      /\ RunningTotal(CountsOf(d))[m + 1] = RunningTotal(CountsOf(c))[m] + new.count
  <2> DEFINE u == CountsOf(c)
             x == new.count
  <2>1. u \in Seq(Nat) /\ Len(u) = m /\ x \in Nat
    BY <1>3, Tables DEF m
  <2>2. CountsOf(d) = Append(u, x)
    BY <1>4
  <2> HIDE DEF u, x
  <2>3. /\ \A n \in 0 .. m : RunningTotal(Append(u, x))[n] = RunningTotal(u)[n]
        /\ RunningTotal(Append(u, x))[m + 1] = RunningTotal(u)[m] + x
    BY <2>1, RunningTotalAppend
  <2> QED
    BY <2>2, <2>3 DEF u, x
<1>7. ASSUME NEW s
      PROVE  /\ \A n \in 0 .. m : RunningTotal(RowsIn(d, s))[n] = RunningTotal(RowsIn(c, s))[n]
             /\ Total(RowsIn(d, s)) =
                  Total(RowsIn(c, s)) + IF new.segment_id = s THEN new.rows ELSE 0
  <2> DEFINE x == IF new.segment_id = s THEN new.rows ELSE 0
             u == RowsIn(c, s)
  <2>1. u \in Seq(Nat) /\ Len(u) = m /\ x \in Nat
    BY <1>3, Tables DEF m
  <2>2. RowsIn(d, s) = Append(u, x)
    BY <1>5
  <2> HIDE DEF u, x
  <2>3. /\ \A n \in 0 .. m : RunningTotal(Append(u, x))[n] = RunningTotal(u)[n]
        /\ Total(Append(u, x)) = Total(u) + x
    BY <2>1, RunningTotalAppend, TotalAppend
  <2> QED
    BY <2>2, <2>3 DEF u, x
<1> QED
  BY <1>1, <1>2, <1>6, <1>7 DEF d, m

(* The totals of two tables that differ in the last place only.            *)
LEMMA TotalsUpToLast ==
  ASSUME NEW v \in Seq(Nat), NEW w \in Seq(Nat), NEW m \in Nat \ {0},
         Len(v) = m, Len(w) = m, \A i \in 1 .. m - 1 : v[i] = w[i],
         NEW x \in Nat, v[m] = w[m] + x
  PROVE  /\ \A n \in 0 .. m - 1 : RunningTotal(v)[n] = RunningTotal(w)[n]
         /\ RunningTotal(v)[m] = RunningTotal(w)[m] + x
<1>1. ASSUME NEW n \in 0 .. m - 1 PROVE RunningTotal(v)[n] = RunningTotal(w)[n]
  <2>1. n \in Nat /\ n <= Len(v) /\ n <= Len(w) /\ \A i \in 1 .. n : v[i] = w[i]
    OBVIOUS
  <2> QED
    BY <2>1, RunningTotalAgree
<1>2. /\ RunningTotal(v)[m] = RunningTotal(v)[m - 1] + v[m]
      /\ RunningTotal(w)[m] = RunningTotal(w)[m - 1] + w[m]
      /\ RunningTotal(w)[m - 1] \in Nat /\ w[m] \in Nat
  <2>1. m \in 1 .. Len(v) /\ m \in 1 .. Len(w)
    OBVIOUS
  <2>2. w[m] \in Nat
    BY <2>1
  <2> QED
    BY <2>1, <2>2, RunningTotalStep
<1>3. RunningTotal(v)[m - 1] = RunningTotal(w)[m - 1]
  BY <1>1
<1> QED
  BY <1>1, <1>2, <1>3

(* One more access for the last check point.                               *)
LEMMA Extended ==
  ASSUME NEW c \in Seq(CheckPoints), Len(c) # 0, NEW ops \in Nat
  PROVE  LET d == Longer(c, ops)
             m == Len(c)
         IN  /\ d \in Seq(CheckPoints) /\ Len(d) = m
             /\ \A i \in 1 .. m - 1 : d[i] = c[i]
             /\ d[m].segment_id = c[m].segment_id /\ d[m].chunk_id = c[m].chunk_id
             /\ d[m].skip = c[m].skip /\ d[m].offset = c[m].offset
             /\ d[m].count = c[m].count + 1 /\ d[m].rows = c[m].rows + ops
             /\ \A n \in 0 .. m - 1 :
                  RunningTotal(CountsOf(d))[n] = RunningTotal(CountsOf(c))[n]
             /\ RunningTotal(CountsOf(d))[m] = RunningTotal(CountsOf(c))[m] + 1
             /\ \A s : /\ \A n \in 0 .. m - 1 :
                            RunningTotal(RowsIn(d, s))[n] = RunningTotal(RowsIn(c, s))[n]
                       /\ Total(RowsIn(d, s)) =
                            Total(RowsIn(c, s)) + IF c[m].segment_id = s THEN ops ELSE 0
<1> DEFINE d == Longer(c, ops)
           m == Len(c)
<1>1. m \in Nat \ {0} /\ m \in 1 .. m /\ \A i \in 1 .. m : c[i] \in CheckPoints
  BY SeqIsFunction
<1>2. /\ d \in Seq(CheckPoints) /\ Len(d) = m
      /\ \A i \in 1 .. m - 1 : d[i] = c[i]
      /\ d[m].segment_id = c[m].segment_id /\ d[m].chunk_id = c[m].chunk_id
      /\ d[m].skip = c[m].skip /\ d[m].offset = c[m].offset
      /\ d[m].count = c[m].count + 1 /\ d[m].rows = c[m].rows + ops
  <2> DEFINE q == [c[m] EXCEPT !.count = @ + 1, !.rows = @ + ops]
  <2>1. q \in CheckPoints
    <3>1. PICK e : e = c[m]
      OBVIOUS
    <3>2. e \in CheckPoints /\ e.count + 1 \in Nat \ {0} /\ e.rows + ops \in Nat \ {0}
      <4>1. e \in CheckPoints
        BY <1>1, <3>1
      <4> QED
        BY <4>1, CheckPointParts
    <3>3. q = [e EXCEPT !.count = @ + 1, !.rows = @ + ops]
      BY <3>1
    <3> HIDE DEF q
    <3> QED
      BY <3>2, <3>3 DEF CheckPoints
  <2>2. /\ q.segment_id = c[m].segment_id /\ q.chunk_id = c[m].chunk_id
        /\ q.skip = c[m].skip /\ q.offset = c[m].offset
        /\ q.count = c[m].count + 1 /\ q.rows = c[m].rows + ops
    BY <1>1 DEF CheckPoints
  <2>3. d = [c EXCEPT ![m] = q]
    BY <1>1 DEF Longer, CheckPoints
  <2> HIDE DEF q, d
  <2>4. d \in Seq(CheckPoints) /\ Len(d) = m /\ d[m] = q /\ \A i \in 1 .. m - 1 : d[i] = c[i]
    BY <1>1, <2>1, <2>3
  <2> QED
    BY <2>2, <2>4
<1> HIDE DEF d, m
<1>3. /\ \A n \in 0 .. m - 1 : RunningTotal(CountsOf(d))[n] = RunningTotal(CountsOf(c))[n]
      /\ RunningTotal(CountsOf(d))[m] = RunningTotal(CountsOf(c))[m] + 1
  <2> DEFINE v == CountsOf(d)
             w == CountsOf(c)
  <2>1. v \in Seq(Nat) /\ Len(v) = m /\ \A i \in 1 .. m : v[i] = d[i].count
    BY <1>2, Tables
  <2>2. w \in Seq(Nat) /\ Len(w) = m /\ \A i \in 1 .. m : w[i] = c[i].count
    BY Tables DEF m
  <2> HIDE DEF v, w
  <2>3. PICK x \in Nat : x = 1
    OBVIOUS
  <2>4. v[m] = w[m] + x
    BY <1>1, <1>2, <2>1, <2>2, <2>3
  <2>5. ASSUME NEW i \in 1 .. m - 1 PROVE v[i] = w[i]
    <3>1. i \in 1 .. m /\ d[i] = c[i]
      BY <1>1, <1>2
    <3> QED
      BY <2>1, <2>2, <3>1
  <2>6. /\ \A n \in 0 .. m - 1 : RunningTotal(v)[n] = RunningTotal(w)[n]
        /\ RunningTotal(v)[m] = RunningTotal(w)[m] + x
    BY <1>1, <2>1, <2>2, <2>4, <2>5, TotalsUpToLast
  <2>7. RunningTotal(v)[m] = RunningTotal(w)[m] + 1
    BY <2>3, <2>6
  <2> QED
    BY <2>6, <2>7, Zenon DEF v, w
<1>4. ASSUME NEW s
      PROVE  /\ \A n \in 0 .. m - 1 : RunningTotal(RowsIn(d, s))[n] = RunningTotal(RowsIn(c, s))[n]
             /\ Total(RowsIn(d, s)) =
                  Total(RowsIn(c, s)) + IF c[m].segment_id = s THEN ops ELSE 0
  <2> DEFINE v == RowsIn(d, s)
             w == RowsIn(c, s)
             x == IF c[m].segment_id = s THEN ops ELSE 0
  <2>1. /\ v \in Seq(Nat) /\ Len(v) = m
        /\ \A i \in 1 .. m : v[i] = IF d[i].segment_id = s THEN d[i].rows ELSE 0
    BY <1>2, Tables
  <2>2. /\ w \in Seq(Nat) /\ Len(w) = m
        /\ \A i \in 1 .. m : w[i] = IF c[i].segment_id = s THEN c[i].rows ELSE 0
    BY Tables DEF m
  <2>3. c[m].rows \in Nat /\ x \in Nat
    BY <1>1, CheckPointParts
  <2> HIDE DEF v, w
  <2>4. v[m] = w[m] + x
    <3>1. /\ v[m] = IF c[m].segment_id = s THEN c[m].rows + ops ELSE 0
          /\ w[m] = IF c[m].segment_id = s THEN c[m].rows ELSE 0
      BY <1>1, <1>2, <2>1, <2>2
    <3> QED
      BY <2>3, <3>1
  <2> HIDE DEF x
  <2>5. ASSUME NEW i \in 1 .. m - 1 PROVE v[i] = w[i]
    <3>1. i \in 1 .. m /\ d[i] = c[i]
      BY <1>1, <1>2
    <3> QED
      BY <2>1, <2>2, <3>1
  <2>6. /\ \A n \in 0 .. m - 1 : RunningTotal(v)[n] = RunningTotal(w)[n]
        /\ RunningTotal(v)[m] = RunningTotal(w)[m] + x
    BY <1>1, <2>1, <2>2, <2>3, <2>4, <2>5, TotalsUpToLast
  <2> QED
    BY <2>1, <2>2, <2>6 DEF v, w, x, Total
<1> QED
  BY <1>2, <1>3, <1>4 DEF d, m

(* One more access in the trace.                                           *)
LEMMA TraceGrows ==
  ASSUME NEW t \in Seq(Accesses), NEW a \in Accesses
  PROVE  LET u == Append(t, a)
             n == Len(t)
         IN  /\ u \in Seq(Accesses) /\ Len(u) = n + 1 /\ u[n + 1] = a
             /\ \A k \in 1 .. n : u[k] = t[k]
             /\ \A k \in 0 .. n : /\ RunningTotal(RowsOf(u))[k] = RunningTotal(RowsOf(t))[k]
                                  /\ RunningTotal(RowsOf(u))[k] \in Nat
             /\ RunningTotal(RowsOf(u))[n + 1] = RunningTotal(RowsOf(t))[n] + a.rows
             /\ \A h : \A k \in 0 .. n : ChunkIn(u, h, k) = ChunkIn(t, h, k)
<1> DEFINE u == Append(t, a)
           n == Len(t)
<1>1. n \in Nat /\ u \in Seq(Accesses) /\ Len(u) = n + 1 /\ u[n + 1] = a
  OBVIOUS
<1>2. \A k \in 1 .. n : u[k] = t[k]
  OBVIOUS
<1> DEFINE v == RowsOf(u)
           w == RowsOf(t)
<1> HIDE DEF u, n
<1>3. v \in Seq(Nat) /\ Len(v) = n + 1 /\ \A k \in 1 .. n + 1 : v[k] = u[k].rows
  BY <1>1, TraceTables
<1>4. w \in Seq(Nat) /\ Len(w) = n /\ \A k \in 1 .. n : w[k] = t[k].rows
  BY TraceTables DEF n
<1>5. \A h : \A k \in 0 .. n : ChunkIn(u, h, k) = ChunkIn(t, h, k)
  <2> SUFFICES ASSUME NEW h, NEW k \in 0 .. n
               PROVE  \A j \in 1 .. k : u[j].chunk = t[j].chunk
    BY DEF ChunkIn
  <2> QED
    BY <1>1, <1>2
<1> HIDE DEF v, w
<1>6. ASSUME NEW k \in 0 .. n
      PROVE  RunningTotal(v)[k] = RunningTotal(w)[k] /\ RunningTotal(v)[k] \in Nat
  <2>1. k \in Nat /\ k <= Len(v) /\ k <= Len(w) /\ k \in 0 .. Len(v)
    BY <1>1, <1>3, <1>4
  <2>2. ASSUME NEW i \in 1 .. k PROVE v[i] = w[i]
    <3>1. i \in 1 .. n /\ i \in 1 .. n + 1
      BY <1>1
    <3> QED
      BY <1>2, <1>3, <1>4, <3>1
  <2> QED
    BY <1>3, <1>4, <2>1, <2>2, RunningTotalAgree, RunningTotalDef
<1>7. RunningTotal(v)[n + 1] = RunningTotal(w)[n] + a.rows
  <2>1. n + 1 \in 1 .. Len(v) /\ (n + 1) - 1 = n /\ n \in 0 .. n
    BY <1>1, <1>3
  <2>2. RunningTotal(v)[n + 1] = RunningTotal(v)[(n + 1) - 1] + v[n + 1]
    BY <1>3, <2>1, RunningTotalStep
  <2>3. v[n + 1] = a.rows
    BY <1>1, <1>3, <2>1
  <2> QED
    BY <1>6, <2>1, <2>2, <2>3
<1> QED
  BY <1>1, <1>2, <1>5, <1>6, <1>7 DEF u, n, v, w

(* A run that is left alone stays what it is when the trace grows.         *)
LEMMA StillTiled ==
  ASSUME NEW c \in Seq(CheckPoints), NEW t \in Seq(Accesses), Tile(c, t),
         NEW a \in Accesses, NEW i \in 1 .. Len(c), NEW d, d[i] = c[i],
         RunningTotal(CountsOf(d))[i - 1] = RunningTotal(CountsOf(c))[i - 1]
  PROVE  Tiled(d, Append(t, a), i)
<1> DEFINE u == Append(t, a)
           n == Len(t)
           first == RunningTotal(CountsOf(c))[i - 1]
           last == first + c[i].count
           w == RowsOf(t)
           v == RowsOf(u)
<1>1. Tiled(c, t, i)
  BY DEF Tile
<1>2. n \in Nat /\ first \in Nat /\ last \in Nat /\ first < last /\ last <= n
  <2>1. n \in Nat /\ RunningTotal(CountsOf(c))[Len(c)] = n
    BY TraceTables DEF Tile
  <2> HIDE DEF n
  <2>2. c[i].count \in Nat
    BY Tables, CheckPointParts
  <2> QED
    BY <2>1, <2>2, RunInTrace
<1>3. first \in 0 .. n /\ last \in 0 .. n
  BY <1>2
<1>4. /\ \A k \in 1 .. n : u[k] = t[k]
      /\ \A k \in 0 .. n : RunningTotal(v)[k] = RunningTotal(w)[k]
      /\ \A h : \A k \in 0 .. n : ChunkIn(u, h, k) = ChunkIn(t, h, k)
  BY TraceGrows
<1>5. /\ \A k \in first + 1 .. last : t[k].chunk = c[i].chunk_id
      /\ c[i].rows = RunningTotal(w)[last] - RunningTotal(w)[first]
      /\ c[i].skip = Cardinality(ChunkIn(t, c[i].chunk_id, first))
  BY <1>1 DEF Tiled
<1> HIDE DEF u, n, first, last, w, v
<1>6. \A k \in first + 1 .. last : u[k].chunk = c[i].chunk_id
  <2> SUFFICES ASSUME NEW k \in first + 1 .. last PROVE u[k].chunk = c[i].chunk_id
    OBVIOUS
  <2>1. k \in 1 .. n
    BY <1>2
  <2> QED
    BY <1>4, <1>5, <2>1
<1>7. /\ c[i].rows = RunningTotal(v)[last] - RunningTotal(v)[first]
      /\ c[i].skip = Cardinality(ChunkIn(u, c[i].chunk_id, first))
  BY <1>3, <1>4, <1>5
<1>8. RunningTotal(CountsOf(d))[i - 1] = first
  BY DEF first
<1> QED
  BY <1>6, <1>7, <1>8 DEF Tiled, u, v, last

(* A new check point for the access that the trace grows by.               *)
LEMMA TileOpened ==
  ASSUME NEW c \in Seq(CheckPoints), NEW t \in Seq(Accesses), Tile(c, t),
         NEW a \in Accesses, NEW new \in CheckPoints,
         new.count = 1, new.chunk_id = a.chunk, new.rows = a.rows,
         new.skip = Cardinality(ChunkIn(t, a.chunk, Len(t)))
  PROVE  Tile(Append(c, new), Append(t, a))
<1> DEFINE d == Append(c, new)
           u == Append(t, a)
           m == Len(c)
           n == Len(t)
<1>1. /\ Len(d) = m + 1 /\ d[m + 1] = new
      /\ \A i \in 1 .. m : d[i] = c[i]
      /\ \A k \in 0 .. m : RunningTotal(CountsOf(d))[k] = RunningTotal(CountsOf(c))[k]
      /\ RunningTotal(CountsOf(d))[m + 1] = RunningTotal(CountsOf(c))[m] + 1
  BY Opened
<1>2. /\ Len(u) = n + 1 /\ u[n + 1] = a
      /\ \A k \in 0 .. n : /\ RunningTotal(RowsOf(u))[k] = RunningTotal(RowsOf(t))[k]
                           /\ RunningTotal(RowsOf(u))[k] \in Nat
      /\ RunningTotal(RowsOf(u))[n + 1] = RunningTotal(RowsOf(t))[n] + a.rows
      /\ \A h : \A k \in 0 .. n : ChunkIn(u, h, k) = ChunkIn(t, h, k)
  BY TraceGrows
<1>3. RunningTotal(CountsOf(c))[m] = n /\ m \in Nat /\ n \in Nat
  BY SeqIsFunction DEF Tile
<1>4. a.rows \in Nat
  BY CheckPointParts
<1> HIDE DEF u, m, n
<1>5. ASSUME NEW i \in 1 .. m PROVE Tiled(d, u, i)
  <2>1. i - 1 \in 0 .. m /\ i \in 1 .. Len(c)
    BY <1>3 DEF m
  <2>2. d[i] = c[i] /\ RunningTotal(CountsOf(d))[i - 1] = RunningTotal(CountsOf(c))[i - 1]
    BY <1>1, <2>1
  <2> HIDE DEF d
  <2> QED
    BY <2>1, <2>2, StillTiled DEF u
<1> HIDE DEF d
<1>6. Tiled(d, u, m + 1)
  <2> DEFINE r == RunningTotal(RowsOf(u))
  <2>1. RunningTotal(CountsOf(d))[(m + 1) - 1] = n /\ n \in 0 .. n
    BY <1>1, <1>3
  <2>2. r[n] \in Nat /\ r[n + 1] = r[n] + a.rows
    BY <1>2, <2>1
  <2> HIDE DEF r
  <2>3. new.rows = r[n + new.count] - r[n]
    BY <1>4, <2>2
  <2>4. \A k \in n + 1 .. n + new.count : u[k].chunk = new.chunk_id
    BY <1>2, <1>3
  <2>5. new.skip = Cardinality(ChunkIn(u, new.chunk_id, n))
    BY <1>2, <2>1 DEF n
  <2> QED
    BY <1>1, <2>1, <2>3, <2>4, <2>5 DEF Tiled, r
<1>7. \A i \in 1 .. m + 1 : Tiled(d, u, i)
  <2> SUFFICES ASSUME NEW i \in 1 .. m + 1 PROVE Tiled(d, u, i)
    OBVIOUS
  <2>1. i \in 1 .. m \/ i = m + 1
    BY <1>3
  <2> QED
    BY <1>5, <1>6, <2>1
<1> QED
  BY <1>1, <1>2, <1>3, <1>7 DEF Tile, d, u

(* One more access for the last check point.                               *)
LEMMA TileExtended ==
  ASSUME NEW c \in Seq(CheckPoints), NEW t \in Seq(Accesses), Tile(c, t), Len(c) # 0,
         NEW a \in Accesses, c[Len(c)].chunk_id = a.chunk
  PROVE  Tile(Longer(c, a.rows), Append(t, a))
<1> DEFINE d == Longer(c, a.rows)
           u == Append(t, a)
           m == Len(c)
           n == Len(t)
<1>0. a.rows \in Nat /\ a.chunk \in Nat
  <2>1. Append(t, a) \in Seq(Accesses) /\ Len(Append(t, a)) \in 1 .. Len(Append(t, a))
          /\ Append(t, a)[Len(Append(t, a))] = a
    OBVIOUS
  <2> QED
    BY <2>1, TraceTables
<1>1. /\ Len(d) = m
      /\ \A i \in 1 .. m - 1 : d[i] = c[i]
      /\ d[m].chunk_id = c[m].chunk_id /\ d[m].skip = c[m].skip
      /\ d[m].count = c[m].count + 1 /\ d[m].rows = c[m].rows + a.rows
      /\ \A k \in 0 .. m - 1 : RunningTotal(CountsOf(d))[k] = RunningTotal(CountsOf(c))[k]
      /\ RunningTotal(CountsOf(d))[m] = RunningTotal(CountsOf(c))[m] + 1
  BY <1>0, Extended
<1>2. /\ Len(u) = n + 1 /\ u[n + 1] = a
      /\ \A k \in 1 .. n : u[k] = t[k]
      /\ \A k \in 0 .. n : /\ RunningTotal(RowsOf(u))[k] = RunningTotal(RowsOf(t))[k]
                           /\ RunningTotal(RowsOf(u))[k] \in Nat
      /\ RunningTotal(RowsOf(u))[n + 1] = RunningTotal(RowsOf(t))[n] + a.rows
      /\ \A h : \A k \in 0 .. n : ChunkIn(u, h, k) = ChunkIn(t, h, k)
  BY TraceGrows
<1>3. RunningTotal(CountsOf(c))[m] = n /\ m \in Nat \ {0} /\ n \in Nat /\ m \in 1 .. m
  BY SeqIsFunction DEF Tile
<1>4. Tiled(c, t, m)
  BY <1>3 DEF Tile
<1>5. PICK first : first = RunningTotal(CountsOf(c))[m - 1]
  OBVIOUS
<1>6. first \in Nat /\ first + c[m].count = n /\ c[m].count \in Nat /\ c[m].count >= 1
  <2>1. c[m].count \in Nat /\ c[m].count >= 1
    BY <1>3, Tables, CheckPointParts
  <2> QED
    BY <1>3, <1>5, <2>1, RunInTrace
<1>7. ASSUME NEW i \in 1 .. m - 1 PROVE Tiled(d, u, i)
  <2>1. i - 1 \in 0 .. m - 1 /\ i \in 1 .. Len(c)
    BY <1>3
  <2>2. d[i] = c[i] /\ RunningTotal(CountsOf(d))[i - 1] = RunningTotal(CountsOf(c))[i - 1]
    BY <1>1, <2>1
  <2> HIDE DEF d
  <2> QED
    BY <2>1, <2>2, StillTiled DEF u
<1> HIDE DEF d, u, m, n
<1>8. Tiled(d, u, m)
  <2> DEFINE r == RunningTotal(RowsOf(u))
             cp == c[m]
             dp == d[m]
  <2>1. RunningTotal(CountsOf(d))[m - 1] = first
    BY <1>1, <1>3, <1>5
  <2>2. first \in 0 .. n /\ n \in 0 .. n
    BY <1>3, <1>6
  <2>3. /\ \A k \in first + 1 .. first + cp.count : t[k].chunk = cp.chunk_id
        /\ cp.rows = RunningTotal(RowsOf(t))[first + cp.count] - RunningTotal(RowsOf(t))[first]
        /\ cp.skip = Cardinality(ChunkIn(t, cp.chunk_id, first))
    BY <1>4, <1>5 DEF Tiled
  <2>4. cp.rows = r[n] - r[first] /\ r[n] \in Nat /\ r[first] \in Nat
    BY <1>2, <1>6, <2>2, <2>3
  <2>5. r[n + 1] = r[n] + a.rows
    BY <1>2, <2>2
  <2> HIDE DEF r
  <2>6. first + dp.count = n + 1 /\ dp.rows = r[n + 1] - r[first]
    <3>1. dp.count = cp.count + 1 /\ dp.rows = cp.rows + a.rows
      BY <1>1
    <3> HIDE DEF cp, dp
    <3>2. first \in Nat /\ first + cp.count = n /\ cp.count \in Nat
      BY <1>6 DEF cp
    <3>3. first + dp.count = n + 1
      BY <1>3, <3>1, <3>2
    <3>4. PICK x, y, z, e : x = r[n] /\ y = r[first] /\ z = r[n + 1] /\ e = a.rows
      OBVIOUS
    <3>5. x \in Nat /\ y \in Nat /\ e \in Nat /\ cp.rows = x - y /\ z = x + e
      BY <1>0, <2>4, <2>5, <3>4
    <3>6. dp.rows = z - y
      BY <3>1, <3>4, <3>5
    <3> QED
      BY <3>3, <3>4, <3>6
  <2>7. \A k \in first + 1 .. n + 1 : u[k].chunk = dp.chunk_id
    <3> SUFFICES ASSUME NEW k \in first + 1 .. n + 1 PROVE u[k].chunk = dp.chunk_id
      OBVIOUS
    <3>1. CASE k = n + 1
      BY <1>1, <1>2, <3>1 DEF m
    <3>2. CASE k # n + 1
      <4>1. k \in 1 .. n /\ k \in first + 1 .. first + cp.count
        BY <1>3, <1>6, <3>2
      <4> QED
        BY <1>1, <1>2, <2>3, <4>1
    <3> QED
      BY <3>1, <3>2
  <2>8. dp.skip = Cardinality(ChunkIn(u, dp.chunk_id, first))
    BY <1>1, <1>2, <2>2, <2>3
  <2> QED
    BY <2>1, <2>6, <2>7, <2>8 DEF Tiled, r
<1>9. \A i \in 1 .. m : Tiled(d, u, i)
  <2> SUFFICES ASSUME NEW i \in 1 .. m PROVE Tiled(d, u, i)
    OBVIOUS
  <2>1. i \in 1 .. m - 1 \/ i = m
    BY <1>3
  <2> QED
    BY <1>7, <1>8, <2>1
<1> QED
  BY <1>1, <1>2, <1>3, <1>9 DEF Tile, d, u

(* A new check point leaves the packing of the others alone.               *)
LEMMA PackOpened ==
  ASSUME NEW c \in Seq(CheckPoints), NEW t \in Seq(Accesses), Tile(c, t), Pack(c, t),
         NEW a \in Accesses, NEW new \in CheckPoints, new.rows = a.rows,
         \A i \in 1 .. Len(c) : c[i].segment_id <= new.segment_id,
         new.offset = Total(RowsIn(c, new.segment_id)), new.offset + new.rows <= Rows,
         Len(c) # 0 /\ new.offset = 0 =>
           /\ new.segment_id = c[Len(c)].segment_id + 1
           /\ Total(RowsIn(c, new.segment_id - 1)) + a.rows > Rows
  PROVE  Pack(Append(c, new), Append(t, a))
<1> DEFINE d == Append(c, new)
           u == Append(t, a)
           m == Len(c)
           n == Len(t)
           r == RunningTotal(CountsOf(c))
<1>1. /\ Len(d) = m + 1 /\ d[m + 1] = new
      /\ \A i \in 1 .. m : d[i] = c[i]
      /\ \A k \in 0 .. m : RunningTotal(CountsOf(d))[k] = r[k]
  BY Opened
<1>2. \A s : \A k \in 0 .. m : RunningTotal(RowsIn(d, s))[k] = RunningTotal(RowsIn(c, s))[k]
  BY Opened
<1>3. \A s : s # new.segment_id => Total(RowsIn(d, s)) = Total(RowsIn(c, s))
  <2> SUFFICES ASSUME NEW s, s # new.segment_id PROVE Total(RowsIn(d, s)) = Total(RowsIn(c, s))
    OBVIOUS
  <2>1. Total(RowsIn(d, s)) = Total(RowsIn(c, s)) + 0
    BY Opened
  <2>2. Total(RowsIn(c, s)) \in Nat
    <3>1. RowsIn(c, s) \in Seq(Nat) /\ Len(RowsIn(c, s)) \in 0 .. Len(RowsIn(c, s))
      BY Tables
    <3> QED
      BY <3>1, RunningTotalDef DEF Total
  <2> HIDE DEF d
  <2> QED
    BY <2>1, <2>2
<1>4. Len(u) = n + 1 /\ u[n + 1] = a /\ \A k \in 1 .. n : u[k] = t[k]
  BY TraceGrows
<1>5. r[m] = n /\ m \in Nat /\ n \in Nat
  BY SeqIsFunction DEF Tile
<1>6. /\ \A i \in 1 .. m : c[i].segment_id \in Nat
      /\ new.segment_id \in Nat
  BY Tables, CheckPointParts
<1>7. \A i \in 1 .. m : r[i - 1] \in Nat /\ r[i - 1] + 1 \in 1 .. n
  <2> SUFFICES ASSUME NEW i \in 1 .. m PROVE r[i - 1] \in Nat /\ r[i - 1] + 1 \in 1 .. n
    OBVIOUS
  <2>1. r[i - 1] \in Nat /\ r[i] = r[i - 1] + c[i].count /\ r[i - 1] < r[i] /\ r[i] <= n
    BY <1>5, RunInTrace
  <2>2. c[i].count \in Nat
    BY Tables, CheckPointParts
  <2> HIDE DEF r
  <2> QED
    BY <1>5, <2>1, <2>2
<1> HIDE DEF d, u, m, n, r
<1>8. ASSUME NEW i \in 1 .. m PROVE Packed(d, u, i)
  <2>1. i - 1 \in 0 .. m /\ i \in 1 .. Len(c) /\ (i > 1 => i - 1 \in 1 .. m)
    BY <1>5 DEF m
  <2>2. Packed(c, t, i)
    BY <2>1 DEF Pack
  <2>3. PICK s : s = c[i].segment_id
    OBVIOUS
  <2>4. d[i] = c[i] /\ (i > 1 => d[i - 1] = c[i - 1])
    BY <1>1, <2>1
  <2>5. RunningTotal(CountsOf(d))[i - 1] = r[i - 1] /\ u[r[i - 1] + 1] = t[r[i - 1] + 1]
    BY <1>1, <1>4, <1>7, <2>1
  <2>6. RunningTotal(RowsIn(d, s))[i - 1] = RunningTotal(RowsIn(c, s))[i - 1]
    BY <1>2, <2>1
  <2>7. Total(RowsIn(d, s - 1)) = Total(RowsIn(c, s - 1))
    <3>1. s \in Nat /\ s <= new.segment_id
      BY <1>6, <2>1, <2>3
    <3>2. s - 1 # new.segment_id
      BY <1>6, <3>1
    <3> QED
      BY <1>3, <3>2
  <2> QED
    BY <2>2, <2>3, <2>4, <2>5, <2>6, <2>7 DEF Packed, r
<1>9. Packed(d, u, m + 1)
  <2> DEFINE s == new.segment_id
  <2>1. (m + 1) - 1 = m /\ m \in 0 .. m
    BY <1>5
  <2>2. RunningTotal(CountsOf(d))[m] = n
    BY <1>1, <1>5, <2>1
  <2>3. new.offset = RunningTotal(RowsIn(d, s))[m]
    <3>1. RunningTotal(RowsIn(d, s))[m] = RunningTotal(RowsIn(c, s))[m]
      BY <1>2, <2>1
    <3>2. Len(RowsIn(c, s)) = m
      BY Tables DEF m
    <3> QED
      BY <3>1, <3>2 DEF Total
  <2>4. m + 1 > 1 /\ new.offset = 0 =>
          /\ s = d[m].segment_id + 1
          /\ Total(RowsIn(d, s - 1)) + u[n + 1].rows > Rows
    <3>1. SUFFICES ASSUME m + 1 > 1, new.offset = 0
                   PROVE  /\ s = d[m].segment_id + 1
                          /\ Total(RowsIn(d, s - 1)) + u[n + 1].rows > Rows
      OBVIOUS
    <3>2. m # 0 /\ m \in 1 .. m
      BY <1>5, <3>1
    <3>3. s = c[m].segment_id + 1 /\ Total(RowsIn(c, s - 1)) + a.rows > Rows
      BY <3>1, <3>2 DEF m
    <3>4. s - 1 # s
      BY <1>6
    <3>5. Total(RowsIn(d, s - 1)) = Total(RowsIn(c, s - 1))
      BY <1>3, <3>4
    <3>6. u[n + 1] = a /\ d[m] = c[m]
      BY <1>1, <1>4, <3>2
    <3> QED
      BY <3>3, <3>5, <3>6
  <2> QED
    BY <1>1, <2>1, <2>2, <2>3, <2>4 DEF Packed
<1>10. \A i \in 1 .. m + 1 : Packed(d, u, i)
  <2> SUFFICES ASSUME NEW i \in 1 .. m + 1 PROVE Packed(d, u, i)
    OBVIOUS
  <2>1. i \in 1 .. m \/ i = m + 1
    BY <1>5
  <2> QED
    BY <1>8, <1>9, <2>1
<1> QED
  BY <1>1, <1>10 DEF Pack, d, u

(* So does an access more for the last one, as long as it fits.            *)
LEMMA PackExtended ==
  ASSUME NEW c \in Seq(CheckPoints), NEW t \in Seq(Accesses), Tile(c, t), Pack(c, t),
         Len(c) # 0, NEW a \in Accesses,
         \A i \in 1 .. Len(c) : c[i].segment_id <= c[Len(c)].segment_id,
         Total(RowsIn(c, c[Len(c)].segment_id)) + a.rows <= Rows
  PROVE  Pack(Longer(c, a.rows), Append(t, a))
<1> DEFINE d == Longer(c, a.rows)
           u == Append(t, a)
           m == Len(c)
           n == Len(t)
           r == RunningTotal(CountsOf(c))
           z == c[m].segment_id
<1>0. a.rows \in Nat /\ a.chunk \in Nat
  <2>1. Append(t, a) \in Seq(Accesses) /\ Len(Append(t, a)) \in 1 .. Len(Append(t, a))
          /\ Append(t, a)[Len(Append(t, a))] = a
    OBVIOUS
  <2> QED
    BY <2>1, TraceTables
<1>1. /\ Len(d) = m
      /\ \A i \in 1 .. m - 1 : d[i] = c[i]
      /\ d[m].segment_id = c[m].segment_id /\ d[m].offset = c[m].offset
      /\ d[m].rows = c[m].rows + a.rows
      /\ \A k \in 0 .. m - 1 : RunningTotal(CountsOf(d))[k] = r[k]
  BY <1>0, Extended
<1>2. \A s : \A k \in 0 .. m - 1 :
        RunningTotal(RowsIn(d, s))[k] = RunningTotal(RowsIn(c, s))[k]
  BY <1>0, Extended
<1>3. \A s : s # z => Total(RowsIn(d, s)) = Total(RowsIn(c, s))
  <2> SUFFICES ASSUME NEW s, s # z PROVE Total(RowsIn(d, s)) = Total(RowsIn(c, s))
    OBVIOUS
  <2>1. Total(RowsIn(d, s)) = Total(RowsIn(c, s)) + 0
    BY <1>0, Extended
  <2>2. Total(RowsIn(c, s)) \in Nat
    <3>1. RowsIn(c, s) \in Seq(Nat) /\ Len(RowsIn(c, s)) \in 0 .. Len(RowsIn(c, s))
      BY Tables
    <3> QED
      BY <3>1, RunningTotalDef DEF Total
  <2> HIDE DEF d
  <2> QED
    BY <2>1, <2>2
<1>4. Len(u) = n + 1 /\ u[n + 1] = a /\ \A k \in 1 .. n : u[k] = t[k]
  BY TraceGrows
<1>5. r[m] = n /\ m \in Nat \ {0} /\ n \in Nat /\ m \in 1 .. m
  BY SeqIsFunction DEF Tile
<1>6. \A i \in 1 .. m : c[i].segment_id \in Nat /\ c[i].segment_id <= z
  BY Tables, CheckPointParts
<1>7. \A i \in 1 .. m : r[i - 1] \in Nat /\ r[i - 1] + 1 \in 1 .. n
  <2> SUFFICES ASSUME NEW i \in 1 .. m PROVE r[i - 1] \in Nat /\ r[i - 1] + 1 \in 1 .. n
    OBVIOUS
  <2>1. r[i - 1] \in Nat /\ r[i] = r[i - 1] + c[i].count /\ r[i - 1] < r[i] /\ r[i] <= n
    BY <1>5, RunInTrace
  <2>2. c[i].count \in Nat
    BY Tables, CheckPointParts
  <2> HIDE DEF r
  <2> QED
    BY <1>5, <2>1, <2>2
<1>8. c[m].offset + d[m].rows <= Rows
  <2>1. Packed(c, t, m)
    BY <1>5 DEF Pack
  <2>2. c[m].offset = RunningTotal(RowsIn(c, z))[m - 1]
    BY <2>1 DEF Packed
  <2> DEFINE w == RowsIn(c, z)
  <2>3. w \in Seq(Nat) /\ Len(w) = m /\ w[m] = c[m].rows
    BY <1>5, Tables
  <2>4. Total(w) = RunningTotal(w)[m - 1] + w[m] /\ RunningTotal(w)[m - 1] \in Nat
    <3> HIDE DEF w, m
    <3> QED
      BY <1>5, <2>3, RunningTotalStep DEF Total
  <2>5. PICK x, y : x = RunningTotal(w)[m - 1] /\ y = c[m].rows
    OBVIOUS
  <2>6. c[m].offset = x /\ d[m].rows = y + a.rows /\ (x + y) + a.rows <= Rows
    BY <1>1, <2>2, <2>3, <2>4, <2>5
  <2>7. x \in Nat /\ y \in Nat
    BY <1>5, <2>4, <2>5, Tables, CheckPointParts
  <2>8. x + (y + a.rows) = (x + y) + a.rows
    BY <1>0, <2>7
  <2> QED
    BY <2>6, <2>8
<1> HIDE DEF d, u, m, n, r, z
<1>9. ASSUME NEW i \in 1 .. m PROVE Packed(d, u, i)
  <2>1. i - 1 \in 0 .. m - 1 /\ i \in 1 .. Len(c) /\ (i > 1 => i - 1 \in 1 .. m - 1)
    BY <1>5 DEF m
  <2>2. Packed(c, t, i)
    BY <2>1 DEF Pack
  <2>3. PICK s : s = c[i].segment_id
    OBVIOUS
  <2>4. /\ d[i].segment_id = s /\ d[i].offset = c[i].offset
        /\ d[i].offset + d[i].rows <= Rows
        /\ i > 1 => d[i - 1] = c[i - 1]
    <3>1. CASE i = m
      BY <1>1, <1>8, <2>1, <2>3, <3>1
    <3>2. CASE i # m
      <4>1. i \in 1 .. m - 1
        BY <1>5, <3>2
      <4>2. d[i] = c[i] /\ c[i].offset + c[i].rows <= Rows
        BY <1>1, <2>2, <4>1 DEF Packed
      <4> QED
        BY <1>1, <2>1, <2>3, <4>2
    <3> QED
      BY <3>1, <3>2
  <2>5. RunningTotal(CountsOf(d))[i - 1] = r[i - 1] /\ u[r[i - 1] + 1] = t[r[i - 1] + 1]
    BY <1>1, <1>4, <1>7, <2>1
  <2>6. RunningTotal(RowsIn(d, s))[i - 1] = RunningTotal(RowsIn(c, s))[i - 1]
    BY <1>2, <2>1
  <2>7. Total(RowsIn(d, s - 1)) = Total(RowsIn(c, s - 1))
    <3>1. s \in Nat /\ z \in Nat /\ s <= z
      BY <1>5, <1>6, <2>1, <2>3 DEF z
    <3>2. s - 1 # z
      BY <3>1
    <3> QED
      BY <1>3, <3>2
  <2> QED
    BY <2>2, <2>3, <2>4, <2>5, <2>6, <2>7 DEF Packed, r
<1> QED
  BY <1>1, <1>9 DEF Pack, d, u

-----------------------------------------------------------------------------
(* The counter                                                             *)

(* The properties of MemAlign are those of its check points and its trace. *)
LEMMA Meaning ==
  TypeOK =>
    /\ CheckPointsTileTrace <=> Tile(checkpoints, trace)
    /\ SegmentsPacked <=> Pack(checkpoints, trace)
<1> SUFFICES ASSUME TypeOK
             PROVE  /\ CheckPointsTileTrace <=> Tile(checkpoints, trace)
                    /\ SegmentsPacked <=> Pack(checkpoints, trace)
  OBVIOUS
<1>1. /\ Len(checkpoints) \in Nat /\ DOMAIN checkpoints = 1 .. Len(checkpoints)
      /\ (Len(checkpoints) + 1) - 1 = Len(checkpoints)
  BY SeqIsFunction DEF TypeOK
<1>2. Counts = CountsOf(checkpoints)
  BY DEF Counts, CountsOf
<1>3. \A n : RowsBefore(n) = RunningTotal(RowsOf(trace))[n]
  BY DEF RowsBefore, RowsOf
<1>4. \A h, n : OfChunk(h, n) = ChunkIn(trace, h, n)
  BY DEF OfChunk, ChunkIn
<1>5. \A s : SegmentRows(s) = RowsIn(checkpoints, s)
  BY DEF SegmentRows, RowsIn
<1>6. CheckPointsTileTrace <=> Tile(checkpoints, trace)
  BY <1>1, <1>2, <1>3, <1>4 DEF CheckPointsTileTrace, Tile, Tiled, OpsBefore
<1>7. SegmentsPacked <=> Pack(checkpoints, trace)
  BY <1>1, <1>2, <1>5 DEF SegmentsPacked, Pack, Packed, OpsBefore, RowsOfSegment
<1> QED
  BY <1>6, <1>7

(* The counter before its first chunk.                                     *)
LEMMA InitIInv == Init => IInv
<1> SUFFICES ASSUME Init PROVE IInv
  OBVIOUS
<1>1. /\ chunk_id = 0 /\ skip = 0 /\ segment_id = -1 /\ available_rows = 0
      /\ checkpoints = <<>> /\ trace = <<>>
  BY DEF Init
<1>2. TypeOK
  BY <1>1, AlignAssumption DEF TypeOK
<1>3. Bounded
  BY <1>1, AlignAssumption DEF Bounded
<1>4. SkipCounts
  <2>1. OfChunk(chunk_id, Len(trace)) = {}
    BY <1>1 DEF OfChunk
  <2> QED
    BY <1>1, <2>1, FS_EmptySet DEF SkipCounts
<1>5. ChunksInOrder /\ OpenSegmentFilled
  BY <1>1 DEF ChunksInOrder, OpenSegmentFilled
<1>6. CheckPointsTileTrace /\ SegmentsPacked
  <2>1. Len(checkpoints) = 0 /\ checkpoints \in Seq(CheckPoints) /\ Len(trace) = 0
    BY <1>1
  <2>2. RunningTotal(CountsOf(checkpoints))[Len(checkpoints)] = 0
    BY <2>1, Tables, RunningTotalDef
  <2>3. Tile(checkpoints, trace) /\ Pack(checkpoints, trace)
    BY <2>1, <2>2 DEF Tile, Pack
  <2> QED
    BY <1>2, <2>3, Meaning
<1> QED
  BY <1>2, <1>3, <1>4, <1>5, <1>6 DEF IInv

(* What the state is made of, with names that keep their values.           *)
Holds(c, t, h, k, s, v) ==
  /\ c \in Seq(CheckPoints) /\ t \in Seq(Accesses) /\ h \in 0 .. NumChunks - 1
  /\ s \in -1 .. MaxOps /\ v \in 0 .. Rows
  /\ Len(t) <= MaxOps /\ k <= Len(t) /\ s < Len(t)
  /\ k \in Nat /\ k = Cardinality(ChunkIn(t, h, Len(t)))
  /\ c # <<>> => /\ c[Len(c)].chunk_id <= h
                 /\ \A j \in 1 .. Len(t) : t[j].chunk <= c[Len(c)].chunk_id
  /\ s = -1 <=> c = <<>>
  /\ c = <<>> => v = 0
  /\ c # <<>> => v < Rows /\ c[Len(c)].segment_id = s /\ Total(RowsIn(c, s)) = Rows - v
  /\ \A i \in 1 .. Len(c) : c[i].segment_id <= s
  /\ Tile(c, t) /\ Pack(c, t)

(* It is the invariant.                                                    *)
LEMMA HoldsIs == IInv <=> Holds(checkpoints, trace, chunk_id, skip, segment_id, available_rows)
<1>1. /\ checkpoints \in Seq(CheckPoints) => DOMAIN checkpoints = 1 .. Len(checkpoints)
      /\ trace \in Seq(Accesses) => DOMAIN trace = 1 .. Len(trace) /\ Len(trace) \in Nat
  BY SeqIsFunction
<1>2. Seq(Accesses) = Seq([chunk : 0 .. NumChunks - 1, rows : OpRows])
  BY DEF Accesses
<1>3. OfChunk(chunk_id, Len(trace)) = ChunkIn(trace, chunk_id, Len(trace))
  BY DEF OfChunk, ChunkIn
<1>4. \A s : RowsOfSegment(s) = Total(RowsIn(checkpoints, s))
  BY DEF RowsOfSegment, SegmentRows, RowsIn
<1>5. Last(checkpoints) = checkpoints[Len(checkpoints)]
  BY DEF Last
<1>6. TypeOK /\ Bounded <=>
        /\ checkpoints \in Seq(CheckPoints) /\ trace \in Seq(Accesses)
        /\ chunk_id \in 0 .. NumChunks - 1 /\ segment_id \in -1 .. MaxOps
        /\ available_rows \in 0 .. Rows
        /\ Len(trace) <= MaxOps /\ skip <= Len(trace) /\ segment_id < Len(trace)
        /\ skip \in Nat
  <2>1. trace \in Seq(Accesses) => Len(trace) \in Nat
    BY <1>1
  <2>2. skip \in Nat /\ Len(trace) \in Nat /\ Len(trace) <= MaxOps /\ skip <= Len(trace)
          => skip \in 0 .. MaxOps
    BY AlignAssumption
  <2>3. skip \in 0 .. MaxOps => skip \in Nat
    OBVIOUS
  <2> QED
    BY <1>2, <2>1, <2>2, <2>3 DEF TypeOK, Bounded
<1>7. SkipCounts <=> skip = Cardinality(ChunkIn(trace, chunk_id, Len(trace)))
  BY <1>3 DEF SkipCounts
<1>8. ASSUME TypeOK PROVE ChunksInOrder /\ OpenSegmentFilled <=>
        /\ checkpoints # <<>> =>
             /\ checkpoints[Len(checkpoints)].chunk_id <= chunk_id
             /\ \A j \in 1 .. Len(trace) :
                  trace[j].chunk <= checkpoints[Len(checkpoints)].chunk_id
        /\ segment_id = -1 <=> checkpoints = <<>>
        /\ checkpoints = <<>> => available_rows = 0
        /\ checkpoints # <<>> =>
             /\ available_rows < Rows
             /\ checkpoints[Len(checkpoints)].segment_id = segment_id
             /\ Total(RowsIn(checkpoints, segment_id)) = Rows - available_rows
        /\ \A i \in 1 .. Len(checkpoints) : checkpoints[i].segment_id <= segment_id
  <2>1. DOMAIN checkpoints = 1 .. Len(checkpoints) /\ DOMAIN trace = 1 .. Len(trace)
    BY <1>1, <1>2, <1>8 DEF TypeOK
  <2>2. RowsOfSegment(segment_id) = Total(RowsIn(checkpoints, segment_id))
    BY <1>4
  <2> QED
    BY <1>5, <2>1, <2>2, Zenon DEF ChunksInOrder, OpenSegmentFilled
<1> QED
  BY <1>6, <1>7, <1>8, Meaning, Zenon DEF IInv, Holds

(* An access of the chunk, whichever way its check point comes about.      *)
LEMMA Counted ==
  ASSUME NEW c, NEW t, NEW h, NEW k, NEW s, NEW v, Holds(c, t, h, k, s, v),
         Len(t) < MaxOps, NEW a \in Accesses, a.chunk = h,
         NEW d \in Seq(CheckPoints), NEW z \in Nat, NEW y \in 0 .. Rows - 1,
         Len(d) # 0, d[Len(d)].chunk_id = h, d[Len(d)].segment_id = z, z <= s + 1,
         \A i \in 1 .. Len(d) : d[i].segment_id <= z,
         Total(RowsIn(d, z)) = Rows - y,
         Tile(d, Append(t, a)), Pack(d, Append(t, a))
  PROVE  Holds(d, Append(t, a), h, k + 1, z, y)
<1> DEFINE u == Append(t, a)
           n == Len(t)
<1>1. /\ t \in Seq(Accesses) /\ n \in Nat /\ h \in 0 .. NumChunks - 1 /\ h \in Nat
      /\ s \in -1 .. MaxOps /\ s < n /\ k \in Nat /\ k <= n /\ n < MaxOps /\ MaxOps \in Nat
  BY SeqIsFunction, AlignAssumption DEF Holds
<1>2. /\ u \in Seq(Accesses) /\ Len(u) = n + 1 /\ u[n + 1] = a
      /\ \A j \in 1 .. n : u[j] = t[j]
      /\ ChunkIn(u, h, n) = ChunkIn(t, h, n)
  <2>1. n \in 0 .. n
    BY <1>1
  <2> QED
    BY <1>1, <2>1, TraceGrows
<1>3. k = Cardinality(ChunkIn(t, h, n))
  BY DEF Holds
<1> HIDE DEF u, n
<1>4. k + 1 = Cardinality(ChunkIn(u, h, n + 1))
  <2>1. ChunkIn(u, h, n + 1) = ChunkIn(t, h, n) \cup {n + 1} /\ n + 1 \notin ChunkIn(t, h, n)
    BY <1>1, <1>2 DEF ChunkIn
  <2>2. IsFiniteSet(ChunkIn(t, h, n))
    <3>1. IsFiniteSet(1 .. n)
      <4>1. 1 \in Int /\ n \in Int
        BY <1>1
      <4> QED
        BY <4>1, FS_Interval
    <3>2. ChunkIn(t, h, n) \subseteq 1 .. n
      BY DEF ChunkIn
    <3> QED
      BY <3>1, <3>2, FS_Subset
  <2> QED
    BY <1>3, <2>1, <2>2, FS_AddElement
<1>5. \A j \in 1 .. n + 1 : u[j].chunk <= h
  <2> SUFFICES ASSUME NEW j \in 1 .. n + 1 PROVE u[j].chunk <= h
    OBVIOUS
  <2>1. CASE j = n + 1
    BY <1>1, <1>2, <2>1
  <2>2. CASE j # n + 1
    <3>1. j \in 1 .. n
      BY <1>1, <2>2
    <3>2. c # <<>>
      <4>1. c = <<>> => s = -1 /\ Tile(c, t) /\ c \in Seq(CheckPoints)
        BY DEF Holds
      <4>2. c = <<>> => n = 0
        <5> SUFFICES ASSUME c = <<>> PROVE n = 0
          OBVIOUS
        <5>1. Len(c) = 0 /\ CountsOf(c) \in Seq(Nat)
          BY <4>1, Tables
        <5> QED
          BY <4>1, <5>1, RunningTotalDef DEF Tile, n
      <4> QED
        BY <1>1, <3>1, <4>2
    <3>3. /\ c[Len(c)].chunk_id <= h /\ t[j].chunk <= c[Len(c)].chunk_id
          /\ c \in Seq(CheckPoints)
      BY <3>1, <3>2 DEF Holds, n
    <3>4. c[Len(c)].chunk_id \in Nat /\ t[j].chunk \in Nat
      <4>1. Len(c) \in 1 .. Len(c)
        BY <3>2, <3>3
      <4>2. c[Len(c)].chunk_id \in Nat
        BY <3>3, <4>1, Tables, CheckPointParts
      <4>3. t[j].chunk \in Nat
        BY <1>1, <3>1, TraceTables DEF n
      <4> QED
        BY <4>2, <4>3
    <3>5. PICK e1, e2 : e1 = c[Len(c)].chunk_id /\ e2 = t[j].chunk
      OBVIOUS
    <3>6. e2 <= h
      <4>1. e1 <= h /\ e2 <= e1 /\ e1 \in Nat /\ e2 \in Nat
        BY <3>3, <3>4, <3>5, Zenon
      <4>2. h \in Nat
        BY <1>1
      <4> QED
        BY <4>1, <4>2
    <3> QED
      BY <1>2, <3>1, <3>5, <3>6
  <2> QED
    BY <2>1, <2>2
<1>6. d # <<>> /\ z \in -1 .. MaxOps /\ z < n + 1 /\ z # -1 /\ y \in 0 .. Rows /\ y < Rows
  <2>1. d # <<>>
    OBVIOUS
  <2> QED
    BY <1>1, <2>1, AlignAssumption
<1>7. n + 1 <= MaxOps /\ k + 1 <= n + 1 /\ k + 1 \in Nat /\ h <= h
  BY <1>1
<1> QED
  BY <1>1, <1>2, <1>4, <1>5, <1>6, <1>7 DEF Holds, u

(* The first operation of a new segment.                                   *)
LEMMA CountedOpenSegment ==
  ASSUME NEW c, NEW t, NEW h, NEW k, NEW s, NEW v, Holds(c, t, h, k, s, v),
         Len(t) < MaxOps, NEW ops \in OpRows, v < ops, NEW a, a = [chunk |-> h, rows |-> ops],
         NEW new, new = [segment_id |-> s + 1, chunk_id |-> h, skip |-> k,
                         count |-> 1, rows |-> ops, offset |-> 0]
  PROVE  Holds(Append(c, new), Append(t, a), h, k + 1, s + 1, Rows - ops)
<1> DEFINE d == Append(c, new)
           m == Len(c)
<1>1. /\ c \in Seq(CheckPoints) /\ t \in Seq(Accesses) /\ h \in 0 .. NumChunks - 1
      /\ s \in -1 .. MaxOps /\ v \in 0 .. Rows /\ k \in Nat
      /\ k = Cardinality(ChunkIn(t, h, Len(t))) /\ Tile(c, t) /\ Pack(c, t)
      /\ \A i \in 1 .. m : c[i].segment_id <= s
  BY DEF Holds
<1>2. ops \in 2 .. 5 /\ Rows \in Nat /\ Rows >= 5 /\ MaxOps \in Nat /\ NumChunks \in Nat
  BY OpRowsType, AlignAssumption
<1>3. a \in Accesses /\ a.chunk = h /\ a.rows = ops
  BY <1>1 DEF Accesses
<1>4. /\ new.segment_id = s + 1 /\ new.chunk_id = h /\ new.skip = k /\ new.count = 1
      /\ new.rows = ops /\ new.offset = 0 /\ s + 1 \in Nat
  BY <1>1, <1>2
<1>5. new \in CheckPoints
  <2>1. s + 1 \in Nat /\ 1 \in Nat \ {0} /\ ops \in Nat \ {0} /\ 0 \in 0 .. Rows
    BY <1>2, <1>4
  <2> QED
    BY <1>1, <2>1 DEF CheckPoints
<1> HIDE DEF m
<1>6. m \in Nat /\ \A i \in 1 .. m : c[i].segment_id \in Nat
  BY <1>1, Tables, CheckPointParts DEF m
<1>7. Total(RowsIn(c, s + 1)) = 0
  <2> DEFINE w == RowsIn(c, s + 1)
  <2>1. /\ w \in Seq(Nat) /\ Len(w) = m
        /\ \A i \in 1 .. m : w[i] = IF c[i].segment_id = s + 1 THEN c[i].rows ELSE 0
    BY <1>1, Tables DEF m
  <2>2. \A i \in 1 .. m : c[i].segment_id # s + 1
    BY <1>1, <1>6
  <2> HIDE DEF w
  <2>3. \A i \in 1 .. Len(w) : w[i] = 0
    BY <2>1, <2>2
  <2> QED
    BY <2>1, <2>3, TotalOfZeros DEF w
<1>8. Tile(d, Append(t, a))
  BY <1>1, <1>3, <1>4, <1>5, TileOpened
<1>9. \A i \in 1 .. m : c[i].segment_id <= new.segment_id
  BY <1>1, <1>4, <1>6
<1>10. m # 0 => c[m].segment_id = s /\ Total(RowsIn(c, s)) = Rows - v /\ v < Rows
  <2> SUFFICES ASSUME m # 0 PROVE c[m].segment_id = s /\ Total(RowsIn(c, s)) = Rows - v /\ v < Rows
    OBVIOUS
  <2>1. c # <<>>
    BY DEF m
  <2> QED
    BY <2>1 DEF Holds, m
<1>11. Pack(d, Append(t, a))
  <2>1. new.offset = Total(RowsIn(c, new.segment_id)) /\ new.offset + new.rows <= Rows
    BY <1>2, <1>4, <1>7
  <2>2. m # 0 => /\ new.segment_id = c[m].segment_id + 1
                 /\ Total(RowsIn(c, new.segment_id - 1)) + a.rows > Rows
    <3> SUFFICES ASSUME m # 0
                 PROVE  /\ new.segment_id = c[m].segment_id + 1
                        /\ Total(RowsIn(c, new.segment_id - 1)) + a.rows > Rows
      OBVIOUS
    <3>1. new.segment_id - 1 = s
      BY <1>1, <1>4
    <3>2. (Rows - v) + ops > Rows
      BY <1>1, <1>2
    <3> QED
      BY <1>3, <1>4, <1>10, <3>1, <3>2
  <2> QED
    BY <1>1, <1>3, <1>4, <1>5, <1>9, <2>1, <2>2, PackOpened DEF m
<1>12. /\ d \in Seq(CheckPoints) /\ Len(d) = m + 1 /\ d[m + 1] = new
       /\ \A i \in 1 .. m : d[i] = c[i]
       /\ \A x : Total(RowsIn(d, x)) =
                   Total(RowsIn(c, x)) + IF new.segment_id = x THEN new.rows ELSE 0
  BY <1>1, <1>5, Opened DEF m
<1> HIDE DEF d
<1>13. Total(RowsIn(d, s + 1)) = Rows - (Rows - ops)
  BY <1>2, <1>4, <1>7, <1>12
<1>14. \A i \in 1 .. Len(d) : d[i].segment_id <= s + 1
  <2> SUFFICES ASSUME NEW i \in 1 .. m + 1 PROVE d[i].segment_id <= s + 1
    BY <1>12
  <2>1. i \in 1 .. m \/ i = m + 1
    BY <1>6
  <2> QED
    BY <1>4, <1>9, <1>12, <2>1
<1>15. Rows - ops \in 0 .. Rows - 1 /\ Len(d) # 0 /\ s + 1 <= s + 1
  BY <1>1, <1>2, <1>6, <1>12
<1>16. d[Len(d)].chunk_id = h /\ d[Len(d)].segment_id = s + 1
  BY <1>4, <1>12
<1> QED
  BY <1>3, <1>4, <1>8, <1>11, <1>12, <1>13, <1>14, <1>15, <1>16, Counted DEF d

(* The first operation of a chunk, in the open segment.                    *)
LEMMA CountedOpenChunk ==
  ASSUME NEW c, NEW t, NEW h, NEW k, NEW s, NEW v, Holds(c, t, h, k, s, v),
         Len(t) < MaxOps, NEW ops \in OpRows, ~(v < ops), c[Len(c)].chunk_id # h,
         NEW a, a = [chunk |-> h, rows |-> ops],
         NEW new, new = [segment_id |-> s, chunk_id |-> h, skip |-> 0,
                         count |-> 1, rows |-> ops, offset |-> Rows - v]
  PROVE  Holds(Append(c, new), Append(t, a), h, k + 1, s, v - ops)
<1> DEFINE d == Append(c, new)
           m == Len(c)
<1>1. /\ c \in Seq(CheckPoints) /\ t \in Seq(Accesses) /\ h \in 0 .. NumChunks - 1
      /\ s \in -1 .. MaxOps /\ v \in 0 .. Rows /\ Tile(c, t) /\ Pack(c, t)
      /\ \A i \in 1 .. m : c[i].segment_id <= s
  BY DEF Holds
<1>2. ops \in 2 .. 5 /\ Rows \in Nat /\ Rows >= 5 /\ MaxOps \in Nat /\ NumChunks \in Nat
  BY OpRowsType, AlignAssumption
<1>3. a \in Accesses /\ a.chunk = h /\ a.rows = ops
  BY <1>1 DEF Accesses
<1>4. c # <<>> /\ s # -1
  BY <1>1, <1>2 DEF Holds
<1>5. /\ v < Rows /\ c[m].segment_id = s /\ Total(RowsIn(c, s)) = Rows - v
      /\ c[m].chunk_id <= h /\ \A j \in 1 .. Len(t) : t[j].chunk <= c[m].chunk_id
  BY <1>4 DEF Holds
<1>6. /\ new.segment_id = s /\ new.chunk_id = h /\ new.skip = 0 /\ new.count = 1
      /\ new.rows = ops /\ new.offset = Rows - v /\ s \in Nat
  BY <1>1, <1>4
<1>7. new \in CheckPoints
  <2>1. 0 \in Nat /\ 1 \in Nat \ {0} /\ ops \in Nat \ {0} /\ Rows - v \in 0 .. Rows
    <3>1. v \in 0 .. Rows
      BY <1>1
    <3>2. ops \in 2 .. 5 /\ Rows \in Nat
      BY <1>2
    <3> QED
      BY <3>1, <3>2
  <2>2. s \in Nat /\ h \in 0 .. NumChunks - 1
    BY <1>1, <1>6
  <2> QED
    BY <2>1, <2>2, <1>6 DEF CheckPoints
<1>8. m \in 1 .. m /\ m \in Nat /\ c[m].chunk_id \in Nat /\ h \in Nat
  <2>1. m \in 1 .. m /\ m \in Nat
    BY <1>1, <1>4
  <2> QED
    BY <1>1, <1>2, <2>1, Tables, CheckPointParts
<1>9. new.skip = Cardinality(ChunkIn(t, a.chunk, Len(t)))
  <2>1. c[m].chunk_id < h
    BY <1>5, <1>8
  <2>2. \A j \in 1 .. Len(t) : t[j].chunk # h
    <3> SUFFICES ASSUME NEW j \in 1 .. Len(t) PROVE t[j].chunk # h
      OBVIOUS
    <3>1. t[j].chunk \in Nat /\ t[j].chunk <= c[m].chunk_id
      BY <1>1, <1>5, TraceTables
    <3> QED
      BY <1>8, <2>1, <3>1
  <2>3. ChunkIn(t, h, Len(t)) = {}
    BY <2>2 DEF ChunkIn
  <2> QED
    BY <1>3, <1>6, <2>3, FS_EmptySet
<1> HIDE DEF m
<1>10. Tile(d, Append(t, a))
  BY <1>1, <1>3, <1>6, <1>7, <1>9, TileOpened
<1>11. Pack(d, Append(t, a))
  <2>1. /\ new.offset = Total(RowsIn(c, new.segment_id)) /\ new.offset + new.rows <= Rows
        /\ new.offset # 0
    BY <1>1, <1>2, <1>5, <1>6
  <2> QED
    BY <1>1, <1>3, <1>6, <1>7, <2>1, PackOpened DEF m
<1>12. /\ d \in Seq(CheckPoints) /\ Len(d) = m + 1 /\ d[m + 1] = new
       /\ \A i \in 1 .. m : d[i] = c[i]
       /\ \A x : Total(RowsIn(d, x)) =
                   Total(RowsIn(c, x)) + IF new.segment_id = x THEN new.rows ELSE 0
  BY <1>1, <1>7, Opened DEF m
<1> HIDE DEF d
<1>13. Total(RowsIn(d, s)) = Rows - (v - ops)
  <2>1. Total(RowsIn(d, s)) = (Rows - v) + ops
    BY <1>5, <1>6, <1>12
  <2> QED
    BY <1>1, <1>2, <2>1
<1>14. \A i \in 1 .. Len(d) : d[i].segment_id <= s
  <2> SUFFICES ASSUME NEW i \in 1 .. m + 1 PROVE d[i].segment_id <= s
    BY <1>12
  <2>1. i \in 1 .. m \/ i = m + 1
    BY <1>8
  <2> QED
    BY <1>1, <1>6, <1>12, <2>1
<1>15. v - ops \in 0 .. Rows - 1 /\ Len(d) # 0 /\ s <= s + 1
  BY <1>1, <1>2, <1>5, <1>6, <1>8, <1>12
<1>16. d[Len(d)].chunk_id = h /\ d[Len(d)].segment_id = s
  BY <1>6, <1>12
<1> QED
  BY <1>3, <1>6, <1>10, <1>11, <1>12, <1>13, <1>14, <1>15, <1>16, Counted DEF d

(* One more operation for the last check point.                            *)
LEMMA CountedExtendLast ==
  ASSUME NEW c, NEW t, NEW h, NEW k, NEW s, NEW v, Holds(c, t, h, k, s, v),
         Len(t) < MaxOps, NEW ops \in OpRows, ~(v < ops), c[Len(c)].chunk_id = h,
         NEW a, a = [chunk |-> h, rows |-> ops]
  PROVE  Holds(Longer(c, ops), Append(t, a), h, k + 1, s, v - ops)
<1> DEFINE d == Longer(c, ops)
           m == Len(c)
<1>1. /\ c \in Seq(CheckPoints) /\ t \in Seq(Accesses) /\ h \in 0 .. NumChunks - 1
      /\ s \in -1 .. MaxOps /\ v \in 0 .. Rows /\ Tile(c, t) /\ Pack(c, t)
      /\ \A i \in 1 .. m : c[i].segment_id <= s
  BY DEF Holds
<1>2. ops \in 2 .. 5 /\ Rows \in Nat /\ Rows >= 5 /\ MaxOps \in Nat /\ NumChunks \in Nat
  BY OpRowsType, AlignAssumption
<1>3. a \in Accesses /\ a.chunk = h /\ a.rows = ops
  BY <1>1 DEF Accesses
<1>4. c # <<>> /\ s # -1 /\ s \in Nat
  <2>1. c # <<>> /\ s # -1
    BY <1>1, <1>2 DEF Holds
  <2> QED
    BY <1>1, <2>1
<1>5. v < Rows /\ c[m].segment_id = s /\ Total(RowsIn(c, s)) = Rows - v
  BY <1>4 DEF Holds
<1>6. m \in 1 .. m /\ m \in Nat /\ m # 0
  BY <1>1, <1>4
<1> HIDE DEF m
<1>7. Tile(d, Append(t, a))
  BY <1>1, <1>3, <1>6, TileExtended DEF m
<1>8. Pack(d, Append(t, a))
  <2>1. Total(RowsIn(c, c[m].segment_id)) + a.rows <= Rows
    BY <1>1, <1>2, <1>3, <1>5
  <2>2. \A i \in 1 .. m : c[i].segment_id <= c[m].segment_id
    BY <1>1, <1>5
  <2> QED
    BY <1>1, <1>3, <1>6, <2>1, <2>2, PackExtended DEF m
<1>9. /\ d \in Seq(CheckPoints) /\ Len(d) = m
      /\ \A i \in 1 .. m - 1 : d[i] = c[i]
      /\ d[m].segment_id = c[m].segment_id /\ d[m].chunk_id = c[m].chunk_id
      /\ \A x : Total(RowsIn(d, x)) =
                  Total(RowsIn(c, x)) + IF c[m].segment_id = x THEN ops ELSE 0
  <2>1. ops \in Nat
    BY <1>2
  <2> QED
    BY <1>1, <1>6, <2>1, Extended DEF m
<1> HIDE DEF d
<1>10. Total(RowsIn(d, s)) = Rows - (v - ops)
  <2>1. Total(RowsIn(d, s)) = (Rows - v) + ops
    BY <1>5, <1>9
  <2> QED
    BY <1>1, <1>2, <2>1
<1>11. \A i \in 1 .. Len(d) : d[i].segment_id <= s
  <2> SUFFICES ASSUME NEW i \in 1 .. m PROVE d[i].segment_id <= s
    BY <1>9
  <2>1. i \in 1 .. m - 1 \/ i = m
    BY <1>6
  <2> QED
    BY <1>1, <1>4, <1>5, <1>9, <2>1
<1>12. v - ops \in 0 .. Rows - 1 /\ Len(d) # 0 /\ s <= s + 1
  BY <1>1, <1>2, <1>4, <1>5, <1>6, <1>9
<1>13. d[Len(d)].chunk_id = h /\ d[Len(d)].segment_id = s
  BY <1>5, <1>9 DEF m
<1> QED
  BY <1>3, <1>4, <1>7, <1>8, <1>9, <1>10, <1>11, <1>12, <1>13, Counted DEF d

(* A step of the counter keeps the invariant: one case for each way an     *)
(* access is added, and one for the next chunk.                            *)
LEMMA NextIInv == IInv /\ [Next]_vars => IInv'
<1> SUFFICES ASSUME IInv, [Next]_vars PROVE IInv'
  OBVIOUS
<1>1. PICK c, t, h, k, s, v :
        /\ c = checkpoints /\ t = trace /\ h = chunk_id
        /\ k = skip /\ s = segment_id /\ v = available_rows
  OBVIOUS
<1>2. Holds(c, t, h, k, s, v)
  BY <1>1, HoldsIs
<1>3. Holds(checkpoints, trace, chunk_id, skip, segment_id, available_rows)' => IInv'
  BY HoldsIs, PTL
<1>4. CASE NextChunk
  <2>1. /\ checkpoints' = c /\ trace' = t /\ chunk_id' = h + 1 /\ skip' = 0
        /\ segment_id' = s /\ available_rows' = v /\ h + 1 < NumChunks
    BY <1>1, <1>4 DEF NextChunk, SkipOfNextChunk
  <2>2. /\ c \in Seq(CheckPoints) /\ t \in Seq(Accesses) /\ h \in 0 .. NumChunks - 1
        /\ h + 1 \in 0 .. NumChunks - 1 /\ h \in Nat
    BY <1>2, <2>1, AlignAssumption DEF Holds
  <2>3. Len(t) \in Nat
    BY <2>2
  <2>4. c # <<>> => c[Len(c)].chunk_id <= h + 1
    <3> SUFFICES ASSUME c # <<>> PROVE c[Len(c)].chunk_id <= h + 1
      OBVIOUS
    <3>1. Len(c) \in 1 .. Len(c)
      BY <2>2
    <3>2. PICK x : x = c[Len(c)].chunk_id
      OBVIOUS
    <3>3. x \in Nat /\ x <= h
      BY <1>2, <2>2, <3>1, <3>2, Tables, CheckPointParts DEF Holds
    <3> QED
      BY <2>2, <3>2, <3>3
  <2>5. 0 = Cardinality(ChunkIn(t, h + 1, Len(t)))
    <3>1. \A j \in 1 .. Len(t) : t[j].chunk # h + 1
      <4> SUFFICES ASSUME NEW j \in 1 .. Len(t) PROVE t[j].chunk # h + 1
        OBVIOUS
      <4>1. c # <<>>
        <5> SUFFICES ASSUME c = <<>> PROVE FALSE
          OBVIOUS
        <5>1. s = -1 /\ Tile(c, t)
          BY <1>2 DEF Holds
        <5>2. Len(c) = 0 /\ CountsOf(c) \in Seq(Nat)
          BY <2>2, Tables
        <5>3. Len(t) = 0
          BY <5>1, <5>2, RunningTotalDef DEF Tile
        <5> QED
          BY <5>3
      <4>2. PICK x, y : x = c[Len(c)].chunk_id /\ y = t[j].chunk
        OBVIOUS
      <4>3. x <= h /\ y <= x
        BY <1>2, <4>1, <4>2 DEF Holds
      <4>4. x \in Nat /\ y \in Nat
        <5>1. Len(c) \in 1 .. Len(c)
          BY <2>2, <4>1
        <5> QED
          BY <2>2, <4>2, <5>1, Tables, TraceTables, CheckPointParts
      <4> QED
        BY <2>2, <4>2, <4>3, <4>4
    <3>2. ChunkIn(t, h + 1, Len(t)) = {}
      BY <3>1 DEF ChunkIn
    <3> QED
      BY <3>2, FS_EmptySet
  <2>6. Holds(c, t, h + 1, 0, s, v)
    BY <1>2, <2>2, <2>3, <2>4, <2>5 DEF Holds
  <2> QED
    BY <1>3, <2>1, <2>6 DEF Holds
<1>5. ASSUME NEW ops \in OpRows, AddMemAlignOp(ops) PROVE IInv'
  <2>1. PICK a : a = [chunk |-> h, rows |-> ops]
    OBVIOUS
  <2>2. /\ Len(t) < MaxOps /\ trace' = Append(t, a) /\ chunk_id' = h /\ skip' = k + 1
        /\ OpenSegment(ops) \/ OpenChunk(ops) \/ ExtendLast(ops)
    BY <1>1, <1>5, <2>1 DEF AddMemAlignOp
  <2>3. PICK d, z, y : d = checkpoints' /\ z = segment_id' /\ y = available_rows'
    OBVIOUS
  <2>4. Holds(d, Append(t, a), h, k + 1, z, y)
    <3>1. CASE OpenSegment(ops)
      <4>1. PICK new : new = [segment_id |-> s + 1, chunk_id |-> h, skip |-> k,
                              count |-> 1, rows |-> ops, offset |-> 0]
        OBVIOUS
      <4>2. v < ops /\ d = Append(c, new) /\ z = s + 1 /\ y = Rows - ops
        BY <1>1, <2>3, <3>1, <4>1 DEF OpenSegment, NeedsSegment
      <4> QED
        BY <1>2, <2>1, <2>2, <4>1, <4>2, CountedOpenSegment
    <3>2. CASE OpenChunk(ops)
      <4>1. PICK new : new = [segment_id |-> s, chunk_id |-> h, skip |-> 0,
                              count |-> 1, rows |-> ops, offset |-> Rows - v]
        OBVIOUS
      <4>2. /\ ~(v < ops) /\ c[Len(c)].chunk_id # h
            /\ d = Append(c, new) /\ z = s /\ y = v - ops
        BY <1>1, <2>3, <3>2, <4>1 DEF OpenChunk, NeedsSegment, Last
      <4> QED
        BY <1>2, <2>1, <2>2, <4>1, <4>2, CountedOpenChunk
    <3>3. CASE ExtendLast(ops)
      <4>1. /\ ~(v < ops) /\ c[Len(c)].chunk_id = h
            /\ d = Longer(c, ops) /\ z = s /\ y = v - ops
        BY <1>1, <2>3, <3>3 DEF ExtendLast, NeedsSegment, Last, Longer
      <4> QED
        BY <1>2, <2>1, <2>2, <4>1, CountedExtendLast
    <3> QED
      BY <2>2, <3>1, <3>2, <3>3
  <2> QED
    BY <1>3, <2>2, <2>3, <2>4 DEF Holds
<1>6. CASE UNCHANGED vars
  BY <1>1, <1>2, <1>3, <1>6 DEF vars, Holds
<1> QED
  BY <1>4, <1>5, <1>6 DEF Next, Finished

(* The invariant holds in every reachable state.                           *)
THEOREM Invariance == Spec => []IInv
  BY InitIInv, NextIInv, PTL DEF Spec

(* Type correctness of the plan: in particular available_rows, which the   *)
(* program keeps in an unsigned word, never falls below zero.              *)
THEOREM AlignTypeCorrect == Spec => []TypeOK
<1>1. IInv => TypeOK
  BY DEF IInv
<1> QED
  BY <1>1, Invariance, PTL

(* The check points cut the accesses into consecutive runs within a chunk, *)
(* and their skip is the number of the chunk's accesses before the run:    *)
(* both when open_segment takes it from the counter and when open_chunk    *)
(* writes zero.                                                            *)
THEOREM AlignCheckPointsTile == Spec => []CheckPointsTileTrace
<1>1. IInv => CheckPointsTileTrace
  BY DEF IInv
<1> QED
  BY <1>1, Invariance, PTL

(* No segment is overfilled, no row of one is left out between two check   *)
(* points, and none is closed while the next access still fits.            *)
THEOREM AlignSegmentsPacked == Spec => []SegmentsPacked
<1>1. IInv => SegmentsPacked
  BY DEF IInv
<1> QED
  BY <1>1, Invariance, PTL

=============================================================================
