---------------------------- MODULE RamPlanProofs -----------------------------
(***************************************************************************)
(* Proofs about RamPlan, for any tables and any number of rows.            *)
(*                                                                         *)
(* That a locator marks a multiple of `rows' rows is not inductive: the    *)
(* next one is right because the rows of the entries gone through are      *)
(* those of the full segments and of the current one (RowsAddUp), and that *)
(* the planners find their entries rests on what the scan is made of       *)
(* (ScanFaithful).                                                         *)
(*                                                                         *)
(* That a segment is its slice follows in three steps: the locator leads   *)
(* to the first row of the slice (BeginsAt); after every entry the planner *)
(* has recorded what the slice has up to it and has as much room left as   *)
(* the slice has rows to come (Filled), because the scan goes by words and *)
(* chunks (ScanOrdered); and all that is recorded is the slice.            *)
(***************************************************************************)
EXTENDS RamPlan, AccumulationProofs

(* An entry of the scan stands where the tables have it; the first one is  *)
(* the beginning of its walk.                                              *)
ScanFaithful ==
  \A i \in 1 .. Len(scan) :
    /\ scan[i].cpos \in DOMAIN walk[scan[i].word]
    /\ scan[i].count = walk[scan[i].word][scan[i].cpos].count
    /\ i = 1 => scan[i].cpos = 1

(* The scan goes by words, and within a word by its walk: no two entries   *)
(* are at the same position, and no two of a chunk are of the same word.   *)
ScanOrdered ==
  \A j \in 1 .. Len(scan) : \A i \in 1 .. j - 1 :
    \/ scan[i].word < scan[j].word
    \/ /\ scan[i].word = scan[j].word
       /\ scan[i].cpos < scan[j].cpos
       /\ scan[i].chunk < scan[j].chunk

Locators == [word : Words, cpos : Nat \ {0}, skip : Nat]

(* A segment planner has been started for a locator only.                  *)
PlansTyped ==
  /\ locators \in Seq(Locators)
  /\ segments \in Seq({segments[i] : i \in DOMAIN segments})
  /\ errors \in Nat

(* The rows of the entries that generate_locators has gone through.        *)
Consumed ==
  RowsBefore(entry) + (IF entry <= Len(scan) THEN scan[entry].count - count ELSE 0)

(* They are the rows of the full segments and of the current one.          *)
RowsAddUp ==
  IF locators = <<>>
    THEN entry = 1 /\ rows_available = Rows /\ (scan # <<>> => count = scan[1].count)
    ELSE Consumed = (Len(locators) - 1) * Rows + (Rows - rows_available)

(* The first locator is that of the first word; the scan is not given up.  *)
FirstLocator ==
  /\ locators # <<>> => scan # <<>> /\ locators[1].word = scan[1].word
  /\ completed => entry > Len(scan)

IInv ==
  /\ TypeOK
  /\ ScanFaithful
  /\ PlansTyped
  /\ RowsAddUp
  /\ FirstLocator
  /\ LocatorsOnBoundaries
  /\ NoPlannerError

-----------------------------------------------------------------------------
(* The scan                                                                *)

(* The number of words is a number, and no page is without a word.         *)
LEMMA NumWordsType == NumWords \in Nat
<1>1. Pages * PageSize \in Nat
  BY ScanAssumption
<1> QED
  BY <1>1, ScanAssumption DEF NumWords

(* What the entries of a word say is what its walk says.                   *)
LEMMA EntriesOfWord ==
  ASSUME NEW t \in Tables, NEW w \in Words
  PROVE  /\ EntriesOf(t, w) \in Seq(Entries)
         /\ Len(EntriesOf(t, w)) = Len(t[w])
         /\ \A c \in 1 .. Len(t[w]) :
              /\ EntriesOf(t, w)[c] = [word |-> w, cpos |-> c, chunk |-> t[w][c].chunk,
                                       count |-> t[w][c].count]
              /\ c \in DOMAIN t[w]
<1> DEFINE n == Len(t[w])
           f == [c \in 1 .. n |-> [word |-> w, cpos |-> c, chunk |-> t[w][c].chunk,
                                   count |-> t[w][c].count]]
           Visits == [chunk : Chunks, count : Nat \ {0}]
<1>1. t[w] \in Seq(Visits)
  BY ScanAssumption DEF Tables
<1>2. DOMAIN t[w] = 1 .. n /\ n \in Nat
  BY <1>1
<1>3. \A c \in 1 .. n : t[w][c] \in Visits
  BY <1>1, SeqIsFunction
<1>4. EntriesOf(t, w) = f
  BY <1>2 DEF EntriesOf
<1> HIDE DEF n
<1>5. \A c \in 1 .. n : f[c] \in Entries
  <2>1. \A c \in 1 .. n : c \in Nat \ {0}
    BY <1>2
  <2> QED
    BY <1>3, <2>1 DEF Entries
<1>6. f \in [1 .. n -> Entries]
  BY <1>5
<1>7. f \in Seq(Entries) /\ Len(f) = n
  <2> HIDE DEF f
  <2> QED
    BY <1>2, <1>6, FunctionIsSeq
<1>8. \A c \in 1 .. n : /\ f[c] = [word |-> w, cpos |-> c, chunk |-> t[w][c].chunk,
                                   count |-> t[w][c].count]
                        /\ c \in DOMAIN t[w]
  BY <1>2
<1> QED
  BY <1>4, <1>7, <1>8 DEF n

(* The scan of a table consists of entries of the table.                   *)
LEMMA ScanOfTable ==
  ASSUME walk \in Tables, scan = Scan(walk)
  PROVE  scan \in Seq(Entries) /\ ScanFaithful /\ ScanOrdered
<1> DEFINE parts == [i \in 1 .. NumWords |->
                       IF ScannedWord(walk, i - 1) THEN EntriesOf(walk, i - 1) ELSE <<>>]
<1>1. \A i \in 1 .. NumWords : i - 1 \in Words
  BY NumWordsType DEF Words
<1>2. \A i \in 1 .. NumWords : parts[i] \in Seq(Entries)
  BY <1>1, EntriesOfWord
<1>3. parts \in Seq(Seq(Entries)) /\ Len(parts) = NumWords
  BY <1>2, NumWordsType
<1>4. \A n \in 1 .. NumWords : \A k \in 1 .. Len(parts[n]) :
        /\ parts[n][k].word = n - 1
        /\ parts[n][k].cpos = k
        /\ parts[n][k].count = walk[n - 1][k].count
        /\ parts[n][k].chunk = walk[n - 1][k].chunk
        /\ k \in DOMAIN walk[n - 1] /\ n - 1 \in Words
  <2> SUFFICES ASSUME NEW n \in 1 .. NumWords, NEW k \in 1 .. Len(parts[n])
               PROVE  /\ parts[n][k].word = n - 1
                      /\ parts[n][k].cpos = k
                      /\ parts[n][k].count = walk[n - 1][k].count
                      /\ parts[n][k].chunk = walk[n - 1][k].chunk
                      /\ k \in DOMAIN walk[n - 1] /\ n - 1 \in Words
    OBVIOUS
  <2> DEFINE w == n - 1
  <2>1. parts[n] = EntriesOf(walk, w) \/ parts[n] = <<>>
    OBVIOUS
  <2>2. parts[n] = EntriesOf(walk, w) /\ w \in Words
    BY <1>1, <2>1
  <2> HIDE DEF parts, w
  <2>3. k \in 1 .. Len(walk[w])
    BY <2>2, EntriesOfWord
  <2>4. /\ parts[n][k] = [word |-> w, cpos |-> k, chunk |-> walk[w][k].chunk,
                          count |-> walk[w][k].count]
        /\ k \in DOMAIN walk[w]
    BY <2>2, <2>3, EntriesOfWord
  <2> QED
    BY <2>2, <2>4 DEF w
<1>5. scan = Concatenation(parts)
  BY DEF Scan
<1> HIDE DEF parts
<1>6. PICK a, b : scan \in Seq(Entries) /\ Places(parts, scan, NumWords, a, b)
  BY <1>3, <1>5, ConcatenationPlaces
<1>7. \A i \in 1 .. Len(scan) : /\ a[i] \in 1 .. NumWords
                                /\ b[i] \in 1 .. Len(parts[a[i]])
                                /\ scan[i] = parts[a[i]][b[i]]
                                /\ i = 1 => b[i] = 1
  BY <1>6 DEF Places
<1>8. \A i \in 1 .. Len(scan) : /\ scan[i].word = a[i] - 1 /\ a[i] - 1 \in Words
                                /\ scan[i].cpos = b[i]
                                /\ scan[i].count = walk[a[i] - 1][b[i]].count
                                /\ scan[i].chunk = walk[a[i] - 1][b[i]].chunk
                                /\ b[i] \in DOMAIN walk[a[i] - 1]
  <2> SUFFICES ASSUME NEW i \in 1 .. Len(scan)
               PROVE  /\ scan[i].word = a[i] - 1 /\ a[i] - 1 \in Words
                      /\ scan[i].cpos = b[i]
                      /\ scan[i].count = walk[a[i] - 1][b[i]].count
                      /\ scan[i].chunk = walk[a[i] - 1][b[i]].chunk
                      /\ b[i] \in DOMAIN walk[a[i] - 1]
    OBVIOUS
  <2>1. a[i] \in 1 .. NumWords /\ b[i] \in 1 .. Len(parts[a[i]]) /\ scan[i] = parts[a[i]][b[i]]
    BY <1>7, Zenon
  <2>2. /\ parts[a[i]][b[i]].word = a[i] - 1
        /\ parts[a[i]][b[i]].cpos = b[i]
        /\ parts[a[i]][b[i]].count = walk[a[i] - 1][b[i]].count
        /\ parts[a[i]][b[i]].chunk = walk[a[i] - 1][b[i]].chunk
        /\ b[i] \in DOMAIN walk[a[i] - 1] /\ a[i] - 1 \in Words
    BY <1>4, <2>1, Zenon
  <2> QED
    BY <2>1, <2>2, Zenon
<1>9. ScanFaithful
  <2>1. \A i \in 1 .. Len(scan) : /\ scan[i].cpos \in DOMAIN walk[scan[i].word]
                                 /\ scan[i].count = walk[scan[i].word][scan[i].cpos].count
    BY <1>8
  <2>2. \A i \in 1 .. Len(scan) : i = 1 => scan[i].cpos = 1
    BY <1>7, <1>8, Zenon
  <2> QED
    BY <2>1, <2>2 DEF ScanFaithful
<1>10. ScanOrdered
  <2> SUFFICES ASSUME NEW j \in 1 .. Len(scan), NEW i \in 1 .. j - 1
               PROVE  \/ scan[i].word < scan[j].word
                      \/ /\ scan[i].word = scan[j].word
                         /\ scan[i].cpos < scan[j].cpos
                         /\ scan[i].chunk < scan[j].chunk
    BY DEF ScanOrdered
  <2>1. i \in 1 .. Len(scan)
    BY <1>6
  <2>2. a[i] < a[j] \/ (a[i] = a[j] /\ b[i] < b[j])
    BY <1>6 DEF Places
  <2>3. CASE a[i] < a[j]
    <3>1. PICK m \in 1 .. NumWords, n \in 1 .. NumWords : m = a[i] /\ n = a[j]
      BY <1>7, <2>1, Zenon
    <3>2. m - 1 < n - 1
      BY <2>3, <3>1, NumWordsType
    <3>3. scan[i].word = m - 1 /\ scan[j].word = n - 1
      BY <1>8, <2>1, <3>1
    <3> QED
      BY <3>2, <3>3
  <2>4. CASE a[i] = a[j] /\ b[i] < b[j]
    <3> DEFINE v == walk[a[j] - 1]
    <3>1. v \in Walks
      BY <1>8 DEF Tables
    <3>2. b[i] \in DOMAIN v /\ b[j] \in DOMAIN v
      BY <1>8, <2>1, <2>4
    <3>3. v[b[i]].chunk < v[b[j]].chunk
      BY <2>4, <3>1, <3>2, ScanAssumption
    <3> QED
      BY <1>8, <2>1, <2>4, <3>3
  <2> QED
    BY <2>2, <2>3, <2>4
<1> QED
  BY <1>6, <1>9, <1>10

(* The rows ahead of an entry, one entry after the other.                  *)
LEMMA RowsBeforeDef ==
  ASSUME scan \in Seq(Entries)
  PROVE  /\ \A i \in 1 .. Len(scan) + 1 : RowsBefore(i) \in Nat
         /\ RowsBefore(1) = 0
         /\ \A i \in 1 .. Len(scan) :
              scan[i].count \in Nat \ {0} /\ RowsBefore(i + 1) = RowsBefore(i) + scan[i].count
<1>1. DOMAIN scan = 1 .. Len(scan) /\ Len(scan) \in Nat
  OBVIOUS
<1>2. \A i \in 1 .. Len(scan) : scan[i].count \in Nat \ {0}
  <2>1. \A i \in 1 .. Len(scan) : scan[i] \in Entries
    OBVIOUS
  <2> QED
    BY <2>1 DEF Entries
<1>3. RowCounts \in Seq(Nat) /\ Len(RowCounts) = Len(scan)
  BY <1>1, <1>2 DEF RowCounts
<1>4. \A i \in 1 .. Len(scan) : RowCounts[i] = scan[i].count
  BY <1>1 DEF RowCounts
<1> DEFINE r == RunningTotal(RowCounts)
<1>5. /\ r \in [0 .. Len(scan) -> Nat]
      /\ r[0] = 0
      /\ \A n \in 1 .. Len(scan) : r[n] = r[n - 1] + scan[n].count
  BY <1>3, <1>4, RunningTotalDef
<1>6. \A i : RowsBefore(i) = r[i - 1]
  BY DEF RowsBefore
<1> HIDE DEF r
<1>7. \A i \in 1 .. Len(scan) + 1 : i - 1 \in 0 .. Len(scan)
  BY <1>1
<1>8. RowsBefore(1) = 0
  BY <1>5, <1>6
<1>9. ASSUME NEW i \in 1 .. Len(scan)
      PROVE  RowsBefore(i + 1) = RowsBefore(i) + scan[i].count
  <2>1. (i + 1) - 1 = i
    OBVIOUS
  <2> QED
    BY <1>5, <1>6, <2>1
<1> QED
  BY <1>2, <1>5, <1>6, <1>7, <1>8, <1>9


(* The rows ahead do not decrease.                                         *)
LEMMA RowsBeforeMonotone ==
  ASSUME scan \in Seq(Entries), NEW i \in 1 .. Len(scan) + 1, NEW j \in i .. Len(scan) + 1
  PROVE  RowsBefore(i) <= RowsBefore(j)
<1>1. DOMAIN scan = 1 .. Len(scan) /\ Len(scan) \in Nat
  OBVIOUS
<1>2. \A n \in 1 .. Len(scan) : scan[n].count \in Nat
  BY RowsBeforeDef
<1>3. RowCounts \in Seq(Nat) /\ Len(RowCounts) = Len(scan)
  BY <1>1, <1>2 DEF RowCounts
<1>4. i - 1 \in 0 .. Len(RowCounts) /\ j - 1 \in i - 1 .. Len(RowCounts)
  BY <1>1, <1>3
<1> QED
  BY <1>3, <1>4, RunningTotalMonotone DEF RowsBefore

-----------------------------------------------------------------------------
(* The quick planner                                                       *)

(* The tables and the scan stay what they are.                             *)
LEMMA ScanStays ==
  ASSUME UNCHANGED <<walk, scan>>
  PROVE  /\ \A i : RowsBefore(i)' = RowsBefore(i)
         /\ ScanFaithful => ScanFaithful'
<1>1. \A i : RowsBefore(i)' = RowsBefore(i)
  BY DEF RowsBefore, RowCounts
<1>2. ScanFaithful => ScanFaithful'
  BY DEF ScanFaithful
<1> QED
  BY <1>1, <1>2

(* What the rest of the proof needs to know of a state.                    *)
LEMMA StateFacts ==
  ASSUME IInv
  PROVE  /\ Len(scan) \in Nat /\ DOMAIN scan = 1 .. Len(scan)
         /\ \A i \in 1 .. Len(scan) : /\ scan[i] \in Entries
                                      /\ scan[i].word \in Words
                                      /\ scan[i].cpos \in Nat \ {0}
                                      /\ scan[i].count \in Nat \ {0}
                                      /\ RowsBefore(i) \in Nat
                                      /\ RowsBefore(i + 1) = RowsBefore(i) + scan[i].count
         /\ Len(locators) \in Nat /\ DOMAIN locators = 1 .. Len(locators)
         /\ entry \in Nat \ {0} /\ rows_available \in Nat \ {0} /\ Rows \in Nat \ {0}
         /\ (locators = <<>>) <=> (Len(locators) = 0)
<1>1. scan \in Seq(Entries) /\ locators \in Seq(Locators)
  BY DEF IInv, TypeOK, PlansTyped
<1>2. Len(scan) \in Nat /\ DOMAIN scan = 1 .. Len(scan)
  BY <1>1
<1>3. \A i \in 1 .. Len(scan) : scan[i] \in Entries
  BY <1>1, SeqIsFunction
<1>4. \A i \in 1 .. Len(scan) : /\ scan[i].word \in Words
                                /\ scan[i].cpos \in Nat \ {0}
                                /\ scan[i].count \in Nat \ {0}
  BY <1>3 DEF Entries
<1>5. \A i \in 1 .. Len(scan) : i \in 1 .. Len(scan) + 1
  BY <1>2
<1>6. \A i \in 1 .. Len(scan) : /\ RowsBefore(i) \in Nat
                                /\ RowsBefore(i + 1) = RowsBefore(i) + scan[i].count
  BY <1>1, <1>5, RowsBeforeDef
<1>7. Len(locators) \in Nat /\ DOMAIN locators = 1 .. Len(locators)
  BY <1>1
<1>8. (locators = <<>>) <=> (Len(locators) = 0)
  BY <1>1
<1>9. entry \in Nat \ {0} /\ rows_available \in Nat \ {0} /\ Rows \in Nat \ {0}
  BY <1>2, RowsAssumption DEF IInv, TypeOK
<1> QED
  BY <1>2, <1>3, <1>4, <1>6, <1>7, <1>8, <1>9

(* Nothing placed yet.                                                     *)
LEMMA InitIInv == Init => IInv
<1> SUFFICES ASSUME Init PROVE IInv
  OBVIOUS
<1>1. walk \in Tables /\ scan = Scan(walk)
  BY DEF Init
<1>2. scan \in Seq(Entries) /\ ScanFaithful
  BY <1>1, ScanOfTable
<1>3. locators = <<>> /\ segments = <<>> /\ errors = 0 /\ completed = FALSE
  BY DEF Init
<1>4. entry = 1 /\ rows_available = Rows /\ rows_available \in 1 .. Rows
  BY RowsAssumption DEF Init
<1>5. scan # <<>> => count = scan[1].count
  BY DEF Init
<1>6. Len(scan) \in Nat /\ \A i \in 1 .. Len(scan) : scan[i].count \in Nat \ {0}
  BY <1>2, RowsBeforeDef
<1>7. entry \in 1 .. Len(scan) + 1
  BY <1>4, <1>6
<1>8. entry <= Len(scan) => count \in 1 .. scan[entry].count
  <2> SUFFICES ASSUME 1 <= Len(scan) PROVE count \in 1 .. scan[1].count
    BY <1>4
  <2>1. scan # <<>> /\ scan[1].count \in Nat \ {0}
    BY <1>6
  <2> QED
    BY <1>5, <2>1
<1>9. DOMAIN locators = {} /\ DOMAIN segments = {} /\ Len(segments) = 0 /\ Len(locators) = 0
  BY <1>3
<1>10. TypeOK
  <2>1. completed \in BOOLEAN
    BY <1>3
  <2>2. errors \in Nat /\ Len(segments) <= Len(locators)
    BY <1>3, <1>9
  <2>3. \A i \in DOMAIN locators :
          /\ locators[i].word \in Words
          /\ locators[i].cpos \in DOMAIN walk[locators[i].word]
          /\ locators[i].skip \in Nat
    BY <1>9
  <2> QED
    BY <1>1, <1>2, <1>4, <1>7, <1>8, <2>1, <2>2, <2>3 DEF TypeOK
<1>11. PlansTyped
  BY <1>3 DEF PlansTyped
<1>12. RowsAddUp /\ FirstLocator /\ LocatorsOnBoundaries /\ NoPlannerError
  BY <1>3, <1>4, <1>5, <1>9
     DEF RowsAddUp, FirstLocator, LocatorsOnBoundaries, NoPlannerError
<1> QED
  BY <1>2, <1>10, <1>11, <1>12 DEF IInv

(* The first locator is put at the first word of the scan.                 *)
LEMMA PushFirstLocatorIInv ==
  ASSUME IInv, PushFirstLocator
  PROVE  IInv'
<1> DEFINE w == scan[1].word
           l == Locator(w, Len(walk[w]), 0)
<1>1. entry = 1 /\ rows_available = Rows /\ Len(scan) >= 1
  BY StateFacts DEF IInv, RowsAddUp, PushFirstLocator
<1>2. scan # <<>> /\ count = scan[1].count
  BY <1>1, StateFacts DEF IInv, RowsAddUp, PushFirstLocator
<1>3. locators' = <<l>>
  BY <1>1 DEF PushFirstLocator
<1>4. UNCHANGED <<walk, scan, entry, count, rows_available, completed, segments, errors>>
  BY DEF PushFirstLocator
<1>5. w \in Words /\ scan[1].cpos \in DOMAIN walk[w]
  BY <1>1, StateFacts DEF IInv, ScanFaithful
<1>6. Len(walk[w]) \in DOMAIN walk[w] /\ Len(walk[w]) \in Nat \ {0}
  <2>1. walk[w] \in Seq([chunk : Chunks, count : Nat \ {0}])
    BY <1>5, ScanAssumption DEF IInv, TypeOK, Tables
  <2>2. DOMAIN walk[w] = 1 .. Len(walk[w]) /\ Len(walk[w]) \in Nat
    BY <2>1
  <2> QED
    BY <1>5, <2>2
<1>7. l = [word |-> w, cpos |-> Len(walk[w]), skip |-> 0] /\ l \in Locators
  BY <1>5, <1>6 DEF Locator, Locators
<1> HIDE DEF l, w
<1>8. locators' \in Seq(Locators) /\ Len(locators') = 1 /\ locators'[1] = l /\ locators' # <<>>
  BY <1>3, <1>7
<1>9. TypeOK'
  <2>1. Len(segments) <= Len(locators')
    BY <1>8, StateFacts DEF IInv, TypeOK, PushFirstLocator
  <2>2. \A i \in DOMAIN locators' :
          /\ locators'[i].word \in Words
          /\ locators'[i].cpos \in DOMAIN walk[locators'[i].word]
          /\ locators'[i].skip \in Nat
    BY <1>5, <1>6, <1>7, <1>8
  <2> QED
    BY <1>4, <2>1, <2>2 DEF IInv, TypeOK
<1>10. PlansTyped'
  BY <1>4, <1>8 DEF IInv, PlansTyped
<1>11. RowsAddUp'
  <2>1. RowsBefore(1)' = 0
    BY <1>4, RowsBeforeDef, ScanStays DEF IInv, TypeOK
  <2>2. Consumed' = 0
    BY <1>1, <1>2, <1>4, <2>1, StateFacts DEF Consumed
  <2> QED
    BY <1>1, <1>4, <1>8, <2>2, RowsAssumption DEF RowsAddUp
<1>12. FirstLocator' /\ LocatorsOnBoundaries' /\ NoPlannerError'
  BY <1>2, <1>4, <1>7, <1>8 DEF IInv, FirstLocator, LocatorsOnBoundaries, NoPlannerError, w
<1> QED
  BY <1>4, <1>9, <1>10, <1>11, <1>12, ScanStays DEF IInv

(* After an entry the rows gone through are those ahead of the next one.   *)
LEMMA AdvanceConsumes ==
  ASSUME IInv, Advance, UNCHANGED <<walk, scan>>, entry <= Len(scan)
  PROVE  /\ entry' \in 1 .. Len(scan) + 1
         /\ entry' <= Len(scan) => count' \in 1 .. scan[entry'].count
         /\ Consumed' = RowsBefore(entry) + scan[entry].count
<1>1. entry \in 1 .. Len(scan) /\ entry' = entry + 1 /\ Len(scan) \in Nat
  BY StateFacts DEF IInv, TypeOK, Advance
<1>2. Consumed' = RowsBefore(entry') + (IF entry' <= Len(scan) THEN scan[entry'].count - count' ELSE 0)
  BY DEF Consumed, RowsBefore, RowCounts
<1>3. RowsBefore(entry') = RowsBefore(entry) + scan[entry].count
  BY <1>1, StateFacts
<1>4. RowsBefore(entry) + scan[entry].count \in Nat
  BY <1>1, StateFacts
<1>5. CASE entry < Len(scan)
  <2>1. entry' \in 1 .. Len(scan) /\ count' = scan[entry'].count
    BY <1>1, <1>5 DEF Advance
  <2>2. scan[entry'].count \in Nat \ {0}
    BY <2>1, StateFacts
  <2> QED
    BY <1>1, <1>2, <1>3, <1>4, <2>1, <2>2
<1>6. CASE entry = Len(scan)
  BY <1>1, <1>2, <1>3, <1>4, <1>6
<1> QED
  BY <1>1, <1>5, <1>6


(* An entry that ends before the segment does.                             *)
LEMMA ConsumeEntryIInv ==
  ASSUME IInv, ConsumeEntry
  PROVE  IInv'
<1>1. UNCHANGED <<walk, scan, locators, completed, segments, errors>> /\ Advance
  BY DEF ConsumeEntry
<1>2. /\ entry <= Len(scan) /\ locators # <<>> /\ rows_available > count
      /\ rows_available' = rows_available - count
  BY DEF ConsumeEntry, Fits
<1>3. entry \in 1 .. Len(scan) /\ count \in 1 .. scan[entry].count
  BY <1>2, StateFacts DEF IInv, TypeOK
<1>4. /\ count \in Nat \ {0} /\ scan[entry].count \in Nat \ {0} /\ RowsBefore(entry) \in Nat
  BY <1>3, StateFacts
<1>5. /\ entry' \in 1 .. Len(scan) + 1
      /\ entry' <= Len(scan) => count' \in 1 .. scan[entry'].count
      /\ Consumed' = RowsBefore(entry) + scan[entry].count
  BY <1>1, <1>2, AdvanceConsumes
<1>6. Consumed = RowsBefore(entry) + scan[entry].count - count
  BY <1>2, <1>4 DEF Consumed
<1>7. Consumed = (Len(locators) - 1) * Rows + (Rows - rows_available)
  BY <1>2 DEF IInv, RowsAddUp
<1>8. rows_available' \in 1 .. Rows
  <2>1. rows_available \in 1 .. Rows /\ Rows \in Nat
    BY RowsAssumption DEF IInv, TypeOK
  <2> QED
    BY <1>2, <1>4, <2>1
<1>9. TypeOK'
  BY <1>1, <1>5, <1>8 DEF IInv, TypeOK
<1>10. PlansTyped'
  BY <1>1 DEF IInv, PlansTyped
<1>11. RowsAddUp'
  <2> DEFINE full == (Len(locators) - 1) * Rows
  <2>1. full \in Int
    BY StateFacts
  <2>2. full' = full
    BY <1>1
  <2> DEFINE before == RowsBefore(entry)
             n == scan[entry].count
  <2>3. Consumed' = full + (Rows - rows_available')
    <3>1. before + n - count = full + (Rows - rows_available)
      BY <1>6, <1>7
    <3>2. rows_available \in Nat /\ Rows \in Nat /\ before \in Nat /\ n \in Nat /\ count \in Nat
      BY <1>4, StateFacts
    <3> HIDE DEF full, before, n
    <3>3. before + n = full + (Rows - (rows_available - count))
      BY <2>1, <3>1, <3>2
    <3> QED
      BY <1>2, <1>5, <3>3 DEF before, n
  <2> QED
    BY <1>1, <1>2, <2>3 DEF RowsAddUp, full
<1>12. FirstLocator'
  <2>1. ~completed
    BY <1>3, StateFacts DEF IInv, FirstLocator
  <2> QED
    BY <1>1, <2>1 DEF IInv, FirstLocator
<1>13. LocatorsOnBoundaries' /\ NoPlannerError'
  BY <1>1, ScanStays DEF IInv, LocatorsOnBoundaries, NoPlannerError
<1> QED
  BY <1>1, <1>9, <1>10, <1>11, <1>12, <1>13, ScanStays DEF IInv

(* The mark of the next segment: `rows' rows behind the last one.          *)
LEMMA PushLocatorIInv ==
  ASSUME IInv, PushLocator
  PROVE  IInv'
<1> DEFINE e == scan[entry]
           left == count - rows_available
           l == Locator(e.word, e.cpos, Skip(e, left))
           n == Len(locators)
<1>1. UNCHANGED <<walk, scan, completed, segments, errors>> /\ rows_available' = Rows
  BY DEF PushLocator
<1>2. /\ entry <= Len(scan) /\ locators # <<>> /\ ~(rows_available > count)
      /\ locators' = Append(locators, l)
      /\ IF left > 0 THEN entry' = entry /\ count' = left ELSE Advance
  BY DEF PushLocator, Fits
<1>3. entry \in 1 .. Len(scan) /\ count \in 1 .. e.count
  BY <1>2, StateFacts DEF IInv, TypeOK
<1>4. /\ count \in Nat \ {0} /\ e.count \in Nat \ {0} /\ RowsBefore(entry) \in Nat
      /\ e.word \in Words /\ e.cpos \in Nat \ {0} /\ e.cpos \in DOMAIN walk[e.word]
  BY <1>3, StateFacts DEF IInv, ScanFaithful
<1>5. n \in Nat \ {0} /\ rows_available \in 1 .. Rows /\ Rows \in Nat \ {0} /\ left \in Nat
  BY <1>2, <1>4, StateFacts DEF IInv, TypeOK
<1>6. l = [word |-> e.word, cpos |-> e.cpos, skip |-> e.count - left]
  BY DEF Locator, Skip
<1>7. e.count - left \in 1 .. e.count
  BY <1>3, <1>4, <1>5
<1>8. l \in Locators
  BY <1>4, <1>6, <1>7 DEF Locators
<1>9. Consumed = RowsBefore(entry) + e.count - count
  BY <1>2, <1>4 DEF Consumed
<1>10. Consumed = (n - 1) * Rows + (Rows - rows_available)
  BY <1>2 DEF IInv, RowsAddUp
<1>11. (n - 1) * Rows = n * Rows - Rows /\ n * Rows \in Nat
  BY <1>5
<1>12. RowsBefore(entry) + (e.count - left) = n * Rows
  <2> DEFINE m == n * Rows
             before == RowsBefore(entry)
             c == e.count
  <2>1. before + c - count = (m - Rows) + (Rows - rows_available) /\ m \in Nat
    BY <1>9, <1>10, <1>11
  <2>2. before \in Nat /\ c \in Nat /\ rows_available \in Nat /\ count \in Nat /\ Rows \in Nat
    BY <1>4, <1>5
  <2> HIDE DEF before, c, m
  <2>3. before + (c - (count - rows_available)) = m
    BY <2>1, <2>2
  <2> QED
    BY <2>3 DEF before, c, m
<1> HIDE DEF l
<1>13. /\ locators' \in Seq(Locators) /\ Len(locators') = n + 1
       /\ \A i \in 1 .. n : locators'[i] = locators[i]
       /\ locators'[n + 1] = l
       /\ locators' # <<>>
  BY <1>2, <1>8 DEF IInv, PlansTyped
<1>14. /\ entry' \in 1 .. Len(scan) + 1
       /\ entry' <= Len(scan) => count' \in 1 .. scan[entry'].count
       /\ Consumed' = n * Rows
  <2>1. CASE left > 0
    <3>1. entry' = entry /\ count' = left /\ left \in 1 .. e.count
      BY <1>2, <1>3, <1>4, <1>5, <2>1
    <3>2. Consumed' = RowsBefore(entry) + (e.count - left)
      BY <1>1, <1>2, <3>1 DEF Consumed, RowsBefore, RowCounts
    <3> QED
      BY <1>3, <1>12, <3>1, <3>2, StateFacts
  <2>2. CASE ~(left > 0)
    <3>1. Advance /\ left = 0
      BY <1>2, <1>5, <2>2
    <3>2. /\ entry' \in 1 .. Len(scan) + 1
          /\ entry' <= Len(scan) => count' \in 1 .. scan[entry'].count
          /\ Consumed' = RowsBefore(entry) + e.count
      BY <1>1, <1>2, <3>1, AdvanceConsumes
    <3> QED
      BY <1>4, <1>12, <3>1, <3>2
  <2> QED
    BY <2>1, <2>2
<1>15. TypeOK'
  <2>1. Len(segments) <= Len(locators')
    BY <1>5, <1>13 DEF IInv, TypeOK, PlansTyped
  <2>2. \A i \in 1 .. n + 1 :
          /\ locators'[i].word \in Words
          /\ locators'[i].cpos \in DOMAIN walk[locators'[i].word]
          /\ locators'[i].skip \in Nat
    <3>1. \A i \in 1 .. n : /\ locators[i].word \in Words
                            /\ locators[i].cpos \in DOMAIN walk[locators[i].word]
                            /\ locators[i].skip \in Nat
      BY StateFacts DEF IInv, TypeOK
    <3>2. \A i \in 1 .. n + 1 : i \in 1 .. n \/ i = n + 1
      BY <1>5
    <3>3. l.word \in Words /\ l.cpos \in DOMAIN walk[l.word] /\ l.skip \in Nat
      BY <1>4, <1>6, <1>7
    <3> QED
      BY <1>13, <3>1, <3>2, <3>3
  <2>3. DOMAIN locators' = 1 .. n + 1
    BY <1>13
  <2>4. rows_available' \in 1 .. Rows
    BY <1>1, <1>5
  <2> QED
    BY <1>1, <1>14, <2>1, <2>2, <2>3, <2>4 DEF IInv, TypeOK
<1>16. PlansTyped'
  BY <1>1, <1>13 DEF IInv, PlansTyped
<1>17. RowsAddUp'
  <2>1. (Len(locators') - 1) * Rows + (Rows - rows_available') = n * Rows
    BY <1>1, <1>5, <1>11, <1>13
  <2> QED
    BY <1>13, <1>14, <2>1 DEF RowsAddUp
<1>18. FirstLocator'
  <2>1. ~completed
    BY <1>3, StateFacts DEF IInv, FirstLocator
  <2>2. locators'[1] = locators[1]
    BY <1>5, <1>13
  <2> QED
    BY <1>1, <1>2, <2>1, <2>2 DEF IInv, FirstLocator
<1>19. LocatorsOnBoundaries'
  <2> SUFFICES ASSUME NEW k \in 1 .. n
               PROVE  \E i \in DOMAIN scan :
                        /\ locators'[k + 1].word = scan[i].word
                        /\ locators'[k + 1].cpos = scan[i].cpos
                        /\ locators'[k + 1].skip \in 1 .. scan[i].count
                        /\ RowsBefore(i) + locators'[k + 1].skip = k * Rows
    BY <1>1, <1>5, <1>13, ScanStays DEF LocatorsOnBoundaries
  <2>1. CASE k = n
    <3>1. entry \in DOMAIN scan
      BY <1>3, StateFacts
    <3> QED
      BY <1>6, <1>7, <1>12, <1>13, <2>1, <3>1
  <2>2. CASE k # n
    <3>1. k \in 1 .. n - 1 /\ locators'[k + 1] = locators[k + 1]
      BY <1>5, <1>13, <2>2
    <3> QED
      BY <3>1 DEF IInv, LocatorsOnBoundaries
  <2> QED
    BY <2>1, <2>2
<1>20. NoPlannerError'
  BY <1>1 DEF IInv, NoPlannerError
<1> QED
  BY <1>1, <1>15, <1>16, <1>17, <1>18, <1>19, <1>20, ScanStays DEF IInv

(* The end of the scan.                                                    *)
LEMMA SetCompletedIInv ==
  ASSUME IInv, SetCompleted
  PROVE  IInv'
<1>1. /\ UNCHANGED <<walk, scan, entry, count, rows_available, locators, segments, errors>>
      /\ entry > Len(scan) /\ completed'
  BY DEF SetCompleted
<1>2. TypeOK' /\ PlansTyped'
  BY <1>1 DEF IInv, TypeOK, PlansTyped, SetCompleted
<1>3. RowsAddUp'
  BY <1>1, ScanStays DEF IInv, RowsAddUp, Consumed, RowsBefore, RowCounts
<1>4. FirstLocator' /\ LocatorsOnBoundaries' /\ NoPlannerError'
  BY <1>1, ScanStays DEF IInv, FirstLocator, LocatorsOnBoundaries, NoPlannerError
<1> QED
  BY <1>1, <1>2, <1>3, <1>4, ScanStays DEF IInv

-----------------------------------------------------------------------------
(* The segment planners                                                    *)

(* A planner finds an entry at its locator, with no more rows to skip than *)
(* the entry has.                                                          *)
LEMMA LocatorFindsEntry ==
  ASSUME IInv, NEW k \in 0 .. Len(locators) - 1
  PROVE  LET l == locators[k + 1]
         IN  /\ \E i \in 1 .. Len(scan) :
                  /\ scan[i].word = l.word /\ scan[i].cpos = FirstRank(k, l)
                  /\ k = 0 => i = 1 /\ FirstSkip(k, l) = 0
                  /\ k # 0 => /\ FirstSkip(k, l) \in 1 .. scan[i].count
                             /\ RowsBefore(i) + FirstSkip(k, l) = k * Rows
             /\ ~PrintsError(k, l)
<1> DEFINE l == locators[k + 1]
           Found(i) == /\ scan[i].word = l.word /\ scan[i].cpos = FirstRank(k, l)
                       /\ k = 0 => i = 1 /\ FirstSkip(k, l) = 0
                       /\ k # 0 => /\ FirstSkip(k, l) \in 1 .. scan[i].count
                                  /\ RowsBefore(i) + FirstSkip(k, l) = k * Rows
<1>1. ASSUME NEW i \in 1 .. Len(scan), scan[i].word = l.word
      PROVE  /\ walk[l.word] # <<>> /\ scan[i].count = walk[l.word][scan[i].cpos].count
             /\ ResumesInside(k, l) <=> k # 0
  <2>1. scan[i].cpos \in DOMAIN walk[l.word]
    BY <1>1, StateFacts DEF IInv, ScanFaithful
  <2>2. DOMAIN <<>> = {}
    OBVIOUS
  <2>3. walk[l.word] # <<>>
    BY <2>1, <2>2
  <2>4. scan[i].count = walk[l.word][scan[i].cpos].count
    BY <1>1, StateFacts DEF IInv, ScanFaithful
  <2> HIDE DEF l
  <2> QED
    BY <2>3, <2>4 DEF ResumesInside
<1>2. \E i \in 1 .. Len(scan) : Found(i)
  <2>1. CASE k = 0
    <3>1. locators # <<>> /\ 1 \in 1 .. Len(scan) /\ scan[1].word = l.word /\ scan[1].cpos = 1
      BY <2>1, StateFacts DEF IInv, FirstLocator, ScanFaithful
    <3>2. ~ResumesInside(k, l)
      BY <1>1, <2>1, <3>1
    <3> HIDE DEF l
    <3>3. FirstRank(k, l) = 1 /\ FirstSkip(k, l) = 0
      BY <3>2 DEF FirstRank, FirstSkip
    <3> QED
      BY <2>1, <3>1, <3>3
  <2>2. CASE k # 0
    <3>1. k \in 1 .. Len(locators) - 1
      BY <2>2, StateFacts
    <3>2. PICK i \in 1 .. Len(scan) : /\ l.word = scan[i].word
                                      /\ l.cpos = scan[i].cpos
                                      /\ l.skip \in 1 .. scan[i].count
                                      /\ RowsBefore(i) + l.skip = k * Rows
      BY <3>1, StateFacts DEF IInv, LocatorsOnBoundaries
    <3>3. ResumesInside(k, l)
      BY <1>1, <2>2, <3>2
    <3> HIDE DEF l
    <3>4. FirstRank(k, l) = l.cpos /\ FirstSkip(k, l) = l.skip
      BY <3>3 DEF FirstRank, FirstSkip
    <3> QED
      BY <2>2, <3>2, <3>4
  <2> QED
    BY <2>1, <2>2
<1>3. PICK i \in 1 .. Len(scan) : Found(i)
  BY <1>2
<1>4. ~(FirstSkip(k, l) > scan[i].count)
  <2>1. scan[i].count \in Nat
    BY StateFacts
  <2>2. FirstSkip(k, l) = 0 \/ FirstSkip(k, l) \in 1 .. scan[i].count
    BY <1>3
  <2> HIDE DEF l
  <2> QED
    BY <2>1, <2>2
<1>5. /\ walk[l.word] # <<>> /\ scan[i].count = walk[l.word][FirstRank(k, l)].count
  BY <1>1, <1>3
<1> HIDE DEF l
<1>6. ~PrintsError(k, l)
  BY <1>4, <1>5 DEF PrintsError
<1> QED
  BY <1>2, <1>6 DEF l

(* One more segment.                                                       *)
LEMMA ExecuteFromLocatorIInv ==
  ASSUME IInv, ExecuteFromLocator
  PROVE  IInv'
<1> DEFINE id == Len(segments)
           l == locators[id + 1]
           S == {segments[i] : i \in DOMAIN segments}
           b == Build(id, l)
<1>1. UNCHANGED <<walk, scan, entry, count, rows_available, locators, completed>>
  BY DEF ExecuteFromLocator
<1>2. /\ id < Len(locators) /\ segments' = Append(segments, b)
      /\ errors' = errors + IF PrintsError(id, l) THEN 1 ELSE 0
  BY DEF ExecuteFromLocator
<1>3. segments \in Seq(S) /\ id \in Nat
  BY DEF IInv, PlansTyped
<1>4. errors' = errors /\ errors = 0
  <2>1. id \in 0 .. Len(locators) - 1
    BY <1>2, <1>3, StateFacts
  <2>2. ~PrintsError(id, l)
    BY <2>1, LocatorFindsEntry
  <2> QED
    BY <1>2, <2>2 DEF IInv, NoPlannerError
<1> HIDE DEF b
<1>5. segments' \in Seq({segments'[i] : i \in DOMAIN segments'}) /\ Len(segments') = id + 1
  <2>1. LET t == Append(segments, b)
        IN  t \in Seq({t[i] : i \in DOMAIN t}) /\ Len(t) = id + 1
    BY <1>3, AppendIsSeq
  <2> QED
    BY <1>2, <2>1
<1>6. Len(segments') <= Len(locators)
  BY <1>2, <1>3, <1>5, StateFacts
<1>7. TypeOK' /\ PlansTyped'
  BY <1>1, <1>4, <1>5, <1>6 DEF IInv, TypeOK, PlansTyped
<1>8. RowsAddUp'
  BY <1>1, ScanStays DEF IInv, RowsAddUp, Consumed, RowsBefore, RowCounts
<1>9. FirstLocator' /\ LocatorsOnBoundaries' /\ NoPlannerError'
  BY <1>1, <1>4, ScanStays DEF IInv, FirstLocator, LocatorsOnBoundaries, NoPlannerError
<1> QED
  BY <1>1, <1>7, <1>8, <1>9, ScanStays DEF IInv


-----------------------------------------------------------------------------
(* Every step of the planners keeps the inductive invariant.               *)
LEMMA NextIInv ==
  ASSUME IInv, [Next]_vars
  PROVE  IInv'
<1>1. CASE PushFirstLocator
  BY <1>1, PushFirstLocatorIInv
<1>2. CASE ConsumeEntry
  BY <1>2, ConsumeEntryIInv
<1>3. CASE PushLocator
  BY <1>3, PushLocatorIInv
<1>4. CASE SetCompleted
  BY <1>4, SetCompletedIInv
<1>5. CASE ExecuteFromLocator
  BY <1>5, ExecuteFromLocatorIInv
<1>6. CASE UNCHANGED vars
  BY <1>6 DEF vars, IInv, TypeOK, ScanFaithful, PlansTyped, RowsAddUp, Consumed,
              RowsBefore, RowCounts, FirstLocator, LocatorsOnBoundaries, NoPlannerError
<1>7. CASE Finished
  BY <1>6, <1>7 DEF Finished
<1> QED
  BY <1>1, <1>2, <1>3, <1>4, <1>5, <1>6, <1>7 DEF Next

(* The inductive invariant holds in every state.                           *)
LEMMA Invariance == Spec => []IInv
<1>1. Init => IInv
  BY InitIInv
<1>2. IInv /\ [Next]_vars => IInv'
  BY NextIInv
<1> QED
  BY <1>1, <1>2, PTL DEF Spec

(* The state of the RAM planners is well-typed: what is left of an entry   *)
(* and of a segment while generate_locators runs is never zero.            *)
THEOREM RamTypeCorrect == Spec => []TypeOK
<1>1. IInv => TypeOK
  BY DEF IInv
<1> QED
  BY <1>1, Invariance, PTL

(* generate_locators marks every multiple of `rows' rows, and only those,  *)
(* for any tables: locator k is at row k * rows of the list of rows.       *)
THEOREM RamLocatorsOnBoundaries == Spec => []LocatorsOnBoundaries
<1>1. IInv => LocatorsOnBoundaries
  BY DEF IInv
<1> QED
  BY <1>1, Invariance, PTL

(* execute_from_locator never comes to its two error messages.             *)
THEOREM RamNoPlannerError == Spec => []NoPlannerError
<1>1. IInv => NoPlannerError
  BY DEF IInv
<1> QED
  BY <1>1, Invariance, PTL

(* The plan has a segment for every `rows' rows of the list and one for    *)
(* what is left.                                                           *)
LEMMA CompletePlanCovers ==
  ASSUME IInv
  PROVE  PlanCoversScan
<1> SUFFICES ASSUME PlanComplete
             PROVE  Len(segments) = IF TotalRows = 0 THEN 0 ELSE TotalRows \div Rows + 1
  BY DEF PlanCoversScan
<1>1. completed /\ Len(segments) = Len(locators)
  BY DEF PlanComplete
<1>2. entry = Len(scan) + 1 /\ Len(scan) \in Nat
  <2>1. entry > Len(scan) /\ entry \in 1 .. Len(scan) + 1
    BY <1>1 DEF IInv, FirstLocator, TypeOK
  <2> QED
    BY <2>1, StateFacts
<1>3. TotalRows = Consumed /\ TotalRows \in Nat
  <2>1. Consumed = RowsBefore(Len(scan) + 1) + 0
    BY <1>2 DEF Consumed
  <2>2. Len(scan) + 1 \in 1 .. Len(scan) + 1
    BY <1>2
  <2>3. RowsBefore(Len(scan) + 1) \in Nat
    BY <2>2, RowsBeforeDef DEF IInv, TypeOK
  <2> QED
    BY <2>1, <2>3 DEF TotalRows
<1>4. CASE locators = <<>>
  <2>1. scan = <<>> /\ Len(scan) = 0
    BY <1>2, <1>4 DEF IInv, RowsAddUp, TypeOK
  <2>2. TotalRows = 0
    BY <2>1, RowsBeforeDef DEF TotalRows, IInv, TypeOK
  <2> QED
    BY <1>1, <1>4, <2>2
<1>5. CASE locators # <<>>
  <2> DEFINE n == Len(locators) - 1
             rest == Rows - rows_available
             total == TotalRows
  <2>1. n \in Nat /\ rest \in 0 .. Rows - 1 /\ Rows \in Nat \ {0}
    BY <1>5, StateFacts DEF IInv, TypeOK
  <2>2. total = n * Rows + rest
    BY <1>3, <1>5 DEF IInv, RowsAddUp
  <2>3. total \div Rows = n
    <3> HIDE DEF n, rest, total
    <3> QED
      BY <2>1, <2>2
  <2>4. total # 0
    <3>1. 1 \in 1 .. Len(scan)
      BY <1>2, <1>5 DEF IInv, FirstLocator, TypeOK
    <3>2. RowsBefore(2) \in Nat \ {0}
      <4>1. RowsBefore(1 + 1) = RowsBefore(1) + scan[1].count /\ RowsBefore(1) \in Nat
              /\ scan[1].count \in Nat \ {0}
        BY <3>1, StateFacts
      <4>2. 1 + 1 = 2
        OBVIOUS
      <4> QED
        BY <4>1, <4>2
    <3>3. RowsBefore(2) <= RowsBefore(Len(scan) + 1)
      BY <1>2, <3>1, RowsBeforeMonotone DEF IInv, TypeOK
    <3> DEFINE two == RowsBefore(2)
    <3>4. two <= total /\ two \in Nat \ {0} /\ total \in Nat
      BY <1>3, <3>2, <3>3 DEF TotalRows
    <3> HIDE DEF two, total
    <3> QED
      BY <3>4
  <2>5. Len(locators) = n + 1
    BY <2>1, StateFacts
  <2> HIDE DEF n, total
  <2>6. Len(segments) = IF total = 0 THEN 0 ELSE total \div Rows + 1
    BY <1>1, <2>3, <2>4, <2>5
  <2> QED
    BY <2>6 DEF total
<1> QED
  BY <1>4, <1>5

(* When quick planner and segment planners are through, the plan covers    *)
(* the scan.                                                               *)
THEOREM RamPlanCoversScan == Spec => []PlanCoversScan
<1>1. IInv => PlanCoversScan
  BY CompletePlanCovers
<1> QED
  BY <1>1, Invariance, PTL

-----------------------------------------------------------------------------
(* Slices                                                                  *)

(* The rows of an entry in a slice, by the numbers of its rows.            *)
LEMMA RowsInSliceIs ==
  ASSUME IInv, NEW k \in Nat, NEW i \in 1 .. Len(scan), NEW lo \in Nat, lo = k * Rows
  PROVE  LET a == RowsBefore(i)
             b == RowsUpTo(i)
         IN  /\ a \in Nat /\ b \in Nat /\ a < b /\ b = RowsBefore(i + 1)
             /\ RowsInSlice(i, k) =
                  IF b <= lo \/ a >= lo + Rows THEN 0
                  ELSE Least(b, lo + Rows) - (IF a < lo THEN lo ELSE a)
             /\ i \in InSlice(k) <=> (k > 0 /\ b = lo) \/ (b > lo /\ a < lo + Rows)
<1> DEFINE a == RowsBefore(i)
           b == RowsUpTo(i)
           from == Max({a, k * Rows})
           to == Min({b, (k + 1) * Rows})
           rows == RowsInSlice(i, k)
<1>1. a \in Nat /\ b \in Nat /\ a < b /\ b = RowsBefore(i + 1) /\ Rows \in Nat \ {0}
  <2>1. a \in Nat /\ scan[i].count \in Nat \ {0} /\ Rows \in Nat \ {0}
    BY StateFacts
  <2>2. b = a + scan[i].count /\ b = RowsBefore(i + 1)
    BY StateFacts DEF RowsUpTo
  <2> HIDE DEF a, b
  <2> QED
    BY <2>1, <2>2
<1>2. (k + 1) * Rows = lo + Rows
  BY <1>1
<1>3. rows = IF from < to THEN to - from ELSE 0
  BY DEF RowsInSlice
<1>4. i \in InSlice(k) <=> rows > 0 \/ (k > 0 /\ b = lo)
  BY StateFacts DEF InSlice
<1> HIDE DEF a, b, rows
<1>5. from = (IF a < lo THEN lo ELSE a) /\ to = Least(b, lo + Rows)
  <2>1. PICK hi \in Nat : hi = lo + Rows
    BY <1>1
  <2>2. from = Max({a, lo}) /\ to = Min({b, hi})
    BY <1>2, <2>1
  <2>3. from = (IF a < lo THEN lo ELSE a) /\ to = (IF b < hi THEN b ELSE hi)
    BY <1>1, <2>2, MaxMinPair
  <2> QED
    BY <2>1, <2>3 DEF Least
<1> HIDE DEF from, to
<1>6. rows = IF b <= lo \/ a >= lo + Rows THEN 0
             ELSE Least(b, lo + Rows) - (IF a < lo THEN lo ELSE a)
  BY <1>1, <1>3, <1>5 DEF Least
<1>7. i \in InSlice(k) <=> (k > 0 /\ b = lo) \/ (b > lo /\ a < lo + Rows)
  BY <1>1, <1>4, <1>6 DEF Least
<1> QED
  BY <1>1, <1>6, <1>7 DEF a, b, rows

(* Slice k begins behind `skip' rows of entry s.                           *)
BeginsAt(k, s, skip) ==
  /\ s \in 1 .. Len(scan)
  /\ skip \in 0 .. scan[s].count
  /\ RowsBefore(s) + skip = k * Rows
  /\ k = 0 => s = 1 /\ skip = 0
  /\ k # 0 => skip # 0

(* Which entries are in the slice, and with how many rows.                 *)
LEMMA SliceEntries ==
  ASSUME IInv, NEW k \in Nat, NEW s, NEW skip, BeginsAt(k, s, skip),
         NEW lo \in Nat, lo = k * Rows
  PROVE  /\ \A i \in 1 .. s - 1 : i \notin InSlice(k)
         /\ s \in InSlice(k)
         /\ RowsInSlice(s, k) = Least(RowsUpTo(s), lo + Rows) - lo
         /\ RowsInSlice(s, k) = Least(scan[s].count - skip, Rows)
         /\ \A i \in s + 1 .. Len(scan) :
              /\ RowsBefore(i) >= lo
              /\ i \in InSlice(k) <=> RowsBefore(i) < lo + Rows
              /\ RowsBefore(i) < lo + Rows =>
                   RowsInSlice(i, k) = Least(RowsUpTo(i), lo + Rows) - RowsBefore(i)
<1> DEFINE a == RowsBefore(s)
           b == RowsUpTo(s)
           m == scan[s].count
           rows == RowsInSlice(s, k)
<1>1. /\ s \in 1 .. Len(scan) /\ Len(scan) \in Nat /\ skip \in 0 .. m /\ a + skip = lo
      /\ k = 0 => s = 1 /\ skip = 0
      /\ k # 0 => skip # 0
      /\ Rows \in Nat \ {0} /\ m \in Nat \ {0}
  BY StateFacts DEF BeginsAt
<1>2. /\ a \in Nat /\ b = a + m /\ b = RowsBefore(s + 1)
      /\ rows = IF b <= lo \/ a >= lo + Rows THEN 0
                ELSE Least(b, lo + Rows) - (IF a < lo THEN lo ELSE a)
      /\ s \in InSlice(k) <=> (k > 0 /\ b = lo) \/ (b > lo /\ a < lo + Rows)
  BY <1>1, RowsInSliceIs DEF RowsUpTo
<1> HIDE DEF a, b, m, rows
<1>3. s \in InSlice(k) /\ rows = Least(b, lo + Rows) - lo /\ rows = Least(m - skip, Rows)
  BY <1>1, <1>2 DEF Least
<1>4. ASSUME NEW i \in 1 .. s - 1 PROVE i \notin InSlice(k)
  <2>1. i \in 1 .. Len(scan) /\ s \in i + 1 .. Len(scan) + 1 /\ i + 1 \in 1 .. Len(scan) + 1 /\ s # 1
    BY <1>1
  <2>2. RowsUpTo(i) <= a
    <3>1. RowsUpTo(i) = RowsBefore(i + 1)
      BY <2>1, RowsInSliceIs
    <3>2. scan \in Seq(Entries) /\ s \in i + 1 .. Len(scan) + 1
      BY <2>1 DEF IInv, TypeOK
    <3>3. RowsBefore(i + 1) <= RowsBefore(s)
      BY <2>1, <3>2, RowsBeforeMonotone
    <3> QED
      BY <3>1, <3>3 DEF a
  <2>3. RowsUpTo(i) < lo /\ RowsUpTo(i) \in Nat
    <3>1. RowsUpTo(i) \in Nat /\ a < lo
      BY <1>1, <1>2, <2>1, RowsInSliceIs
    <3> QED
      BY <1>2, <2>2, <3>1
  <2>4. i \in InSlice(k) <=> (k > 0 /\ RowsUpTo(i) = lo) \/ (RowsUpTo(i) > lo /\ RowsBefore(i) < lo + Rows)
    BY <2>1, RowsInSliceIs
  <2> QED
    BY <2>3, <2>4
<1>5. ASSUME NEW i \in s + 1 .. Len(scan)
      PROVE  /\ RowsBefore(i) >= lo
             /\ i \in InSlice(k) <=> RowsBefore(i) < lo + Rows
             /\ RowsBefore(i) < lo + Rows =>
                  RowsInSlice(i, k) = Least(RowsUpTo(i), lo + Rows) - RowsBefore(i)
  <2> DEFINE c == RowsBefore(i)
             d == RowsUpTo(i)
             r == RowsInSlice(i, k)
  <2>1. i \in 1 .. Len(scan) /\ i \in s + 1 .. Len(scan) + 1 /\ s + 1 \in 1 .. Len(scan) + 1
    BY <1>1
  <2>2. b <= c
    BY <1>2, <2>1, RowsBeforeMonotone DEF IInv, TypeOK
  <2>3. /\ c \in Nat /\ d \in Nat /\ c < d
        /\ r = IF d <= lo \/ c >= lo + Rows THEN 0
               ELSE Least(d, lo + Rows) - (IF c < lo THEN lo ELSE c)
        /\ i \in InSlice(k) <=> (k > 0 /\ d = lo) \/ (d > lo /\ c < lo + Rows)
    BY <2>1, RowsInSliceIs
  <2> HIDE DEF c, d, r
  <2>4. c >= lo
    BY <1>1, <1>2, <2>2, <2>3
  <2>5. i \in InSlice(k) <=> c < lo + Rows
    BY <1>1, <2>3, <2>4
  <2>6. c < lo + Rows => r = Least(d, lo + Rows) - c
    BY <1>1, <2>3, <2>4
  <2> QED
    BY <2>4, <2>5, <2>6 DEF c, d, r
<1> QED
  BY <1>3, <1>4, <1>5 DEF a, b, m, rows

(* The planner's loops compute what Filling says.                          *)
LEMMA FillingDef ==
  ASSUME NEW entries, NEW s \in Nat, NEW L \in Nat, L = Len(entries), s <= L, NEW skip
  PROVE  LET plan == Filling(entries, s, skip)
         IN  /\ plan[s] = AddChunk([segment |-> NoSegment, available |-> Rows], entries[s], skip)
             /\ \A n \in s + 1 .. L :
                  plan[n] = IF plan[n - 1].available = 0 THEN plan[n - 1]
                            ELSE AddChunk(plan[n - 1], entries[n], 0)
<1> DEFINE first == AddChunk([segment |-> NoSegment, available |-> Rows], entries[s], skip)
           after(p, n) == IF p.available = 0 THEN p ELSE AddChunk(p, entries[n], 0)
           Body(f, m) == [n \in s .. m |-> IF n = s
                            THEN AddChunk([segment |-> NoSegment, available |-> Rows],
                                          entries[n], skip)
                            ELSE IF f[n - 1].available = 0 THEN f[n - 1]
                                 ELSE AddChunk(f[n - 1], entries[n], 0)]
           T == {m \in s .. L : \E f : f = Body(f, m)}
           plan == Filling(entries, s, skip)
<1>1. s \in T
  <2> DEFINE f == [n \in s .. s |-> AddChunk([segment |-> NoSegment, available |-> Rows],
                                             entries[n], skip)]
  <2>1. f = Body(f, s)
    OBVIOUS
  <2> HIDE DEF f
  <2> QED
    BY <2>1
<1>2. ASSUME NEW m \in s .. L - 1, m \in T PROVE m + 1 \in T
  <2>1. PICK f : f = Body(f, m)
    BY <1>2
  <2> DEFINE last == after(f[m], m + 1)
             g == [n \in s .. m + 1 |-> IF n <= m THEN f[n] ELSE last]
             h == Body(g, m + 1)
  <2>2. \A n \in s .. m + 1 : n = m + 1 \/ n \in s .. m
    OBVIOUS
  <2>3. \A n \in s .. m : n <= m /\ n \in s .. m + 1
    OBVIOUS
  <2>4. m \in s .. m /\ m + 1 \in s .. m + 1 /\ ~(m + 1 <= m) /\ (m + 1) - 1 = m /\ m + 1 # s
    OBVIOUS
  <2>5. \A n \in s .. m : n # s => n - 1 \in s .. m
    OBVIOUS
  <2>6. g[m + 1] = last /\ \A n \in s .. m : g[n] = f[n]
    BY <2>3, <2>4
  <2>7. ASSUME NEW n \in s .. m PROVE h[n] = g[n]
    <3>1. f[n] = Body(f, m)[n]
      BY <2>1
    <3>2. n \in s .. m + 1 /\ g[n] = f[n] /\ (n # s => g[n - 1] = f[n - 1])
      BY <2>3, <2>5, <2>6
    <3> HIDE DEF g
    <3> QED
      BY <3>1, <3>2
  <2>8. h[m + 1] = g[m + 1]
    <3>1. g[m] = f[m]
      BY <2>4, <2>6
    <3> HIDE DEF g
    <3> QED
      BY <2>4, <2>6, <3>1
  <2>9. g = h
    <3>1. \A n \in s .. m + 1 : g[n] = h[n]
      BY <2>2, <2>7, <2>8
    <3>2. h = [n \in s .. m + 1 |-> h[n]] /\ g = [n \in s .. m + 1 |-> g[n]]
      OBVIOUS
    <3> HIDE DEF g, h
    <3> QED
      BY <3>1, <3>2
  <2>10. m + 1 \in s .. L
    OBVIOUS
  <2> HIDE DEF g
  <2> QED
    BY <2>9, <2>10
<1>3. \A m \in s .. L : m \in T
  <2>1. s \in Int /\ L \in Int
    OBVIOUS
  <2> HIDE DEF T
  <2> QED
    BY <1>1, <1>2, <2>1, IntervalInduction
<1>4. \E f : f = Body(f, L)
  <2>1. L \in s .. L
    OBVIOUS
  <2> QED
    BY <1>3, <2>1
<1>5. plan = Body(plan, L)
  <2>1. plan = CHOOSE f : f = Body(f, L)
    BY DEF Filling
  <2> HIDE DEF plan
  <2> QED
    BY <1>4, <2>1
<1> HIDE DEF plan
<1>6. plan[s] = AddChunk([segment |-> NoSegment, available |-> Rows], entries[s], skip)
  <2>1. s \in s .. L
    OBVIOUS
  <2> QED
    BY <1>5, <2>1
<1>7. ASSUME NEW n \in s + 1 .. L
      PROVE  plan[n] = IF plan[n - 1].available = 0 THEN plan[n - 1]
                       ELSE AddChunk(plan[n - 1], entries[n], 0)
  <2>1. n \in s .. L /\ n # s
    OBVIOUS
  <2>2. plan[n] = Body(plan, L)[n]
    BY <1>5
  <2> QED
    BY <2>1, <2>2
<1> QED
  BY <1>6, <1>7 DEF plan

(* The entries of the slice up to the n-th of the scan, and those of a     *)
(* chunk among them.                                                       *)
Gone(k, n) == {i \in InSlice(k) : i <= n}
Mine(k, c, n) == {i \in Gone(k, n) : scan[i].chunk = c}

(* The rows of the slice that are of a chunk, entry by entry.              *)
ChunkRows(k, c) ==
  [i \in DOMAIN scan |->
     IF i \in InSlice(k) /\ scan[i].chunk = c THEN RowsInSlice(i, k) ELSE 0]

(* The check point of a chunk that has come to the segment with entry f,   *)
(* and was there last with entry g.                                        *)
CheckPointOf(k, c, f, g, n) ==
  [from_addr  |-> scan[f].word,
   from_skip  |-> IF k * Rows > RowsBefore(f) THEN k * Rows - RowsBefore(f) ELSE 0,
   from_count |-> RowsInSlice(f, k),
   to_addr    |-> scan[g].word,
   to_count   |-> RowsInSlice(g, k),
   count      |-> RunningTotal(ChunkRows(k, c))[n],
   debug_row  |-> RowOf(k, f)]

(* The segment has what the slice has up to entry n.                       *)
Recorded(k, n, chunks) ==
  /\ chunks = [c \in DOMAIN chunks |-> chunks[c]]
  /\ DOMAIN chunks = {scan[i].chunk : i \in Gone(k, n)}
  /\ \A c \in DOMAIN chunks :
       \E f, g : /\ Smallest(f, Mine(k, c, n)) /\ Largest(g, Mine(k, c, n))
                 /\ chunks[c] = CheckPointOf(k, c, f, g, n)

Filled(k, s, n, plan) ==
  LET hi   == k * Rows + Rows
      upto == Least(RowsUpTo(n), hi)
  IN  /\ plan.available = hi - upto
      /\ plan.segment.tot_count = (upto - k * Rows) + RowsInSlice(s, k)
      /\ Recorded(k, n, plan.segment.chunks)

(* The rows of a chunk grow with its entries.                              *)
LEMMA ChunkRowsGrow ==
  ASSUME IInv, NEW k \in Nat, NEW c
  PROVE  /\ ChunkRows(k, c) \in Seq(Nat) /\ Len(ChunkRows(k, c)) = Len(scan)
         /\ \A i \in 1 .. Len(scan) :
              ChunkRows(k, c)[i] =
                IF i \in InSlice(k) /\ scan[i].chunk = c THEN RowsInSlice(i, k) ELSE 0
         /\ \A n \in 1 .. Len(scan) :
              /\ RunningTotal(ChunkRows(k, c))[n - 1] \in Nat
              /\ RunningTotal(ChunkRows(k, c))[n] =
                   RunningTotal(ChunkRows(k, c))[n - 1] + ChunkRows(k, c)[n]
         /\ \A n \in 0 .. Len(scan) :
              (\A i \in 1 .. n : ChunkRows(k, c)[i] = 0) => RunningTotal(ChunkRows(k, c))[n] = 0
<1> DEFINE w == ChunkRows(k, c)
           L == Len(scan)
<1>1. L \in Nat /\ DOMAIN scan = 1 .. L
  BY StateFacts
<1>2. PICK lo \in Nat : lo = k * Rows
  BY StateFacts
<1>3. ASSUME NEW i \in 1 .. L PROVE RowsInSlice(i, k) \in Nat
  <2>1. PICK a, b, r : a = RowsBefore(i) /\ b = RowsUpTo(i) /\ r = RowsInSlice(i, k)
    OBVIOUS
  <2>2. /\ a \in Nat /\ b \in Nat /\ a < b
        /\ r = IF b <= lo \/ a >= lo + Rows THEN 0
               ELSE Least(b, lo + Rows) - (IF a < lo THEN lo ELSE a)
    BY <1>2, <2>1, RowsInSliceIs
  <2>3. Rows \in Nat
    BY StateFacts
  <2>4. r \in Nat
    BY <2>2, <2>3 DEF Least
  <2> QED
    BY <2>1, <2>4
<1>4. \A i \in 1 .. L :
        w[i] = IF i \in InSlice(k) /\ scan[i].chunk = c THEN RowsInSlice(i, k) ELSE 0
  BY <1>1 DEF ChunkRows
<1>5. w \in [1 .. L -> Nat]
  <2>1. w = [i \in 1 .. L |-> w[i]]
    BY <1>1 DEF ChunkRows
  <2>2. \A i \in 1 .. L : w[i] \in Nat
    BY <1>3, <1>4
  <2> HIDE DEF w
  <2> QED
    BY <2>1, <2>2
<1> HIDE DEF w, L
<1>6. w \in Seq(Nat) /\ Len(w) = L
  BY <1>1, <1>5, FunctionIsSeq
<1>7. \A n \in 1 .. L : RunningTotal(w)[n - 1] \in Nat /\ RunningTotal(w)[n] = RunningTotal(w)[n - 1] + w[n]
  BY <1>6, RunningTotalStep
<1>8. \A n \in 0 .. L : (\A i \in 1 .. n : w[i] = 0) => RunningTotal(w)[n] = 0
  BY <1>6, RunningTotalOfZeros
<1> QED
  BY <1>4, <1>6, <1>7, <1>8 DEF w, L

(* A check point of a chunk that is new in a segment, and one that is not. *)
LEMMA SegmentGrows ==
  ASSUME NEW segment, NEW c, NEW addr, NEW skip, NEW n
  PROVE  LET t == AddOrUpdate(segment, c, addr, skip, n)
         IN  /\ t = [chunks |-> t.chunks, tot_count |-> segment.tot_count + n]
             /\ t.tot_count = segment.tot_count + n
             /\ t.chunks = [x \in DOMAIN t.chunks |-> t.chunks[x]]
             /\ DOMAIN t.chunks = DOMAIN segment.chunks \cup {c}
             /\ \A x \in DOMAIN segment.chunks : x # c => t.chunks[x] = segment.chunks[x]
             /\ t.chunks[c] = IF c \in DOMAIN segment.chunks
                                THEN AddRows(segment.chunks[c], addr, n)
                                ELSE CheckPoint(addr, skip, n, segment.tot_count)
BY DEF AddOrUpdate

(* More rows of a chunk, of a word that it was not at first nor last.      *)
LEMMA AddRowsIs ==
  ASSUME NEW a, NEW b, NEW l, NEW c, NEW t, NEW n, NEW d, NEW addr, NEW row,
         addr # a, addr # t
  PROVE  AddRows([from_addr |-> a, from_skip |-> b, from_count |-> l, to_addr |-> t,
                  to_count |-> c, count |-> n, debug_row |-> d], addr, row)
           = [from_addr |-> a, from_skip |-> b, from_count |-> l, to_addr |-> addr,
              to_count |-> row, count |-> n + row, debug_row |-> d]
<1> DEFINE p == [from_addr |-> a, from_skip |-> b, from_count |-> l, to_addr |-> t,
                 to_count |-> c, count |-> n, debug_row |-> d]
<1>1. p.from_addr # addr /\ p.to_addr # addr /\ p.from_count = l
  OBVIOUS
<1>2. AddRows(p, addr, row) =
        [p EXCEPT !.count = @ + row, !.from_count = @, !.to_addr = addr, !.to_count = row]
  BY <1>1 DEF AddRows
<1> QED
  BY <1>2

(* The first entry of a segment.                                           *)
LEMMA FilledFirst ==
  ASSUME IInv, NEW k \in Nat, NEW s, NEW skip, BeginsAt(k, s, skip)
  PROVE  Filled(k, s, s, AddChunk([segment |-> NoSegment, available |-> Rows], scan[s], skip))
<1> DEFINE e == scan[s]
           r == RowsInSlice(s, k)
           cp == CheckPoint(e.word, skip, r, 0)
           plan == AddChunk([segment |-> NoSegment, available |-> Rows], e, skip)
<1>1. PICK lo \in Nat : lo = k * Rows
  BY StateFacts
<1>2. /\ \A i \in 1 .. s - 1 : i \notin InSlice(k)
      /\ s \in InSlice(k)
      /\ r = Least(RowsUpTo(s), lo + Rows) - lo
      /\ r = Least(e.count - skip, Rows)
  BY <1>1, SliceEntries
<1>3. /\ s \in 1 .. Len(scan) /\ Len(scan) \in Nat /\ Rows \in Nat /\ skip \in Nat
      /\ RowsBefore(s) \in Nat /\ RowsUpTo(s) \in Nat /\ RowsBefore(s) + skip = lo
      /\ e.count \in Nat /\ DOMAIN scan = 1 .. Len(scan) /\ skip <= e.count
  <2>1. s \in 1 .. Len(scan) /\ skip \in 0 .. e.count /\ RowsBefore(s) + skip = lo
    BY <1>1 DEF BeginsAt
  <2>2. Len(scan) \in Nat /\ Rows \in Nat /\ e.count \in Nat /\ DOMAIN scan = 1 .. Len(scan)
    BY <2>1, StateFacts
  <2>3. RowsBefore(s) \in Nat /\ RowsUpTo(s) \in Nat
    BY <1>1, <2>1, RowsInSliceIs
  <2> QED
    BY <2>1, <2>2, <2>3
<1>r. r \in Nat
  <2>1. PICK m \in Nat : m = e.count - skip
    BY <1>3
  <2>2. r = Least(m, Rows)
    BY <1>2, <2>1
  <2> HIDE DEF r, e
  <2> QED
    BY <1>3, <2>2 DEF Least
<1>4. /\ plan.available = Rows - r
      /\ DOMAIN plan.segment.chunks = {e.chunk} /\ plan.segment.chunks[e.chunk] = cp
      /\ plan.segment.tot_count = r + r
      /\ plan.segment.chunks = [c \in DOMAIN plan.segment.chunks |-> plan.segment.chunks[c]]
  <2>1. plan = [segment |-> SegmentFrom(e.chunk, e.word, skip, r), available |-> Rows - r]
    BY <1>2 DEF AddChunk
  <2> HIDE DEF plan, r
  <2> DEFINE t == AddOrUpdate(EmptySegment, e.chunk, e.word, skip, r)
  <2>2. DOMAIN EmptySegment.chunks = {} /\ EmptySegment.tot_count = 0
    BY DEF EmptySegment
  <2>3. /\ DOMAIN t.chunks = {e.chunk} /\ t.chunks[e.chunk] = cp /\ t.tot_count = r
        /\ t.chunks = [c \in DOMAIN t.chunks |-> t.chunks[c]]
    BY <1>r, <2>2, SegmentGrows
  <2>4. t = [chunks |-> t.chunks, tot_count |-> t.tot_count]
    BY DEF AddOrUpdate
  <2>5. SegmentFrom(e.chunk, e.word, skip, r) = [t EXCEPT !.tot_count = @ + r]
    BY DEF SegmentFrom
  <2> HIDE DEF t
  <2>6. SegmentFrom(e.chunk, e.word, skip, r) = [chunks |-> t.chunks, tot_count |-> r + r]
    BY <2>3, <2>4, <2>5
  <2> QED
    BY <2>1, <2>3, <2>6
<1> HIDE DEF plan
<1>5. Gone(k, s) = {s}
  <2>1. InSlice(k) \subseteq 1 .. Len(scan)
    BY <1>3 DEF InSlice
  <2> QED
    BY <1>2, <1>3, <2>1 DEF Gone
<1>6. Mine(k, e.chunk, s) = {s}
  BY <1>5 DEF Mine
<1>7. cp = CheckPointOf(k, e.chunk, s, s, s)
  <2>1. RunningTotal(ChunkRows(k, e.chunk))[s] = r
    <3> DEFINE w == ChunkRows(k, e.chunk)
    <3>1. \A i \in 1 .. s - 1 : i \in 1 .. Len(scan) /\ w[i] = 0
      <4> SUFFICES ASSUME NEW i \in 1 .. s - 1 PROVE i \in 1 .. Len(scan) /\ w[i] = 0
        OBVIOUS
      <4>1. i \in 1 .. Len(scan) /\ i \notin InSlice(k)
        BY <1>2, <1>3
      <4> QED
        BY <4>1, ChunkRowsGrow
    <3>2. w[s] = r
      BY <1>2, <1>3 DEF ChunkRows
    <3>3. RunningTotal(w)[s - 1] = 0
      <4>1. s - 1 \in 0 .. Len(scan)
        BY <1>3
      <4> QED
        BY <3>1, <4>1, ChunkRowsGrow
    <3>4. RunningTotal(w)[s] = RunningTotal(w)[s - 1] + w[s]
      <4>1. \A n \in 1 .. Len(scan) : RunningTotal(w)[n] = RunningTotal(w)[n - 1] + w[n]
        BY ChunkRowsGrow
      <4> HIDE DEF w
      <4> QED
        BY <1>3, <4>1
    <3> HIDE DEF w, r
    <3>5. RunningTotal(w)[s] = r
      BY <1>r, <3>2, <3>3, <3>4
    <3> QED
      BY <3>5 DEF w
  <2>2. RowOf(k, s) = 0
    <3>1. Smallest(s, InSlice(k)) /\ InSlice(k) \subseteq Nat
      BY <1>2, <1>3 DEF InSlice, Smallest
    <3>2. Min(InSlice(k)) = s
      BY <3>1, MinIs
    <3> QED
      BY <3>2 DEF RowOf
  <2>3. (IF k * Rows > RowsBefore(s) THEN k * Rows - RowsBefore(s) ELSE 0) = skip
    BY <1>1, <1>3
  <2> QED
    BY <2>1, <2>2, <2>3 DEF CheckPoint, CheckPointOf
<1>8. Recorded(k, s, plan.segment.chunks)
  <2>1. Smallest(s, Mine(k, e.chunk, s)) /\ Largest(s, Mine(k, e.chunk, s))
    BY <1>3, <1>6 DEF Smallest, Largest
  <2> HIDE DEF cp, e
  <2>2. DOMAIN plan.segment.chunks = {e.chunk}
    BY <1>4
  <2>3. plan.segment.chunks[e.chunk] = CheckPointOf(k, e.chunk, s, s, s)
    BY <1>4, <1>7
  <2>4. {scan[i].chunk : i \in Gone(k, s)} = {e.chunk}
    BY <1>5 DEF e
  <2> QED
    BY <1>4, <2>1, <2>2, <2>3, <2>4 DEF Recorded
<1>9. /\ plan.available = (lo + Rows) - Least(RowsUpTo(s), lo + Rows)
      /\ plan.segment.tot_count = (Least(RowsUpTo(s), lo + Rows) - lo) + r
  <2> HIDE DEF r, e
  <2>1. PICK u \in Nat : u = RowsUpTo(s)
    BY <1>3
  <2>2. PICK upto : upto = Least(u, lo + Rows)
    OBVIOUS
  <2>3. upto \in Nat /\ r = upto - lo
    BY <1>2, <1>3, <2>1, <2>2 DEF Least
  <2>4. plan.available = (lo + Rows) - upto /\ plan.segment.tot_count = (upto - lo) + r
    BY <1>r, <1>3, <1>4, <2>3
  <2> QED
    BY <2>1, <2>2, <2>4
<1> QED
  BY <1>1, <1>8, <1>9 DEF Filled, plan

(* An entry that is not in the slice changes nothing.                      *)
LEMMA NotInSlice ==
  ASSUME IInv, NEW k \in Nat, NEW n \in 1 .. Len(scan) - 1, n + 1 \notin InSlice(k),
         NEW chunks, Recorded(k, n, chunks)
  PROVE  Recorded(k, n + 1, chunks)
<1>1. Len(scan) \in Nat /\ n + 1 \in 1 .. Len(scan) /\ (n + 1) - 1 = n /\ n \in Nat
  BY StateFacts
<1>2. Gone(k, n + 1) = Gone(k, n)
  <2>1. InSlice(k) \subseteq 1 .. Len(scan)
    BY StateFacts DEF InSlice
  <2> QED
    BY <1>1, <2>1 DEF Gone
<1>3. \A c : Mine(k, c, n + 1) = Mine(k, c, n)
  BY <1>2 DEF Mine
<1>4. ASSUME NEW c PROVE RunningTotal(ChunkRows(k, c))[n + 1] = RunningTotal(ChunkRows(k, c))[n]
  <2> DEFINE w == ChunkRows(k, c)
  <2>1. /\ \A i \in 1 .. Len(scan) :
             w[i] = IF i \in InSlice(k) /\ scan[i].chunk = c THEN RowsInSlice(i, k) ELSE 0
        /\ \A i \in 1 .. Len(scan) : /\ RunningTotal(w)[i - 1] \in Nat
                                     /\ RunningTotal(w)[i] = RunningTotal(w)[i - 1] + w[i]
    BY ChunkRowsGrow
  <2> HIDE DEF w
  <2>2. w[n + 1] = 0
    BY <1>1, <2>1
  <2>3. RunningTotal(w)[n] \in Nat /\ RunningTotal(w)[n + 1] = RunningTotal(w)[n] + w[n + 1]
    BY <1>1, <2>1
  <2>4. RunningTotal(w)[n + 1] = RunningTotal(w)[n]
    BY <2>2, <2>3
  <2> QED
    BY <2>4 DEF w
<1>5. \A c, f, g : CheckPointOf(k, c, f, g, n + 1) = CheckPointOf(k, c, f, g, n)
  BY <1>4 DEF CheckPointOf
<1>6. /\ chunks = [c \in DOMAIN chunks |-> chunks[c]]
      /\ DOMAIN chunks = {scan[i].chunk : i \in Gone(k, n + 1)}
  BY <1>2 DEF Recorded
<1>7. \A c \in DOMAIN chunks :
        \E f, g : /\ Smallest(f, Mine(k, c, n + 1)) /\ Largest(g, Mine(k, c, n + 1))
                  /\ chunks[c] = CheckPointOf(k, c, f, g, n + 1)
  <2> SUFFICES ASSUME NEW c \in DOMAIN chunks
               PROVE  \E f, g : /\ Smallest(f, Mine(k, c, n + 1)) /\ Largest(g, Mine(k, c, n + 1))
                                /\ chunks[c] = CheckPointOf(k, c, f, g, n + 1)
    OBVIOUS
  <2>1. PICK f, g : /\ Smallest(f, Mine(k, c, n)) /\ Largest(g, Mine(k, c, n))
                    /\ chunks[c] = CheckPointOf(k, c, f, g, n)
    BY DEF Recorded
  <2>2. Mine(k, c, n + 1) = Mine(k, c, n)
    BY <1>3
  <2>3. CheckPointOf(k, c, f, g, n + 1) = CheckPointOf(k, c, f, g, n)
    BY <1>5
  <2> QED
    BY <2>1, <2>2, <2>3
<1> QED
  BY <1>6, <1>7, Zenon DEF Recorded

(* An entry of the slice, behind the first one: its rows are added to the  *)
(* check point of its chunk, or become a new one.                          *)
LEMMA NextInSlice ==
  ASSUME IInv, ScanOrdered, NEW k \in Nat, NEW s, NEW skip, BeginsAt(k, s, skip),
         NEW n \in s .. Len(scan) - 1, n + 1 \in InSlice(k),
         NEW segment, Recorded(k, n, segment.chunks), NEW row, row = RowsInSlice(n + 1, k),
         segment.tot_count = RowsBefore(n + 1) - k * Rows + RowsInSlice(s, k)
  PROVE  Recorded(k, n + 1,
                  AddOrUpdate(segment, scan[n + 1].chunk, scan[n + 1].word, 0, row).chunks)
<1> DEFINE m == n + 1
           h == scan[m].chunk
           addr == scan[m].word
           old == segment.chunks
           new == AddOrUpdate(segment, h, addr, 0, row).chunks
<1>1. PICK lo \in Nat : lo = k * Rows
  BY StateFacts
<1>2. /\ s \in 1 .. Len(scan) /\ Len(scan) \in Nat /\ n \in 1 .. Len(scan) /\ m \in 1 .. Len(scan)
      /\ m \in s + 1 .. Len(scan) /\ m - 1 = n /\ n \in Nat /\ DOMAIN scan = 1 .. Len(scan)
      /\ m # s /\ s \in Nat /\ m \in Nat /\ n < m
  BY StateFacts DEF BeginsAt
<1>3. InSlice(k) \subseteq 1 .. Len(scan)
  BY <1>2 DEF InSlice
<1>4. /\ new = [x \in DOMAIN new |-> new[x]]
      /\ DOMAIN new = DOMAIN old \cup {h}
      /\ \A x \in DOMAIN old : x # h => new[x] = old[x]
      /\ new[h] = IF h \in DOMAIN old THEN AddRows(old[h], addr, row)
                  ELSE CheckPoint(addr, 0, row, segment.tot_count)
  BY SegmentGrows
<1> HIDE DEF new
<1>5. Gone(k, m) = Gone(k, n) \cup {m} /\ m \notin Gone(k, n)
  <2>1. \A i \in 1 .. Len(scan) : i <= m <=> (i <= n \/ i = m)
    BY <1>2
  <2> QED
    BY <1>2, <1>3, <2>1 DEF Gone
<1>6. /\ Mine(k, h, m) = Mine(k, h, n) \cup {m}
      /\ \A c : c # h => Mine(k, c, m) = Mine(k, c, n)
  BY <1>5 DEF Mine
<1>7. DOMAIN old = {scan[i].chunk : i \in Gone(k, n)}
  BY DEF Recorded
<1>8. DOMAIN new = {scan[i].chunk : i \in Gone(k, m)}
  BY <1>4, <1>5, <1>7
<1>9. ASSUME NEW c
      PROVE  /\ RunningTotal(ChunkRows(k, c))[n] \in Nat
             /\ RunningTotal(ChunkRows(k, c))[m] =
                  RunningTotal(ChunkRows(k, c))[n] + IF c = h THEN row ELSE 0
             /\ Mine(k, c, n) = {} => RunningTotal(ChunkRows(k, c))[n] = 0
             /\ row \in Nat
  <2> DEFINE w == ChunkRows(k, c)
  <2>1. /\ w \in Seq(Nat) /\ Len(w) = Len(scan)
        /\ \A i \in 1 .. Len(scan) :
             w[i] = IF i \in InSlice(k) /\ scan[i].chunk = c THEN RowsInSlice(i, k) ELSE 0
        /\ \A i \in 1 .. Len(scan) : /\ RunningTotal(w)[i - 1] \in Nat
                                     /\ RunningTotal(w)[i] = RunningTotal(w)[i - 1] + w[i]
        /\ \A i \in 0 .. Len(scan) :
             (\A j \in 1 .. i : w[j] = 0) => RunningTotal(w)[i] = 0
    BY ChunkRowsGrow
  <2> HIDE DEF w
  <2>2. w[m] = IF c = h THEN row ELSE 0
    BY <1>2, <2>1
  <2>3. RunningTotal(w)[n] \in Nat /\ RunningTotal(w)[m] = RunningTotal(w)[n] + w[m]
    BY <1>2, <2>1
  <2>4. ASSUME Mine(k, c, n) = {} PROVE RunningTotal(w)[n] = 0
    <3>1. ASSUME NEW j \in 1 .. n PROVE w[j] = 0
      <4>1. j \in 1 .. Len(scan) /\ j <= n
        BY <1>2
      <4>2. ~(j \in InSlice(k) /\ scan[j].chunk = c)
        BY <2>4, <4>1 DEF Mine, Gone
      <4> QED
        BY <2>1, <4>1, <4>2
    <3>2. n \in 0 .. Len(scan)
      BY <1>2
    <3> QED
      BY <2>1, <3>1, <3>2
  <2>5. row \in Nat
    <3> DEFINE v == ChunkRows(k, h)
    <3>1. v \in Seq(Nat) /\ Len(v) = Len(scan) /\ v[m] = row
      BY <1>2, ChunkRowsGrow
    <3> HIDE DEF v
    <3> QED
      BY <1>2, <3>1
  <2> QED
    BY <2>2, <2>3, <2>4, <2>5 DEF w
<1>10. ASSUME NEW c \in DOMAIN new, c # h
       PROVE  \E f, g : /\ Smallest(f, Mine(k, c, m)) /\ Largest(g, Mine(k, c, m))
                        /\ new[c] = CheckPointOf(k, c, f, g, m)
  <2>1. c \in DOMAIN old /\ new[c] = old[c] /\ Mine(k, c, m) = Mine(k, c, n)
    BY <1>4, <1>6, <1>10
  <2>2. PICK f, g : /\ Smallest(f, Mine(k, c, n)) /\ Largest(g, Mine(k, c, n))
                    /\ old[c] = CheckPointOf(k, c, f, g, n)
    BY <2>1 DEF Recorded
  <2>3. RunningTotal(ChunkRows(k, c))[m] = RunningTotal(ChunkRows(k, c))[n]
    BY <1>9, <1>10
  <2>4. CheckPointOf(k, c, f, g, m) = CheckPointOf(k, c, f, g, n)
    BY <2>3 DEF CheckPointOf
  <2> QED
    BY <2>1, <2>2, <2>4
<1>11. RowsBefore(m) >= lo /\ RowsBefore(m) \in Nat
  BY <1>1, <1>2, SliceEntries, StateFacts
<1>12. ASSUME h \in DOMAIN old
       PROVE  \E f, g : /\ Smallest(f, Mine(k, h, m)) /\ Largest(g, Mine(k, h, m))
                        /\ new[h] = CheckPointOf(k, h, f, g, m)
  <2>1. PICK f, g : /\ Smallest(f, Mine(k, h, n)) /\ Largest(g, Mine(k, h, n))
                    /\ old[h] = CheckPointOf(k, h, f, g, n)
    BY <1>12 DEF Recorded
  <2>2. /\ f \in 1 .. n /\ scan[f].chunk = h
        /\ g \in 1 .. n /\ scan[g].chunk = h
    BY <1>2, <1>3, <2>1 DEF Smallest, Largest, Mine, Gone
  <2>3. scan[f].word # addr /\ scan[g].word # addr
    <3>1. ASSUME NEW i \in 1 .. n, scan[i].chunk = h PROVE scan[i].word # addr
      <4>1. i \in 1 .. m - 1 /\ i \in 1 .. Len(scan)
        BY <1>2
      <4>2. \/ scan[i].word < addr
            \/ scan[i].chunk < h
        BY <1>2, <4>1 DEF ScanOrdered
      <4>3. scan[i].word \in Nat /\ addr \in Nat /\ h \in Nat
        <5>1. scan[i] \in Entries /\ scan[m] \in Entries
          BY <1>2, <4>1, StateFacts
        <5>2. scan[i].word \in Words /\ addr \in Words /\ h \in Chunks
          BY <5>1 DEF Entries
        <5>3. Words \subseteq Nat
          BY NumWordsType DEF Words
        <5>4. Chunks \subseteq Nat
          BY ScanAssumption
        <5> QED
          BY <5>2, <5>3, <5>4
      <4> QED
        BY <3>1, <4>2, <4>3
    <3> QED
      BY <2>2, <3>1
  <2>4. Smallest(f, Mine(k, h, m)) /\ Largest(m, Mine(k, h, m))
    <3>1. Mine(k, h, n) \subseteq 1 .. n
      BY <1>2, <1>3 DEF Mine, Gone
    <3> QED
      BY <1>2, <1>6, <2>1, <2>2, <3>1 DEF Smallest, Largest
  <2>5. new[h] = CheckPointOf(k, h, f, m, m)
    <3> DEFINE p == CheckPointOf(k, h, f, g, n)
    <3>1. new[h] = AddRows(p, addr, row)
      BY <1>4, <1>12, <2>1
    <3>2. p.from_addr # addr /\ p.to_addr # addr
      BY <2>3 DEF CheckPointOf
    <3>3. AddRows(p, addr, row) =
            [from_addr |-> p.from_addr, from_skip |-> p.from_skip, from_count |-> p.from_count,
             to_addr |-> addr, to_count |-> row, count |-> p.count + row,
             debug_row |-> p.debug_row]
      BY <3>2, AddRowsIs DEF CheckPointOf
    <3>4. RunningTotal(ChunkRows(k, h))[m] = RunningTotal(ChunkRows(k, h))[n] + row
      BY <1>9
    <3>5. AddRows(p, addr, row) = CheckPointOf(k, h, f, m, m)
      BY <3>3, <3>4 DEF CheckPointOf
    <3> QED
      BY <3>1, <3>5
  <2> QED
    BY <2>4, <2>5
<1>13. ASSUME h \notin DOMAIN old
       PROVE  \E f, g : /\ Smallest(f, Mine(k, h, m)) /\ Largest(g, Mine(k, h, m))
                        /\ new[h] = CheckPointOf(k, h, f, g, m)
  <2>1. Mine(k, h, n) = {}
    BY <1>7, <1>13 DEF Mine
  <2>2. Smallest(m, Mine(k, h, m)) /\ Largest(m, Mine(k, h, m))
    BY <1>2, <1>6, <2>1 DEF Smallest, Largest
  <2>3. new[h] = CheckPoint(addr, 0, row, segment.tot_count)
    BY <1>4, <1>13
  <2>4. RunningTotal(ChunkRows(k, h))[m] = row
    <3>1. /\ RunningTotal(ChunkRows(k, h))[n] = 0
          /\ RunningTotal(ChunkRows(k, h))[m] = RunningTotal(ChunkRows(k, h))[n] + row
          /\ row \in Nat
      BY <1>9, <2>1
    <3> QED
      BY <3>1
  <2>5. RowOf(k, m) = segment.tot_count
    <3>1. Smallest(s, InSlice(k)) /\ InSlice(k) \subseteq Nat
      <4>1. s \in InSlice(k) /\ \A i \in 1 .. s - 1 : i \notin InSlice(k)
        BY <1>1, SliceEntries
      <4>2. \A i \in 1 .. Len(scan) : i \in 1 .. s - 1 \/ s <= i
        BY <1>2
      <4> QED
        BY <1>3, <4>1, <4>2 DEF Smallest
    <3>2. Min(InSlice(k)) = s
      BY <3>1, MinIs
    <3> QED
      BY <1>2, <3>2 DEF RowOf
  <2>6. (IF k * Rows > RowsBefore(m) THEN k * Rows - RowsBefore(m) ELSE 0) = 0
    BY <1>1, <1>11
  <2>7. CheckPoint(addr, 0, row, segment.tot_count) = CheckPointOf(k, h, m, m, m)
    BY <2>4, <2>5, <2>6 DEF CheckPoint, CheckPointOf
  <2> QED
    BY <2>2, <2>3, <2>7
<1>14. ASSUME NEW c \in DOMAIN new
       PROVE  \E f, g : /\ Smallest(f, Mine(k, c, m)) /\ Largest(g, Mine(k, c, m))
                        /\ new[c] = CheckPointOf(k, c, f, g, m)
  <2>1. CASE c = h
    BY <1>12, <1>13, <2>1
  <2>2. CASE c # h
    BY <1>10, <2>2
  <2> QED
    BY <2>1, <2>2
<1>15. Recorded(k, m, new)
  BY <1>4, <1>8, <1>14 DEF Recorded
<1> QED
  BY <1>15 DEF new

(* The segment has what the slice has up to entry n, and as much room left *)
(* as the slice has rows to come: another entry of the scan keeps it so.   *)
LEMMA FilledNext ==
  ASSUME IInv, ScanOrdered, NEW k \in Nat, NEW s, NEW skip, BeginsAt(k, s, skip),
         NEW n \in s .. Len(scan) - 1, NEW plan, Filled(k, s, n, plan)
  PROVE  Filled(k, s, n + 1, IF plan.available = 0 THEN plan
                             ELSE AddChunk(plan, scan[n + 1], 0))
<1> DEFINE e == scan[n + 1]
           next == AddChunk(plan, e, 0)
           row == RowsInSlice(n + 1, k)
<1>1. PICK lo \in Nat : lo = k * Rows
  BY StateFacts
<1>2. /\ s \in 1 .. Len(scan) /\ Len(scan) \in Nat /\ Rows \in Nat \ {0} /\ n \in Nat
      /\ n \in 1 .. Len(scan) - 1 /\ n \in 1 .. Len(scan)
      /\ n + 1 \in 1 .. Len(scan) /\ n + 1 \in s + 1 .. Len(scan)
  BY StateFacts DEF BeginsAt
<1>3. PICK a, b : a = RowsBefore(n + 1) /\ b = RowsUpTo(n + 1)
  OBVIOUS
<1>4. /\ a \in Nat /\ b \in Nat /\ a < b /\ a = RowsUpTo(n) /\ a >= lo
      /\ e.count \in Nat \ {0} /\ b = a + e.count
      /\ n + 1 \in InSlice(k) <=> a < lo + Rows
      /\ a < lo + Rows => row = Least(b, lo + Rows) - a
  <2>1. a \in Nat /\ b \in Nat /\ a < b
    BY <1>1, <1>2, <1>3, RowsInSliceIs
  <2>2. a = RowsUpTo(n)
    BY <1>1, <1>2, <1>3, RowsInSliceIs
  <2>3. b = a + e.count
    BY <1>3 DEF RowsUpTo
  <2>4. e.count \in Nat \ {0}
    BY <1>2, StateFacts
  <2>5. /\ a >= lo
        /\ n + 1 \in InSlice(k) <=> a < lo + Rows
        /\ a < lo + Rows => row = Least(b, lo + Rows) - a
    BY <1>1, <1>2, <1>3, SliceEntries
  <2> QED
    BY <2>1, <2>2, <2>3, <2>4, <2>5
<1>5. PICK r \in Nat : r = RowsInSlice(s, k)
  <2>1. RowsInSlice(s, k) = Least(scan[s].count - skip, Rows)
    BY <1>1, SliceEntries
  <2>2. scan[s].count \in Nat /\ skip \in 0 .. scan[s].count
    BY <1>2, StateFacts DEF BeginsAt
  <2>3. RowsInSlice(s, k) \in Nat
    BY <1>2, <2>1, <2>2 DEF Least
  <2> QED
    BY <2>3
<1>6. /\ plan.available = (lo + Rows) - Least(a, lo + Rows)
      /\ plan.segment.tot_count = (Least(a, lo + Rows) - lo) + r
      /\ Recorded(k, n, plan.segment.chunks)
  BY <1>1, <1>4, <1>5 DEF Filled
<1>7. CASE ~(a < lo + Rows)
  <2>1. plan.available = 0 /\ Least(a, lo + Rows) = lo + Rows /\ Least(b, lo + Rows) = lo + Rows
    BY <1>2, <1>4, <1>6, <1>7 DEF Least
  <2>2. Recorded(k, n + 1, plan.segment.chunks)
    BY <1>2, <1>4, <1>6, <1>7, NotInSlice
  <2>3. Filled(k, s, n + 1, plan)
    BY <1>1, <1>3, <1>5, <1>6, <2>1, <2>2 DEF Filled
  <2> QED
    BY <2>1, <2>3
<1>8. CASE a < lo + Rows
  <2>1. PICK upto : upto = Least(b, lo + Rows)
    OBVIOUS
  <2>2. /\ plan.available = (lo + Rows) - a /\ plan.available # 0
        /\ plan.segment.tot_count = (a - lo) + r
        /\ row = upto - a /\ row \in Nat /\ upto \in Nat
        /\ row = Least(e.count - 0, plan.available)
    <3> HIDE DEF row, e
    <3>1. plan.available = (lo + Rows) - a /\ plan.segment.tot_count = (a - lo) + r
      BY <1>2, <1>4, <1>6, <1>8 DEF Least
    <3>2. row = upto - a /\ row \in Nat /\ upto \in Nat
      <4>1. /\ row = upto - a /\ upto = Least(b, lo + Rows)
            /\ a \in Nat /\ b \in Nat /\ a < b /\ Rows \in Nat
        BY <1>2, <1>4, <1>8, <2>1
      <4> QED
        BY <1>8, <4>1 DEF Least
    <3>3. row = Least(e.count - 0, plan.available)
      <4>1. PICK m \in Nat : m = e.count
        BY <1>4
      <4>2. PICK free \in Nat : free = plan.available /\ free = (lo + Rows) - a
        BY <1>2, <1>4, <1>8, <3>1
      <4>3. row = Least(m, free)
        <5>1. /\ b = a + m /\ upto = Least(b, lo + Rows) /\ free = (lo + Rows) - a
              /\ row = upto - a /\ a \in Nat /\ Rows \in Nat
          BY <1>2, <1>4, <2>1, <3>2, <4>1, <4>2
        <5> QED
          BY <5>1 DEF Least
      <4>4. m - 0 = m
        OBVIOUS
      <4> QED
        BY <4>1, <4>2, <4>3, <4>4
    <3> QED
      BY <1>2, <1>4, <1>8, <3>1, <3>2, <3>3
  <2>3. plan.segment # NoSegment
    <3>1. scan[s].chunk \in DOMAIN plan.segment.chunks
      <4>1. s \in InSlice(k)
        BY <1>1, SliceEntries
      <4>2. s <= n
        BY <1>2
      <4>3. s \in Gone(k, n)
        BY <4>1, <4>2 DEF Gone
      <4> QED
        BY <1>6, <4>3 DEF Recorded
    <3>2. DOMAIN NoSegment.chunks = {}
      BY DEF NoSegment, EmptySegment
    <3> QED
      BY <3>1, <3>2
  <2>4. next = [segment   |-> AddOrUpdate(plan.segment, e.chunk, e.word, 0, row),
                available |-> plan.available - row]
    <3> HIDE DEF row, e
    <3> QED
      BY <2>2, <2>3 DEF AddChunk
  <2> HIDE DEF row, next
  <2>5. next.available = (lo + Rows) - upto
    BY <1>2, <1>4, <2>2, <2>4
  <2>6. next.segment.tot_count = (upto - lo) + r
    <3>1. next.segment.tot_count = plan.segment.tot_count + row
      <4>1. AddOrUpdate(plan.segment, e.chunk, e.word, 0, row).tot_count
              = plan.segment.tot_count + row
        BY DEF AddOrUpdate
      <4> QED
        BY <2>4, <4>1
    <3> QED
      BY <1>4, <2>2, <3>1
  <2>7. Recorded(k, n + 1, next.segment.chunks)
    <3>1. plan.segment.tot_count = RowsBefore(n + 1) - k * Rows + RowsInSlice(s, k)
      BY <1>1, <1>3, <1>5, <2>2
    <3>2. n + 1 \in InSlice(k)
      BY <1>4, <1>8
    <3>3. next.segment = AddOrUpdate(plan.segment, scan[n + 1].chunk, scan[n + 1].word, 0, row)
      BY <2>4
    <3> QED
      BY <1>6, <3>1, <3>2, <3>3, NextInSlice DEF row
  <2>8. Filled(k, s, n + 1, next)
    BY <1>1, <1>3, <1>5, <2>1, <2>5, <2>6, <2>7 DEF Filled
  <2> QED
    BY <2>2, <2>8 DEF next
<1> QED
  BY <1>7, <1>8

(* What a planner that begins at the slice's first row, d entries into the *)
(* scan and the rest of it in front of it, has in its segment at the end.  *)
LEMMA FillingFills ==
  ASSUME IInv, ScanOrdered, NEW k \in Nat, NEW s, NEW skip, BeginsAt(k, s, skip),
         NEW entries, NEW d \in Nat, NEW m \in Nat, m = Len(entries),
         RestOf(scan, entries, d), d < s
  PROVE  Recorded(k, Len(scan), Filling(entries, s - d, skip)[m].segment.chunks)
<1> DEFINE plan == Filling(entries, s - d, skip)
           L == Len(scan)
           T == {n \in s .. L : Filled(k, s, n, plan[n - d])}
<1>1. /\ L \in Nat /\ s \in 1 .. L /\ s \in Nat /\ s <= L
      /\ L = d + m /\ s - d \in Nat /\ s - d <= m
  BY StateFacts DEF BeginsAt, RestOf
<1>2. \A n \in s .. L : entries[n - d] = scan[n]
  <2> SUFFICES ASSUME NEW n \in s .. L PROVE entries[n - d] = scan[n]
    OBVIOUS
  <2>1. n - d \in 1 .. m /\ d + (n - d) = n
    BY <1>1
  <2>2. entries[n - d] = scan[d + (n - d)]
    BY <2>1 DEF RestOf
  <2> QED
    BY <2>1, <2>2
<1>3. /\ plan[s - d] = AddChunk([segment |-> NoSegment, available |-> Rows], entries[s - d], skip)
      /\ \A n \in (s - d) + 1 .. m :
           plan[n] = IF plan[n - 1].available = 0 THEN plan[n - 1]
                     ELSE AddChunk(plan[n - 1], entries[n], 0)
  BY <1>1, FillingDef
<1> HIDE DEF plan
<1>4. s \in T
  <2>1. entries[s - d] = scan[s] /\ s \in s .. L
    BY <1>1, <1>2
  <2> QED
    BY <1>1, <1>3, <2>1, FilledFirst
<1>5. ASSUME NEW n \in s .. L - 1, n \in T PROVE n + 1 \in T
  <2>1. /\ n + 1 \in s .. L /\ (n + 1) - d \in (s - d) + 1 .. m
        /\ ((n + 1) - d) - 1 = n - d
    BY <1>1
  <2>2. entries[(n + 1) - d] = scan[n + 1]
    BY <1>2, <2>1
  <2>3. plan[(n + 1) - d] = IF plan[n - d].available = 0 THEN plan[n - d]
                            ELSE AddChunk(plan[n - d], scan[n + 1], 0)
    BY <1>3, <2>1, <2>2
  <2>4. Filled(k, s, n, plan[n - d])
    BY <1>5
  <2>5. Filled(k, s, n + 1, plan[(n + 1) - d])
    BY <2>3, <2>4, FilledNext
  <2> QED
    BY <2>1, <2>5
<1>6. \A n \in s .. L : n \in T
  <2>1. s \in Int /\ L \in Int
    BY <1>1
  <2> HIDE DEF T, L
  <2> QED
    BY <1>4, <1>5, <2>1, IntervalInduction
<1>7. L \in s .. L /\ L - d = m
  BY <1>1
<1>8. Filled(k, s, L, plan[L - d])
  BY <1>6, <1>7
<1> QED
  BY <1>7, <1>8 DEF Filled, plan

(* Then the segment is the slice.                                          *)
LEMMA RecordedIsSlice ==
  ASSUME IInv, NEW k \in Nat, NEW chunks, Recorded(k, Len(scan), chunks)
  PROVE  chunks = Slice(k)
<1> DEFINE L == Len(scan)
<1>1. L \in Nat /\ DOMAIN scan = 1 .. L /\ InSlice(k) \subseteq 1 .. L
  BY StateFacts DEF InSlice
<1>2. Gone(k, L) = InSlice(k)
  BY <1>1 DEF Gone
<1>3. ASSUME NEW c \in DOMAIN chunks PROVE chunks[c] = SliceCheckPoint(k, c)
  <2> DEFINE mine == {i \in InSlice(k) : scan[i].chunk = c}
             w == ChunkRows(k, c)
  <2>1. Mine(k, c, L) = mine
    BY <1>2 DEF Mine
  <2>2. PICK f, g : /\ Smallest(f, mine) /\ Largest(g, mine)
                    /\ chunks[c] = CheckPointOf(k, c, f, g, L)
    BY <2>1 DEF Recorded
  <2>3. Min(mine) = f /\ Max(mine) = g
    <3>1. mine \subseteq Nat
      BY <1>1
    <3> QED
      BY <2>2, <3>1, MinIs, MaxIs
  <2>4. Total([i \in DOMAIN scan |-> IF i \in mine THEN RowsInSlice(i, k) ELSE 0])
          = RunningTotal(w)[L]
    <3>1. [i \in DOMAIN scan |-> IF i \in mine THEN RowsInSlice(i, k) ELSE 0] = w
      BY DEF ChunkRows
    <3>2. Len(w) = L
      BY ChunkRowsGrow
    <3> HIDE DEF w, mine
    <3> QED
      BY <3>1, <3>2 DEF Total
  <2> QED
    BY <2>2, <2>3, <2>4 DEF SliceCheckPoint, CheckPointOf
<1>4. DOMAIN chunks = {scan[i].chunk : i \in InSlice(k)}
  BY <1>2 DEF Recorded
<1>5. chunks = [c \in DOMAIN chunks |-> chunks[c]]
  BY DEF Recorded
<1>6. chunks = [c \in DOMAIN chunks |-> SliceCheckPoint(k, c)]
  BY <1>3, <1>5
<1> QED
  BY <1>4, <1>6 DEF Slice

(* No two entries of the scan are the same entry of a word.                *)
LEMMA EntryIsOnce ==
  ASSUME IInv, ScanOrdered, NEW i \in 1 .. Len(scan), NEW j \in 1 .. Len(scan),
         scan[i].word = scan[j].word, scan[i].cpos = scan[j].cpos
  PROVE  i = j
<1>1. ASSUME NEW x \in 1 .. Len(scan), NEW y \in 1 .. Len(scan), x < y
      PROVE  scan[x].word # scan[y].word \/ scan[x].cpos # scan[y].cpos
  <2>1. x \in 1 .. y - 1
    BY <1>1, StateFacts
  <2>2. \/ scan[x].word < scan[y].word
        \/ scan[x].word = scan[y].word /\ scan[x].cpos < scan[y].cpos
    BY <2>1 DEF ScanOrdered
  <2>3. scan[x].word \in Words /\ scan[y].word \in Words
    BY StateFacts
  <2>4. Words \subseteq Nat
    BY NumWordsType DEF Words
  <2>5. scan[x].cpos \in Nat /\ scan[y].cpos \in Nat
    BY StateFacts
  <2>6. PICK v \in Nat, w \in Nat, c \in Nat, d \in Nat :
          /\ v = scan[x].word /\ w = scan[y].word
          /\ c = scan[x].cpos /\ d = scan[y].cpos
    BY <2>3, <2>4, <2>5
  <2>7. v < w \/ c < d
    BY <2>2, <2>6
  <2> QED
    BY <2>6, <2>7
<1>2. i < j \/ j < i \/ i = j
  BY StateFacts
<1> QED
  BY <1>1, <1>2

LEMMA EntryOfWord ==
  ASSUME NEW t \in Tables, NEW w \in Words, NEW c \in 1 .. Len(t[w])
  PROVE  EntriesOf(t, w)[c].word = w /\ EntriesOf(t, w)[c].cpos = c
<1>1. EntriesOf(t, w)[c] = [word |-> w, cpos |-> c, chunk |-> t[w][c].chunk,
                            count |-> t[w][c].count]
  BY EntriesOfWord
<1> QED
  BY <1>1

(* What the loops of a planner come by is the rest of the scan from the    *)
(* first entry of its locator's word on.                                   *)
LEMMA ScanFromIsRest ==
  ASSUME walk \in Tables, scan = Scan(walk), scan \in Seq(Entries),
         NEW w \in Words, NEW j \in 1 .. Len(scan), scan[j].word = w
  PROVE  /\ ScanFrom(w) \in Seq(Entries)
         /\ \E d \in Nat : RestOf(scan, ScanFrom(w), d)
         /\ Len(walk[w]) <= Len(ScanFrom(w))
         /\ \A c \in 1 .. Len(walk[w]) : ScanFrom(w)[c].word = w /\ ScanFrom(w)[c].cpos = c
<1> DEFINE parts == [i \in 1 .. NumWords |->
                       IF ScannedWord(walk, i - 1) THEN EntriesOf(walk, i - 1) ELSE <<>>]
           kept == [i \in 1 .. NumWords |->
                      IF ResumedWord(w, i - 1) THEN EntriesOf(walk, i - 1) ELSE <<>>]
<1>1. PICK N \in Nat : N = NumWords
  BY NumWordsType
<1>2. w \in 0 .. N - 1 /\ w \in Nat
  BY <1>1 DEF Words
<1>3. \A i \in 1 .. N : i - 1 \in Words
  BY <1>1 DEF Words
<1>4. parts \in Seq(Seq(Entries)) /\ kept \in Seq(Seq(Entries))
      /\ Len(parts) = N /\ Len(kept) = N
  <2>1. \A i \in 1 .. N : EntriesOf(walk, i - 1) \in Seq(Entries)
    BY <1>3, EntriesOfWord
  <2> QED
    BY <1>1, <2>1
<1>5. \A v \in Words : ResumedWord(w, v) <=> w <= v /\ ScannedWord(walk, v)
  <2> SUFFICES ASSUME NEW v \in Words, ScannedPage(PageOf(v)), walk[v] # <<>>
               PROVE  UpToMaxOffset(v) /\ WithinLimits(walk, v)
    BY DEF ResumedWord, ScannedWord
  <2>1. v \in Accessed(walk, PageOf(v))
    BY DEF Accessed
  <2>2. OffsetOf(v) <= OffsetOf(v)
    BY NumWordsType, ScanAssumption DEF OffsetOf, Words
  <2> QED
    BY <2>1, <2>2 DEF UpToMaxOffset, WithinLimits
<1>6. /\ \A i \in 1 .. w : kept[i] = <<>>
      /\ \A i \in w + 1 .. N : kept[i] = parts[i]
  <2>1. ASSUME NEW i \in 1 .. w PROVE kept[i] = <<>>
    <3>1. i \in 1 .. N /\ ~(w <= i - 1)
      BY <1>2
    <3>2. ~ResumedWord(w, i - 1)
      BY <1>3, <1>5, <3>1
    <3> QED
      BY <1>1, <3>1, <3>2
  <2>2. ASSUME NEW i \in w + 1 .. N PROVE kept[i] = parts[i]
    <3>1. i \in 1 .. N /\ w <= i - 1
      BY <1>2
    <3>2. ResumedWord(w, i - 1) <=> ScannedWord(walk, i - 1)
      BY <1>3, <1>5, <3>1
    <3> QED
      BY <1>1, <3>1, <3>2
  <2> QED
    BY <2>1, <2>2
<1>7. scan = Concatenation(parts) /\ ScanFrom(w) = Concatenation(kept)
  BY DEF Scan, ScanFrom
<1>8. parts[w + 1] = EntriesOf(walk, w)
  <2>1. ScannedWord(walk, w)
    <3>1. \A i \in 1 .. N : \A c \in 1 .. Len(parts[i]) :
            parts[i][c].word = i - 1 /\ ScannedWord(walk, i - 1)
      <4> SUFFICES ASSUME NEW i \in 1 .. N, NEW c \in 1 .. Len(parts[i])
                   PROVE  parts[i][c].word = i - 1 /\ ScannedWord(walk, i - 1)
        OBVIOUS
      <4>1. ScannedWord(walk, i - 1) /\ parts[i] = EntriesOf(walk, i - 1)
        BY <1>1
      <4> HIDE DEF parts
      <4>2. c \in 1 .. Len(walk[i - 1])
        BY <1>3, <4>1, EntriesOfWord
      <4>3. EntriesOf(walk, i - 1)[c].word = i - 1
        <5>1. i - 1 \in Words
          BY <1>3
        <5> QED
          BY <4>2, <5>1, EntryOfWord
      <4> QED
        BY <4>1, <4>3
    <3> HIDE DEF parts
    <3>2. PICK a, b : Places(parts, scan, N, a, b)
      BY <1>4, <1>7, ConcatenationPlaces
    <3>3. a[j] \in 1 .. N /\ b[j] \in 1 .. Len(parts[a[j]]) /\ scan[j] = parts[a[j]][b[j]]
      BY <3>2 DEF Places
    <3>4. w = a[j] - 1 /\ ScannedWord(walk, a[j] - 1)
      BY <3>1, <3>3
    <3> QED
      BY <3>4
  <2>2. w + 1 \in 1 .. NumWords /\ (w + 1) - 1 = w
    BY <1>1, <1>2
  <2> QED
    BY <2>1, <2>2
<1> HIDE DEF parts, kept
<1>9. /\ ScanFrom(w) \in Seq(Entries)
      /\ StartsWith(ScanFrom(w), EntriesOf(walk, w))
      /\ \E d \in Nat : RestOf(scan, ScanFrom(w), d)
  BY <1>2, <1>4, <1>6, <1>7, <1>8, ConcatenationRest
<1>10. /\ Len(EntriesOf(walk, w)) = Len(walk[w])
       /\ \A c \in 1 .. Len(walk[w]) :
            EntriesOf(walk, w)[c].word = w /\ EntriesOf(walk, w)[c].cpos = c
  BY EntriesOfWord, EntryOfWord
<1> QED
  BY <1>9, <1>10 DEF StartsWith

(* A locator leads its planner to the first row of the slice, with nothing *)
(* in front of it but the rest of the scan.                                *)
LEMMA LocatorBegins ==
  ASSUME IInv, ScanOrdered, scan = Scan(walk), NEW k \in 0 .. Len(locators) - 1
  PROVE  LET l == locators[k + 1]
         IN  \E s, d \in Nat :
               /\ BeginsAt(k, s, FirstSkip(k, l))
               /\ RestOf(scan, ScanFrom(l.word), d) /\ Len(ScanFrom(l.word)) \in Nat
               /\ d < s /\ FirstRank(k, l) = s - d
<1> DEFINE l == locators[k + 1]
<1>1. PICK s \in 1 .. Len(scan) :
        /\ scan[s].word = l.word /\ scan[s].cpos = FirstRank(k, l)
        /\ k = 0 => s = 1 /\ FirstSkip(k, l) = 0
        /\ k # 0 => /\ FirstSkip(k, l) \in 1 .. scan[s].count
                   /\ RowsBefore(s) + FirstSkip(k, l) = k * Rows
  BY LocatorFindsEntry
<1> HIDE DEF l
<1>2. PICK w \in Words, c \in 1 .. Len(walk[l.word]) : w = l.word /\ c = FirstRank(k, l)
  <2>1. l.word \in Words /\ scan[s].cpos \in DOMAIN walk[l.word]
    BY <1>1, StateFacts DEF IInv, ScanFaithful
  <2>2. walk[l.word] \in Seq([chunk : Chunks, count : Nat \ {0}])
    BY <2>1, ScanAssumption DEF IInv, TypeOK, Tables
  <2>3. scan[s].cpos \in 1 .. Len(walk[l.word])
    BY <2>1, <2>2
  <2> QED
    BY <1>1, <2>1, <2>3
<1>3. /\ ScanFrom(w) \in Seq(Entries)
      /\ \E d \in Nat : RestOf(scan, ScanFrom(w), d)
      /\ Len(walk[w]) <= Len(ScanFrom(w))
      /\ \A i \in 1 .. Len(walk[w]) : ScanFrom(w)[i].word = w /\ ScanFrom(w)[i].cpos = i
  BY <1>1, <1>2, ScanFromIsRest DEF IInv, TypeOK
<1>4. PICK d \in Nat : RestOf(scan, ScanFrom(w), d)
  BY <1>3
<1>5. PICK m \in Nat, n \in Nat, u \in Nat : m = Len(ScanFrom(w)) /\ n = Len(scan) /\ u = c
  <2>1. Len(ScanFrom(w)) \in Nat
    BY <1>3
  <2>2. c \in Nat
    BY <1>2
  <2> QED
    BY <2>1, <2>2, StateFacts
<1>6. u \in 1 .. m /\ d + u \in 1 .. n
  <2>1. PICK v \in Nat : v = Len(walk[w])
    <3>1. walk[w] \in Seq([chunk : Chunks, count : Nat \ {0}])
      BY ScanAssumption DEF IInv, TypeOK, Tables
    <3> QED
      BY <3>1
  <2>2. u \in 1 .. v /\ v <= m /\ n = d + m
    BY <1>2, <1>3, <1>4, <1>5, <2>1 DEF RestOf
  <2> QED
    BY <1>5, <2>1, <2>2
<1>7. scan[d + u].word = scan[s].word /\ scan[d + u].cpos = scan[s].cpos
  <2>1. ScanFrom(w)[u] = scan[d + u]
    BY <1>4, <1>5, <1>6 DEF RestOf
  <2> QED
    BY <1>1, <1>2, <1>3, <1>5, <2>1
<1>8. d + u = s
  BY <1>5, <1>6, <1>7, EntryIsOnce
<1>9. BeginsAt(k, s, FirstSkip(k, l))
  <2>1. CASE k = 0
    <3>1. RowsBefore(1) = 0 /\ scan[1].count \in Nat /\ 0 * Rows = 0
      BY <1>1, <2>1, StateFacts, RowsBeforeDef DEF IInv, TypeOK
    <3> QED
      BY <1>1, <2>1, <3>1 DEF BeginsAt
  <2>2. CASE k # 0
    <3>1. /\ FirstSkip(k, l) \in 1 .. scan[s].count /\ scan[s].count \in Nat
          /\ RowsBefore(s) + FirstSkip(k, l) = k * Rows
      BY <1>1, <2>2, StateFacts
    <3>2. FirstSkip(k, l) \in 0 .. scan[s].count /\ FirstSkip(k, l) # 0
      BY <3>1
    <3> QED
      BY <1>1, <2>2, <3>1, <3>2 DEF BeginsAt
  <2> QED
    BY <2>1, <2>2
<1>10. s \in Nat /\ d < s /\ FirstRank(k, l) = s - d
  BY <1>2, <1>5, <1>6, <1>8
<1> QED
  BY <1>2, <1>4, <1>5, <1>9, <1>10 DEF l

(* The scan stays that of the tables, in order, and the newest segment is  *)
(* its slice.                                                              *)
PlanInv == ScanOrdered /\ scan = Scan(walk) /\ SegmentsAreSlices

LEMMA InitPlanInv == Init => PlanInv
<1> SUFFICES ASSUME Init PROVE PlanInv
  OBVIOUS
<1>1. ScanOrdered /\ scan = Scan(walk)
  BY ScanOfTable DEF Init
<1>2. SegmentsAreSlices
  BY DEF Init, SegmentsAreSlices
<1> QED
  BY <1>1, <1>2 DEF PlanInv

(* No slice changes as long as the scan does not.                          *)
LEMMA SliceStays ==
  ASSUME UNCHANGED scan
  PROVE  ScanOrdered' = ScanOrdered /\ \A k : Slice(k)' = Slice(k)
<1>1. \A i : RowsBefore(i)' = RowsBefore(i)
  BY DEF RowsBefore, RowCounts
<1>2. \A i, k : RowsInSlice(i, k)' = RowsInSlice(i, k)
  BY <1>1 DEF RowsInSlice, RowsUpTo
<1>3. \A k : InSlice(k)' = InSlice(k)
  BY <1>1, <1>2 DEF InSlice, RowsUpTo
<1>4. ASSUME NEW k, NEW c PROVE SliceCheckPoint(k, c)' = SliceCheckPoint(k, c)
  <2>1. \A i : RowOf(k, i)' = RowOf(k, i)
    BY <1>1, <1>2, <1>3 DEF RowOf
  <2>2. [i \in DOMAIN scan |->
           IF i \in {j \in InSlice(k) : scan[j].chunk = c} THEN RowsInSlice(i, k) ELSE 0]'
          = [i \in DOMAIN scan |->
               IF i \in {j \in InSlice(k) : scan[j].chunk = c} THEN RowsInSlice(i, k) ELSE 0]
    BY <1>2, <1>3
  <2>3. {i \in InSlice(k) : scan[i].chunk = c}' = {i \in InSlice(k) : scan[i].chunk = c}
    BY <1>3
  <2> QED
    BY <1>1, <1>2, <2>1, <2>2, <2>3 DEF SliceCheckPoint
<1>5. \A k : Slice(k)' = Slice(k)
  BY <1>3, <1>4 DEF Slice
<1>6. ScanOrdered' = ScanOrdered
  BY DEF ScanOrdered
<1> QED
  BY <1>5, <1>6

LEMMA NextPlanInv ==
  ASSUME IInv, PlanInv, [Next]_vars
  PROVE  PlanInv'
<1>1. UNCHANGED <<walk, scan>>
  BY DEF Next, vars, PushFirstLocator, ConsumeEntry, PushLocator, SetCompleted,
         ExecuteFromLocator, Finished
<1>2. ScanOrdered' /\ (scan = Scan(walk))' /\ \A k : Slice(k)' = Slice(k)
  BY <1>1, SliceStays DEF PlanInv
<1>3. CASE UNCHANGED segments
  BY <1>2, <1>3 DEF PlanInv, SegmentsAreSlices, Last
<1>4. CASE ExecuteFromLocator
  <2>1. PICK k, l, b : /\ k = Len(segments) /\ l = locators[k + 1] /\ b = Build(k, l)
                       /\ k \in Nat /\ k < Len(locators) /\ segments' = Append(segments, b)
    BY <1>4 DEF ExecuteFromLocator, IInv, PlansTyped
  <2>2. k \in 0 .. Len(locators) - 1
    BY <2>1, StateFacts
  <2>3. PICK s \in Nat, d \in Nat :
          /\ BeginsAt(k, s, FirstSkip(k, l))
          /\ RestOf(scan, ScanFrom(l.word), d) /\ Len(ScanFrom(l.word)) \in Nat
          /\ d < s /\ FirstRank(k, l) = s - d
    BY <2>1, <2>2, LocatorBegins DEF PlanInv
  <2>4. Recorded(k, Len(scan), b.chunks)
    BY <2>1, <2>3, FillingFills DEF PlanInv, Build
  <2>5. b.chunks = Slice(k)
    BY <2>1, <2>4, RecordedIsSlice
  <2>6. Len(segments') = k + 1 /\ segments'[k + 1] = b
    BY <2>1 DEF IInv, PlansTyped
  <2>7. Last(segments)' = b /\ (Len(segments) - 1)' = k
    BY <2>1, <2>6 DEF Last
  <2>8. (Last(segments).chunks = Slice(Len(segments) - 1))'
    BY <1>2, <2>5, <2>7
  <2> QED
    BY <1>2, <2>8 DEF PlanInv, SegmentsAreSlices
<1> QED
  BY <1>3, <1>4 DEF Next, vars, PushFirstLocator, ConsumeEntry, PushLocator, SetCompleted, Finished

(* A segment that a planner has built from its locator alone is its slice  *)
(* of the list of rows: for every chunk the check point has the address,   *)
(* the skip and the rows the list says.                                    *)
THEOREM RamSegmentsAreSlices == Spec => []SegmentsAreSlices
<1>1. Init => PlanInv
  BY InitPlanInv
<1>2. IInv /\ PlanInv /\ [Next]_vars => PlanInv'
  BY NextPlanInv
<1>3. PlanInv => SegmentsAreSlices
  BY DEF PlanInv
<1> QED
  BY <1>1, <1>2, <1>3, Invariance, PTL DEF Spec

=============================================================================
