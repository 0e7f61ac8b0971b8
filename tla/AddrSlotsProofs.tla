--------------------------- MODULE AddrSlotsProofs ----------------------------
(***************************************************************************)
(* Proofs about AddrSlots, for any number of words, blocks, chunks and     *)
(* any even size of a block.                                               *)
(*                                                                         *)
(* Chain(o) is defined by walking the store, which says little about the   *)
(* next state.  The proofs therefore turn it round: IsChain(o, c) says     *)
(* what makes a sequence of positions the chain of a word, without any     *)
(* recursion - where its entries lie, that each follows the one before it, *)
(* that none occurs twice, that the ring is closed, and which words the    *)
(* first two blocks hold.  ChainIs shows that the walk then yields c:      *)
(* WalkFrom has as much fuel as there are words, and the positions of a    *)
(* chain are distinct words.  ChainGrows is the one construction every     *)
(* access that takes a new entry goes through, SameChain what all others   *)
(* keep.                                                                   *)
(*                                                                         *)
(* The inductive invariant adds the partition of the blocks, by which the  *)
(* words written for one word belong to no other, the totals, and the      *)
(* limits of the pages as extremes.  The same lemmas give the step of      *)
(* AddrHistory that each call of count_aligned is.                         *)
(***************************************************************************)
EXTENDS AddrSlots, AccumulationProofs, FiniteSetTheorems, SequenceTheorems

(* The place of a position in its block.                                   *)
Rem(pos) == pos % SlotSize

(* The first position behind the blocks handed out.                        *)
Used == free_slot * SlotSize

(* A position is the beginning of its block and the place in the block.    *)
LEMMA PositionSplit ==
  ASSUME NEW p \in Nat
  PROVE  /\ BlockOf(p) \in Nat /\ Rem(p) \in 0 .. SlotSize - 1
         /\ p = BlockOf(p) + Rem(p)
         /\ \E s \in Nat : BlockOf(p) = s * SlotSize
<1> DEFINE S == SlotSize
           s == p \div S
<1>1. S \in Nat \ {0}
  BY SlotsAssumption
<1>2. p % S \in 0 .. S - 1 /\ p % S <= p
  <2> HIDE DEF S
  <2> QED
    BY <1>1
<1>3. s \in Nat /\ p = s * S + (p % S)
  <2> HIDE DEF S
  <2> QED
    BY <1>1
<1>4. s * S \in Nat
  BY <1>1, <1>3
<1>5. BlockOf(p) = p - Rem(p) /\ Rem(p) = p % S
  BY DEF BlockOf, Rem
<1> DEFINE r == p % S
<1>6. BlockOf(p) = s * S /\ p = s * S + r /\ r \in 0 .. S - 1 /\ Rem(p) = r
  BY <1>2, <1>3, <1>4, <1>5
<1> HIDE DEF r, s
<1> QED
  BY <1>3, <1>4, <1>6

(* The same for any beginning of a block and any place in it.              *)
LEMMA PositionOf ==
  ASSUME NEW s \in Nat, NEW r \in 0 .. SlotSize - 1
  PROVE  /\ s * SlotSize + r \in Nat
         /\ Rem(s * SlotSize + r) = r
         /\ BlockOf(s * SlotSize + r) = s * SlotSize
<1> DEFINE S == SlotSize
           p == s * S + r
<1>1. S \in Nat \ {0} /\ s * S \in Nat /\ p \in Nat
  BY SlotsAssumption
<1>2. p % S = r
  <2> DEFINE t == p \div S
             q == p % S
  <2>1. t \in Nat /\ q \in 0 .. S - 1 /\ p = t * S + q
    <3> HIDE DEF S, p
    <3> QED
      BY <1>1
  <2>2. t = s
    <3>1. r \in 0 .. S - 1
      OBVIOUS
    <3>2. s * S + r = t * S + q
      BY <2>1
    <3> HIDE DEF t, q, p, S
    <3>3. ~(t < s)
      <4> SUFFICES ASSUME t < s PROVE FALSE
        OBVIOUS
      <4>1. (t + 1) * S <= s * S
        BY <1>1, <2>1
      <4>2. (t + 1) * S = t * S + S /\ t * S \in Nat
        BY <1>1, <2>1
      <4> QED
        BY <1>1, <2>1, <3>1, <3>2, <4>1, <4>2
    <3>4. ~(s < t)
      <4> SUFFICES ASSUME s < t PROVE FALSE
        OBVIOUS
      <4>1. (s + 1) * S <= t * S
        BY <1>1, <2>1
      <4>2. (s + 1) * S = s * S + S /\ t * S \in Nat
        BY <1>1, <2>1
      <4> QED
        BY <1>1, <2>1, <3>1, <3>2, <4>1, <4>2
    <3> QED
      BY <2>1, <3>3, <3>4
  <2>3. p = s * S + q
    BY <2>1, <2>2
  <2> HIDE DEF t, q
  <2> QED
    BY <1>1, <2>1, <2>3 DEF q
<1> QED
  BY <1>1, <1>2 DEF Rem, BlockOf

(* The words of a block.                                                   *)
LEMMA InBlock ==
  ASSUME NEW p \in Nat, NEW r \in 0 .. SlotSize - 1
  PROVE  /\ BlockOf(p) + r \in Nat
         /\ Rem(BlockOf(p) + r) = r
         /\ BlockOf(BlockOf(p) + r) = BlockOf(p)
<1>1. PICK s \in Nat : BlockOf(p) = s * SlotSize
  BY PositionSplit
<1> QED
  BY <1>1, PositionOf

(* A block lies before a multiple of the size of a block or behind it.     *)
LEMMA WholeBlocks ==
  ASSUME NEW p \in Nat, NEW s \in Nat, p < s * SlotSize
  PROVE  BlockOf(p) + SlotSize <= s * SlotSize
<1> DEFINE S == SlotSize
<1>1. PICK t \in Nat : BlockOf(p) = t * S
  BY PositionSplit
<1>2. S \in Nat \ {0} /\ BlockOf(p) <= p
  <2>1. BlockOf(p) \in Nat /\ p = BlockOf(p) + Rem(p)
    BY PositionSplit
  <2>2. Rem(p) \in 0 .. SlotSize - 1 /\ SlotSize \in Nat
    BY PositionSplit, SlotsAssumption
  <2> QED
    BY <2>1, <2>2, SlotsAssumption
<1>3. t * S < s * S
  <2>1. s * S \in Nat /\ t * S \in Nat
    BY <1>2
  <2> QED
    BY <1>1, <1>2, <2>1
<1>4. t + 1 <= s
  <2> HIDE DEF S
  <2> QED
    BY <1>2, <1>3
<1>5. (t + 1) * S <= s * S
  <2> HIDE DEF S
  <2> QED
    BY <1>2, <1>4
<1>6. (t + 1) * S = t * S + S
  <2> HIDE DEF S
  <2> QED
    BY <1>2
<1> QED
  BY <1>1, <1>5, <1>6

-----------------------------------------------------------------------------
(* Walks                                                                   *)

Fuel == Slots * SlotSize

(* What w is of WalkFrom's recursion, up to n steps.                       *)
Walks(o, w, n) ==
  w = [fuel \in 0 .. n |->
         [cpos \in Nat |->
            IF cpos = 0 \/ fuel = 0 THEN <<>>
            ELSE <<cpos>> \o (IF cpos = Pos(o) THEN <<>>
                                               ELSE w[fuel - 1][NextPos(cpos + 1)])]]

(* The recursion has a solution, whatever the store holds.                 *)
LEMMA WalksExist ==
  ASSUME NEW o, NEW n \in Nat
  PROVE  \E w : Walks(o, w, n)
<1> DEFINE Level(f, fuel) ==
             [cpos \in Nat |->
                IF cpos = 0 \/ fuel = 0 THEN <<>>
                ELSE <<cpos>> \o (IF cpos = Pos(o) THEN <<>> ELSE f[NextPos(cpos + 1)])]
           Solves(w, m) == w = [fuel \in 0 .. m |-> Level(w[fuel - 1], fuel)]
           T == {m \in 0 .. n : \E w : Solves(w, m)}
<1>1. 0 \in T
  <2> DEFINE w == [fuel \in 0 .. 0 |-> [cpos \in Nat |-> <<>>]]
  <2>1. \A f : Level(f, 0) = [cpos \in Nat |-> <<>>]
    OBVIOUS
  <2> HIDE DEF Level
  <2>2. Solves(w, 0)
    BY <2>1
  <2> QED
    BY <2>2
<1> HIDE DEF Level
<1>2. ASSUME NEW m \in 0 .. n - 1, m \in T PROVE m + 1 \in T
  <2>1. PICK w : Solves(w, m)
    BY <1>2
  <2> DEFINE v == [fuel \in 0 .. m + 1 |-> Level(w[fuel - 1], fuel)]
  <2>2. \A fuel \in 0 .. m : v[fuel] = w[fuel]
    BY <2>1
  <2>3. \A fuel \in 1 .. m + 1 : v[fuel - 1] = w[fuel - 1]
    <3> HIDE DEF v
    <3> QED
      BY <2>2
  <2>4. Solves(v, m + 1)
    <3>1. \A fuel \in 1 .. m + 1 : Level(w[fuel - 1], fuel) = Level(v[fuel - 1], fuel)
      BY <2>3
    <3>2. Level(w[0 - 1], 0) = Level(v[0 - 1], 0)
      BY DEF Level
    <3>3. \A fuel \in 0 .. m + 1 : fuel = 0 \/ fuel \in 1 .. m + 1
      OBVIOUS
    <3>4. \A fuel \in 0 .. m + 1 : Level(w[fuel - 1], fuel) = Level(v[fuel - 1], fuel)
      BY <3>1, <3>2, <3>3
    <3> QED
      BY <3>4
  <2>5. m + 1 \in 0 .. n
    OBVIOUS
  <2> HIDE DEF v, Solves
  <2> QED
    BY <2>4, <2>5
<1>3. \A m \in 0 .. n : m \in T
  <2> HIDE DEF T
  <2> QED
    BY <1>1, <1>2, IntervalInduction
<1>4. PICK w : Solves(w, n)
  BY <1>3
<1>5. Walks(o, w, n)
  BY <1>4 DEF Walks, Level
<1> QED
  BY <1>5

(* WalkFrom takes it.                                                      *)
LEMMA WalkFromWalks ==
  ASSUME NEW o, Fuel \in Nat
  PROVE  \E w : Walks(o, w, Fuel) /\ \A from : WalkFrom(o, from) = w[Fuel][from]
<1> DEFINE w == CHOOSE f : Walks(o, f, Fuel)
<1>1. Walks(o, w, Fuel)
  BY WalksExist
<1>2. \A from : WalkFrom(o, from) = w[Fuel][from]
  BY DEF WalkFrom, Walks, Fuel
<1> QED
  BY <1>1, <1>2

(* Positions that lead to one another and to the newest entry of o.        *)
Leads(o, c) ==
  /\ c \in Seq(Nat \ {0})
  /\ c # <<>>
  /\ c[Len(c)] = Pos(o)
  /\ \A i \in 1 .. Len(c) - 1 : c[i] # Pos(o) /\ NextPos(c[i] + 1) = c[i + 1]

(* The walk from one of them goes over it and those behind it.             *)
LEMMA WalkFromLeads ==
  ASSUME NEW o, NEW c, Leads(o, c), Fuel \in Nat, Len(c) <= Fuel, NEW j \in 1 .. Len(c)
  PROVE  WalkFrom(o, c[j]) = SubSeq(c, j, Len(c))
<1> DEFINE m == Len(c)
<1>1. m \in Nat \ {0} /\ DOMAIN c = 1 .. m /\ \A i \in 1 .. m : c[i] \in Nat \ {0}
  BY SeqIsFunction DEF Leads
<1>2. c[m] = Pos(o) /\ \A i \in 1 .. m - 1 : c[i] # Pos(o) /\ NextPos(c[i] + 1) = c[i + 1]
  BY DEF Leads
<1>3. PICK w : Walks(o, w, Fuel) /\ \A from : WalkFrom(o, from) = w[Fuel][from]
  BY WalkFromWalks
<1>4. c \in Seq(Nat \ {0})
  BY DEF Leads
<1> HIDE DEF m
<1>5. \A f \in 1 .. Fuel, i \in 1 .. m :
        w[f][c[i]] = <<c[i]>> \o (IF i = m THEN <<>> ELSE w[f - 1][c[i + 1]])
  <2> SUFFICES ASSUME NEW f \in 1 .. Fuel, NEW i \in 1 .. m
               PROVE  w[f][c[i]] = <<c[i]>> \o (IF i = m THEN <<>> ELSE w[f - 1][c[i + 1]])
    OBVIOUS
  <2>1. f \in 0 .. Fuel /\ c[i] \in Nat /\ c[i] # 0 /\ f # 0
    BY <1>1
  <2>2. w[f][c[i]] = <<c[i]>> \o (IF c[i] = Pos(o) THEN <<>>
                                   ELSE w[f - 1][NextPos(c[i] + 1)])
    <3>1. w[f] = [cpos \in Nat |->
                    IF cpos = 0 \/ f = 0 THEN <<>>
                    ELSE <<cpos>> \o (IF cpos = Pos(o) THEN <<>>
                                      ELSE w[f - 1][NextPos(cpos + 1)])]
      BY <1>3, <2>1 DEF Walks
    <3> DEFINE p == c[i]
    <3>2. p \in Nat /\ p # 0
      BY <2>1
    <3> HIDE DEF p
    <3>3. w[f][p] = <<p>> \o (IF p = Pos(o) THEN <<>> ELSE w[f - 1][NextPos(p + 1)])
      BY <2>1, <3>1, <3>2
    <3> QED
      BY <3>3 DEF p
  <2>3. i # m => i \in 1 .. m - 1
    BY <1>1
  <2>4. (c[i] = Pos(o)) <=> (i = m)
    BY <1>2, <2>3
  <2> QED
    BY <1>2, <2>2, <2>3, <2>4
<1> DEFINE T == {k \in 0 .. m - 1 : \A f \in k + 1 .. Fuel :
                                      w[f][c[m - k]] = SubSeq(c, m - k, m)}
<1>6. 0 \in T
  <2>1. SubSeq(c, m, m) = <<c[m]>> \o <<>>
    <3>1. SubSeq(c, m, m) = <<c[m]>> \o SubSeq(c, m + 1, m)
      <4>1. m \in 1 .. Len(c) /\ m \in m .. Len(c)
        BY <1>1 DEF m
      <4> QED
        BY <1>4, <4>1, SubSeqRecursiveFirst
    <3>2. SubSeq(c, m + 1, m) = <<>>
      BY <1>1, SubSeqEmpty
    <3> QED
      BY <3>1, <3>2
  <2>2. ASSUME NEW f \in 1 .. Fuel PROVE w[f][c[m]] = <<c[m]>> \o <<>>
    <3>1. m \in 1 .. m
      BY <1>1
    <3>2. w[f][c[m]] = <<c[m]>> \o (IF m = m THEN <<>> ELSE w[f - 1][c[m + 1]])
      BY <1>5, <3>1
    <3> QED
      BY <3>2
  <2>4. m - 0 = m /\ 0 \in 0 .. m - 1 /\ 0 + 1 = 1
    BY <1>1
  <2> QED
    BY <2>1, <2>2, <2>4
<1>7. ASSUME NEW k \in 0 .. (m - 1) - 1, k \in T PROVE k + 1 \in T
  <2> DEFINE i == m - (k + 1)
  <2>1. i \in 1 .. m - 1 /\ i + 1 = m - k /\ i # m /\ k + 1 \in 0 .. m - 1
    BY <1>1
  <2> HIDE DEF i
  <2>2. <<c[i]>> \o SubSeq(c, i + 1, m) = SubSeq(c, i, m)
    <3>1. i \in 1 .. m /\ m \in i .. m
      BY <1>1, <2>1
    <3>2. m = Len(c)
      BY DEF m
    <3> QED
      BY <1>4, <3>1, <3>2, SubSeqRecursiveFirst
  <2>3. ASSUME NEW f \in (k + 1) + 1 .. Fuel
        PROVE  w[f][c[i]] = SubSeq(c, i, m)
    <3>1. f \in 1 .. Fuel /\ f - 1 \in k + 1 .. Fuel /\ i \in 1 .. m
      BY <1>1, <2>1
    <3>2. w[f - 1][c[m - k]] = SubSeq(c, m - k, m)
      BY <1>7, <3>1
    <3>3. w[f - 1][c[i + 1]] = SubSeq(c, i + 1, m)
      BY <2>1, <3>2
    <3> QED
      BY <1>5, <2>1, <2>2, <3>1, <3>3
  <2> QED
    BY <2>1, <2>3 DEF i
<1>8. \A k \in 0 .. m - 1 : k \in T
  <2>1. 0 \in Int /\ m - 1 \in Int
    BY <1>1
  <2> HIDE DEF T
  <2> QED
    BY <1>6, <1>7, <2>1, IntervalInduction
<1>9. m - j \in 0 .. m - 1 /\ m - (m - j) = j /\ Fuel \in (m - j) + 1 .. Fuel
  BY <1>1 DEF m
<1>10. w[Fuel][c[j]] = SubSeq(c, j, m)
  BY <1>8, <1>9
<1> QED
  BY <1>3, <1>10 DEF m

-----------------------------------------------------------------------------
(* Chains                                                                  *)

LastPlace == SlotSize - 2

(* A position for an entry in a block that was handed out.                 *)
Placed(p) ==
  /\ p \in Nat
  /\ Rem(p) \in 2 .. LastPlace
  /\ Rem(p) % 2 = 0
  /\ p < Used

(* The entry behind the one at p: the next of the block, or the first of   *)
(* the block that the link of the block names.                             *)
Follows(p, q) ==
  IF Rem(p) = LastPlace
    THEN Rem(q) = 2 /\ BlockOf(q) # 0 /\ addr_slots[BlockOf(p) + 1] = BlockOf(q)
    ELSE q = p + 2

Typed(c) ==
  /\ c \in Seq(Nat)
  /\ \A i \in 1 .. Len(c) :
       Placed(c[i]) /\ addr_slots[c[i]] \in Nat /\ addr_slots[c[i] + 1] \in Nat

Linked(c) == \A i \in 1 .. Len(c) - 1 : Follows(c[i], c[i + 1])

Distinct(c) == \A i, j \in 1 .. Len(c) : i # j => c[i] # c[j]

(* The last entry is that of the table, the ring leads from its block to   *)
(* the first, and nothing of the block behind the entry is used.           *)
Closed(o, c) ==
  /\ c = <<>> <=> Pos(o) = 0
  /\ c # <<>> => /\ c[Len(c)] = Pos(o)
                 /\ addr_slots[BlockOf(Pos(o)) + 1] = BlockOf(c[1])
  /\ \A i \in 1 .. Len(c) : BlockOf(c[i]) = BlockOf(Pos(o)) => c[i] <= Pos(o)

(* Which entries the first two blocks hold, and what word 0 of a block of  *)
(* the chain can be.                                                       *)
FirstBlocks(c) ==
  \A i \in 1 .. Len(c) :
    IF i <= EntriesPerBlock
      THEN /\ BlockOf(c[i]) = BlockOf(c[1])
           /\ Rem(c[i]) = 2 * i
           /\ addr_slots[BlockOf(c[i])] = 0
      ELSE /\ BlockOf(c[i]) \notin {0, BlockOf(c[1])}
           /\ IF i <= 2 * EntriesPerBlock
                THEN /\ BlockOf(c[i]) = BlockOf(c[EntriesPerBlock + 1])
                     /\ Rem(c[i]) = 2 * (i - EntriesPerBlock)
                     /\ addr_slots[BlockOf(c[i])] = BlockOf(c[1])
                ELSE /\ BlockOf(c[i]) # BlockOf(c[EntriesPerBlock + 1])
                     /\ addr_slots[BlockOf(c[i])] # 0

IsChain(o, c) == Typed(c) /\ Linked(c) /\ Distinct(c) /\ Closed(o, c) /\ FirstBlocks(c)

(* The size of a block is a number, and it holds a number of entries.      *)
LEMMA BlockSize ==
  /\ SlotSize \in Nat /\ SlotSize >= 4 /\ LastPlace \in Nat /\ LastPlace = SlotSize - 2
  /\ EntriesPerBlock \in Nat \ {0} /\ 2 * EntriesPerBlock = LastPlace
  /\ Slots \in Nat /\ Fuel \in Nat /\ Words = 0 .. Fuel - 1
<1>1. SlotSize \in Nat /\ SlotSize >= 4 /\ SlotSize % 2 = 0 /\ Slots \in Nat
  BY SlotsAssumption
<1>2. Fuel \in Nat
  <2>1. Slots * SlotSize \in Nat
    BY <1>1
  <2> QED
    BY <2>1 DEF Fuel
<1> QED
  BY <1>1, <1>2 DEF LastPlace, EntriesPerBlock, Words, Fuel

(* The blocks handed out lie in the array.                                 *)
LEMMA UsedType ==
  ASSUME free_slot \in 0 .. Slots
  PROVE  Used \in Nat /\ Used <= Fuel
<1> DEFINE S == SlotSize
           f == free_slot
<1>1. S \in Nat /\ Slots \in Nat /\ f \in Nat /\ f <= Slots
  BY BlockSize
<1>2. f * S \in Nat /\ f * S <= Slots * S
  <2> HIDE DEF S, f
  <2> QED
    BY <1>1
<1> QED
  BY <1>2 DEF Used, Fuel

(* The words that belong to an entry are words of its block.               *)
LEMMA PlacedFacts ==
  ASSUME free_slot \in 0 .. Slots, NEW p, Placed(p)
  PROVE  /\ BlockOf(p) \in Nat /\ Rem(p) \in Nat /\ p = BlockOf(p) + Rem(p)
         /\ BlockOf(p) + SlotSize <= Used
         /\ p \in Words /\ p + 1 \in Words /\ BlockOf(p) \in Words /\ BlockOf(p) + 1 \in Words
         /\ BlockOf(p + 1) = BlockOf(p) /\ Rem(p + 1) = Rem(p) + 1
         /\ BlockOf(BlockOf(p)) = BlockOf(p) /\ Rem(BlockOf(p)) = 0
         /\ BlockOf(BlockOf(p) + 1) = BlockOf(p) /\ Rem(BlockOf(p) + 1) = 1
         /\ Rem(p) # LastPlace => BlockOf(p + 2) = BlockOf(p) /\ Rem(p + 2) = Rem(p) + 2
                                  /\ Rem(p + 2) \in 2 .. LastPlace
<1> DEFINE b == BlockOf(p)
           r == Rem(p)
<1>1. p \in Nat /\ r \in 2 .. LastPlace /\ r % 2 = 0 /\ p < Used
  BY DEF Placed
<1>2. b \in Nat /\ p = b + r
  BY <1>1, PositionSplit
<1>3. b + SlotSize <= Used
  <2>1. free_slot \in Nat
    BY BlockSize
  <2> QED
    BY <1>1, <2>1, WholeBlocks DEF Used
<1>4. Used \in Nat /\ Used <= Fuel
  BY UsedType
<1>5. \A k \in 0 .. SlotSize - 1 : Rem(b + k) = k /\ BlockOf(b + k) = b
  BY <1>1, InBlock
<1> HIDE DEF b, r
<1>6. /\ r \in 0 .. SlotSize - 1 /\ r + 1 \in 0 .. SlotSize - 1
      /\ 0 \in 0 .. SlotSize - 1 /\ 1 \in 0 .. SlotSize - 1
      /\ p + 1 = b + (r + 1) /\ b + 0 = b
  BY <1>1, <1>2, BlockSize
<1>7. /\ p \in Words /\ p + 1 \in Words /\ b \in Words /\ b + 1 \in Words
  BY <1>1, <1>2, <1>3, <1>4, <1>6, BlockSize
<1>8. r # LastPlace => r + 2 \in 0 .. SlotSize - 1 /\ p + 2 = b + (r + 2) /\ r + 2 \in 2 .. LastPlace
  <2>1. LastPlace % 2 = 0
    BY BlockSize
  <2> QED
    BY <1>1, <1>2, <2>1, BlockSize
<1>9. /\ BlockOf(p + 1) = b /\ Rem(p + 1) = r + 1
      /\ BlockOf(b) = b /\ Rem(b) = 0
      /\ BlockOf(b + 1) = b /\ Rem(b + 1) = 1
  BY <1>5, <1>6
<1>10. r # LastPlace => BlockOf(p + 2) = b /\ Rem(p + 2) = r + 2 /\ r + 2 \in 2 .. LastPlace
  BY <1>5, <1>8
<1>11. r \in Nat
  BY <1>1, BlockSize
<1> QED
  BY <1>2, <1>3, <1>7, <1>9, <1>10, <1>11 DEF b, r

(* get_next_pos goes to the entry that follows.                            *)
LEMMA NextPosFollows ==
  ASSUME free_slot \in 0 .. Slots, NEW p, NEW q, Placed(p), Placed(q), Follows(p, q)
  PROVE  NextPos(p + 1) = q
<1>1. NextPos(p + 1) = IF Rem(p + 1) < SlotSize - 1 THEN (p + 1) + 1
                       ELSE IF addr_slots[BlockOf(p + 1) + 1] # 0
                              THEN addr_slots[BlockOf(p + 1) + 1] + 2 ELSE 0
  BY DEF NextPos, Rem
<1>2. BlockOf(p + 1) = BlockOf(p) /\ Rem(p + 1) = Rem(p) + 1 /\ Rem(p) \in 2 .. LastPlace
  BY PlacedFacts DEF Placed
<1>3. CASE Rem(p) = LastPlace
  <2>1. Rem(q) = 2 /\ BlockOf(q) # 0 /\ addr_slots[BlockOf(p) + 1] = BlockOf(q)
    BY <1>3 DEF Follows
  <2>2. q = BlockOf(q) + 2
    BY <2>1, PlacedFacts
  <2>3. ~(Rem(p + 1) < SlotSize - 1)
    BY <1>2, <1>3, BlockSize
  <2> QED
    BY <1>1, <1>2, <2>1, <2>2, <2>3
<1>4. CASE Rem(p) # LastPlace
  <2>1. q = p + 2 /\ p \in Nat
    BY <1>4 DEF Follows, Placed
  <2>2. Rem(p + 1) < SlotSize - 1
    BY <1>2, <1>4, BlockSize
  <2> QED
    BY <1>1, <2>1, <2>2
<1> QED
  BY <1>3, <1>4

(* A chain leads to its last entry, and fits into the array.               *)
LEMMA ChainLeads ==
  ASSUME free_slot \in 0 .. Slots, NEW o, NEW c, IsChain(o, c), c # <<>>
  PROVE  Leads(o, c) /\ Len(c) <= Fuel
<1>1. Len(c) \in Nat \ {0} /\ DOMAIN c = 1 .. Len(c)
  BY DEF IsChain, Typed
<1>2. \A i \in 1 .. Len(c) : Placed(c[i])
  BY DEF IsChain, Typed
<1>3. \A i \in 1 .. Len(c) : c[i] \in Nat \ {0} /\ c[i] \in Words
  <2> SUFFICES ASSUME NEW i \in 1 .. Len(c)
               PROVE  c[i] \in Nat \ {0} /\ c[i] \in Words
    OBVIOUS
  <2>1. /\ BlockOf(c[i]) \in Nat /\ Rem(c[i]) \in 2 .. LastPlace
        /\ c[i] = BlockOf(c[i]) + Rem(c[i]) /\ c[i] \in Words
    BY <1>2, PlacedFacts DEF Placed
  <2> QED
    BY <2>1, BlockSize
<1>4. c \in Seq(Nat \ {0})
  <2>1. c \in [1 .. Len(c) -> Nat \ {0}]
    BY <1>1, <1>3 DEF IsChain, Typed
  <2> QED
    BY <1>1, <2>1, FunctionIsSeq
<1>5. ASSUME NEW i \in 1 .. Len(c) - 1
      PROVE  c[i] # Pos(o) /\ NextPos(c[i] + 1) = c[i + 1]
  <2> DEFINE m == Len(c)
  <2>1. i \in 1 .. m /\ i + 1 \in 1 .. m /\ m \in 1 .. m /\ i # m
    <3>1. m \in Nat \ {0} /\ i \in 1 .. m - 1
      BY <1>1
    <3> HIDE DEF m
    <3> QED
      BY <3>1
  <2>2. c[i] # c[Len(c)]
    BY <2>1 DEF IsChain, Distinct
  <2>3. Follows(c[i], c[i + 1])
    BY DEF IsChain, Linked
  <2> QED
    BY <1>2, <2>1, <2>2, <2>3, NextPosFollows DEF IsChain, Closed
<1>6. Leads(o, c)
  BY <1>4, <1>5 DEF Leads, IsChain, Closed
<1>7. Len(c) <= Fuel
  <2>1. c \in [1 .. Len(c) -> Words]
    BY <1>3, <1>4
  <2>2. IsInjective(c)
    BY <1>1 DEF IsChain, Distinct, IsInjective
  <2>3. IsFiniteSet(Words) /\ Cardinality(Words) = Fuel
    <3>1. Words = 0 .. Fuel - 1 /\ Fuel \in Nat
      BY BlockSize
    <3> QED
      BY <3>1, FS_Interval
  <2>4. IsFiniteSet(1 .. Len(c)) /\ Cardinality(1 .. Len(c)) = Len(c)
    BY <1>1, FS_Interval
  <2>5. c \in Injection(1 .. Len(c), Words)
    BY <2>1, <2>2 DEF Injection
  <2> QED
    BY <2>3, <2>4, <2>5, FS_Injection
<1> QED
  BY <1>6, <1>7

(* The sequence a chain is, is the walk along the ring.                    *)
LEMMA ChainIs ==
  free_slot \in 0 .. Slots => \A o, c : IsChain(o, c) => Chain(o) = c
<1> SUFFICES ASSUME free_slot \in 0 .. Slots, NEW o, NEW c, IsChain(o, c)
             PROVE  Chain(o) = c
  OBVIOUS
<1>1. CASE c = <<>>
  BY <1>1 DEF IsChain, Closed, Chain
<1>2. CASE c # <<>>
  <2>1. Leads(o, c) /\ Len(c) <= Fuel
    BY <1>2, ChainLeads
  <2>2. c \in Seq(Nat) /\ 1 \in 1 .. Len(c) /\ Placed(c[1])
    BY <1>2 DEF IsChain, Typed
  <2>3. Rem(c[1]) = 2
    BY <2>2, BlockSize DEF IsChain, FirstBlocks
  <2>4. c[1] = BlockOf(c[1]) + 2
    BY <2>2, <2>3, PlacedFacts
  <2>5. Pos(o) # 0 /\ addr_slots[BlockOf(Pos(o)) + 1] = BlockOf(c[1])
    BY <1>2 DEF IsChain, Closed
  <2>6. Chain(o) = WalkFrom(o, c[1])
    BY <2>4, <2>5 DEF Chain
  <2>7. WalkFrom(o, c[1]) = SubSeq(c, 1, Len(c))
    BY <2>1, <2>2, BlockSize, WalkFromLeads
  <2> QED
    BY <2>2, <2>6, <2>7, SubSeqFull
<1> QED
  BY <1>1, <1>2

(* What makes a longer chain of c and a new last entry at p.               *)
Grown(o, c, p) ==
  /\ Typed(c) /\ Linked(c) /\ Distinct(c) /\ FirstBlocks(c)
  /\ Placed(p) /\ addr_slots[p] \in Nat /\ addr_slots[p + 1] \in Nat
  /\ Pos(o) = p
  /\ \A i \in 1 .. Len(c) : BlockOf(c[i]) = BlockOf(p) => c[i] < p
  /\ IF c = <<>>
       THEN /\ Rem(p) = 2
            /\ addr_slots[BlockOf(p)] = 0
            /\ addr_slots[BlockOf(p) + 1] = BlockOf(p)
       ELSE /\ Follows(c[Len(c)], p)
            /\ addr_slots[BlockOf(p) + 1] = BlockOf(c[1])
            /\ Rem(c[Len(c)]) = LastPlace =>
                 /\ \A i \in 1 .. Len(c) : BlockOf(c[i]) # BlockOf(p)
                 /\ addr_slots[BlockOf(p)] = BlockOf(c[Len(c)])

(* It does.                                                                *)
LEMMA ChainGrows ==
  free_slot \in 0 .. Slots => \A o, c, p : Grown(o, c, p) => IsChain(o, Append(c, p))
<1> SUFFICES ASSUME free_slot \in 0 .. Slots, NEW o, NEW c, NEW p, Grown(o, c, p)
             PROVE  IsChain(o, Append(c, p))
  OBVIOUS
<1> DEFINE m == Len(c)
           d == Append(c, p)
           E == EntriesPerBlock
<1>1. c \in Seq(Nat) /\ p \in Nat /\ m \in Nat /\ DOMAIN c = 1 .. m
  BY DEF Grown, Typed, Placed
<1>2. /\ d \in Seq(Nat) /\ Len(d) = m + 1 /\ d[m + 1] = p /\ d # <<>>
      /\ \A i \in 1 .. m : d[i] = c[i]
  BY <1>1, AppendProperties
<1>3. (c = <<>>) <=> (m = 0)
  BY <1>1
<1> HIDE DEF m, d, E
<1>4. \A i \in 1 .. Len(d) : i \in 1 .. m \/ i = m + 1
  BY <1>1, <1>2
<1>5. Typed(d)
  BY <1>1, <1>2, <1>4 DEF Grown, Typed, m
<1>6. Linked(d)
  <2> SUFFICES ASSUME NEW i \in 1 .. m PROVE Follows(d[i], d[i + 1])
    BY <1>1, <1>2 DEF Linked
  <2>1. CASE i = m
    <3>1. m # 0 /\ d[i] = c[m] /\ d[i + 1] = p
      BY <1>1, <1>2, <2>1
    <3>2. c # <<>>
      BY <1>3, <3>1
    <3>3. Follows(c[m], p)
      BY <3>2 DEF Grown, m
    <3> QED
      BY <3>1, <3>3
  <2>2. CASE i # m
    <3>1. i \in 1 .. m - 1 /\ i + 1 \in 1 .. m
      BY <1>1, <2>2
    <3> QED
      BY <1>2, <3>1 DEF Grown, Linked, m
  <2> QED
    BY <2>1, <2>2
<1>7. \A i \in 1 .. m : c[i] # p
  BY <1>1 DEF Grown, m
<1>8. Distinct(d)
  BY <1>2, <1>4, <1>7 DEF Grown, Distinct, m
<1>9. d[1] = IF m = 0 THEN p ELSE c[1]
  BY <1>1, <1>2
<1>10. Closed(o, d)
  <2>1. d[Len(d)] = Pos(o) /\ Pos(o) = p
    BY <1>2 DEF Grown
  <2>2. Pos(o) # 0
    <3>1. p = BlockOf(p) + Rem(p) /\ BlockOf(p) \in Nat /\ Rem(p) \in 2 .. LastPlace
      BY PlacedFacts DEF Grown, Placed
    <3> QED
      BY <2>1, <3>1, BlockSize
  <2>3. addr_slots[BlockOf(Pos(o)) + 1] = BlockOf(d[1])
    BY <1>3, <1>9, <2>1 DEF Grown
  <2>4. \A i \in 1 .. Len(d) : BlockOf(d[i]) = BlockOf(p) => d[i] <= p
    <3> SUFFICES ASSUME NEW i \in 1 .. Len(d), BlockOf(d[i]) = BlockOf(p) PROVE d[i] <= p
      OBVIOUS
    <3>1. CASE i \in 1 .. m
      <4>1. d[i] = c[i] /\ c[i] < p /\ c[i] \in Nat
        BY <1>1, <1>2, <3>1 DEF Grown, m
      <4> QED
        BY <1>1, <4>1
    <3>2. CASE i = m + 1
      BY <1>1, <1>2, <3>2
    <3> QED
      BY <1>4, <3>1, <3>2
  <2> QED
    BY <1>2, <2>1, <2>2, <2>3, <2>4 DEF Closed
<1>11. FirstBlocks(d)
  <2> DEFINE First(e, i) ==
               IF i <= E
                 THEN /\ BlockOf(e[i]) = BlockOf(e[1])
                      /\ Rem(e[i]) = 2 * i
                      /\ addr_slots[BlockOf(e[i])] = 0
                 ELSE /\ BlockOf(e[i]) \notin {0, BlockOf(e[1])}
                      /\ IF i <= 2 * E
                           THEN /\ BlockOf(e[i]) = BlockOf(e[E + 1])
                                /\ Rem(e[i]) = 2 * (i - E)
                                /\ addr_slots[BlockOf(e[i])] = BlockOf(e[1])
                           ELSE /\ BlockOf(e[i]) # BlockOf(e[E + 1])
                                /\ addr_slots[BlockOf(e[i])] # 0
  <2>1. \A i \in 1 .. m : First(c, i)
    BY DEF Grown, FirstBlocks, E, m
  <2>2. E \in Nat \ {0} /\ 2 * E = LastPlace
    BY BlockSize DEF E
  <2>3. \A i \in 1 .. m : First(d, i)
    <3> SUFFICES ASSUME NEW i \in 1 .. m PROVE First(d, i)
      OBVIOUS
    <3>1. d[i] = c[i] /\ d[1] = c[1] /\ First(c, i)
      BY <1>1, <1>2, <2>1
    <3>2. i > E => d[E + 1] = c[E + 1]
      <4>1. i > E => E + 1 \in 1 .. m
        BY <1>1, <2>2
      <4> QED
        BY <1>2, <4>1
    <3> QED
      BY <1>1, <2>2, <3>1, <3>2
  <2>4. First(d, m + 1)
    <3>1. CASE m = 0
      <4>1. d[1] = p /\ d[m + 1] = p
        BY <1>2, <1>9, <3>1
      <4>2. Rem(p) = 2 /\ addr_slots[BlockOf(p)] = 0
        BY <1>3, <3>1 DEF Grown
      <4> QED
        BY <2>2, <3>1, <4>1, <4>2
    <3>2. CASE m # 0
      <4> DEFINE q == c[m]
      <4>1. m \in 1 .. m /\ First(c, m) /\ d[1] = c[1] /\ d[m + 1] = p
        BY <1>1, <1>2, <1>9, <2>1, <3>2
      <4>2. Placed(q) /\ Follows(q, p)
        BY <1>3, <3>2, <4>1 DEF Grown, Typed, m
      <4>3. CASE Rem(q) # LastPlace
        <5>1. BlockOf(p) = BlockOf(q) /\ Rem(p) = Rem(q) + 2
          BY <4>2, <4>3, PlacedFacts DEF Follows
        <5>2. /\ m <= E => m + 1 <= E
              /\ E < m /\ m <= 2 * E => m + 1 <= 2 * E
          <6>1. m <= E => Rem(q) = 2 * m
            BY <4>1
          <6>2. E < m /\ m <= 2 * E => Rem(q) = 2 * (m - E)
            BY <1>1, <2>2, <4>1
          <6> HIDE DEF First, q
          <6> QED
            BY <1>1, <2>2, <4>3, <6>1, <6>2
        <5>3. m > E => d[E + 1] = c[E + 1]
          <6>1. m > E => E + 1 \in 1 .. m
            BY <1>1, <2>2
          <6> QED
            BY <1>2, <6>1
        <5> HIDE DEF q
        <5>4. CASE m <= E
          BY <1>1, <2>2, <4>1, <5>1, <5>2, <5>4 DEF q
        <5>5. CASE E < m /\ m <= 2 * E
          BY <1>1, <2>2, <4>1, <5>1, <5>2, <5>3, <5>5 DEF q
        <5>6. CASE 2 * E < m
          BY <1>1, <2>2, <4>1, <5>1, <5>3, <5>6 DEF q
        <5> QED
          BY <1>1, <2>2, <5>4, <5>5, <5>6
      <4>4. CASE Rem(q) = LastPlace
        <5>1. Rem(p) = 2 /\ BlockOf(p) # 0
          BY <4>2, <4>4 DEF Follows
        <5>2. /\ \A i \in 1 .. m : BlockOf(c[i]) # BlockOf(p)
              /\ addr_slots[BlockOf(p)] = BlockOf(q)
          BY <1>3, <3>2, <4>4 DEF Grown, m
        <5>3. 1 \in 1 .. m /\ BlockOf(c[1]) # BlockOf(p)
          BY <1>1, <3>2, <5>2
        <5> HIDE DEF q
        <5>4. CASE m <= E
          <6>1. m = E /\ E + 1 = m + 1 /\ ~(m + 1 <= E) /\ m + 1 <= 2 * E
                  /\ 2 * ((m + 1) - E) = 2
            BY <1>1, <2>2, <4>1, <4>4, <5>4 DEF q
          <6>2. BlockOf(q) = BlockOf(c[1])
            BY <4>1, <5>4 DEF q
          <6> QED
            BY <4>1, <5>1, <5>2, <5>3, <6>1, <6>2
        <5>5. CASE E < m
          <6>1. E + 1 \in 1 .. m /\ d[E + 1] = c[E + 1] /\ BlockOf(c[E + 1]) # BlockOf(p)
            <7>1. E + 1 \in 1 .. m
              BY <1>1, <2>2, <5>5
            <7> QED
              BY <1>2, <5>2, <7>1
          <6>2. ~(m + 1 <= E) /\ ~(m + 1 <= 2 * E)
            BY <1>1, <2>2, <4>1, <4>4, <5>5 DEF q
          <6>3. BlockOf(q) # 0
            BY <1>1, <2>2, <4>1, <5>5 DEF q
          <6> QED
            BY <4>1, <5>1, <5>2, <5>3, <6>1, <6>2, <6>3
        <5> QED
          BY <1>1, <2>2, <5>4, <5>5
      <4> QED
        BY <4>3, <4>4
    <3> QED
      BY <3>1, <3>2
  <2>5. \A i \in 1 .. Len(d) : First(d, i)
    BY <1>4, <2>3, <2>4
  <2> QED
    BY <2>5 DEF FirstBlocks, E
<1> QED
  BY <1>5, <1>6, <1>8, <1>10, <1>11 DEF IsChain, d

(* The same in the state behind a step.                                    *)
LEMMA NextChains ==
  ASSUME free_slot' \in 0 .. Slots
  PROVE  /\ \A o, c : IsChain(o, c)' => Chain(o)' = c
         /\ \A o, c, p : Grown(o, c, p)' => IsChain(o, Append(c, p))'
<1>1. (free_slot \in 0 .. Slots => \A o, c : IsChain(o, c) => Chain(o) = c)'
  BY ChainIs, PTL
<1>2. (free_slot \in 0 .. Slots =>
         \A o, c, p : Grown(o, c, p) => IsChain(o, Append(c, p)))'
  BY ChainGrows, PTL
<1> QED
  BY <1>1, <1>2

(* The blocks of a word are those of its chain.                            *)
LEMMA BlocksOfChain ==
  ASSUME NEW o, Typed(Chain(o))
  PROVE  BlocksOf(o) = {BlockOf(Chain(o)[i]) : i \in 1 .. Len(Chain(o))}
<1>1. DOMAIN Chain(o) = 1 .. Len(Chain(o))
  BY DEF Typed
<1> QED
  BY <1>1 DEF BlocksOf

(* What a planner's walk is in terms of the chain.                         *)
LEMMA WalkOfChain ==
  ASSUME free_slot \in 0 .. Slots, NEW o, IsChain(o, Chain(o))
  PROVE  Walk(o) = IF SecondBlockLooksFirst(o)
                     THEN SubSeq(Chain(o), EntriesPerBlock + 1, Len(Chain(o)))
                     ELSE Chain(o)
<1> DEFINE c == Chain(o)
           m == Len(c)
           E == EntriesPerBlock
           B == {BlockOf(c[i]) : i \in 1 .. m}
<1>1. c \in Seq(Nat) /\ m \in Nat /\ \A i \in 1 .. m : Placed(c[i])
  BY DEF IsChain, Typed
<1>2. BlocksOf(o) = B
  BY BlocksOfChain DEF IsChain
<1>3. E \in Nat \ {0} /\ 2 * E = LastPlace
  BY BlockSize
<1>4. CASE c = <<>>
  BY <1>4 DEF IsChain, Closed, Walk, SecondBlockLooksFirst
<1>5. CASE c # <<>>
  <2>1. m \in 1 .. m /\ 1 \in 1 .. m
    <3>1. m \in Nat \ {0}
      BY <1>1, <1>5
    <3> HIDE DEF m
    <3> QED
      BY <3>1
  <2>2. /\ Pos(o) = c[m] /\ Pos(o) # 0
        /\ addr_slots[BlockOf(Pos(o)) + 1] = BlockOf(c[1])
    BY <1>5 DEF IsChain, Closed
  <2>3. Leads(o, c) /\ m <= Fuel
    BY <1>5, ChainLeads
  <2> DEFINE b == BlockOf(c[m])
             a == BlockOf(c[1])
  <2>4. Walk(o) = IF addr_slots[b] = 0 THEN WalkFrom(o, b + 2) ELSE WalkFrom(o, a + 2)
    BY <2>2 DEF Walk, InitialPos
  <2>5. \A j \in 1 .. m : WalkFrom(o, c[j]) = SubSeq(c, j, m)
    BY <2>3, BlockSize, WalkFromLeads
  <2>6. \A i \in 1 .. m : Rem(c[i]) = 2 => c[i] = BlockOf(c[i]) + 2
    BY <1>1, PlacedFacts
  <2>7. \A i \in 1 .. m :
          IF i <= E
            THEN /\ BlockOf(c[i]) = a
                 /\ Rem(c[i]) = 2 * i
                 /\ addr_slots[BlockOf(c[i])] = 0
            ELSE /\ BlockOf(c[i]) \notin {0, a}
                 /\ IF i <= 2 * E
                      THEN /\ BlockOf(c[i]) = BlockOf(c[E + 1])
                           /\ Rem(c[i]) = 2 * (i - E)
                           /\ addr_slots[BlockOf(c[i])] = a
                      ELSE /\ BlockOf(c[i]) # BlockOf(c[E + 1])
                           /\ addr_slots[BlockOf(c[i])] # 0
    BY DEF IsChain, FirstBlocks
  <2>8. SubSeq(c, 1, m) = c
    BY <1>1, SubSeqFull
  <2>9. SecondBlockLooksFirst(o) <=> 0 \in B /\ Cardinality(B) = 2
    BY <1>2, <2>2 DEF SecondBlockLooksFirst
  <2> HIDE DEF c, m, E
  <2>10. WalkFrom(o, a + 2) = c
    <3>1. Rem(c[1]) = 2
      BY <1>3, <2>1, <2>7
    <3> QED
      BY <2>1, <2>5, <2>6, <2>8, <3>1
  <2>11. CASE m <= E
    <3>1. B = {a}
      <4>1. \A i \in 1 .. m : BlockOf(c[i]) = a
        BY <1>1, <1>3, <2>7, <2>11
      <4> QED
        BY <2>1, <4>1
    <3>2. Cardinality(B) = 1
      BY <3>1, FS_Singleton
    <3>3. ~SecondBlockLooksFirst(o)
      BY <2>9, <3>2
    <3>4. b = a
      BY <2>1, <2>7, <2>11
    <3> QED
      BY <2>4, <2>10, <3>3, <3>4 DEF c
  <2>12. CASE E < m /\ m <= 2 * E
    <3>1. E + 1 \in 1 .. m /\ Rem(c[E + 1]) = 2
      BY <1>1, <1>3, <2>7, <2>12
    <3>2. b = BlockOf(c[E + 1]) /\ b # 0 /\ b # a /\ addr_slots[b] = a
      BY <1>1, <1>3, <2>1, <2>7, <2>12
    <3>3. WalkFrom(o, b + 2) = SubSeq(c, E + 1, m)
      BY <2>5, <2>6, <3>1, <3>2
    <3>4. B = {a, b}
      <4>1. \A i \in 1 .. m : BlockOf(c[i]) \in {a, b}
        BY <1>1, <1>3, <2>7, <2>12, <3>2
      <4> QED
        BY <2>1, <4>1
    <3>5. Cardinality(B) = 2
      <4>1. IsFiniteSet({a}) /\ Cardinality({a}) = 1
        BY FS_Singleton
      <4>2. Cardinality({a} \cup {b}) = 1 + 1
        BY <3>2, <4>1, FS_AddElement
      <4>3. B = {a} \cup {b}
        BY <3>4
      <4> HIDE DEF B, a, b
      <4> QED
        BY <4>2, <4>3
    <3>6. SecondBlockLooksFirst(o) <=> a = 0
      BY <2>9, <3>2, <3>4, <3>5
    <3> QED
      BY <2>4, <2>10, <3>2, <3>3, <3>6 DEF c, m, E
  <2>13. CASE 2 * E < m
    <3> DEFINE s == BlockOf(c[E + 1])
    <3>1. E + 1 \in 1 .. m /\ ~(E + 1 <= E) /\ E + 1 <= 2 * E
      BY <1>1, <1>3, <2>13
    <3>2. s # a
      BY <2>7, <3>1
    <3>3. b # a /\ b # s /\ addr_slots[b] # 0
      BY <1>1, <1>3, <2>1, <2>7, <2>13
    <3>4. a \in B /\ s \in B /\ b \in B
      BY <2>1, <3>1
    <3>5. Cardinality(B) # 2
      <4>1. IsFiniteSet(Words)
        BY BlockSize, FS_Interval
      <4>2. IsFiniteSet(B)
        <5>1. B \subseteq Words
          BY <1>1, PlacedFacts
        <5> HIDE DEF B
        <5> QED
          BY <4>1, <5>1, FS_Subset
      <4>3. IsFiniteSet({a}) /\ Cardinality({a}) = 1
        BY FS_Singleton
      <4>4. IsFiniteSet({a} \cup {s}) /\ Cardinality({a} \cup {s}) = 1 + 1
        BY <3>2, <4>3, FS_AddElement
      <4>5. /\ IsFiniteSet(({a} \cup {s}) \cup {b})
            /\ Cardinality(({a} \cup {s}) \cup {b}) = (1 + 1) + 1
        BY <3>3, <4>4, FS_AddElement
      <4>6. ({a} \cup {s}) \cup {b} \subseteq B
        BY <3>4
      <4> HIDE DEF B, a, s, b
      <4>7. 3 <= Cardinality(B) /\ Cardinality(B) \in Nat
        BY <4>2, <4>5, <4>6, FS_Subset, FS_CardinalityType
      <4> QED
        BY <4>7
    <3>6. ~SecondBlockLooksFirst(o)
      BY <2>9, <3>5
    <3> QED
      BY <2>4, <2>10, <3>3, <3>6 DEF c
  <2> QED
    BY <1>1, <1>3, <2>11, <2>12, <2>13
<1> QED
  BY <1>4, <1>5

-----------------------------------------------------------------------------
(* The invariant                                                           *)

(* Every word has a chain.                                                 *)
Chained == \A o \in Offsets : IsChain(o, Chain(o))

UsedOffsets(p) == {o \in Offsets : Page(o) = p /\ Pos(o) # 0}

(* LimitsAreTight, said without Min and Max.                               *)
Extremes ==
  \A p \in Pages :
    /\ first_offset[p] \in UsedOffsets(p) \cup {EmptyPage}
    /\ last_offset[p] \in UsedOffsets(p) \cup {0}
    /\ \A o \in UsedOffsets(p) : first_offset[p] <= o /\ o <= last_offset[p]

IInv == TypeOK /\ Chained /\ NoBlockSharedOrLost /\ CountIsChainTotal /\ Extremes

-----------------------------------------------------------------------------
(* What a step does to a chain                                             *)

(* The step leaves the words that make c a chain as they are; the counts   *)
(* remain numbers.                                                         *)
Kept(c) ==
  \A i \in 1 .. Len(c) :
    /\ addr_slots'[c[i]] = addr_slots[c[i]]
    /\ addr_slots'[c[i] + 1] \in Nat
    /\ addr_slots'[BlockOf(c[i])] = addr_slots[BlockOf(c[i])]
    /\ i < Len(c) /\ Rem(c[i]) = LastPlace =>
         addr_slots'[BlockOf(c[i]) + 1] = addr_slots[BlockOf(c[i]) + 1]

(* Blocks are only handed out.                                             *)
BlocksGrow == free_slot \in 0 .. Slots /\ free_slot' \in 0 .. Slots /\ free_slot <= free_slot'

(* The first position behind them does not decrease.                       *)
LEMMA UsedGrows ==
  ASSUME BlocksGrow
  PROVE  Used \in Nat /\ Used' \in Nat /\ Used <= Used'
<1> DEFINE S == SlotSize
           f == free_slot
           g == free_slot'
<1>1. S \in Nat /\ Slots \in Nat /\ f \in Nat /\ g \in Nat /\ f <= g
  BY BlockSize DEF BlocksGrow
<1>2. f * S \in Nat /\ g * S \in Nat /\ f * S <= g * S
  <2> HIDE DEF S, f, g
  <2> QED
    BY <1>1
<1> QED
  BY <1>2 DEF Used

(* Then what does not depend on the table remains true.                    *)
LEMMA ChainKept ==
  ASSUME BlocksGrow, NEW c, Typed(c), Linked(c), Distinct(c), FirstBlocks(c), Kept(c)
  PROVE  Typed(c)' /\ Linked(c)' /\ Distinct(c)' /\ FirstBlocks(c)'
<1>1. Used \in Nat /\ Used' \in Nat /\ Used <= Used'
  BY UsedGrows
<1>2. c \in Seq(Nat) /\ Len(c) \in Nat
  BY DEF Typed
<1>3. Typed(c)'
  <2> SUFFICES ASSUME NEW i \in 1 .. Len(c)
               PROVE  /\ Placed(c[i])'
                      /\ addr_slots'[c[i]] \in Nat /\ addr_slots'[c[i] + 1] \in Nat
    BY <1>2 DEF Typed
  <2>1. Placed(c[i]) /\ addr_slots[c[i]] \in Nat
    BY DEF Typed
  <2>2. Placed(c[i])'
    BY <1>1, <2>1 DEF Placed, Rem, LastPlace
  <2> QED
    BY <2>1, <2>2 DEF Kept
<1>4. Linked(c)'
  <2> SUFFICES ASSUME NEW i \in 1 .. Len(c) - 1 PROVE Follows(c[i], c[i + 1])'
    BY DEF Linked
  <2>1. i \in 1 .. Len(c) /\ i < Len(c)
    BY <1>2
  <2>2. Follows(c[i], c[i + 1])
    BY DEF Linked
  <2>3. Rem(c[i]) = LastPlace =>
          addr_slots'[BlockOf(c[i]) + 1] = addr_slots[BlockOf(c[i]) + 1]
    BY <2>1 DEF Kept
  <2> QED
    BY <2>2, <2>3 DEF Follows
<1>5. Distinct(c)'
  BY DEF Distinct
<1>6. FirstBlocks(c)'
  BY DEF FirstBlocks, Kept
<1> QED
  BY <1>3, <1>4, <1>5, <1>6

(* The chain of a word whose newest entry is still the same.               *)
LEMMA SameChain ==
  ASSUME BlocksGrow, NEW o, NEW c, IsChain(o, c), Kept(c), Pos(o)' = Pos(o),
         c # <<>> => addr_slots'[BlockOf(Pos(o)) + 1] = addr_slots[BlockOf(Pos(o)) + 1]
  PROVE  IsChain(o, c)' /\ Chain(o)' = c
<1>1. Typed(c)' /\ Linked(c)' /\ Distinct(c)' /\ FirstBlocks(c)'
  BY ChainKept DEF IsChain
<1>2. Closed(o, c)
  BY DEF IsChain
<1>3. Closed(o, c)'
  BY <1>2 DEF Closed, BlockOf
<1>4. IsChain(o, c)'
  BY <1>1, <1>3 DEF IsChain
<1> QED
  BY <1>4, NextChains DEF BlocksGrow

(* The words of an entry lie in the blocks handed out.                     *)
LEMMA PlacedUsed ==
  ASSUME free_slot \in 0 .. Slots, NEW p, Placed(p)
  PROVE  p < Used /\ p + 1 < Used /\ BlockOf(p) < Used /\ BlockOf(p) + 1 < Used
<1>1. /\ BlockOf(p) \in Nat /\ Rem(p) \in 2 .. LastPlace /\ p = BlockOf(p) + Rem(p)
      /\ BlockOf(p) + SlotSize <= Used
  BY PlacedFacts DEF Placed
<1> QED
  BY <1>1, BlockSize, UsedType

(* The step writes to no block of another word.                            *)
OthersUntouched(o) ==
  /\ \A q \in Offsets \ {o} : Pos(q)' = Pos(q)
  /\ \A w \in Words :
       BlockOf(w) \notin BlocksOf(o) /\ w < Used => addr_slots'[w] = addr_slots[w]

(* What is left of a word in the next state.                               *)
Untouched(q) ==
  /\ IsChain(q, Chain(q))'
  /\ BlocksOf(q)' = BlocksOf(q)
  /\ EntriesAt(Chain(q))' = EntriesAt(Chain(q))

(* A chain with the same words has the same blocks and entries.            *)
LEMMA SameEntries ==
  ASSUME NEW q, NEW c, Chain(q) = c, Chain(q)' = c, IsChain(q, c), IsChain(q, c)',
         \A i \in 1 .. Len(c) : /\ addr_slots'[c[i]] = addr_slots[c[i]]
                                /\ addr_slots'[c[i] + 1] = addr_slots[c[i] + 1]
  PROVE  Untouched(q)
<1>1. DOMAIN c = 1 .. Len(c)
  BY DEF IsChain, Typed
<1>2. BlocksOf(q)' = BlocksOf(q)
  BY DEF BlocksOf, BlockOf
<1>3. EntriesAt(Chain(q))' = EntriesAt(Chain(q))
  BY <1>1 DEF EntriesAt, EntryAt
<1>4. IsChain(q, Chain(q))'
  BY DEF IsChain, Typed, Linked, Distinct, Closed, FirstBlocks
<1> QED
  BY <1>2, <1>3, <1>4 DEF Untouched

(* A word that the step is not about is left as it was.                    *)
LEMMA OtherChains ==
  ASSUME BlocksGrow, Chained, NoBlockSharedOrLost, NEW o \in Offsets, OthersUntouched(o),
         NEW q \in Offsets \ {o}
  PROVE  Untouched(q)
<1>1. PICK c : c = Chain(q)
  OBVIOUS
<1>2. IsChain(q, c) /\ Typed(c)
  BY <1>1 DEF Chained, IsChain
<1>3. \A i \in 1 .. Len(c) : BlockOf(c[i]) \in BlocksOf(q)
  BY <1>1, <1>2, BlocksOfChain
<1>4. BlocksOf(o) \cap BlocksOf(q) = {}
  BY DEF NoBlockSharedOrLost
<1>5. \A i \in 1 .. Len(c) :
        /\ addr_slots'[c[i]] = addr_slots[c[i]]
        /\ addr_slots'[c[i] + 1] = addr_slots[c[i] + 1]
        /\ addr_slots'[BlockOf(c[i])] = addr_slots[BlockOf(c[i])]
        /\ addr_slots'[BlockOf(c[i]) + 1] = addr_slots[BlockOf(c[i]) + 1]
  <2> SUFFICES ASSUME NEW i \in 1 .. Len(c)
               PROVE  \A w \in {c[i], c[i] + 1, BlockOf(c[i]), BlockOf(c[i]) + 1} :
                        addr_slots'[w] = addr_slots[w]
    OBVIOUS
  <2>1. Placed(c[i]) /\ BlockOf(c[i]) \notin BlocksOf(o)
    BY <1>2, <1>3, <1>4 DEF Typed
  <2>2. \A w \in {c[i], c[i] + 1, BlockOf(c[i]), BlockOf(c[i]) + 1} :
          w \in Words /\ w < Used /\ BlockOf(w) = BlockOf(c[i])
    BY <2>1, PlacedFacts, PlacedUsed DEF BlocksGrow
  <2> QED
    BY <2>1, <2>2 DEF OthersUntouched
<1>6. Kept(c)
  BY <1>2, <1>5 DEF Kept, Typed
<1>7. c # <<>> => Pos(q) = c[Len(c)] /\ Len(c) \in 1 .. Len(c)
  <2>1. c \in Seq(Nat)
    BY <1>2 DEF Typed
  <2> QED
    BY <1>2, <2>1 DEF IsChain, Closed
<1>8. Pos(q)' = Pos(q)
  BY DEF OthersUntouched
<1>9. IsChain(q, c)' /\ Chain(q)' = c
  BY <1>2, <1>5, <1>6, <1>7, <1>8, SameChain
<1> QED
  BY <1>1, <1>2, <1>5, <1>9, SameEntries

-----------------------------------------------------------------------------
(* What count_aligned does to the word it is called for                    *)

(* The block that get_next_slot_pos hands out.                             *)
LEMMA FreshBlock ==
  ASSUME free_slot \in 0 .. Slots, HasFreeSlot, free_slot' = TakenSlot
  PROVE  /\ BlocksGrow /\ Used \in Nat /\ Used' = Used + SlotSize
         /\ \A k \in 0 .. SlotSize - 1 :
              Used + k \in Words /\ BlockOf(Used + k) = Used /\ Rem(Used + k) = k
<1> DEFINE S == SlotSize
           f == free_slot
<1>1. S \in Nat /\ S >= 4 /\ Slots \in Nat /\ f \in Nat /\ f < Slots /\ free_slot' = f + 1
  BY BlockSize DEF HasFreeSlot, TakenSlot
<1>2. BlocksGrow
  BY <1>1 DEF BlocksGrow
<1>3. f * S \in Nat /\ (f + 1) * S = f * S + S /\ (f + 1) * S <= Slots * S
  <2> HIDE DEF S, f
  <2> QED
    BY <1>1
<1>4. Used = f * S /\ Used' = (f + 1) * S /\ Fuel = Slots * S
  BY <1>1 DEF Used, Fuel
<1>5. Used \in Nat /\ Used' = Used + S /\ Used + S <= Fuel
  BY <1>3, <1>4
<1>6. \A k \in 0 .. S - 1 : Used + k \in Words
  BY <1>1, <1>5, BlockSize
<1>7. \A k \in 0 .. S - 1 : BlockOf(f * S + k) = f * S /\ Rem(f * S + k) = k
  BY <1>1, PositionOf
<1> QED
  BY <1>2, <1>4, <1>5, <1>6, <1>7

(* The newest entry of a word and its place in the chain.                  *)
LEMMA NewestEntry ==
  ASSUME TypeOK, Chained, NEW o \in Offsets, Pos(o) # 0, NEW c, Chain(o) = c
  PROVE  /\ IsChain(o, c) /\ Typed(c) /\ c \in Seq(Nat) /\ c # <<>> /\ Len(c) \in 1 .. Len(c)
         /\ c[Len(c)] = Pos(o) /\ Placed(Pos(o))
         /\ addr_slots[Pos(o)] \in Nat /\ addr_slots[Pos(o) + 1] \in Nat
         /\ BlockOf(Pos(o)) \in BlocksOf(o)
         /\ addr_slots[BlockOf(Pos(o)) + 1] = BlockOf(c[1])
<1>1. IsChain(o, c) /\ Typed(c) /\ c \in Seq(Nat)
  BY DEF Chained, IsChain, Typed
<1>2. c # <<>>
  BY <1>1 DEF IsChain, Closed
<1>3. Len(c) \in 1 .. Len(c)
  BY <1>1, <1>2
<1>4. c[Len(c)] = Pos(o) /\ addr_slots[BlockOf(Pos(o)) + 1] = BlockOf(c[1])
  BY <1>1, <1>2 DEF IsChain, Closed
<1>5. Placed(Pos(o)) /\ addr_slots[Pos(o)] \in Nat /\ addr_slots[Pos(o) + 1] \in Nat
  BY <1>1, <1>3, <1>4 DEF Typed
<1>6. BlockOf(Pos(o)) \in BlocksOf(o)
  BY <1>1, <1>3, <1>4, BlocksOfChain
<1> QED
  BY <1>1, <1>2, <1>3, <1>4, <1>5, <1>6

(* The word has a further entry, of the current chunk.                     *)
Started(o, n) ==
  /\ IsChain(o, Chain(o))'
  /\ EntriesAt(Chain(o))' =
       Append(EntriesAt(Chain(o)), [chunk |-> current_chunk, count |-> n])

(* A chain that grows by an entry at p gives the word that entry.          *)
LEMMA LongerChain ==
  ASSUME BlocksGrow, NEW o, NEW n, NEW c, NEW p, Chain(o) = c, IsChain(o, c), Grown(o, c, p)',
         addr_slots'[p] = current_chunk, addr_slots'[p + 1] = n,
         \A i \in 1 .. Len(c) : /\ addr_slots'[c[i]] = addr_slots[c[i]]
                                /\ addr_slots'[c[i] + 1] = addr_slots[c[i] + 1]
  PROVE  Started(o, n) /\ BlocksOf(o)' = BlocksOf(o) \cup {BlockOf(p)}
<1> DEFINE d == Append(c, p)
           m == Len(c)
<1>1. IsChain(o, d)' /\ Chain(o)' = d
  BY NextChains DEF BlocksGrow
<1>2. c \in Seq(Nat) /\ p \in Nat
  BY DEF IsChain, Typed, Grown, Placed
<1>3. /\ m \in Nat /\ DOMAIN c = 1 .. m
      /\ DOMAIN d = 1 .. m + 1 /\ d[m + 1] = p /\ \A i \in 1 .. m : d[i] = c[i]
  BY <1>2, AppendProperties
<1> HIDE DEF d, m
<1>4. \A i \in DOMAIN d : i \in 1 .. m \/ i = m + 1
  BY <1>3
<1>5. BlocksOf(o) = {BlockOf(c[i]) : i \in 1 .. m}
  BY <1>3 DEF BlocksOf
<1>6. BlocksOf(o)' = {BlockOf(d[i]) : i \in DOMAIN d}
  BY <1>1 DEF BlocksOf, BlockOf
<1>7. BlocksOf(o)' = BlocksOf(o) \cup {BlockOf(p)}
  <2>1. \A i \in 1 .. m : i \in DOMAIN d
    BY <1>3
  <2>2. m + 1 \in DOMAIN d
    BY <1>3
  <2> QED
    BY <1>3, <1>4, <1>5, <1>6, <2>1, <2>2
<1>8. EntriesAt(Chain(o))' =
        Append(EntriesAt(Chain(o)), [chunk |-> current_chunk, count |-> n])
  <2> DEFINE h == EntriesAt(c)
             e == [chunk |-> current_chunk, count |-> n]
             g == [i \in 1 .. m + 1 |->
                     [chunk |-> addr_slots'[d[i]], count |-> addr_slots'[d[i] + 1]]]
  <2>1. EntriesAt(Chain(o))' = g
    BY <1>1, <1>3 DEF EntriesAt, EntryAt
  <2>2. h = [i \in 1 .. m |-> [chunk |-> addr_slots[c[i]], count |-> addr_slots[c[i] + 1]]]
    BY <1>3 DEF EntriesAt, EntryAt
  <2>3. \A i \in 1 .. m : g[i] = h[i]
    <3> SUFFICES ASSUME NEW i \in 1 .. m PROVE g[i] = h[i]
      OBVIOUS
    <3>1. i \in 1 .. m + 1
      BY <1>3
    <3> QED
      BY <1>3, <2>2, <3>1 DEF m
  <2>4. g[m + 1] = e
    <3>1. m + 1 \in 1 .. m + 1
      BY <1>3
    <3> QED
      BY <1>3, <3>1
  <2>5. h \in Seq({h[i] : i \in 1 .. m} \cup {e}) /\ Len(h) = m
    <3>1. h \in [1 .. m -> {h[i] : i \in 1 .. m} \cup {e}]
      BY <2>2
    <3> QED
      BY <1>3, <3>1, FunctionIsSeq
  <2> HIDE DEF h, e, g
  <2>6. /\ Append(h, e) \in [1 .. m + 1 -> {h[i] : i \in 1 .. m} \cup {e}]
        /\ Append(h, e)[m + 1] = e /\ \A i \in 1 .. m : Append(h, e)[i] = h[i]
    <3> DEFINE V == {h[i] : i \in 1 .. m} \cup {e}
    <3>1. h \in Seq(V) /\ e \in V
      BY <2>5
    <3> HIDE DEF V
    <3>2. /\ Append(h, e) \in Seq(V) /\ Len(Append(h, e)) = m + 1
          /\ Append(h, e)[m + 1] = e /\ \A i \in 1 .. m : Append(h, e)[i] = h[i]
      BY <1>3, <2>5, <3>1, AppendProperties
    <3>3. Append(h, e) \in [1 .. m + 1 -> V]
      <4> DEFINE a == Append(h, e)
      <4>1. a \in Seq(V) /\ Len(a) = m + 1
        BY <3>2
      <4> HIDE DEF a
      <4>2. a \in [1 .. m + 1 -> V]
        BY <4>1
      <4> QED
        BY <4>2 DEF a
    <3> QED
      BY <3>2, <3>3 DEF V
  <2>7. g = Append(h, e)
    <3>1. DOMAIN g = 1 .. m + 1 /\ g = [i \in 1 .. m + 1 |-> g[i]]
      BY DEF g
    <3>2. \A i \in 1 .. m + 1 : g[i] = Append(h, e)[i]
      <4>1. \A i \in 1 .. m + 1 : i \in 1 .. m \/ i = m + 1
        BY <1>3
      <4> QED
        BY <2>3, <2>4, <2>6, <4>1
    <3>3. Append(h, e) = [i \in 1 .. m + 1 |-> Append(h, e)[i]]
      BY <2>6
    <3> QED
      BY <3>1, <3>2, <3>3
  <2> QED
    BY <2>1, <2>7 DEF h, e
<1>9. IsChain(o, Chain(o))'
  BY <1>1 DEF IsChain, Typed, Linked, Distinct, Closed, FirstBlocks
<1> QED
  BY <1>7, <1>8, <1>9 DEF Started

(* The first access: a chain of one entry.                                 *)
LEMMA FirstAccessChain ==
  ASSUME IInv, NEW o \in Offsets, NEW n \in Ops, FirstAccess(o, n)
  PROVE  /\ BlocksGrow /\ OthersUntouched(o) /\ Started(o, n)
         /\ Chain(o) = <<>> /\ BlocksOf(o)' = BlocksOf(o) \cup {Used}
         /\ Pos(o)' \in 0 .. Fuel /\ addr_slots' \in [Words -> Nat \cup {Garbage}]
<1>0. PICK u : u = Used
  OBVIOUS
<1>1. /\ BlocksGrow /\ u \in Nat /\ Used' = u + SlotSize
      /\ \A k \in 0 .. SlotSize - 1 :
           u + k \in Words /\ BlockOf(u + k) = u /\ Rem(u + k) = k
  BY <1>0, FreshBlock DEF FirstAccess, IInv, TypeOK
<1>2. u = free_slot * SlotSize
  BY <1>0 DEF Used
<1>3. /\ addr_slots' = [addr_slots EXCEPT ![u] = 0, ![u + 1] = u,
                                          ![u + 2] = current_chunk, ![u + 3] = n]
      /\ addr_count_table' = [addr_count_table EXCEPT ![o] =
                                [pos |-> u + 2, count |-> FirstCount(n)]]
  BY <1>2 DEF FirstAccess
<1>4. /\ addr_slots \in [Words -> Nat \cup {Garbage}]
      /\ addr_count_table \in [Offsets -> [pos : 0 .. Fuel, count : Nat]]
      /\ current_chunk \in Nat /\ n \in Nat
  BY SlotsAssumption DEF IInv, TypeOK, Fuel
<1>5. u \in Words /\ u + 1 \in Words /\ u + 2 \in Words /\ u + 3 \in Words
  <2>1. 0 \in 0 .. SlotSize - 1 /\ 1 \in 0 .. SlotSize - 1 /\ 2 \in 0 .. SlotSize - 1
          /\ 3 \in 0 .. SlotSize - 1 /\ u + 0 = u
    BY <1>1, BlockSize
  <2> QED
    BY <1>1, <2>1
<1>6. BlockOf(u + 2) = u /\ Rem(u + 2) = 2
  BY <1>1, BlockSize
<1>7. /\ addr_slots'[u] = 0 /\ addr_slots'[u + 1] = u
      /\ addr_slots'[u + 2] = current_chunk /\ addr_slots'[u + 3] = n
      /\ \A w \in Words : w < u => addr_slots'[w] = addr_slots[w]
      /\ addr_slots' \in [Words -> Nat \cup {Garbage}]
  <2>1. addr_slots' \in [Words -> Nat \cup {Garbage}]
    BY <1>1, <1>3, <1>4, <1>5
  <2>2. u \in Nat /\ u # u + 1 /\ u # u + 2 /\ u # u + 3 /\ u + 1 # u + 2
          /\ u + 1 # u + 3 /\ u + 2 # u + 3
          /\ \A w \in Words : w < u => w # u /\ w # u + 1 /\ w # u + 2 /\ w # u + 3
    BY <1>1, BlockSize
  <2> QED
    BY <1>3, <1>4, <1>5, <2>1, <2>2
<1>8. Pos(o)' = u + 2 /\ \A q \in Offsets \ {o} : Pos(q)' = Pos(q)
  BY <1>3, <1>4 DEF Pos
<1>9. OthersUntouched(o)
  BY <1>0, <1>7, <1>8 DEF OthersUntouched
<1>10. Chain(o) = <<>> /\ BlocksOf(o) = {} /\ IsChain(o, <<>>)
  <2>1. Chain(o) = <<>>
    BY DEF FirstAccess, Chain
  <2>2. BlocksOf(o) = {}
    BY <2>1 DEF BlocksOf
  <2> QED
    BY <2>1, <2>2 DEF IInv, Chained
<1>11. Grown(o, <<>>, u + 2)'
  <2>1. Typed(<<>>)' /\ Linked(<<>>)' /\ Distinct(<<>>)' /\ FirstBlocks(<<>>)'
    BY DEF Typed, Linked, Distinct, FirstBlocks
  <2>2. Placed(u + 2)'
    <3>1. u + 2 \in Nat /\ Rem(u + 2) = 2 /\ 2 \in 2 .. LastPlace /\ 2 % 2 = 0 /\ u + 2 < Used'
      BY <1>1, <1>6, BlockSize
    <3> QED
      BY <3>1 DEF Placed, Rem, LastPlace
  <2>3. /\ addr_slots'[u + 2] \in Nat /\ addr_slots'[(u + 2) + 1] \in Nat
        /\ addr_slots'[BlockOf(u + 2)] = 0
        /\ addr_slots'[BlockOf(u + 2) + 1] = BlockOf(u + 2)
    <3>1. (u + 2) + 1 = u + 3
      BY <1>1
    <3> QED
      BY <1>4, <1>6, <1>7, <3>1
  <2>4. Len(<<>>) = 0 /\ 1 .. 0 = {}
    OBVIOUS
  <2> QED
    BY <1>6, <1>8, <2>1, <2>2, <2>3, <2>4 DEF Grown, Rem, BlockOf, Pos
<1>12. Started(o, n) /\ BlocksOf(o)' = BlocksOf(o) \cup {u}
  <2>1. (u + 2) + 1 = u + 3 /\ \A i \in 1 .. Len(<<>>) : FALSE
    BY <1>1
  <2> QED
    BY <1>1, <1>6, <1>7, <1>10, <1>11, <2>1, LongerChain
<1>13. Pos(o)' \in 0 .. Fuel
  BY <1>5, <1>8, BlockSize
<1> QED
  BY <1>0, <1>1, <1>7, <1>9, <1>10, <1>12, <1>13

(* An entry and the words of a block that precede the entries differ by    *)
(* their place.                                                            *)
LEMMA PlacesDiffer ==
  ASSUME free_slot \in 0 .. Slots, NEW p, NEW q, Placed(p), Placed(q)
  PROVE  /\ p # q + 1 /\ p + 1 # q + 2
         /\ BlockOf(p) # q /\ BlockOf(p) # q + 1 /\ BlockOf(p) + 1 # q /\ BlockOf(p) + 1 # q + 1
         /\ BlockOf(p) # BlockOf(q) + 1 /\ p # BlockOf(q) + 1 /\ p + 1 # BlockOf(q) + 1
         /\ BlockOf(p) # BlockOf(q) => BlockOf(p) + 1 # BlockOf(q) + 1
<1>1. \A r \in {p, q} :
        /\ r \in Nat /\ BlockOf(r) \in Nat /\ Rem(r) \in 2 .. LastPlace /\ Rem(r) % 2 = 0
        /\ Rem(r + 1) = Rem(r) + 1 /\ Rem(BlockOf(r)) = 0 /\ Rem(BlockOf(r) + 1) = 1
  BY PlacedFacts DEF Placed
<1>2. LastPlace \in Nat
  BY BlockSize
<1>3. \A r \in {p, q} : Rem(r) \in Nat /\ Rem(r) >= 2 /\ (Rem(r) + 1) % 2 = 1
  BY <1>1, <1>2
<1>4. p # q + 1
  BY <1>1, <1>3
<1>5. p + 1 # q + 2
  BY <1>1, <1>4
<1>6. /\ BlockOf(p) # q /\ BlockOf(p) # q + 1
      /\ BlockOf(p) # BlockOf(q) + 1
  BY <1>1, <1>3
<1>7. /\ BlockOf(p) + 1 # q /\ BlockOf(p) + 1 # q + 1
      /\ p # BlockOf(q) + 1 /\ p + 1 # BlockOf(q) + 1
  BY <1>1, <1>3
<1> QED
  BY <1>1, <1>4, <1>5, <1>6, <1>7

(* The newest entry has a larger count.                                    *)
Extended(o, n) ==
  LET h == EntriesAt(Chain(o))
  IN  /\ IsChain(o, Chain(o))'
      /\ Len(h) \in 1 .. Len(h) /\ h[Len(h)].chunk = current_chunk
      /\ EntriesAt(Chain(o))' = [h EXCEPT ![Len(h)].count = @ + n]

(* A further access in the chunk of the newest entry.                      *)
LEMMA SameChunkChain ==
  ASSUME IInv, NEW o \in Offsets, NEW n \in Ops, SameChunk(o, n)
  PROVE  /\ BlocksGrow /\ OthersUntouched(o) /\ Extended(o, n)
         /\ BlocksOf(o)' = BlocksOf(o)
         /\ addr_slots' \in [Words -> Nat \cup {Garbage}]
<1>0. PICK c, z : c = Chain(o) /\ z = Pos(o)
  OBVIOUS
<1>1. /\ IsChain(o, c) /\ Typed(c) /\ c \in Seq(Nat) /\ c # <<>> /\ Len(c) \in 1 .. Len(c)
      /\ c[Len(c)] = z /\ Placed(z) /\ addr_slots[z] \in Nat /\ addr_slots[z + 1] \in Nat
      /\ BlockOf(z) \in BlocksOf(o)
  BY <1>0, NewestEntry DEF IInv, SameChunk
<1>2. free_slot \in 0 .. Slots /\ free_slot' = free_slot /\ BlocksGrow
  BY BlockSize DEF SameChunk, IInv, TypeOK, BlocksGrow
<1>3. /\ addr_slots' = [addr_slots EXCEPT ![z + 1] = @ + n]
      /\ addr_count_table' = [addr_count_table EXCEPT ![o].count = @ + n]
      /\ addr_slots[z] = current_chunk
  BY <1>0 DEF SameChunk
<1>4. /\ addr_slots \in [Words -> Nat \cup {Garbage}]
      /\ addr_count_table \in [Offsets -> [pos : 0 .. Fuel, count : Nat]]
      /\ n \in Nat
  BY SlotsAssumption DEF IInv, TypeOK, Fuel
<1>5. z + 1 \in Words /\ BlockOf(z + 1) = BlockOf(z) /\ z \in Nat
  BY <1>1, <1>2, PlacedFacts DEF Placed
<1>6. /\ addr_slots'[z + 1] = addr_slots[z + 1] + n /\ addr_slots[z + 1] + n \in Nat
      /\ \A w \in Words : w # z + 1 => addr_slots'[w] = addr_slots[w]
      /\ addr_slots' \in [Words -> Nat \cup {Garbage}]
  BY <1>1, <1>3, <1>4, <1>5
<1>7. \A q \in Offsets : Pos(q)' = Pos(q)
  BY <1>3, <1>4 DEF Pos
<1>8. OthersUntouched(o)
  BY <1>1, <1>5, <1>6, <1>7 DEF OthersUntouched
<1>9. \A i \in 1 .. Len(c) :
        /\ addr_slots'[c[i]] = addr_slots[c[i]]
        /\ addr_slots'[c[i] + 1] = IF i = Len(c) THEN addr_slots[c[i] + 1] + n
                                                 ELSE addr_slots[c[i] + 1]
        /\ addr_slots[c[i] + 1] \in Nat
        /\ addr_slots'[BlockOf(c[i])] = addr_slots[BlockOf(c[i])]
        /\ addr_slots'[BlockOf(c[i]) + 1] = addr_slots[BlockOf(c[i]) + 1]
  <2> SUFFICES ASSUME NEW i \in 1 .. Len(c)
               PROVE  /\ addr_slots'[c[i]] = addr_slots[c[i]]
                      /\ addr_slots'[c[i] + 1] = IF i = Len(c) THEN addr_slots[c[i] + 1] + n
                                                               ELSE addr_slots[c[i] + 1]
                      /\ addr_slots[c[i] + 1] \in Nat
                      /\ addr_slots'[BlockOf(c[i])] = addr_slots[BlockOf(c[i])]
                      /\ addr_slots'[BlockOf(c[i]) + 1] = addr_slots[BlockOf(c[i]) + 1]
    OBVIOUS
  <2>1. Placed(c[i]) /\ addr_slots[c[i] + 1] \in Nat
    BY <1>1 DEF Typed
  <2>2. /\ c[i] \in Words /\ c[i] + 1 \in Words
        /\ BlockOf(c[i]) \in Words /\ BlockOf(c[i]) + 1 \in Words /\ c[i] \in Nat
    BY <1>2, <2>1, PlacedFacts DEF Placed
  <2>3. c[i] # z + 1 /\ BlockOf(c[i]) # z + 1 /\ BlockOf(c[i]) + 1 # z + 1
    BY <1>1, <1>2, <2>1, PlacesDiffer
  <2>4. i # Len(c) => c[i] # z
    BY <1>1 DEF IsChain, Distinct
  <2>5. c[i] # z => c[i] + 1 # z + 1
    BY <1>5, <2>2
  <2> QED
    BY <1>1, <1>6, <2>1, <2>2, <2>3, <2>4, <2>5
<1>10. Kept(c)
  BY <1>4, <1>9 DEF Kept
<1>11. IsChain(o, c)' /\ Chain(o)' = c
  <2>1. addr_slots'[BlockOf(z) + 1] = addr_slots[BlockOf(z) + 1]
    BY <1>1, <1>9
  <2> QED
    BY <1>0, <1>1, <1>2, <1>7, <1>10, <2>1, SameChain
<1>12. DOMAIN c = 1 .. Len(c)
  BY <1>1
<1>13. BlocksOf(o)' = BlocksOf(o)
  BY <1>0, <1>11 DEF BlocksOf, BlockOf
<1>14. Extended(o, n)
  <2> DEFINE m == Len(c)
             h == EntriesAt(c)
             g == [h EXCEPT ![m].count = @ + n]
  <2>1. h = [i \in 1 .. m |-> [chunk |-> addr_slots[c[i]], count |-> addr_slots[c[i] + 1]]]
    BY <1>12 DEF EntriesAt, EntryAt
  <2>2. h = EntriesAt(Chain(o)) /\ m \in 1 .. m /\ Len(h) = m
    <3>1. h \in [1 .. m -> {h[i] : i \in 1 .. m}] /\ m \in Nat
      BY <1>1, <2>1
    <3> QED
      BY <1>0, <1>1, <3>1, FunctionIsSeq
  <2>3. EntriesAt(Chain(o))' =
          [i \in 1 .. m |-> [chunk |-> addr_slots'[c[i]], count |-> addr_slots'[c[i] + 1]]]
    BY <1>11, <1>12 DEF EntriesAt, EntryAt
  <2>4. h[m].chunk = current_chunk
    BY <1>1, <1>3, <2>1, <2>2
  <2>5. [i \in 1 .. m |-> [chunk |-> addr_slots'[c[i]], count |-> addr_slots'[c[i] + 1]]] = g
    <3>1. \A i \in 1 .. m :
            g[i] = IF i = m THEN [h[m] EXCEPT !.count = @ + n] ELSE h[i]
      BY <2>1
    <3>2. [h[m] EXCEPT !.count = @ + n] =
            [chunk |-> addr_slots[c[m]], count |-> addr_slots[c[m] + 1] + n]
      BY <2>1, <2>2
    <3>3. \A i \in 1 .. m :
            g[i] = [chunk |-> addr_slots'[c[i]], count |-> addr_slots'[c[i] + 1]]
      BY <1>9, <2>1, <2>2, <3>1, <3>2
    <3>4. g = [i \in 1 .. m |-> g[i]]
      BY <2>1
    <3> HIDE DEF g
    <3> QED
      BY <3>3, <3>4
  <2>6. IsChain(o, Chain(o))'
    BY <1>11 DEF IsChain, Typed, Linked, Distinct, Closed, FirstBlocks
  <2> HIDE DEF m, h
  <2>7. LET k == EntriesAt(Chain(o))
        IN  /\ Len(k) \in 1 .. Len(k) /\ k[Len(k)].chunk = current_chunk
            /\ EntriesAt(Chain(o))' = [k EXCEPT ![Len(k)].count = @ + n]
    BY <2>2, <2>3, <2>4, <2>5
  <2> QED
    BY <2>6, <2>7 DEF Extended
<1> QED
  BY <1>2, <1>6, <1>8, <1>13, <1>14

(* A further chunk, and room in the block of the newest entry.             *)
LEMMA NextEntryChain ==
  ASSUME IInv, NEW o \in Offsets, NEW n \in Ops, NextEntry(o, n)
  PROVE  /\ BlocksGrow /\ OthersUntouched(o) /\ Started(o, n)
         /\ BlocksOf(o)' = BlocksOf(o)
         /\ Pos(o)' \in 0 .. Fuel /\ addr_slots' \in [Words -> Nat \cup {Garbage}]
<1>0. PICK c, z : c = Chain(o) /\ z = Pos(o)
  OBVIOUS
<1>1. /\ IsChain(o, c) /\ Typed(c) /\ c \in Seq(Nat) /\ c # <<>> /\ Len(c) \in 1 .. Len(c)
      /\ c[Len(c)] = z /\ Placed(z) /\ addr_slots[z] \in Nat /\ addr_slots[z + 1] \in Nat
      /\ BlockOf(z) \in BlocksOf(o) /\ addr_slots[BlockOf(z) + 1] = BlockOf(c[1])
  BY <1>0, NewestEntry DEF IInv, NextEntry
<1>2. free_slot \in 0 .. Slots /\ free_slot' = free_slot /\ BlocksGrow /\ Used' = Used
  BY BlockSize DEF NextEntry, IInv, TypeOK, BlocksGrow, Used
<1>3. PICK p : p = z + 2
  OBVIOUS
<1>4. /\ addr_slots' = [addr_slots EXCEPT ![p] = current_chunk, ![p + 1] = n]
      /\ addr_count_table' = [addr_count_table EXCEPT ![o] =
                                [pos |-> p, count |-> @.count + n]]
      /\ Rem(z) # LastPlace
  BY <1>0, <1>3 DEF NextEntry, IsLastEntry, Rem, LastPlace
<1>5. /\ addr_slots \in [Words -> Nat \cup {Garbage}]
      /\ addr_count_table \in [Offsets -> [pos : 0 .. Fuel, count : Nat]]
      /\ current_chunk \in Nat /\ n \in Nat
  BY SlotsAssumption DEF IInv, TypeOK, Fuel
<1>6. /\ BlockOf(p) = BlockOf(z) /\ Rem(p) = Rem(z) + 2 /\ Rem(p) \in 2 .. LastPlace
      /\ z \in Nat /\ p \in Nat /\ Rem(z) \in Nat /\ BlockOf(z) \in Nat
      /\ BlockOf(z) + SlotSize <= Used
  <2>1. z \in Nat /\ Rem(z) \in Nat /\ BlockOf(z) \in Nat /\ BlockOf(z) + SlotSize <= Used
    BY <1>1, <1>2, PlacedFacts DEF Placed
  <2>2. BlockOf(p) = BlockOf(z) /\ Rem(p) = Rem(z) + 2 /\ Rem(p) \in 2 .. LastPlace
    BY <1>1, <1>2, <1>3, <1>4, PlacedFacts
  <2> QED
    BY <1>3, <2>1, <2>2
<1>7. Placed(p)
  <2>1. p = BlockOf(p) + Rem(p)
    BY <1>6, PositionSplit
  <2>2. p < Used
    BY <1>2, <1>6, <2>1, BlockSize, UsedType
  <2>3. Rem(z) % 2 = 0
    BY <1>1 DEF Placed
  <2> QED
    BY <1>6, <2>2, <2>3 DEF Placed
<1>8. p \in Words /\ p + 1 \in Words /\ BlockOf(p + 1) = BlockOf(z)
  BY <1>2, <1>6, <1>7, PlacedFacts
<1>9. /\ addr_slots'[p] = current_chunk /\ addr_slots'[p + 1] = n
      /\ \A w \in Words : w # p /\ w # p + 1 => addr_slots'[w] = addr_slots[w]
      /\ addr_slots' \in [Words -> Nat \cup {Garbage}]
  <2>1. p # p + 1
    BY <1>6
  <2> QED
    BY <1>4, <1>5, <1>8, <2>1
<1>10. Pos(o)' = p /\ \A q \in Offsets \ {o} : Pos(q)' = Pos(q)
  BY <1>4, <1>5 DEF Pos
<1>11. OthersUntouched(o)
  BY <1>1, <1>6, <1>8, <1>9, <1>10 DEF OthersUntouched
<1>12. \A i \in 1 .. Len(c) : BlockOf(c[i]) = BlockOf(p) => c[i] < p
  <2> SUFFICES ASSUME NEW i \in 1 .. Len(c), BlockOf(c[i]) = BlockOf(p) PROVE c[i] < p
    OBVIOUS
  <2>1. c[i] <= z /\ c[i] \in Nat
    BY <1>0, <1>1, <1>6 DEF IsChain, Closed
  <2> QED
    BY <1>3, <1>6, <2>1
<1>13. \A i \in 1 .. Len(c) :
        /\ addr_slots'[c[i]] = addr_slots[c[i]]
        /\ addr_slots'[c[i] + 1] = addr_slots[c[i] + 1]
        /\ addr_slots[c[i] + 1] \in Nat
        /\ addr_slots'[BlockOf(c[i])] = addr_slots[BlockOf(c[i])]
        /\ addr_slots'[BlockOf(c[i]) + 1] = addr_slots[BlockOf(c[i]) + 1]
  <2> SUFFICES ASSUME NEW i \in 1 .. Len(c)
               PROVE  /\ addr_slots[c[i] + 1] \in Nat
                      /\ \A w \in {c[i], c[i] + 1, BlockOf(c[i]), BlockOf(c[i]) + 1} :
                           addr_slots'[w] = addr_slots[w]
    OBVIOUS
  <2>1. Placed(c[i]) /\ addr_slots[c[i] + 1] \in Nat
    BY <1>1 DEF Typed
  <2>2. /\ c[i] \in Words /\ c[i] + 1 \in Words
        /\ BlockOf(c[i]) \in Words /\ BlockOf(c[i]) + 1 \in Words /\ c[i] \in Nat
    BY <1>2, <2>1, PlacedFacts DEF Placed
  <2>3. /\ c[i] # p + 1 /\ BlockOf(c[i]) # p + 1 /\ BlockOf(c[i]) + 1 # p + 1
        /\ BlockOf(c[i]) # p /\ BlockOf(c[i]) + 1 # p /\ p # c[i] + 1
    BY <1>2, <1>7, <2>1, PlacesDiffer
  <2>4. c[i] # p
    BY <1>6, <1>12, <2>2
  <2>5. c[i] + 1 # p + 1
    BY <1>6, <2>2, <2>4
  <2> QED
    BY <1>9, <2>1, <2>2, <2>3, <2>4, <2>5
<1>14. Kept(c)
  BY <1>13 DEF Kept
<1>15. Typed(c)' /\ Linked(c)' /\ Distinct(c)' /\ FirstBlocks(c)'
  BY <1>1, <1>2, <1>14, ChainKept DEF IsChain
<1>16. Grown(o, c, p)'
  <2>1. Placed(p)'
    BY <1>2, <1>7 DEF Placed, Rem, LastPlace
  <2>2. addr_slots'[p] \in Nat /\ addr_slots'[p + 1] \in Nat
    BY <1>5, <1>9
  <2>3. Follows(c[Len(c)], p)'
    BY <1>1, <1>3, <1>4 DEF Follows, Rem, LastPlace
  <2>4. addr_slots'[BlockOf(p) + 1] = BlockOf(c[1])
    BY <1>1, <1>6, <1>13
  <2>5. Rem(c[Len(c)]) # LastPlace
    BY <1>1, <1>4
  <2> QED
    BY <1>1, <1>10, <1>12, <1>15, <2>1, <2>2, <2>3, <2>4, <2>5
    DEF Grown, Pos
<1>17. Started(o, n) /\ BlocksOf(o)' = BlocksOf(o) \cup {BlockOf(p)}
  BY <1>0, <1>1, <1>2, <1>9, <1>13, <1>16, LongerChain
<1>18. BlocksOf(o)' = BlocksOf(o)
  BY <1>1, <1>6, <1>17
<1>19. Pos(o)' \in 0 .. Fuel
  BY <1>8, <1>10, BlockSize
<1> QED
  BY <1>2, <1>9, <1>11, <1>17, <1>18, <1>19

(* A further chunk, and no room: the block handed out becomes the last one *)
(* of the ring.                                                            *)
LEMMA NextBlockChain ==
  ASSUME IInv, NEW o \in Offsets, NEW n \in Ops, NextBlock(o, n)
  PROVE  /\ BlocksGrow /\ OthersUntouched(o) /\ Started(o, n)
         /\ BlocksOf(o)' = BlocksOf(o) \cup {Used}
         /\ Pos(o)' \in 0 .. Fuel /\ addr_slots' \in [Words -> Nat \cup {Garbage}]
<1>0. PICK c, z, u : c = Chain(o) /\ z = Pos(o) /\ u = Used
  OBVIOUS
<1>1. /\ IsChain(o, c) /\ Typed(c) /\ c \in Seq(Nat) /\ c # <<>> /\ Len(c) \in 1 .. Len(c)
      /\ c[Len(c)] = z /\ Placed(z) /\ addr_slots[z] \in Nat /\ addr_slots[z + 1] \in Nat
      /\ BlockOf(z) \in BlocksOf(o) /\ addr_slots[BlockOf(z) + 1] = BlockOf(c[1])
  BY <1>0, NewestEntry DEF IInv, NextBlock
<1>2. /\ BlocksGrow /\ free_slot \in 0 .. Slots /\ u \in Nat /\ Used' = u + SlotSize
      /\ \A k \in 0 .. SlotSize - 1 :
           u + k \in Words /\ BlockOf(u + k) = u /\ Rem(u + k) = k
  BY <1>0, FreshBlock DEF NextBlock, IInv, TypeOK
<1>3. PICK b : b = BlockOf(z)
  OBVIOUS
<1>4. /\ b \in Nat /\ z = b + Rem(z) /\ b + SlotSize <= u
      /\ b \in Words /\ b + 1 \in Words /\ BlockOf(b + 1) = b
  BY <1>0, <1>1, <1>2, <1>3, PlacedFacts
<1>5. Rem(z) = LastPlace
  BY <1>0 DEF NextBlock, IsLastEntry, Rem, LastPlace
<1>6. z - SlotSize + 2 = b
  BY <1>4, <1>5, BlockSize
<1>7. /\ addr_slots' = [addr_slots EXCEPT
                          ![u] = b, ![u + 1] = BlockOf(c[1]),
                          ![u + 2] = current_chunk, ![u + 3] = n,
                          ![b + 1] = u]
      /\ addr_count_table' = [addr_count_table EXCEPT ![o] =
                                [pos |-> u + 2, count |-> @.count + n]]
  BY <1>0, <1>1, <1>3, <1>6 DEF NextBlock, RingHead, Used
<1>8. /\ addr_slots \in [Words -> Nat \cup {Garbage}]
      /\ addr_count_table \in [Offsets -> [pos : 0 .. Fuel, count : Nat]]
      /\ current_chunk \in Nat /\ n \in Nat
  BY SlotsAssumption DEF IInv, TypeOK, Fuel
<1>9. u \in Words /\ u + 1 \in Words /\ u + 2 \in Words /\ u + 3 \in Words
  <2>1. 0 \in 0 .. SlotSize - 1 /\ 1 \in 0 .. SlotSize - 1 /\ 2 \in 0 .. SlotSize - 1
          /\ 3 \in 0 .. SlotSize - 1 /\ u + 0 = u
    BY <1>2, BlockSize
  <2> QED
    BY <1>2, <2>1
<1>10. BlockOf(u + 2) = u /\ Rem(u + 2) = 2
  BY <1>2, BlockSize
<1>11. Placed(c[1]) /\ BlockOf(c[1]) \in Nat
  <2>1. Placed(c[1])
    BY <1>1 DEF Typed
  <2> QED
    BY <1>2, <2>1, PlacedFacts
<1>12. b + 1 < u /\ b < u
  BY <1>2, <1>4, BlockSize
<1>13. /\ addr_slots'[u] = b /\ addr_slots'[u + 1] = BlockOf(c[1])
       /\ addr_slots'[u + 2] = current_chunk /\ addr_slots'[u + 3] = n
       /\ addr_slots'[b + 1] = u
       /\ \A w \in Words : w < u /\ w # b + 1 => addr_slots'[w] = addr_slots[w]
       /\ addr_slots' \in [Words -> Nat \cup {Garbage}]
  <2> DEFINE a == BlockOf(c[1])
  <2>0. a \in Nat /\ addr_slots' = [addr_slots EXCEPT
                          ![u] = b, ![u + 1] = a,
                          ![u + 2] = current_chunk, ![u + 3] = n,
                          ![b + 1] = u]
    BY <1>7, <1>11
  <2> HIDE DEF a
  <2>1. addr_slots' \in [Words -> Nat \cup {Garbage}]
    BY <1>2, <1>4, <1>8, <1>9, <2>0
  <2>2. u \in Nat /\ u # u + 1 /\ u # u + 2 /\ u # u + 3 /\ u + 1 # u + 2
          /\ u + 1 # u + 3 /\ u + 2 # u + 3
          /\ u # b + 1 /\ u + 1 # b + 1 /\ u + 2 # b + 1 /\ u + 3 # b + 1
          /\ \A w \in Words : w < u => w # u /\ w # u + 1 /\ w # u + 2 /\ w # u + 3
    BY <1>2, <1>4, <1>12, BlockSize
  <2>3. /\ addr_slots'[u] = b /\ addr_slots'[u + 1] = a
        /\ addr_slots'[u + 2] = current_chunk /\ addr_slots'[u + 3] = n
        /\ addr_slots'[b + 1] = u
        /\ \A w \in Words : w < u /\ w # b + 1 => addr_slots'[w] = addr_slots[w]
    BY <1>4, <1>8, <1>9, <2>0, <2>2
  <2> QED
    BY <2>1, <2>3 DEF a
<1>14. Pos(o)' = u + 2 /\ \A q \in Offsets \ {o} : Pos(q)' = Pos(q)
  BY <1>7, <1>8 DEF Pos
<1>15. OthersUntouched(o)
  BY <1>0, <1>1, <1>3, <1>4, <1>13, <1>14 DEF OthersUntouched
<1>16. \A i \in 1 .. Len(c) :
        /\ addr_slots'[c[i]] = addr_slots[c[i]]
        /\ addr_slots'[c[i] + 1] = addr_slots[c[i] + 1]
        /\ addr_slots[c[i] + 1] \in Nat
        /\ addr_slots'[BlockOf(c[i])] = addr_slots[BlockOf(c[i])]
        /\ BlockOf(c[i]) # b => addr_slots'[BlockOf(c[i]) + 1] = addr_slots[BlockOf(c[i]) + 1]
        /\ BlockOf(c[i]) # u
  <2> SUFFICES ASSUME NEW i \in 1 .. Len(c)
               PROVE  /\ addr_slots[c[i] + 1] \in Nat /\ BlockOf(c[i]) # u
                      /\ \A w \in {c[i], c[i] + 1, BlockOf(c[i])} :
                           addr_slots'[w] = addr_slots[w]
                      /\ BlockOf(c[i]) # b => addr_slots'[BlockOf(c[i]) + 1]
                                                = addr_slots[BlockOf(c[i]) + 1]
    OBVIOUS
  <2>1. Placed(c[i]) /\ addr_slots[c[i] + 1] \in Nat
    BY <1>1 DEF Typed
  <2>2. /\ c[i] \in Words /\ c[i] + 1 \in Words
        /\ BlockOf(c[i]) \in Words /\ BlockOf(c[i]) + 1 \in Words /\ BlockOf(c[i]) \in Nat
        /\ c[i] < u /\ c[i] + 1 < u /\ BlockOf(c[i]) < u /\ BlockOf(c[i]) + 1 < u
    BY <1>0, <1>2, <2>1, PlacedFacts, PlacedUsed
  <2>3. /\ c[i] # b + 1 /\ c[i] + 1 # b + 1 /\ BlockOf(c[i]) # b + 1
        /\ BlockOf(c[i]) # b => BlockOf(c[i]) + 1 # b + 1
    BY <1>1, <1>2, <1>3, <2>1, PlacesDiffer
  <2> QED
    BY <1>2, <1>13, <2>1, <2>2, <2>3
<1>17. Kept(c)
  <2>1. \A i \in 1 .. Len(c) : i < Len(c) /\ Rem(c[i]) = LastPlace => BlockOf(c[i]) # b
    <3> SUFFICES ASSUME NEW i \in 1 .. Len(c), i < Len(c), Rem(c[i]) = LastPlace,
                        BlockOf(c[i]) = b
                 PROVE  FALSE
      OBVIOUS
    <3>1. c[i] = BlockOf(c[i]) + Rem(c[i])
      BY <1>1, <1>2, PlacedFacts DEF Typed
    <3>2. c[i] = c[Len(c)]
      BY <1>1, <1>4, <1>5, <3>1
    <3>3. i # Len(c)
      BY <1>1
    <3> QED
      BY <1>1, <3>2, <3>3 DEF IsChain, Distinct
  <2> QED
    BY <1>16, <2>1 DEF Kept
<1>18. Typed(c)' /\ Linked(c)' /\ Distinct(c)' /\ FirstBlocks(c)'
  BY <1>1, <1>2, <1>17, ChainKept DEF IsChain
<1>19. PICK p : p = u + 2
  OBVIOUS
<1>20. BlockOf(p) = u /\ Rem(p) = 2 /\ p + 1 = u + 3 /\ p \in Nat
  BY <1>2, <1>10, <1>19
<1>21. Grown(o, c, p)'
  <2>1. Placed(p)'
    <3>1. 2 \in 2 .. LastPlace /\ 2 % 2 = 0 /\ p < Used'
      BY <1>2, <1>19, BlockSize
    <3> QED
      BY <1>20, <3>1 DEF Placed, Rem, LastPlace
  <2>2. addr_slots'[p] \in Nat /\ addr_slots'[p + 1] \in Nat
    BY <1>8, <1>13, <1>19, <1>20
  <2>3. Follows(c[Len(c)], p)'
    <3>1. u # 0
      BY <1>4, <1>12
    <3> QED
      BY <1>1, <1>3, <1>5, <1>13, <1>20, <3>1 DEF Follows, Rem, LastPlace
  <2>4. addr_slots'[BlockOf(p) + 1] = BlockOf(c[1])
    BY <1>13, <1>20
  <2>5. /\ \A i \in 1 .. Len(c) : BlockOf(c[i]) # BlockOf(p)
        /\ addr_slots'[BlockOf(p)] = BlockOf(c[Len(c)])
    BY <1>1, <1>3, <1>13, <1>16, <1>20
  <2>6. Pos(o)' = p
    BY <1>14, <1>19
  <2> QED
    BY <1>1, <1>18, <2>1, <2>2, <2>3, <2>4, <2>5, <2>6 DEF Grown, Pos
<1>22. Started(o, n) /\ BlocksOf(o)' = BlocksOf(o) \cup {BlockOf(p)}
  <2>1. addr_slots'[p] = current_chunk /\ addr_slots'[p + 1] = n
    BY <1>13, <1>19, <1>20
  <2>2. \A i \in 1 .. Len(c) : /\ addr_slots'[c[i]] = addr_slots[c[i]]
                               /\ addr_slots'[c[i] + 1] = addr_slots[c[i] + 1]
    BY <1>16
  <2>3. BlocksGrow /\ Chain(o) = c /\ IsChain(o, c)
    BY <1>0, <1>1, <1>2
  <2> QED
    BY <1>21, <2>1, <2>2, <2>3, LongerChain
<1>23. Pos(o)' \in 0 .. Fuel
  BY <1>9, <1>14, BlockSize
<1> QED
  BY <1>0, <1>2, <1>13, <1>15, <1>20, <1>22, <1>23

-----------------------------------------------------------------------------
(* What the steps keep                                                     *)

(* A step that writes nothing leaves every word alone.                     *)
LEMMA IdleChains ==
  ASSUME free_slot \in 0 .. Slots, Chained, free_slot' = free_slot, addr_slots' = addr_slots,
         NEW q \in Offsets, Pos(q)' = Pos(q)
  PROVE  Untouched(q)
<1>1. PICK c : c = Chain(q)
  OBVIOUS
<1>2. IsChain(q, c) /\ Typed(c)
  BY <1>1 DEF Chained, IsChain
<1>3. BlocksGrow
  BY BlockSize DEF BlocksGrow
<1>4. Kept(c)
  BY <1>2 DEF Kept, Typed
<1>5. IsChain(q, c)' /\ Chain(q)' = c
  BY <1>2, <1>3, <1>4, SameChain
<1> QED
  BY <1>1, <1>2, <1>5, SameEntries

(* No block changes hands.                                                 *)
LEMMA SamePartition ==
  ASSUME NoBlockSharedOrLost, free_slot' = free_slot, \A q \in Offsets : BlocksOf(q)' = BlocksOf(q)
  PROVE  NoBlockSharedOrLost'
<1>1. \A o, q \in Offsets : o # q => BlocksOf(o)' \cap BlocksOf(q)' = {}
  BY DEF NoBlockSharedOrLost
<1>2. UNION {BlocksOf(o)' : o \in Offsets} = UNION {BlocksOf(o) : o \in Offsets}
  OBVIOUS
<1> QED
  BY <1>1, <1>2 DEF NoBlockSharedOrLost

(* One word gets the next block.                                           *)
LEMMA LargerPartition ==
  ASSUME NoBlockSharedOrLost, free_slot \in 0 .. Slots, free_slot' = TakenSlot,
         NEW o \in Offsets, BlocksOf(o)' = BlocksOf(o) \cup {Used},
         \A q \in Offsets \ {o} : BlocksOf(q)' = BlocksOf(q)
  PROVE  NoBlockSharedOrLost'
<1> DEFINE S == SlotSize
           f == free_slot
           Before == {s * S : s \in 0 .. f - 1}
<1>1. S \in Nat /\ S # 0 /\ f \in Nat /\ free_slot' = f + 1
  BY BlockSize DEF TakenSlot
<1>2. UNION {BlocksOf(q) : q \in Offsets} = Before
  BY DEF NoBlockSharedOrLost
<1>3. Used \notin Before
  <2> SUFFICES ASSUME NEW s \in 0 .. f - 1, s * S = f * S PROVE FALSE
    BY DEF Used
  <2> HIDE DEF S, f
  <2>1. s \in Nat /\ s + 1 <= f
    BY <1>1
  <2>2. (s + 1) * S <= f * S /\ (s + 1) * S = s * S + S /\ s * S \in Nat
    BY <1>1, <2>1
  <2> QED
    BY <1>1, <2>2
<1>4. {s * S : s \in 0 .. (f + 1) - 1} = Before \cup {Used}
  <2>1. \A s : s \in 0 .. (f + 1) - 1 <=> (s \in 0 .. f - 1 \/ s = f)
    BY <1>1
  <2>2. Used = f * S
    BY DEF Used
  <2> QED
    BY <2>1, <2>2
<1> HIDE DEF Before
<1>5. UNION {BlocksOf(q)' : q \in Offsets} = Before \cup {Used}
  <2>1. \A x : (\E q \in Offsets : x \in BlocksOf(q)') <=>
                 (\E q \in Offsets : x \in BlocksOf(q)) \/ x = Used
    OBVIOUS
  <2> QED
    BY <1>2, <2>1
<1>6. \A p, q \in Offsets : p # q => BlocksOf(p)' \cap BlocksOf(q)' = {}
  <2>1. \A q \in Offsets : Used \notin BlocksOf(q)
    BY <1>2, <1>3
  <2>2. \A p, q \in Offsets : p # q => BlocksOf(p) \cap BlocksOf(q) = {}
    BY DEF NoBlockSharedOrLost
  <2> QED
    BY <2>1, <2>2
<1> QED
  BY <1>1, <1>4, <1>5, <1>6 DEF NoBlockSharedOrLost

(* The counts of a list of entries.                                        *)
CountsOf(h) == [i \in DOMAIN h |-> h[i].count]

(* The rows of a chain are the counts of its entries.                      *)
LEMMA RowsOfEntries ==
  \A o : RowsIn(Chain(o)) = Total(CountsOf(EntriesAt(Chain(o))))
BY DEF RowsIn, CountsOf, EntriesAt, EntryAt

(* The entries of a chain are entries, and their counts are numbers.       *)
LEMMA CountsTyped ==
  ASSUME NEW o, IsChain(o, Chain(o))
  PROVE  LET h == EntriesAt(Chain(o))
         IN  /\ Len(h) \in Nat /\ DOMAIN h = 1 .. Len(h)
             /\ h \in Seq([chunk : Nat, count : Nat])
             /\ CountsOf(h) \in Seq(Nat) /\ Len(CountsOf(h)) = Len(h)
<1> DEFINE c == Chain(o)
           m == Len(c)
           h == EntriesAt(c)
<1>1. /\ m \in Nat /\ DOMAIN c = 1 .. m
      /\ \A i \in 1 .. m : addr_slots[c[i]] \in Nat /\ addr_slots[c[i] + 1] \in Nat
  BY DEF IsChain, Typed
<1>2. h = [i \in 1 .. m |-> [chunk |-> addr_slots[c[i]], count |-> addr_slots[c[i] + 1]]]
  BY <1>1 DEF EntriesAt, EntryAt
<1> HIDE DEF c, m
<1>3. h \in [1 .. m -> [chunk : Nat, count : Nat]]
  BY <1>1, <1>2
<1>4. CountsOf(h) \in [1 .. m -> Nat]
  BY <1>3 DEF CountsOf
<1> HIDE DEF h
<1>5. h \in Seq([chunk : Nat, count : Nat]) /\ Len(h) = m /\ DOMAIN h = 1 .. m
  BY <1>1, <1>3, FunctionIsSeq
<1>6. CountsOf(h) \in Seq(Nat) /\ Len(CountsOf(h)) = m
  BY <1>1, <1>4, FunctionIsSeq
<1> QED
  BY <1>1, <1>5, <1>6 DEF h, c

(* An access adds its rows to the chain of its word.                       *)
LEMMA RowsGrow ==
  ASSUME NEW o, NEW n \in Nat, IsChain(o, Chain(o)), Started(o, n) \/ Extended(o, n)
  PROVE  RowsIn(Chain(o))' = RowsIn(Chain(o)) + n
<1>0. PICK h, g : h = EntriesAt(Chain(o)) /\ g = EntriesAt(Chain(o))'
  OBVIOUS
<1>1. RowsIn(Chain(o)) = Total(CountsOf(h)) /\ RowsIn(Chain(o))' = Total(CountsOf(g))
  <2>1. RowsIn(Chain(o)) = Total(CountsOf(h))
    BY <1>0, RowsOfEntries
  <2>2. RowsIn(Chain(o))' = Total(CountsOf(g))
    BY <1>0 DEF RowsIn, CountsOf, EntriesAt, EntryAt
  <2> QED
    BY <2>1, <2>2
<1>2. /\ Len(h) \in Nat /\ DOMAIN h = 1 .. Len(h) /\ h \in Seq([chunk : Nat, count : Nat])
      /\ CountsOf(h) \in Seq(Nat) /\ Len(CountsOf(h)) = Len(h)
  BY <1>0, CountsTyped
<1> DEFINE w == CountsOf(h)
           m == Len(h)
<1>3. w \in Seq(Nat) /\ Len(w) = m /\ m \in Nat /\ \A i \in 1 .. m : w[i] = h[i].count
  BY <1>2 DEF CountsOf
<1>4. CASE Started(o, n)
  <2> DEFINE e == [chunk |-> current_chunk, count |-> n]
  <2>1. g = Append(h, e)
    BY <1>0, <1>4 DEF Started
  <2>2. CountsOf(g) = Append(w, n)
    <3>1. /\ DOMAIN g = 1 .. m + 1 /\ g[m + 1] = e
          /\ \A i \in 1 .. m : g[i] = h[i]
      BY <1>2, <2>1
    <3>2. /\ Append(w, n) \in Seq(Nat) /\ Len(Append(w, n)) = m + 1
          /\ Append(w, n)[m + 1] = n /\ \A i \in 1 .. m : Append(w, n)[i] = w[i]
      <4> HIDE DEF w, m
      <4> QED
        BY <1>3, AppendProperties
    <3> DEFINE v == Append(w, n)
    <3> HIDE DEF m, w, v
    <3>3. DOMAIN v = 1 .. m + 1 /\ v = [i \in 1 .. m + 1 |-> v[i]]
      <4>1. v \in Seq(Nat) /\ Len(v) = m + 1
        BY <3>2 DEF v
      <4> QED
        BY <4>1
    <3>4. CountsOf(g) = [i \in 1 .. m + 1 |-> g[i].count]
      BY <3>1 DEF CountsOf
    <3>5. \A i \in 1 .. m + 1 : g[i].count = v[i]
      <4> SUFFICES ASSUME NEW i \in 1 .. m + 1 PROVE g[i].count = v[i]
        OBVIOUS
      <4>1. i \in 1 .. m \/ i = m + 1
        BY <1>3
      <4> QED
        BY <1>3, <3>1, <3>2, <4>1 DEF v
    <3> QED
      BY <3>3, <3>4, <3>5 DEF v
  <2> HIDE DEF w
  <2> QED
    BY <1>1, <1>3, <2>2, TotalAppend DEF w
<1>5. CASE Extended(o, n)
  <2>1. m \in 1 .. m /\ g = [h EXCEPT ![m].count = @ + n]
    BY <1>0, <1>5 DEF Extended
  <2>2. CountsOf(g) = [w EXCEPT ![Len(w)] = @ + n]
    <3>1. h[m] \in [chunk : Nat, count : Nat] /\ DOMAIN g = 1 .. m /\ DOMAIN w = 1 .. m
      <4>1. h[m] \in [chunk : Nat, count : Nat]
        <5> DEFINE V == [chunk : Nat, count : Nat]
        <5>1. h \in Seq(V) /\ m \in 1 .. Len(h)
          BY <1>2, <2>1
        <5> HIDE DEF V, m
        <5>2. h[m] \in V
          BY <5>1, SeqIsFunction
        <5> QED
          BY <5>2 DEF V
      <4>2. DOMAIN g = DOMAIN h /\ DOMAIN w = DOMAIN h
        BY <2>1 DEF CountsOf
      <4> QED
        BY <1>2, <4>1, <4>2
    <3>2. \A i \in 1 .. m : g[i].count = IF i = m THEN w[m] + n ELSE w[i]
      BY <1>2, <1>3, <2>1, <3>1
    <3>3. CountsOf(g) = [i \in 1 .. m |-> g[i].count]
      BY <3>1 DEF CountsOf
    <3>4. [w EXCEPT ![m] = @ + n] = [i \in 1 .. m |-> IF i = m THEN w[m] + n ELSE w[i]]
      <4> HIDE DEF w
      <4> QED
        BY <3>1
    <3> QED
      BY <1>3, <3>2, <3>3, <3>4
  <2>3. Len(w) # 0
    BY <1>3, <2>1
  <2> HIDE DEF w
  <2> QED
    BY <1>1, <1>3, <2>2, <2>3, TotalLastGrows DEF w
<1> QED
  BY <1>4, <1>5

(* A word whose entries are still the same has the same rows.              *)
LEMMA RowsStay ==
  ASSUME NEW q, EntriesAt(Chain(q))' = EntriesAt(Chain(q))
  PROVE  RowsIn(Chain(q))' = RowsIn(Chain(q))
<1>0. PICK h : h = EntriesAt(Chain(q)) /\ h = EntriesAt(Chain(q))'
  OBVIOUS
<1>1. RowsIn(Chain(q)) = Total(CountsOf(h))
  BY <1>0, RowsOfEntries
<1>2. RowsIn(Chain(q))' = Total(CountsOf(h))
  BY <1>0 DEF RowsIn, CountsOf, EntriesAt, EntryAt
<1> QED
  BY <1>1, <1>2

(* The totals of the table keep up with the chains.                        *)
LEMMA CountsKeepUp ==
  ASSUME IInv, ~terminated, NEW o \in Offsets, NEW n \in Nat,
         Started(o, n) \/ Extended(o, n),
         \A q \in Offsets \ {o} : Untouched(q),
         addr_count_table'[o].count = addr_count_table[o].count + n,
         \A q \in Offsets \ {o} : addr_count_table'[q].count = addr_count_table[q].count
  PROVE  CountIsChainTotal'
<1> SUFFICES ASSUME NEW q \in Offsets
             PROVE  addr_count_table'[q].count = RowsIn(Chain(q))'
  BY DEF CountIsChainTotal
<1>1. addr_count_table[q].count = RowsIn(Chain(q))
  BY DEF IInv, CountIsChainTotal
<1>2. CASE q = o
  <2>1. IsChain(o, Chain(o))
    BY DEF IInv, Chained
  <2> QED
    BY <1>1, <1>2, <2>1, RowsGrow
<1>3. CASE q # o
  BY <1>1, <1>3, RowsStay DEF Untouched
<1> QED
  BY <1>2, <1>3

(* The ranges of the pages when no word gets its first access.             *)
LEMMA SameExtremes ==
  ASSUME Extremes, UNCHANGED <<first_offset, last_offset>>,
         \A q \in Offsets : Pos(q)' = 0 <=> Pos(q) = 0
  PROVE  Extremes'
<1>1. \A p \in Pages : UsedOffsets(p)' = UsedOffsets(p)
  BY DEF UsedOffsets
<1> QED
  BY <1>1 DEF Extremes

(* The smaller and the larger one of two numbers.                          *)
LEMMA ExtremesOfTwo ==
  ASSUME NEW a \in Nat, NEW b \in Nat
  PROVE  /\ Min({a, b}) = IF a <= b THEN a ELSE b
         /\ Max({a, b}) = IF a <= b THEN b ELSE a
BY DEF Min, Max

(* The first access to a word widens the range of its page to it.          *)
LEMMA FirstAccessExtremes ==
  ASSUME IInv, NEW o \in Offsets, NEW n \in Ops, FirstAccess(o, n)
  PROVE  /\ Extremes'
         /\ first_offset' \in [Pages -> Offsets \cup {EmptyPage}]
         /\ last_offset' \in [Pages -> Offsets]
<1> DEFINE r == Page(o)
           low == first_offset[r]
           high == last_offset[r]
<1>1. r \in Pages
  BY DEF Pages
<1>2. /\ first_offset \in [Pages -> Offsets \cup {EmptyPage}]
      /\ last_offset \in [Pages -> Offsets]
      /\ NumOffsets \in Nat \ {0} /\ EmptyPage \in Nat /\ EmptyPage >= NumOffsets
      /\ Offsets = 0 .. NumOffsets - 1
  BY SlotsAssumption DEF IInv, TypeOK, Offsets
<1>3. o \in Nat /\ low \in Nat /\ high \in Nat /\ o <= EmptyPage /\ o < NumOffsets
  BY <1>1, <1>2
<1>4. /\ first_offset' = [first_offset EXCEPT ![r] = Min({low, o})]
      /\ last_offset' = [last_offset EXCEPT ![r] = Max({high, o})]
  BY DEF FirstAccess, RaisedLast
<1>5. PICK l, h : l = Min({low, o}) /\ h = Max({high, o})
  OBVIOUS
<1>6. /\ l \in {low, o} /\ l <= low /\ l <= o
      /\ h \in {high, o} /\ high <= h /\ o <= h
  <2>1. /\ l = IF low <= o THEN low ELSE o
        /\ h = IF high <= o THEN o ELSE high
    BY <1>3, <1>5, ExtremesOfTwo
  <2> HIDE DEF low, high
  <2> QED
    BY <1>3, <2>1
<1>7. /\ first_offset' = [first_offset EXCEPT ![r] = l]
      /\ last_offset' = [last_offset EXCEPT ![r] = h]
  BY <1>4, <1>5
<1>8. l \in Offsets \cup {EmptyPage} /\ h \in Offsets
  BY <1>1, <1>2, <1>6
<1>9. /\ first_offset' \in [Pages -> Offsets \cup {EmptyPage}]
      /\ last_offset' \in [Pages -> Offsets]
  BY <1>2, <1>7, <1>8
<1>10. Pos(o) = 0 /\ Pos(o)' # 0 /\ \A q \in Offsets \ {o} : Pos(q)' = Pos(q)
  <2>1. addr_count_table \in [Offsets -> [pos : 0 .. Slots * SlotSize, count : Nat]]
    BY DEF IInv, TypeOK
  <2>2. Used \in Nat
    BY UsedType DEF IInv, TypeOK
  <2>3. Pos(o)' = Used + 2 /\ \A q \in Offsets \ {o} : Pos(q)' = Pos(q)
    BY <2>1 DEF FirstAccess, Pos, Used
  <2> QED
    BY <2>2, <2>3 DEF FirstAccess
<1>11. \A p \in Pages : UsedOffsets(p)' = IF p = r THEN UsedOffsets(p) \cup {o} ELSE UsedOffsets(p)
  BY <1>10 DEF UsedOffsets
<1>12. ASSUME NEW p \in Pages
       PROVE  /\ first_offset'[p] \in UsedOffsets(p)' \cup {EmptyPage}
              /\ last_offset'[p] \in UsedOffsets(p)' \cup {0}
              /\ \A q \in UsedOffsets(p)' : first_offset'[p] <= q /\ q <= last_offset'[p]
  <2>1. /\ first_offset[p] \in UsedOffsets(p) \cup {EmptyPage}
        /\ last_offset[p] \in UsedOffsets(p) \cup {0}
        /\ \A q \in UsedOffsets(p) : first_offset[p] <= q /\ q <= last_offset[p]
    BY DEF IInv, Extremes
  <2>2. CASE p # r
    <3>1. first_offset'[p] = first_offset[p] /\ last_offset'[p] = last_offset[p]
      BY <1>2, <1>7, <2>2
    <3>2. UsedOffsets(p)' = UsedOffsets(p)
      BY <1>11, <2>2
    <3> QED
      BY <2>1, <3>1, <3>2
  <2>3. CASE p = r
    <3>1. first_offset'[p] = l /\ last_offset'[p] = h
      BY <1>1, <1>2, <1>7, <2>3
    <3>2. UsedOffsets(p)' = UsedOffsets(p) \cup {o}
      BY <1>11, <2>3
    <3>3. l \in UsedOffsets(p) \cup {o} \cup {EmptyPage} /\ h \in UsedOffsets(p) \cup {o} \cup {0}
      BY <1>6, <2>1, <2>3
    <3>4. \A q \in UsedOffsets(p) : q \in Nat
      BY <1>2 DEF UsedOffsets
    <3>5. l \in Nat /\ h \in Nat
      BY <1>3, <1>6
    <3>6. \A q \in UsedOffsets(p) : l <= q /\ q <= h
      BY <1>3, <1>6, <2>1, <2>3, <3>4, <3>5
    <3> QED
      BY <1>6, <3>1, <3>2, <3>3, <3>6
  <2> QED
    BY <2>2, <2>3
<1>13. Extremes'
  BY <1>12 DEF Extremes
<1> QED
  BY <1>9, <1>13

-----------------------------------------------------------------------------
(* The invariant is inductive                                              *)

(* Nothing counted yet.                                                    *)
LEMMA InitIInv ==
  ASSUME Init
  PROVE  IInv
<1>1. /\ \A o \in Offsets : Pos(o) = 0 /\ addr_count_table[o].count = 0
      /\ NumOffsets \in Nat \ {0} /\ EmptyPage \in Nat
  BY SlotsAssumption DEF Init, Pos
<1>2. TypeOK
  <2>1. addr_count_table \in [Offsets -> [pos : 0 .. Slots * SlotSize, count : Nat]]
    <3>1. 0 \in 0 .. Slots * SlotSize
      BY BlockSize DEF Fuel
    <3> QED
      BY <3>1 DEF Init
  <2>2. 0 \in 0 .. Slots /\ 0 \in 0 .. NumChunks - 1 /\ 0 \in Offsets
    BY SlotsAssumption DEF Offsets
  <2> QED
    BY <2>1, <2>2 DEF Init, TypeOK
<1>3. \A o \in Offsets : Chain(o) = <<>>
  BY <1>1 DEF Chain
<1>4. Chained
  <2> SUFFICES ASSUME NEW o \in Offsets PROVE IsChain(o, <<>>)
    BY <1>3 DEF Chained
  <2> QED
    BY <1>1 DEF IsChain, Typed, Linked, Distinct, Closed, FirstBlocks
<1>5. NoBlockSharedOrLost
  <2>1. \A o \in Offsets : BlocksOf(o) = {}
    BY <1>3 DEF BlocksOf
  <2>2. 0 .. free_slot - 1 = {}
    BY DEF Init
  <2> QED
    BY <2>1, <2>2 DEF NoBlockSharedOrLost
<1>6. CountIsChainTotal
  <2>1. \A o \in Offsets : RowsIn(Chain(o)) = 0
    <3>1. [i \in DOMAIN <<>> |-> addr_slots[<<>>[i] + 1]] = <<>>
      OBVIOUS
    <3> QED
      BY <1>3, <3>1, TotalEmpty DEF RowsIn
  <2> QED
    BY <1>1, <2>1 DEF CountIsChainTotal
<1>7. Extremes
  <2>1. \A p \in Pages : UsedOffsets(p) = {}
    BY <1>1 DEF UsedOffsets
  <2> QED
    BY <2>1 DEF Init, Extremes
<1> QED
  BY <1>2, <1>4, <1>5, <1>6, <1>7 DEF IInv

(* One chain per word.                                                     *)
LEMMA NextChained ==
  ASSUME IInv, BlocksGrow, NEW o \in Offsets, OthersUntouched(o), IsChain(o, Chain(o))'
  PROVE  Chained' /\ \A q \in Offsets \ {o} : Untouched(q)
<1>1. \A q \in Offsets \ {o} : Untouched(q)
  BY OtherChains DEF IInv
<1>2. \A q \in Offsets : IsChain(q, Chain(q))'
  BY <1>1 DEF Untouched
<1> QED
  BY <1>1, <1>2 DEF Chained

(* The first access: a block more, and a wider range of the page.          *)
LEMMA FirstAccessIInv ==
  ASSUME IInv, ~terminated, NEW o \in Offsets, NEW n \in Ops, FirstAccess(o, n)
  PROVE  IInv'
<1>1. /\ BlocksGrow /\ OthersUntouched(o) /\ Started(o, n)
      /\ Chain(o) = <<>> /\ BlocksOf(o)' = BlocksOf(o) \cup {Used}
      /\ Pos(o)' \in 0 .. Fuel /\ addr_slots' \in [Words -> Nat \cup {Garbage}]
  BY FirstAccessChain
<1>2. Chained' /\ \A q \in Offsets \ {o} : Untouched(q)
  BY <1>1, NextChained DEF Started
<1>3. /\ addr_count_table \in [Offsets -> [pos : 0 .. Fuel, count : Nat]]
      /\ n \in Nat /\ free_slot' = TakenSlot /\ free_slot \in 0 .. Slots
  BY SlotsAssumption DEF IInv, TypeOK, Fuel, FirstAccess
<1>4. PICK z : z = Pos(o)' /\ addr_count_table' = [addr_count_table EXCEPT ![o] =
                                                      [pos |-> z, count |-> n]]
  <2>1. \E z : addr_count_table' = [addr_count_table EXCEPT ![o] = [pos |-> z, count |-> n]]
    BY DEF FirstAccess, FirstCount
  <2> QED
    BY <1>3, <2>1 DEF Pos
<1>5. Extremes' /\ first_offset' \in [Pages -> Offsets \cup {EmptyPage}]
                /\ last_offset' \in [Pages -> Offsets]
  BY FirstAccessExtremes
<1>6. TypeOK'
  <2>1. addr_count_table' \in [Offsets -> [pos : 0 .. Fuel, count : Nat]]
    BY <1>1, <1>3, <1>4
  <2> QED
    BY <1>1, <1>5, <2>1 DEF TypeOK, IInv, FirstAccess, BlocksGrow, Fuel
<1>7. NoBlockSharedOrLost'
  BY <1>1, <1>2, <1>3, LargerPartition DEF IInv, Untouched
<1>8. CountIsChainTotal'
  <2>1. addr_count_table[o].count = 0
    <3>1. [i \in DOMAIN <<>> |-> addr_slots[<<>>[i] + 1]] = <<>>
      OBVIOUS
    <3> QED
      BY <1>1, <3>1, TotalEmpty DEF RowsIn, IInv, CountIsChainTotal
  <2>2. /\ addr_count_table'[o].count = addr_count_table[o].count + n
        /\ \A q \in Offsets \ {o} : addr_count_table'[q].count = addr_count_table[q].count
    BY <1>3, <1>4, <2>1
  <2> QED
    BY <1>1, <1>2, <1>3, <2>2, CountsKeepUp
<1> QED
  BY <1>2, <1>5, <1>6, <1>7, <1>8 DEF IInv

(* A further access in the chunk of the newest entry.                      *)
LEMMA SameChunkIInv ==
  ASSUME IInv, ~terminated, NEW o \in Offsets, NEW n \in Ops, SameChunk(o, n)
  PROVE  IInv'
<1>1. /\ BlocksGrow /\ OthersUntouched(o) /\ Extended(o, n)
      /\ BlocksOf(o)' = BlocksOf(o)
      /\ addr_slots' \in [Words -> Nat \cup {Garbage}]
  BY SameChunkChain
<1>2. Chained' /\ \A q \in Offsets \ {o} : Untouched(q)
  BY <1>1, NextChained DEF Extended
<1>3. /\ addr_count_table \in [Offsets -> [pos : 0 .. Fuel, count : Nat]]
      /\ n \in Nat
      /\ addr_count_table' = [addr_count_table EXCEPT ![o].count = @ + n]
  BY SlotsAssumption DEF IInv, TypeOK, Fuel, SameChunk
<1>4. /\ addr_count_table' \in [Offsets -> [pos : 0 .. Fuel, count : Nat]]
      /\ addr_count_table'[o].count = addr_count_table[o].count + n
      /\ \A q \in Offsets \ {o} : addr_count_table'[q].count = addr_count_table[q].count
      /\ \A q \in Offsets : Pos(q)' = Pos(q)
  BY <1>3 DEF Pos
<1>5. TypeOK'
  BY <1>1, <1>4 DEF TypeOK, IInv, SameChunk, Fuel
<1>6. NoBlockSharedOrLost'
  <2>1. \A q \in Offsets : BlocksOf(q)' = BlocksOf(q)
    BY <1>1, <1>2 DEF Untouched
  <2> QED
    BY <2>1, SamePartition DEF IInv, SameChunk
<1>7. CountIsChainTotal'
  BY <1>1, <1>2, <1>3, <1>4, CountsKeepUp
<1>8. Extremes'
  BY <1>4, SameExtremes DEF IInv, SameChunk
<1> QED
  BY <1>2, <1>5, <1>6, <1>7, <1>8 DEF IInv

(* NextEntry and NextBlock change the table in the same way.               *)
LEMMA MovedTable ==
  ASSUME IInv, ~terminated, NEW o \in Offsets, NEW n \in Ops, NEW z \in 0 .. Fuel, z # 0,
         Pos(o) # 0, Started(o, n), \A q \in Offsets \ {o} : Untouched(q),
         addr_count_table' = [addr_count_table EXCEPT ![o] = [pos |-> z, count |-> @.count + n]],
         UNCHANGED <<first_offset, last_offset>>
  PROVE  /\ CountIsChainTotal' /\ Extremes'
         /\ addr_count_table' \in [Offsets -> [pos : 0 .. Slots * SlotSize, count : Nat]]
<1>1. addr_count_table \in [Offsets -> [pos : 0 .. Fuel, count : Nat]] /\ n \in Nat
  BY SlotsAssumption DEF IInv, TypeOK, Fuel
<1>2. /\ addr_count_table' \in [Offsets -> [pos : 0 .. Fuel, count : Nat]]
      /\ addr_count_table'[o].count = addr_count_table[o].count + n
      /\ \A q \in Offsets \ {o} : addr_count_table'[q].count = addr_count_table[q].count
      /\ Pos(o)' = z /\ \A q \in Offsets \ {o} : Pos(q)' = Pos(q)
  BY <1>1 DEF Pos
<1>3. CountIsChainTotal'
  BY <1>1, <1>2, CountsKeepUp
<1>4. Extremes'
  <2>1. \A q \in Offsets : Pos(q)' = 0 <=> Pos(q) = 0
    BY <1>2
  <2> QED
    BY <2>1, SameExtremes DEF IInv
<1> QED
  BY <1>2, <1>3, <1>4 DEF Fuel

(* A further entry in the block.                                           *)
LEMMA NextEntryIInv ==
  ASSUME IInv, ~terminated, NEW o \in Offsets, NEW n \in Ops, NextEntry(o, n)
  PROVE  IInv'
<1>1. /\ BlocksGrow /\ OthersUntouched(o) /\ Started(o, n)
      /\ BlocksOf(o)' = BlocksOf(o)
      /\ Pos(o)' \in 0 .. Fuel /\ addr_slots' \in [Words -> Nat \cup {Garbage}]
  BY NextEntryChain
<1>2. Chained' /\ \A q \in Offsets \ {o} : Untouched(q)
  BY <1>1, NextChained DEF Started
<1>3. PICK z : z = Pos(o) + 2
  OBVIOUS
<1>4. addr_count_table' = [addr_count_table EXCEPT ![o] = [pos |-> z, count |-> @.count + n]]
  BY <1>3 DEF NextEntry
<1>5. z \in 0 .. Fuel /\ z # 0
  <2>1. addr_count_table \in [Offsets -> [pos : 0 .. Fuel, count : Nat]]
    BY DEF IInv, TypeOK, Fuel
  <2>2. Pos(o)' = z /\ Pos(o) \in Nat
    BY <1>4, <2>1, BlockSize DEF Pos
  <2> QED
    BY <1>1, <1>3, <2>2
<1>6. /\ CountIsChainTotal' /\ Extremes'
      /\ addr_count_table' \in [Offsets -> [pos : 0 .. Slots * SlotSize, count : Nat]]
  BY <1>1, <1>2, <1>4, <1>5, MovedTable DEF NextEntry
<1>7. TypeOK'
  BY <1>1, <1>6 DEF TypeOK, IInv, NextEntry
<1>8. NoBlockSharedOrLost'
  <2>1. \A q \in Offsets : BlocksOf(q)' = BlocksOf(q)
    BY <1>1, <1>2 DEF Untouched
  <2> QED
    BY <2>1, SamePartition DEF IInv, NextEntry
<1> QED
  BY <1>2, <1>6, <1>7, <1>8 DEF IInv

(* A further entry in a block of its own.                                  *)
LEMMA NextBlockIInv ==
  ASSUME IInv, ~terminated, NEW o \in Offsets, NEW n \in Ops, NextBlock(o, n)
  PROVE  IInv'
<1>1. /\ BlocksGrow /\ OthersUntouched(o) /\ Started(o, n)
      /\ BlocksOf(o)' = BlocksOf(o) \cup {Used}
      /\ Pos(o)' \in 0 .. Fuel /\ addr_slots' \in [Words -> Nat \cup {Garbage}]
  BY NextBlockChain
<1>2. Chained' /\ \A q \in Offsets \ {o} : Untouched(q)
  BY <1>1, NextChained DEF Started
<1>3. PICK z : z = Used + 2
  OBVIOUS
<1>4. addr_count_table' = [addr_count_table EXCEPT ![o] = [pos |-> z, count |-> @.count + n]]
  BY <1>3 DEF NextBlock, Used
<1>5. z \in 0 .. Fuel /\ z # 0
  <2>1. addr_count_table \in [Offsets -> [pos : 0 .. Fuel, count : Nat]] /\ Used \in Nat
    BY UsedType DEF IInv, TypeOK, Fuel
  <2>2. Pos(o)' = z
    BY <1>4, <2>1 DEF Pos
  <2> QED
    BY <1>1, <1>3, <2>1, <2>2
<1>6. /\ CountIsChainTotal' /\ Extremes'
      /\ addr_count_table' \in [Offsets -> [pos : 0 .. Slots * SlotSize, count : Nat]]
  BY <1>1, <1>2, <1>4, <1>5, MovedTable DEF NextBlock
<1>7. TypeOK'
  BY <1>1, <1>6 DEF TypeOK, IInv, NextBlock, BlocksGrow
<1>8. NoBlockSharedOrLost'
  BY <1>1, <1>2, LargerPartition DEF IInv, TypeOK, Untouched, NextBlock
<1> QED
  BY <1>2, <1>6, <1>7, <1>8 DEF IInv

(* Steps that write to no block: the throw, the next chunk, the end.       *)
LEMMA IdleIInv ==
  ASSUME IInv, UNCHANGED <<addr_slots, free_slot, first_offset, last_offset>>,
         addr_count_table' \in [Offsets -> [pos : 0 .. Slots * SlotSize, count : Nat]],
         \A q \in Offsets : Pos(q)' = Pos(q),
         current_chunk' \in 0 .. NumChunks - 1, terminated' \in BOOLEAN,
         ~terminated' => ~terminated /\ addr_count_table' = addr_count_table
  PROVE  IInv' /\ \A q \in Offsets : Untouched(q)
<1>1. \A q \in Offsets : Untouched(q)
  BY IdleChains DEF IInv, TypeOK
<1>2. Chained'
  BY <1>1 DEF Chained, Untouched
<1>3. TypeOK'
  BY DEF IInv, TypeOK
<1>4. NoBlockSharedOrLost'
  BY <1>1, SamePartition DEF IInv, Untouched
<1>5. CountIsChainTotal'
  <2> SUFFICES ASSUME ~terminated', NEW q \in Offsets
               PROVE  addr_count_table'[q].count = RowsIn(Chain(q))'
    BY DEF CountIsChainTotal
  <2>1. addr_count_table[q].count = RowsIn(Chain(q))
    BY DEF IInv, CountIsChainTotal
  <2> QED
    BY <1>1, <2>1, RowsStay DEF Untouched
<1>6. Extremes'
  BY SameExtremes DEF IInv
<1> QED
  BY <1>1, <1>2, <1>3, <1>4, <1>5, <1>6 DEF IInv

(* The throw: the chains are still what they were.                         *)
LEMMA NoFreeSlotIInv ==
  ASSUME IInv, ~terminated, NEW o \in Offsets, NEW n \in Ops, NoFreeSlot(o, n)
  PROVE  IInv' /\ \A q \in Offsets : Untouched(q)
<1>1. /\ addr_count_table \in [Offsets -> [pos : 0 .. Slots * SlotSize, count : Nat]]
      /\ current_chunk \in 0 .. NumChunks - 1 /\ n \in Nat
  BY SlotsAssumption DEF IInv, TypeOK
<1>2. addr_count_table' = [addr_count_table EXCEPT ![o].count =
                             IF Pos(o) = 0 THEN @ ELSE @ + n]
  BY DEF NoFreeSlot
<1>3. /\ addr_count_table' \in [Offsets -> [pos : 0 .. Slots * SlotSize, count : Nat]]
      /\ \A q \in Offsets : Pos(q)' = Pos(q)
  BY <1>1, <1>2 DEF Pos
<1>4. /\ terminated' = TRUE /\ terminated' \in BOOLEAN /\ current_chunk' = current_chunk
      /\ UNCHANGED <<addr_slots, free_slot, first_offset, last_offset>>
  BY DEF NoFreeSlot
<1>5. ~terminated' => ~terminated /\ addr_count_table' = addr_count_table
  BY <1>4
<1>6. current_chunk' \in 0 .. NumChunks - 1
  BY <1>1, <1>4
<1> QED
  BY <1>3, <1>4, <1>5, <1>6, IdleIInv

(* The following chunk.                                                    *)
LEMMA NextChunkIInv ==
  ASSUME IInv, NextChunk
  PROVE  IInv' /\ \A q \in Offsets : Untouched(q)
<1>1. /\ addr_count_table' \in [Offsets -> [pos : 0 .. Slots * SlotSize, count : Nat]]
      /\ addr_count_table' = addr_count_table
      /\ UNCHANGED <<addr_slots, free_slot, first_offset, last_offset>>
      /\ terminated' = terminated /\ terminated \in BOOLEAN
  BY DEF IInv, TypeOK, NextChunk
<1>2. \A q \in Offsets : Pos(q)' = Pos(q)
  BY <1>1 DEF Pos
<1>3. current_chunk' \in 0 .. NumChunks - 1
  <2>1. current_chunk \in 0 .. NumChunks - 1 /\ NumChunks \in Nat
    BY SlotsAssumption DEF IInv, TypeOK
  <2> QED
    BY <2>1 DEF NextChunk
<1>4. terminated' \in BOOLEAN
  BY <1>1
<1>5. ~terminated' => ~terminated /\ addr_count_table' = addr_count_table
  BY <1>1
<1> QED
  BY <1>1, <1>2, <1>3, <1>4, <1>5, IdleIInv

(* No step.                                                                *)
LEMMA StutterIInv ==
  ASSUME IInv, UNCHANGED vars
  PROVE  IInv' /\ \A q \in Offsets : Untouched(q)
<1>1. /\ addr_count_table' \in [Offsets -> [pos : 0 .. Slots * SlotSize, count : Nat]]
      /\ addr_count_table' = addr_count_table
      /\ UNCHANGED <<addr_slots, free_slot, first_offset, last_offset>>
      /\ terminated' = terminated /\ terminated \in BOOLEAN
      /\ current_chunk' \in 0 .. NumChunks - 1
  BY DEF IInv, TypeOK, vars
<1>2. \A q \in Offsets : Pos(q)' = Pos(q)
  BY <1>1 DEF Pos
<1>3. terminated' \in BOOLEAN
  BY <1>1
<1>4. ~terminated' => ~terminated /\ addr_count_table' = addr_count_table
  BY <1>1
<1> QED
  BY <1>1, <1>2, <1>3, <1>4, IdleIInv

(* Every step.                                                             *)
LEMMA NextIInv ==
  ASSUME IInv, [Next]_vars
  PROVE  IInv'
<1>1. CASE UNCHANGED vars
  BY <1>1, StutterIInv
<1>2. CASE NextChunk
  BY <1>2, NextChunkIInv
<1>3. ASSUME NEW o \in Offsets, NEW n \in Ops, CountAligned(o, n) PROVE IInv'
  <2>1. ~terminated
    BY <1>3 DEF CountAligned
  <2>2. CASE FirstAccess(o, n)
    BY <2>1, <2>2, FirstAccessIInv
  <2>3. CASE SameChunk(o, n)
    BY <2>1, <2>3, SameChunkIInv
  <2>4. CASE NextEntry(o, n)
    BY <2>1, <2>4, NextEntryIInv
  <2>5. CASE NextBlock(o, n)
    BY <2>1, <2>5, NextBlockIInv
  <2>6. CASE NoFreeSlot(o, n)
    BY <2>1, <2>6, NoFreeSlotIInv
  <2> QED
    BY <1>3, <2>2, <2>3, <2>4, <2>5, <2>6 DEF CountAligned
<1>4. CASE Finished
  BY <1>4, StutterIInv DEF Finished
<1> QED
  BY <1>1, <1>2, <1>3, <1>4 DEF Next

(* The invariant holds in every state.                                     *)
LEMMA Invariance ==
  Spec => []IInv
<1>1. Init => IInv
  BY InitIInv
<1>2. IInv /\ [Next]_vars => IInv'
  BY NextIInv
<1> QED
  BY <1>1, <1>2, PTL DEF Spec

(* The table, the blocks and the limits have their types: a position never *)
(* points behind addr_slots, whatever order the words are accessed in.     *)
THEOREM StoreTypeCorrect == Spec => []TypeOK
<1>1. IInv => TypeOK
  BY DEF IInv
<1> QED
  BY <1>1, Invariance, PTL

(* A planner's walk visits the entries of the word, all of them but for the*)
(* word that owns block 0 while it has two blocks.                         *)
THEOREM WalksVisitChains == Spec => []WalkIsChain
<1>1. IInv => WalkIsChain
  BY WalkOfChain DEF IInv, TypeOK, Chained, WalkIsChain
<1> QED
  BY <1>1, Invariance, PTL

(* get_next_slot_pos throws only when nothing is left: until then no call  *)
(* is refused, and after it none is made.                                  *)
LEMMA GivesUpWhenFull == Spec => [](terminated => free_slot = Slots)
<1> DEFINE Full == terminated => free_slot = Slots
<1>1. Init => Full
  BY DEF Init
<1>2. IInv /\ Full /\ [Next]_vars => Full'
  <2> SUFFICES ASSUME IInv, Full, [Next]_vars PROVE Full'
    OBVIOUS
  <2>1. free_slot \in 0 .. Slots /\ Slots \in Nat
    BY SlotsAssumption DEF IInv, TypeOK
  <2>2. CASE NextChunk \/ Finished \/ UNCHANGED vars
    BY <2>2 DEF NextChunk, Finished, vars
  <2>3. ASSUME NEW o \in Offsets, NEW n \in Ops, CountAligned(o, n) PROVE Full'
    <3>1. CASE NoFreeSlot(o, n)
      BY <2>1, <3>1 DEF NoFreeSlot, HasFreeSlot
    <3>2. CASE ~NoFreeSlot(o, n)
      BY <2>3, <3>2 DEF CountAligned, FirstAccess, SameChunk, NextEntry, NextBlock
    <3> QED
      BY <3>1, <3>2
  <2> QED
    BY <2>2, <2>3 DEF Next
<1> QED
  BY <1>1, <1>2, Invariance, PTL DEF Spec

(* No block is shared between words, none is lost and none is held back.   *)
THEOREM BlocksHaveOneOwner == Spec => []BlocksPartitioned
<1>1. IInv /\ (terminated => free_slot = Slots) => BlocksPartitioned
  BY DEF IInv, BlocksPartitioned
<1> QED
  BY <1>1, Invariance, GivesUpWhenFull, PTL

(* The total of a word in the table is the sum over its chain.             *)
THEOREM CountsAreTotals == Spec => []CountIsChainTotal
<1>1. IInv => CountIsChainTotal
  BY DEF IInv
<1> QED
  BY <1>1, Invariance, PTL

(* The range of a page is that of its accessed offsets.                    *)
THEOREM LimitsTight == Spec => []LimitsAreTight
<1>1. ASSUME TypeOK, Extremes PROVE LimitsAreTight
  <2> SUFFICES ASSUME NEW p \in Pages
               PROVE  /\ first_offset[p] = Min(UsedOffsets(p) \cup {EmptyPage})
                      /\ last_offset[p] = Max(UsedOffsets(p) \cup {0})
    BY DEF LimitsAreTight, UsedOffsets
  <2> DEFINE U == UsedOffsets(p)
  <2>1. /\ first_offset[p] \in U \cup {EmptyPage}
        /\ last_offset[p] \in U \cup {0}
        /\ \A o \in U : first_offset[p] <= o /\ o <= last_offset[p]
    BY <1>1 DEF Extremes
  <2>2. /\ \A o \in U : o \in Nat /\ o <= EmptyPage
        /\ EmptyPage \in Nat /\ first_offset[p] \in Nat /\ last_offset[p] \in Nat
        /\ first_offset[p] <= EmptyPage
    <3>1. NumOffsets \in Nat /\ EmptyPage \in Nat /\ EmptyPage >= NumOffsets
      BY SlotsAssumption
    <3>2. \A o \in Offsets : o \in Nat /\ o <= EmptyPage
      BY <3>1 DEF Offsets
    <3>3. U \subseteq Offsets
      BY DEF UsedOffsets
    <3>4. first_offset[p] \in Offsets \cup {EmptyPage} /\ last_offset[p] \in Offsets
      BY <1>1 DEF TypeOK
    <3> HIDE DEF U
    <3> QED
      BY <3>1, <3>2, <3>3, <3>4
  <2> HIDE DEF U
  <2>3. first_offset[p] = Min(U \cup {EmptyPage})
    <3> DEFINE m == first_offset[p]
               V == U \cup {EmptyPage}
    <3>1. m \in V /\ \A y \in V : m <= y /\ y \in Nat
      BY <2>1, <2>2
    <3> HIDE DEF m, V
    <3>2. \A x \in V : (\A y \in V : x <= y) => x = m
      BY <3>1
    <3> QED
      BY <3>1, <3>2 DEF Min, m, V
  <2>4. last_offset[p] = Max(U \cup {0})
    <3> DEFINE m == last_offset[p]
               V == U \cup {0}
    <3>1. m \in V /\ \A y \in V : m >= y /\ y \in Nat
      BY <2>1, <2>2
    <3> HIDE DEF m, V
    <3>2. \A x \in V : (\A y \in V : x >= y) => x = m
      BY <3>1
    <3> QED
      BY <3>1, <3>2 DEF Max, m, V
  <2> QED
    BY <2>3, <2>4 DEF U
<1>2. IInv => LimitsAreTight
  BY <1>1 DEF IInv
<1> QED
  BY <1>2, Invariance, PTL

-----------------------------------------------------------------------------
(* The store implements AddrHistory                                        *)

(* The value AddrHistory's variable has in a state of the store.           *)
Histories == [o \in Offsets |-> EntriesAt(Chain(o))]

(* The last entry of a word is that of the table.                          *)
LEMMA LastEntry ==
  ASSUME IInv, NEW o \in Offsets, Pos(o) # 0
  PROVE  /\ Histories[o] # <<>>
         /\ Histories[o][Len(Histories[o])].chunk = addr_slots[Pos(o)]
<1>0. PICK c : c = Chain(o)
  OBVIOUS
<1> DEFINE m == Len(c)
           h == EntriesAt(c)
<1>1. c \in Seq(Nat) /\ m \in 1 .. m /\ c[m] = Pos(o)
  BY <1>0, NewestEntry DEF IInv
<1>2. h = [i \in 1 .. m |-> [chunk |-> addr_slots[c[i]], count |-> addr_slots[c[i] + 1]]]
  BY <1>1 DEF EntriesAt, EntryAt
<1>3. Len(h) = m
  BY <1>0, <1>1, <1>2, CountsTyped DEF IInv, Chained
<1>4. h[m].chunk = addr_slots[Pos(o)]
  BY <1>1, <1>2
<1>5. h # <<>>
  <2>1. Len(<<>>) = 0 /\ m # 0
    BY <1>1
  <2> HIDE DEF h, m
  <2> QED
    BY <1>3, <2>1
<1> QED
  BY <1>0, <1>3, <1>4, <1>5 DEF Histories

(* A further entry, of a chunk that has not touched the word.              *)
LEMMA StartedIsStart ==
  ASSUME NEW o \in Offsets, NEW n \in Ops, Started(o, n), \A q \in Offsets \ {o} : Untouched(q),
         Histories[o] = <<>> \/ Histories[o][Len(Histories[o])].chunk # current_chunk,
         current_chunk' = current_chunk
  PROVE  History!Start(o, n)
<1>1. Histories' = [Histories EXCEPT ![o] = Append(@, [chunk |-> current_chunk, count |-> n])]
  BY DEF Started, Untouched, Histories
<1> QED
  BY <1>1 DEF History!Start, History!Touched, Histories

(* A larger count of the newest entry, of the current chunk.               *)
LEMMA ExtendedIsExtend ==
  ASSUME NEW o \in Offsets, NEW n \in Ops, Extended(o, n), \A q \in Offsets \ {o} : Untouched(q),
         Histories[o] # <<>>, current_chunk' = current_chunk
  PROVE  History!Extend(o, n)
<1>0. PICK h, g : h = EntriesAt(Chain(o)) /\ g = EntriesAt(Chain(o))'
  OBVIOUS
<1>1. /\ g = [h EXCEPT ![Len(h)].count = @ + n]
      /\ h[Len(h)].chunk = current_chunk /\ Histories[o] = h
  BY <1>0 DEF Extended, Histories
<1>2. Histories' = [Histories EXCEPT ![o] = g]
  BY <1>0 DEF Untouched, Histories
<1>3. Histories' = [Histories EXCEPT ![o][Len(Histories[o])].count = @ + n]
  BY <1>1, <1>2
<1> QED
  BY <1>1, <1>3 DEF History!Extend, History!Touched, Histories

(* A call of count_aligned is a step of AddrHistory; the throw is none.    *)
LEMMA AccessImplements ==
  ASSUME IInv, NEW o \in Offsets, NEW n \in Ops, CountAligned(o, n)
  PROVE  [History!Next]_(History!vars)
<1>1. ~terminated
  BY DEF CountAligned
<1>2. CASE FirstAccess(o, n)
  <2>1. BlocksGrow /\ OthersUntouched(o) /\ Started(o, n) /\ Chain(o) = <<>>
    BY <1>2, FirstAccessChain
  <2>2. \A q \in Offsets \ {o} : Untouched(q)
    BY <2>1, NextChained DEF Started
  <2>3. Histories[o] = <<>>
    BY <2>1 DEF Histories, EntriesAt
  <2>4. History!Start(o, n)
    BY <1>2, <2>1, <2>2, <2>3, StartedIsStart DEF FirstAccess
  <2> QED
    BY <2>4 DEF History!Next
<1>3. CASE SameChunk(o, n)
  <2>1. BlocksGrow /\ OthersUntouched(o) /\ Extended(o, n)
    BY <1>3, SameChunkChain
  <2>2. \A q \in Offsets \ {o} : Untouched(q)
    BY <2>1, NextChained DEF Extended
  <2>3. Histories[o] # <<>>
    BY <1>3, LastEntry DEF SameChunk
  <2>4. History!Extend(o, n)
    BY <1>3, <2>1, <2>2, <2>3, ExtendedIsExtend DEF SameChunk
  <2> QED
    BY <2>4 DEF History!Next
<1>4. CASE NextEntry(o, n)
  <2>1. BlocksGrow /\ OthersUntouched(o) /\ Started(o, n)
    BY <1>4, NextEntryChain
  <2>2. \A q \in Offsets \ {o} : Untouched(q)
    BY <2>1, NextChained DEF Started
  <2>3. Histories[o][Len(Histories[o])].chunk # current_chunk
    BY <1>4, LastEntry DEF NextEntry
  <2>4. History!Start(o, n)
    BY <1>4, <2>1, <2>2, <2>3, StartedIsStart DEF NextEntry
  <2> QED
    BY <2>4 DEF History!Next
<1>5. CASE NextBlock(o, n)
  <2>1. BlocksGrow /\ OthersUntouched(o) /\ Started(o, n)
    BY <1>5, NextBlockChain
  <2>2. \A q \in Offsets \ {o} : Untouched(q)
    BY <2>1, NextChained DEF Started
  <2>3. Histories[o][Len(Histories[o])].chunk # current_chunk
    BY <1>5, LastEntry DEF NextBlock
  <2>4. History!Start(o, n)
    BY <1>5, <2>1, <2>2, <2>3, StartedIsStart DEF NextBlock
  <2> QED
    BY <2>4 DEF History!Next
<1>6. CASE NoFreeSlot(o, n)
  <2>1. \A q \in Offsets : Untouched(q)
    BY <1>1, <1>6, NoFreeSlotIInv
  <2>2. current_chunk' = current_chunk
    BY <1>6 DEF NoFreeSlot
  <2> QED
    BY <2>1, <2>2 DEF History!vars, Untouched
<1> QED
  BY <1>2, <1>3, <1>4, <1>5, <1>6 DEF CountAligned

(* The steps of the store are steps of the abstract history, or none: the  *)
(* chains of a MemCounter are the lists of chunks and rows that the        *)
(* planners take them for.                                                 *)
THEOREM StoreImplementsHistory == Spec => ImplementsHistory
<1>1. Init => History!Init
  <2> SUFFICES ASSUME Init PROVE History!Init
    OBVIOUS
  <2>1. \A o \in Offsets : EntriesAt(Chain(o)) = <<>>
    <3>1. \A o \in Offsets : Chain(o) = <<>>
      BY DEF Init, Chain, Pos
    <3> QED
      BY <3>1 DEF EntriesAt
  <2> QED
    BY <2>1 DEF Init, History!Init
<1>2. IInv /\ [Next]_vars => [History!Next]_(History!vars)
  <2> SUFFICES ASSUME IInv, [Next]_vars PROVE [History!Next]_(History!vars)
    OBVIOUS
  <2>1. CASE UNCHANGED vars
    BY <2>1, StutterIInv DEF vars, History!vars, Untouched
  <2>2. CASE NextChunk
    <3>1. \A q \in Offsets : Untouched(q)
      BY <2>2, NextChunkIInv
    <3>2. History!NextChunk
      BY <2>2, <3>1 DEF NextChunk, History!NextChunk, Untouched
    <3> QED
      BY <3>2 DEF History!Next
  <2>3. ASSUME NEW o \in Offsets, NEW n \in Ops, CountAligned(o, n)
        PROVE  [History!Next]_(History!vars)
    BY <2>3, AccessImplements
  <2>4. CASE Finished
    BY <2>4, StutterIInv DEF Finished, vars, History!vars, Untouched
  <2> QED
    BY <2>1, <2>2, <2>3, <2>4 DEF Next
<1> QED
  BY <1>1, <1>2, Invariance, PTL DEF Spec, ImplementsHistory, History!Spec

-----------------------------------------------------------------------------
(* What the abstract history promises                                      *)

(* AddrHistory's types and the order of its entries, in a state of the     *)
(* store.  They are inductive together: an entry is appended only when the *)
(* last one is of an earlier chunk.                                        *)
HistoriesTyped ==
  /\ current_chunk \in 0 .. NumChunks - 1
  /\ Histories \in [Offsets -> Seq(History!Entries)]

HistoriesInOrder ==
  \A o \in Offsets :
    /\ \A i, j \in DOMAIN Histories[o] :
         i < j => Histories[o][i].chunk < Histories[o][j].chunk
    /\ \A i \in DOMAIN Histories[o] : Histories[o][i].chunk <= current_chunk

HistoryInv == HistoriesTyped /\ HistoriesInOrder

(* The chunk of an entry is a chunk of the trace.                          *)
LEMMA HistoryEntry ==
  ASSUME HistoriesTyped, NEW o \in Offsets, NEW i \in DOMAIN Histories[o]
  PROVE  Histories[o][i] \in History!Entries /\ Histories[o][i].chunk \in Nat
<1>1. Histories[o] \in Seq(History!Entries)
  BY DEF HistoriesTyped
<1>2. Histories[o][i] \in History!Entries
  BY <1>1
<1> QED
  BY <1>2 DEF History!Entries

(* Nothing counted yet.                                                    *)
LEMMA HistoryStarts ==
  ASSUME History!Init
  PROVE  HistoryInv
<1>1. current_chunk = 0 /\ current_chunk \in 0 .. NumChunks - 1
  BY SlotsAssumption DEF History!Init
<1>2. Histories \in [Offsets -> Seq(History!Entries)] /\ \A o \in Offsets : Histories[o] = <<>>
  <2>1. Histories = [o \in Offsets |-> <<>>]
    BY DEF History!Init, Histories
  <2> QED
    BY <2>1
<1>3. HistoriesTyped
  BY <1>1, <1>2 DEF HistoriesTyped
<1>4. HistoriesInOrder
  BY <1>2 DEF HistoriesInOrder
<1> QED
  BY <1>3, <1>4 DEF HistoryInv

(* The following chunk: all entries are of earlier ones.                   *)
LEMMA HistoryNextChunk ==
  ASSUME HistoryInv, History!NextChunk
  PROVE  HistoryInv'
<1> USE DEF HistoryInv
<1>1. /\ Histories' = Histories /\ current_chunk' = current_chunk + 1
      /\ current_chunk + 1 < NumChunks
  BY DEF History!NextChunk, Histories
<1>2. current_chunk \in 0 .. NumChunks - 1 /\ NumChunks \in Nat
  BY SlotsAssumption DEF HistoriesTyped
<1>3. HistoriesTyped'
  BY <1>1, <1>2 DEF HistoriesTyped
<1>4. HistoriesInOrder'
  BY <1>1, <1>2, HistoryEntry DEF HistoriesInOrder
<1> QED
  BY <1>3, <1>4

(* An entry that grows keeps its chunk and its place.                      *)
LEMMA HistoryExtend ==
  ASSUME HistoryInv, NEW o \in Offsets, NEW n \in Ops, History!Extend(o, n)
  PROVE  HistoryInv'
<1> USE DEF HistoryInv
<1> DEFINE h == Histories[o]
           last == Len(h)
           grown == [h EXCEPT ![last].count = @ + n]
<1>1. h \in Seq(History!Entries) /\ last \in DOMAIN h
  BY DEF History!Extend, History!Touched, HistoriesTyped, Histories
<1>2. h[last] \in History!Entries /\ n \in Nat \ {0}
  BY <1>1, SlotsAssumption
<1>3. [h[last] EXCEPT !.count = @ + n] \in History!Entries
  BY <1>2 DEF History!Entries
<1>4. grown \in Seq(History!Entries) /\ DOMAIN grown = DOMAIN h
  BY <1>1, <1>3
<1>5. \A i \in DOMAIN h : grown[i].chunk = h[i].chunk
  BY <1>1, <1>2 DEF History!Entries
<1>6. Histories' = [Histories EXCEPT ![o] = grown] /\ current_chunk' = current_chunk
  BY DEF History!Extend, Histories
<1> HIDE DEF h, grown, last
<1>7. HistoriesTyped'
  BY <1>4, <1>6 DEF HistoriesTyped
<1>8. HistoriesInOrder'
  <2> SUFFICES ASSUME NEW q \in Offsets
               PROVE  /\ \A i, j \in DOMAIN Histories'[q] :
                           i < j => Histories'[q][i].chunk < Histories'[q][j].chunk
                      /\ \A i \in DOMAIN Histories'[q] : Histories'[q][i].chunk <= current_chunk'
    BY DEF HistoriesInOrder
  <2>1. CASE q # o
    BY <1>6, <2>1 DEF HistoriesInOrder, HistoriesTyped
  <2>2. CASE q = o
    <3>1. Histories'[q] = grown
      BY <1>6, <2>2 DEF HistoriesTyped
    <3> QED
      BY <1>4, <1>5, <1>6, <2>2, <3>1 DEF HistoriesInOrder, h
  <2> QED
    BY <2>1, <2>2
<1> QED
  BY <1>7, <1>8

(* A new entry is of the current chunk, and no earlier entry is.           *)
LEMMA HistoryStart ==
  ASSUME HistoryInv, NEW o \in Offsets, NEW n \in Ops, History!Start(o, n)
  PROVE  HistoryInv'
<1> USE DEF HistoryInv
<1> DEFINE h == Histories[o]
           e == [chunk |-> current_chunk, count |-> n]
<1>1. h \in Seq(History!Entries) /\ e \in History!Entries /\ Append(h, e) \in Seq(History!Entries)
  <2>1. h \in Seq(History!Entries)
    BY DEF HistoriesTyped
  <2>2. current_chunk \in 0 .. NumChunks - 1 /\ n \in Nat \ {0}
    BY SlotsAssumption DEF HistoriesTyped
  <2>3. e \in History!Entries
    BY <2>2 DEF History!Entries
  <2> QED
    BY <2>1, <2>3
<1>2. Histories' = [Histories EXCEPT ![o] = Append(h, e)] /\ current_chunk' = current_chunk
  BY DEF History!Start, Histories
<1>3. \A i \in DOMAIN h : h[i].chunk < current_chunk
  <2> SUFFICES ASSUME NEW i \in DOMAIN h PROVE h[i].chunk < current_chunk
    OBVIOUS
  <2>1. h # <<>> /\ Len(h) \in DOMAIN h /\ i \in 1 .. Len(h)
    BY <1>1
  <2>2. h[Len(h)].chunk # current_chunk
    BY <2>1 DEF History!Start, History!Touched, Histories
  <2>3. /\ h[Len(h)].chunk <= current_chunk
        /\ i < Len(h) => h[i].chunk < h[Len(h)].chunk
    BY <2>1 DEF HistoriesInOrder
  <2>4. h[i].chunk \in Nat /\ h[Len(h)].chunk \in Nat /\ current_chunk \in Nat
    BY HistoryEntry, <2>1 DEF HistoriesTyped
  <2>5. i = Len(h) \/ i < Len(h)
    BY <2>1
  <2> QED
    BY <2>2, <2>3, <2>4, <2>5
<1>4. HistoriesTyped'
  BY <1>1, <1>2 DEF HistoriesTyped
<1>5. HistoriesInOrder'
  <2> SUFFICES ASSUME NEW q \in Offsets
               PROVE  /\ \A i, j \in DOMAIN Histories'[q] :
                           i < j => Histories'[q][i].chunk < Histories'[q][j].chunk
                      /\ \A i \in DOMAIN Histories'[q] : Histories'[q][i].chunk <= current_chunk'
    BY DEF HistoriesInOrder
  <2>1. CASE q # o
    BY <1>2, <2>1 DEF HistoriesInOrder, HistoriesTyped
  <2>2. CASE q = o
    <3> HIDE DEF h, e
    <3>1. Histories'[q] = Append(h, e)
      BY <1>2, <2>2 DEF HistoriesTyped
    <3>2. /\ DOMAIN Append(h, e) = 1 .. Len(h) + 1
          /\ \A i \in 1 .. Len(h) : Append(h, e)[i] = h[i] /\ i \in DOMAIN h
          /\ Append(h, e)[Len(h) + 1] = e
          /\ Len(h) \in Nat
      BY <1>1
    <3>3. e.chunk = current_chunk /\ current_chunk \in Nat
      BY DEF e, HistoriesTyped
    <3>4. \A i, j \in 1 .. Len(h) : i < j => h[i].chunk < h[j].chunk
      BY <3>2, <2>2 DEF HistoriesInOrder, h
    <3>5. \A i \in 1 .. Len(h) : h[i].chunk < current_chunk /\ h[i].chunk \in Nat
      BY <1>3, <3>2, HistoryEntry DEF h
    <3>6. \A i, j \in 1 .. Len(h) + 1 :
            i < j => Append(h, e)[i].chunk < Append(h, e)[j].chunk
      <4> SUFFICES ASSUME NEW i \in 1 .. Len(h) + 1, NEW j \in 1 .. Len(h) + 1, i < j
                   PROVE  Append(h, e)[i].chunk < Append(h, e)[j].chunk
        OBVIOUS
      <4>1. i \in 1 .. Len(h)
        BY <3>2
      <4>2. CASE j = Len(h) + 1
        BY <3>2, <3>3, <3>5, <4>1, <4>2
      <4>3. CASE j # Len(h) + 1
        BY <3>2, <3>4, <4>1, <4>3
      <4> QED
        BY <4>2, <4>3
    <3>7. \A i \in 1 .. Len(h) + 1 : Append(h, e)[i].chunk <= current_chunk
      BY <3>2, <3>3, <3>5
    <3> QED
      BY <1>2, <3>1, <3>2, <3>6, <3>7
  <2> QED
    BY <2>1, <2>2
<1> QED
  BY <1>4, <1>5

(* The histories of any behaviour AddrHistory allows have their types and  *)
(* list strictly increasing chunks, none of them later than the current    *)
(* one: the order the rows of a word are numbered in.                      *)
THEOREM AbstractInOrder == History!Spec => [](History!TypeOK /\ History!ChunksInOrder)
<1>1. History!Init => HistoryInv
  BY HistoryStarts
<1>2. HistoryInv /\ [History!Next]_(History!vars) => HistoryInv'
  <2> SUFFICES ASSUME HistoryInv, [History!Next]_(History!vars) PROVE HistoryInv'
    OBVIOUS
  <2>1. CASE UNCHANGED History!vars
    <3>1. Histories' = Histories /\ current_chunk' = current_chunk
      BY <2>1 DEF History!vars, Histories
    <3> QED
      BY <3>1 DEF HistoryInv, HistoriesTyped, HistoriesInOrder
  <2>2. CASE History!Next
    BY <2>2, HistoryNextChunk, HistoryExtend, HistoryStart DEF History!Next
  <2> QED
    BY <2>1, <2>2
<1>3. HistoryInv => History!TypeOK /\ History!ChunksInOrder
  BY DEF HistoryInv, HistoriesTyped, HistoriesInOrder, Histories,
         History!TypeOK, History!ChunksInOrder
<1> QED
  BY <1>1, <1>2, <1>3, PTL DEF History!Spec

(* So what holds of the abstract history holds along the chains: a word's  *)
(* chunks are strictly increasing, the order its rows are numbered in.     *)
THEOREM ChainsInOrder == Spec => []History!ChunksInOrder
BY StoreImplementsHistory, AbstractInOrder, PTL DEF ImplementsHistory

=============================================================================
