-------------------------- MODULE AccumulationProofs ---------------------------
(***************************************************************************)
(* Induction as facts about sets of numbers, and what it gives: functions  *)
(* defined by recursion over 0 .. N exist, and the laws of running totals  *)
(* and of concatenations.                                                  *)
(* The library's induction theorems have an operator for the formula that  *)
(* is proved; the set of numbers that satisfy it does the same work.       *)
(***************************************************************************)
EXTENDS Accumulation, FiniteSetsExt, TLAPS, WellFoundedInduction

(* Induction over the natural numbers, for a set.                          *)
LEMMA NatSetInduction ==
  ASSUME NEW T \in SUBSET Nat, 0 \in T, \A n \in T : n + 1 \in T
  PROVE  T = Nat
<1> SUFFICES ASSUME T # Nat PROVE FALSE
  OBVIOUS
<1> DEFINE U == Nat \ T
           R == OpToRel(<, Nat)
<1>1. U \subseteq Nat /\ U # {}
  OBVIOUS
<1>2. PICK x \in U : \A y \in U : ~(<<y, x>> \in R)
  <2>1. IsWellFoundedOn(R, Nat)
    BY NatLessThanWellFounded
  <2> HIDE DEF U, R
  <2> QED
    BY <1>1, <2>1, WFMin
<1>3. \A y \in U : ~(y < x)
  BY <1>2 DEF OpToRel
<1>4. x - 1 \in T
  BY <1>3
<1> QED
  BY <1>4

(* Induction over an interval of integers.                                 *)
LEMMA IntervalInduction ==
  ASSUME NEW lo \in Int, NEW hi \in Int, NEW T,
         lo \in T, \A n \in lo .. hi - 1 : n \in T => n + 1 \in T
  PROVE  \A n \in lo .. hi : n \in T
<1> DEFINE U == {k \in Nat : lo + k <= hi => lo + k \in T}
<1>1. 0 \in U
  OBVIOUS
<1>2. ASSUME NEW k \in U PROVE k + 1 \in U
  <2>1. CASE lo + (k + 1) <= hi
    <3>1. lo + k \in lo .. hi - 1 /\ lo + k \in T
      BY <2>1
    <3>2. (lo + k) + 1 \in T
      BY <3>1
    <3>3. (lo + k) + 1 = lo + (k + 1)
      OBVIOUS
    <3> QED
      BY <3>2, <3>3
  <2>2. CASE ~(lo + (k + 1) <= hi)
    BY <2>2
  <2> QED
    BY <2>1, <2>2
<1>3. U \in SUBSET Nat
  OBVIOUS
<1>4. U = Nat
  <2> HIDE DEF U
  <2> QED
    BY <1>1, <1>2, <1>3, NatSetInduction
<1> SUFFICES ASSUME NEW n \in lo .. hi PROVE n \in T
  OBVIOUS
<1>5. n - lo \in Nat
  OBVIOUS
<1>6. n - lo \in U
  BY <1>4, <1>5
<1>7. lo + (n - lo) = n /\ n <= hi
  OBVIOUS
<1> QED
  BY <1>6, <1>7

(* A function on 1 .. n is a sequence.                                     *)
LEMMA FunctionIsSeq ==
  ASSUME NEW S, NEW n \in Nat, NEW f \in [1 .. n -> S]
  PROVE  f \in Seq(S) /\ Len(f) = n /\ DOMAIN f = 1 .. n
  OBVIOUS

(* And the other way round.                                                *)
LEMMA SeqIsFunction ==
  ASSUME NEW S, NEW s \in Seq(S)
  PROVE  Len(s) \in Nat /\ DOMAIN s = 1 .. Len(s) /\ \A i \in 1 .. Len(s) : s[i] \in S
  OBVIOUS

(* A sequence of some values remains one of some values.                   *)
LEMMA AppendIsSeq ==
  ASSUME NEW S, NEW s \in Seq(S), NEW x
  PROVE  LET t == Append(s, x)
         IN  t \in Seq({t[i] : i \in DOMAIN t}) /\ Len(t) = Len(s) + 1
<1> DEFINE t == Append(s, x)
           n == Len(s) + 1
<1>1. s \in Seq(S \cup {x}) /\ x \in S \cup {x} /\ n \in Nat
  OBVIOUS
<1>2. t \in Seq(S \cup {x}) /\ Len(t) = n
  BY <1>1
<1> HIDE DEF n, t
<1>3. DOMAIN t = 1 .. n /\ t = [i \in 1 .. n |-> t[i]]
  BY <1>2
<1>4. t \in [1 .. n -> {t[i] : i \in DOMAIN t}]
  BY <1>3
<1>5. t \in Seq({t[i] : i \in DOMAIN t})
  BY <1>1, <1>4, FunctionIsSeq
<1> QED
  BY <1>2, <1>5 DEF n, t

(* f has values in V, v first and then one step after the other.           *)
Recursion(f, N, V, v, step) ==
  /\ f \in [0 .. N -> V]
  /\ f[0] = v
  /\ \A n \in 1 .. N : f[n] = step[<<n, f[n - 1]>>]

(* A function with a given first value and a given step exists.            *)
LEMMA RecursionExists ==
  ASSUME NEW N \in Nat, NEW V, NEW v \in V, NEW step \in [(1 .. N) \X V -> V]
  PROVE  \E f : Recursion(f, N, V, v, step)
<1> DEFINE Upto(m, f) == Recursion(f, m, V, v, step)
           T == {m \in 0 .. N : \E f : Upto(m, f)}
<1> USE DEF Recursion
<1>1. 0 \in T
  <2> DEFINE f == [n \in 0 .. 0 |-> v]
  <2>1. f \in [0 .. 0 -> V] /\ f[0] = v
    OBVIOUS
  <2>2. 1 .. 0 = {}
    OBVIOUS
  <2> HIDE DEF f
  <2>3. Upto(0, f)
    BY <2>1, <2>2
  <2> QED
    BY <2>1, <2>3
<1>2. ASSUME NEW m \in 0 .. N - 1, m \in T PROVE m + 1 \in T
  <2>1. PICK f : Upto(m, f)
    BY <1>2
  <2> DEFINE x == step[<<m + 1, f[m]>>]
             g == [n \in 0 .. m + 1 |-> IF n <= m THEN f[n] ELSE x]
  <2>2. x \in V
    BY <2>1
  <2>3. g \in [0 .. m + 1 -> V]
    BY <2>1, <2>2
  <2>4. \A n \in 0 .. m : g[n] = f[n]
    OBVIOUS
  <2>5. g[m + 1] = x
    OBVIOUS
  <2> HIDE DEF g
  <2>6. g[0] = v
    BY <2>1, <2>4
  <2>7. ASSUME NEW n \in 1 .. m + 1 PROVE g[n] = step[<<n, g[n - 1]>>]
    <3>1. CASE n = m + 1
      BY <2>4, <2>5, <3>1
    <3>2. CASE n \in 1 .. m
      <4>1. n - 1 \in 0 .. m /\ n \in 0 .. m
        BY <3>2
      <4>2. f[n] = step[<<n, f[n - 1]>>]
        BY <2>1, <3>2
      <4> QED
        BY <2>4, <4>1, <4>2
    <3> QED
      BY <3>1, <3>2
  <2>8. Upto(m + 1, g)
    BY <2>3, <2>6, <2>7
  <2> QED
    BY <2>3, <2>8
<1>3. N \in T
  <2> HIDE DEF T
  <2>1. \A n \in 0 .. N : n \in T
    BY <1>1, <1>2, IntervalInduction
  <2> QED
    BY <2>1
<1> QED
  BY <1>3

(* A running total begins with 0 and grows by one element at a time.       *)
LEMMA RunningTotalDef ==
  ASSUME NEW w \in Seq(Nat)
  PROVE  /\ RunningTotal(w) \in [0 .. Len(w) -> Nat]
         /\ RunningTotal(w)[0] = 0
         /\ \A n \in 1 .. Len(w) : RunningTotal(w)[n] = RunningTotal(w)[n - 1] + w[n]
<1> DEFINE N == Len(w)
           Def(f) == [n \in 0 .. N |-> IF n = 0 THEN 0 ELSE f[n - 1] + w[n]]
           step == [p \in (1 .. N) \X Nat |-> p[2] + w[p[1]]]
<1>1. N \in Nat /\ step \in [(1 .. N) \X Nat -> Nat]
  OBVIOUS
<1>2. \A n \in 1 .. N, x \in Nat : step[<<n, x>>] = x + w[n]
  OBVIOUS
<1>3. PICK f : Recursion(f, N, Nat, 0, step)
  <2>1. N \in Nat /\ 0 \in Nat
    BY <1>1
  <2> HIDE DEF Def, N, step
  <2> QED
    BY <1>1, <2>1, RecursionExists
<1>4. ASSUME NEW n \in 0 .. N PROVE f[n] = Def(f)[n]
  <2> USE DEF Recursion
  <2>1. CASE n = 0
    BY <1>3, <2>1
  <2>2. CASE n \in 1 .. N
    <3>1. f[n - 1] \in Nat
      BY <1>3, <2>2
    <3> QED
      BY <1>2, <1>3, <2>2, <3>1
  <2> QED
    BY <1>1, <2>1, <2>2
<1>5. f = Def(f)
  BY <1>3, <1>4 DEF Recursion
<1>6. RunningTotal(w) = Def(RunningTotal(w))
  <2>1. RunningTotal(w) = CHOOSE g : g = Def(g)
    BY DEF RunningTotal
  <2> QED
    BY <1>5, <2>1
<1> DEFINE r == RunningTotal(w)
<1> HIDE DEF r
<1>7. \A n \in 0 .. N : r[n] = IF n = 0 THEN 0 ELSE r[n - 1] + w[n]
  BY <1>6 DEF r
<1>8. r[0] = 0 /\ \A n \in 1 .. N : r[n] = r[n - 1] + w[n]
  BY <1>1, <1>7
<1>9. \A n \in 0 .. N : r[n] \in Nat
  <2> DEFINE T == {n \in 0 .. N : r[n] \in Nat}
  <2>1. 0 \in T
    BY <1>1, <1>8
  <2>2. ASSUME NEW n \in 0 .. N - 1, n \in T PROVE n + 1 \in T
    <3>1. n + 1 \in 1 .. N /\ w[n + 1] \in Nat
      BY <1>1
    <3>2. r[n + 1] = r[n] + w[n + 1]
      BY <1>1, <1>8, <3>1
    <3> QED
      BY <1>1, <2>2, <3>1, <3>2
  <2>3. \A n \in 0 .. N : n \in T
    <3>1. 0 \in Int /\ N \in Int
      BY <1>1
    <3> HIDE DEF N, T
    <3> QED
      BY <2>1, <2>2, <3>1, IntervalInduction
  <2> QED
    BY <2>3
<1>10. r \in [0 .. N -> Nat]
  <2>1. r = [n \in 0 .. N |-> r[n]]
    BY <1>6 DEF r
  <2> QED
    BY <1>9, <2>1
<1> QED
  BY <1>8, <1>10 DEF r

(* The total of a prefix depends on the prefix only.                       *)
LEMMA RunningTotalAgree ==
  ASSUME NEW v \in Seq(Nat), NEW w \in Seq(Nat), NEW n \in Nat,
         n <= Len(v), n <= Len(w), \A i \in 1 .. n : v[i] = w[i]
  PROVE  RunningTotal(v)[n] = RunningTotal(w)[n]
<1> DEFINE T == {m \in 0 .. n : RunningTotal(v)[m] = RunningTotal(w)[m]}
<1>1. 0 \in T
  BY RunningTotalDef
<1>2. ASSUME NEW m \in 0 .. n - 1, m \in T PROVE m + 1 \in T
  <2>1. m + 1 \in 1 .. Len(v) /\ m + 1 \in 1 .. Len(w) /\ m + 1 \in 1 .. n
    OBVIOUS
  <2>2. RunningTotal(v)[m + 1] = RunningTotal(v)[m] + v[m + 1]
    BY <2>1, RunningTotalDef
  <2>3. RunningTotal(w)[m + 1] = RunningTotal(w)[m] + w[m + 1]
    BY <2>1, RunningTotalDef
  <2> QED
    BY <1>2, <2>1, <2>2, <2>3
<1> HIDE DEF T
<1>3. \A m \in 0 .. n : m \in T
  <2>1. 0 \in Int /\ n \in Int
    OBVIOUS
  <2> QED
    BY <1>1, <1>2, <2>1, IntervalInduction
<1> QED
  BY <1>3 DEF T

(* Running totals of numbers do not decrease.                              *)
LEMMA RunningTotalMonotone ==
  ASSUME NEW w \in Seq(Nat), NEW m \in 0 .. Len(w), NEW n \in m .. Len(w)
  PROVE  RunningTotal(w)[m] <= RunningTotal(w)[n]
<1> DEFINE r == RunningTotal(w)
           T == {k \in m .. Len(w) : r[m] <= r[k]}
<1>1. /\ r \in [0 .. Len(w) -> Nat]
      /\ \A k \in 1 .. Len(w) : r[k] = r[k - 1] + w[k]
  BY RunningTotalDef
<1> HIDE DEF r
<1>2. m \in T
  <2>1. m \in Nat /\ Len(w) \in Nat /\ m <= Len(w)
    OBVIOUS
  <2>2. r[m] \in Nat
    BY <1>1
  <2>3. m \in m .. Len(w) /\ r[m] <= r[m]
    BY <2>1, <2>2
  <2> QED
    BY <2>3
<1>3. ASSUME NEW k \in m .. Len(w) - 1, k \in T PROVE k + 1 \in T
  <2>1. k + 1 \in 1 .. Len(w) /\ k + 1 \in m .. Len(w) /\ k \in 0 .. Len(w)
    OBVIOUS
  <2>2. r[k + 1] = r[k] + w[k + 1] /\ w[k + 1] \in Nat
    BY <1>1, <2>1
  <2>3. r[k] \in Nat /\ r[m] \in Nat
    BY <1>1, <2>1
  <2>4. r[m] <= r[k + 1]
    BY <1>3, <2>2, <2>3
  <2> QED
    BY <2>1, <2>4
<1> HIDE DEF T
<1>4. \A k \in m .. Len(w) : k \in T
  <2>1. m \in Int /\ Len(w) \in Int
    OBVIOUS
  <2> QED
    BY <1>2, <1>3, <2>1, IntervalInduction
<1> QED
  BY <1>4 DEF r, T

(* One more element adds itself to the total.                              *)
LEMMA TotalAppend ==
  ASSUME NEW w \in Seq(Nat), NEW x \in Nat
  PROVE  Total(Append(w, x)) = Total(w) + x
<1> DEFINE v == Append(w, x)
<1>1. v \in Seq(Nat) /\ Len(v) = Len(w) + 1 /\ v[Len(w) + 1] = x
  OBVIOUS
<1>2. \A i \in 1 .. Len(w) : v[i] = w[i]
  OBVIOUS
<1> HIDE DEF v
<1>3. RunningTotal(v)[Len(w)] = RunningTotal(w)[Len(w)]
  <2>1. Len(w) \in Nat /\ Len(w) <= Len(v) /\ Len(w) <= Len(w)
    BY <1>1
  <2> QED
    BY <1>1, <1>2, <2>1, RunningTotalAgree
<1>4. RunningTotal(v)[Len(w) + 1] = RunningTotal(v)[Len(w)] + x
  BY <1>1, RunningTotalDef
<1> QED
  BY <1>1, <1>3, <1>4 DEF Total, v

(* Joining parts begins with nothing and puts one part behind the others.  *)
LEMMA JoinedDef ==
  ASSUME NEW S, NEW parts \in Seq(Seq(S))
  PROVE  /\ Joined(parts) \in [0 .. Len(parts) -> Seq(S)]
         /\ Joined(parts)[0] = <<>>
         /\ \A n \in 1 .. Len(parts) : Joined(parts)[n] = Joined(parts)[n - 1] \o parts[n]
<1> DEFINE N == Len(parts)
           Def(f) == [n \in 0 .. N |-> IF n = 0 THEN <<>> ELSE f[n - 1] \o parts[n]]
           step == [p \in (1 .. N) \X Seq(S) |-> p[2] \o parts[p[1]]]
<1>1. N \in Nat /\ \A n \in 1 .. N : parts[n] \in Seq(S)
  OBVIOUS
<1>2. step \in [(1 .. N) \X Seq(S) -> Seq(S)]
  <2>1. \A p \in (1 .. N) \X Seq(S) : p[2] \in Seq(S) /\ parts[p[1]] \in Seq(S)
    BY <1>1
  <2>2. \A s, t \in Seq(S) : s \o t \in Seq(S)
    OBVIOUS
  <2> QED
    BY <2>1, <2>2
<1>3. \A n \in 1 .. N, x \in Seq(S) : step[<<n, x>>] = x \o parts[n]
  OBVIOUS
<1> HIDE DEF N, step
<1>4. PICK f : Recursion(f, N, Seq(S), <<>>, step)
  <2>1. <<>> \in Seq(S)
    OBVIOUS
  <2> HIDE DEF Def
  <2> QED
    BY <1>1, <1>2, <2>1, RecursionExists
<1>5. ASSUME NEW n \in 0 .. N PROVE f[n] = Def(f)[n]
  <2> USE DEF Recursion
  <2>1. CASE n = 0
    BY <1>4, <2>1
  <2>2. CASE n \in 1 .. N
    <3>1. f[n - 1] \in Seq(S)
      <4>1. n - 1 \in 0 .. N
        BY <1>1, <2>2
      <4> QED
        BY <1>4, <4>1
    <3>2. f[n] = step[<<n, f[n - 1]>>]
      BY <1>4, <2>2
    <3>3. f[n] = f[n - 1] \o parts[n]
      BY <1>3, <2>2, <3>1, <3>2
    <3>4. n # 0
      BY <2>2
    <3> QED
      BY <3>3, <3>4
  <2> QED
    BY <1>1, <2>1, <2>2
<1>6. f = Def(f)
  BY <1>4, <1>5 DEF Recursion
<1> DEFINE r == Joined(parts)
<1>7. r = Def(r)
  <2>1. r = CHOOSE g : g = Def(g)
    BY DEF Joined, N
  <2> QED
    BY <1>6, <2>1
<1> HIDE DEF r
<1>8. \A n \in 0 .. N : r[n] = IF n = 0 THEN <<>> ELSE r[n - 1] \o parts[n]
  BY <1>7
<1>9. r[0] = <<>> /\ \A n \in 1 .. N : r[n] = r[n - 1] \o parts[n]
  <2>1. 0 \in 0 .. N /\ \A n \in 1 .. N : n \in 0 .. N /\ n # 0
    BY <1>1
  <2> QED
    BY <1>8, <2>1
<1>10. \A n \in 0 .. N : r[n] \in Seq(S)
  <2> DEFINE T == {n \in 0 .. N : r[n] \in Seq(S)}
  <2>1. 0 \in T
    <3>1. 0 \in 0 .. N /\ <<>> \in Seq(S)
      BY <1>1
    <3> QED
      BY <1>9, <3>1
  <2>2. ASSUME NEW n \in 0 .. N - 1, n \in T PROVE n + 1 \in T
    <3>1. n + 1 \in 1 .. N /\ parts[n + 1] \in Seq(S)
      BY <1>1
    <3>2. r[n + 1] = r[n] \o parts[n + 1]
      <4>1. (n + 1) - 1 = n
        OBVIOUS
      <4> QED
        BY <1>9, <3>1, <4>1
    <3>3. r[n + 1] \in Seq(S)
      BY <2>2, <3>1, <3>2
    <3> QED
      BY <1>1, <3>1, <3>3
  <2>3. \A n \in 0 .. N : n \in T
    <3>1. 0 \in Int /\ N \in Int
      BY <1>1
    <3> HIDE DEF T
    <3> QED
      BY <2>1, <2>2, <3>1, IntervalInduction
  <2> QED
    BY <2>3
<1>11. r \in [0 .. N -> Seq(S)]
  <2>1. r = [n \in 0 .. N |-> r[n]]
    BY <1>7
  <2> QED
    BY <1>10, <2>1
<1> QED
  BY <1>9, <1>11 DEF N, r

(* A last element that is larger by x makes the total larger by x.         *)
LEMMA TotalLastGrows ==
  ASSUME NEW w \in Seq(Nat), Len(w) # 0, NEW x \in Nat
  PROVE  Total([w EXCEPT ![Len(w)] = @ + x]) = Total(w) + x
<1> DEFINE m == Len(w)
           v == [w EXCEPT ![m] = @ + x]
<1>1. m \in Nat /\ m \in 1 .. m /\ m - 1 \in Nat /\ w \in [1 .. m -> Nat]
  OBVIOUS
<1>2. v \in [1 .. m -> Nat] /\ v[m] = w[m] + x /\ \A i \in 1 .. m - 1 : v[i] = w[i]
  <2> HIDE DEF m
  <2> QED
    BY <1>1
<1>3. v \in Seq(Nat) /\ Len(v) = m
  <2> HIDE DEF m, v
  <2> QED
    BY <1>1, <1>2, FunctionIsSeq
<1> HIDE DEF v
<1>4. /\ RunningTotal(v)[m] = RunningTotal(v)[m - 1] + v[m]
      /\ RunningTotal(w)[m] = RunningTotal(w)[m - 1] + w[m]
  BY <1>1, <1>3, RunningTotalDef
<1>5. RunningTotal(v)[m - 1] = RunningTotal(w)[m - 1]
  <2>1. m - 1 \in Nat /\ m - 1 <= Len(v) /\ m - 1 <= Len(w)
    BY <1>1, <1>3
  <2> QED
    BY <1>2, <1>3, <2>1, RunningTotalAgree
<1>6. RunningTotal(w)[m - 1] \in Nat /\ w[m] \in Nat
  <2>1. RunningTotal(w) \in [0 .. m -> Nat] /\ m - 1 \in 0 .. m
    BY <1>1, RunningTotalDef
  <2> QED
    BY <1>1, <2>1
<1>7. Total(v) = RunningTotal(v)[m] /\ Total(w) = RunningTotal(w)[m]
  BY <1>3 DEF Total
<1>8. Total(v) = Total(w) + x
  <2> HIDE DEF m
  <2> QED
    BY <1>2, <1>4, <1>5, <1>6, <1>7
<1> QED
  BY <1>8 DEF v

(* Nothing sums up to nothing.                                             *)
LEMMA TotalEmpty ==
  Total(<<>>) = 0
<1>1. <<>> \in Seq(Nat) /\ Len(<<>>) = 0
  OBVIOUS
<1> QED
  BY <1>1, RunningTotalDef DEF Total

(* An element at the end leaves the totals of the prefixes as they are.    *)
LEMMA RunningTotalAppend ==
  ASSUME NEW w \in Seq(Nat), NEW x \in Nat
  PROVE  LET v == Append(w, x)
         IN  /\ v \in Seq(Nat) /\ Len(v) = Len(w) + 1
             /\ \A n \in 0 .. Len(w) : RunningTotal(v)[n] = RunningTotal(w)[n]
             /\ RunningTotal(v)[Len(w) + 1] = RunningTotal(w)[Len(w)] + x
<1> DEFINE v == Append(w, x)
           m == Len(w)
<1>1. v \in Seq(Nat) /\ Len(v) = m + 1 /\ v[m + 1] = x /\ m \in Nat
  OBVIOUS
<1>2. \A i \in 1 .. m : v[i] = w[i]
  OBVIOUS
<1> HIDE DEF v
<1>3. ASSUME NEW n \in 0 .. m PROVE RunningTotal(v)[n] = RunningTotal(w)[n]
  <2>1. n \in Nat /\ n <= Len(v) /\ n <= Len(w) /\ \A i \in 1 .. n : v[i] = w[i]
    BY <1>1, <1>2
  <2> QED
    BY <1>1, <2>1, RunningTotalAgree
<1>4. RunningTotal(v)[m + 1] = RunningTotal(v)[m] + x
  <2>1. m + 1 \in 1 .. Len(v) /\ (m + 1) - 1 = m
    BY <1>1
  <2>2. RunningTotal(v)[m + 1] = RunningTotal(v)[(m + 1) - 1] + v[m + 1]
    BY <1>1, <2>1, RunningTotalDef
  <2> QED
    BY <1>1, <2>1, <2>2
<1>5. RunningTotal(v)[m] = RunningTotal(w)[m]
  BY <1>1, <1>3
<1> QED
  BY <1>1, <1>3, <1>4, <1>5 DEF v

(* A running total, one element further on.                                *)
LEMMA RunningTotalStep ==
  ASSUME NEW w \in Seq(Nat), NEW n \in 1 .. Len(w)
  PROVE  /\ RunningTotal(w)[n - 1] \in Nat
         /\ RunningTotal(w)[n] \in Nat
         /\ RunningTotal(w)[n] = RunningTotal(w)[n - 1] + w[n]
         /\ RunningTotal(w)[n] <= RunningTotal(w)[Len(w)]
<1>1. n - 1 \in 0 .. Len(w) /\ n \in 0 .. Len(w) /\ Len(w) \in n .. Len(w)
  OBVIOUS
<1> QED
  BY <1>1, RunningTotalDef, RunningTotalMonotone

(* Every element of a concatenation is an element of a part: i stands at   *)
(* place b[i] of part a[i], further behind the larger i is, and the first  *)
(* element is the beginning of its part.                                   *)
Places(parts, s, m, a, b) ==
  /\ \A i \in 1 .. Len(s) : /\ a[i] \in 1 .. m
                            /\ b[i] \in 1 .. Len(parts[a[i]])
                            /\ s[i] = parts[a[i]][b[i]]
                            /\ i = 1 => b[i] = 1
  /\ \A j \in 1 .. Len(s) : \A i \in 1 .. j - 1 : a[i] < a[j] \/ (a[i] = a[j] /\ b[i] < b[j])

(* One more part.                                                          *)
LEMMA PlacesNextPart ==
  ASSUME NEW S, NEW parts \in Seq(Seq(S)), NEW m \in 0 .. Len(parts) - 1, NEW s \in Seq(S),
         NEW a, NEW b, Places(parts, s, m, a, b)
  PROVE  LET t == s \o parts[m + 1]
         IN  \E c, d : Places(parts, t, m + 1, c, d)
<1> DEFINE p == parts[m + 1]
           t == s \o p
           c == [i \in 1 .. Len(t) |-> IF i <= Len(s) THEN a[i] ELSE m + 1]
           d == [i \in 1 .. Len(t) |-> IF i <= Len(s) THEN b[i] ELSE i - Len(s)]
<1>1. m + 1 \in 1 .. Len(parts) /\ m \in Nat
  OBVIOUS
<1>2. p \in Seq(S)
  BY <1>1, SeqIsFunction
<1>3. PICK n \in Nat : n = Len(s)
  OBVIOUS
<1>4. PICK k \in Nat : k = Len(p)
  BY <1>2
<1> HIDE DEF p
<1>5. /\ t \in Seq(S) /\ Len(t) = n + k
      /\ \A i \in 1 .. n : t[i] = s[i]
      /\ \A i \in n + 1 .. n + k : t[i] = p[i - n]
  BY <1>2, <1>3, <1>4
<1>6. /\ \A i \in 1 .. n : i \in 1 .. Len(t) /\ c[i] = a[i] /\ d[i] = b[i]
      /\ \A i \in n + 1 .. n + k : i \in 1 .. Len(t) /\ c[i] = m + 1 /\ d[i] = i - n
  BY <1>3, <1>5
<1>7. \A i \in 1 .. n : /\ a[i] \in 1 .. m
                        /\ b[i] \in 1 .. Len(parts[a[i]])
                        /\ s[i] = parts[a[i]][b[i]]
                        /\ i = 1 => b[i] = 1
  BY <1>3 DEF Places
<1>8. \A j \in 1 .. n : \A i \in 1 .. j - 1 : a[i] < a[j] \/ (a[i] = a[j] /\ b[i] < b[j])
  BY <1>3 DEF Places
<1> HIDE DEF t, c, d
<1>9. ASSUME NEW i \in 1 .. Len(t)
      PROVE  /\ c[i] \in 1 .. m + 1
             /\ d[i] \in 1 .. Len(parts[c[i]])
             /\ t[i] = parts[c[i]][d[i]]
             /\ i = 1 => d[i] = 1
  <2>1. CASE i \in 1 .. n
    <3>1. c[i] = a[i] /\ d[i] = b[i] /\ t[i] = s[i]
      BY <1>5, <1>6, <2>1
    <3>2. a[i] \in 1 .. m + 1
      BY <1>1, <1>7, <2>1
    <3> QED
      BY <1>7, <2>1, <3>1, <3>2
  <2>2. CASE i \in n + 1 .. n + k
    <3>1. c[i] = m + 1 /\ d[i] = i - n /\ t[i] = p[i - n]
      BY <1>5, <1>6, <2>2
    <3>2. i - n \in 1 .. k /\ (i = 1 => i - n = 1)
      BY <2>2
    <3>3. m + 1 \in 1 .. m + 1
      BY <1>1
    <3> QED
      BY <1>4, <3>1, <3>2, <3>3 DEF p
  <2> QED
    BY <1>5, <2>1, <2>2
<1>10. ASSUME NEW j \in 1 .. Len(t), NEW i \in 1 .. j - 1
       PROVE  c[i] < c[j] \/ (c[i] = c[j] /\ d[i] < d[j])
  <2>1. CASE j \in 1 .. n
    <3>1. i \in 1 .. n
      BY <2>1
    <3> QED
      BY <1>6, <1>8, <2>1, <3>1
  <2>2. CASE j \in n + 1 .. n + k /\ i \in 1 .. n
    <3>1. c[i] \in 1 .. m /\ c[j] = m + 1
      BY <1>6, <1>7, <2>2
    <3> QED
      BY <1>1, <3>1
  <2>3. CASE j \in n + 1 .. n + k /\ i \in n + 1 .. n + k
    BY <1>6, <2>3
  <2>4. j \in 1 .. n + k /\ i \in 1 .. n + k
    BY <1>5
  <2> QED
    BY <2>1, <2>2, <2>3, <2>4
<1>11. Places(parts, t, m + 1, c, d)
  BY <1>9, <1>10 DEF Places
<1> QED
  BY <1>11 DEF t, p

(* All parts.                                                              *)
LEMMA ConcatenationPlaces ==
  ASSUME NEW S, NEW parts \in Seq(Seq(S))
  PROVE  /\ Concatenation(parts) \in Seq(S)
         /\ \E a, b : Places(parts, Concatenation(parts), Len(parts), a, b)
<1> DEFINE r == Joined(parts)
           N == Len(parts)
           T == {m \in 0 .. N : \E a, b : Places(parts, r[m], m, a, b)}
<1>1. /\ r \in [0 .. N -> Seq(S)]
      /\ r[0] = <<>>
      /\ \A n \in 1 .. N : r[n] = r[n - 1] \o parts[n]
  BY JoinedDef
<1>2. N \in Nat
  OBVIOUS
<1> HIDE DEF r
<1>3. 0 \in T
  <2>1. Places(parts, <<>>, 0, <<>>, <<>>)
    BY DEF Places
  <2> QED
    BY <1>1, <1>2, <2>1
<1>4. ASSUME NEW m \in 0 .. N - 1, m \in T PROVE m + 1 \in T
  <2>1. m \in 0 .. N /\ m + 1 \in 1 .. N /\ m + 1 \in 0 .. N /\ (m + 1) - 1 = m
    BY <1>2
  <2>2. r[m] \in Seq(S) /\ r[m + 1] = r[m] \o parts[m + 1]
    BY <1>1, <2>1
  <2>3. PICK a, b : Places(parts, r[m], m, a, b)
    BY <1>4
  <2>4. \E c, d : Places(parts, r[m + 1], m + 1, c, d)
    BY <2>2, <2>3, PlacesNextPart
  <2> QED
    BY <2>1, <2>4
<1>5. \A m \in 0 .. N : m \in T
  <2>1. 0 \in Int /\ N \in Int
    BY <1>2
  <2> HIDE DEF T
  <2> QED
    BY <1>3, <1>4, <2>1, IntervalInduction
<1>6. N \in 0 .. N
  BY <1>2
<1>7. Concatenation(parts) = r[N]
  BY DEF Concatenation, r
<1> QED
  BY <1>1, <1>5, <1>6, <1>7

(* y is what x has behind its first b elements.                            *)
RestOf(x, y, b) == Len(x) = b + Len(y) /\ \A i \in 1 .. Len(y) : y[i] = x[b + i]

StartsWith(y, p) == Len(p) <= Len(y) /\ \A i \in 1 .. Len(p) : y[i] = p[i]

(* That stays so when both grow by the same.                               *)
LEMMA RestGrows ==
  ASSUME NEW S, NEW x \in Seq(S), NEW y \in Seq(S), NEW z \in Seq(S), NEW b \in Nat,
         RestOf(x, y, b)
  PROVE  RestOf(x \o z, y \o z, b)
<1>1. PICK k \in Nat, l \in Nat : k = Len(y) /\ l = Len(z)
  OBVIOUS
<1>2. Len(x) = b + k /\ \A i \in 1 .. k : y[i] = x[b + i]
  BY <1>1 DEF RestOf
<1>3. PICK c \in Nat : c = b + k /\ Len(x) = c
  BY <1>2
<1>4. /\ Len(x \o z) = c + l /\ Len(y \o z) = k + l
      /\ \A i \in 1 .. c : (x \o z)[i] = x[i]
      /\ \A i \in c + 1 .. c + l : (x \o z)[i] = z[i - c]
      /\ \A i \in 1 .. k : (y \o z)[i] = y[i]
      /\ \A i \in k + 1 .. k + l : (y \o z)[i] = z[i - k]
  <2>1. ASSUME NEW v \in Seq(S), NEW n \in Nat, n = Len(v)
        PROVE  /\ Len(v \o z) = n + l
               /\ \A i \in 1 .. n : (v \o z)[i] = v[i]
               /\ \A i \in n + 1 .. n + l : (v \o z)[i] = z[i - n]
    BY <1>1, <2>1
  <2> QED
    BY <1>1, <1>3, <2>1
<1>5. ASSUME NEW i \in 1 .. k + l PROVE (y \o z)[i] = (x \o z)[b + i]
  <2>1. CASE i \in 1 .. k
    <3>1. b + i \in 1 .. c
      BY <1>3, <2>1
    <3> QED
      BY <1>2, <1>4, <2>1, <3>1
  <2>2. CASE i \in k + 1 .. k + l
    <3>1. b + i \in c + 1 .. c + l /\ (b + i) - c = i - k
      BY <1>3, <2>2
    <3>2. (x \o z)[b + i] = z[(b + i) - c]
      BY <1>4, <3>1
    <3> QED
      BY <1>4, <2>2, <3>1, <3>2
  <2>3. i \in 1 .. k \/ i \in k + 1 .. k + l
    BY <1>1
  <2> QED
    BY <2>1, <2>2, <2>3
<1>6. c + l = b + (k + l)
  BY <1>3
<1> QED
  BY <1>4, <1>5, <1>6 DEF RestOf

LEMMA StartStays ==
  ASSUME NEW S, NEW y \in Seq(S), NEW z \in Seq(S), NEW p \in Seq(S), StartsWith(y, p)
  PROVE  StartsWith(y \o z, p)
BY DEF StartsWith

(* Without its first m parts a concatenation is the rest of itself, which  *)
(* begins with part m + 1.                                                 *)
LEMMA ConcatenationRest ==
  ASSUME NEW S, NEW parts \in Seq(Seq(S)), NEW kept \in Seq(Seq(S)),
         Len(kept) = Len(parts), NEW m \in 0 .. Len(parts) - 1,
         \A i \in 1 .. m : kept[i] = <<>>,
         \A i \in m + 1 .. Len(parts) : kept[i] = parts[i]
  PROVE  /\ Concatenation(kept) \in Seq(S)
         /\ StartsWith(Concatenation(kept), parts[m + 1])
         /\ \E b \in Nat : RestOf(Concatenation(parts), Concatenation(kept), b)
<1> DEFINE P == Joined(parts)
           Q == Joined(kept)
<1>1. PICK N \in Nat : N = Len(parts)
  OBVIOUS
<1>2. /\ P \in [0 .. N -> Seq(S)] /\ Q \in [0 .. N -> Seq(S)]
      /\ Q[0] = <<>>
      /\ \A n \in 1 .. N : P[n] = P[n - 1] \o parts[n] /\ Q[n] = Q[n - 1] \o kept[n]
  BY <1>1, JoinedDef
<1>3. m \in 0 .. N - 1 /\ m \in Nat /\ m \in 0 .. N /\ m + 1 \in 1 .. N /\ (m + 1) - 1 = m
  BY <1>1
<1>4. \A n \in 1 .. N : parts[n] \in Seq(S)
  BY <1>1
<1> HIDE DEF P, Q
<1>5. Q[m] = <<>>
  <2> DEFINE Z == {n \in 0 .. m : Q[n] = <<>>}
  <2>1. 0 \in Z
    BY <1>2, <1>3
  <2>2. ASSUME NEW n \in 0 .. m - 1, n \in Z PROVE n + 1 \in Z
    <3>1. n + 1 \in 1 .. N /\ n + 1 \in 1 .. m /\ n + 1 \in 0 .. m /\ (n + 1) - 1 = n
      BY <1>3
    <3>2. Q[n + 1] = <<>> \o <<>>
      BY <1>2, <2>2, <3>1
    <3>3. <<>> \o <<>> = <<>>
      OBVIOUS
    <3> QED
      BY <3>1, <3>2, <3>3
  <2>3. \A n \in 0 .. m : n \in Z
    <3>1. 0 \in Int /\ m \in Int
      BY <1>3
    <3> HIDE DEF Z
    <3> QED
      BY <2>1, <2>2, <3>1, IntervalInduction
  <2> QED
    BY <1>3, <2>3
<1>6. PICK p \in Seq(S), first \in Seq(S) : p = parts[m + 1] /\ first = P[m]
  BY <1>2, <1>3, <1>4
<1>7. PICK b \in Nat : b = Len(first)
  BY <1>6
<1> DEFINE T == {n \in m + 1 .. N : RestOf(P[n], Q[n], b) /\ StartsWith(Q[n], p)}
<1>8. m + 1 \in T
  <2>1. P[m + 1] = first \o p
    BY <1>2, <1>3, <1>6
  <2>2. kept[m + 1] = p
    <3>1. m + 1 \in m + 1 .. Len(parts)
      BY <1>1, <1>3
    <3> QED
      BY <1>6, <3>1
  <2>3. Q[m + 1] = p
    <3>1. Q[m + 1] = <<>> \o p
      BY <1>2, <1>3, <1>5, <2>2
    <3>2. <<>> \o p = p
      BY <1>6
    <3> QED
      BY <3>1, <3>2
  <2>4. RestOf(first \o p, p, b) /\ StartsWith(p, p)
    BY <1>7 DEF RestOf, StartsWith
  <2>5. m + 1 \in m + 1 .. N
    BY <1>3
  <2> QED
    BY <2>1, <2>3, <2>4, <2>5
<1>9. ASSUME NEW n \in m + 1 .. N - 1, n \in T PROVE n + 1 \in T
  <2>1. /\ n \in 0 .. N /\ n + 1 \in 1 .. N /\ n + 1 \in m + 1 .. N
        /\ n + 1 \in m + 1 .. Len(parts) /\ (n + 1) - 1 = n
    BY <1>1, <1>3
  <2>2. PICK x \in Seq(S), y \in Seq(S), z \in Seq(S) : x = P[n] /\ y = Q[n] /\ z = parts[n + 1]
    BY <1>2, <1>4, <2>1
  <2>3. P[n + 1] = x \o z /\ Q[n + 1] = y \o z
    <3>1. kept[n + 1] = z
      BY <2>1, <2>2
    <3> QED
      BY <1>2, <2>1, <2>2, <3>1
  <2>4. RestOf(x, y, b) /\ StartsWith(y, p)
    BY <1>9, <2>2
  <2>5. RestOf(x \o z, y \o z, b) /\ StartsWith(y \o z, p)
    BY <2>4, RestGrows, StartStays
  <2> QED
    BY <2>1, <2>3, <2>5
<1>10. \A n \in m + 1 .. N : n \in T
  <2>1. m + 1 \in Int /\ N \in Int
    BY <1>3
  <2> HIDE DEF T
  <2> QED
    BY <1>8, <1>9, <2>1, IntervalInduction
<1>11. N \in m + 1 .. N /\ N \in 0 .. N
  BY <1>3
<1>12. RestOf(P[N], Q[N], b) /\ StartsWith(Q[N], p) /\ Q[N] \in Seq(S)
  BY <1>2, <1>10, <1>11
<1>13. Concatenation(parts) = P[N] /\ Concatenation(kept) = Q[N]
  BY <1>1 DEF Concatenation, P, Q
<1> QED
  BY <1>6, <1>12, <1>13

(* Zeros sum up to zero.                                                   *)
LEMMA RunningTotalOfZeros ==
  ASSUME NEW w \in Seq(Nat), NEW m \in 0 .. Len(w), \A i \in 1 .. m : w[i] = 0
  PROVE  RunningTotal(w)[m] = 0
<1> DEFINE T == {n \in 0 .. m : RunningTotal(w)[n] = 0}
<1>1. m \in Nat /\ RunningTotal(w)[0] = 0 /\ Len(w) \in Nat
  BY RunningTotalDef
<1>2. 0 \in T
  BY <1>1
<1>3. ASSUME NEW n \in 0 .. m - 1, n \in T PROVE n + 1 \in T
  <2>1. n + 1 \in 1 .. m /\ n + 1 \in 1 .. Len(w) /\ n + 1 \in 0 .. m /\ (n + 1) - 1 = n
    BY <1>1
  <2>2. RunningTotal(w)[n + 1] = RunningTotal(w)[(n + 1) - 1] + w[n + 1]
    BY <2>1, RunningTotalStep
  <2> QED
    BY <1>3, <2>1, <2>2
<1> HIDE DEF T
<1>4. \A n \in 0 .. m : n \in T
  <2>1. 0 \in Int /\ m \in Int
    BY <1>1
  <2> QED
    BY <1>2, <1>3, <2>1, IntervalInduction
<1> QED
  BY <1>1, <1>4 DEF T

(* Zeros leave a running total as it is.                                   *)
LEMMA RunningTotalFlat ==
  ASSUME NEW w \in Seq(Nat), NEW m \in 0 .. Len(w), NEW n \in m .. Len(w),
         \A i \in m + 1 .. n : w[i] = 0
  PROVE  RunningTotal(w)[n] = RunningTotal(w)[m]
<1> DEFINE T == {k \in m .. n : RunningTotal(w)[k] = RunningTotal(w)[m]}
<1>1. m \in Nat /\ n \in Nat /\ m <= n /\ Len(w) \in Nat /\ n <= Len(w)
  OBVIOUS
<1>2. m \in T
  BY <1>1
<1>3. ASSUME NEW k \in m .. n - 1, k \in T PROVE k + 1 \in T
  <2>1. k + 1 \in m + 1 .. n /\ k + 1 \in 1 .. Len(w) /\ k + 1 \in m .. n /\ (k + 1) - 1 = k
    BY <1>1
  <2>2. w[k + 1] = 0
    BY <2>1
  <2>3. /\ RunningTotal(w)[(k + 1) - 1] \in Nat
        /\ RunningTotal(w)[k + 1] = RunningTotal(w)[(k + 1) - 1] + w[k + 1]
    BY <2>1, RunningTotalStep
  <2> QED
    BY <1>3, <2>1, <2>2, <2>3
<1> HIDE DEF T
<1>4. \A k \in m .. n : k \in T
  <2>1. m \in Int /\ n \in Int
    BY <1>1
  <2> QED
    BY <1>2, <1>3, <2>1, IntervalInduction
<1>5. n \in m .. n
  BY <1>1
<1> QED
  BY <1>4, <1>5 DEF T

LEMMA TotalOfZeros ==
  ASSUME NEW w \in Seq(Nat), \A i \in 1 .. Len(w) : w[i] = 0
  PROVE  Total(w) = 0
<1>1. Len(w) \in 0 .. Len(w)
  OBVIOUS
<1> QED
  BY <1>1, RunningTotalOfZeros DEF Total

-----------------------------------------------------------------------------
(* The largest and the smallest element of a set                           *)

Largest(x, S) == x \in S /\ \A y \in S : x >= y
Smallest(x, S) == x \in S /\ \A y \in S : x <= y

(* A set of numbers has one largest and one smallest element at most.      *)
LEMMA MaxIs ==
  ASSUME NEW S, S \subseteq Nat, NEW x, Largest(x, S)
  PROVE  Max(S) = x
<1>1. x \in S /\ \A y \in S : (\A z \in S : y >= z) => y = x
  BY DEF Largest
<1> QED
  BY <1>1 DEF Max, Largest

LEMMA MinIs ==
  ASSUME NEW S, S \subseteq Nat, NEW x, Smallest(x, S)
  PROVE  Min(S) = x
<1>1. x \in S /\ \A y \in S : (\A z \in S : y <= z) => y = x
  BY DEF Smallest
<1> QED
  BY <1>1 DEF Min, Smallest

(* Of two numbers.                                                         *)
LEMMA MaxMinPair ==
  ASSUME NEW a \in Nat, NEW b \in Nat
  PROVE  /\ Max({a, b}) = IF a < b THEN b ELSE a
         /\ Min({a, b}) = IF a < b THEN a ELSE b
<1>1. CASE a < b
  BY <1>1, MaxIs, MinIs DEF Largest, Smallest
<1>2. CASE ~(a < b)
  BY <1>2, MaxIs, MinIs DEF Largest, Smallest
<1> QED
  BY <1>1, <1>2

-----------------------------------------------------------------------------
(* Sums of sums                                                            *)

(* Totals are numbers, those of the prefixes too.                          *)
LEMMA TotalType ==
  ASSUME NEW w \in Seq(Nat)
  PROVE  /\ Total(w) \in Nat
         /\ \A n \in 0 .. Len(w) : RunningTotal(w)[n] \in Nat
<1>1. Len(w) \in 0 .. Len(w)
  OBVIOUS
<1> QED
  BY <1>1, RunningTotalDef DEF Total

(* The total grows by as much as one of the elements.                      *)
LEMMA TotalGrows ==
  ASSUME NEW w \in Seq(Nat), NEW v \in Seq(Nat), Len(v) = Len(w), NEW k \in 1 .. Len(w),
         NEW x \in Nat, v[k] = w[k] + x, \A i \in 1 .. Len(w) : i # k => v[i] = w[i]
  PROVE  Total(v) = Total(w) + x
<1> DEFINE T == {n \in k .. Len(w) : RunningTotal(v)[n] = RunningTotal(w)[n] + x}
<1>1. Len(w) \in Nat /\ k \in Nat /\ k - 1 \in Nat /\ k <= Len(w)
  OBVIOUS
<1>2. k \in T
  <2>1. \A i \in 1 .. k - 1 : v[i] = w[i]
    BY <1>1
  <2>2. RunningTotal(v)[k - 1] = RunningTotal(w)[k - 1]
    <3>1. k - 1 <= Len(v) /\ k - 1 <= Len(w)
      BY <1>1
    <3> QED
      BY <1>1, <2>1, <3>1, RunningTotalAgree
  <2>3. /\ RunningTotal(v)[k] = RunningTotal(v)[k - 1] + v[k]
        /\ RunningTotal(w)[k] = RunningTotal(w)[k - 1] + w[k]
        /\ RunningTotal(w)[k - 1] \in Nat /\ w[k] \in Nat
    BY RunningTotalStep
  <2> QED
    BY <1>1, <2>2, <2>3
<1>3. ASSUME NEW n \in k .. Len(w) - 1, n \in T PROVE n + 1 \in T
  <2>1. /\ n + 1 \in 1 .. Len(w) /\ n + 1 \in 1 .. Len(v) /\ n + 1 # k
        /\ (n + 1) - 1 = n /\ n + 1 \in k .. Len(w)
    BY <1>1
  <2>2. /\ RunningTotal(v)[n + 1] = RunningTotal(v)[n] + v[n + 1]
        /\ RunningTotal(w)[n + 1] = RunningTotal(w)[n] + w[n + 1]
        /\ RunningTotal(w)[n] \in Nat
    BY <2>1, RunningTotalStep
  <2>3. w[n + 1] \in Nat /\ v[n + 1] = w[n + 1]
    BY <2>1
  <2>4. RunningTotal(v)[n] = RunningTotal(w)[n] + x
    BY <1>3
  <2>5. RunningTotal(v)[n + 1] = RunningTotal(w)[n + 1] + x
    BY <2>2, <2>3, <2>4
  <2> QED
    BY <2>1, <2>5
<1> HIDE DEF T
<1>4. \A n \in k .. Len(w) : n \in T
  <2>1. k \in Int /\ Len(w) \in Int
    BY <1>1
  <2> QED
    BY <1>2, <1>3, <2>1, IntervalInduction
<1>5. Len(w) \in k .. Len(w)
  BY <1>1
<1>6. Len(w) \in T
  BY <1>4, <1>5
<1> QED
  BY <1>6 DEF Total, T

(* Totals of two sequences add up element by element.                      *)
LEMMA TotalSum ==
  ASSUME NEW n \in Nat, NEW u \in [1 .. n -> Nat], NEW v \in [1 .. n -> Nat]
  PROVE  Total([i \in 1 .. n |-> u[i] + v[i]]) = Total(u) + Total(v)
<1> DEFINE w == [i \in 1 .. n |-> u[i] + v[i]]
           T == {k \in 0 .. n : RunningTotal(w)[k] = RunningTotal(u)[k] + RunningTotal(v)[k]}
<1>1. w \in [1 .. n -> Nat] /\ \A i \in 1 .. n : w[i] = u[i] + v[i]
  OBVIOUS
<1> HIDE DEF w
<1>2. /\ u \in Seq(Nat) /\ v \in Seq(Nat) /\ w \in Seq(Nat)
      /\ Len(u) = n /\ Len(v) = n /\ Len(w) = n
  BY <1>1, FunctionIsSeq
<1>3. 0 \in T
  BY <1>2, RunningTotalDef
<1>4. ASSUME NEW k \in 0 .. n - 1, k \in T PROVE k + 1 \in T
  <2>1. k + 1 \in 1 .. n /\ (k + 1) - 1 = k
    OBVIOUS
  <2>2. /\ RunningTotal(u)[k + 1] = RunningTotal(u)[k] + u[k + 1]
        /\ RunningTotal(v)[k + 1] = RunningTotal(v)[k] + v[k + 1]
        /\ RunningTotal(w)[k + 1] = RunningTotal(w)[k] + w[k + 1]
        /\ RunningTotal(u)[k] \in Nat /\ RunningTotal(v)[k] \in Nat
    BY <1>2, <2>1, RunningTotalStep
  <2>3. w[k + 1] = u[k + 1] + v[k + 1] /\ u[k + 1] \in Nat /\ v[k + 1] \in Nat
    BY <1>1, <2>1
  <2>4. k + 1 \in 0 .. n
    OBVIOUS
  <2>5. RunningTotal(w)[k] = RunningTotal(u)[k] + RunningTotal(v)[k]
    BY <1>4
  <2> QED
    BY <2>2, <2>3, <2>4, <2>5
<1> HIDE DEF T
<1>5. \A k \in 0 .. n : k \in T
  <2>1. 0 \in Int /\ n \in Int
    OBVIOUS
  <2> QED
    BY <1>3, <1>4, <2>1, IntervalInduction
<1>6. n \in T
  BY <1>5
<1> QED
  BY <1>2, <1>6 DEF Total, T, w

(* Adding up a table by rows or by columns makes no difference.            *)
LEMMA TotalExchange ==
  ASSUME NEW m \in Nat, NEW n \in Nat, NEW table \in [1 .. m -> [1 .. n -> Nat]]
  PROVE  Total([i \in 1 .. m |-> Total(table[i])])
           = Total([j \in 1 .. n |-> Total([i \in 1 .. m |-> table[i][j]])])
<1> DEFINE rows == [i \in 1 .. m |-> Total(table[i])]
           column(j) == [i \in 1 .. m |-> table[i][j]]
           upto(k) == [j \in 1 .. n |-> RunningTotal(column(j))[k]]
           T == {k \in 0 .. m : RunningTotal(rows)[k] = Total(upto(k))}
<1>1. \A i \in 1 .. m : table[i] \in Seq(Nat) /\ Len(table[i]) = n
  BY FunctionIsSeq
<1>2. \A i \in 1 .. m : Total(table[i]) \in Nat
  BY <1>1, TotalType
<1>3. rows \in [1 .. m -> Nat] /\ \A i \in 1 .. m : rows[i] = Total(table[i])
  BY <1>2
<1>4. \A j \in 1 .. n : /\ column(j) \in [1 .. m -> Nat]
                        /\ \A i \in 1 .. m : column(j)[i] = table[i][j]
  OBVIOUS
<1> HIDE DEF rows, column
<1>5. rows \in Seq(Nat) /\ Len(rows) = m
  BY <1>3, FunctionIsSeq
<1>6. \A j \in 1 .. n : column(j) \in Seq(Nat) /\ Len(column(j)) = m
  BY <1>4, FunctionIsSeq
<1>7. \A k \in 0 .. m : /\ upto(k) \in [1 .. n -> Nat]
                        /\ \A j \in 1 .. n : upto(k)[j] = RunningTotal(column(j))[k]
  BY <1>6, TotalType
<1> HIDE DEF upto
<1>8. \A k \in 0 .. m : upto(k) \in Seq(Nat) /\ Len(upto(k)) = n
  BY <1>7, FunctionIsSeq
<1>9. 0 \in T
  <2>1. 0 \in 0 .. m
    OBVIOUS
  <2>2. \A j \in 1 .. n : upto(0)[j] = 0
    BY <1>6, <1>7, <2>1, RunningTotalDef
  <2>3. Total(upto(0)) = 0
    BY <1>8, <2>1, <2>2, TotalOfZeros
  <2>4. RunningTotal(rows)[0] = 0
    BY <1>5, RunningTotalDef
  <2> QED
    BY <2>1, <2>3, <2>4
<1>10. ASSUME NEW k \in 0 .. m - 1, k \in T PROVE k + 1 \in T
  <2>1. k + 1 \in 1 .. m /\ (k + 1) - 1 = k /\ k \in 0 .. m /\ k + 1 \in 0 .. m
    OBVIOUS
  <2>2. RunningTotal(rows)[k + 1] = RunningTotal(rows)[k] + Total(table[k + 1])
    BY <1>3, <1>5, <2>1, RunningTotalStep
  <2>3. \A j \in 1 .. n : upto(k + 1)[j] = upto(k)[j] + table[k + 1][j]
    <3> SUFFICES ASSUME NEW j \in 1 .. n PROVE upto(k + 1)[j] = upto(k)[j] + table[k + 1][j]
      OBVIOUS
    <3>1. RunningTotal(column(j))[k + 1] = RunningTotal(column(j))[k] + column(j)[k + 1]
      BY <1>6, <2>1, RunningTotalStep
    <3> QED
      BY <1>4, <1>7, <2>1, <3>1
  <2>4. upto(k + 1) = [j \in 1 .. n |-> upto(k)[j] + table[k + 1][j]]
    BY <1>7, <2>1, <2>3
  <2>5. table[k + 1] \in [1 .. n -> Nat] /\ upto(k) \in [1 .. n -> Nat]
    BY <1>7, <2>1
  <2>6. Total(upto(k + 1)) = Total(upto(k)) + Total(table[k + 1])
    <3> DEFINE u == upto(k)
               v == table[k + 1]
    <3>1. u \in [1 .. n -> Nat] /\ v \in [1 .. n -> Nat]
      BY <2>5
    <3>2. upto(k + 1) = [i \in 1 .. n |-> u[i] + v[i]]
      BY <2>4
    <3> HIDE DEF u, v
    <3>3. Total([i \in 1 .. n |-> u[i] + v[i]]) = Total(u) + Total(v)
      BY <3>1, TotalSum
    <3> QED
      BY <3>2, <3>3 DEF u, v
  <2> QED
    BY <1>10, <2>1, <2>2, <2>6
<1> HIDE DEF T
<1>11. \A k \in 0 .. m : k \in T
  <2>1. 0 \in Int /\ m \in Int
    OBVIOUS
  <2> QED
    BY <1>9, <1>10, <2>1, IntervalInduction
<1>12. RunningTotal(rows)[m] = Total(upto(m))
  <2>1. m \in T
    BY <1>11
  <2> QED
    BY <2>1 DEF T
<1>13. upto(m) = [j \in 1 .. n |-> Total(column(j))]
  <2>1. m \in 0 .. m
    OBVIOUS
  <2>2. \A j \in 1 .. n : upto(m)[j] = Total(column(j))
    BY <1>6, <1>7, <2>1 DEF Total
  <2> QED
    BY <1>7, <2>1, <2>2
<1>14. Total(rows) = RunningTotal(rows)[m]
  BY <1>5 DEF Total
<1> QED
  BY <1>12, <1>13, <1>14 DEF rows, column


=============================================================================
