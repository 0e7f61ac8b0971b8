--------------------------- MODULE CountPhaseProofs ---------------------------
(***************************************************************************)
(* Proofs about CountPhase, for any number of threads, any size of pages   *)
(* and any directories.                                                    *)
(*                                                                         *)
(* The tables are the trace's because every access is counted where its    *)
(* words are: addr_to_offset and offset_to_addr are inverse to each other  *)
(* on the words of a thread (OffsetOfItsAddr, AddrOfItsOffset), the word a *)
(* thread takes of an access is the one of its own that the access touches *)
(* (WordsTouched), and count_aligned adds to the entry of the chunk or     *)
(* appends it (CountedIs).  The invariant says besides what of the files   *)
(* is in memory, and which accesses MemAlignCounter has let pass.          *)
(*                                                                         *)
(* The three counts of operations agree because each is a sum over the     *)
(* accesses: the rows a thread has stored are at every moment the sum over *)
(* the accesses it has gone through (RowsSummed), those that the threads   *)
(* together make of one access are its operations (AccessRows), and it     *)
(* makes no difference in which order a table is added up (TotalExchange). *)
(***************************************************************************)
EXTENDS CountPhase, AccumulationProofs

-----------------------------------------------------------------------------
(* Division                                                                *)

LEMMA Quotient ==
  ASSUME NEW q \in Nat, NEW b \in Nat \ {0}, NEW r \in 0 .. b - 1
  PROVE  (q * b + r) \div b = q /\ (q * b + r) % b = r
OBVIOUS

LEMMA Division ==
  ASSUME NEW a \in Nat, NEW b \in Nat \ {0}
  PROVE  /\ a \div b \in Nat /\ a % b \in 0 .. b - 1
         /\ a = (a \div b) * b + (a % b)
OBVIOUS

LEMMA ProductBound ==
  ASSUME NEW m \in Nat, NEW b \in Nat \ {0}, NEW n \in 0 .. m - 1, NEW r \in 0 .. b - 1
  PROVE  n * b + r \in 0 .. m * b - 1
OBVIOUS

-----------------------------------------------------------------------------
(* The address map                                                         *)

(* The sizes are numbers, and the pages have keys of their own.            *)
LEMMA MapFacts ==
  /\ Threads \in Nat \ {0} /\ Threads > 1 /\ PageSize \in Nat \ {0}
  /\ PageSize * Threads \in Nat \ {0}
  /\ PageBytes \in Nat \ {0} /\ PageBytes = (PageSize * Threads) * 8
  /\ \A p \in 0 .. MaxPages - 1 : PageKey(p) \in Nat
  /\ \A p, q \in 0 .. MaxPages - 1 : PageKey(p) = PageKey(q) => p = q
<1>1. Threads \in Nat \ {0} /\ Threads > 1 /\ PageSize \in Nat \ {0}
  BY CountAssumption
<1>2. PageSize * Threads \in Nat \ {0}
  BY <1>1
<1>3. PageBytes = (PageSize * Threads) * 8
  BY DEF PageBytes
<1>4. PageBytes \in Nat \ {0}
  BY <1>2, <1>3
<1>5. /\ \A p \in 0 .. MaxPages - 1 : PageKey(p) \in Nat
      /\ \A p, q \in 0 .. MaxPages - 1 : PageKey(p) = PageKey(q) => p = q
  BY DEF MaxPages, PageKey
<1> QED
  BY <1>1, <1>2, <1>3, <1>4, <1>5

(* A word of a thread, by its page, its place u in the page and its key.   *)
LEMMA WordInPage ==
  ASSUME NEW page \in 0 .. MaxPages - 1, NEW n \in 0 .. PageSize - 1, NEW t \in Counters
  PROVE  LET w == PageToAddr(page) + n * Threads * 8 + t * 8
         IN  /\ w \in Nat /\ w % 8 = 0 /\ Mine(t, w)
             /\ w \div PageBytes = PageKey(page)
             /\ w - PageToAddr(page) \in Nat
             /\ (w - PageToAddr(page)) \div (Threads * 8) = n
<1> DEFINE w == PageToAddr(page) + n * Threads * 8 + t * 8
<1>1. PICK T \in Nat \ {0}, P \in Nat \ {0}, K \in Nat, B \in Nat \ {0} :
        T = Threads /\ P = PageSize /\ K = PageKey(page) /\ B = P * T
  BY MapFacts
<1>2. n \in 0 .. P - 1 /\ t \in 0 .. T - 1 /\ n \in Nat /\ t \in Nat
  BY <1>1 DEF Counters
<1>3. PICK u \in 0 .. B - 1 : u = n * T + t
  BY <1>1, <1>2, ProductBound
<1>4. PageBytes = B * 8 /\ PageToAddr(page) = K * (B * 8)
  BY <1>1, MapFacts DEF PageToAddr
<1>5. n * Threads * 8 + t * 8 = 8 * u
  BY <1>1, <1>2, <1>3
<1>6. K * (B * 8) \in Nat /\ 8 * u \in Nat
  BY <1>1, <1>3
<1>7. w = K * (B * 8) + 8 * u
  <2>1. n * Threads \in Nat
    BY <1>1, <1>2
  <2>2. n * Threads * 8 \in Nat /\ t * 8 \in Nat
    BY <1>2, <2>1
  <2> QED
    BY <1>4, <1>5, <1>6, <2>2
<1> HIDE DEF w
<1>8. w \in Nat /\ w - PageToAddr(page) = 8 * u /\ 8 * u \in 0 .. B * 8 - 1
  BY <1>1, <1>3, <1>4, <1>6, <1>7
<1>9. w \div PageBytes = K
  <2>1. B * 8 \in Nat \ {0}
    BY <1>1
  <2>2. (K * (B * 8) + 8 * u) \div (B * 8) = K
    BY <1>1, <1>8, <2>1, Quotient
  <2> QED
    BY <1>4, <1>7, <2>2
<1>10. w % 8 = 0 /\ w \div 8 = K * B + u
  <2>1. K * B \in Nat
    BY <1>1
  <2>2. PICK q \in Nat : q = K * B + u
    BY <1>3, <2>1
  <2>3. K * (B * 8) = (K * B) * 8
    BY <1>1
  <2>4. w = q * 8 + 0
    BY <1>3, <1>7, <2>1, <2>2, <2>3
  <2>5. (q * 8 + 0) \div 8 = q /\ (q * 8 + 0) % 8 = 0
    BY <2>2, Quotient
  <2> QED
    BY <2>2, <2>4, <2>5
<1>11. Mine(t, w)
  <2>1. PICK q \in Nat : q = K * P + n
    <3>1. K * P \in Nat
      BY <1>1
    <3> QED
      BY <1>2, <3>1
  <2>2. K * B + u = q * T + t
    <3>1. K * B = (K * P) * T
      BY <1>1
    <3>2. PICK x \in Nat : x = K * P
      BY <1>1
    <3>3. q * T = x * T + n * T
      BY <1>1, <1>2, <2>1, <3>2
    <3>4. x * T \in Nat /\ n * T \in Nat
      BY <1>1, <1>2, <3>2
    <3> QED
      BY <1>2, <1>3, <3>1, <3>2, <3>3, <3>4
  <2>3. (q * T + t) % T = t
    <3>1. q \in Nat /\ T \in Nat \ {0} /\ t \in 0 .. T - 1
      BY <1>1, <1>2, <2>1
    <3>2. \A v \in 0 .. T - 1 : (q * T + v) % T = v
      BY <3>1, Quotient
    <3> QED
      BY <3>1, <3>2, Zenon
  <2> QED
    BY <1>1, <1>10, <2>2, <2>3 DEF Mine
<1>12. (8 * u) \div (T * 8) = n
  <2>1. 8 * u = n * (T * 8) + t * 8
    BY <1>1, <1>2, <1>3
  <2>2. T * 8 \in Nat \ {0} /\ t * 8 \in 0 .. T * 8 - 1
    BY <1>1, <1>2
  <2>3. (n * (T * 8) + t * 8) \div (T * 8) = n
    BY <1>2, <2>2, Quotient
  <2> QED
    BY <2>1, <2>3
<1>13. (w - PageToAddr(page)) \div (Threads * 8) = n
  BY <1>1, <1>8, <1>12
<1>14. w - PageToAddr(page) \in Nat
  BY <1>8
<1>15. w \div PageBytes = PageKey(page)
  BY <1>1, <1>9
<1> QED
  BY <1>8, <1>10, <1>11, <1>13, <1>14, <1>15 DEF w

(* The tables of addr_to_offset and of page_to_addr agree.                 *)
LEMMA PagesOfKey ==
  ASSUME NEW key
  PROVE  PagesAt(key) = {page \in 0 .. MaxPages - 1 : PageKey(page) = key}
BY DEF PagesAt, PageKey, MaxPages

(* The page of an address is the only one with its key.                    *)
LEMMA PageOfKey ==
  ASSUME NEW addr \in Nat, NEW page \in 0 .. MaxPages - 1, PageKey(page) = addr \div PageBytes
  PROVE  /\ PageOf(addr) = {page} /\ Mapped(addr)
         /\ AddrToOffset(addr) = page * PageSize + (addr - PageToAddr(page)) \div (Threads * 8)
<1>1. PageOf(addr) = {page}
  BY MapFacts, PagesOfKey DEF PageOf
<1>2. (CHOOSE p \in PageOf(addr) : TRUE) = page
  BY <1>1
<1>3. addr % PageBytes = addr - PageToAddr(page)
  <2>1. PICK b \in Nat \ {0}, k \in Nat : b = PageBytes /\ k = PageKey(page)
    BY MapFacts
  <2>2. addr = k * b + (addr % b) /\ addr % b \in Nat
    BY <2>1, Division
  <2>3. k * b \in Nat
    BY <2>1
  <2>4. PageToAddr(page) = k * b
    BY <2>1 DEF PageToAddr
  <2> QED
    BY <2>1, <2>2, <2>3, <2>4
<1> QED
  BY <1>1, <1>2, <1>3 DEF Mapped, AddrToOffset

(* offset_to_addr leads to a word of the thread, and addr_to_offset back.  *)
LEMMA OffsetOfItsAddr ==
  ASSUME NEW o \in Offsets, NEW t \in Counters
  PROVE  LET w == OffsetToAddr(o, t)
         IN  w \in Nat /\ w % 8 = 0 /\ Mine(t, w) /\ Mapped(w) /\ AddrToOffset(w) = o
<1> DEFINE w == OffsetToAddr(o, t)
           page == o \div PageSize
           n == o % PageSize
<1>1. o \in Nat /\ PageSize \in Nat \ {0} /\ MaxPages = 20 /\ o <= MaxPages * PageSize - 1
  BY MapFacts DEF Offsets, MaxPages
<1>2. page \in Nat /\ n \in 0 .. PageSize - 1 /\ o = page * PageSize + n
  BY <1>1, Division
<1>3. page \in 0 .. MaxPages - 1
  <2> HIDE DEF page, n
  <2>1. PICK P \in Nat \ {0} : P = PageSize
    BY <1>1
  <2>2. ~(page >= 20)
    <3>1. page >= 20 => page * P >= 20 * P
      BY <1>2, <2>1
    <3> QED
      BY <1>1, <1>2, <2>1, <3>1
  <2> QED
    BY <1>1, <1>2, <2>2
<1>4. w = PageToAddr(page) + n * Threads * 8 + t * 8
  BY DEF OffsetToAddr
<1> HIDE DEF w, page, n
<1>5. /\ w \in Nat /\ w % 8 = 0 /\ Mine(t, w)
      /\ w \div PageBytes = PageKey(page)
      /\ (w - PageToAddr(page)) \div (Threads * 8) = n
  BY <1>2, <1>3, <1>4, WordInPage
<1>6. Mapped(w) /\ AddrToOffset(w) = page * PageSize + n
  BY <1>3, <1>5, PageOfKey
<1> QED
  BY <1>2, <1>5, <1>6 DEF w

(* addr_to_offset of a word of the thread has an offset, and the word's    *)
(* address is that of the offset.                                          *)
LEMMA AddrOfItsOffset ==
  ASSUME NEW w \in Nat, w % 8 = 0, NEW t \in Counters, Mine(t, w), Mapped(w)
  PROVE  AddrToOffset(w) \in Offsets /\ OffsetToAddr(AddrToOffset(w), t) = w
<1>1. PICK page \in 0 .. MaxPages - 1 : PageKey(page) = w \div PageBytes
  BY PagesOfKey DEF Mapped, PageOf
<1>2. PICK T \in Nat \ {0}, P \in Nat \ {0}, K \in Nat, B \in Nat \ {0} :
        T = Threads /\ P = PageSize /\ K = PageKey(page) /\ B = P * T
  BY MapFacts
<1>3. PageBytes = B * 8 /\ B * 8 \in Nat \ {0}
  BY <1>2, MapFacts
<1>4. PICK v \in Nat : w = v * 8 /\ v = w \div 8
  BY Division
<1>5. v % T = t
  BY <1>2, <1>4 DEF Mine
<1>6. PICK rest \in 0 .. B * 8 - 1 : w = K * (B * 8) + rest
  <2>1. PICK b \in Nat \ {0} : b = B * 8
    BY <1>3
  <2>2. w % b \in 0 .. b - 1 /\ w = (w \div b) * b + (w % b)
    BY <2>1, Division
  <2>3. w \div b = K
    BY <1>1, <1>2, <1>3, <2>1
  <2> QED
    BY <2>1, <2>2, <2>3
<1>7. PICK u \in 0 .. B - 1 : rest = 8 * u /\ v = K * B + u
  <2>1. PICK x \in Nat : x = K * B
    BY <1>2
  <2>2. K * (B * 8) = x * 8
    BY <1>2, <2>1
  <2>3. rest = 8 * (v - x)
    BY <1>4, <1>6, <2>1, <2>2
  <2>4. v - x \in 0 .. B - 1
    BY <1>2, <1>4, <1>6, <2>1, <2>3
  <2> QED
    BY <1>4, <2>1, <2>3, <2>4
<1>8. PICK n \in Nat, r \in 0 .. T - 1 : u = n * T + r
  <2>1. u \in Nat /\ T \in Nat \ {0}
    BY <1>2, <1>7
  <2>2. u \div T \in Nat /\ u % T \in 0 .. T - 1 /\ u = (u \div T) * T + (u % T)
    BY <2>1, Division
  <2> QED
    BY <2>2
<1>9. r = t
  <2>1. PICK q \in Nat : q = K * P + n
    <3>1. K * P \in Nat
      BY <1>2
    <3> QED
      BY <1>8, <3>1
  <2>2. v = q * T + r
    <3>1. PICK x \in Nat : x = K * P
      BY <1>2
    <3>2. K * B = x * T
      BY <1>2, <3>1
    <3>3. q * T = x * T + n * T
      BY <1>2, <1>8, <2>1, <3>1
    <3>4. x * T \in Nat /\ n * T \in Nat
      BY <1>2, <1>8, <3>1
    <3> QED
      BY <1>7, <1>8, <3>2, <3>3, <3>4
  <2>3. (q * T + r) % T = r
    <3>1. q \in Nat /\ T \in Nat \ {0} /\ r \in 0 .. T - 1
      BY <1>2, <1>8, <2>1
    <3> QED
      BY <3>1, Quotient
  <2> QED
    BY <1>5, <2>2, <2>3
<1>10. n \in 0 .. P - 1
  <2>1. ~(n >= P)
    <3>1. n >= P => n * T >= P * T
      BY <1>2, <1>8
    <3>2. n * T \in Nat
      BY <1>2, <1>8
    <3> QED
      BY <1>2, <1>7, <1>8, <3>1, <3>2
  <2> QED
    BY <1>2, <1>8, <2>1
<1>11. w = PageToAddr(page) + n * Threads * 8 + t * 8
  <2>1. PageToAddr(page) = K * (B * 8) /\ K * (B * 8) \in Nat
    BY <1>2, <1>3 DEF PageToAddr
  <2>2. n * Threads * 8 + t * 8 = 8 * u
    BY <1>2, <1>8, <1>9
  <2>3. n * Threads * 8 \in Nat /\ t * 8 \in Nat
    <3>1. n * Threads \in Nat
      BY <1>2, <1>8
    <3> QED
      BY <1>8, <1>9, <3>1
  <2> QED
    BY <1>6, <1>7, <2>1, <2>2, <2>3
<1>12. (w - PageToAddr(page)) \div (Threads * 8) = n
  BY <1>2, <1>10, <1>11, WordInPage
<1>13. AddrToOffset(w) = page * P + n
  BY <1>1, <1>2, <1>12, PageOfKey
<1>14. page * P + n \in 0 .. 20 * P - 1 /\ 20 \in Nat /\ page \in 0 .. 20 - 1
  BY <1>2, <1>10, ProductBound DEF MaxPages
<1>15. (page * P + n) \div P = page /\ (page * P + n) % P = n
  <2>1. page \in Nat /\ P \in Nat \ {0} /\ n \in 0 .. P - 1
    BY <1>2, <1>10, <1>14
  <2> QED
    BY <2>1, Quotient
<1> QED
  BY <1>2, <1>11, <1>13, <1>14, <1>15 DEF Offsets, MaxPages, OffsetToAddr

-----------------------------------------------------------------------------
(* Accesses                                                                *)

(* An access as load hands it over, once the format is decided.            *)
Reformed(r) == [r EXCEPT !.flags = Converted(@)]
Kept(r) == IF convert THEN Reformed(r) ELSE r
Taken(a) == Kept(Record(directory.format, a))

(* Flags and their bits keep to the width of the halves.                   *)
LEMMA SmallHalves ==
  ASSUME NEW n \in {0, 1, 2, 4, 8}
  PROVE  n \in Half
BY SMT DEF Half

LEMMA HalfDivided ==
  ASSUME NEW h \in Half
  PROVE  \E w \in {0, 1}, b \in Half : w = (h \div 2048) % 2 /\ b = h \div 4096
<1>1. (h \div 2048) % 2 \in {0, 1}
  BY SMT DEF Half
<1>2. h \div 4096 \in Half
  BY SMT DEF Half
<1> QED
  BY <1>1, <1>2

LEMMA HalfComposed ==
  ASSUME NEW b \in {1, 2, 4, 8}, NEW w \in {0, 1}
  PROVE  \E h \in Half : /\ h = b * 4096 + w * 2048
                         /\ h \div 4096 = b /\ (h \div 2048) % 2 = w
<1>1. b * 4096 + w * 2048 \in Half
  BY SMT DEF Half
<1>2. (b * 4096 + w * 2048) \div 4096 = b
  BY SMT
<1>3. ((b * 4096 + w * 2048) \div 2048) % 2 = w
  BY SMT
<1>4. PICK h \in Half : h = b * 4096 + w * 2048
  BY <1>1
<1>5. h \div 4096 = b /\ (h \div 2048) % 2 = w
  BY <1>2, <1>3, <1>4, SMT
<1> QED
  BY <1>4, <1>5

(* An access as it is recorded.                                            *)
LEMMA RawType ==
  ASSUME NEW x \in Nat, NEW h \in Half, NEW l \in Half
  PROVE  [addr |-> x, flags |-> [high |-> h, low |-> l]] \in Raw
BY SMT DEF Raw

LEMMA RawIs ==
  ASSUME NEW r \in Raw
  PROVE  /\ r.addr \in Nat /\ r.flags.high \in Half /\ r.flags.low \in Half
         /\ r = [addr |-> r.addr, flags |-> r.flags]
<1>1. /\ r.addr \in Nat /\ r.flags \in [high : Half, low : Half]
      /\ r = [addr |-> r.addr, flags |-> r.flags]
  BY SMT DEF Raw
<1> QED
  BY <1>1, SMT

(* What a conversion makes of an access.                                   *)
LEMMA ConvertedIs ==
  ASSUME NEW x, NEW f, NEW w, NEW b, w = (f.high \div 2048) % 2, b = f.high \div 4096
  PROVE  [[addr |-> x, flags |-> f] EXCEPT !.flags = Converted(@)]
           = [addr |-> x, flags |-> [high |-> w, low |-> b]]
<1>1. Converted(f) = [high |-> w, low |-> b]
  BY SMT DEF Converted
<1> DEFINE g == Converted(f)
<1>2. [[addr |-> x, flags |-> f] EXCEPT !.flags = g] = [addr |-> x, flags |-> g]
  <2> HIDE DEF g
  <2> QED
    OBVIOUS
<1> QED
  BY <1>1, <1>2

(* Conversions stay within the width of the flags.                         *)
LEMMA ConvertedType ==
  ASSUME NEW r \in Raw
  PROVE  [r EXCEPT !.flags = Converted(@)] \in Raw
<1>1. PICK x, h, f :
        x \in Nat /\ h \in Half /\ r = [addr |-> x, flags |-> f] /\ f.high = h
  BY RawIs
<1>2. PICK w \in {0, 1}, b \in Half : w = (h \div 2048) % 2 /\ b = h \div 4096
  BY <1>1, HalfDivided
<1>3. [r EXCEPT !.flags = Converted(@)] = [addr |-> x, flags |-> [high |-> w, low |-> b]]
  BY <1>1, <1>2, ConvertedIs
<1>4. w \in Half
  BY SmallHalves, SMT
<1>5. [addr |-> x, flags |-> [high |-> w, low |-> b]] \in Raw
  BY <1>1, <1>4, RawType
<1> QED
  BY <1>3, <1>5

(* A record is one of the two halves' width in both formats.               *)
LEMMA RecordType ==
  ASSUME NEW a \in Access, NEW format \in {"new", "old"}
  PROVE  Record(format, a) \in Raw
<1>1. PICK b \in {1, 2, 4, 8}, w \in {0, 1}, x \in Nat :
        b = a.bytes /\ w = Bit(a.write) /\ x = a.addr
  BY DEF Access, Bit
<1>2. b \in Half /\ w \in Half /\ 0 \in Half
  BY SmallHalves, SMT
<1>3. PICK h \in Half : h = b * 4096 + w * 2048
  BY HalfComposed
<1>4. \/ Record(format, a) = [addr |-> x, flags |-> [high |-> w, low |-> b]]
      \/ Record(format, a) = [addr |-> x, flags |-> [high |-> h, low |-> 0]]
  BY <1>1, <1>3, SMT DEF Record
<1> QED
  BY <1>2, <1>4, RawType

(* A trace that is understood has the bytes and the write bit where the    *)
(* counters look for them; in one that is not there are no bytes.          *)
LEMMA TakenIs ==
  ASSUME NEW a \in Access, directory.format \in {"new", "old"}, convert \in BOOLEAN
  PROVE  /\ Record(directory.format, a) \in Raw
         /\ Understood => Taken(a) = [addr |-> a.addr,
                                      flags |-> [high |-> Bit(a.write), low |-> a.bytes]]
         /\ ~Understood => ~Asserted(Taken(a))
<1>1. PICK b \in {1, 2, 4, 8}, w \in {0, 1}, x \in Nat :
        b = a.bytes /\ w = Bit(a.write) /\ x = a.addr
  BY DEF Access, Bit
<1>2. b \in Half /\ w \in Half /\ 0 \in Half
  BY SmallHalves, SMT
<1>3. w \div 4096 = 0
  BY SMT
<1>4. ASSUME NEW r, r.flags.low = 0 PROVE ~Asserted(r)
  BY <1>4, SMT DEF Asserted, Bytes
<1>5. "new" # "old"
  OBVIOUS
<1>6. CASE directory.format = "new"
  <2> DEFINE f == [high |-> w, low |-> b]
  <2>1. Record(directory.format, a) = [addr |-> x, flags |-> f]
    BY <1>1, <1>6 DEF Record
  <2>2. Record(directory.format, a) \in Raw
    BY <1>2, <2>1, RawType
  <2>3. CASE convert
    <3>1. PICK v : v = (w \div 2048) % 2
      OBVIOUS
    <3>2. [[addr |-> x, flags |-> f] EXCEPT !.flags = Converted(@)]
            = [addr |-> x, flags |-> [high |-> v, low |-> 0]]
      <4>1. v = (f.high \div 2048) % 2 /\ 0 = f.high \div 4096
        BY <1>3, <3>1
      <4> QED
        BY <4>1, ConvertedIs
    <3> HIDE DEF f
    <3>3. Taken(a) = [addr |-> x, flags |-> [high |-> v, low |-> 0]]
      BY <2>1, <2>3, <3>2, Zenon DEF Taken, Kept, Reformed
    <3>4. ~Asserted(Taken(a))
      <4>1. Taken(a).flags.low = 0
        BY <3>3
      <4> QED
        BY <1>4, <4>1, Zenon
    <3>5. ~Understood
      BY <1>5, <1>6, <2>3, Zenon DEF Understood
    <3> QED
      BY <2>2, <3>4, <3>5, Zenon
  <2>4. CASE ~convert
    <3>1. Taken(a) = [addr |-> x, flags |-> [high |-> w, low |-> b]]
      BY <2>1, <2>4, Zenon DEF Taken, Kept, Reformed
    <3>2. Understood
      BY <1>5, <1>6, <2>4, Zenon DEF Understood
    <3> QED
      BY <1>1, <2>2, <3>1, <3>2, Zenon
  <2> QED
    BY <2>3, <2>4, Zenon
<1>7. CASE directory.format = "old"
  <2>1. PICK h \in Half : /\ h = b * 4096 + w * 2048
                          /\ h \div 4096 = b /\ (h \div 2048) % 2 = w
    BY HalfComposed
  <2> DEFINE f == [high |-> h, low |-> 0]
  <2>2. Record(directory.format, a) = [addr |-> x, flags |-> f]
    BY <1>1, <1>5, <1>7, <2>1, SMT DEF Record
  <2>3. Record(directory.format, a) \in Raw
    BY <1>2, <2>2, RawType
  <2>4. CASE convert
    <3>1. [[addr |-> x, flags |-> f] EXCEPT !.flags = Converted(@)]
            = [addr |-> x, flags |-> [high |-> w, low |-> b]]
      BY <2>1, ConvertedIs
    <3> HIDE DEF f
    <3>2. Taken(a) = [addr |-> x, flags |-> [high |-> w, low |-> b]]
      BY <2>2, <2>4, <3>1, Zenon DEF Taken, Kept, Reformed
    <3>3. Understood
      BY <1>7, <2>4, Zenon DEF Understood
    <3> QED
      BY <1>1, <2>3, <3>2, <3>3, Zenon
  <2>5. CASE ~convert
    <3>1. Taken(a) = [addr |-> x, flags |-> f]
      BY <2>2, <2>5, Zenon DEF Taken, Kept, Reformed
    <3>2. Taken(a).flags.low = 0
      BY <3>1
    <3>3. ~Asserted(Taken(a))
      BY <1>4, <3>2, Zenon
    <3>4. ~Understood
      BY <1>7, <2>5, Zenon DEF Understood
    <3> QED
      BY <2>3, <3>3, <3>4, Zenon
  <2> QED
    BY <2>4, <2>5, Zenon
<1> QED
  BY <1>6, <1>7, Zenon

(* Neighbouring words are of different threads.                            *)
LEMMA Neighbours ==
  ASSUME NEW g \in Nat, NEW b \in Nat, b > 1
  PROVE  (g + 1) % b # g % b
<1>1. PICK q \in Nat, r \in 0 .. b - 1 : g = q * b + r
  <2>1. b \in Nat \ {0}
    OBVIOUS
  <2>2. g \div b \in Nat /\ g % b \in 0 .. b - 1 /\ g = (g \div b) * b + (g % b)
    BY <2>1, Division
  <2> QED
    BY <2>2
<1>2. g % b = r
  BY <1>1, Quotient
<1>3. CASE r + 1 < b
  <2>1. r + 1 \in 0 .. b - 1 /\ b \in Nat \ {0} /\ q * b \in Nat
    BY <1>1, <1>3
  <2>2. g + 1 = q * b + (r + 1)
    BY <1>1, <2>1
  <2>3. (q * b + (r + 1)) % b = r + 1
    BY <1>1, <2>1, Quotient
  <2> QED
    BY <1>1, <1>2, <2>2, <2>3
<1>4. CASE r + 1 = b
  <2>1. (q + 1) * b = q * b + b /\ q * b \in Nat
    BY <1>1
  <2>2. g + 1 = (q + 1) * b + 0
    BY <1>1, <1>4, <2>1
  <2>3. q + 1 \in Nat /\ b \in Nat \ {0} /\ 0 \in 0 .. b - 1
    BY <1>1
  <2>4. ((q + 1) * b + 0) % b = 0
    BY <2>3, Quotient
  <2> QED
    BY <1>1, <1>2, <1>4, <2>2, <2>4
<1> QED
  BY <1>1, <1>3, <1>4

(* The word a thread counts of an access is one of its words.              *)
LEMMA WordsAre ==
  ASSUME NEW r \in Raw, NEW t \in Counters, NEW word \in WordsOf(t, r)
  PROVE  word \in Nat /\ word % 8 = 0 /\ Mine(t, word) /\ WordsOf(t, r) = {word}
<1>1. PICK x \in Nat : x = r.addr
  BY DEF Raw
<1>2. /\ FirstWord(r) \in Nat /\ FirstWord(r) % 8 = 0
      /\ FirstWord(r) + 8 \in Nat /\ (FirstWord(r) + 8) % 8 = 0
  BY <1>1 DEF FirstWord
<1> QED
  BY <1>2 DEF WordsOf

(* A thread counts the word of its own that the access touches, if any.    *)
LEMMA WordsTouched ==
  ASSUME NEW a \in Access, NEW t \in Counters, NEW word \in Nat, word % 8 = 0, Mine(t, word),
         NEW r, r = [addr |-> a.addr, flags |-> [high |-> Bit(a.write), low |-> a.bytes]]
  PROVE  /\ Touches(a, word) <=> WordsOf(t, r) = {word}
         /\ Touches(a, word) => RowsOf(a, word) = RowsPerWord(r)
<1>1. PICK b \in {1, 2, 4, 8}, w \in {0, 1}, x \in Nat :
        b = a.bytes /\ w = Bit(a.write) /\ x = a.addr
  BY DEF Access, Bit
<1>2. PICK g \in Nat, m \in 0 .. 7 : x = g * 8 + m /\ m = x % 8
  BY <1>1
<1>3. PICK v \in Nat : word = v * 8 /\ word \div 8 = v
  BY Division
<1>4. /\ Bytes(r) = b /\ r.addr = x /\ FirstWord(r) = g * 8
      /\ Crosses(r) <=> b + m > 8
      /\ Aligned(r) <=> b = 8 /\ m = 0
  <2>1. b % 256 = b
    BY <1>1
  <2>2. r.addr = x /\ Bytes(r) = b
    BY <1>1, <2>1 DEF Bytes
  <2>3. r.addr % 8 = m /\ FirstWord(r) = g * 8
    BY <1>2, <2>2 DEF FirstWord
  <2> QED
    BY <2>2, <2>3 DEF Crosses, Aligned
<1>5. Touches(a, word) <=> v = g \/ (v = g + 1 /\ b + m > 8)
  <2>1. Touches(a, word) <=> g * 8 + m < v * 8 + 8 /\ v * 8 < g * 8 + m + b
    BY <1>1, <1>2, <1>3 DEF Touches
  <2> QED
    BY <1>1, <1>2, <1>3, <2>1
<1>6. /\ Mine(t, FirstWord(r)) <=> g % Threads = t
      /\ Mine(t, FirstWord(r) + 8) <=> (g + 1) % Threads = t
      /\ v % Threads = t
  <2>1. (g * 8) \div 8 = g /\ (g * 8 + 8) \div 8 = g + 1
    OBVIOUS
  <2> QED
    BY <1>3, <1>4, <2>1 DEF Mine
<1>7. ~(g % Threads = t /\ (g + 1) % Threads = t)
  BY MapFacts, Neighbours
<1>8. WordsOf(t, r) = IF g % Threads = t THEN {g * 8}
                      ELSE IF b + m > 8 /\ (g + 1) % Threads = t THEN {g * 8 + 8} ELSE {}
  <2>1. b + m > 8 => ~Aligned(r)
    BY <1>1, <1>2, <1>4
  <2> QED
    BY <1>4, <1>6, <2>1 DEF WordsOf
<1>9. Touches(a, word) <=> WordsOf(t, r) = {word}
  <2>1. CASE v = g
    BY <1>3, <1>5, <1>6, <1>8, <2>1
  <2>2. CASE v = g + 1
    <3>1. word = g * 8 + 8 /\ word # g * 8
      BY <1>2, <1>3, <2>2
    <3>2. g % Threads # t /\ (g + 1) % Threads = t
      BY <1>6, <1>7, <2>2
    <3> QED
      BY <1>2, <1>5, <1>8, <2>2, <3>1, <3>2
  <2>3. CASE v # g /\ v # g + 1
    <3>1. word # g * 8 + 8 /\ word # g * 8
      BY <1>2, <1>3, <2>3
    <3> QED
      BY <1>5, <1>8, <2>3, <3>1
  <2> QED
    BY <2>1, <2>2, <2>3
<1>10. ASSUME Touches(a, word) PROVE RowsOf(a, word) = RowsPerWord(r)
  <2>1. a.addr = word /\ a.bytes = 8 <=> b = 8 /\ m = 0
    <3>1. b = 8 /\ m = 0 => v = g
      BY <1>2, <1>5, <1>10
    <3>2. x = v * 8 => m = 0
      BY <1>2
    <3> QED
      BY <1>1, <1>2, <1>3, <3>1, <3>2
  <2>2. RowsPerWord(r) = IF b = 8 /\ m = 0 THEN 1 ELSE 1 + w
    BY <1>1, <1>4 DEF RowsPerWord
  <2>3. w = IF a.write THEN 1 ELSE 0
    BY <1>1 DEF Bit
  <2> QED
    BY <1>10, <2>1, <2>2, <2>3 DEF RowsOf
<1> QED
  BY <1>9, <1>10

-----------------------------------------------------------------------------
(* Entries of a word                                                       *)

(* count_aligned on a list of entries none of which is of a later chunk.   *)
LEMMA CountedIs ==
  ASSUME NEW h \in Seq(Tallies), InOrder(h), NEW k \in 0 .. MaxChunks - 1,
         \A i \in DOMAIN h : h[i].chunk <= k, NEW n \in Nat \ {0}
  PROVE  LET e == Counted(h, k, n)
         IN  /\ e \in Seq(Tallies) /\ InOrder(e)
             /\ \A i \in DOMAIN e : e[i].chunk <= k
             /\ \A x \in Nat : Tallied(h, k, x) => Tallied(e, k, x + n)
             /\ \A c, x : c # k /\ Tallied(h, c, x) => Tallied(e, c, x)
<1> DEFINE m == Len(h)
           e == Counted(h, k, n)
<1>1. m \in Nat /\ DOMAIN h = 1 .. m /\ \A i \in 1 .. m : h[i] \in Tallies
  BY SeqIsFunction
<1>2. \A i \in 1 .. m : /\ h[i].chunk \in Nat /\ h[i].chunk <= k /\ h[i].count \in Nat \ {0}
                        /\ h[i] = [chunk |-> h[i].chunk, count |-> h[i].count]
  <2> SUFFICES ASSUME NEW i \in 1 .. m
               PROVE  /\ h[i].chunk \in Nat /\ h[i].chunk <= k /\ h[i].count \in Nat \ {0}
                      /\ h[i] = [chunk |-> h[i].chunk, count |-> h[i].count]
    OBVIOUS
  <2>1. h[i] \in Tallies /\ h[i].chunk <= k
    BY <1>1
  <2>2. \A e1 \in Tallies : /\ e1.chunk \in Nat /\ e1.count \in Nat \ {0}
                            /\ e1 = [chunk |-> e1.chunk, count |-> e1.count]
    BY DEF Tallies
  <2> QED
    BY <2>1, <2>2
<1>3. k \in Nat /\ (h = <<>> <=> m = 0)
  BY <1>1
<1>4. CASE h # <<>> /\ Last(h).chunk = k
  <2> DEFINE last == [chunk |-> k, count |-> h[m].count + n]
  <2>1. m \in 1 .. m /\ h[m].chunk = k /\ last \in Tallies
    BY <1>1, <1>2, <1>3, <1>4 DEF Last, Tallies
  <2>2. e = [h EXCEPT ![m].count = @ + n]
    BY <1>4 DEF Counted
  <2>3. e = [i \in 1 .. m |-> IF i = m THEN last ELSE h[i]]
    BY <1>1, <1>2, <2>1, <2>2
  <2> HIDE DEF e, last
  <2>4. e \in Seq(Tallies) /\ DOMAIN e = 1 .. m /\ Len(e) = m
    <3>1. e \in [1 .. m -> Tallies]
      BY <1>1, <2>1, <2>3
    <3> QED
      BY <1>1, <3>1, FunctionIsSeq
  <2>5. e[m] = last /\ \A i \in 1 .. m : i # m => e[i] = h[i]
    BY <2>1, <2>3
  <2>6. \A i \in 1 .. m : e[i].chunk = h[i].chunk
    BY <2>1, <2>5 DEF last
  <2>7. InOrder(e)
    BY <1>1, <2>4, <2>6 DEF InOrder
  <2>8. \A i \in 1 .. m : i # m => h[i].chunk # k
    <3> SUFFICES ASSUME NEW i \in 1 .. m, i # m PROVE h[i].chunk # k
      OBVIOUS
    <3>1. i \in DOMAIN h /\ m \in DOMAIN h /\ i < m
      <4>1. m \in Nat /\ DOMAIN h = 1 .. m
        BY <1>1
      <4> HIDE DEF m
      <4>2. i \in Nat /\ i < m
        BY <4>1
      <4> QED
        BY <4>1, <4>2
    <3>2. h[i].chunk < h[m].chunk
      BY <3>1 DEF InOrder
    <3> QED
      BY <1>2, <2>1, <3>2
  <2>9. ASSUME NEW x \in Nat, Tallied(h, k, x) PROVE Tallied(e, k, x + n)
    <3>1. x # 0
      BY <1>1, <2>1, <2>9 DEF Tallied
    <3>2. PICK i \in 1 .. m : h[i] = [chunk |-> k, count |-> x]
      BY <1>1, <2>9, <3>1 DEF Tallied
    <3>3. i = m
      BY <2>8, <3>2
    <3>4. h[m].count = x
      BY <3>2, <3>3
    <3>5. e[m] = [chunk |-> k, count |-> x + n] /\ x + n # 0
      BY <2>5, <3>4 DEF last
    <3> QED
      BY <2>1, <2>4, <3>5 DEF Tallied
  <2>10. ASSUME NEW c, NEW x, c # k, Tallied(h, c, x) PROVE Tallied(e, c, x)
    <3>1. CASE x = 0
      BY <1>1, <2>4, <2>6, <2>10, <3>1 DEF Tallied
    <3>2. CASE x # 0
      <4>1. PICK i \in 1 .. m : h[i] = [chunk |-> c, count |-> x]
        BY <1>1, <2>10, <3>2 DEF Tallied
      <4>2. i # m
        BY <2>1, <2>10, <4>1
      <4>3. e[i] = h[i] /\ i \in DOMAIN e
        BY <2>4, <2>5, <4>2
      <4> QED
        BY <3>2, <4>1, <4>3 DEF Tallied
    <3> QED
      BY <3>1, <3>2
  <2> QED
    BY <1>2, <2>4, <2>6, <2>7, <2>9, <2>10 DEF e
<1>5. CASE ~(h # <<>> /\ Last(h).chunk = k)
  <2> DEFINE new == [chunk |-> k, count |-> n]
  <2>1. new \in Tallies
    BY DEF Tallies
  <2>2. e = Append(h, new)
    BY <1>5 DEF Counted
  <2> HIDE DEF e
  <2>3. /\ e \in Seq(Tallies) /\ DOMAIN e = 1 .. m + 1 /\ m + 1 \in 1 .. m + 1
        /\ e[m + 1] = new /\ \A i \in 1 .. m : e[i] = h[i] /\ i \in 1 .. m + 1
    BY <1>1, <2>1, <2>2
  <2>4. \A i \in 1 .. m + 1 : i \in 1 .. m \/ i = m + 1
    BY <1>1
  <2> HIDE DEF new
  <2>5. \A i \in 1 .. m : h[i].chunk < k
    <3> SUFFICES ASSUME NEW i \in 1 .. m PROVE h[i].chunk < k
      OBVIOUS
    <3>1. m \in 1 .. m /\ h[m].chunk # k
      BY <1>1, <1>3, <1>5 DEF Last
    <3>2. i \in DOMAIN h /\ m \in DOMAIN h /\ (i = m \/ i < m)
      <4>1. m \in Nat /\ DOMAIN h = 1 .. m
        BY <1>1
      <4> HIDE DEF m
      <4>2. i \in Nat /\ i <= m
        BY <4>1
      <4> QED
        BY <3>1, <4>1, <4>2
    <3>3. i = m \/ h[i].chunk < h[m].chunk
      BY <3>2 DEF InOrder
    <3>4. h[i].chunk <= k /\ h[m].chunk <= k
      BY <1>2, <3>1
    <3>5. h[i].chunk \in Nat /\ h[m].chunk \in Nat
      BY <1>2, <3>1
    <3> QED
      BY <1>3, <3>1, <3>3, <3>4, <3>5
  <2>6. InOrder(e)
    <3> SUFFICES ASSUME NEW i \in 1 .. m + 1, NEW j \in 1 .. m + 1, i < j
                 PROVE  e[i].chunk < e[j].chunk
      BY <2>3 DEF InOrder
    <3>1. i \in 1 .. m
      BY <1>1
    <3>2. CASE j \in 1 .. m
      BY <1>1, <2>3, <3>1, <3>2 DEF InOrder
    <3>3. CASE j = m + 1
      BY <2>3, <2>5, <3>1, <3>3 DEF new
    <3> QED
      BY <2>4, <3>2, <3>3
  <2>7. \A i \in 1 .. m + 1 : e[i].chunk <= k
    BY <1>2, <1>3, <2>3, <2>4 DEF new
  <2>8. ASSUME NEW x \in Nat, Tallied(h, k, x) PROVE Tallied(e, k, x + n)
    <3>1. x = 0
      <4> SUFFICES ASSUME x # 0 PROVE FALSE
        OBVIOUS
      <4>1. PICK i \in 1 .. m : h[i] = [chunk |-> k, count |-> x]
        BY <1>1, <2>8 DEF Tallied
      <4>2. h[i].chunk = k /\ h[i].chunk < k
        BY <2>5, <4>1
      <4> QED
        BY <1>3, <4>2
    <3>2. x + n = n /\ n # 0
      BY <3>1
    <3> QED
      BY <2>3, <3>2 DEF Tallied, new
  <2>9. ASSUME NEW c, NEW x, c # k, Tallied(h, c, x) PROVE Tallied(e, c, x)
    <3>1. CASE x = 0
      <4>1. ASSUME NEW i \in 1 .. m + 1 PROVE e[i].chunk # c
        BY <1>1, <2>3, <2>4, <2>9, <3>1 DEF Tallied, new
      <4> QED
        BY <2>3, <3>1, <4>1 DEF Tallied
    <3>2. CASE x # 0
      <4>1. PICK i \in 1 .. m : h[i] = [chunk |-> c, count |-> x]
        BY <1>1, <2>9, <3>2 DEF Tallied
      <4> QED
        BY <2>3, <3>2, <4>1 DEF Tallied
    <3> QED
      BY <3>1, <3>2
  <2> QED
    BY <2>3, <2>6, <2>7, <2>8, <2>9 DEF e
<1> QED
  BY <1>4, <1>5

-----------------------------------------------------------------------------
(* The invariant                                                           *)

(* A chunk is as long as its file; what has been read of the file is in    *)
(* it, and behind that what was in memory.                                 *)
LoadedIs ==
  \A c \in DOMAIN loaded :
    LET file == directory.files[c]
    IN  /\ c \in DOMAIN directory.files
        /\ file.got \in 0 .. Len(file.accesses)
        /\ Len(loaded[c]) = Len(file.accesses)
        /\ \A i \in 1 .. file.got : loaded[c][i] = Taken(file.accesses[i])
        /\ \A i \in file.got + 1 .. Len(file.accesses) :
             \E r \in Garbage : loaded[c][i] = Kept(r)

(* The counters start when load has returned.                              *)
NotStarted ==
  loading => /\ current = [t \in Actors |-> 1]
             /\ position = [t \in Actors |-> 0]
             /\ table = [t \in Counters |-> <<>>]

(* No entry is of a later chunk than the one its counter is in.            *)
EntriesBehind ==
  \A t \in Counters, o \in Offsets :
    /\ InOrder(EntriesAt(t, o))
    /\ \A i \in DOMAIN EntriesAt(t, o) : EntriesAt(t, o)[i].chunk <= current[t] - 1

(* What MemAlignCounter has gone through has passed its assertion.         *)
AlignPassed ==
  \A c \in DOMAIN loaded : \A i \in DOMAIN loaded[c] :
    c < current[Align] \/ (c = current[Align] /\ i <= position[Align])
      => Asserted(loaded[c][i])

IInv ==
  TypeOK /\ LoadedIs /\ NotStarted /\ EntriesBehind /\ TableIsTrace /\ AlignPassed

(* What the assumption says of the files.                                  *)
LEMMA FileIs ==
  ASSUME directory \in Directories
  PROVE  /\ directory.format \in {"new", "old"}
         /\ \A c \in DOMAIN directory.files :
              /\ directory.files[c].accesses \in Seq(Access)
              /\ directory.files[c].got \in -1 .. Len(directory.files[c].accesses)
BY LoaderAssumption

-----------------------------------------------------------------------------
(* Loading                                                                 *)

(* What stands behind the first part of a concatenation.                   *)
LEMMA BehindPart ==
  ASSUME NEW S, NEW s \in Seq(S), NEW u \in Seq(S), NEW i \in Len(s) + 1 .. Len(s) + Len(u)
  PROVE  (s \o u)[i] = u[i - Len(s)]
OBVIOUS

(* What load_from_compact_file leaves in memory.                           *)
LEMMA ChunkIs ==
  ASSUME directory \in Directories, NEW c \in DOMAIN directory.files,
         directory.files[c].got >= 0, NEW chunk \in ChunksFrom(directory.files[c])
  PROVE  LET file == directory.files[c]
         IN  /\ chunk \in Seq(Raw) /\ Len(chunk) = Len(file.accesses)
             /\ \A i \in 1 .. file.got : chunk[i] = Record(directory.format, file.accesses[i])
             /\ \A i \in file.got + 1 .. Len(file.accesses) : chunk[i] \in Garbage
<1>1. PICK accesses, got, format :
        /\ accesses = directory.files[c].accesses /\ got = directory.files[c].got
        /\ format = directory.format
  OBVIOUS
<1> DEFINE read == [i \in 1 .. got |-> Record(format, accesses[i])]
           L == Len(accesses)
<1>2. PICK rest \in [1 .. L - got -> Garbage] : chunk = read \o rest
  BY <1>1 DEF ChunksFrom
<1>3. got \in 0 .. L /\ L \in Nat /\ accesses \in Seq(Access) /\ format \in {"new", "old"}
  BY <1>1, FileIs
<1> HIDE DEF L
<1>4. \A i \in 1 .. got : accesses[i] \in Access
  BY <1>3 DEF L
<1>5. \A a \in Access : Record(format, a) \in Raw
  BY <1>1, <1>3, RecordType
<1>6. read \in [1 .. got -> Raw]
  BY <1>4, <1>5
<1>7. Garbage \subseteq Raw /\ L - got \in Nat /\ got \in Nat
  BY <1>3, LoaderAssumption
<1>8. rest \in [1 .. L - got -> Raw]
  BY <1>7
<1>9. /\ read \in Seq(Raw) /\ Len(read) = got
      /\ rest \in Seq(Raw) /\ Len(rest) = L - got
  BY <1>6, <1>7, <1>8, FunctionIsSeq
<1>10. \A i \in 1 .. got : read[i] = Record(format, accesses[i])
  OBVIOUS
<1> HIDE DEF read
<1>11. /\ chunk \in Seq(Raw) /\ Len(chunk) = L
       /\ \A i \in 1 .. got : chunk[i] = read[i]
       /\ \A i \in got + 1 .. L : chunk[i] = rest[i - got] /\ i - got \in 1 .. L - got
  <2>1. PICK M \in Nat : M = L - got
    BY <1>7
  <2>2. chunk \in Seq(Raw) /\ Len(chunk) = got + M
    BY <1>2, <1>9, <2>1
  <2>3. \A i \in 1 .. got : chunk[i] = read[i]
    BY <1>2, <1>7, <1>9, <2>1
  <2>4. \A i \in got + 1 .. got + M : i - got \in 1 .. M
    BY <1>7, <2>1
  <2>5. ASSUME NEW i \in got + 1 .. got + M PROVE chunk[i] = rest[i - got]
    <3>1. i \in Len(read) + 1 .. Len(read) + Len(rest) /\ i - Len(read) = i - got
      BY <1>7, <1>9, <2>1
    <3>2. (read \o rest)[i] = rest[i - Len(read)]
      BY <1>9, <3>1, BehindPart
    <3> QED
      BY <1>2, <3>1, <3>2
  <2>6. L = got + M
    BY <1>3, <2>1
  <2> QED
    BY <2>1, <2>2, <2>3, <2>4, <2>5, <2>6
<1>12. \A i \in got + 1 .. L : chunk[i] \in Garbage
  BY <1>11
<1> QED
  BY <1>1, <1>10, <1>11, <1>12 DEF L

(* count_operations adds up numbers.                                       *)
LEMMA OperationsAre ==
  ASSUME NEW chunk \in Seq(Raw)
  PROVE  SumOver(chunk, CountOperations) \in Nat
<1> DEFINE ops == [i \in DOMAIN chunk |-> CountOperations(chunk[i])]
<1>1. \A r : CountOperations(r) \in Nat
  BY DEF CountOperations
<1>2. Len(chunk) \in Nat /\ DOMAIN chunk = 1 .. Len(chunk)
  BY SeqIsFunction
<1>3. ops \in [1 .. Len(chunk) -> Nat]
  BY <1>1, <1>2
<1> HIDE DEF ops
<1>4. ops \in Seq(Nat) /\ Len(ops) \in Nat /\ Len(ops) \in 0 .. Len(ops)
  BY <1>2, <1>3, FunctionIsSeq
<1>5. Total(ops) \in Nat
  BY <1>4, RunningTotalDef DEF Total
<1> QED
  BY <1>5 DEF SumOver, ops

(* A chunk more.                                                           *)
LEMMA LoadChunkLoads ==
  ASSUME LoaderTypeOK, LoadedIs, LoadChunk
  PROVE  /\ LoaderTypeOK' /\ LoadedIs'
         /\ Len(loaded') = Len(loaded) + 1 /\ directory' = directory /\ loading
         /\ loaded # <<>> => convert' = convert
<1>0. PICK files, format, n :
        files = directory.files /\ format = directory.format /\ n = Len(loaded) + 1
  OBVIOUS
<1> DEFINE file == files[n]
<1>1. /\ n \in DOMAIN files /\ file.got >= 0 /\ Len(loaded) < MaxChunks
      /\ directory' = directory /\ loading' = loading /\ loading
  BY <1>0 DEF LoadChunk, Loadable, NextFile
<1>2. PICK chunk \in ChunksFrom(file) : \E first \in FirstOf(chunk) :
        /\ convert' = (convert \/ (loaded = <<>> /\ LooksOld(first.flags)))
        /\ loaded' = Append(loaded,
             IF convert' THEN [i \in DOMAIN chunk |-> Reformed(chunk[i])] ELSE chunk)
        /\ tot_ops' = tot_ops + SumOver(chunk, CountOperations)
  BY <1>0 DEF LoadChunk, NextFile, Reformed
<1>3. /\ chunk \in Seq(Raw) /\ Len(chunk) = Len(file.accesses)
      /\ \A i \in 1 .. file.got : chunk[i] = Record(format, file.accesses[i])
      /\ \A i \in file.got + 1 .. Len(file.accesses) : chunk[i] \in Garbage
  BY <1>0, <1>1, <1>2, ChunkIs DEF LoaderTypeOK
<1>4. PICK kept : kept = IF convert' THEN [i \in DOMAIN chunk |-> Reformed(chunk[i])] ELSE chunk
  OBVIOUS
<1>5. DOMAIN chunk = 1 .. Len(chunk) /\ Len(chunk) \in Nat
  BY <1>3, SeqIsFunction
<1>6. kept \in Seq(Raw) /\ Len(kept) = Len(chunk) /\ \A i \in 1 .. Len(chunk) : kept[i] = Kept(chunk[i])'
  <2>1. CASE convert'
    <3>1. kept = [i \in DOMAIN chunk |-> Reformed(chunk[i])]
      BY <1>4, <2>1
    <3>2. \A i \in 1 .. Len(chunk) : Reformed(chunk[i]) \in Raw
      BY <1>3, ConvertedType DEF Reformed
    <3>3. kept \in [1 .. Len(chunk) -> Raw]
      BY <1>5, <3>1, <3>2
    <3>4. \A i \in 1 .. Len(chunk) : kept[i] = Kept(chunk[i])'
      BY <1>5, <2>1, <3>1 DEF Kept, Reformed
    <3> QED
      BY <1>5, <3>3, <3>4, FunctionIsSeq
  <2>2. CASE ~convert'
    <3>1. kept = chunk
      BY <1>4, <2>2
    <3> QED
      BY <1>3, <2>2, <3>1 DEF Kept
  <2> QED
    BY <2>1, <2>2
<1>7. /\ loaded' = Append(loaded, kept) /\ loaded \in Seq(Seq(Raw)) /\ Len(loaded) \in Nat
      /\ MaxChunks \in Nat
  BY <1>2, <1>4, LoaderAssumption DEF LoaderTypeOK
<1>8. /\ loaded' \in Seq(Seq(Raw)) /\ Len(loaded') = n /\ n \in Nat
      /\ loaded'[n] = kept /\ DOMAIN loaded' = 1 .. n
      /\ DOMAIN loaded = 1 .. Len(loaded)
      /\ \A c \in 1 .. Len(loaded) : loaded'[c] = loaded[c]
  BY <1>0, <1>6, <1>7
<1>9. loaded # <<>> => convert' = convert
  BY <1>2 DEF LoaderTypeOK
<1>10. LoaderTypeOK'
  <2>1. convert' \in BOOLEAN
    BY <1>2
  <2>2. tot_ops' \in Nat
    BY <1>2, <1>3, OperationsAre DEF LoaderTypeOK
  <2>3. n <= MaxChunks
    BY <1>0, <1>1, <1>7
  <2> QED
    BY <1>1, <1>8, <2>1, <2>2, <2>3 DEF LoaderTypeOK
<1>11. LoadedIs'
  <2> SUFFICES ASSUME NEW c \in 1 .. n
               PROVE  /\ c \in DOMAIN files
                      /\ files[c].got \in 0 .. Len(files[c].accesses)
                      /\ Len(loaded'[c]) = Len(files[c].accesses)
                      /\ \A i \in 1 .. files[c].got :
                           loaded'[c][i] = Taken(files[c].accesses[i])'
                      /\ \A i \in files[c].got + 1 .. Len(files[c].accesses) :
                           \E r \in Garbage : loaded'[c][i] = Kept(r)'
    <3>1. directory'.files = files /\ DOMAIN loaded' = 1 .. n
      BY <1>0, <1>1, <1>8
    <3> QED
      BY <1>0, <1>1, <3>1 DEF LoadedIs
  <2>1. CASE c # n
    <3>1. c \in 1 .. Len(loaded) /\ c \in DOMAIN loaded
      BY <1>0, <1>7, <1>8, <2>1
    <3>2. loaded # <<>>
      BY <3>1
    <3>3. \A r : Kept(r)' = Kept(r)
      BY <1>9, <3>2 DEF Kept
    <3>4. \A a : Taken(a)' = Taken(a)
      BY <1>1, <3>3 DEF Taken
    <3>5. loaded'[c] = loaded[c]
      BY <1>8, <3>1
    <3> QED
      BY <1>0, <3>1, <3>3, <3>4, <3>5 DEF LoadedIs
  <2>2. CASE c = n
    <3>1. file.got \in 0 .. Len(file.accesses) /\ Len(file.accesses) \in Nat
      BY <1>0, <1>1, <1>3, <1>5, FileIs DEF LoaderTypeOK
    <3>2. \A i \in 1 .. file.got : i \in 1 .. Len(chunk)
      BY <1>3, <3>1
    <3>3. \A i \in file.got + 1 .. Len(file.accesses) : i \in 1 .. Len(chunk)
      BY <1>3, <3>1
    <3>4. \A i \in 1 .. file.got : kept[i] = Taken(file.accesses[i])'
      <4>1. \A a : Taken(a)' = Kept(Record(format, a))'
        BY <1>0, <1>1 DEF Taken
      <4> QED
        BY <1>3, <1>6, <3>2, <4>1
    <3>5. \A i \in file.got + 1 .. Len(file.accesses) : \E r \in Garbage : kept[i] = Kept(r)'
      BY <1>3, <1>6, <3>3
    <3> QED
      BY <1>1, <1>3, <1>6, <1>8, <2>2, <3>1, <3>4, <3>5
  <2> QED
    BY <2>1, <2>2
<1> QED
  BY <1>0, <1>1, <1>8, <1>9, <1>10, <1>11

(* Nothing is counted while the trace is loaded.                           *)
LEMMA NothingCounted ==
  ASSUME current = [t \in Actors |-> 1], position = [t \in Actors |-> 0],
         table = [t \in Counters |-> <<>>]
  PROVE  /\ \A t \in Counters, o \in Offsets : EntriesAt(t, o) = <<>>
         /\ \A t \in Actors, c \in Nat \ {0} : SeenOf(t, c) = 0
<1>1. ASSUME NEW t \in Counters, NEW o \in Offsets PROVE EntriesAt(t, o) = <<>>
  <2>1. table[t] = <<>>
    OBVIOUS
  <2>2. o \notin DOMAIN <<>>
    <3>1. DOMAIN <<>> = 1 .. 0
      OBVIOUS
    <3>2. 1 .. 0 = {}
      OBVIOUS
    <3> QED
      BY <3>1, <3>2
  <2> QED
    BY <2>1, <2>2 DEF EntriesAt
<1>2. ASSUME NEW t \in Actors, NEW c \in Nat \ {0} PROVE SeenOf(t, c) = 0
  BY DEF SeenOf
<1> QED
  BY <1>1, <1>2

(* The rows of a word along the accesses of a chunk.                       *)
RowsAlong(c, word) ==
  LET accesses == directory.files[c].accesses
  IN  RunningTotal([i \in DOMAIN accesses |-> RowsOf(accesses[i], word)])

LEMMA RowsAlongIs ==
  ASSUME directory \in Directories, NEW c \in DOMAIN directory.files, NEW word
  PROVE  /\ Len(directory.files[c].accesses) \in Nat
         /\ RowsAlong(c, word)[0] = 0
         /\ \A n \in 0 .. Len(directory.files[c].accesses) : RowsAlong(c, word)[n] \in Nat
         /\ \A n \in 1 .. Len(directory.files[c].accesses) :
              RowsAlong(c, word)[n]
                = RowsAlong(c, word)[n - 1] + RowsOf(directory.files[c].accesses[n], word)
<1>1. PICK accesses : accesses = directory.files[c].accesses
  OBVIOUS
<1> DEFINE rows == [i \in DOMAIN accesses |-> RowsOf(accesses[i], word)]
<1>2. accesses \in Seq(Access)
  BY <1>1, FileIs
<1>3. Len(accesses) \in Nat /\ DOMAIN accesses = 1 .. Len(accesses)
  BY <1>2, SeqIsFunction
<1>4. \A a : RowsOf(a, word) \in Nat
  BY DEF RowsOf
<1>5. rows \in [1 .. Len(accesses) -> Nat]
  BY <1>3, <1>4
<1>6. \A n \in 1 .. Len(accesses) : rows[n] = RowsOf(accesses[n], word)
  BY <1>3
<1>7. RowsAlong(c, word) = RunningTotal(rows)
  BY <1>1 DEF RowsAlong
<1> HIDE DEF rows
<1>8. rows \in Seq(Nat) /\ Len(rows) = Len(accesses)
  BY <1>3, <1>5, FunctionIsSeq
<1>9. /\ RunningTotal(rows) \in [0 .. Len(accesses) -> Nat]
      /\ RunningTotal(rows)[0] = 0
      /\ \A n \in 1 .. Len(accesses) :
           RunningTotal(rows)[n] = RunningTotal(rows)[n - 1] + rows[n]
  BY <1>8, RunningTotalDef
<1> QED
  BY <1>1, <1>3, <1>6, <1>7, <1>9

LEMMA RowsSeenIs ==
  ASSUME NEW t, NEW c, NEW word
  PROVE  RowsSeen(t, c, word) = RowsAlong(c, word)[SeenOf(t, c)]
BY DEF RowsSeen, RowsAlong

(* A counter is in the files: what it has gone through of them.            *)
LEMMA SeenIs ==
  ASSUME TypeOK, LoadedIs, NEW t \in Actors, NEW c \in DOMAIN loaded
  PROVE  /\ c \in Nat \ {0} /\ c \in DOMAIN directory.files /\ directory \in Directories
         /\ Len(loaded[c]) = Len(directory.files[c].accesses)
         /\ SeenOf(t, c) \in 0 .. Len(directory.files[c].accesses)
<1>1. /\ c \in DOMAIN directory.files /\ directory \in Directories
      /\ Len(loaded[c]) = Len(directory.files[c].accesses)
  BY DEF TypeOK, LoaderTypeOK, LoadedIs
<1>2. c \in Nat \ {0}
  BY DEF TypeOK, LoaderTypeOK
<1>3. Len(directory.files[c].accesses) \in Nat
  BY <1>1, FileIs
<1>4. /\ current[t] \in Nat /\ position[t] \in Nat
      /\ position[t] # 0 => position[t] <= Len(loaded[current[t]])
  BY DEF TypeOK
<1>5. SeenOf(t, c) \in 0 .. Len(directory.files[c].accesses)
  <2>1. CASE c < current[t]
    BY <1>3, <2>1 DEF SeenOf
  <2>2. CASE c = current[t]
    <3>1. SeenOf(t, c) = position[t]
      BY <1>2, <1>4, <2>2 DEF SeenOf
    <3> QED
      BY <1>1, <1>3, <1>4, <2>2, <3>1
  <2>3. CASE ~(c < current[t]) /\ c # current[t]
    BY <1>3, <2>3 DEF SeenOf
  <2> QED
    BY <2>1, <2>2, <2>3
<1> QED
  BY <1>1, <1>2, <1>5

(* The access a thread is at.                                              *)
LEMMA AccessIs ==
  ASSUME TypeOK, LoadedIs, NEW t \in Actors, InChunk(t)
  PROVE  LET c == current[t]
             i == position[t] + 1
         IN  /\ c \in DOMAIN loaded /\ c \in Nat \ {0} /\ position[t] \in Nat
             /\ i \in 1 .. Len(loaded[c]) /\ Len(loaded[c]) \in Nat
             /\ AccessOf(t) = loaded[c][i] /\ AccessOf(t) \in Raw
<1>1. /\ loaded \in Seq(Seq(Raw)) /\ position[t] \in Nat
      /\ current[t] \in DOMAIN loaded /\ position[t] < Len(loaded[current[t]])
  BY DEF TypeOK, LoaderTypeOK, InChunk
<1>2. PICK s \in Seq(Raw), n \in Nat : s = loaded[current[t]] /\ n = position[t]
  BY <1>1
<1>3. n + 1 \in 1 .. Len(s) /\ s[n + 1] \in Raw /\ Len(s) \in Nat
  BY <1>1, <1>2
<1>4. current[t] \in Nat \ {0}
  BY <1>1
<1> QED
  BY <1>1, <1>2, <1>3, <1>4 DEF AccessOf

(* In an intact chunk it is the one that was recorded.                     *)
LEMMA IntactIs ==
  ASSUME TypeOK, LoadedIs, NEW c \in IntactChunks, NEW i \in 1 .. Len(loaded[c])
  PROVE  /\ c \in DOMAIN loaded /\ directory.files[c].accesses[i] \in Access
         /\ loaded[c][i] = Taken(directory.files[c].accesses[i])
<1>1. /\ c \in DOMAIN loaded /\ c \in DOMAIN directory.files
      /\ directory.files[c].got = Len(directory.files[c].accesses)
      /\ Len(loaded[c]) = Len(directory.files[c].accesses)
      /\ \A j \in 1 .. directory.files[c].got : loaded[c][j] = Taken(directory.files[c].accesses[j])
  BY DEF IntactChunks, LoadedIs
<1>2. directory.files[c].accesses \in Seq(Access)
  BY <1>1, FileIs DEF TypeOK, LoaderTypeOK
<1>3. i \in 1 .. Len(directory.files[c].accesses)
  BY <1>1
<1> QED
  BY <1>1, <1>2, <1>3

-----------------------------------------------------------------------------
(* A thread goes on by one access                                          *)

(* The rows a counter adds for an access are those its words need.         *)
LEMMA RowsOfAccess ==
  ASSUME TypeOK, LoadedIs, Understood, NEW t \in Counters, InChunk(t), current[t] \in IntactChunks,
         NEW word \in Nat, word % 8 = 0, Mine(t, word)
  PROVE  LET a == directory.files[current[t]].accesses[position[t] + 1]
             r == AccessOf(t)
         IN  /\ WordsOf(t, r) = {word} => RowsOf(a, word) = RowsPerWord(r)
             /\ WordsOf(t, r) # {word} => RowsOf(a, word) = 0
<1> DEFINE a == directory.files[current[t]].accesses[position[t] + 1]
           r == AccessOf(t)
<1>1. t \in Actors
  BY DEF Actors
<1>2. a \in Access /\ r = Taken(a)
  <2>1. position[t] + 1 \in 1 .. Len(loaded[current[t]])
        /\ r = loaded[current[t]][position[t] + 1]
    BY <1>1, AccessIs
  <2> QED
    BY <2>1, IntactIs
<1>3. directory.format \in {"new", "old"} /\ convert \in BOOLEAN
  BY FileIs DEF TypeOK, LoaderTypeOK
<1> HIDE DEF a, r
<1>4. r = [addr |-> a.addr, flags |-> [high |-> Bit(a.write), low |-> a.bytes]]
  BY <1>2, <1>3, TakenIs
<1>5. /\ Touches(a, word) <=> WordsOf(t, r) = {word}
      /\ Touches(a, word) => RowsOf(a, word) = RowsPerWord(r)
  BY <1>2, <1>4, WordsTouched
<1>6. ~Touches(a, word) => RowsOf(a, word) = 0
  BY DEF RowsOf
<1> QED
  BY <1>5, <1>6 DEF a, r

(* The positions remain typed, and the thread has seen an access more.     *)
LEMMA StepTypes ==
  ASSUME TypeOK, LoadedIs, NEW t \in Actors, InChunk(t), Step(t),
         current' = current, loaded' = loaded, directory' = directory
  PROVE  /\ position' \in [Actors -> Nat]
         /\ \A s \in Actors :
              position'[s] # 0 =>
                current'[s] \in DOMAIN loaded' /\ position'[s] <= Len(loaded'[current'[s]])
         /\ \A s \in Actors, c \in Nat :
              SeenOf(s, c)' = IF s = t /\ c = current[t] THEN SeenOf(s, c) + 1 ELSE SeenOf(s, c)
<1>1. /\ current[t] \in DOMAIN loaded /\ position[t] \in Nat
      /\ position[t] + 1 \in 1 .. Len(loaded[current[t]]) /\ Len(loaded[current[t]]) \in Nat
  BY AccessIs
<1>2. position \in [Actors -> Nat] /\ position' = [position EXCEPT ![t] = @ + 1]
  BY DEF TypeOK, Step
<1>3. /\ position' \in [Actors -> Nat]
      /\ \A s \in Actors : position'[s] = IF s = t THEN position[s] + 1 ELSE position[s]
  BY <1>2
<1>4. ASSUME NEW s \in Actors, position'[s] # 0
      PROVE  current'[s] \in DOMAIN loaded' /\ position'[s] <= Len(loaded'[current'[s]])
  <2>1. CASE s = t
    BY <1>1, <1>3, <2>1
  <2>2. CASE s # t
    BY <1>3, <1>4, <2>2 DEF TypeOK
  <2> QED
    BY <2>1, <2>2
<1>5. ASSUME NEW s \in Actors, NEW c \in Nat
      PROVE  SeenOf(s, c)' = IF s = t /\ c = current[t] THEN SeenOf(s, c) + 1 ELSE SeenOf(s, c)
  <2>1. SeenOf(s, c) = IF c < current[s] THEN Len(directory.files[c].accesses)
                       ELSE IF c = current[s] THEN position[s] ELSE 0
    BY DEF SeenOf
  <2>2. SeenOf(s, c)' = IF c < current[s] THEN Len(directory.files[c].accesses)
                        ELSE IF c = current[s] THEN position'[s] ELSE 0
    BY DEF SeenOf
  <2>3. current[s] \in Nat /\ current[t] \in Nat
    BY DEF TypeOK
  <2>4. CASE s = t /\ c = current[t]
    BY <1>3, <2>1, <2>2, <2>3, <2>4
  <2>5. CASE ~(s = t /\ c = current[t])
    BY <1>3, <2>1, <2>2, <2>5
  <2> QED
    BY <2>4, <2>5
<1> QED
  BY <1>3, <1>4, <1>5

(* And a counter the rows that access needs.                               *)
LEMMA StepRows ==
  ASSUME TypeOK, LoadedIs, NEW t \in Counters, InChunk(t), Step(t),
         current' = current, loaded' = loaded, directory' = directory,
         NEW s \in Counters, NEW c \in DOMAIN loaded, NEW word
  PROVE  /\ RowsSeen(s, c, word) \in Nat
         /\ RowsSeen(s, c, word)'
              = IF s = t /\ c = current[t]
                  THEN RowsSeen(s, c, word)
                         + RowsOf(directory.files[c].accesses[position[t] + 1], word)
                  ELSE RowsSeen(s, c, word)
<1>1. s \in Actors /\ t \in Actors
  BY DEF Actors
<1>2. /\ c \in Nat /\ c \in DOMAIN directory.files /\ directory \in Directories
      /\ Len(loaded[c]) = Len(directory.files[c].accesses)
      /\ SeenOf(s, c) \in 0 .. Len(directory.files[c].accesses)
  BY <1>1, SeenIs
<1>3. PICK along, accesses, n :
        /\ along = RowsAlong(c, word) /\ accesses = directory.files[c].accesses
        /\ n = SeenOf(s, c)
  OBVIOUS
<1>4. /\ \A m \in 0 .. Len(accesses) : along[m] \in Nat
      /\ \A m \in 1 .. Len(accesses) : along[m] = along[m - 1] + RowsOf(accesses[m], word)
      /\ Len(accesses) \in Nat
  BY <1>2, <1>3, RowsAlongIs
<1>5. RowsAlong(c, word)' = along
  BY <1>3 DEF RowsAlong
<1>6. RowsSeen(s, c, word) = along[n] /\ along[n] \in Nat
  BY <1>2, <1>3, <1>4, RowsSeenIs
<1>7. RowsSeen(s, c, word)' = along[SeenOf(s, c)']
  BY <1>5 DEF RowsSeen, RowsAlong
<1>8. SeenOf(s, c)' = IF s = t /\ c = current[t] THEN n + 1 ELSE n
  BY <1>1, <1>2, <1>3, StepTypes
<1>9. CASE s = t /\ c = current[t]
  <2>1. n = position[t]
    BY <1>2, <1>3, <1>9 DEF SeenOf, TypeOK
  <2>2. n + 1 \in 1 .. Len(accesses) /\ n \in Nat
    BY <1>1, <1>2, <1>3, <1>9, <2>1, AccessIs
  <2>3. along[n + 1] = along[n] + RowsOf(accesses[n + 1], word)
    <3>1. (n + 1) - 1 = n
      BY <2>2
    <3> QED
      BY <1>4, <2>2, <3>1
  <2> QED
    BY <1>3, <1>6, <1>7, <1>8, <1>9, <2>1, <2>3
<1>10. CASE ~(s = t /\ c = current[t])
  BY <1>6, <1>7, <1>8, <1>10
<1> QED
  BY <1>9, <1>10

(* The parts of IInv that go by what Align has gone through.               *)
LEMMA OthersPassed ==
  ASSUME AlignPassed, NEW t \in Actors, t # Align, TypeOK,
         current' = [current EXCEPT ![t] = current'[t]],
         position' = [position EXCEPT ![t] = position'[t]], loaded' = loaded
  PROVE  AlignPassed'
<1>1. Align \in Actors
  BY DEF Actors
<1>2. current'[Align] = current[Align] /\ position'[Align] = position[Align]
  BY <1>1 DEF TypeOK
<1>3. \A r : Asserted(r)' = Asserted(r)
  BY DEF Asserted
<1> QED
  BY <1>2, <1>3 DEF AlignPassed

(* The entries of the words have their types, and are of no later chunk.   *)
LEMMA EntriesTyped ==
  ASSUME TypeOK, NEW t \in Counters, NEW o \in Offsets
  PROVE  EntriesAt(t, o) \in Seq(Tallies)
<1>1. CASE o \in DOMAIN table[t]
  BY <1>1 DEF TypeOK, EntriesAt
<1>2. CASE o \notin DOMAIN table[t]
  BY <1>2 DEF EntriesAt
<1> QED
  BY <1>1, <1>2

(* What count_aligned does to the entries of a counter: it counts the one  *)
(* word of the access that is the counter's, at that word's offset.        *)
Counts(t, word, o, e) ==
  /\ o \in Offsets /\ o = AddrToOffset(word) /\ OffsetToAddr(o, t) = word
  /\ word \in Nat /\ word % 8 = 0 /\ Mine(t, word) /\ WordsOf(t, AccessOf(t)) = {word}
  /\ e = Counted(EntriesAt(t, o), current[t] - 1, RowsPerWord(AccessOf(t)))
  /\ \A s \in Counters, q \in Offsets :
       EntriesAt(s, q)' = IF s = t /\ q = o THEN e ELSE EntriesAt(s, q)

LEMMA CountAccessIs ==
  ASSUME IInv, NEW t \in Counters, CountAccess(t)
  PROVE  /\ \E word, o, e : Counts(t, word, o, e)
         /\ DOMAIN table' = Counters
         /\ \A s \in Counters :
              /\ DOMAIN table'[s] \subseteq Offsets
              /\ \A o \in DOMAIN table'[s] : table'[s][o] \in Seq(Tallies)
         /\ EntriesBehind'
         /\ RowsPerWord(AccessOf(t)) \in Nat \ {0}
<1>1. InChunk(t) /\ t \in Actors /\ current' = current
  BY DEF CountAccess, Actors
<1>2. PICK word \in WordsOf(t, AccessOf(t)) :
        LET o == AddrToOffset(word)
            e == Counted(EntriesAt(t, o), current[t] - 1, RowsPerWord(AccessOf(t)))
        IN  /\ Mapped(word)
            /\ table' = [table EXCEPT ![t] =
                           [x \in DOMAIN table[t] \cup {o} |->
                              IF x = o THEN e ELSE table[t][x]]]
  BY DEF CountAccess
<1>3. AccessOf(t) \in Raw /\ current[t] \in Nat \ {0}
  BY <1>1, AccessIs DEF IInv
<1>4. word \in Nat /\ word % 8 = 0 /\ Mine(t, word) /\ WordsOf(t, AccessOf(t)) = {word}
  BY <1>3, WordsAre
<1>5. PICK o, k, n, h, e :
        /\ o = AddrToOffset(word) /\ k = current[t] - 1 /\ n = RowsPerWord(AccessOf(t))
        /\ h = EntriesAt(t, o) /\ e = Counted(h, k, n)
  OBVIOUS
<1>6. o \in Offsets /\ OffsetToAddr(o, t) = word
  BY <1>2, <1>4, <1>5, AddrOfItsOffset
<1>7. n \in Nat \ {0}
  <2>1. AccessOf(t).flags.high \in Half
    BY <1>3, RawIs
  <2>2. AccessOf(t).flags.high \in Nat
    BY <2>1, SMT DEF Half
  <2> QED
    BY <1>5, <2>2 DEF RowsPerWord
<1>8. k \in 0 .. MaxChunks - 1 /\ k \in Nat
  BY <1>1, <1>5, LoaderAssumption DEF IInv, TypeOK
<1>9. h \in Seq(Tallies) /\ InOrder(h) /\ \A i \in DOMAIN h : h[i].chunk <= k
  BY <1>5, <1>6, EntriesTyped DEF IInv, EntriesBehind
<1>10. e \in Seq(Tallies) /\ InOrder(e) /\ \A i \in DOMAIN e : e[i].chunk <= k
  BY <1>5, <1>7, <1>8, <1>9, CountedIs
<1>11. PICK f : f = [x \in DOMAIN table[t] \cup {o} |-> IF x = o THEN e ELSE table[t][x]]
  OBVIOUS
<1>12. table' = [table EXCEPT ![t] = f]
  BY <1>2, <1>5, <1>11
<1>13. /\ DOMAIN table' = Counters /\ table'[t] = f
       /\ \A s \in Counters : s # t => table'[s] = table[s]
  BY <1>12 DEF IInv, TypeOK
<1>14. DOMAIN f = DOMAIN table[t] \cup {o} /\ f[o] = e /\ \A x \in DOMAIN table[t] : x # o => f[x] = table[t][x]
  BY <1>11
<1>15. ASSUME NEW s \in Counters, NEW q \in Offsets
       PROVE  EntriesAt(s, q)' = IF s = t /\ q = o THEN e ELSE EntriesAt(s, q)
  <2>1. CASE s # t
    BY <1>13, <2>1 DEF EntriesAt
  <2>2. CASE s = t /\ q = o
    BY <1>13, <1>14, <2>2 DEF EntriesAt
  <2>3. CASE s = t /\ q # o
    BY <1>13, <1>14, <2>3 DEF EntriesAt
  <2> QED
    BY <2>1, <2>2, <2>3
<1>16. Counts(t, word, o, e)
  BY <1>4, <1>5, <1>6, <1>15 DEF Counts
<1>17. ASSUME NEW s \in Counters
       PROVE  /\ DOMAIN table'[s] \subseteq Offsets
              /\ \A q \in DOMAIN table'[s] : table'[s][q] \in Seq(Tallies)
  <2>1. /\ DOMAIN table[s] \subseteq Offsets
        /\ \A q \in DOMAIN table[s] : table[s][q] \in Seq(Tallies)
    BY DEF IInv, TypeOK
  <2>2. CASE s # t
    BY <1>13, <2>1, <2>2
  <2>3. CASE s = t
    BY <1>6, <1>10, <1>13, <1>14, <2>1, <2>3
  <2> QED
    BY <2>2, <2>3
<1>18. EntriesBehind'
  <2> SUFFICES ASSUME NEW s \in Counters, NEW q \in Offsets
               PROVE  /\ InOrder(EntriesAt(s, q))'
                      /\ \A i \in DOMAIN EntriesAt(s, q)' :
                           EntriesAt(s, q)'[i].chunk <= current[s] - 1
    BY <1>1 DEF EntriesBehind
  <2>1. CASE s = t /\ q = o
    BY <1>5, <1>10, <1>15, <2>1 DEF InOrder
  <2>2. CASE ~(s = t /\ q = o)
    BY <1>15, <2>2 DEF InOrder, IInv, EntriesBehind
  <2> QED
    BY <2>1, <2>2
<1> QED
  BY <1>5, <1>7, <1>13, <1>16, <1>17, <1>18

-----------------------------------------------------------------------------
(* The steps                                                               *)

(* Nothing loaded, nothing counted.                                        *)
LEMMA InitIInv == Init => IInv
<1> SUFFICES ASSUME Init PROVE IInv
  OBVIOUS
<1>1. /\ directory \in Directories /\ loaded = <<>> /\ convert = FALSE /\ tot_ops = 0 /\ loading = TRUE
      /\ current = [t \in Actors |-> 1] /\ position = [t \in Actors |-> 0]
      /\ table = [t \in Counters |-> <<>>] /\ align = [ops |-> 0, rows |-> 0]
      /\ terminated = FALSE
  BY DEF Init, LoaderInit
<1>2. <<>> \in Seq(Seq(Raw)) /\ Len(<<>>) = 0 /\ DOMAIN <<>> = {} /\ MaxChunks \in Nat \ {0}
  <2>1. <<>> \in Seq(Seq(Raw)) /\ Len(<<>>) = 0 /\ DOMAIN <<>> = 1 .. 0
    OBVIOUS
  <2>2. 1 .. 0 = {}
    OBVIOUS
  <2> QED
    BY <2>1, <2>2, LoaderAssumption
<1>3. LoaderTypeOK
  <2>1. loaded \in Seq(Seq(Raw))
    BY <1>1, <1>2
  <2>2. Len(loaded) = 0 /\ 0 <= MaxChunks
    BY <1>1, <1>2
  <2>3. Len(loaded) <= MaxChunks
    BY <2>2
  <2>4. convert \in BOOLEAN /\ loading \in BOOLEAN /\ tot_ops \in Nat
    BY <1>1
  <2> QED
    BY <1>1, <2>1, <2>3, <2>4 DEF LoaderTypeOK
<1>4. TypeOK
  <2>1. current \in [Actors -> 1 .. MaxChunks] /\ position \in [Actors -> Nat]
    BY <1>1, <1>2
  <2>2. \A t \in Actors : position[t] = 0
    BY <1>1
  <2>3. DOMAIN table = Counters /\ \A t \in Counters : DOMAIN table[t] = {}
    BY <1>1, <1>2
  <2> QED
    BY <1>1, <1>3, <2>1, <2>2, <2>3 DEF TypeOK
<1>5. LoadedIs /\ AlignPassed
  BY <1>1, <1>2 DEF LoadedIs, AlignPassed
<1>6. NotStarted
  BY <1>1 DEF NotStarted
<1>7. \A t \in Counters, o \in Offsets : EntriesAt(t, o) = <<>>
  BY <1>1, NothingCounted
<1>8. EntriesBehind
  BY <1>2, <1>7 DEF EntriesBehind, InOrder
<1>9. IntactChunks = {}
  BY <1>1, <1>2 DEF IntactChunks
<1>10. TableIsTrace
  BY <1>2, <1>7, <1>9 DEF TableIsTrace, InOrder
<1> QED
  BY <1>4, <1>5, <1>6, <1>8, <1>10 DEF IInv

(* Another chunk is loaded: what is known of the earlier ones remains, and *)
(* no counter has begun.                                                   *)
LEMMA LoadChunkIInv ==
  ASSUME IInv, LoadChunk, UNCHANGED <<current, position, table, align, terminated>>
  PROVE  IInv'
<1>1. /\ LoaderTypeOK' /\ LoadedIs' /\ directory' = directory
      /\ Len(loaded') = Len(loaded) + 1 /\ loading
  BY LoadChunkLoads DEF IInv, TypeOK
<1>2. /\ current = [t \in Actors |-> 1] /\ position = [t \in Actors |-> 0]
      /\ table = [t \in Counters |-> <<>>]
  BY <1>1 DEF IInv, NotStarted
<1>3. TypeOK'
  <2>1. \A t \in Actors : position'[t] = 0
    BY <1>2
  <2> QED
    BY <1>1, <2>1 DEF IInv, TypeOK
<1>4. NotStarted'
  BY <1>2 DEF NotStarted
<1>5. \A t \in Counters, o \in Offsets : EntriesAt(t, o)' = <<>>
  <2>1. \A t, o : EntriesAt(t, o)' = EntriesAt(t, o)
    BY DEF EntriesAt
  <2> QED
    BY <1>2, <2>1, NothingCounted
<1>6. DOMAIN <<>> = {}
  <2>1. DOMAIN <<>> = 1 .. 0 /\ 1 .. 0 = {}
    OBVIOUS
  <2> QED
    BY <2>1
<1>7. EntriesBehind'
  BY <1>5, <1>6 DEF EntriesBehind, InOrder
<1>8. ASSUME NEW t \in Counters, NEW c \in IntactChunks', NEW word
      PROVE  RowsSeen(t, c, word)' = 0
  <2>1. c \in DOMAIN loaded' /\ loaded' \in Seq(Seq(Raw)) /\ t \in Actors
    BY <1>1 DEF IntactChunks, LoaderTypeOK, Actors
  <2>2. c \in Nat \ {0}
    BY <2>1
  <2>3. SeenOf(t, c)' = 0
    <3>1. SeenOf(t, c) = 0
      BY <1>2, <2>1, <2>2, NothingCounted
    <3>2. SeenOf(t, c)' = SeenOf(t, c)
      BY <1>1 DEF SeenOf
    <3> QED
      BY <3>1, <3>2
  <2>4. c \in DOMAIN directory.files /\ directory \in Directories
    BY <1>1, <2>1 DEF LoadedIs, LoaderTypeOK
  <2>5. RowsAlong(c, word)[0] = 0
    BY <2>4, RowsAlongIs
  <2>6. RowsSeen(t, c, word)' = RowsAlong(c, word)'[SeenOf(t, c)']
    BY DEF RowsSeen, RowsAlong
  <2>7. RowsAlong(c, word)' = RowsAlong(c, word)
    BY <1>1 DEF RowsAlong
  <2> QED
    BY <2>3, <2>5, <2>6, <2>7
<1>9. TableIsTrace'
  <2> SUFFICES ASSUME NEW t \in Counters, NEW o \in Offsets
               PROVE  /\ InOrder(EntriesAt(t, o))'
                      /\ \A c \in IntactChunks' :
                           Tallied(EntriesAt(t, o), c - 1, RowsSeen(t, c, OffsetToAddr(o, t)))'
    BY DEF TableIsTrace
  <2>1. InOrder(EntriesAt(t, o))'
    BY <1>5, <1>6 DEF InOrder
  <2>2. ASSUME NEW c \in IntactChunks'
        PROVE  Tallied(EntriesAt(t, o), c - 1, RowsSeen(t, c, OffsetToAddr(o, t)))'
    <3>1. RowsSeen(t, c, OffsetToAddr(o, t))' = 0
      BY <1>8
    <3>2. EntriesAt(t, o)' = <<>>
      BY <1>5
    <3> QED
      BY <1>6, <3>1, <3>2 DEF Tallied
  <2> QED
    BY <2>1, <2>2
<1>10. AlignPassed'
  <2>1. Align \in Actors
    BY DEF Actors
  <2>2. current'[Align] = 1 /\ position'[Align] = 0
    BY <1>2, <2>1
  <2>3. loaded' \in Seq(Seq(Raw))
    BY <1>1 DEF LoaderTypeOK
  <2>4. \A c \in DOMAIN loaded' : c \in Nat \ {0} /\ \A i \in DOMAIN loaded'[c] : i \in Nat \ {0}
    BY <2>3
  <2> QED
    BY <2>2, <2>4 DEF AlignPassed
<1> QED
  BY <1>1, <1>3, <1>4, <1>7, <1>9, <1>10 DEF IInv

(* What leaves the trace, the positions and the tables alone.              *)
LEMMA FrameIInv ==
  ASSUME IInv, UNCHANGED <<directory, loaded, convert, tot_ops, current, position, table>>,
         loading' = loading \/ loading' = FALSE,
         align' \in [ops : Nat, rows : Nat], terminated' \in BOOLEAN
  PROVE  IInv'
<1>1. TypeOK'
  BY DEF IInv, TypeOK, LoaderTypeOK
<1>2. LoadedIs'
  BY DEF IInv, LoadedIs, Taken, Kept
<1>3. NotStarted'
  BY DEF IInv, NotStarted
<1>4. \A t, o : EntriesAt(t, o)' = EntriesAt(t, o)
  BY DEF EntriesAt
<1>5. EntriesBehind'
  BY <1>4 DEF IInv, EntriesBehind, InOrder
<1>6. TableIsTrace'
  <2>1. \A t, c, word : RowsSeen(t, c, word)' = RowsSeen(t, c, word)
    BY DEF RowsSeen, SeenOf
  <2>2. IntactChunks' = IntactChunks /\ Understood' = Understood
    BY DEF IntactChunks, Understood
  <2> QED
    BY <1>4, <2>1, <2>2 DEF IInv, TableIsTrace, InOrder, Tallied
<1>7. AlignPassed'
  BY DEF IInv, AlignPassed, Asserted, Bytes
<1> QED
  BY <1>1, <1>2, <1>3, <1>5, <1>6, <1>7 DEF IInv

(* An access without a word of the counter.                                *)
LEMMA SkipAccessIInv ==
  ASSUME IInv, ~loading, NEW t \in Counters, SkipAccess(t)
  PROVE  IInv'
<1>1. /\ InChunk(t) /\ WordsOf(t, AccessOf(t)) = {} /\ Step(t) /\ t \in Actors
      /\ UNCHANGED <<loader_vars, current, table, align, terminated>>
  BY DEF SkipAccess, Actors
<1>2. UNCHANGED <<directory, loaded, convert, tot_ops, loading>>
  BY <1>1 DEF loader_vars
<1>3. TypeOK'
  <2>1. LoaderTypeOK'
    BY <1>2 DEF IInv, TypeOK, LoaderTypeOK
  <2> QED
    BY <1>1, <1>2, <2>1, StepTypes DEF IInv, TypeOK
<1>4. LoadedIs' /\ NotStarted'
  BY <1>1, <1>2 DEF IInv, LoadedIs, Taken, Kept, NotStarted
<1>5. \A s, o : EntriesAt(s, o)' = EntriesAt(s, o)
  BY <1>1 DEF EntriesAt
<1>6. EntriesBehind'
  BY <1>1, <1>5 DEF IInv, EntriesBehind, InOrder
<1>7. TableIsTrace'
  <2> SUFFICES ASSUME Understood', NEW s \in Counters, NEW o \in Offsets, NEW c \in IntactChunks'
               PROVE  Tallied(EntriesAt(s, o), c - 1, RowsSeen(s, c, OffsetToAddr(o, s)))'
    BY <1>6 DEF TableIsTrace, EntriesBehind
  <2>1. Understood /\ c \in IntactChunks /\ c \in DOMAIN loaded
    BY <1>2 DEF Understood, IntactChunks
  <2>2. PICK w : w = OffsetToAddr(o, s)
    OBVIOUS
  <2>3. w \in Nat /\ w % 8 = 0 /\ Mine(s, w)
    BY <2>2, OffsetOfItsAddr
  <2>4. RowsSeen(s, c, w)' = RowsSeen(s, c, w)
    <3>1. /\ RowsSeen(s, c, w) \in Nat
          /\ RowsSeen(s, c, w)'
               = IF s = t /\ c = current[t]
                   THEN RowsSeen(s, c, w)
                          + RowsOf(directory.files[c].accesses[position[t] + 1], w)
                   ELSE RowsSeen(s, c, w)
      BY <1>1, <1>2, <2>1, StepRows DEF IInv
    <3>2. CASE s = t /\ c = current[t]
      <4>1. WordsOf(t, AccessOf(t)) # {w}
        BY <1>1
      <4>2. RowsOf(directory.files[c].accesses[position[t] + 1], w) = 0
        BY <1>1, <2>1, <2>3, <3>2, <4>1, RowsOfAccess DEF IInv
      <4> QED
        BY <3>1, <3>2, <4>2
    <3>3. CASE ~(s = t /\ c = current[t])
      BY <3>1, <3>3
    <3> QED
      BY <3>2, <3>3
  <2>5. RowsSeen(s, c, OffsetToAddr(o, s))' = RowsSeen(s, c, OffsetToAddr(o, s))
    BY <2>2, <2>4 DEF OffsetToAddr, PageToAddr
  <2>6. Tallied(EntriesAt(s, o), c - 1, RowsSeen(s, c, OffsetToAddr(o, s)))
    BY <2>1 DEF IInv, TableIsTrace
  <2> QED
    BY <1>5, <2>5, <2>6 DEF Tallied
<1>8. AlignPassed'
  <2>1. t # Align
    BY CountAssumption DEF Counters
  <2>2. position' = [position EXCEPT ![t] = position'[t]]
    BY <1>1 DEF Step, IInv, TypeOK
  <2>3. current' = [current EXCEPT ![t] = current'[t]]
    BY <1>1 DEF IInv, TypeOK
  <2> QED
    BY <1>1, <1>2, <2>1, <2>2, <2>3, OthersPassed DEF IInv
<1> QED
  BY <1>3, <1>4, <1>6, <1>7, <1>8 DEF IInv

(* A word is counted.                                                      *)
LEMMA CountAccessIInv ==
  ASSUME IInv, ~loading, NEW t \in Counters, CountAccess(t)
  PROVE  IInv'
<1>1. /\ InChunk(t) /\ Step(t) /\ t \in Actors
      /\ UNCHANGED <<loader_vars, current, align, terminated>>
  BY DEF CountAccess, Actors
<1>2. UNCHANGED <<directory, loaded, convert, tot_ops, loading>>
  BY <1>1 DEF loader_vars
<1>3. /\ DOMAIN table' = Counters
      /\ \A s \in Counters :
           /\ DOMAIN table'[s] \subseteq Offsets
           /\ \A o \in DOMAIN table'[s] : table'[s][o] \in Seq(Tallies)
      /\ EntriesBehind'
      /\ RowsPerWord(AccessOf(t)) \in Nat \ {0}
  BY CountAccessIs
<1>4. PICK word, o, e : Counts(t, word, o, e)
  BY CountAccessIs
<1>5. TypeOK'
  <2>1. LoaderTypeOK'
    BY <1>2 DEF IInv, TypeOK, LoaderTypeOK
  <2> QED
    BY <1>1, <1>2, <1>3, <2>1, StepTypes DEF IInv, TypeOK
<1>6. LoadedIs' /\ NotStarted'
  BY <1>1, <1>2 DEF IInv, LoadedIs, Taken, Kept, NotStarted
<1>7. TableIsTrace'
  <2> SUFFICES ASSUME Understood', NEW s \in Counters, NEW q \in Offsets, NEW c \in IntactChunks'
               PROVE  Tallied(EntriesAt(s, q), c - 1, RowsSeen(s, c, OffsetToAddr(q, s)))'
    BY <1>3 DEF TableIsTrace, EntriesBehind
  <2>1. Understood /\ c \in IntactChunks /\ c \in DOMAIN loaded
    BY <1>2 DEF Understood, IntactChunks
  <2>2. PICK w, k, n, h, x :
          /\ w = OffsetToAddr(q, s) /\ k = current[t] - 1 /\ n = RowsPerWord(AccessOf(t))
          /\ h = EntriesAt(s, q) /\ x = RowsSeen(s, c, w)
    OBVIOUS
  <2>3. w \in Nat /\ w % 8 = 0 /\ Mine(s, w) /\ AddrToOffset(w) = q
    BY <2>2, OffsetOfItsAddr
  <2>4. /\ x \in Nat
        /\ RowsSeen(s, c, w)'
             = IF s = t /\ c = current[t]
                 THEN x + RowsOf(directory.files[c].accesses[position[t] + 1], w)
                 ELSE x
    BY <1>1, <1>2, <2>1, <2>2, StepRows DEF IInv
  <2>5. Tallied(h, c - 1, x)
    BY <2>1, <2>2 DEF IInv, TableIsTrace
  <2>6. PICK y : y = RowsSeen(s, c, w)'
    OBVIOUS
  <2>7. Tallied(EntriesAt(s, q)', c - 1, y)
        => Tallied(EntriesAt(s, q), c - 1, RowsSeen(s, c, OffsetToAddr(q, s)))'
    <3>1. RowsSeen(s, c, OffsetToAddr(q, s))' = y
      BY <2>2, <2>6 DEF OffsetToAddr, PageToAddr
    <3> QED
      BY <3>1 DEF Tallied
  <2>8. CASE s = t /\ q = o
    <3>1. /\ EntriesAt(s, q)' = Counted(h, k, n) /\ w = word
          /\ WordsOf(t, AccessOf(t)) = {w}
      BY <1>4, <2>2, <2>8 DEF Counts
    <3>2. /\ h \in Seq(Tallies) /\ InOrder(h) /\ \A i \in DOMAIN h : h[i].chunk <= k
          /\ k \in 0 .. MaxChunks - 1
      <4>1. h \in Seq(Tallies)
        BY <2>2, EntriesTyped DEF IInv
      <4>2. k \in 0 .. MaxChunks - 1
        BY <1>1, <2>2, LoaderAssumption DEF IInv, TypeOK
      <4> QED
        BY <2>2, <2>8, <4>1, <4>2 DEF IInv, EntriesBehind
    <3>3. /\ \A z \in Nat : Tallied(h, k, z) => Tallied(Counted(h, k, n), k, z + n)
          /\ \A d, z : d # k /\ Tallied(h, d, z) => Tallied(Counted(h, k, n), d, z)
      BY <1>3, <2>2, <3>2, CountedIs
    <3>4. CASE c = current[t]
      <4>1. RowsOf(directory.files[c].accesses[position[t] + 1], w) = n
        BY <1>1, <2>1, <2>2, <2>3, <2>8, <3>1, <3>4, RowsOfAccess DEF IInv
      <4>2. y = x + n /\ c - 1 = k
        BY <2>2, <2>4, <2>6, <2>8, <3>4, <4>1
      <4>3. Tallied(Counted(h, k, n), k, x + n)
        BY <2>4, <2>5, <3>3, <4>2
      <4> QED
        BY <2>7, <3>1, <4>2, <4>3
    <3>5. CASE c # current[t]
      <4>1. y = x
        BY <2>4, <2>6, <3>5
      <4>2. c - 1 # k
        <5>1. c \in Nat /\ current[t] \in Nat
          BY <1>1, <2>1 DEF IInv, TypeOK, LoaderTypeOK
        <5> QED
          BY <2>2, <3>5, <5>1
      <4>3. Tallied(Counted(h, k, n), c - 1, x)
        BY <2>5, <3>3, <4>2
      <4> QED
        BY <2>7, <3>1, <4>1, <4>3
    <3> QED
      BY <3>4, <3>5
  <2>9. CASE ~(s = t /\ q = o)
    <3>1. EntriesAt(s, q)' = h
      BY <1>4, <2>2, <2>9 DEF Counts
    <3>2. y = x
      <4>1. CASE s = t /\ c = current[t]
        <5>1. w # word
          BY <1>4, <2>3, <2>9, <4>1 DEF Counts
        <5>2. WordsOf(t, AccessOf(t)) # {w}
          BY <1>4, <5>1 DEF Counts
        <5>3. RowsOf(directory.files[c].accesses[position[t] + 1], w) = 0
          BY <1>1, <2>1, <2>3, <4>1, <5>2, RowsOfAccess DEF IInv
        <5> QED
          BY <2>4, <2>6, <4>1, <5>3
      <4>2. CASE ~(s = t /\ c = current[t])
        BY <2>4, <2>6, <4>2
      <4> QED
        BY <4>1, <4>2
    <3> QED
      BY <2>5, <2>7, <3>1, <3>2
  <2> QED
    BY <2>8, <2>9
<1>8. AlignPassed'
  <2>1. t # Align
    BY CountAssumption DEF Counters
  <2>2. position' = [position EXCEPT ![t] = position'[t]]
    BY <1>1 DEF Step, IInv, TypeOK
  <2>3. current' = [current EXCEPT ![t] = current'[t]]
    BY <1>1 DEF IInv, TypeOK
  <2> QED
    BY <1>1, <1>2, <2>1, <2>2, <2>3, OthersPassed DEF IInv
<1> QED
  BY <1>3, <1>5, <1>6, <1>7, <1>8 DEF IInv

(* The tables are the trace's when the counters have seen what they had.   *)
LEMMA SeenSame ==
  ASSUME TableIsTrace, UNCHANGED <<directory, loaded, convert, table>>,
         \A s \in Counters, c \in DOMAIN loaded : SeenOf(s, c)' = SeenOf(s, c)
  PROVE  TableIsTrace'
<1>1. \A s, o : EntriesAt(s, o)' = EntriesAt(s, o)
  BY DEF EntriesAt
<1>2. ASSUME NEW s \in Counters, NEW c \in DOMAIN loaded, NEW word
      PROVE  RowsSeen(s, c, word)' = RowsSeen(s, c, word)
  <2>1. SeenOf(s, c)' = SeenOf(s, c)
    OBVIOUS
  <2> QED
    BY <2>1 DEF RowsSeen
<1>3. IntactChunks' = IntactChunks /\ Understood' = Understood /\ IntactChunks \subseteq DOMAIN loaded
  BY DEF IntactChunks, Understood
<1> SUFFICES ASSUME Understood', NEW s \in Counters, NEW o \in Offsets
             PROVE  /\ InOrder(EntriesAt(s, o))'
                    /\ \A c \in IntactChunks' :
                         Tallied(EntriesAt(s, o), c - 1, RowsSeen(s, c, OffsetToAddr(o, s)))'
  BY DEF TableIsTrace
<1>4. InOrder(EntriesAt(s, o))'
  BY <1>1, <1>3 DEF TableIsTrace, InOrder
<1>5. ASSUME NEW c \in IntactChunks'
      PROVE  Tallied(EntriesAt(s, o), c - 1, RowsSeen(s, c, OffsetToAddr(o, s)))'
  <2>1. Tallied(EntriesAt(s, o), c - 1, RowsSeen(s, c, OffsetToAddr(o, s)))
    BY <1>3, <1>5 DEF TableIsTrace
  <2>2. RowsSeen(s, c, OffsetToAddr(o, s))' = RowsSeen(s, c, OffsetToAddr(o, s))
    BY <1>2, <1>3, <1>5
  <2> QED
    BY <1>1, <2>1, <2>2 DEF Tallied
<1> QED
  BY <1>4, <1>5

(* MemAlignCounter takes an access that passes its assertion.              *)
LEMMA AlignAccessIInv ==
  ASSUME IInv, ~loading, AlignAccess
  PROVE  IInv'
<1>1. /\ InChunk(Align) /\ Step(Align) /\ Align \in Actors /\ Asserted(AccessOf(Align))
      /\ align' = IF Aligned(AccessOf(Align)) THEN align
                  ELSE [ops |-> align.ops + 1, rows |-> align.rows + AlignRows(AccessOf(Align))]
      /\ UNCHANGED <<loader_vars, current, table, terminated>>
  BY DEF AlignAccess, Actors
<1>2. UNCHANGED <<directory, loaded, convert, tot_ops, loading>>
  BY <1>1 DEF loader_vars
<1>3. align' \in [ops : Nat, rows : Nat]
  <2>1. align \in [ops : Nat, rows : Nat]
    BY DEF IInv, TypeOK
  <2>2. AlignRows(AccessOf(Align)) \in Nat
    BY DEF AlignRows
  <2>3. align.ops + 1 \in Nat /\ align.rows + AlignRows(AccessOf(Align)) \in Nat
    BY <2>1, <2>2
  <2> QED
    BY <1>1, <2>1, <2>3
<1>4. TypeOK'
  <2>1. LoaderTypeOK'
    BY <1>2 DEF IInv, TypeOK, LoaderTypeOK
  <2> QED
    BY <1>1, <1>2, <1>3, <2>1, StepTypes DEF IInv, TypeOK
<1>5. LoadedIs' /\ NotStarted'
  BY <1>1, <1>2 DEF IInv, LoadedIs, Taken, Kept, NotStarted
<1>6. \A s, o : EntriesAt(s, o)' = EntriesAt(s, o)
  BY <1>1 DEF EntriesAt
<1>7. EntriesBehind'
  BY <1>1, <1>6 DEF IInv, EntriesBehind, InOrder
<1>8. TableIsTrace'
  <2>1. ASSUME NEW s \in Counters, NEW c \in DOMAIN loaded PROVE SeenOf(s, c)' = SeenOf(s, c)
    <3>1. s \in Actors /\ s # Align
      BY CountAssumption DEF Counters, Actors
    <3>2. c \in Nat
      BY DEF IInv, TypeOK, LoaderTypeOK
    <3> QED
      BY <1>1, <1>2, <3>1, <3>2, StepTypes DEF IInv
  <2> QED
    BY <1>1, <1>2, <2>1, SeenSame DEF IInv
<1>9. AlignPassed'
  <2> SUFFICES ASSUME NEW c \in DOMAIN loaded, NEW i \in DOMAIN loaded[c],
                      c < current[Align] \/ (c = current[Align] /\ i <= position'[Align])
               PROVE  Asserted(loaded[c][i])
    BY <1>1, <1>2 DEF AlignPassed, Asserted, Bytes
  <2>1. position'[Align] = position[Align] + 1 /\ position[Align] \in Nat
    BY <1>1 DEF Step, IInv, TypeOK
  <2>2. c \in Nat /\ i \in Nat
    BY DEF IInv, TypeOK, LoaderTypeOK
  <2>3. CASE c < current[Align] \/ (c = current[Align] /\ i <= position[Align])
    BY <2>3 DEF IInv, AlignPassed
  <2>4. CASE c = current[Align] /\ i = position[Align] + 1
    BY <1>1, <2>4 DEF AccessOf
  <2> QED
    BY <2>1, <2>2, <2>3, <2>4
<1> QED
  BY <1>4, <1>5, <1>7, <1>8, <1>9 DEF IInv

(* A thread goes on to the following chunk when it has seen all of one.    *)
LEMMA NextChunkIInv ==
  ASSUME IInv, ~loading, NEW t \in Actors, NextChunk(t)
  PROVE  IInv'
<1>1. /\ ~InChunk(t) /\ current[t] < Len(loaded)
      /\ current' = [current EXCEPT ![t] = @ + 1] /\ position' = [position EXCEPT ![t] = 0]
      /\ UNCHANGED <<loader_vars, table, align, terminated>>
  BY DEF NextChunk
<1>2. UNCHANGED <<directory, loaded, convert, tot_ops, loading>>
  BY <1>1 DEF loader_vars
<1>3. /\ current \in [Actors -> 1 .. MaxChunks] /\ position \in [Actors -> Nat]
      /\ loaded \in Seq(Seq(Raw)) /\ Len(loaded) <= MaxChunks /\ MaxChunks \in Nat
  BY LoaderAssumption DEF IInv, TypeOK, LoaderTypeOK
<1>4. /\ current' \in [Actors -> 1 .. MaxChunks] /\ position' \in [Actors -> Nat]
      /\ current'[t] = current[t] + 1 /\ position'[t] = 0
      /\ \A s \in Actors : s # t => current'[s] = current[s] /\ position'[s] = position[s]
  <2>1. current[t] + 1 \in 1 .. MaxChunks
    <3>1. current[t] \in 1 .. MaxChunks /\ Len(loaded) \in Nat
      BY <1>3
    <3> QED
      BY <1>1, <1>3, <3>1
  <2> QED
    BY <1>1, <1>3, <2>1
<1>5. /\ current[t] \in DOMAIN loaded /\ position[t] = Len(loaded[current[t]])
      /\ current[t] \in Nat \ {0} /\ Len(loaded[current[t]]) \in Nat
  <2>1. current[t] \in DOMAIN loaded /\ current[t] \in Nat \ {0}
    <3>1. current[t] \in 1 .. MaxChunks /\ Len(loaded) \in Nat /\ DOMAIN loaded = 1 .. Len(loaded)
      BY <1>3
    <3> QED
      BY <1>1, <1>3, <3>1
  <2>2. PICK n \in Nat : n = Len(loaded[current[t]])
    BY <1>3, <2>1
  <2>3. ~(position[t] < n) /\ position[t] \in Nat
    BY <1>1, <1>3, <2>1, <2>2 DEF InChunk
  <2>4. position[t] # 0 => position[t] <= n
    BY <2>2 DEF IInv, TypeOK
  <2> QED
    BY <2>1, <2>2, <2>3, <2>4
<1>6. TypeOK'
  <2>1. LoaderTypeOK'
    BY <1>2 DEF IInv, TypeOK, LoaderTypeOK
  <2>2. ASSUME NEW s \in Actors, position'[s] # 0
        PROVE  current'[s] \in DOMAIN loaded' /\ position'[s] <= Len(loaded'[current'[s]])
    BY <1>2, <1>4, <2>2 DEF IInv, TypeOK
  <2> QED
    BY <1>1, <1>4, <2>1, <2>2 DEF IInv, TypeOK
<1>7. LoadedIs' /\ NotStarted'
  BY <1>1, <1>2 DEF IInv, LoadedIs, Taken, Kept, NotStarted
<1>8. \A s, o : EntriesAt(s, o)' = EntriesAt(s, o)
  BY <1>1 DEF EntriesAt
<1>9. EntriesBehind'
  <2> SUFFICES ASSUME NEW s \in Counters, NEW o \in Offsets
               PROVE  /\ InOrder(EntriesAt(s, o))
                      /\ \A i \in DOMAIN EntriesAt(s, o) :
                           EntriesAt(s, o)[i].chunk <= current'[s] - 1
    BY <1>8 DEF EntriesBehind, InOrder
  <2>1. /\ InOrder(EntriesAt(s, o))
        /\ \A i \in DOMAIN EntriesAt(s, o) : EntriesAt(s, o)[i].chunk <= current[s] - 1
    BY DEF IInv, EntriesBehind
  <2>2. s \in Actors /\ current[s] \in Nat /\ current'[s] \in Nat /\ current[s] <= current'[s]
    <3>1. s \in Actors
      BY DEF Actors
    <3>2. current[s] \in 1 .. MaxChunks
      BY <1>3, <3>1
    <3>3. current'[s] = current[s] \/ current'[s] = current[s] + 1
      BY <1>4, <3>1
    <3> QED
      BY <3>1, <3>2, <3>3
  <2>3. EntriesAt(s, o) \in Seq(Tallies)
    BY EntriesTyped DEF IInv
  <2>4. ASSUME NEW i \in DOMAIN EntriesAt(s, o) PROVE EntriesAt(s, o)[i].chunk <= current'[s] - 1
    <3>1. EntriesAt(s, o)[i] \in Tallies
      BY <2>3
    <3>2. EntriesAt(s, o)[i].chunk \in Nat
      BY <3>1 DEF Tallies
    <3>3. EntriesAt(s, o)[i].chunk <= current[s] - 1
      BY <2>1
    <3> QED
      BY <2>2, <3>2, <3>3
  <2> QED
    BY <2>1, <2>4
<1>10. TableIsTrace'
  <2>1. ASSUME NEW s \in Counters, NEW c \in DOMAIN loaded PROVE SeenOf(s, c)' = SeenOf(s, c)
    <3>1. s \in Actors /\ c \in Nat \ {0}
      BY <1>3 DEF Actors
    <3>2. SeenOf(s, c) = IF c < current[s] THEN Len(directory.files[c].accesses)
                         ELSE IF c = current[s] THEN position[s] ELSE 0
      BY DEF SeenOf
    <3>3. SeenOf(s, c)' = IF c < current'[s] THEN Len(directory.files[c].accesses)
                          ELSE IF c = current'[s] THEN position'[s] ELSE 0
      BY <1>2 DEF SeenOf
    <3>4. CASE s # t
      BY <1>4, <3>1, <3>2, <3>3, <3>4
    <3>5. CASE s = t
      <4>1. Len(loaded[current[t]]) = Len(directory.files[current[t]].accesses)
        BY <1>5 DEF IInv, LoadedIs
      <4>2. CASE c < current[t]
        BY <1>4, <1>5, <3>1, <3>2, <3>3, <3>5, <4>2
      <4>3. CASE c = current[t]
        BY <1>4, <1>5, <3>1, <3>2, <3>3, <3>5, <4>1, <4>3
      <4>4. CASE c > current[t]
        BY <1>4, <1>5, <3>1, <3>2, <3>3, <3>5, <4>4
      <4> QED
        BY <1>5, <3>1, <4>2, <4>3, <4>4
    <3> QED
      BY <3>4, <3>5
  <2> QED
    BY <1>1, <1>2, <2>1, SeenSame DEF IInv
<1>11. AlignPassed'
  <2>1. CASE t # Align
    <3>1. position' = [position EXCEPT ![t] = position'[t]]
      BY <1>1, <1>4
    <3>2. current' = [current EXCEPT ![t] = current'[t]]
      BY <1>1, <1>4
    <3> QED
      BY <1>2, <2>1, <3>1, <3>2, OthersPassed DEF IInv
  <2>2. CASE t = Align
    <3> SUFFICES ASSUME NEW c \in DOMAIN loaded, NEW i \in DOMAIN loaded[c],
                        c < current'[Align] \/ (c = current'[Align] /\ i <= position'[Align])
                 PROVE  Asserted(loaded[c][i])
      BY <1>2 DEF AlignPassed, Asserted, Bytes
    <3>1. c \in Nat /\ i \in 1 .. Len(loaded[c]) /\ Len(loaded[c]) \in Nat
      BY <1>3
    <3>2. c < current[Align] \/ (c = current[Align] /\ i <= position[Align])
      BY <1>4, <1>5, <2>2, <3>1
    <3> QED
      BY <3>2 DEF IInv, AlignPassed
  <2> QED
    BY <2>1, <2>2
<1> QED
  BY <1>6, <1>7, <1>9, <1>10, <1>11 DEF IInv

(* Every step.                                                             *)
LEMMA NextIInv == IInv /\ [Next]_vars => IInv'
<1> SUFFICES ASSUME IInv, [Next]_vars PROVE IInv'
  OBVIOUS
<1>1. align \in [ops : Nat, rows : Nat] /\ terminated \in BOOLEAN
  BY DEF IInv, TypeOK
<1>2. CASE UNCHANGED vars
  BY <1>1, <1>2, FrameIInv DEF vars, loader_vars
<1>3. CASE LoadTrace
  <2>1. CASE LoadChunk
    BY <1>3, <2>1, LoadChunkIInv DEF LoadTrace
  <2>2. CASE LoadEnds
    <3>1. /\ UNCHANGED <<directory, loaded, convert, tot_ops, current, position, table>>
          /\ loading' = FALSE /\ align' = align /\ terminated' = terminated
      BY <1>3, <2>2 DEF LoadTrace, LoadEnds
    <3> QED
      BY <1>1, <3>1, FrameIInv
  <2> QED
    BY <1>3, <2>1, <2>2 DEF LoadTrace, Load
<1>4. CASE ~loading /\ ~terminated /\ CountTrace
  <2>1. ASSUME NEW t \in Counters, SkipAccess(t) PROVE IInv'
    BY <1>4, <2>1, SkipAccessIInv
  <2>2. ASSUME NEW t \in Counters, CountAccess(t) PROVE IInv'
    BY <1>4, <2>2, CountAccessIInv
  <2>3. ASSUME NEW t \in Counters, UnmappedAccess(t) PROVE IInv'
    <3>1. /\ UNCHANGED <<directory, loaded, convert, tot_ops, loading, current, position, table>>
          /\ align' = align /\ terminated' = TRUE
      BY <2>3 DEF UnmappedAccess, loader_vars
    <3> QED
      BY <1>1, <3>1, FrameIInv
  <2>4. CASE AlignAccess
    BY <1>4, <2>4, AlignAccessIInv
  <2>5. CASE AssertionFails
    <3>1. /\ UNCHANGED <<directory, loaded, convert, tot_ops, loading, current, position, table>>
          /\ align' = align /\ terminated' = TRUE
      BY <2>5 DEF AssertionFails, loader_vars
    <3> QED
      BY <1>1, <3>1, FrameIInv
  <2>6. ASSUME NEW t \in Actors, NextChunk(t) PROVE IInv'
    BY <1>4, <2>6, NextChunkIInv
  <2> QED
    BY <1>4, <2>1, <2>2, <2>3, <2>4, <2>5, <2>6 DEF CountTrace
<1>5. CASE Finished
  BY <1>1, <1>5, FrameIInv DEF Finished, vars, loader_vars
<1> QED
  BY <1>2, <1>3, <1>4, <1>5 DEF Next

LEMMA Invariance == Spec => []IInv
BY InitIInv, NextIInv, PTL DEF Spec

-----------------------------------------------------------------------------
(* Operations                                                              *)

(* What counter t counts of an access.                                     *)
RowsBy(t, r) == IF WordsOf(t, r) = {} THEN 0 ELSE RowsPerWord(r)

(* The counters together count the operations of an access, whose words    *)
(* are of one thread or of two, and MemAlignCounter counts one row more.   *)
LEMMA AccessRows ==
  ASSUME NEW a \in Access,
         NEW r, r = [addr |-> a.addr, flags |-> [high |-> Bit(a.write), low |-> a.bytes]]
  PROVE  /\ Total([n \in 1 .. Threads |-> RowsBy(n - 1, r)]) = CountOperations(r)
         /\ ~Aligned(r) => AlignRows(r) = 1 + CountOperations(r)
<1>1. PICK b \in {1, 2, 4, 8}, w \in {0, 1}, x \in Nat :
        b = a.bytes /\ w = Bit(a.write) /\ x = a.addr
  BY DEF Access, Bit
<1>2. PICK g \in Nat, m \in 0 .. 7 : x = g * 8 + m /\ m = x % 8
  <2>1. x \div 8 \in Nat /\ x % 8 \in 0 .. 7 /\ x = (x \div 8) * 8 + (x % 8)
    OBVIOUS
  <2> QED
    BY <2>1
<1>3. /\ Bytes(r) = b /\ r.addr = x /\ FirstWord(r) = g * 8
      /\ Crosses(r) <=> b + m > 8
      /\ Aligned(r) <=> b = 8 /\ m = 0
  <2>1. b % 256 = b
    BY <1>1
  <2>2. r.addr = x /\ Bytes(r) = b
    BY <1>1, <2>1 DEF Bytes
  <2>3. r.addr % 8 = m /\ FirstWord(r) = g * 8
    BY <1>2, <2>2 DEF FirstWord
  <2> QED
    BY <2>2, <2>3 DEF Crosses, Aligned
<1>4. PICK T \in Nat \ {0}, p \in Nat, q \in Nat :
        /\ T = Threads /\ p = g % T /\ q = (g + 1) % T
        /\ p \in 0 .. T - 1 /\ q \in 0 .. T - 1 /\ p # q
  <2>1. Threads \in Nat \ {0} /\ Threads > 1
    BY MapFacts
  <2>2. g % Threads \in 0 .. Threads - 1 /\ (g + 1) % Threads \in 0 .. Threads - 1
    BY <2>1, Division
  <2>3. (g + 1) % Threads # g % Threads
    BY <2>1, Neighbours
  <2> QED
    BY <2>1, <2>2, <2>3
<1>5. PICK R \in {1, 2} : R = RowsPerWord(r) /\ R = IF b = 8 /\ m = 0 THEN 1 ELSE 1 + w
  <2>1. r.flags.high = w
    BY <1>1
  <2> QED
    BY <1>1, <1>3, <2>1 DEF RowsPerWord
<1>6. /\ CountOperations(r) = IF b + m > 8 THEN 2 * R ELSE R
      /\ ~Aligned(r) => AlignRows(r) = 1 + CountOperations(r)
  <2>1. r.flags.high % 2 = 1 <=> w = 1
    BY <1>1
  <2>2. r.flags.low % 16 = b
    BY <1>1
  <2>3. r.addr % 8 = m
    BY <1>2, <1>3
  <2>4. CountOperations(r) = IF m = 0 /\ b = 8 THEN 1
                             ELSE (IF m + b > 8 THEN 2 ELSE 1) * (IF w = 1 THEN 2 ELSE 1)
    BY <2>1, <2>2, <2>3 DEF CountOperations
  <2>5. AlignRows(r) = (IF m + b > 8 THEN 2 ELSE 1) * (IF w = 1 THEN 2 ELSE 1) + 1
    BY <1>1, <1>2, <1>3, <2>1 DEF AlignRows
  <2>6. CASE b = 8 /\ m = 0
    BY <1>3, <1>5, <2>4, <2>6
  <2>7. CASE ~(b = 8 /\ m = 0)
    <3>1. R = (IF w = 1 THEN 2 ELSE 1)
      BY <1>1, <1>5, <2>7
    <3>2. /\ CountOperations(r) = (IF m + b > 8 THEN 2 ELSE 1) * R
          /\ AlignRows(r) = (IF m + b > 8 THEN 2 ELSE 1) * R + 1
      BY <2>4, <2>5, <2>7, <3>1
    <3>3. CASE b + m > 8
      <4>1. (IF m + b > 8 THEN 2 ELSE 1) = 2
        BY <1>1, <1>2, <3>3
      <4> QED
        BY <1>5, <3>2, <3>3, <4>1
    <3>4. CASE ~(b + m > 8)
      <4>1. (IF m + b > 8 THEN 2 ELSE 1) = 1
        BY <1>1, <1>2, <3>4
      <4> QED
        BY <1>5, <3>2, <3>4, <4>1
    <3> QED
      BY <3>3, <3>4
  <2> QED
    BY <2>6, <2>7
<1>7. \A t \in 0 .. T - 1 :
        RowsBy(t, r) = IF t = p \/ (b + m > 8 /\ t = q) THEN R ELSE 0
  <2> SUFFICES ASSUME NEW t \in 0 .. T - 1
               PROVE  RowsBy(t, r) = IF t = p \/ (b + m > 8 /\ t = q) THEN R ELSE 0
    OBVIOUS
  <2>1. (g * 8) \div 8 = g /\ (g * 8 + 8) \div 8 = g + 1
    OBVIOUS
  <2>2. /\ Mine(t, FirstWord(r)) <=> t = p
        /\ Mine(t, FirstWord(r) + 8) <=> t = q
    BY <1>3, <1>4, <2>1 DEF Mine
  <2>3. b + m > 8 => ~Aligned(r)
    BY <1>1, <1>2, <1>3
  <2>4. WordsOf(t, r) = {} <=> ~(t = p \/ (b + m > 8 /\ t = q))
    BY <1>3, <2>2, <2>3 DEF WordsOf
  <2> QED
    BY <1>5, <2>4 DEF RowsBy
<1> DEFINE none == [n \in 1 .. T |-> 0]
           once == [n \in 1 .. T |-> IF n = p + 1 THEN R ELSE 0]
           twice == [n \in 1 .. T |-> IF n = p + 1 \/ n = q + 1 THEN R ELSE 0]
           rows == [n \in 1 .. T |-> RowsBy(n - 1, r)]
<1>8. /\ none \in Seq(Nat) /\ Len(none) = T
      /\ once \in Seq(Nat) /\ Len(once) = T
      /\ twice \in Seq(Nat) /\ Len(twice) = T
  <2>1. none \in [1 .. T -> Nat] /\ once \in [1 .. T -> Nat] /\ twice \in [1 .. T -> Nat]
    BY <1>5
  <2> HIDE DEF none, once, twice
  <2> QED
    BY <2>1, FunctionIsSeq
<1>9. /\ \A n \in 1 .. T : none[n] = 0
      /\ once[p + 1] = none[p + 1] + R /\ \A n \in 1 .. T : n # p + 1 => once[n] = none[n]
      /\ twice[q + 1] = once[q + 1] + R /\ \A n \in 1 .. T : n # q + 1 => twice[n] = once[n]
      /\ p + 1 \in 1 .. T /\ q + 1 \in 1 .. T
  BY <1>4, <1>5
<1>10. rows = IF b + m > 8 THEN twice ELSE once
  <2>1. \A n \in 1 .. T : n - 1 \in 0 .. T - 1 /\ (n - 1 = p <=> n = p + 1) /\ (n - 1 = q <=> n = q + 1)
    BY <1>4
  <2>2. CASE b + m > 8
    <3>1. \A n \in 1 .. T : RowsBy(n - 1, r) = IF n = p + 1 \/ n = q + 1 THEN R ELSE 0
      BY <1>7, <2>1, <2>2
    <3> QED
      BY <2>2, <3>1
  <2>3. CASE ~(b + m > 8)
    <3>1. \A n \in 1 .. T : RowsBy(n - 1, r) = IF n = p + 1 THEN R ELSE 0
      BY <1>7, <2>1, <2>3
    <3> QED
      BY <2>3, <3>1
  <2> QED
    BY <2>2, <2>3
<1>11. Total(rows) = IF b + m > 8 THEN 2 * R ELSE R
  <2> HIDE DEF none, once, twice, rows
  <2>1. Total(none) = 0
    BY <1>8, <1>9, TotalOfZeros
  <2>2. Total(once) = Total(none) + R
    <3>1. /\ p + 1 \in 1 .. Len(none) /\ Len(once) = Len(none) /\ R \in Nat
          /\ \A n \in 1 .. Len(none) : n # p + 1 => once[n] = none[n]
      BY <1>5, <1>8, <1>9
    <3>2. none \in Seq(Nat) /\ once \in Seq(Nat) /\ once[p + 1] = none[p + 1] + R
      BY <1>8, <1>9
    <3> QED
      BY <3>1, <3>2, TotalGrows
  <2>3. Total(twice) = Total(once) + R
    <3>1. /\ q + 1 \in 1 .. Len(once) /\ Len(twice) = Len(once) /\ R \in Nat
          /\ \A n \in 1 .. Len(once) : n # q + 1 => twice[n] = once[n]
      BY <1>5, <1>8, <1>9
    <3>2. once \in Seq(Nat) /\ twice \in Seq(Nat) /\ twice[q + 1] = once[q + 1] + R
      BY <1>8, <1>9
    <3> QED
      BY <3>1, <3>2, TotalGrows
  <2> QED
    BY <1>5, <1>10, <2>1, <2>2, <2>3
<1> QED
  BY <1>4, <1>6, <1>11

-----------------------------------------------------------------------------
(* Rows added up along the trace                                           *)

(* Weights of the accesses of a chunk, by a function of accesses.          *)
Along(f, c) == [i \in 1 .. Len(loaded[c]) |-> f[loaded[c][i]]]

(* How many accesses of chunk c thread t has gone through.                 *)
GoneThrough(t, c) ==
  IF c < current[t] THEN Len(loaded[c]) ELSE IF c = current[t] THEN position[t] ELSE 0

BehindIn(f, t) == [c \in 1 .. Len(loaded) |-> RunningTotal(Along(f, c))[GoneThrough(t, c)]]

(* The weight of what a thread has gone through, and of the whole trace.   *)
Behind(f, t) == Total(BehindIn(f, t))
Whole(f) == Total([c \in 1 .. Len(loaded) |-> Total(Along(f, c))])

LEMMA LoadedType ==
  ASSUME TypeOK
  PROVE  /\ Len(loaded) \in Nat /\ DOMAIN loaded = 1 .. Len(loaded)
         /\ \A c \in 1 .. Len(loaded) : /\ loaded[c] \in Seq(Raw) /\ Len(loaded[c]) \in Nat
                                        /\ DOMAIN loaded[c] = 1 .. Len(loaded[c])
                                        /\ \A i \in 1 .. Len(loaded[c]) : loaded[c][i] \in Raw
<1>1. loaded \in Seq(Seq(Raw))
  BY DEF TypeOK, LoaderTypeOK
<1>2. \A c \in 1 .. Len(loaded) : loaded[c] \in Seq(Raw)
  BY <1>1
<1> QED
  BY <1>1, <1>2, SeqIsFunction

LEMMA AlongIs ==
  ASSUME TypeOK, NEW f \in [Raw -> Nat], NEW c \in 1 .. Len(loaded)
  PROVE  /\ Along(f, c) \in Seq(Nat) /\ Len(Along(f, c)) = Len(loaded[c])
         /\ \A i \in 1 .. Len(loaded[c]) : Along(f, c)[i] = f[loaded[c][i]]
<1>1. /\ Along(f, c) \in [1 .. Len(loaded[c]) -> Nat]
      /\ \A i \in 1 .. Len(loaded[c]) : Along(f, c)[i] = f[loaded[c][i]]
  BY LoadedType DEF Along
<1>2. Len(loaded[c]) \in Nat
  BY LoadedType
<1> QED
  BY <1>1, <1>2, FunctionIsSeq

LEMMA GoneIs ==
  ASSUME TypeOK, NEW t \in Actors, NEW c \in 1 .. Len(loaded)
  PROVE  GoneThrough(t, c) \in 0 .. Len(loaded[c])
<1>1. /\ current[t] \in Nat /\ position[t] \in Nat /\ Len(loaded[c]) \in Nat
      /\ position[t] # 0 => position[t] <= Len(loaded[current[t]])
  BY LoadedType DEF TypeOK
<1> QED
  BY <1>1 DEF GoneThrough

LEMMA BehindIs ==
  ASSUME TypeOK, NEW f \in [Raw -> Nat], NEW t \in Actors
  PROVE  /\ BehindIn(f, t) \in Seq(Nat) /\ Len(BehindIn(f, t)) = Len(loaded)
         /\ \A c \in 1 .. Len(loaded) :
              BehindIn(f, t)[c] = RunningTotal(Along(f, c))[GoneThrough(t, c)]
<1>1. \A c \in 1 .. Len(loaded) : RunningTotal(Along(f, c))[GoneThrough(t, c)] \in Nat
  BY AlongIs, GoneIs, TotalType
<1>2. /\ BehindIn(f, t) \in [1 .. Len(loaded) -> Nat]
      /\ \A c \in 1 .. Len(loaded) :
           BehindIn(f, t)[c] = RunningTotal(Along(f, c))[GoneThrough(t, c)]
  BY <1>1 DEF BehindIn
<1> QED
  BY <1>2, LoadedType, FunctionIsSeq

(* A thread at the beginning has nothing behind it.                        *)
LEMMA BehindNothing ==
  ASSUME TypeOK, NEW f \in [Raw -> Nat], NEW t \in Actors, current[t] = 1, position[t] = 0
  PROVE  Behind(f, t) = 0
<1>1. \A c \in 1 .. Len(loaded) : GoneThrough(t, c) = 0
  BY DEF GoneThrough
<1>2. \A c \in 1 .. Len(loaded) : RunningTotal(Along(f, c))[0] = 0
  BY AlongIs, RunningTotalDef
<1>3. \A c \in 1 .. Len(loaded) : BehindIn(f, t)[c] = 0
  BY <1>1, <1>2, BehindIs
<1> QED
  BY <1>3, BehindIs, TotalOfZeros DEF Behind

(* One that has gone through all has the whole trace behind it.            *)
LEMMA GoneThroughAll ==
  ASSUME TypeOK, NEW t \in Actors, current[t] >= Len(loaded), ~InChunk(t),
         NEW c \in 1 .. Len(loaded)
  PROVE  GoneThrough(t, c) = Len(loaded[c])
<1>1. /\ current[t] \in Nat /\ position[t] \in Nat /\ Len(loaded[c]) \in Nat /\ Len(loaded) \in Nat
      /\ position[t] # 0 => position[t] <= Len(loaded[current[t]])
      /\ DOMAIN loaded = 1 .. Len(loaded)
  BY LoadedType DEF TypeOK
<1>2. c < current[t] \/ c = current[t]
  BY <1>1
<1>3. CASE c = current[t]
  <2>1. ~(position[t] < Len(loaded[c]))
    BY <1>1, <1>3 DEF InChunk
  <2> QED
    BY <1>1, <1>3, <2>1 DEF GoneThrough
<1> QED
  BY <1>2, <1>3 DEF GoneThrough

LEMMA BehindWhole ==
  ASSUME TypeOK, NEW f \in [Raw -> Nat], NEW t \in Actors,
         current[t] >= Len(loaded), ~InChunk(t)
  PROVE  Behind(f, t) = Whole(f)
<1>1. \A c \in 1 .. Len(loaded) : GoneThrough(t, c) = Len(loaded[c])
  BY GoneThroughAll
<1>2. \A c \in 1 .. Len(loaded) : RunningTotal(Along(f, c))[GoneThrough(t, c)] = Total(Along(f, c))
  BY <1>1, AlongIs DEF Total
<1>3. BehindIn(f, t) = [c \in 1 .. Len(loaded) |-> Total(Along(f, c))]
  BY <1>2 DEF BehindIn
<1> QED
  BY <1>3 DEF Behind, Whole

(* A step through an access adds its weight, for the thread that takes it. *)
LEMMA BehindStep ==
  ASSUME TypeOK, TypeOK', NEW f \in [Raw -> Nat], NEW t \in Actors, InChunk(t), Step(t),
         current' = current, loaded' = loaded
  PROVE  /\ Behind(f, t)' = Behind(f, t) + f[AccessOf(t)]
         /\ \A s \in Actors : s # t => Behind(f, s)' = Behind(f, s)
<1>1. \A c : Along(f, c)' = Along(f, c)
  BY DEF Along
<1>2. position' = [position EXCEPT ![t] = @ + 1] /\ position \in [Actors -> Nat]
  BY DEF Step, TypeOK
<1>3. PICK k, i : k = current[t] /\ i = position[t]
  OBVIOUS
<1>4. /\ k \in 1 .. Len(loaded) /\ i \in Nat /\ i + 1 \in 1 .. Len(loaded[k]) /\ k \in Nat
      /\ AccessOf(t) = loaded[k][i + 1]
  <2>1. k \in 1 .. Len(loaded) /\ i < Len(loaded[k]) /\ i \in Nat
    BY <1>2, <1>3, LoadedType DEF InChunk
  <2> QED
    BY <1>3, <2>1, LoadedType DEF AccessOf
<1>5. \A s \in Actors, c \in 1 .. Len(loaded) :
        GoneThrough(s, c)' = IF s = t /\ c = k THEN GoneThrough(s, c) + 1 ELSE GoneThrough(s, c)
  <2> SUFFICES ASSUME NEW s \in Actors, NEW c \in 1 .. Len(loaded)
               PROVE  GoneThrough(s, c)'
                        = IF s = t /\ c = k THEN GoneThrough(s, c) + 1 ELSE GoneThrough(s, c)
    OBVIOUS
  <2>1. position'[s] = IF s = t THEN position[s] + 1 ELSE position[s]
    BY <1>2
  <2>2. CASE c < current[s]
    <3>1. ~(s = t /\ c = k)
      BY <1>3, <1>4, <2>2
    <3> QED
      BY <2>2, <3>1 DEF GoneThrough
  <2>3. CASE ~(c < current[s])
    BY <1>3, <2>1, <2>3 DEF GoneThrough
  <2> QED
    BY <2>2, <2>3
<1>6. \A s \in Actors : s # t => Behind(f, s)' = Behind(f, s)
  <2> SUFFICES ASSUME NEW s \in Actors, s # t PROVE BehindIn(f, s)' = BehindIn(f, s)
    BY DEF Behind
  <2>1. \A c \in 1 .. Len(loaded) : GoneThrough(s, c)' = GoneThrough(s, c)
    BY <1>5
  <2> QED
    BY <1>1, <2>1 DEF BehindIn
<1> DEFINE w == BehindIn(f, t)
           v == BehindIn(f, t)'
<1>7. w \in Seq(Nat) /\ Len(w) = Len(loaded)
  BY BehindIs
<1>8. v = [c \in 1 .. Len(loaded) |-> RunningTotal(Along(f, c))[GoneThrough(t, c)']]
  BY <1>1 DEF BehindIn
<1>9. \A c \in 1 .. Len(loaded) :
        GoneThrough(t, c)' \in 0 .. Len(loaded[c]) /\ GoneThrough(t, c) \in 0 .. Len(loaded[c])
  <2> SUFFICES ASSUME NEW c \in 1 .. Len(loaded)
               PROVE  /\ GoneThrough(t, c)' \in 0 .. Len(loaded[c])
                      /\ GoneThrough(t, c) \in 0 .. Len(loaded[c])
    OBVIOUS
  <2>1. GoneThrough(t, c) \in 0 .. Len(loaded[c])
    BY GoneIs
  <2>2. CASE c = k
    <3>1. GoneThrough(t, c) = i
      BY <1>3, <1>4, <2>2 DEF GoneThrough
    <3>2. GoneThrough(t, c)' = i + 1
      BY <1>5, <2>2, <3>1
    <3> QED
      BY <1>4, <2>1, <2>2, <3>2
  <2>3. CASE c # k
    BY <1>5, <2>1, <2>3
  <2> QED
    BY <2>2, <2>3
<1>10. v \in Seq(Nat) /\ Len(v) = Len(loaded)
  <2>1. v \in [1 .. Len(loaded) -> Nat]
    BY <1>8, <1>9, AlongIs, TotalType
  <2> HIDE DEF v
  <2> QED
    BY <2>1, LoadedType, FunctionIsSeq
<1>11. \A c \in 1 .. Len(loaded) : c # k => v[c] = w[c]
  BY <1>5, <1>8, BehindIs
<1>12. v[k] = w[k] + f[AccessOf(t)]
  <2>1. GoneThrough(t, k) = i /\ GoneThrough(t, k)' = i + 1
    BY <1>3, <1>4, <1>5 DEF GoneThrough
  <2>2. RunningTotal(Along(f, k))[i + 1] = RunningTotal(Along(f, k))[(i + 1) - 1] + Along(f, k)[i + 1]
    BY <1>4, AlongIs, RunningTotalStep
  <2>3. (i + 1) - 1 = i /\ Along(f, k)[i + 1] = f[AccessOf(t)]
    BY <1>4, AlongIs
  <2>4. v[k] = RunningTotal(Along(f, k))[i + 1] /\ w[k] = RunningTotal(Along(f, k))[i]
    BY <1>4, <1>8, <2>1, BehindIs
  <2> QED
    BY <2>2, <2>3, <2>4
<1>13. f[AccessOf(t)] \in Nat
  BY <1>4, LoadedType
<1>14. Total(v) = Total(w) + f[AccessOf(t)]
  <2> HIDE DEF v, w
  <2>1. v \in Seq(Nat) /\ w \in Seq(Nat) /\ Len(v) = Len(w) /\ k \in 1 .. Len(w)
    BY <1>4, <1>7, <1>10
  <2>2. \A c \in 1 .. Len(w) : c # k => v[c] = w[c]
    BY <1>7, <1>11
  <2> QED
    BY <1>12, <1>13, <2>1, <2>2, TotalGrows
<1> QED
  BY <1>6, <1>14 DEF Behind

(* A step to the following chunk adds nothing.                             *)
LEMMA BehindNext ==
  ASSUME TypeOK, NEW f, NEW t \in Actors, NextChunk(t), NEW s \in Actors
  PROVE  Behind(f, s)' = Behind(f, s)
<1>1. /\ loaded' = loaded /\ ~InChunk(t) /\ current[t] < Len(loaded)
      /\ current' = [current EXCEPT ![t] = @ + 1]
      /\ position' = [position EXCEPT ![t] = 0]
  BY DEF NextChunk, loader_vars
<1>2. /\ current \in [Actors -> Nat \ {0}] /\ position \in [Actors -> Nat]
      /\ Len(loaded) \in Nat /\ DOMAIN loaded = 1 .. Len(loaded)
  BY LoadedType DEF TypeOK
<1>3. ASSUME NEW c \in 1 .. Len(loaded) PROVE GoneThrough(s, c)' = GoneThrough(s, c)
  <2>1. CASE s # t
    BY <1>1, <1>2, <2>1 DEF GoneThrough
  <2>2. CASE s = t
    <3>1. current'[t] = current[t] + 1 /\ position'[t] = 0 /\ current[t] \in Nat
      BY <1>1, <1>2
    <3>2. CASE c < current[t]
      <4>1. c < current'[t]
        BY <3>1, <3>2
      <4> QED
        BY <1>1, <2>2, <3>2, <4>1 DEF GoneThrough
    <3>3. CASE c = current[t]
      <4>1. position[t] = Len(loaded[c])
        <5>1. position[t] # 0 => position[t] <= Len(loaded[c])
          BY <3>3 DEF TypeOK
        <5>2. ~(position[t] < Len(loaded[c]))
          BY <1>1, <1>2, <3>3 DEF InChunk
        <5> QED
          BY <1>2, <5>1, <5>2, LoadedType
      <4> QED
        BY <1>1, <2>2, <3>1, <3>3, <4>1 DEF GoneThrough
    <3>4. CASE c > current[t]
      <4>1. ~(c < current'[t]) /\ ~(c < current[t]) /\ c # current[t]
        BY <3>1, <3>4
      <4> QED
        BY <1>1, <2>2, <3>1, <4>1 DEF GoneThrough
    <3> QED
      BY <3>1, <3>2, <3>3, <3>4
  <2> QED
    BY <2>1, <2>2
<1>4. \A c : Along(f, c)' = Along(f, c)
  BY <1>1 DEF Along
<1>5. BehindIn(f, s)' = BehindIn(f, s)
  BY <1>1, <1>3, <1>4 DEF BehindIn
<1> QED
  BY <1>5 DEF Behind

-----------------------------------------------------------------------------
(* Rows in the tables                                                      *)

(* The rows in the entries of a word.                                      *)
Summed(h) == Total([i \in DOMAIN h |-> h[i].count])

LEMMA SummedIs ==
  ASSUME NEW h \in Seq(Tallies)
  PROVE  LET w == [i \in DOMAIN h |-> h[i].count]
         IN  /\ w \in Seq(Nat) /\ Len(w) = Len(h) /\ Len(h) \in Nat
             /\ \A i \in 1 .. Len(h) : w[i] = h[i].count
             /\ Summed(h) \in Nat
<1> DEFINE w == [i \in DOMAIN h |-> h[i].count]
<1>1. Len(h) \in Nat /\ DOMAIN h = 1 .. Len(h) /\ \A i \in 1 .. Len(h) : h[i] \in Tallies
  BY SeqIsFunction
<1>2. \A e \in Tallies : e.count \in Nat
  BY DEF Tallies
<1>3. w \in [1 .. Len(h) -> Nat] /\ \A i \in 1 .. Len(h) : w[i] = h[i].count
  BY <1>1, <1>2
<1> HIDE DEF w
<1>4. w \in Seq(Nat) /\ Len(w) = Len(h)
  BY <1>1, <1>3, FunctionIsSeq
<1>5. Total(w) \in Nat
  BY <1>4, TotalType
<1> QED
  BY <1>1, <1>3, <1>4, <1>5 DEF Summed, w

(* count_aligned adds its rows to them.                                    *)
LEMMA SummedCounted ==
  ASSUME NEW h \in Seq(Tallies), NEW k, NEW n \in Nat, Counted(h, k, n) \in Seq(Tallies)
  PROVE  Summed(Counted(h, k, n)) = Summed(h) + n
<1> DEFINE w == [i \in DOMAIN h |-> h[i].count]
<1>1. PICK e \in Seq(Tallies) : e = Counted(h, k, n)
  OBVIOUS
<1> DEFINE v == [i \in DOMAIN e |-> e[i].count]
<1>2. /\ w \in Seq(Nat) /\ Len(w) = Len(h) /\ Len(h) \in Nat
      /\ \A i \in 1 .. Len(h) : w[i] = h[i].count
      /\ v \in Seq(Nat) /\ Len(v) = Len(e) /\ Len(e) \in Nat
      /\ \A i \in 1 .. Len(e) : v[i] = e[i].count
  BY SummedIs
<1>3. Summed(h) = Total(w) /\ Summed(e) = Total(v)
  BY DEF Summed
<1> HIDE DEF w, v
<1>4. CASE h # <<>> /\ Last(h).chunk = k
  <2>1. PICK m \in Nat : m = Len(h) /\ m \in 1 .. Len(h)
    <3>1. Len(h) # 0
      BY <1>4
    <3> QED
      BY <1>2, <3>1
  <2>2. e = [h EXCEPT ![m].count = @ + n]
    BY <1>1, <1>4, <2>1 DEF Counted
  <2>3. DOMAIN h = 1 .. m /\ h[m] \in Tallies
    BY <2>1, SeqIsFunction
  <2>4. /\ Len(e) = m /\ e[m].count = h[m].count + n
        /\ \A i \in 1 .. m : i # m => e[i] = h[i]
    <3>1. DOMAIN e = 1 .. m /\ e[m] = [h[m] EXCEPT !.count = @ + n]
          /\ \A i \in 1 .. m : i # m => e[i] = h[i]
      BY <2>1, <2>2, <2>3
    <3>2. Len(e) = m
      BY <2>1, <3>1
    <3>3. e[m].count = h[m].count + n
      BY <2>3, <3>1 DEF Tallies
    <3> QED
      BY <3>1, <3>2, <3>3
  <2>5. v[m] = w[m] + n /\ \A i \in 1 .. Len(w) : i # m => v[i] = w[i]
    BY <1>2, <2>1, <2>4
  <2>6. Len(v) = Len(w) /\ m \in 1 .. Len(w)
    BY <1>2, <2>1, <2>4
  <2>7. Total(v) = Total(w) + n
    BY <1>2, <2>5, <2>6, TotalGrows
  <2> QED
    BY <1>1, <1>3, <2>7
<1>5. CASE ~(h # <<>> /\ Last(h).chunk = k)
  <2>1. e = Append(h, [chunk |-> k, count |-> n])
    BY <1>1, <1>5 DEF Counted
  <2>2. PICK m \in Nat : m = Len(h)
    BY <1>2
  <2>3. Len(e) = m + 1 /\ e[m + 1].count = n /\ \A i \in 1 .. m : e[i] = h[i]
    BY <2>1, <2>2
  <2>4. v = Append(w, n)
    <3>1. \A i \in 1 .. m : v[i] = w[i]
      <4>1. \A i \in 1 .. m : i \in 1 .. Len(h) /\ i \in 1 .. Len(e)
        BY <2>2, <2>3
      <4> QED
        BY <1>2, <2>3, <4>1
    <3>2. v[m + 1] = n /\ Len(v) = m + 1 /\ Len(w) = m
      BY <1>2, <2>2, <2>3
    <3>3. Append(w, n) \in Seq(Nat) /\ Len(Append(w, n)) = m + 1
          /\ Append(w, n)[m + 1] = n /\ \A i \in 1 .. m : Append(w, n)[i] = w[i]
      <4>1. w \in Seq(Nat) /\ Len(w) = m
        BY <1>2, <3>2
      <4> QED
        BY <4>1
    <3>4. \A i \in 1 .. m + 1 : v[i] = Append(w, n)[i]
      BY <3>1, <3>2, <3>3
    <3> QED
      BY <1>2, <3>2, <3>3, <3>4
  <2>5. Total(v) = Total(w) + n
    BY <1>2, <2>4, TotalAppend
  <2> QED
    BY <1>1, <1>3, <2>5
<1> QED
  BY <1>4, <1>5

(* The entries of a counter, offset by offset.                             *)
StoredAt(t) == [n \in 1 .. MaxPages * PageSize |-> Summed(EntriesAt(t, n - 1))]

LEMMA StoredIs ==
  ASSUME TypeOK, NEW t \in Counters
  PROVE  /\ MaxPages * PageSize \in Nat
         /\ StoredAt(t) \in Seq(Nat) /\ Len(StoredAt(t)) = MaxPages * PageSize
         /\ \A n \in 1 .. MaxPages * PageSize : /\ n - 1 \in Offsets
                                                /\ StoredAt(t)[n] = Summed(EntriesAt(t, n - 1))
         /\ RowsStored(t) = Total(StoredAt(t))
<1>1. MaxPages * PageSize \in Nat
  BY MapFacts DEF MaxPages
<1>2. \A n \in 1 .. MaxPages * PageSize : n - 1 \in Offsets
  BY <1>1 DEF Offsets
<1>3. \A n \in 1 .. MaxPages * PageSize : Summed(EntriesAt(t, n - 1)) \in Nat
  BY <1>2, EntriesTyped, SummedIs
<1>4. /\ StoredAt(t) \in [1 .. MaxPages * PageSize -> Nat]
      /\ \A n \in 1 .. MaxPages * PageSize : StoredAt(t)[n] = Summed(EntriesAt(t, n - 1))
  BY <1>3 DEF StoredAt
<1>5. StoredAt(t) \in Seq(Nat) /\ Len(StoredAt(t)) = MaxPages * PageSize
  BY <1>1, <1>4, FunctionIsSeq
<1>6. RowsStored(t) = Total(StoredAt(t))
  BY DEF RowsStored, StoredAt, Summed, SumOver
<1> QED
  BY <1>1, <1>2, <1>4, <1>5, <1>6

LEMMA NothingStored ==
  ASSUME TypeOK, NEW t \in Counters, \A o \in Offsets : EntriesAt(t, o) = <<>>
  PROVE  RowsStored(t) = 0
<1>1. Summed(<<>>) = 0
  <2>1. [i \in DOMAIN <<>> |-> <<>>[i].count] = <<>>
    OBVIOUS
  <2> QED
    BY <2>1, TotalEmpty DEF Summed
<1>2. \A n \in 1 .. MaxPages * PageSize : StoredAt(t)[n] = 0
  BY <1>1, StoredIs
<1> QED
  BY <1>2, StoredIs, TotalOfZeros

(* CountAccess adds the access's rows to the entries of its counter.       *)
LEMMA CountAccessStores ==
  ASSUME IInv, IInv', NEW t \in Counters, CountAccess(t)
  PROVE  /\ RowsStored(t)' = RowsStored(t) + RowsPerWord(AccessOf(t))
         /\ \A s \in Counters : s # t => RowsStored(s)' = RowsStored(s)
<1>1. PICK word, o, e : Counts(t, word, o, e)
  BY CountAccessIs
<1>2. RowsPerWord(AccessOf(t)) \in Nat
  BY CountAccessIs
<1>3. /\ o \in Offsets /\ e = Counted(EntriesAt(t, o), current[t] - 1, RowsPerWord(AccessOf(t)))
      /\ \A s \in Counters, q \in Offsets :
           EntriesAt(s, q)' = IF s = t /\ q = o THEN e ELSE EntriesAt(s, q)
  BY <1>1 DEF Counts
<1>4. \A n \in 1 .. MaxPages * PageSize : n - 1 \in Offsets
  BY StoredIs DEF IInv
<1>5. EntriesAt(t, o) \in Seq(Tallies)
  BY <1>3, EntriesTyped DEF IInv
<1>6. e \in Seq(Tallies)
  <2>1. e = IF o \in DOMAIN table'[t] THEN table'[t][o] ELSE <<>>
    BY <1>3 DEF EntriesAt
  <2>2. \A q \in DOMAIN table'[t] : table'[t][q] \in Seq(Tallies)
    BY DEF IInv, TypeOK
  <2> QED
    BY <2>1, <2>2
<1>7. Summed(e) = Summed(EntriesAt(t, o)) + RowsPerWord(AccessOf(t))
  BY <1>2, <1>3, <1>5, <1>6, SummedCounted
<1>8. \A s \in Counters : RowsStored(s)' = Total(StoredAt(s)')
  BY DEF RowsStored, StoredAt, Summed, SumOver
<1>9. \A s \in Counters : RowsStored(s) = Total(StoredAt(s))
  BY DEF RowsStored, StoredAt, Summed, SumOver
<1>10. ASSUME NEW s \in Counters
       PROVE  StoredAt(s)' = [n \in 1 .. MaxPages * PageSize |->
                                IF s = t /\ n - 1 = o THEN Summed(e) ELSE Summed(EntriesAt(s, n - 1))]
  <2>1. StoredAt(s)' = [n \in 1 .. MaxPages * PageSize |-> Summed(EntriesAt(s, n - 1)')]
    BY DEF StoredAt, Summed
  <2>2. \A n \in 1 .. MaxPages * PageSize :
          Summed(EntriesAt(s, n - 1)')
            = IF s = t /\ n - 1 = o THEN Summed(e) ELSE Summed(EntriesAt(s, n - 1))
    BY <1>3, <1>4
  <2> QED
    BY <2>1, <2>2
<1>11. ASSUME NEW s \in Counters, s # t PROVE RowsStored(s)' = RowsStored(s)
  <2>1. StoredAt(s)' = StoredAt(s)
    BY <1>10, <1>11 DEF StoredAt
  <2> QED
    BY <1>8, <1>9, <2>1
<1>12. RowsStored(t)' = RowsStored(t) + RowsPerWord(AccessOf(t))
  <2> DEFINE w == StoredAt(t)
             v == StoredAt(t)'
  <2>1. PICK N \in Nat : N = MaxPages * PageSize
    BY StoredIs DEF IInv
  <2>2. w \in Seq(Nat) /\ Len(w) = N /\ \A n \in 1 .. N : w[n] = Summed(EntriesAt(t, n - 1))
    BY <2>1, StoredIs DEF IInv
  <2>3. /\ DOMAIN v = 1 .. N
        /\ \A n \in 1 .. N :
             v[n] = IF n - 1 = o THEN Summed(e) ELSE Summed(EntriesAt(t, n - 1))
    BY <1>10, <2>1
  <2>4. o + 1 \in 1 .. N /\ (o + 1) - 1 = o /\ \A n \in 1 .. N : n # o + 1 => n - 1 # o
    BY <1>3, <2>1 DEF Offsets
  <2>5. v = [n \in 1 .. N |-> IF n - 1 = o THEN Summed(e) ELSE Summed(EntriesAt(t, n - 1))]
    BY <1>10, <2>1
  <2> HIDE DEF v, w
  <2>6. v[o + 1] = w[o + 1] + RowsPerWord(AccessOf(t)) /\ \A n \in 1 .. N : n # o + 1 => v[n] = w[n]
    BY <1>7, <2>2, <2>3, <2>4
  <2>7. v \in Seq(Nat) /\ Len(v) = N
    <3>1. \A n \in 1 .. N : w[n] \in Nat
      BY <2>2
    <3>2. \A n \in 1 .. N : v[n] \in Nat
      BY <1>2, <2>4, <2>6, <3>1
    <3>3. v \in [1 .. N -> Nat]
      BY <2>3, <2>5, <3>2
    <3> QED
      BY <3>3, FunctionIsSeq
  <2>8. Total(v) = Total(w) + RowsPerWord(AccessOf(t))
    <3>1. PICK x \in Nat, k \in 1 .. N : x = RowsPerWord(AccessOf(t)) /\ k = o + 1
      BY <1>2, <2>4
    <3>2. /\ Len(v) = Len(w) /\ k \in 1 .. Len(w) /\ v[k] = w[k] + x
          /\ \A n \in 1 .. Len(w) : n # k => v[n] = w[n]
      BY <2>2, <2>6, <2>7, <3>1
    <3>3. Total(v) = Total(w) + x
      BY <2>2, <2>7, <3>2, TotalGrows
    <3> QED
      BY <3>1, <3>3
  <2> QED
    BY <1>8, <1>9, <2>8 DEF v, w
<1> QED
  BY <1>11, <1>12

-----------------------------------------------------------------------------
(* The invariant with the sums                                             *)

(* The weights that are added up.                                          *)
RowsFor(t) == [r \in Raw |-> RowsBy(t, r)]
Unaligned == [r \in Raw |-> IF Aligned(r) THEN 0 ELSE 1]
RowsToAlign == [r \in Raw |-> IF Aligned(r) THEN 0 ELSE AlignRows(r)]
Operations == [r \in Raw |-> CountOperations(r)]

LEMMA WeightTypes ==
  /\ \A t : RowsFor(t) \in [Raw -> Nat]
  /\ Unaligned \in [Raw -> Nat] /\ RowsToAlign \in [Raw -> Nat] /\ Operations \in [Raw -> Nat]
<1>1. \A r \in Raw : r.flags.high \in Nat
  <2> SUFFICES ASSUME NEW r \in Raw PROVE r.flags.high \in Nat
    OBVIOUS
  <2>1. r.flags.high \in Half
    BY RawIs
  <2> QED
    BY <2>1, SMT DEF Half
<1>2. \A t : \A r \in Raw : RowsBy(t, r) \in Nat
  BY <1>1 DEF RowsBy, RowsPerWord
<1>3. \A r : AlignRows(r) \in Nat /\ CountOperations(r) \in Nat
  BY DEF AlignRows, CountOperations
<1> QED
  BY <1>2, <1>3 DEF RowsFor, Unaligned, RowsToAlign, Operations

EmptyTrace == \A c \in DOMAIN loaded : loaded[c] = <<>>

(* Everything that is counted is the weight of what has been gone through, *)
(* and tot_ops that of what has been loaded, unless it was converted.      *)
RowsSummed ==
  /\ \A t \in Counters : RowsStored(t) = Behind(RowsFor(t), t)
  /\ align.ops = Behind(Unaligned, Align)
  /\ align.rows = Behind(RowsToAlign, Align)
  /\ ~convert \/ EmptyTrace => tot_ops = Whole(Operations)

SInv == IInv /\ RowsSummed

(* The tables as they are.                                                 *)
LEMMA StoredSame ==
  ASSUME table' = table
  PROVE  \A t : RowsStored(t)' = RowsStored(t)
BY DEF RowsStored, EntriesAt, SumOver

LEMMA ActorsAre ==
  Align \in Actors /\ Align \notin Counters /\ \A t \in Counters : t \in Actors /\ t # Align
<1>1. Align \notin Nat /\ Threads \in Nat
  BY CountAssumption
<1>2. Counters \subseteq Nat
  BY <1>1 DEF Counters
<1> QED
  BY <1>1, <1>2 DEF Actors

(* Before the counters start there is nothing stored and nothing behind.   *)
AtStart ==
  current = [t \in Actors |-> 1] /\ position = [t \in Actors |-> 0]
    => \A f \in [Raw -> Nat], t \in Actors : Behind(f, t) = 0

LEMMA NothingBehind == TypeOK => AtStart
<1> SUFFICES ASSUME TypeOK, current = [t \in Actors |-> 1], position = [t \in Actors |-> 0],
                    NEW f \in [Raw -> Nat], NEW t \in Actors
             PROVE  Behind(f, t) = 0
  BY DEF AtStart
<1>1. current[t] = 1 /\ position[t] = 0
  OBVIOUS
<1> QED
  BY <1>1, BehindNothing

LEMMA InitSInv == Init => SInv
<1> SUFFICES ASSUME Init PROVE SInv
  OBVIOUS
<1>1. IInv
  BY InitIInv
<1>2. /\ loaded = <<>> /\ tot_ops = 0 /\ align = [ops |-> 0, rows |-> 0]
      /\ current = [t \in Actors |-> 1] /\ position = [t \in Actors |-> 0]
      /\ table = [t \in Counters |-> <<>>]
  BY DEF Init, LoaderInit
<1>3. \A f \in [Raw -> Nat], t \in Actors : Behind(f, t) = 0
  BY <1>1, <1>2, NothingBehind DEF AtStart, IInv
<1>4. \A t \in Counters : RowsStored(t) = 0
  BY <1>1, <1>2, NothingCounted, NothingStored DEF IInv
<1>5. Whole(Operations) = 0
  <2>1. Len(loaded) = 0
    BY <1>2
  <2>2. [c \in 1 .. Len(loaded) |-> Total(Along(Operations, c))] = <<>>
    BY <2>1
  <2> QED
    BY <2>2, TotalEmpty DEF Whole
<1>6. RowsSummed
  BY <1>2, <1>3, <1>4, <1>5, WeightTypes, ActorsAre DEF RowsSummed
<1> QED
  BY <1>1, <1>6 DEF SInv

(* count_operations adds up what is in a chunk.                            *)
LEMMA WholeGrows ==
  ASSUME TypeOK, NEW f \in [Raw -> Nat], NEW chunk \in Seq(Raw), loaded' = Append(loaded, chunk)
  PROVE  Whole(f)' = Whole(f) + Total([i \in DOMAIN chunk |-> f[chunk[i]]])
<1>1. PICK n \in Nat : n = Len(loaded)
  BY LoadedType
<1>2. /\ Len(loaded') = n + 1 /\ loaded'[n + 1] = chunk
      /\ \A c \in 1 .. n : loaded'[c] = loaded[c]
  BY <1>1, LoadedType DEF TypeOK, LoaderTypeOK
<1>3. DOMAIN chunk = 1 .. Len(chunk) /\ Len(chunk) \in Nat /\ \A i \in 1 .. Len(chunk) : chunk[i] \in Raw
  BY SeqIsFunction
<1> DEFINE last == [i \in DOMAIN chunk |-> f[chunk[i]]]
           w == [c \in 1 .. Len(loaded) |-> Total(Along(f, c))]
           v == [c \in 1 .. Len(loaded) |-> Total(Along(f, c))]'
<1>4. Total(last) \in Nat
  <2>1. last \in [1 .. Len(chunk) -> Nat]
    BY <1>3
  <2> HIDE DEF last
  <2> QED
    BY <1>3, <2>1, FunctionIsSeq, TotalType
<1>5. w \in Seq(Nat) /\ Len(w) = n /\ \A c \in 1 .. n : w[c] = Total(Along(f, c))
  <2>1. \A c \in 1 .. n : Total(Along(f, c)) \in Nat
    BY <1>1, AlongIs, TotalType
  <2>2. w \in [1 .. n -> Nat] /\ \A c \in 1 .. n : w[c] = Total(Along(f, c))
    BY <1>1, <2>1
  <2> HIDE DEF w
  <2> QED
    BY <2>2, FunctionIsSeq
<1>6. v = [c \in 1 .. n + 1 |-> IF c = n + 1 THEN Total(last) ELSE Total(Along(f, c))]
  <2>1. v = [c \in 1 .. n + 1 |-> Total(Along(f, c)')]
    BY <1>2
  <2>2. Along(f, n + 1)' = last
    BY <1>2, <1>3 DEF Along
  <2>3. \A c \in 1 .. n : Along(f, c)' = Along(f, c)
    BY <1>2 DEF Along
  <2>4. \A c \in 1 .. n + 1 :
          Total(Along(f, c)') = IF c = n + 1 THEN Total(last) ELSE Total(Along(f, c))
    <3> HIDE DEF last
    <3> SUFFICES ASSUME NEW c \in 1 .. n + 1
                 PROVE  Total(Along(f, c)') = IF c = n + 1 THEN Total(last) ELSE Total(Along(f, c))
      OBVIOUS
    <3>1. CASE c = n + 1
      BY <2>2, <3>1
    <3>2. CASE c # n + 1
      <4>1. c \in 1 .. n
        BY <3>2
      <4> QED
        BY <2>3, <3>2, <4>1
    <3> QED
      BY <3>1, <3>2
  <2> HIDE DEF last, v
  <2> QED
    BY <2>1, <2>4
<1>7. v = Append(w, Total(last))
  <2>1. PICK x \in Nat : x = Total(last)
    BY <1>4
  <2>2. v = [c \in 1 .. n + 1 |-> IF c = n + 1 THEN x ELSE w[c]]
    <3>1. \A c \in 1 .. n + 1 : c # n + 1 => Total(Along(f, c)) = w[c]
      BY <1>5
    <3> HIDE DEF last, v, w
    <3> QED
      BY <1>6, <2>1, <3>1
  <2> HIDE DEF last, v, w
  <2>3. v = Append(w, x)
    <3>1. /\ Append(w, x) \in Seq(Nat) /\ Len(Append(w, x)) = n + 1 /\ Append(w, x)[n + 1] = x
          /\ \A c \in 1 .. n : Append(w, x)[c] = w[c]
      BY <1>5
    <3>2. \A c \in 1 .. n + 1 : c # n + 1 => c \in 1 .. n
      OBVIOUS
    <3>3. \A c \in 1 .. n + 1 : v[c] = Append(w, x)[c]
      BY <2>2, <3>1, <3>2
    <3>4. \A c \in 1 .. n : w[c] \in Nat
      BY <1>5
    <3>5. v \in [1 .. n + 1 -> Nat]
      BY <2>2, <3>2, <3>4
    <3>6. v \in Seq(Nat) /\ Len(v) = n + 1
      BY <3>5, FunctionIsSeq
    <3> QED
      BY <3>1, <3>3, <3>6
  <2> QED
    BY <2>1, <2>3
<1>8. Total(v) = Total(w) + Total(last)
  <2> HIDE DEF last, v, w
  <2> QED
    BY <1>4, <1>5, <1>7, TotalAppend
<1> QED
  BY <1>8 DEF Whole

LEMMA LoadChunkSums ==
  ASSUME SInv, IInv', LoadChunk, UNCHANGED <<current, position, table, align, terminated>>
  PROVE  RowsSummed'
<1>1. loading /\ directory \in Directories
  BY DEF LoadChunk, SInv, IInv, TypeOK, LoaderTypeOK
<1>2. /\ current = [t \in Actors |-> 1] /\ position = [t \in Actors |-> 0]
      /\ current' = [t \in Actors |-> 1] /\ position' = [t \in Actors |-> 0]
  BY <1>1 DEF SInv, IInv, NotStarted
<1>3. \A f \in [Raw -> Nat], t \in Actors : Behind(f, t) = 0 /\ Behind(f, t)' = 0
  <2>1. (TypeOK => AtStart)'
    BY NothingBehind, PTL
  <2> QED
    BY <1>2, <2>1, NothingBehind DEF AtStart, SInv, IInv
<1>4. \A t \in Counters : RowsStored(t)' = RowsStored(t)
  BY StoredSame
<1>5. PICK file, chunk, first :
        /\ chunk \in ChunksFrom(file) /\ file = directory.files[NextFile]
        /\ NextFile \in DOMAIN directory.files /\ file.got >= 0
        /\ convert' = (convert \/ (loaded = <<>> /\ LooksOld(first.flags)))
        /\ loaded' = Append(loaded,
             IF convert' THEN [i \in DOMAIN chunk |-> Reformed(chunk[i])] ELSE chunk)
        /\ tot_ops' = tot_ops + SumOver(chunk, CountOperations)
  BY DEF LoadChunk, Loadable, Reformed
<1>6. chunk \in Seq(Raw)
  BY <1>1, <1>5, ChunkIs
<1>7. ASSUME ~convert' \/ EmptyTrace' PROVE tot_ops' = Whole(Operations)'
  <2>1. PICK n \in Nat : n = Len(loaded) /\ loaded \in Seq(Seq(Raw)) /\ DOMAIN loaded = 1 .. n
    BY LoadedType DEF SInv, IInv, TypeOK, LoaderTypeOK
  <2>2. PICK kept : kept = IF convert' THEN [i \in DOMAIN chunk |-> Reformed(chunk[i])] ELSE chunk
    OBVIOUS
  <2>3. /\ loaded' = Append(loaded, kept) /\ loaded'[n + 1] = kept /\ n + 1 \in DOMAIN loaded'
        /\ \A c \in 1 .. n : c \in DOMAIN loaded' /\ loaded'[c] = loaded[c]
    BY <1>5, <2>1, <2>2
  <2>4. kept = chunk
    <3>1. CASE ~convert'
      BY <2>2, <3>1
    <3>2. CASE convert' /\ EmptyTrace'
      <4>1. kept = <<>>
        BY <2>3, <3>2 DEF EmptyTrace
      <4>2. DOMAIN chunk = DOMAIN kept
        BY <2>2, <3>2
      <4>3. Len(chunk) = 0
        BY <1>6, <4>1, <4>2
      <4> QED
        BY <1>6, <4>1, <4>3
    <3> QED
      BY <1>7, <3>1, <3>2
  <2>5. ~convert \/ EmptyTrace
    BY <1>5, <1>7, <2>1, <2>3 DEF EmptyTrace
  <2>6. tot_ops = Whole(Operations)
    BY <2>5 DEF SInv, RowsSummed
  <2>7. Whole(Operations)' = Whole(Operations) + Total([i \in DOMAIN chunk |-> Operations[chunk[i]]])
    BY <1>6, <2>3, <2>4, WeightTypes, WholeGrows DEF SInv, IInv
  <2>8. SumOver(chunk, CountOperations) = Total([i \in DOMAIN chunk |-> Operations[chunk[i]]])
    <3>1. \A i \in DOMAIN chunk : Operations[chunk[i]] = CountOperations(chunk[i])
      BY <1>6, SeqIsFunction DEF Operations
    <3>2. [i \in DOMAIN chunk |-> Operations[chunk[i]]] = [i \in DOMAIN chunk |-> CountOperations(chunk[i])]
      BY <3>1
    <3> QED
      BY <3>2 DEF SumOver
  <2> QED
    BY <1>5, <2>6, <2>7, <2>8
<1>8. align' = align
  OBVIOUS
<1> QED
  BY <1>3, <1>4, <1>7, <1>8, WeightTypes, ActorsAre DEF SInv, RowsSummed

(* A step that leaves all of this alone.                                   *)
LEMMA FrameSums ==
  ASSUME RowsSummed, UNCHANGED <<loaded, convert, tot_ops, current, position, table, align>>
  PROVE  RowsSummed'
<1>1. \A c, f : Along(f, c)' = Along(f, c)
  BY DEF Along
<1>2. \A t, c : GoneThrough(t, c)' = GoneThrough(t, c)
  BY DEF GoneThrough
<1>3. \A f, t : Behind(f, t)' = Behind(f, t)
  BY <1>1, <1>2 DEF Behind, BehindIn
<1>4. \A t : RowsStored(t)' = RowsStored(t)
  BY StoredSame
<1>5. Whole(Operations)' = Whole(Operations) /\ EmptyTrace' = EmptyTrace
  BY <1>1 DEF Whole, EmptyTrace
<1> QED
  BY <1>3, <1>4, <1>5 DEF RowsSummed

(* What is loaded, and what was counted of it by load, remains.            *)
LEMMA LoadedSums ==
  ASSUME RowsSummed, UNCHANGED <<loaded, convert, tot_ops>>
  PROVE  (~convert \/ EmptyTrace => tot_ops = Whole(Operations))'
<1>1. \A c : Along(Operations, c)' = Along(Operations, c)
  BY DEF Along
<1>2. Whole(Operations)' = Whole(Operations) /\ EmptyTrace' = EmptyTrace
  BY <1>1 DEF Whole, EmptyTrace
<1> QED
  BY <1>2 DEF RowsSummed

LEMMA CountStepSums ==
  ASSUME SInv, IInv', NEW t \in Counters, SkipAccess(t) \/ CountAccess(t)
  PROVE  RowsSummed'
<1>1. /\ InChunk(t) /\ Step(t) /\ current' = current /\ align' = align
      /\ loaded' = loaded /\ convert' = convert /\ tot_ops' = tot_ops
  BY DEF SkipAccess, CountAccess, loader_vars
<1>2. IInv /\ TypeOK /\ TypeOK' /\ LoadedIs /\ RowsSummed /\ t \in Actors
  BY ActorsAre DEF SInv, IInv
<1>3. AccessOf(t) \in Raw
  BY <1>1, <1>2, AccessIs
<1>4. \A f \in [Raw -> Nat] :
        /\ Behind(f, t)' = Behind(f, t) + f[AccessOf(t)]
        /\ \A s \in Actors : s # t => Behind(f, s)' = Behind(f, s)
  BY <1>1, <1>2, BehindStep
<1>5. /\ RowsStored(t)' = RowsStored(t) + RowsFor(t)[AccessOf(t)]
      /\ \A s \in Counters : s # t => RowsStored(s)' = RowsStored(s)
  <2>1. CASE SkipAccess(t)
    <3>1. WordsOf(t, AccessOf(t)) = {} /\ table' = table
      BY <2>1 DEF SkipAccess
    <3>2. RowsFor(t)[AccessOf(t)] = 0
      BY <1>3, <3>1 DEF RowsFor, RowsBy
    <3>3. \A s \in Counters : RowsStored(s)' = RowsStored(s)
      BY <3>1, StoredSame
    <3>4. RowsStored(t) \in Nat
      BY <1>2, StoredIs, TotalType
    <3> QED
      BY <3>2, <3>3, <3>4
  <2>2. CASE CountAccess(t)
    <3>1. PICK word, o, e : Counts(t, word, o, e)
      BY <1>2, <2>2, CountAccessIs
    <3>2. WordsOf(t, AccessOf(t)) # {}
      BY <3>1 DEF Counts
    <3>3. RowsFor(t)[AccessOf(t)] = RowsPerWord(AccessOf(t))
      BY <1>3, <3>2 DEF RowsFor, RowsBy
    <3> QED
      BY <1>2, <2>2, <3>3, CountAccessStores
  <2> QED
    BY <2>1, <2>2
<1>6. \A s \in Counters : RowsStored(s)' = Behind(RowsFor(s), s)'
  <2> SUFFICES ASSUME NEW s \in Counters PROVE RowsStored(s)' = Behind(RowsFor(s), s)'
    OBVIOUS
  <2>1. RowsStored(s) = Behind(RowsFor(s), s) /\ RowsFor(s) \in [Raw -> Nat] /\ s \in Actors
    BY <1>2, WeightTypes, ActorsAre DEF RowsSummed
  <2>2. CASE s = t
    <3>1. Behind(RowsFor(t), t)' = Behind(RowsFor(t), t) + RowsFor(t)[AccessOf(t)]
      BY <1>4, <2>1, <2>2
    <3> QED
      BY <1>5, <2>1, <2>2, <3>1
  <2>3. CASE s # t
    <3>1. Behind(RowsFor(s), s)' = Behind(RowsFor(s), s)
      BY <1>4, <2>1, <2>3
    <3> QED
      BY <1>5, <2>1, <2>3, <3>1
  <2> QED
    BY <2>2, <2>3
<1>7. /\ Behind(Unaligned, Align)' = Behind(Unaligned, Align)
      /\ Behind(RowsToAlign, Align)' = Behind(RowsToAlign, Align)
  BY <1>4, WeightTypes, ActorsAre
<1>8. (~convert \/ EmptyTrace => tot_ops = Whole(Operations))'
  BY <1>1, <1>2, LoadedSums
<1> QED
  BY <1>1, <1>2, <1>6, <1>7, <1>8 DEF RowsSummed

LEMMA AlignStepSums ==
  ASSUME SInv, IInv', AlignAccess
  PROVE  RowsSummed'
<1>1. PICK r : r = AccessOf(Align)
  OBVIOUS
<1>2. /\ InChunk(Align) /\ Step(Align) /\ current' = current /\ table' = table
      /\ loaded' = loaded /\ convert' = convert /\ tot_ops' = tot_ops
      /\ align' = IF Aligned(r) THEN align
                  ELSE [ops |-> align.ops + 1, rows |-> align.rows + AlignRows(r)]
  BY <1>1 DEF AlignAccess, loader_vars
<1>3. TypeOK /\ TypeOK' /\ LoadedIs /\ RowsSummed /\ Align \in Actors
  BY ActorsAre DEF SInv, IInv
<1>4. r \in Raw
  BY <1>1, <1>2, <1>3, AccessIs
<1>5. \A f \in [Raw -> Nat] :
        /\ Behind(f, Align)' = Behind(f, Align) + f[r]
        /\ \A s \in Actors : s # Align => Behind(f, s)' = Behind(f, s)
  BY <1>1, <1>2, <1>3, BehindStep
<1>6. \A s \in Counters : RowsStored(s)' = Behind(RowsFor(s), s)'
  <2> SUFFICES ASSUME NEW s \in Counters PROVE RowsStored(s)' = Behind(RowsFor(s), s)'
    OBVIOUS
  <2>1. RowsStored(s)' = RowsStored(s)
    BY <1>2, StoredSame
  <2>2. Behind(RowsFor(s), s)' = Behind(RowsFor(s), s)
    BY <1>5, WeightTypes, ActorsAre
  <2> QED
    BY <1>3, <2>1, <2>2 DEF RowsSummed
<1>7. /\ align.ops \in Nat /\ align.rows \in Nat
      /\ align.ops = Behind(Unaligned, Align) /\ align.rows = Behind(RowsToAlign, Align)
  BY <1>3 DEF TypeOK, RowsSummed
<1>8. /\ Behind(Unaligned, Align)' = align.ops + Unaligned[r]
      /\ Behind(RowsToAlign, Align)' = align.rows + RowsToAlign[r]
  BY <1>5, <1>7, WeightTypes
<1>9. /\ align'.ops = align.ops + Unaligned[r]
      /\ align'.rows = align.rows + RowsToAlign[r]
  <2>1. CASE Aligned(r)
    BY <1>2, <1>4, <1>7, <2>1 DEF Unaligned, RowsToAlign
  <2>2. CASE ~Aligned(r)
    <3>1. Unaligned[r] = 1 /\ RowsToAlign[r] = AlignRows(r)
      BY <1>4, <2>2 DEF Unaligned, RowsToAlign
    <3>2. align' = [ops |-> align.ops + 1, rows |-> align.rows + AlignRows(r)]
      BY <1>2, <2>2
    <3> QED
      BY <3>1, <3>2
  <2> QED
    BY <2>1, <2>2
<1>10. (~convert \/ EmptyTrace => tot_ops = Whole(Operations))'
  BY <1>2, <1>3, LoadedSums
<1> QED
  BY <1>6, <1>8, <1>9, <1>10 DEF RowsSummed

LEMMA NextChunkSums ==
  ASSUME SInv, NEW t \in Actors, NextChunk(t)
  PROVE  RowsSummed'
<1>1. /\ table' = table /\ align' = align
      /\ loaded' = loaded /\ convert' = convert /\ tot_ops' = tot_ops
  BY DEF NextChunk, loader_vars
<1>2. TypeOK /\ RowsSummed
  BY DEF SInv, IInv
<1>3. \A f, s : s \in Actors => Behind(f, s)' = Behind(f, s)
  BY <1>2, BehindNext
<1>4. \A s \in Counters : RowsStored(s)' = RowsStored(s)
  BY <1>1, StoredSame
<1>5. (~convert \/ EmptyTrace => tot_ops = Whole(Operations))'
  BY <1>1, <1>2, LoadedSums
<1> QED
  BY <1>1, <1>2, <1>3, <1>4, <1>5, ActorsAre DEF RowsSummed

LEMMA NextSInv == SInv /\ [Next]_vars => SInv'
<1> SUFFICES ASSUME SInv, [Next]_vars PROVE SInv'
  OBVIOUS
<1>1. IInv'
  BY NextIInv DEF SInv
<1> SUFFICES RowsSummed'
  BY <1>1 DEF SInv
<1>2. ASSUME UNCHANGED <<loaded, convert, tot_ops, current, position, table, align>> PROVE RowsSummed'
  BY <1>2, FrameSums DEF SInv
<1>3. CASE UNCHANGED vars
  BY <1>2, <1>3 DEF vars, loader_vars
<1>4. CASE LoadTrace
  <2>1. CASE LoadChunk
    BY <1>1, <1>4, <2>1, LoadChunkSums DEF LoadTrace
  <2>2. CASE LoadEnds
    BY <1>2, <1>4, <2>2 DEF LoadTrace, LoadEnds
  <2> QED
    BY <1>4, <2>1, <2>2 DEF LoadTrace, Load
<1>5. CASE CountTrace
  <2>1. ASSUME NEW t \in Counters, SkipAccess(t) \/ CountAccess(t) PROVE RowsSummed'
    BY <1>1, <2>1, CountStepSums
  <2>2. ASSUME NEW t \in Counters, UnmappedAccess(t) PROVE RowsSummed'
    BY <1>2, <2>2 DEF UnmappedAccess, loader_vars
  <2>3. CASE AlignAccess
    BY <1>1, <2>3, AlignStepSums
  <2>4. CASE AssertionFails
    BY <1>2, <2>4 DEF AssertionFails, loader_vars
  <2>5. ASSUME NEW t \in Actors, NextChunk(t) PROVE RowsSummed'
    BY <2>5, NextChunkSums
  <2> QED
    BY <1>5, <2>1, <2>2, <2>3, <2>4, <2>5 DEF CountTrace
<1>6. CASE Finished
  BY <1>2, <1>6 DEF Finished, vars, loader_vars
<1> QED
  BY <1>3, <1>4, <1>5, <1>6 DEF Next

LEMMA StrongInvariance == Spec => []SInv
BY InitSInv, NextSInv, PTL DEF Spec

(* Once all is counted every access has passed the assertion, so that the  *)
(* format has been recognised and the access is as it was recorded.        *)
LEMMA PassedAccess ==
  ASSUME IInv, AllCounted, IntactChunks = DOMAIN loaded,
         NEW c \in DOMAIN loaded, NEW i \in 1 .. Len(loaded[c])
  PROVE  /\ Understood
         /\ \E a \in Access :
              loaded[c][i] = [addr |-> a.addr, flags |-> [high |-> Bit(a.write), low |-> a.bytes]]
<1>1. TypeOK /\ c \in 1 .. Len(loaded) /\ i \in DOMAIN loaded[c] /\ i \in Nat
  BY LoadedType DEF IInv
<1>2. GoneThrough(Align, c) = Len(loaded[c])
  BY <1>1, ActorsAre, GoneThroughAll DEF AllCounted
<1>3. c < current[Align] \/ (c = current[Align] /\ i <= position[Align])
  <2>1. Len(loaded[c]) # 0
    BY <1>1
  <2> QED
    BY <1>2, <2>1 DEF GoneThrough
<1>4. Asserted(loaded[c][i])
  BY <1>1, <1>3 DEF IInv, AlignPassed
<1>5. PICK a \in Access : loaded[c][i] = Taken(a)
  BY IntactIs DEF IInv
<1>6. directory.format \in {"new", "old"} /\ convert \in BOOLEAN
  BY FileIs DEF IInv, TypeOK, LoaderTypeOK
<1>7. /\ Understood => Taken(a) = [addr |-> a.addr,
                                   flags |-> [high |-> Bit(a.write), low |-> a.bytes]]
      /\ ~Understood => ~Asserted(Taken(a))
  BY <1>6, TakenIs
<1> QED
  BY <1>4, <1>5, <1>7

(* Thread by thread or access by access, the sum is the same.              *)
LEMMA WholeByThreads ==
  ASSUME TypeOK,
         \A c \in 1 .. Len(loaded) : \A i \in 1 .. Len(loaded[c]) :
           Total([n \in 1 .. Threads |-> RowsBy(n - 1, loaded[c][i])])
             = CountOperations(loaded[c][i])
  PROVE  Total([n \in 1 .. Threads |-> Whole(RowsFor(n - 1))]) = Whole(Operations)
<1>1. PICK T \in Nat, L \in Nat : T = Threads /\ L = Len(loaded)
  BY MapFacts, LoadedType
<1> DEFINE chunks == [n \in 1 .. T |-> [c \in 1 .. L |-> Total(Along(RowsFor(n - 1), c))]]
<1>2. ASSUME NEW n \in 1 .. T, NEW c \in 1 .. L
      PROVE  /\ Along(RowsFor(n - 1), c) \in [1 .. Len(loaded[c]) -> Nat]
             /\ Total(Along(RowsFor(n - 1), c)) \in Nat
             /\ \A i \in 1 .. Len(loaded[c]) :
                  Along(RowsFor(n - 1), c)[i] = RowsBy(n - 1, loaded[c][i])
  <2>1. /\ Along(RowsFor(n - 1), c) \in Seq(Nat)
        /\ Len(Along(RowsFor(n - 1), c)) = Len(loaded[c])
        /\ \A i \in 1 .. Len(loaded[c]) :
             Along(RowsFor(n - 1), c)[i] = RowsFor(n - 1)[loaded[c][i]]
    BY <1>1, WeightTypes, AlongIs
  <2>2. \A i \in 1 .. Len(loaded[c]) : loaded[c][i] \in Raw
    BY <1>1, LoadedType
  <2>3. \A i \in 1 .. Len(loaded[c]) : RowsFor(n - 1)[loaded[c][i]] = RowsBy(n - 1, loaded[c][i])
    BY <2>2 DEF RowsFor
  <2>4. Along(RowsFor(n - 1), c) \in [1 .. Len(loaded[c]) -> Nat]
    BY <2>1
  <2> QED
    BY <2>1, <2>3, <2>4, TotalType
<1>3. chunks \in [1 .. T -> [1 .. L -> Nat]]
  BY <1>2
<1>4. Total([n \in 1 .. T |-> Total(chunks[n])])
        = Total([c \in 1 .. L |-> Total([n \in 1 .. T |-> chunks[n][c]])])
  <2> HIDE DEF chunks
  <2> QED
    BY <1>3, TotalExchange
<1>5. [n \in 1 .. T |-> Total(chunks[n])] = [n \in 1 .. T |-> Whole(RowsFor(n - 1))]
  BY <1>1 DEF Whole
<1>6. ASSUME NEW c \in 1 .. L
      PROVE  Total([n \in 1 .. T |-> chunks[n][c]]) = Total(Along(Operations, c))
  <2>1. PICK K \in Nat : K = Len(loaded[c])
    BY <1>1, LoadedType
  <2> DEFINE accesses == [n \in 1 .. T |-> Along(RowsFor(n - 1), c)]
  <2>2. accesses \in [1 .. T -> [1 .. K -> Nat]]
    BY <1>2, <2>1
  <2>3. Total([n \in 1 .. T |-> Total(accesses[n])])
          = Total([i \in 1 .. K |-> Total([n \in 1 .. T |-> accesses[n][i]])])
    <3> HIDE DEF accesses
    <3> QED
      BY <2>2, TotalExchange
  <2>4. [n \in 1 .. T |-> Total(accesses[n])] = [n \in 1 .. T |-> chunks[n][c]]
    OBVIOUS
  <2>5. ASSUME NEW i \in 1 .. K
        PROVE  Total([n \in 1 .. T |-> accesses[n][i]]) = Operations[loaded[c][i]]
    <3>1. \A n \in 1 .. T : accesses[n][i] = RowsBy(n - 1, loaded[c][i])
      BY <1>2, <2>1
    <3>2. [n \in 1 .. T |-> accesses[n][i]] = [n \in 1 .. T |-> RowsBy(n - 1, loaded[c][i])]
      BY <3>1
    <3>3. Total([n \in 1 .. T |-> RowsBy(n - 1, loaded[c][i])]) = CountOperations(loaded[c][i])
      BY <1>1, <2>1
    <3>4. Operations[loaded[c][i]] = CountOperations(loaded[c][i])
      BY <1>1, <2>1, LoadedType DEF Operations
    <3> QED
      BY <3>2, <3>3, <3>4
  <2>6. [i \in 1 .. K |-> Total([n \in 1 .. T |-> accesses[n][i]])] = Along(Operations, c)
    BY <2>1, <2>5 DEF Along
  <2> QED
    BY <2>3, <2>4, <2>6
<1>7. [c \in 1 .. L |-> Total([n \in 1 .. T |-> chunks[n][c]])]
        = [c \in 1 .. L |-> Total(Along(Operations, c))]
  BY <1>6
<1> QED
  BY <1>1, <1>4, <1>5, <1>7 DEF Whole

-----------------------------------------------------------------------------
(* The theorems                                                            *)

(* Every table has entries of the trace's chunks at offsets of the map's   *)
(* pages, and every thread is in a chunk of the trace.                     *)
THEOREM TypesCorrect == Spec => []TypeOK
<1>1. IInv => TypeOK
  BY DEF IInv
<1> QED
  BY <1>1, Invariance, PTL

(* Whatever the interleaving of the counters, the tables of a trace whose  *)
(* format is recognised hold the rows of its words and nothing else, chunk *)
(* by chunk, at the offsets that offset_to_addr takes back to the words.   *)
THEOREM TablesAreTrace == Spec => []TableIsTrace
<1>1. IInv => TableIsTrace
  BY DEF IInv
<1> QED
  BY <1>1, Invariance, PTL

(* Counting ends with a trace in a format that was not recognised only if  *)
(* it is empty: MemAlignCounter goes over every access.                    *)
THEOREM MisreadTracesStop == Spec => []MisreadTraceStopped
<1>1. IInv => MisreadTraceStopped
  <2> SUFFICES ASSUME IInv, AllCounted, IntactChunks = DOMAIN loaded, ~Understood,
                      NEW c \in DOMAIN loaded, loaded[c] # <<>>
               PROVE  FALSE
    BY DEF MisreadTraceStopped
  <2>1. 1 \in 1 .. Len(loaded[c])
    BY LoadedType DEF IInv
  <2> QED
    BY <2>1, PassedAccess
<1> QED
  BY <1>1, Invariance, PTL

(* At the end of the count the counters together have as many rows as the  *)
(* accesses make operations, those load has added up if the format is the  *)
(* new one, and MemAlignCounter has one more for each of its accesses:     *)
(* whatever the accesses and their division among threads.                 *)
THEOREM RowsAreOperations == Spec => []OperationsConserved
<1>1. SInv => OperationsConserved
  <2> SUFFICES ASSUME SInv, AllCounted, IntactChunks = DOMAIN loaded
               PROVE  /\ RowsCounted = OverTrace(CountOperations)
                      /\ directory.format = "new" => tot_ops = RowsCounted
                      /\ align.ops = OverTrace(LAMBDA r : IF Aligned(r) THEN 0 ELSE 1)
                      /\ align.rows
                           = OverTrace(LAMBDA r : IF Aligned(r) THEN 0 ELSE 1 + CountOperations(r))
    BY DEF OperationsConserved
  <2>1. IInv /\ TypeOK /\ RowsSummed
    BY DEF SInv, IInv
  <2>2. /\ DOMAIN loaded = 1 .. Len(loaded)
        /\ \A c \in 1 .. Len(loaded) :
             /\ DOMAIN loaded[c] = 1 .. Len(loaded[c])
             /\ \A i \in 1 .. Len(loaded[c]) : loaded[c][i] \in Raw
    BY <2>1, LoadedType
  <2>3. ASSUME NEW c \in 1 .. Len(loaded), NEW i \in 1 .. Len(loaded[c])
        PROVE  /\ Understood
               /\ Total([n \in 1 .. Threads |-> RowsBy(n - 1, loaded[c][i])])
                    = CountOperations(loaded[c][i])
               /\ ~Aligned(loaded[c][i])
                    => AlignRows(loaded[c][i]) = 1 + CountOperations(loaded[c][i])
    <3>1. /\ Understood
          /\ \E a \in Access :
               loaded[c][i] = [addr |-> a.addr, flags |-> [high |-> Bit(a.write), low |-> a.bytes]]
      BY <2>1, <2>2, PassedAccess
    <3> DEFINE r == loaded[c][i]
    <3>2. PICK a \in Access :
            r = [addr |-> a.addr, flags |-> [high |-> Bit(a.write), low |-> a.bytes]]
      BY <3>1
    <3> HIDE DEF r
    <3>3. /\ Total([n \in 1 .. Threads |-> RowsBy(n - 1, r)]) = CountOperations(r)
          /\ ~Aligned(r) => AlignRows(r) = 1 + CountOperations(r)
      BY <3>2, AccessRows
    <3> QED
      BY <3>1, <3>3 DEF r
  <2>4. directory.format = "new" => tot_ops = Whole(Operations)
    <3> SUFFICES ASSUME directory.format = "new" PROVE tot_ops = Whole(Operations)
      OBVIOUS
    <3>1. ~convert \/ EmptyTrace
      <4> SUFFICES ASSUME convert, NEW c \in 1 .. Len(loaded), loaded[c] # <<>> PROVE FALSE
        BY <2>2 DEF EmptyTrace
      <4>1. 1 \in 1 .. Len(loaded[c])
        BY <2>1, LoadedType
      <4> QED
        BY <2>3, <4>1 DEF Understood
    <3> QED
      BY <2>1, <3>1 DEF RowsSummed
  <2>5. \A t \in Actors, f \in [Raw -> Nat] : Behind(f, t) = Whole(f)
    BY <2>1, BehindWhole DEF AllCounted
  <2>6. RowsCounted = Whole(Operations)
    <3>1. \A n \in 1 .. Threads : n - 1 \in Counters
      BY MapFacts DEF Counters
    <3>2. \A n \in 1 .. Threads : RowsStored(n - 1) = Whole(RowsFor(n - 1))
      BY <2>1, <2>5, <3>1, ActorsAre, WeightTypes DEF RowsSummed
    <3>3. RowsCounted = Total([n \in 1 .. Threads |-> Whole(RowsFor(n - 1))])
      BY <3>2 DEF RowsCounted
    <3> QED
      BY <2>1, <2>3, <3>3, WholeByThreads
  <2>7. align.ops = OverTrace(LAMBDA r : IF Aligned(r) THEN 0 ELSE 1)
    <3>1. align.ops = Whole(Unaligned)
      BY <2>1, <2>5, ActorsAre, WeightTypes DEF RowsSummed
    <3>2. \A c \in 1 .. Len(loaded) :
            Along(Unaligned, c)
              = [i \in DOMAIN loaded[c] |-> IF Aligned(loaded[c][i]) THEN 0 ELSE 1]
      BY <2>2 DEF Along, Unaligned
    <3> QED
      BY <2>2, <3>1, <3>2 DEF Whole, OverTrace, SumOver
  <2>8. align.rows = OverTrace(LAMBDA r : IF Aligned(r) THEN 0 ELSE 1 + CountOperations(r))
    <3>1. align.rows = Whole(RowsToAlign)
      BY <2>1, <2>5, ActorsAre, WeightTypes DEF RowsSummed
    <3>2. \A c \in 1 .. Len(loaded) :
            Along(RowsToAlign, c)
              = [i \in DOMAIN loaded[c] |->
                   IF Aligned(loaded[c][i]) THEN 0 ELSE 1 + CountOperations(loaded[c][i])]
      BY <2>2, <2>3 DEF Along, RowsToAlign
    <3> QED
      BY <2>2, <3>1, <3>2 DEF Whole, OverTrace, SumOver
  <2>9. Whole(Operations) = OverTrace(CountOperations)
    <3>1. \A c \in 1 .. Len(loaded) :
            Along(Operations, c) = [i \in DOMAIN loaded[c] |-> CountOperations(loaded[c][i])]
      BY <2>2 DEF Along, Operations
    <3> QED
      BY <2>2, <3>1 DEF Whole, OverTrace, SumOver
  <2> QED
    BY <2>4, <2>6, <2>7, <2>8, <2>9
<1> QED
  BY <1>1, StrongInvariance, PTL

(* The rows an access adds are among those AddrHistory allows.             *)
LEMMA RowsAllowed ==
  ASSUME IInv, Understood, NEW t \in Actors, InChunk(t)
  PROVE  RowsPerWord(AccessOf(t)) \in {1, 2} \cup {1 + r.flags.high : r \in Garbage}
<1>1. PICK c, i, r :
        /\ c = current[t] /\ i = position[t] + 1 /\ r = AccessOf(t)
        /\ c \in DOMAIN loaded /\ i \in 1 .. Len(loaded[c]) /\ r = loaded[c][i]
  BY AccessIs DEF IInv
<1>2. PICK file : file = directory.files[c]
  OBVIOUS
<1>3. /\ file.accesses \in Seq(Access) /\ Len(file.accesses) \in Nat
      /\ file.got \in 0 .. Len(file.accesses) /\ i \in 1 .. Len(file.accesses)
      /\ \A j \in 1 .. file.got : loaded[c][j] = Taken(file.accesses[j])
      /\ \A j \in file.got + 1 .. Len(file.accesses) :
           \E g \in Garbage : loaded[c][j] = Kept(g)
  <2>1. /\ c \in DOMAIN directory.files /\ Len(loaded[c]) = Len(file.accesses)
        /\ file.got \in 0 .. Len(file.accesses)
        /\ \A j \in 1 .. file.got : loaded[c][j] = Taken(file.accesses[j])
        /\ \A j \in file.got + 1 .. Len(file.accesses) :
             \E g \in Garbage : loaded[c][j] = Kept(g)
    BY <1>1, <1>2 DEF IInv, LoadedIs
  <2>2. file.accesses \in Seq(Access)
    BY <1>2, <2>1, FileIs DEF IInv, TypeOK, LoaderTypeOK
  <2> QED
    BY <1>1, <2>1, <2>2
<1>4. \A h : h \in {0, 1} => 1 + h \in {1, 2}
  OBVIOUS
<1>5. r.flags.high \in {0, 1} => RowsPerWord(r) \in {1, 2}
  BY <1>4 DEF RowsPerWord
<1>6. CASE i <= file.got
  <2>1. PICK a \in Access : r = Taken(a)
    <3>1. i \in 1 .. file.got
      BY <1>3, <1>6
    <3>2. file.accesses[i] \in Access
      BY <1>3
    <3>3. r = Taken(file.accesses[i])
      BY <1>1, <1>3, <3>1
    <3> QED
      BY <3>2, <3>3
  <2>2. directory.format \in {"new", "old"} /\ convert \in BOOLEAN
    BY FileIs DEF IInv, TypeOK, LoaderTypeOK
  <2>3. r = [addr |-> a.addr, flags |-> [high |-> Bit(a.write), low |-> a.bytes]]
    BY <2>1, <2>2, TakenIs
  <2>4. r.flags.high \in {0, 1}
    BY <2>3 DEF Bit
  <2> QED
    BY <1>1, <1>5, <2>4
<1>7. CASE ~(i <= file.got)
  <2>1. PICK g \in Garbage : r = Kept(g)
    BY <1>1, <1>3, <1>7
  <2>2. CASE convert
    <3>1. g \in Raw
      BY LoaderAssumption
    <3>2. g = [addr |-> g.addr, flags |-> g.flags] /\ g.flags.high \in Half
      BY <3>1, RawIs
    <3>3. PICK w \in {0, 1}, b \in Half :
            w = (g.flags.high \div 2048) % 2 /\ b = g.flags.high \div 4096
      BY <3>2, HalfDivided
    <3>4. PICK x, f : x = g.addr /\ f = g.flags
      OBVIOUS
    <3>5. [[addr |-> x, flags |-> f] EXCEPT !.flags = Converted(@)]
            = [addr |-> x, flags |-> [high |-> w, low |-> b]]
      BY <3>3, <3>4, ConvertedIs
    <3>6. r = [addr |-> x, flags |-> [high |-> w, low |-> b]]
      BY <2>1, <2>2, <3>2, <3>4, <3>5 DEF Kept, Reformed
    <3>7. r.flags.high \in {0, 1}
      BY <3>6
    <3> QED
      BY <1>1, <1>5, <3>7
  <2>3. CASE ~convert
    <3>1. r = g
      BY <2>1, <2>3 DEF Kept
    <3>2. RowsPerWord(r) = 1 \/ RowsPerWord(r) = 1 + g.flags.high
      BY <3>1 DEF RowsPerWord
    <3> QED
      BY <1>1, <3>2
  <2> QED
    BY <2>2, <2>3
<1> QED
  BY <1>3, <1>6, <1>7

(* A counter's step on its own words is one of AddrHistory.                *)
LEMMA CountIsHistory ==
  ASSUME IInv, Understood, NEW t \in Counters, CountAccess(t)
  PROVE  Store(t)!Next
<1>1. InChunk(t) /\ t \in Actors /\ current' = current
  BY DEF CountAccess, Actors
<1>2. PICK word, o, e : Counts(t, word, o, e)
  BY CountAccessIs
<1>3. PICK k, n, h :
        /\ k = current[t] - 1 /\ n = RowsPerWord(AccessOf(t)) /\ h = EntriesAt(t, o)
  OBVIOUS
<1>4. n \in {1, 2} \cup {1 + r.flags.high : r \in Garbage}
  BY <1>1, <1>3, RowsAllowed
<1>5. o \in Offsets /\ e = Counted(h, k, n)
  BY <1>2, <1>3 DEF Counts
<1>6. PICK all, then :
        /\ all = [q \in Offsets |-> EntriesAt(t, q)]
        /\ then = [q \in Offsets |-> EntriesAt(t, q)']
  OBVIOUS
<1>7. all[o] = h /\ then = [all EXCEPT ![o] = e]
  BY <1>2, <1>3, <1>5, <1>6 DEF Counts
<1>8. [q \in Offsets |-> EntriesAt(t, q)]' = then
  BY <1>6
<1>9. CASE h # <<>> /\ Last(h).chunk = k
  <2>1. e = [h EXCEPT ![Len(h)].count = @ + n] /\ h[Len(h)].chunk = k
    BY <1>5, <1>9 DEF Counted, Last
  <2>2. then = [all EXCEPT ![o][Len(all[o])].count = @ + n]
    BY <1>7, <2>1
  <2>3. Store(t)!Extend(o, n)
    BY <1>1, <1>3, <1>6, <1>7, <1>8, <1>9, <2>1, <2>2 DEF Store!Extend, Store!Touched
  <2> QED
    BY <1>4, <1>5, <2>3 DEF Store!Next
<1>10. CASE ~(h # <<>> /\ Last(h).chunk = k)
  <2>1. e = Append(h, [chunk |-> k, count |-> n])
    BY <1>5, <1>10 DEF Counted
  <2>2. then = [all EXCEPT ![o] = Append(@, [chunk |-> k, count |-> n])]
    BY <1>7, <2>1
  <2>3. ~(h # <<>> /\ h[Len(h)].chunk = k)
    BY <1>10 DEF Last
  <2>4. Store(t)!Start(o, n)
    BY <1>1, <1>3, <1>6, <1>7, <1>8, <2>2, <2>3 DEF Store!Start, Store!Touched
  <2> QED
    BY <1>4, <1>5, <2>4 DEF Store!Next
<1> QED
  BY <1>9, <1>10

(* So is going on to the following chunk.                                  *)
LEMMA NextChunkIsHistory ==
  ASSUME IInv, NEW t \in Counters, NextChunk(t)
  PROVE  Store(t)!Next
<1>1. /\ t \in Actors /\ current[t] < Len(loaded) /\ table' = table
      /\ current' = [current EXCEPT ![t] = @ + 1]
  BY DEF NextChunk, Actors
<1>2. /\ current[t] \in Nat \ {0} /\ current'[t] = current[t] + 1
      /\ Len(loaded) \in Nat /\ Len(loaded) <= MaxChunks /\ MaxChunks \in Nat
  BY <1>1, LoaderAssumption DEF IInv, TypeOK, LoaderTypeOK
<1>3. /\ current[t] - 1 + 1 < MaxChunks
      /\ current'[t] - 1 = current[t] - 1 + 1
  BY <1>1, <1>2
<1>4. [q \in Offsets |-> EntriesAt(t, q)]' = [q \in Offsets |-> EntriesAt(t, q)]
  BY <1>1 DEF EntriesAt
<1>5. Store(t)!NextChunk
  BY <1>3, <1>4 DEF Store!NextChunk
<1> QED
  BY <1>5 DEF Store!Next

(* Each counter implements AddrHistory for its own words, step by step,    *)
(* whatever the others and MemAlignCounter do in between.                  *)
THEOREM CountersStoreHistories == Spec => StoresHistories
<1> DEFINE Moved(t) == current[t] # current'[t] \/ table[t] # table'[t]
           Histories == Understood => \A t \in Counters : Moved(t) => Store(t)!Next
<1>1. Init => \A t \in Counters : Store(t)!Init
  <2> SUFFICES ASSUME Init, NEW t \in Counters PROVE Store(t)!Init
    OBVIOUS
  <2>1. /\ current = [s \in Actors |-> 1] /\ position = [s \in Actors |-> 0]
        /\ table = [s \in Counters |-> <<>>] /\ t \in Actors
    BY DEF Init, Actors
  <2>2. current[t] - 1 = 0
    BY <2>1
  <2>3. \A o \in Offsets : EntriesAt(t, o) = <<>>
    BY <2>1, NothingCounted
  <2> QED
    BY <2>2, <2>3 DEF Store!Init
<1>2. IInv /\ [Next]_vars => [Histories]_vars
  <2> SUFFICES ASSUME IInv, Next, Understood, NEW t \in Counters, Moved(t) PROVE Store(t)!Next
    OBVIOUS
  <2>1. t \in Actors
    BY DEF Actors
  <2>2. CountTrace
    BY DEF Next, LoadTrace, Finished, vars
  <2>3. CASE \E s \in Counters : CountAccess(s)
    <3>1. PICK s \in Counters : CountAccess(s)
      BY <2>3
    <3>2. s = t
      BY <3>1 DEF CountAccess, IInv, TypeOK
    <3> QED
      BY <3>1, <3>2, CountIsHistory
  <2>4. CASE \E s \in Actors : NextChunk(s)
    <3>1. PICK s \in Actors : NextChunk(s)
      BY <2>4
    <3>2. s = t
      BY <2>1, <3>1 DEF NextChunk, IInv, TypeOK
    <3> QED
      BY <3>1, <3>2, NextChunkIsHistory
  <2> QED
    BY <2>2, <2>3, <2>4
    DEF CountTrace, SkipAccess, UnmappedAccess, AlignAccess, AssertionFails
<1> QED
  BY <1>1, <1>2, Invariance, PTL DEF Spec, StoresHistories

===============================================================================
