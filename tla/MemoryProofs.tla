------------------------------ MODULE MemoryProofs -----------------------------
(***************************************************************************)
(* memory.c.  The page allocator from the bitmap up, for any number of      *)
(* threads, pages and frames: bitmap_acquire is a first-fit search at every *)
(* fill, and the layout of the pools is sound for every size of memory.     *)
(* The heap, for any threads, classes, arenas and pages.                    *)
(***************************************************************************)
EXTENDS PagePool, Heap, FiniteSetTheorems, SequenceTheorems, WellFoundedInduction, TLAPS

-----------------------------------------------------------------------------
(* The bitmap.                                                             *)

\* The least-number principle, for sets: the induction that the recursion of
\* bitmap_acquire's count asks for.
LEMMA NatOrder == \E R : IsWellFoundedOn(R, Nat) /\ \A x, y \in Nat : x < y => <<x, y>> \in R
<1>1. \A x, y \in Nat : x < y => <<x, y>> \in OpToRel(<, Nat)
  BY DEF OpToRel
<1> QED BY <1>1, NatLessThanWellFounded

LEMMA NatLeast ==
    ASSUME NEW S, S \subseteq Nat, S # {}
    PROVE  \E m \in S : \A n \in S : m <= n
<1>1. PICK R : IsWellFoundedOn(R, Nat) /\ \A x, y \in Nat : x < y => <<x, y>> \in R
  BY NatOrder
<1>2. IsWellFoundedOn(R, Nat)
  BY <1>1
<1>3. \E x \in S : \A y \in S : <<y, x>> \notin R
  BY <1>2, WFMin
<1>4. \A x, y \in S : x \in Nat /\ y \in Nat /\ (x <= y \/ y < x)
  OBVIOUS
<1> QED BY <1>1, <1>3, <1>4

LEMMA MinIsLeast ==
    ASSUME NEW S, S \subseteq Nat, S # {}
    PROVE  Min(S) \in S /\ \A n \in S : Min(S) <= n
BY NatLeast DEF Min

LEMMA MinUnique ==
    ASSUME NEW S, S \subseteq Nat, NEW m \in S, \A n \in S : m <= n
    PROVE  Min(S) = m
<1>1. Min(S) \in S /\ Min(S) <= m
  BY MinIsLeast
<1>2. m <= Min(S) /\ m \in Nat /\ Min(S) \in Nat
  BY <1>1
<1> QED BY <1>1, <1>2

\* A bitmap of len bytes has a byte for each bit, and the bytes follow one
\* another.
LEMMA BytesFollow ==
    ASSUME NEW b \in Nat, NEW c \in Nat, b < c
    PROVE  b * ByteBits \in Nat /\ c * ByteBits \in Nat /\ b * ByteBits + ByteBits <= c * ByteBits
<1>1. ByteBits \in Nat
  BY ByteAssumption
<1>2. PICK k \in Nat : c = b + 1 + k
  <2>1. c - b - 1 \in Nat /\ c = b + 1 + (c - b - 1)
    OBVIOUS
  <2> QED BY <2>1
<1>3. c * ByteBits = b * ByteBits + ByteBits + k * ByteBits /\ k * ByteBits \in Nat
  BY <1>1, <1>2, SMT
<1>4. b * ByteBits \in Nat /\ c * ByteBits \in Nat
  BY <1>1, SMT
<1> QED BY <1>1, <1>3, <1>4

LEMMA ByteOfBit ==
    ASSUME NEW i \in Nat
    PROVE  \E b \in Nat : i \in ByteOf(b)
<1> DEFINE b == i \div ByteBits
<1>1. ByteBits \in Nat /\ ByteBits > 0
  BY ByteAssumption
<1>2. b \in Int /\ i = ByteBits * b + (i % ByteBits) /\ i % ByteBits \in 0..(ByteBits - 1)
  BY <1>1, SMT
<1>3. b >= 0
  BY <1>1, SMT
<1>4. i \in ByteOf(b)
  <2>1. b * ByteBits = ByteBits * b /\ b * ByteBits \in Int
    BY <1>1, <1>2, SMT
  <2> HIDE DEF b
  <2> QED BY <1>1, <1>2, <2>1 DEF ByteOf
<1> QED BY <1>2, <1>3, <1>4

LEMMA BytesCover ==
    ASSUME NEW len \in Nat
    PROVE  /\ len * ByteBits \in Nat
           /\ \A b \in 0..(len - 1) : ByteOf(b) \subseteq 0..(len * ByteBits - 1)
           /\ \A i \in 0..(len * ByteBits - 1) : \E b \in 0..(len - 1) : i \in ByteOf(b)
<1>1. ByteBits \in Nat \ {0} /\ len * ByteBits \in Nat
  BY ByteAssumption, SMT
<1>2. ASSUME NEW b \in 0..(len - 1) PROVE ByteOf(b) \subseteq 0..(len * ByteBits - 1)
  <2>1. b \in Nat /\ b < len
    OBVIOUS
  <2>2. b * ByteBits \in Nat /\ b * ByteBits + ByteBits <= len * ByteBits
    BY <2>1, BytesFollow
  <2> QED BY <1>1, <2>2 DEF ByteOf
<1>3. ASSUME NEW i \in 0..(len * ByteBits - 1) PROVE \E b \in 0..(len - 1) : i \in ByteOf(b)
  <2>1. PICK b \in Nat : i \in ByteOf(b)
    BY ByteOfBit
  <2>2. ASSUME b >= len PROVE FALSE
    <3>1. len * ByteBits <= b * ByteBits /\ b * ByteBits \in Nat
      <4>1. CASE b = len
        BY <1>1, <4>1
      <4>2. CASE len < b
        BY <1>1, <4>2, BytesFollow
      <4> QED BY <2>2, <4>1, <4>2
    <3> QED BY <1>1, <2>1, <3>1 DEF ByteOf
  <2> QED BY <2>1, <2>2
<1> QED BY <1>1, <1>2, <1>3

\* Steps 1 and 2 of bitmap_acquire find the first free bit.
LEMMA FirstFreeIsLeast ==
    ASSUME NEW used, NEW len \in Nat
    PROVE  LET free == (0..(len * ByteBits - 1)) \ used
           IN  /\ free = {} => FirstFree(used, len) = -1
               /\ free # {} => /\ FirstFree(used, len) \in free
                              /\ \A i \in free : FirstFree(used, len) <= i
<1> DEFINE free == (0..(len * ByteBits - 1)) \ used
           open == {b \in 0..(len - 1) : ~(ByteOf(b) \subseteq used)}
<1>1. FirstFree(used, len) = IF open = {} THEN -1 ELSE Min(ByteOf(Min(open)) \ used)
  BY DEF FirstFree
<1>2. len * ByteBits \in Nat /\ ByteBits \in Nat
  BY BytesCover, ByteAssumption
<1>3. ASSUME NEW i \in free PROVE \E b \in open : i \in ByteOf(b)
  BY BytesCover
<1>4. ASSUME NEW b \in open PROVE \E i \in free : i \in ByteOf(b)
  BY BytesCover
<1>5. CASE open = {}
  BY <1>1, <1>3, <1>5
<1>6. CASE open # {}
  <2>1. open \subseteq Nat
    OBVIOUS
  <2>2. PICK c \in open : c = Min(open) /\ \A b \in open : c <= b
    <3> HIDE DEF open
    <3> QED BY <1>6, <2>1, MinIsLeast
  <2>3. ByteOf(c) \ used # {} /\ ByteOf(c) \ used \subseteq free /\ free \subseteq Nat /\ c \in Nat
    <3>1. c \in 0..(len - 1) /\ ~(ByteOf(c) \subseteq used)
      OBVIOUS
    <3>2. ByteOf(c) \subseteq 0..(len * ByteBits - 1)
      BY <3>1, BytesCover
    <3> QED BY <1>2, <3>1, <3>2
  <2>4. PICK m \in Nat : m = Min(ByteOf(c) \ used) /\ m \in ByteOf(c) \ used
                       /\ \A i \in ByteOf(c) \ used : m <= i
    BY <2>3, MinIsLeast
  <2>5. ASSUME NEW i \in free PROVE m <= i
    <3>1. PICK b \in open : i \in ByteOf(b)
      BY <1>3
    <3>2. b \in Nat /\ c <= b /\ i \in Nat
      BY <1>2, <2>1, <2>2
    <3>3. CASE b = c
      BY <2>4, <3>1, <3>3
    <3>4. CASE c < b
      <4>1. /\ c * ByteBits \in Nat /\ b * ByteBits \in Nat
            /\ c * ByteBits + ByteBits <= b * ByteBits
        BY <2>3, <3>2, <3>4, BytesFollow
      <4> QED BY <1>2, <2>4, <3>1, <3>2, <4>1 DEF ByteOf
    <3> QED BY <2>3, <3>2, <3>3, <3>4
  <2>6. FirstFree(used, len) = m
    BY <1>1, <1>6, <2>2, <2>4
  <2> QED BY <2>3, <2>4, <2>5, <2>6
<1> QED BY <1>5, <1>6

\* How far before bit i the last used bit is, or the end of what is searched.
Back(used, first, i) == {k \in Nat : i - k < first \/ i - k \in used}
\* The count of step B satisfies its recursion.
Counts(f, used, first) ==
    f = [i \in Nat |-> IF i <= first THEN 1
                       ELSE IF bitmap_check(used, i) THEN 0
                       ELSE f[i - 1] + 1]

LEMMA BackMin ==
    ASSUME NEW used, NEW first \in Nat, NEW i \in Nat, i >= first
    PROVE  /\ Min(Back(used, first, i)) \in Nat
           /\ Min(Back(used, first, i)) \in Back(used, first, i)
           /\ \A k \in Nat : k < Min(Back(used, first, i)) => k \notin Back(used, first, i)
<1>1. Back(used, first, i) \subseteq Nat /\ i - first + 1 \in Back(used, first, i)
  BY DEF Back
<1> HIDE DEF Back
<1>2. Min(Back(used, first, i)) \in Back(used, first, i)
      /\ \A n \in Back(used, first, i) : Min(Back(used, first, i)) <= n
  BY <1>1, MinIsLeast
<1>3. PICK m \in Nat : m = Min(Back(used, first, i))
  BY <1>1, <1>2
<1> QED BY <1>2, <1>3

LEMMA BackStep ==
    ASSUME NEW used, NEW first \in Nat \ used, NEW i \in Nat
    PROVE  /\ i = first => Min(Back(used, first, i)) = 1
           /\ i > first /\ i \in used => Min(Back(used, first, i)) = 0
           /\ i > first /\ i \notin used => Min(Back(used, first, i)) = Min(Back(used, first, i - 1)) + 1
<1>0. Back(used, first, i) \subseteq Nat /\ \A n \in Back(used, first, i) : n >= 0
  BY DEF Back
<1>1. ASSUME i = first PROVE Min(Back(used, first, i)) = 1
  <2>1. 1 \in Back(used, first, i) /\ 0 \notin Back(used, first, i)
    BY <1>1 DEF Back
  <2>2. \A n \in Back(used, first, i) : 1 <= n
    BY <1>0, <2>1
  <2> QED BY <1>0, <2>1, <2>2, MinUnique
<1>2. ASSUME i > first, i \in used PROVE Min(Back(used, first, i)) = 0
  <2>1. 0 \in Back(used, first, i)
    BY <1>2 DEF Back
  <2> QED BY <1>0, <2>1, MinUnique
<1>3. ASSUME i > first, i \notin used
      PROVE  Min(Back(used, first, i)) = Min(Back(used, first, i - 1)) + 1
  <2>1. i - 1 \in Nat /\ i - 1 >= first
    BY <1>3
  <2>2. PICK m \in Nat : /\ m = Min(Back(used, first, i - 1)) /\ m \in Back(used, first, i - 1)
                         /\ \A k \in Nat : k < m => k \notin Back(used, first, i - 1)
    BY <2>1, BackMin
  <2>3. m + 1 \in Back(used, first, i)
    BY <2>2 DEF Back
  <2>4. ASSUME NEW n \in Back(used, first, i) PROVE m + 1 <= n
    <3>1. n \in Nat /\ (i - n < first \/ i - n \in used)
      BY <2>4 DEF Back
    <3>2. n # 0
      BY <1>3, <3>1
    <3>3. n - 1 \in Nat /\ n - 1 \in Back(used, first, i - 1)
      <4>1. n - 1 \in Nat /\ (i - 1) - (n - 1) = i - n
        BY <3>1, <3>2
      <4> QED BY <3>1, <4>1 DEF Back
    <3> QED BY <2>2, <3>1, <3>3
  <2>5. Min(Back(used, first, i)) = m + 1
    BY <1>0, <2>3, <2>4, MinUnique
  <2> QED BY <2>2, <2>5
<1> QED BY <1>1, <1>2, <1>3

LEMMA CountExists ==
    ASSUME NEW used, NEW first \in Nat \ used
    PROVE  \E f : Counts(f, used, first)
<1> DEFINE b(i) == Min(Back(used, first, i))
           g == [i \in Nat |-> IF i <= first THEN 1 ELSE b(i)]
<1>1. ASSUME NEW i \in Nat
      PROVE  g[i] = IF i <= first THEN 1 ELSE IF bitmap_check(used, i) THEN 0 ELSE g[i - 1] + 1
  <2>1. CASE i <= first
    BY <2>1
  <2>2. CASE i > first
    <3>1. i - 1 \in Nat /\ i - 1 >= first
      BY <2>2
    <3>2. g[i] = b(i) /\ g[i - 1] = IF i - 1 <= first THEN 1 ELSE b(i - 1)
      BY <2>2, <3>1
    <3>3. b(first) = 1
      BY BackStep
    <3>4. g[i - 1] = b(i - 1)
      <4>1. CASE i - 1 = first
        BY <3>2, <3>3, <4>1
      <4>2. CASE i - 1 > first
        BY <3>1, <3>2, <4>2
      <4> QED BY <3>1, <4>1, <4>2
    <3>5. b(i) = IF i \in used THEN 0 ELSE b(i - 1) + 1
      BY <2>2, BackStep
    <3> HIDE DEF g, b
    <3> QED BY <2>2, <3>2, <3>4, <3>5 DEF bitmap_check
  <2> QED BY <2>1, <2>2
<1>2. Counts(g, used, first)
  <2>1. g = [i \in Nat |-> g[i]]
    OBVIOUS
  <2> HIDE DEF g
  <2> QED BY <1>1, <2>1 DEF Counts
<1> QED BY <1>2

LEMMA CountIsBack ==
    ASSUME NEW used, NEW first \in Nat \ used, NEW f, Counts(f, used, first)
    PROVE  \A i \in Nat : i >= first => f[i] = Min(Back(used, first, i))
<1> DEFINE D == {i \in Nat : i >= first /\ f[i] # Min(Back(used, first, i))}
<1>1. \A i \in Nat : f[i] = IF i <= first THEN 1 ELSE IF i \in used THEN 0 ELSE f[i - 1] + 1
  BY DEF Counts, bitmap_check
<1>2. ASSUME D # {} PROVE FALSE
  <2>1. PICK d \in D : \A n \in D : d <= n
    BY <1>2, NatLeast
  <2>2. d \in Nat /\ d >= first /\ f[d] # Min(Back(used, first, d))
    OBVIOUS
  <2>3. CASE d = first
    BY <1>1, <2>2, <2>3, BackStep
  <2>4. CASE d > first
    <3>1. d - 1 \in Nat /\ d - 1 >= first /\ d - 1 \notin D
      BY <2>1, <2>4
    <3>2. f[d - 1] = Min(Back(used, first, d - 1))
      BY <3>1
    <3> QED BY <1>1, <2>2, <2>4, <3>2, BackStep
  <2> QED BY <2>2, <2>3, <2>4
<1> QED BY <1>2

\* The ends of the runs of cnt free bits that begin at the first free bit or
\* after a used one.
Hits(used, len, first, cnt) ==
    {i \in (first + 1)..(len * ByteBits - 1) : Min(Back(used, first, i)) = cnt}

LEMMA FirstRunIs ==
    ASSUME NEW used, NEW len \in Nat, NEW cnt, NEW first \in Nat \ used, first = FirstFree(used, len)
    PROVE  FirstRun(used, len, cnt) = IF Hits(used, len, first, cnt) = {} THEN -1
                                      ELSE Min(Hits(used, len, first, cnt)) - cnt + 1
<1> DEFINE f == CHOOSE g : Counts(g, used, FirstFree(used, len))
<1>1. /\ Counts(f, used, first)
      /\ FirstRun(used, len, cnt) =
             LET hits == {i \in (first + 1)..(len * ByteBits - 1) : f[i] = cnt}
             IN  IF hits = {} THEN -1 ELSE Min(hits) - cnt + 1
  <2>1. Counts(f, used, FirstFree(used, len))
    BY CountExists
  <2>2. FirstRun(used, len, cnt) =
            LET hits == {i \in (FirstFree(used, len) + 1)..(len * ByteBits - 1) : f[i] = cnt}
            IN  IF hits = {} THEN -1 ELSE Min(hits) - cnt + 1
    BY DEF FirstRun, Counts
  <2> HIDE DEF f
  <2> QED BY <2>1, <2>2
<1> HIDE DEF f
<1>2. \A i \in (first + 1)..(len * ByteBits - 1) : f[i] = Min(Back(used, first, i))
  BY <1>1, CountIsBack, BytesCover
<1>3. {i \in (first + 1)..(len * ByteBits - 1) : f[i] = cnt} = Hits(used, len, first, cnt)
  BY <1>2 DEF Hits
<1> QED BY <1>1, <1>3

Fits(used, len, cnt) == {s \in 0..(len * ByteBits - cnt) : used \cap s..(s + cnt - 1) = {}}

\* A hit is the last bit of cnt free ones.
LEMMA HitFits ==
    ASSUME NEW used, NEW len \in Nat, NEW cnt \in Nat \ {0}, NEW first \in Nat \ used,
           NEW i \in Hits(used, len, first, cnt)
    PROVE  i \in Nat /\ i - cnt + 1 \in Fits(used, len, cnt)
<1>1. PICK n \in Nat : n = len * ByteBits
  BY BytesCover
<1>2. i \in Nat /\ i > first /\ i <= n - 1 /\ Min(Back(used, first, i)) = cnt
  BY <1>1 DEF Hits
<1>3. \A k \in Nat : k < cnt => i - k >= first /\ i - k \notin used
  <2>1. i >= first
    BY <1>2
  <2>2. \A k \in Nat : k < cnt => k \notin Back(used, first, i)
    BY <1>2, <2>1, BackMin
  <2> QED BY <1>2, <2>2 DEF Back
<1>4. cnt - 1 \in Nat /\ i - (cnt - 1) >= first
  BY <1>3
<1>5. ASSUME NEW j \in (i - cnt + 1)..(i - cnt + 1 + cnt - 1) PROVE j \notin used
  <2>1. i - j \in Nat /\ i - j < cnt /\ i - (i - j) = j
    BY <1>2
  <2> QED BY <1>3, <2>1
<1> QED BY <1>1, <1>2, <1>4, <1>5 DEF Fits

\* The first fit ends in a hit.
LEMMA FitHits ==
    ASSUME NEW used, NEW len \in Nat, NEW cnt \in Nat, cnt > 1, NEW first \in Nat \ used,
           \A i \in (0..(len * ByteBits - 1)) \ used : first <= i,
           NEW m \in Fits(used, len, cnt), \A s \in Fits(used, len, cnt) : m <= s
    PROVE  m + cnt - 1 \in Hits(used, len, first, cnt)
<1>1. PICK n \in Nat : n = len * ByteBits
  BY BytesCover
<1>2. m \in Nat /\ m + cnt <= n /\ \A j \in m..(m + cnt - 1) : j \notin used
  BY <1>1 DEF Fits
<1>3. first <= m
  <2>1. m \in (0..(n - 1)) \ used
    BY <1>2
  <2> QED BY <1>1, <2>1
<1> DEFINE i == m + cnt - 1
<1>4. i \in Nat /\ i > first /\ i <= n - 1
  BY <1>2, <1>3
<1>5. cnt \in Back(used, first, i)
  <2>1. CASE m = first
    BY <1>2, <2>1 DEF Back
  <2>2. ASSUME m > first, m - 1 \notin used PROVE FALSE
    <3>1. \A j \in (m - 1)..(m - 1 + cnt - 1) : j \notin used
      BY <1>2, <2>2
    <3>2. m - 1 \in Fits(used, len, cnt)
      BY <1>1, <1>2, <2>2, <3>1 DEF Fits
    <3> QED BY <1>2, <3>2
  <2> QED BY <1>2, <1>3, <2>1, <2>2 DEF Back
<1>6. ASSUME NEW k \in Back(used, first, i) PROVE cnt <= k
  <2>1. k \in Nat /\ (i - k < first \/ i - k \in used)
    BY DEF Back
  <2>2. ASSUME k < cnt PROVE FALSE
    <3>1. i - k \in m..(m + cnt - 1) /\ i - k >= first
      BY <1>2, <1>3, <2>1, <2>2
    <3> QED BY <1>2, <1>4, <2>1, <3>1
  <2> QED BY <2>1, <2>2
<1>7. Min(Back(used, first, i)) = cnt
  <2>1. Back(used, first, i) \subseteq Nat
    BY DEF Back
  <2> QED BY <1>5, <1>6, <2>1, MinUnique
<1> QED BY <1>1, <1>4, <1>7 DEF Hits

\* bitmap.h:63-64: bitmap_acquire returns the first of the runs of cnt free bits,
\* at every fill of a bitmap of any length, although it searches from the first
\* byte that is not full.
THEOREM AcquireIsFirstFit ==
    ASSUME NEW used, NEW len \in Nat, NEW cnt \in Nat \ {0}
    PROVE  AcquireIdx(used, len, cnt) = FirstFit(used, len, cnt)
<1> DEFINE free == (0..(len * ByteBits - 1)) \ used
           fits == Fits(used, len, cnt)
<1>1. PICK n \in Nat : n = len * ByteBits
  BY BytesCover
<1>2. FirstFit(used, len, cnt) = IF fits = {} THEN -1 ELSE Min(fits)
  BY DEF FirstFit, Fits
<1>3. fits \subseteq free /\ fits \subseteq Nat
  BY <1>1 DEF Fits
<1>4. CASE free = {}
  <2>1. FirstFree(used, len) = -1
    BY <1>4, FirstFreeIsLeast
  <2>2. fits = {}
    BY <1>3, <1>4
  <2> QED BY <1>2, <2>1, <2>2 DEF AcquireIdx
<1>5. CASE free # {}
  <2>1. FirstFree(used, len) \in free /\ \A i \in free : FirstFree(used, len) <= i
    BY <1>5, FirstFreeIsLeast
  <2>2. PICK first \in Nat \ used : /\ first = FirstFree(used, len) /\ first < n
                                   /\ \A i \in free : first <= i
    BY <1>1, <2>1
  <2>3. first # -1
    BY <2>2
  <2>4. CASE cnt = 1
    <3>1. AcquireIdx(used, len, cnt) = first
      BY <2>2, <2>3, <2>4 DEF AcquireIdx
    <3>2. first \in fits
      BY <1>1, <2>2, <2>4 DEF Fits
    <3>3. \A s \in fits : first <= s
      BY <1>3, <2>2
    <3>4. Min(fits) = first
      <4> HIDE DEF fits
      <4> QED BY <1>3, <3>2, <3>3, MinUnique
    <3> QED BY <1>2, <3>1, <3>2, <3>4
  <2>5. CASE cnt # 1
    <3>1. AcquireIdx(used, len, cnt) = FirstRun(used, len, cnt)
      BY <2>2, <2>3, <2>5 DEF AcquireIdx
    <3> DEFINE hits == Hits(used, len, first, cnt)
    <3>2. FirstRun(used, len, cnt) = IF hits = {} THEN -1 ELSE Min(hits) - cnt + 1
      BY <2>2, FirstRunIs
    <3>3. \A i \in hits : i \in Nat /\ i - cnt + 1 \in fits
      BY HitFits
    <3>4. CASE fits = {}
      <4>1. hits = {}
        BY <3>3, <3>4
      <4> QED BY <1>2, <3>1, <3>2, <3>4, <4>1
    <3>5. CASE fits # {}
      <4>1. PICK m \in Nat : m \in fits /\ m = Min(fits) /\ \A s \in fits : m <= s
        <5> HIDE DEF fits
        <5> QED BY <1>3, <3>5, MinIsLeast
      <4>2. m + cnt - 1 \in hits
        <5>1. cnt > 1
          BY <2>5
        <5> QED BY <2>2, <4>1, <5>1, FitHits
      <4>3. \A i \in hits : m + cnt - 1 <= i
        <5> HIDE DEF hits, fits
        <5> QED BY <3>3, <4>1
      <4>4. Min(hits) = m + cnt - 1
        <5>1. hits \subseteq Nat
          BY <3>3
        <5> HIDE DEF hits
        <5> QED BY <4>2, <4>3, <5>1, MinUnique
      <4> HIDE DEF hits, fits
      <4> QED BY <1>2, <3>1, <3>2, <3>5, <4>1, <4>2, <4>4
    <3> QED BY <3>4, <3>5
  <2> QED BY <2>4, <2>5
<1> QED BY <1>4, <1>5

\* So what it returns are bits of the bitmap, free and in a row.
LEMMA AcquireFrees ==
    ASSUME NEW used, NEW len \in Nat, NEW cnt \in Nat \ {0}, AcquireIdx(used, len, cnt) # -1
    PROVE  LET idx == AcquireIdx(used, len, cnt)
           IN  /\ idx \in Nat
               /\ idx..(idx + cnt - 1) \subseteq 0..(len * ByteBits - 1)
               /\ idx..(idx + cnt - 1) \cap used = {}
               /\ AcquireBits(used, len, cnt) = used \cup idx..(idx + cnt - 1)
<1> DEFINE fits == Fits(used, len, cnt)
           idx == AcquireIdx(used, len, cnt)
<1>1. idx = IF fits = {} THEN -1 ELSE Min(fits)
  BY AcquireIsFirstFit DEF FirstFit, Fits
<1>2. fits # {} /\ fits \subseteq Nat /\ idx = Min(fits)
  BY <1>1 DEF Fits
<1>3. idx \in fits
  <2> HIDE DEF fits, idx
  <2> QED BY <1>2, MinIsLeast
<1>4. AcquireBits(used, len, cnt) = used \cup idx..(idx + cnt - 1)
  BY DEF AcquireBits
<1>5. PICK n \in Nat : n = len * ByteBits
  BY BytesCover
<1>6. /\ idx \in Nat /\ idx + cnt <= n
      /\ \A j \in idx..(idx + cnt - 1) : j \notin used
  <2> HIDE DEF idx
  <2> QED BY <1>3, <1>5 DEF Fits
<1> HIDE DEF idx
<1>7. idx..(idx + cnt - 1) \subseteq 0..(n - 1)
  BY <1>6
<1> QED BY <1>4, <1>5, <1>6, <1>7 DEF idx

-----------------------------------------------------------------------------
(* The pools.                                                              *)

\* Rounding a number of pages down to whole bytes loses less than a byte.
LEMMA BitmapLenBounds ==
    ASSUME NEW n \in Nat
    PROVE  BitmapLen(n) \in Nat /\ ByteBits * BitmapLen(n) <= n
<1> DEFINE q == n \div ByteBits
<1>1. ByteBits \in Nat /\ ByteBits > 0
  BY ByteAssumption
<1>2. q \in Int /\ n = ByteBits * q + (n % ByteBits) /\ n % ByteBits \in 0..(ByteBits - 1)
  BY <1>1, SMT
<1>3. q >= 0
  BY <1>1, SMT
<1> QED
  BY <1>1, <1>2, <1>3, SMT DEF BitmapLen

\* Every free page is the kernel's or the user's.
LEMMA PagesSplit ==
    /\ kernel_free_pages \in Nat /\ user_free_pages \in Nat
    /\ ReservedMem + kernel_free_pages + user_free_pages = mem_total_size
<1>1. all_free_pages = mem_total_size - ReservedMem /\ all_free_pages \in Nat
  BY LayoutAssumption, SMT DEF all_free_pages
<1>2. kernel_free_pages \in Nat /\ kernel_free_pages <= all_free_pages
  BY <1>1, LayoutAssumption, SMT DEF kernel_free_pages
<1> QED
  BY <1>1, <1>2, LayoutAssumption, SMT DEF user_free_pages

\* pool_init hands out only frames that exist, each from one pool, at every
\* size of memory that covers the reserved pages (memory.c:386-431).
THEOREM PoolsHoldExistingFrames == FramesExist
<1>1. /\ ByteBits * BitmapLen(kernel_free_pages) <= kernel_free_pages
      /\ ByteBits * BitmapLen(user_free_pages) <= user_free_pages
  BY BitmapLenBounds, PagesSplit
<1>2. /\ ByteBits * BitmapLen(kernel_free_pages) \in Nat
      /\ ByteBits * BitmapLen(user_free_pages) \in Nat
  BY BitmapLenBounds, PagesSplit, ByteAssumption, SMT
<1> QED
  BY <1>1, <1>2, PagesSplit, LayoutAssumption, SMT
     DEF FramesExist, EndOf, k_p_pool, u_p_pool

\* The bitmaps of pool_init do not run into each other (memory.c:411-454).
THEOREM PoolBitmapsFit == BitmapsFit
<1> DEFINE k == BitmapLen(kernel_free_pages)
           u == BitmapLen(user_free_pages)
<1>1. k \in Nat /\ u \in Nat /\ ByteBits * k <= kernel_free_pages /\ ByteBits * u <= user_free_pages
  BY BitmapLenBounds, PagesSplit
<1>2. ByteBits * k + ByteBits * u <= BitmapGap * ByteBits
  <2>1. ByteBits * k \in Nat /\ ByteBits * u \in Nat /\ BitmapGap * ByteBits \in Nat
    BY <1>1, ByteAssumption, LayoutAssumption, SMT
  <2> QED
    BY <1>1, <2>1, PagesSplit, LayoutAssumption, SMT
<1>3. k + u <= BitmapGap
  BY <1>1, <1>2, ByteAssumption, LayoutAssumption, SMT
<1> QED
  BY <1>1, <1>3, SMT DEF BitmapsFit, k_p_pool, u_p_pool, k_v_pool

\* The pools' bitmaps have a natural number of bytes.
LEMMA PoolLens == VLen \in Nat /\ PLen \in Nat
BY PagesSplit, BitmapLenBounds, LayoutAssumption DEF VLen, PLen, k_v_pool, k_p_pool

LEMMA PoolBits ==
    /\ VLen * ByteBits \in Nat /\ PLen * ByteBits \in Nat
    /\ IsFiniteSet(Page) /\ Cardinality(Page) \in Nat
    /\ IsFiniteSet(Frame) /\ Cardinality(Frame) \in Nat
<1>1. VLen * ByteBits \in Nat /\ PLen * ByteBits \in Nat
  BY PoolLens, BytesCover
<1>2. IsFiniteSet(Page) /\ IsFiniteSet(Frame)
  <2>1. \A n \in Nat : n - 1 \in Int
    OBVIOUS
  <2>2. VLen * ByteBits - 1 \in Int /\ PLen * ByteBits - 1 \in Int
    BY <1>1, <2>1
  <2> QED BY <2>2, FS_Interval DEF Page, Frame
<1> QED BY <1>1, <1>2, FS_CardinalityType

\* So the search of both pools is first fit in every state, reachable or not.
THEOREM SearchIsFirstFitHolds == Spec => []SearchIsFirstFit
<1>1. SearchIsFirstFit
  <2>1. \A cnt \in 1..Cardinality(Page) : cnt \in Nat \ {0}
    BY PoolBits
  <2>2. \A cnt \in 1..Cardinality(Frame) : cnt \in Nat \ {0}
    BY PoolBits
  <2>3. \A cnt \in 1..Cardinality(Page) : AcquireIdx(vbits, VLen, cnt) = FirstFit(vbits, VLen, cnt)
    BY <2>1, PoolLens, AcquireIsFirstFit
  <2>4. \A cnt \in 1..Cardinality(Frame) : AcquireIdx(pbits, PLen, cnt) = FirstFit(pbits, PLen, cnt)
    BY <2>2, PoolLens, AcquireIsFirstFit
  <2> QED BY <2>3, <2>4 DEF SearchIsFirstFit
<1> QED BY <1>1, PTL

-----------------------------------------------------------------------------
(* Pages: who has each one.                                                *)

CallType == [pc : Steps \cup {"idle"}, start : Nat, cnt : 0..MaxCnt, i : Nat, paddr : Frame \cup {NoFrame}]

\* A call has pages only while it is under way, and is at one of them.
PoolTypes ==
    /\ vbits \subseteq Page /\ lost \subseteq Page
    /\ pte \in [Page -> Frame \cup {NoFrame}]
    /\ regions \subseteq Page \X (1..MaxCnt)
    /\ \A r \in regions : Run(r) \subseteq Page
    /\ call \in [Thread -> CallType]
    /\ \A t \in Thread : \/ call[t] = NotCalling
                         \/ /\ call[t].pc \in Steps
                            /\ call[t].i < call[t].cnt
                            /\ InCall(t) \subseteq Page

Owned(p) == (\E r \in regions : p \in Run(r)) \/ (\E t \in Thread : p \in InCall(t))
Marked ==
    /\ \A p \in vbits : p \in lost \/ Owned(p)
    /\ \A p \in lost : p \in vbits /\ ~Owned(p)
    /\ \A p : Owned(p) => p \in vbits
PageInv == PoolTypes /\ RegionsDisjoint /\ Marked

\* What a call's record holds after each assignment.
LEMMA CallShapes ==
    /\ NotCalling = [pc |-> "idle", start |-> 0, cnt |-> 0, i |-> 0, paddr |-> NoFrame]
    /\ \A pc, start, cnt : Calling(pc, start, cnt) =
          [pc |-> pc, start |-> start, cnt |-> cnt, i |-> 0, paddr |-> NoFrame]
    /\ \A t \in Thread : call[t] = NotCalling => InCall(t) = {}
    /\ \A pc \in Steps, start \in Nat, cnt \in 0..MaxCnt :
          Calling(pc, start, cnt) \in CallType /\ Calling(pc, start, cnt) # NotCalling
    /\ NotCalling \in CallType
<1>1. NotCalling = [pc |-> "idle", start |-> 0, cnt |-> 0, i |-> 0, paddr |-> NoFrame]
  BY DEF NotCalling
<1>2. \A pc, start, cnt : Calling(pc, start, cnt) =
          [pc |-> pc, start |-> start, cnt |-> cnt, i |-> 0, paddr |-> NoFrame]
  <2> TAKE pc, start, cnt
  <2> DEFINE a == [NotCalling EXCEPT !.pc = pc]
             b == [a EXCEPT !.start = start]
  <2>1. a = [pc |-> pc, start |-> 0, cnt |-> 0, i |-> 0, paddr |-> NoFrame]
    BY <1>1
  <2>2. b = [pc |-> pc, start |-> start, cnt |-> 0, i |-> 0, paddr |-> NoFrame]
    <3> HIDE DEF a
    <3> QED BY <2>1
  <2>3. Calling(pc, start, cnt) = [b EXCEPT !.cnt = cnt]
    BY DEF Calling
  <2> HIDE DEF b
  <2> QED BY <2>2, <2>3
<1>3. \A t \in Thread : call[t] = NotCalling => InCall(t) = {}
  BY <1>1 DEF InCall, Run
<1>4. 0 \in 0..MaxCnt
  BY PoolAssumption
<1> QED BY <1>1, <1>2, <1>3, <1>4 DEF CallType, Steps

\* The step of one thread changes no other's call, and its own to c.
LEMMA CallStep ==
    ASSUME PoolTypes, NEW t \in Thread, NEW c, call' = [call EXCEPT ![t] = c]
    PROVE  /\ InCall(t)' = Run(<<c.start, c.cnt>>)
           /\ call'[t] = c
           /\ \A u \in Thread : u # t => InCall(u)' = InCall(u) /\ call'[u] = call[u]
           /\ c \in CallType => call' \in [Thread -> CallType]
BY DEF PoolTypes, InCall, Run

Others(t) == \A u \in Thread : u # t => InCall(u)' = InCall(u)

\* A call takes pages that were free.
LEMMA Takes ==
    ASSUME PageInv, NEW t \in Thread, Others(t), InCall(t) = {}, InCall(t)' \cap vbits = {},
           vbits' = vbits \cup InCall(t)', lost' = lost, regions' = regions
    PROVE  RegionsDisjoint' /\ Marked'
<1> USE DEF PageInv, RegionsDisjoint, Marked, Owned, Others
<1>1. \A u \in Thread : u # t => InCall(u)' \cap InCall(t)' = {}
  OBVIOUS
<1>2. \A r \in regions : Run(r) \cap InCall(t)' = {}
  OBVIOUS
<1>3. RegionsDisjoint'
  BY <1>1, <1>2
<1>4. \A p : Owned(p)' <=> Owned(p) \/ p \in InCall(t)'
  OBVIOUS
<1> QED BY <1>3, <1>4

\* A call fails, and what it had marked is lost.
LEMMA Loses ==
    ASSUME PageInv, NEW t \in Thread, Others(t), InCall(t)' = {},
           vbits' = vbits, lost' = lost \cup InCall(t), regions' = regions
    PROVE  RegionsDisjoint' /\ Marked'
<1> USE DEF PageInv, RegionsDisjoint, Marked, Owned, Others
<1>1. RegionsDisjoint'
  OBVIOUS
<1>2. \A p : Owned(p) <=> Owned(p)' \/ p \in InCall(t)
  OBVIOUS
<1>3. \A p \in InCall(t) : ~Owned(p)'
  OBVIOUS
<1> QED BY <1>1, <1>2, <1>3

\* A refused request marks pages that were free.
LEMMA Leaks ==
    ASSUME PageInv, NEW L, L \cap vbits = {}, \A u \in Thread : InCall(u)' = InCall(u),
           vbits' = vbits \cup L, lost' = lost \cup L, regions' = regions
    PROVE  RegionsDisjoint' /\ Marked'
<1> USE DEF PageInv, RegionsDisjoint, Marked, Owned
<1>1. RegionsDisjoint'
  OBVIOUS
<1>2. \A p : Owned(p)' <=> Owned(p)
  OBVIOUS
<1> QED BY <1>1, <1>2

\* A call returns its pages to its caller.
LEMMA Delivers ==
    ASSUME PageInv, NEW t \in Thread, Others(t), InCall(t)' = {},
           NEW r, Run(r) = InCall(t), regions' = regions \cup {r},
           vbits' = vbits, lost' = lost
    PROVE  RegionsDisjoint' /\ Marked'
<1> USE DEF PageInv, RegionsDisjoint, Marked, Owned, Others
<1>1. RegionsDisjoint'
  OBVIOUS
<1>2. \A p : Owned(p)' <=> Owned(p)
  OBVIOUS
<1> QED BY <1>1, <1>2

\* A caller hands back a region, all of it or all but a rest.
LEMMA TakesBack ==
    ASSUME PageInv, NEW t \in Thread, Others(t), InCall(t) = {},
           NEW r \in regions, NEW R, regions' = (regions \ {r}) \cup R,
           \A s \in R : Run(s) \cap InCall(t)' = {} /\ Run(s) \subseteq Run(r),
           \A s, q \in R : s = q,
           \A p : p \in Run(r) <=> p \in InCall(t)' \/ \E s \in R : p \in Run(s),
           vbits' = vbits, lost' = lost
    PROVE  RegionsDisjoint' /\ Marked'
<1> USE DEF PageInv, RegionsDisjoint, Marked, Owned, Others
<1>1. \A s, q \in regions' : s # q => Run(s) \cap Run(q) = {}
  OBVIOUS
<1>2. \A u \in Thread : \A s \in regions' : InCall(u)' \cap Run(s) = {}
  <2>1. ASSUME NEW s \in regions' PROVE InCall(t)' \cap Run(s) = {}
    OBVIOUS
  <2>2. ASSUME NEW s \in regions', NEW u \in Thread, u # t PROVE InCall(u)' \cap Run(s) = {}
    <3>1. InCall(u)' = InCall(u) /\ InCall(u) \cap Run(r) = {}
      BY <2>2
    <3>2. CASE s \in R
      BY <3>1, <3>2
    <3>3. CASE s \notin R
      BY <2>2, <3>1, <3>3
    <3> QED BY <3>2, <3>3
  <2> QED BY <2>1, <2>2
<1>3. \A u, v \in Thread : u # v => InCall(u)' \cap InCall(v)' = {}
  <2>1. ASSUME NEW u \in Thread, u # t PROVE InCall(u)' \cap InCall(t)' = {}
    <3>1. InCall(u)' = InCall(u) /\ InCall(u) \cap Run(r) = {}
      BY <2>1
    <3> QED BY <3>1
  <2> QED BY <2>1
<1>4. ASSUME NEW p PROVE Owned(p)' <=> Owned(p)
  <2>1. (\E u \in Thread : p \in InCall(u)') <=> p \in InCall(t)' \/ \E u \in Thread : p \in InCall(u)
    OBVIOUS
  <2>2. (\E s \in regions' : p \in Run(s))
        <=> (\E s \in R : p \in Run(s)) \/ \E s \in regions \ {r} : p \in Run(s)
    OBVIOUS
  <2>3. (\E s \in regions : p \in Run(s))
        <=> p \in Run(r) \/ \E s \in regions \ {r} : p \in Run(s)
    OBVIOUS
  <2> QED BY <2>1, <2>2, <2>3
<1> QED BY <1>1, <1>2, <1>3, <1>4

\* A call gives its pages back to the pool.
LEMMA Gives ==
    ASSUME PageInv, NEW t \in Thread, Others(t), InCall(t)' = {},
           vbits' = vbits \ InCall(t), lost' = lost, regions' = regions
    PROVE  RegionsDisjoint' /\ Marked'
<1> USE DEF PageInv, RegionsDisjoint, Marked, Owned, Others
<1>1. RegionsDisjoint'
  OBVIOUS
<1>2. \A p : Owned(p) <=> Owned(p)' \/ p \in InCall(t)
  OBVIOUS
<1>3. \A p \in InCall(t) : ~Owned(p)' /\ p \notin lost
  OBVIOUS
<1> QED BY <1>1, <1>2, <1>3

\* A step within a call.
LEMMA Keeps ==
    ASSUME PageInv, \A u \in Thread : InCall(u)' = InCall(u),
           vbits' = vbits, lost' = lost, regions' = regions
    PROVE  RegionsDisjoint' /\ Marked'
<1> USE DEF PageInv, RegionsDisjoint, Marked, Owned
<1>1. RegionsDisjoint'
  OBVIOUS
<1>2. \A p : Owned(p)' <=> Owned(p)
  OBVIOUS
<1> QED BY <1>1, <1>2

LEMMA TypesStep ==
    ASSUME PoolTypes, NEW t \in Thread, NEW c \in CallType, call' = [call EXCEPT ![t] = c],
           \/ c = NotCalling
           \/ c.pc \in Steps /\ c.i < c.cnt /\ Run(<<c.start, c.cnt>>) \subseteq Page,
           vbits' \subseteq Page, lost' \subseteq Page, regions' \subseteq Page \X (1..MaxCnt),
           pte' \in [Page -> Frame \cup {NoFrame}],
           \A r \in regions' : Run(r) \subseteq Page
    PROVE  PoolTypes'
<1>1. /\ InCall(t)' = Run(<<c.start, c.cnt>>) /\ call'[t] = c
      /\ \A u \in Thread : u # t => InCall(u)' = InCall(u) /\ call'[u] = call[u]
      /\ call' \in [Thread -> CallType]
  BY CallStep
<1>2. \A u \in Thread :
          \/ call'[u] = NotCalling
          \/ call'[u].pc \in Steps /\ call'[u].i < call'[u].cnt /\ InCall(u)' \subseteq Page
  BY <1>1 DEF PoolTypes
<1> QED BY <1>1, <1>2 DEF PoolTypes

\* A call that begins at page start.
LEMMA Begins ==
    ASSUME NEW pc \in Steps, NEW start \in Nat, NEW cnt \in 1..MaxCnt
    PROVE  LET c == Calling(pc, start, cnt)
           IN  /\ c \in CallType /\ c # NotCalling /\ c.pc = pc /\ c.pc \in Steps
               /\ c.i = 0 /\ c.i < c.cnt /\ c.start = start /\ c.cnt = cnt
               /\ Run(<<c.start, c.cnt>>) = start..(start + cnt - 1)
<1>1. Calling(pc, start, cnt) = [pc |-> pc, start |-> start, cnt |-> cnt, i |-> 0, paddr |-> NoFrame]
  BY CallShapes
<1>2. cnt \in 0..MaxCnt /\ cnt \in Nat /\ 0 < cnt
  BY PoolAssumption
<1> QED BY <1>1, <1>2, CallShapes DEF Run

\* A call that goes on keeps its pages.
LEMMA GoesOn ==
    ASSUME NEW d \in CallType, NEW pc \in Steps
    PROVE  /\ \A f \in Frame \cup {NoFrame} :
                 LET c == [d EXCEPT !.pc = pc, !.paddr = f]
                 IN  c = [pc |-> pc, start |-> d.start, cnt |-> d.cnt, i |-> d.i, paddr |-> f]
           /\ LET c == [Calling(pc, d.start, d.cnt) EXCEPT !.i = d.i + 1]
              IN  c = [pc |-> pc, start |-> d.start, cnt |-> d.cnt, i |-> d.i + 1, paddr |-> NoFrame]
           /\ LET c == [d EXCEPT !.pc = pc]
              IN  c = [pc |-> pc, start |-> d.start, cnt |-> d.cnt, i |-> d.i, paddr |-> d.paddr]
<1>1. d = [pc |-> d.pc, start |-> d.start, cnt |-> d.cnt, i |-> d.i, paddr |-> d.paddr]
  BY DEF CallType
<1>2. [d EXCEPT !.pc = pc] = [pc |-> pc, start |-> d.start, cnt |-> d.cnt, i |-> d.i, paddr |-> d.paddr]
  BY <1>1
<1>3. ASSUME NEW f \in Frame \cup {NoFrame}
      PROVE  [d EXCEPT !.pc = pc, !.paddr = f] =
                [pc |-> pc, start |-> d.start, cnt |-> d.cnt, i |-> d.i, paddr |-> f]
  <2> DEFINE e == [d EXCEPT !.pc = pc]
  <2>1. e = [pc |-> pc, start |-> d.start, cnt |-> d.cnt, i |-> d.i, paddr |-> d.paddr]
    BY <1>2
  <2>2. [d EXCEPT !.pc = pc, !.paddr = f] = [e EXCEPT !.paddr = f]
    OBVIOUS
  <2> HIDE DEF e
  <2> QED BY <2>1, <2>2
<1>4. [Calling(pc, d.start, d.cnt) EXCEPT !.i = d.i + 1] =
          [pc |-> pc, start |-> d.start, cnt |-> d.cnt, i |-> d.i + 1, paddr |-> NoFrame]
  <2>1. Calling(pc, d.start, d.cnt) =
            [pc |-> pc, start |-> d.start, cnt |-> d.cnt, i |-> 0, paddr |-> NoFrame]
    BY CallShapes
  <2> QED BY <2>1
<1> QED BY <1>2, <1>3, <1>4

LEMMA AcquireAnyPages ==
    ASSUME PageInv, NEW t \in Thread, NEW cnt \in 1..MaxCnt, AcquireAny(t, cnt)
    PROVE  PageInv'
<1> DEFINE start == AcquireIdx(vbits, VLen, cnt)
<1>1. /\ call[t] = NotCalling /\ vbits' = AcquireBits(vbits, VLen, cnt)
      /\ call' = IF start = -1 THEN call ELSE [call EXCEPT ![t] = Calling("palloc", start, cnt)]
      /\ lost' = lost /\ regions' = regions /\ pte' = pte
  BY DEF AcquireAny
<1>2. cnt \in Nat \ {0}
  BY PoolAssumption
<1>3. CASE start = -1
  <2>1. vbits' = vbits /\ call' = call
    BY <1>1, <1>3 DEF AcquireBits
  <2>2. \A u \in Thread : InCall(u)' = InCall(u)
    BY <2>1 DEF InCall
  <2>3. PoolTypes'
    BY <1>1, <2>1, <2>2 DEF PageInv, PoolTypes
  <2> QED BY <1>1, <2>1, <2>2, <2>3, Keeps DEF PageInv
<1>4. CASE start # -1
  <2>1. /\ start \in Nat /\ start..(start + cnt - 1) \subseteq Page
        /\ start..(start + cnt - 1) \cap vbits = {}
        /\ vbits' = vbits \cup start..(start + cnt - 1)
    BY <1>1, <1>2, <1>4, PoolLens, AcquireFrees DEF Page
  <2> HIDE DEF start
  <2> DEFINE c == Calling("palloc", start, cnt)
  <2>2. /\ c \in CallType /\ c.pc \in Steps /\ c.i < c.cnt
        /\ Run(<<c.start, c.cnt>>) = start..(start + cnt - 1)
    BY <1>2, <2>1, Begins DEF Steps
  <2>3. call' = [call EXCEPT ![t] = c]
    BY <1>1, <1>4
  <2> HIDE DEF c
  <2>4. PoolTypes /\ pte \in [Page -> Frame \cup {NoFrame}] /\ \A r \in regions : Run(r) \subseteq Page
    BY DEF PageInv, PoolTypes
  <2>5. PoolTypes'
    <3>1. vbits' \subseteq Page /\ lost' \subseteq Page /\ regions' \subseteq Page \X (1..MaxCnt)
      BY <1>1, <2>1, <2>4 DEF PoolTypes
    <3> QED BY <1>1, <2>1, <2>2, <2>3, <2>4, <3>1, TypesStep
  <2>6. Others(t) /\ InCall(t) = {} /\ InCall(t)' = start..(start + cnt - 1)
    BY <1>1, <2>2, <2>3, <2>4, CallStep, CallShapes DEF Others
  <2> QED BY <1>1, <2>1, <2>5, <2>6, Takes DEF PageInv
<1> QED BY <1>3, <1>4

LEMMA AcquireAtPages ==
    ASSUME PageInv, NEW t \in Thread, NEW start \in Page, NEW cnt \in 1..MaxCnt, AcquireAt(t, start, cnt)
    PROVE  PageInv'
<1> DEFINE run == start..(start + cnt - 1)
           hit == run \cap vbits
<1>1. /\ call[t] = NotCalling /\ run \subseteq Page /\ regions' = regions /\ pte' = pte
      /\ IF hit = {}
         THEN /\ vbits' = vbits \cup run
              /\ call' = [call EXCEPT ![t] = Calling("palloc", start, cnt)]
              /\ lost' = lost
         ELSE /\ vbits' = vbits \cup start..(Min(hit) - 1)
              /\ lost' = lost \cup start..(Min(hit) - 1)
              /\ call' = call
  BY DEF AcquireAt, Run
<1>2. cnt \in Nat \ {0} /\ start \in Nat
  <2>1. \A x \in Page : x \in Nat
    BY PoolBits DEF Page
  <2> QED BY <2>1, PoolAssumption
<1>3. PoolTypes /\ pte \in [Page -> Frame \cup {NoFrame}] /\ \A r \in regions : Run(r) \subseteq Page
  BY DEF PageInv, PoolTypes
<1>4. CASE hit = {}
  <2> DEFINE c == Calling("palloc", start, cnt)
  <2>1. /\ c \in CallType /\ c.pc \in Steps /\ c.i < c.cnt /\ Run(<<c.start, c.cnt>>) = run
    BY <1>2, Begins DEF Steps
  <2>2. call' = [call EXCEPT ![t] = c] /\ vbits' = vbits \cup run /\ lost' = lost
    BY <1>1, <1>4
  <2> HIDE DEF c, run
  <2>3. PoolTypes'
    <3>1. vbits' \subseteq Page /\ lost' \subseteq Page /\ regions' \subseteq Page \X (1..MaxCnt)
      BY <1>1, <1>3, <2>2 DEF PoolTypes
    <3> QED BY <1>1, <1>3, <2>1, <2>2, <3>1, TypesStep
  <2>4. Others(t) /\ InCall(t) = {} /\ InCall(t)' = run
    BY <1>1, <1>3, <2>1, <2>2, CallStep, CallShapes DEF Others
  <2> QED BY <1>1, <1>4, <2>2, <2>3, <2>4, Takes DEF PageInv
<1>5. CASE hit # {}
  <2>1. run \subseteq Nat
    BY <1>2
  <2>2. PICK m \in Nat : m = Min(hit) /\ m \in hit /\ \A n \in hit : m <= n
    <3>1. hit \subseteq Nat
      BY <2>1
    <3> HIDE DEF hit
    <3> QED BY <1>5, <3>1, MinIsLeast
  <2> DEFINE L == start..(m - 1)
  <2>3. L \subseteq run /\ \A p \in L : p \notin hit
    <3>1. m \in run /\ start + cnt - 1 \in Int /\ start <= m /\ m <= start + cnt - 1
      BY <1>2, <2>2
    <3>2. \A p \in L : p \in Nat /\ start <= p /\ p < m
      BY <1>2, <2>2
    <3>3. \A p \in L : p \in run
      BY <1>2, <3>1, <3>2
    <3>4. \A p \in L : p \notin hit
      <4> HIDE DEF hit, L
      <4> QED BY <2>2, <3>2
    <3> QED BY <3>3, <3>4
  <2>4. L \subseteq Page /\ L \cap vbits = {}
    BY <1>1, <2>3
  <2>5. vbits' = vbits \cup L /\ lost' = lost \cup L /\ call' = call
    BY <1>1, <1>5, <2>2
  <2> HIDE DEF L
  <2>6. \A u \in Thread : InCall(u)' = InCall(u)
    BY <2>5 DEF InCall
  <2>7. PoolTypes'
    BY <1>1, <1>3, <2>4, <2>5, <2>6 DEF PoolTypes
  <2> QED BY <1>1, <2>4, <2>5, <2>6, <2>7, Leaks DEF PageInv
<1> QED BY <1>4, <1>5

\* A step of a call under way, at the same or a later page of it.
LEMMA Continues ==
    ASSUME PageInv, NEW t \in Thread, call[t].pc \in Steps,
           NEW c \in CallType, call' = [call EXCEPT ![t] = c], c.pc \in Steps,
           c.start = call[t].start, c.cnt = call[t].cnt, c.i < c.cnt,
           vbits' = vbits, lost' = lost, regions' = regions,
           pte' \in [Page -> Frame \cup {NoFrame}]
    PROVE  PageInv'
<1>1. PoolTypes /\ (\A r \in regions : Run(r) \subseteq Page) /\ InCall(t) \subseteq Page
  <2>1. call[t] # NotCalling
    BY CallShapes DEF Steps
  <2> QED BY <2>1 DEF PageInv, PoolTypes
<1>2. Run(<<c.start, c.cnt>>) = InCall(t)
  BY DEF InCall
<1>3. Others(t) /\ InCall(t)' = InCall(t)
  BY <1>1, <1>2, CallStep DEF Others
<1>4. PoolTypes'
  <2>1. vbits' \subseteq Page /\ lost' \subseteq Page /\ regions' \subseteq Page \X (1..MaxCnt)
    BY <1>1 DEF PoolTypes
  <2> QED BY <1>1, <1>2, <2>1, TypesStep
<1>5. \A u \in Thread : InCall(u)' = InCall(u)
  BY <1>3 DEF Others
<1> QED BY <1>4, <1>5, Keeps DEF PageInv

\* What is known of a call under way.
LEMMA UnderWay ==
    ASSUME PageInv, NEW t \in Thread, call[t].pc \in Steps
    PROVE  /\ call[t] \in CallType /\ call[t].i < call[t].cnt /\ call[t].cnt \in Nat \ {0}
           /\ call[t].cnt \in 1..MaxCnt /\ call[t].start \in Nat /\ call[t].i \in Nat
           /\ InCall(t) = call[t].start..(call[t].start + call[t].cnt - 1)
           /\ InCall(t) \subseteq Page /\ InCall(t) \subseteq vbits /\ PageOf(t) \in InCall(t)
           /\ PageOf(t) \in Page /\ call[t].start \in Page
<1>1. call[t] # NotCalling
  BY CallShapes DEF Steps
<1>2. call[t] \in CallType /\ call[t].i < call[t].cnt /\ InCall(t) \subseteq Page
  BY <1>1 DEF PageInv, PoolTypes
<1>3. call[t].start \in Nat /\ call[t].i \in Nat /\ call[t].cnt \in Nat /\ call[t].cnt \in 1..MaxCnt
  BY <1>2, PoolAssumption DEF CallType
<1>4. InCall(t) = call[t].start..(call[t].start + call[t].cnt - 1)
  BY DEF InCall, Run
<1>5. PageOf(t) \in InCall(t) /\ call[t].start \in InCall(t)
  BY <1>2, <1>3, <1>4 DEF PageOf
<1>6. InCall(t) \subseteq vbits
  BY DEF PageInv, Marked, Owned
<1> QED BY <1>2, <1>3, <1>4, <1>5, <1>6

\* What palloc returns.
LEMMA OneFrame ==
    LET f == AcquireIdx(pbits, PLen, 1)
    IN  /\ f = -1 => AcquireBits(pbits, PLen, 1) = pbits
        /\ f # -1 => f \in Frame /\ f \notin pbits /\ AcquireBits(pbits, PLen, 1) = pbits \cup {f}
<1> DEFINE f == AcquireIdx(pbits, PLen, 1)
<1>1. ASSUME f # -1
      PROVE  f \in Frame /\ f \notin pbits /\ AcquireBits(pbits, PLen, 1) = pbits \cup {f}
  <2>1. /\ f \in Nat /\ f..(f + 1 - 1) \subseteq Frame /\ f..(f + 1 - 1) \cap pbits = {}
        /\ AcquireBits(pbits, PLen, 1) = pbits \cup f..(f + 1 - 1)
    <3>1. 1 \in Nat \ {0}
      OBVIOUS
    <3> QED BY <1>1, <3>1, PoolLens, AcquireFrees DEF Frame
  <2>2. f..(f + 1 - 1) = {f}
    <3> HIDE DEF f
    <3> QED BY <2>1
  <2> QED BY <2>1, <2>2
<1>2. f = -1 => AcquireBits(pbits, PLen, 1) = pbits
  BY DEF AcquireBits
<1> QED BY <1>1, <1>2

LEMMA PallocPages ==
    ASSUME PageInv, NEW t \in Thread, Palloc(t)
    PROVE  PageInv'
<1> DEFINE f == AcquireIdx(pbits, PLen, 1)
<1>1. /\ call[t].pc = "palloc" /\ call[t].pc \in Steps
      /\ call' = [call EXCEPT ![t] = IF f = -1 THEN NotCalling
                                     ELSE [call[t] EXCEPT !.pc = "map", !.paddr = f]]
      /\ lost' = IF f = -1 THEN lost \cup InCall(t) ELSE lost
      /\ vbits' = vbits /\ pte' = pte /\ regions' = regions
  BY DEF Palloc, Steps
<1>2. /\ call[t] \in CallType /\ call[t].i < call[t].cnt /\ InCall(t) \subseteq Page
  BY <1>1, UnderWay
<1>3. PoolTypes /\ pte \in [Page -> Frame \cup {NoFrame}] /\ \A r \in regions : Run(r) \subseteq Page
  BY DEF PageInv, PoolTypes
<1>4. f # -1 => f \in Frame
  BY OneFrame
<1> HIDE DEF f
<1>5. CASE f = -1
  <2>1. call' = [call EXCEPT ![t] = NotCalling] /\ lost' = lost \cup InCall(t)
    BY <1>1, <1>5
  <2>2. Run(<<NotCalling.start, NotCalling.cnt>>) = {} /\ NotCalling \in CallType
    BY CallShapes DEF Run
  <2>3. Others(t) /\ InCall(t)' = {}
    BY <1>3, <2>1, <2>2, CallStep DEF Others
  <2>4. vbits' \subseteq Page /\ lost' \subseteq Page /\ regions' \subseteq Page \X (1..MaxCnt)
    BY <1>1, <1>2, <1>3, <2>1 DEF PoolTypes
  <2>5. PoolTypes'
    BY <1>1, <1>3, <2>1, <2>2, <2>4, TypesStep
  <2> QED BY <1>1, <2>1, <2>3, <2>5, Loses DEF PageInv
<1>6. CASE f # -1
  <2> DEFINE c == [call[t] EXCEPT !.pc = "map", !.paddr = f]
  <2>1. c = [pc |-> "map", start |-> call[t].start, cnt |-> call[t].cnt, i |-> call[t].i, paddr |-> f]
    BY <1>2, <1>4, <1>6, GoesOn DEF Steps
  <2>2. call' = [call EXCEPT ![t] = c] /\ lost' = lost
    BY <1>1, <1>6
  <2> HIDE DEF c
  <2>3. c \in CallType /\ c.pc \in Steps /\ c.start = call[t].start /\ c.cnt = call[t].cnt /\ c.i < c.cnt
    BY <1>2, <1>4, <1>6, <2>1 DEF CallType, Steps
  <2> QED BY <1>1, <1>3, <2>2, <2>3, Continues
<1> QED BY <1>5, <1>6

LEMMA PageTableAddPages ==
    ASSUME PageInv, NEW t \in Thread, PageTableAdd(t)
    PROVE  PageInv'
<1>1. /\ call[t].pc = "map" /\ call[t].pc \in Steps /\ vbits' = vbits /\ lost' = lost
      /\ pte' = [pte EXCEPT ![PageOf(t)] = call[t].paddr]
  BY DEF PageTableAdd, Steps
<1>2. /\ call[t] \in CallType /\ call[t].i < call[t].cnt /\ InCall(t) \subseteq Page
      /\ call[t].cnt \in Nat \ {0} /\ call[t].i \in Nat /\ call[t].start \in Page
      /\ call[t].cnt \in 1..MaxCnt
  BY <1>1, UnderWay
<1>3. PoolTypes /\ pte \in [Page -> Frame \cup {NoFrame}] /\ \A r \in regions : Run(r) \subseteq Page
  BY DEF PageInv, PoolTypes
<1>4. pte' \in [Page -> Frame \cup {NoFrame}]
  BY <1>1, <1>2, <1>3 DEF CallType
<1>5. CASE call[t].i + 1 = call[t].cnt
  <2> DEFINE r == <<call[t].start, call[t].cnt>>
  <2>1. call' = [call EXCEPT ![t] = NotCalling] /\ regions' = regions \cup {r}
    BY <1>5 DEF PageTableAdd
  <2>2. Run(<<NotCalling.start, NotCalling.cnt>>) = {} /\ NotCalling \in CallType
    BY CallShapes DEF Run
  <2>3. Others(t) /\ InCall(t)' = {}
    BY <1>3, <2>1, <2>2, CallStep DEF Others
  <2>4. Run(r) = InCall(t) /\ r \in Page \X (1..MaxCnt)
    BY <1>2 DEF InCall
  <2> HIDE DEF r
  <2>5. PoolTypes'
    <3>1. vbits' \subseteq Page /\ lost' \subseteq Page /\ regions' \subseteq Page \X (1..MaxCnt)
      BY <1>1, <1>3, <2>1, <2>4 DEF PoolTypes
    <3>2. \A s \in regions' : Run(s) \subseteq Page
      BY <1>2, <1>3, <2>1, <2>4
    <3> QED BY <1>3, <1>4, <2>1, <2>2, <3>1, <3>2, TypesStep
  <2> QED BY <1>1, <2>1, <2>3, <2>4, <2>5, Delivers DEF PageInv
<1>6. CASE call[t].i + 1 # call[t].cnt
  <2> DEFINE c == [Calling("palloc", call[t].start, call[t].cnt) EXCEPT !.i = call[t].i + 1]
  <2>1. c = [pc |-> "palloc", start |-> call[t].start, cnt |-> call[t].cnt,
             i |-> call[t].i + 1, paddr |-> NoFrame]
    BY <1>2, GoesOn DEF Steps
  <2>2. call' = [call EXCEPT ![t] = c] /\ regions' = regions
    BY <1>6 DEF PageTableAdd
  <2> HIDE DEF c
  <2>3. c \in CallType /\ c.pc \in Steps /\ c.start = call[t].start /\ c.cnt = call[t].cnt /\ c.i < c.cnt
    BY <1>2, <1>6, <2>1 DEF CallType, Steps
  <2> QED BY <1>1, <1>4, <2>2, <2>3, Continues
<1> QED BY <1>5, <1>6

LEMMA AddrV2pPages ==
    ASSUME PageInv, NEW t \in Thread, AddrV2p(t)
    PROVE  PageInv'
<1> DEFINE f == pte[PageOf(t)]
           c == [call[t] EXCEPT !.pc = "pfree", !.paddr = f]
<1>1. call[t].pc = "v2p" /\ call[t].pc \in Steps
  BY DEF AddrV2p, Steps
<1>2. /\ call[t] \in CallType /\ call[t].i < call[t].cnt /\ f \in Frame \cup {NoFrame}
      /\ pte \in [Page -> Frame \cup {NoFrame}] /\ call \in [Thread -> CallType]
  BY <1>1, UnderWay DEF PageInv, PoolTypes
<1>3. c = [pc |-> "pfree", start |-> call[t].start, cnt |-> call[t].cnt, i |-> call[t].i, paddr |-> f]
  BY <1>2, GoesOn DEF Steps
<1>4. call' = [call EXCEPT ![t] = c] /\ vbits' = vbits /\ pte' = pte /\ lost' = lost /\ regions' = regions
  BY <1>2 DEF AddrV2p, poolvars
<1> HIDE DEF c, f
<1>5. c \in CallType /\ c.pc \in Steps /\ c.start = call[t].start /\ c.cnt = call[t].cnt /\ c.i < c.cnt
  BY <1>2, <1>3 DEF CallType, Steps
<1> QED BY <1>1, <1>2, <1>4, <1>5, Continues

LEMMA PfreePages ==
    ASSUME PageInv, NEW t \in Thread, Pfree(t)
    PROVE  PageInv'
<1> DEFINE c == [call[t] EXCEPT !.pc = "unmap"]
<1>1. call[t].pc = "pfree" /\ call[t].pc \in Steps
  BY DEF Pfree, Steps
<1>2. /\ call[t] \in CallType /\ call[t].i < call[t].cnt
      /\ pte \in [Page -> Frame \cup {NoFrame}] /\ call \in [Thread -> CallType]
  BY <1>1, UnderWay DEF PageInv, PoolTypes
<1>3. c = [pc |-> "unmap", start |-> call[t].start, cnt |-> call[t].cnt,
           i |-> call[t].i, paddr |-> call[t].paddr]
  BY <1>2, GoesOn DEF Steps
<1>4. call' = [call EXCEPT ![t] = c] /\ vbits' = vbits /\ pte' = pte /\ lost' = lost /\ regions' = regions
  BY <1>2 DEF Pfree
<1> HIDE DEF c
<1>5. c \in CallType /\ c.pc \in Steps /\ c.start = call[t].start /\ c.cnt = call[t].cnt /\ c.i < c.cnt
  BY <1>2, <1>3 DEF CallType, Steps
<1> QED BY <1>1, <1>2, <1>4, <1>5, Continues

LEMMA PageTableRemovePages ==
    ASSUME PageInv, NEW t \in Thread, PageTableRemove(t)
    PROVE  PageInv'
<1>1. /\ call[t].pc = "unmap" /\ call[t].pc \in Steps
      /\ vbits' = vbits /\ pte' = pte /\ lost' = lost /\ regions' = regions
  BY DEF PageTableRemove, Steps
<1>2. /\ call[t] \in CallType /\ call[t].i < call[t].cnt /\ call[t].i \in Nat
      /\ call[t].cnt \in 1..MaxCnt /\ call[t].cnt \in Nat /\ call[t].start \in Nat
      /\ pte \in [Page -> Frame \cup {NoFrame}]
  BY <1>1, UnderWay DEF PageInv, PoolTypes
<1>3. CASE call[t].i + 1 = call[t].cnt
  <2> DEFINE c == Calling("vrel", call[t].start, call[t].cnt)
  <2>1. call' = [call EXCEPT ![t] = c]
    BY <1>3 DEF PageTableRemove
  <2>2. c \in CallType /\ c.pc \in Steps /\ c.start = call[t].start /\ c.cnt = call[t].cnt /\ c.i < c.cnt
    <3>1. "vrel" \in Steps
      BY DEF Steps
    <3>2. call[t].start \in Nat /\ call[t].cnt \in 1..MaxCnt
      BY <1>2
    <3>3. c = [pc |-> "vrel", start |-> call[t].start, cnt |-> call[t].cnt, i |-> 0, paddr |-> NoFrame]
      BY CallShapes
    <3>4. c \in CallType /\ c.pc \in Steps /\ c.i < c.cnt
      BY <3>1, <3>2, Begins
    <3> HIDE DEF c
    <3> QED BY <3>3, <3>4
  <2> HIDE DEF c
  <2> QED BY <1>1, <1>2, <2>1, <2>2, Continues
<1>4. CASE call[t].i + 1 # call[t].cnt
  <2> DEFINE c == [Calling("v2p", call[t].start, call[t].cnt) EXCEPT !.i = call[t].i + 1]
  <2>1. c = [pc |-> "v2p", start |-> call[t].start, cnt |-> call[t].cnt,
             i |-> call[t].i + 1, paddr |-> NoFrame]
    BY <1>2, GoesOn DEF Steps
  <2>2. call' = [call EXCEPT ![t] = c]
    BY <1>4 DEF PageTableRemove
  <2> HIDE DEF c
  <2>3. c \in CallType /\ c.pc \in Steps /\ c.start = call[t].start /\ c.cnt = call[t].cnt /\ c.i < c.cnt
    BY <1>2, <1>4, <2>1 DEF CallType, Steps
  <2> QED BY <1>1, <1>2, <2>2, <2>3, Continues
<1> QED BY <1>3, <1>4

LEMMA VaddrReleasePages ==
    ASSUME PageInv, NEW t \in Thread, VaddrRelease(t)
    PROVE  PageInv'
<1>1. /\ call[t].pc = "vrel" /\ call[t].pc \in Steps /\ call' = [call EXCEPT ![t] = NotCalling]
      /\ vbits' = vbits \ InCall(t) /\ pte' = pte /\ lost' = lost /\ regions' = regions
  BY DEF VaddrRelease, ReleaseBits, InCall, Run, Steps
<1>2. PoolTypes /\ pte \in [Page -> Frame \cup {NoFrame}] /\ \A r \in regions : Run(r) \subseteq Page
  BY DEF PageInv, PoolTypes
<1>3. Run(<<NotCalling.start, NotCalling.cnt>>) = {} /\ NotCalling \in CallType
  BY CallShapes DEF Run
<1>4. Others(t) /\ InCall(t)' = {}
  BY <1>1, <1>2, <1>3, CallStep DEF Others
<1>5. PoolTypes'
  <2>1. vbits' \subseteq Page /\ lost' \subseteq Page /\ regions' \subseteq Page \X (1..MaxCnt)
    BY <1>1, <1>2 DEF PoolTypes
  <2> QED BY <1>1, <1>2, <1>3, <2>1, TypesStep
<1> QED BY <1>1, <1>4, <1>5, Gives DEF PageInv

LEMMA ReleasePages ==
    ASSUME PageInv, NEW t \in Thread, NEW r \in regions, NEW cnt \in 1..MaxCnt, Release(t, r, cnt)
    PROVE  PageInv'
<1> DEFINE R == IF cnt = r[2] THEN {} ELSE {<<r[1] + cnt, r[2] - cnt>>}
           c == Calling("v2p", r[1], cnt)
<1>1. /\ call[t] = NotCalling /\ cnt <= r[2] /\ regions' = (regions \ {r}) \cup R
      /\ call' = [call EXCEPT ![t] = c] /\ vbits' = vbits /\ pte' = pte /\ lost' = lost
  BY DEF Release, poolvars
<1>2. PoolTypes /\ pte \in [Page -> Frame \cup {NoFrame}] /\ \A s \in regions : Run(s) \subseteq Page
  BY DEF PageInv, PoolTypes
<1>3. cnt \in Nat \ {0} /\ r[1] \in Nat /\ r[2] \in 1..MaxCnt /\ r[2] \in Nat
  <2>1. \A x \in Page : x \in Nat
    BY PoolBits DEF Page
  <2> QED BY <1>2, <2>1, PoolAssumption DEF PoolTypes
<1>4. /\ c \in CallType /\ c.pc \in Steps /\ c.i < c.cnt
      /\ Run(<<c.start, c.cnt>>) = r[1]..(r[1] + cnt - 1)
  BY <1>3, Begins DEF Steps
<1>5. Run(r) = r[1]..(r[1] + r[2] - 1)
  BY DEF Run
<1>6. r[1]..(r[1] + cnt - 1) \subseteq Run(r)
  BY <1>1, <1>3, <1>5
<1>7. ASSUME NEW s \in R
      PROVE  /\ s = <<r[1] + cnt, r[2] - cnt>> /\ r[2] # cnt
             /\ Run(s) = (r[1] + cnt)..(r[1] + r[2] - 1)
             /\ Run(s) \subseteq Run(r) /\ s \in Page \X (1..MaxCnt)
  <2>1. s = <<r[1] + cnt, r[2] - cnt>> /\ r[2] # cnt
    OBVIOUS
  <2>2. Run(s) = (r[1] + cnt)..(r[1] + r[2] - 1)
    <3>1. r[1] + cnt + (r[2] - cnt) - 1 = r[1] + r[2] - 1
      BY <1>3
    <3> QED BY <2>1, <3>1 DEF Run
  <2>3. Run(s) \subseteq Run(r) /\ r[1] + cnt \in Run(r) /\ r[2] - cnt \in 1..MaxCnt
    BY <1>1, <1>3, <1>5, <2>1, <2>2, PoolAssumption
  <2> QED BY <1>2, <2>1, <2>2, <2>3
<1>8. \A p : p \in Run(r) <=> p \in r[1]..(r[1] + cnt - 1) \/ \E s \in R : p \in Run(s)
  <2>1. CASE cnt = r[2]
    BY <1>5, <2>1
  <2>2. CASE cnt # r[2]
    <3>1. PICK s \in R : TRUE
      BY <2>2
    <3>2. \A p : p \in Run(r) <=>
                 p \in r[1]..(r[1] + cnt - 1) \/ p \in (r[1] + cnt)..(r[1] + r[2] - 1)
      BY <1>1, <1>3, <1>5
    <3> HIDE DEF R
    <3> QED BY <1>7, <3>1, <3>2
  <2> QED BY <2>1, <2>2
<1>9. \A s, q \in R : s = q
  BY <1>7
<1> HIDE DEF R, c
<1>10. PoolTypes'
  <2>1. vbits' \subseteq Page /\ lost' \subseteq Page /\ regions' \subseteq Page \X (1..MaxCnt)
    BY <1>1, <1>2, <1>7 DEF PoolTypes
  <2>2. \A s \in regions' : Run(s) \subseteq Page
    BY <1>1, <1>2, <1>7
  <2>3. Run(<<c.start, c.cnt>>) \subseteq Page
    BY <1>2, <1>4, <1>6
  <2> QED BY <1>1, <1>2, <1>4, <2>1, <2>2, <2>3, TypesStep
<1>11. Others(t) /\ InCall(t) = {} /\ InCall(t)' = r[1]..(r[1] + cnt - 1)
  BY <1>1, <1>2, <1>4, CallStep, CallShapes DEF Others
<1>12. \A s \in R : Run(s) \cap InCall(t)' = {} /\ Run(s) \subseteq Run(r)
  <2>1. ASSUME NEW s \in R PROVE Run(s) \cap InCall(t)' = {}
    BY <1>3, <1>7, <1>11
  <2> QED BY <1>7, <2>1
<1>13. \A p : p \in Run(r) <=> p \in InCall(t)' \/ \E s \in R : p \in Run(s)
  BY <1>8, <1>11
<1>14. RegionsDisjoint' /\ Marked'
  <2>1. /\ regions' = (regions \ {r}) \cup R /\ vbits' = vbits /\ lost' = lost
        /\ Others(t) /\ InCall(t) = {}
    BY <1>1, <1>11
  <2> QED BY <1>9, <1>12, <1>13, <2>1, TakesBack
<1> QED BY <1>10, <1>14 DEF PageInv

LEMMA PageInit == Init => PageInv
<1> SUFFICES ASSUME Init PROVE PageInv
  OBVIOUS
<1>1. /\ vbits = {} /\ lost = {} /\ regions = {} /\ pte \in [Page -> Frame \cup {NoFrame}]
      /\ \A t \in Thread : call[t] = NotCalling
      /\ call \in [Thread -> CallType]
  BY CallShapes DEF Init
<1>2. \A t \in Thread : InCall(t) = {}
  BY <1>1, CallShapes
<1> QED BY <1>1, <1>2 DEF PageInv, PoolTypes, RegionsDisjoint, Marked, Owned

LEMMA PageNext ==
    ASSUME PageInv, [Next]_vars
    PROVE  PageInv'
<1>1. CASE UNCHANGED vars
  BY <1>1 DEF vars, poolvars, PageInv, PoolTypes, RegionsDisjoint, Marked, Owned, InCall
<1>2. ASSUME NEW t \in Thread, NEW cnt \in 1..MaxCnt, AcquireAny(t, cnt) PROVE PageInv'
  BY <1>2, AcquireAnyPages
<1>3. ASSUME NEW t \in Thread, NEW start \in Page, NEW cnt \in 1..MaxCnt, AcquireAt(t, start, cnt)
      PROVE  PageInv'
  BY <1>3, AcquireAtPages
<1>4. ASSUME NEW t \in Thread, NEW r \in regions, NEW cnt \in 1..MaxCnt, Release(t, r, cnt)
      PROVE  PageInv'
  BY <1>4, ReleasePages
<1>5. ASSUME NEW t \in Thread,
             \/ Palloc(t) \/ PageTableAdd(t)
             \/ AddrV2p(t) \/ Pfree(t) \/ PageTableRemove(t) \/ VaddrRelease(t)
      PROVE  PageInv'
  BY <1>5, PallocPages, PageTableAddPages, AddrV2pPages, PfreePages, PageTableRemovePages,
     VaddrReleasePages
<1> QED BY <1>1, <1>2, <1>3, <1>4, <1>5 DEF Next

THEOREM PageInvariant == Spec => []PageInv
<1> QED BY PageInit, PageNext, PTL DEF Spec

\* No two callers share a page.
THEOREM RegionsDisjointHolds == Spec => []RegionsDisjoint
<1>1. PageInv => RegionsDisjoint
  BY DEF PageInv
<1> QED BY <1>1, PageInvariant, PTL

-----------------------------------------------------------------------------
(* Frames: which page or call has each one.                                *)

PagesOf(t, from, to) == (call[t].start + from)..(call[t].start + to - 1)

\* How far a call has come: page_acquire maps its pages in turn, page_release
\* unmaps them.
Passage(t) ==
    /\ call[t].pc \in {"palloc", "map"} =>
          /\ PagesOf(t, 0, call[t].i) \subseteq present
          /\ PagesOf(t, call[t].i, call[t].cnt) \cap present = {}
    /\ call[t].pc \in {"v2p", "pfree", "unmap"} =>
          /\ PagesOf(t, 0, call[t].i) \cap present = {}
          /\ PagesOf(t, call[t].i, call[t].cnt) \subseteq present
    /\ call[t].pc = "vrel" => InCall(t) \cap present = {}
Progress ==
    /\ present \subseteq vbits
    /\ \A r \in regions : Run(r) \subseteq present
    /\ \A t \in Thread : Passage(t)

\* The pages whose mapping is still that of their frame, and the calls that
\* have a frame they have not mapped.
Freed == {PageOf(t) : t \in {u \in Thread : call[u].pc = "unmap"}}
Live == present \ Freed
InHand == {t \in Thread : call[t].pc = "map"}

\* A frame in use is that of one live mapping or in the hand of one call.
Frames ==
    /\ pbits \subseteq Frame
    /\ \A p \in Live : pte[p] \in pbits
    /\ \A p, q \in Live : pte[p] = pte[q] => p = q
    /\ \A t \in InHand : call[t].paddr \in pbits /\ \A p \in Live : pte[p] # call[t].paddr
    /\ \A t, u \in InHand : call[t].paddr = call[u].paddr => t = u
    /\ \A f \in pbits : (\E p \in Live : pte[p] = f) \/ (\E t \in InHand : call[t].paddr = f)
    /\ \A t \in Thread : call[t].pc = "pfree" => call[t].paddr = pte[PageOf(t)]
FrameInv == PageInv /\ Progress /\ Frames

LEMMA RunParts ==
    ASSUME NEW s \in Nat, NEW n \in Nat, NEW i \in Nat, i < n
    PROVE  /\ (s + 0)..(s + i - 1) \subseteq s..(s + n - 1)
           /\ (s + i)..(s + n - 1) \subseteq s..(s + n - 1)
           /\ (s + 0)..(s + n - 1) = s..(s + n - 1)
           /\ (s + 0)..(s + 0 - 1) = {}
           /\ (s + 0)..(s + (i + 1) - 1) = ((s + 0)..(s + i - 1)) \cup {s + i}
           /\ (s + i)..(s + n - 1) = {s + i} \cup (s + (i + 1))..(s + n - 1)
           /\ s + i \notin (s + 0)..(s + i - 1) /\ s + i \notin (s + (i + 1))..(s + n - 1)
<1>1. (s + 0)..(s + i - 1) \subseteq s..(s + n - 1)
  OBVIOUS
<1>2. (s + i)..(s + n - 1) \subseteq s..(s + n - 1)
  OBVIOUS
<1>3. (s + 0)..(s + n - 1) = s..(s + n - 1)
  OBVIOUS
<1>4. (s + 0)..(s + 0 - 1) = {}
  OBVIOUS
<1>5. (s + 0)..(s + (i + 1) - 1) = ((s + 0)..(s + i - 1)) \cup {s + i}
  OBVIOUS
<1>6. (s + i)..(s + n - 1) = {s + i} \cup (s + (i + 1))..(s + n - 1)
  OBVIOUS
<1>7. s + i \notin (s + 0)..(s + i - 1) /\ s + i \notin (s + (i + 1))..(s + n - 1)
  OBVIOUS
<1> QED BY <1>1, <1>2, <1>3, <1>4, <1>5, <1>6, <1>7

\* The pages of a call before, at and after the one it is at.
LEMMA CallParts ==
    ASSUME PageInv, NEW t \in Thread, call[t].pc \in Steps
    PROVE  /\ PagesOf(t, 0, call[t].i) \subseteq InCall(t)
           /\ PagesOf(t, call[t].i, call[t].cnt) \subseteq InCall(t)
           /\ PagesOf(t, 0, call[t].cnt) = InCall(t)
           /\ PagesOf(t, 0, 0) = {}
           /\ PagesOf(t, 0, call[t].i + 1) = PagesOf(t, 0, call[t].i) \cup {PageOf(t)}
           /\ PagesOf(t, call[t].i, call[t].cnt) =
                  {PageOf(t)} \cup PagesOf(t, call[t].i + 1, call[t].cnt)
           /\ PageOf(t) \notin PagesOf(t, 0, call[t].i)
           /\ PageOf(t) \notin PagesOf(t, call[t].i + 1, call[t].cnt)
<1>1. /\ call[t].start \in Nat /\ call[t].cnt \in Nat /\ call[t].i \in Nat /\ call[t].i < call[t].cnt
      /\ InCall(t) = call[t].start..(call[t].start + call[t].cnt - 1)
  BY UnderWay
<1>2. /\ InCall(t) = call[t].start..(call[t].start + call[t].cnt - 1)
      /\ PageOf(t) = call[t].start + call[t].i
      /\ PagesOf(t, 0, call[t].i) = (call[t].start + 0)..(call[t].start + call[t].i - 1)
      /\ PagesOf(t, call[t].i, call[t].cnt) =
             (call[t].start + call[t].i)..(call[t].start + call[t].cnt - 1)
      /\ PagesOf(t, 0, call[t].cnt) = (call[t].start + 0)..(call[t].start + call[t].cnt - 1)
      /\ PagesOf(t, 0, 0) = (call[t].start + 0)..(call[t].start + 0 - 1)
      /\ PagesOf(t, 0, call[t].i + 1) = (call[t].start + 0)..(call[t].start + (call[t].i + 1) - 1)
      /\ PagesOf(t, call[t].i + 1, call[t].cnt) =
             (call[t].start + (call[t].i + 1))..(call[t].start + call[t].cnt - 1)
  BY <1>1 DEF PagesOf, PageOf
<1> DEFINE s == call[t].start
           n == call[t].cnt
           i == call[t].i
<1>3. s \in Nat /\ n \in Nat /\ i \in Nat /\ i < n
  BY <1>1
<1> HIDE DEF s, n, i
<1>4. /\ (s + 0)..(s + i - 1) \subseteq s..(s + n - 1)
      /\ (s + i)..(s + n - 1) \subseteq s..(s + n - 1)
      /\ (s + 0)..(s + n - 1) = s..(s + n - 1)
      /\ (s + 0)..(s + 0 - 1) = {}
      /\ (s + 0)..(s + (i + 1) - 1) = ((s + 0)..(s + i - 1)) \cup {s + i}
      /\ (s + i)..(s + n - 1) = {s + i} \cup (s + (i + 1))..(s + n - 1)
      /\ s + i \notin (s + 0)..(s + i - 1) /\ s + i \notin (s + (i + 1))..(s + n - 1)
  BY <1>3, RunParts
<1> QED BY <1>2, <1>4, Zenon DEF s, n, i

\* Calls have no page in common, so a step of one leaves the others where they are.
LEMMA PassageOthers ==
    ASSUME PageInv, NEW t \in Thread, \A u \in Thread : u # t => call'[u] = call[u],
           \A p : p \notin InCall(t) => (p \in present' <=> p \in present)
    PROVE  \A u \in Thread : u # t /\ Passage(u) => Passage(u)'
<1> SUFFICES ASSUME NEW u \in Thread, u # t, Passage(u)
             PROVE  Passage(u)'
  OBVIOUS
<1>1. call'[u] = call[u] /\ InCall(u)' = InCall(u)
  BY DEF InCall
<1>2. CASE call[u].pc \notin Steps
  BY <1>1, <1>2 DEF Passage, Steps
<1>3. CASE call[u].pc \in Steps
  <2>1. /\ call[u].start \in Nat /\ call[u].cnt \in Nat /\ call[u].i \in Nat /\ call[u].i < call[u].cnt
        /\ InCall(u) = call[u].start..(call[u].start + call[u].cnt - 1)
    BY <1>3, UnderWay
  <2>2. \A p \in InCall(u) : p \in present' <=> p \in present
    BY DEF PageInv, RegionsDisjoint
  <2>3. /\ PagesOf(u, 0, call[u].i) \subseteq InCall(u)
        /\ PagesOf(u, call[u].i, call[u].cnt) \subseteq InCall(u)
    BY <1>3, CallParts
  <2>4. /\ PagesOf(u, 0, call[u].i)' = PagesOf(u, 0, call[u].i)
        /\ PagesOf(u, call[u].i, call[u].cnt)' = PagesOf(u, call[u].i, call[u].cnt)
    BY <1>1 DEF PagesOf
  <2>5. call[u].pc \in {"palloc", "map"} =>
            /\ PagesOf(u, 0, call[u].i)' \subseteq present'
            /\ PagesOf(u, call[u].i, call[u].cnt)' \cap present' = {}
    BY <2>2, <2>3, <2>4 DEF Passage
  <2>6. call[u].pc \in {"v2p", "pfree", "unmap"} =>
            /\ PagesOf(u, 0, call[u].i)' \cap present' = {}
            /\ PagesOf(u, call[u].i, call[u].cnt)' \subseteq present'
    BY <2>2, <2>3, <2>4 DEF Passage
  <2>7. call[u].pc = "vrel" => InCall(u)' \cap present' = {}
    BY <1>1, <2>2 DEF Passage
  <2> QED BY <1>1, <2>5, <2>6, <2>7 DEF Passage
<1> QED BY <1>2, <1>3

OtherFreed(t) == {PageOf(u) : u \in {v \in Thread \ {t} : call[v].pc = "unmap"}}

\* The live pages before and after a step of t.
LEMMA LiveAfter ==
    ASSUME PageInv, NEW t \in Thread, \A u \in Thread : u # t => call'[u] = call[u]
    PROVE  /\ \A p : p \in Live <=> /\ p \in present /\ p \notin OtherFreed(t)
                                    /\ ~(call[t].pc = "unmap" /\ p = PageOf(t))
           /\ \A p : p \in Live' <=> /\ p \in present' /\ p \notin OtherFreed(t)
                                     /\ ~(call'[t].pc = "unmap" /\ p = PageOf(t)')
           /\ OtherFreed(t) \cap InCall(t) = {}
           /\ \A r \in regions : Freed \cap Run(r) = {}
<1>1. \A p : p \in Freed <=> p \in OtherFreed(t) \/ (call[t].pc = "unmap" /\ p = PageOf(t))
  BY DEF Freed, OtherFreed
<1>2. \A u \in Thread : u # t => PageOf(u)' = PageOf(u)
  BY DEF PageOf
<1>3. \A p : p \in Freed' <=> p \in OtherFreed(t) \/ (call'[t].pc = "unmap" /\ p = PageOf(t)')
  BY <1>2 DEF Freed, OtherFreed
<1>4. \A u \in Thread : call[u].pc = "unmap" => PageOf(u) \in InCall(u)
  BY UnderWay DEF Steps
<1>5. OtherFreed(t) \cap InCall(t) = {}
  BY <1>4 DEF OtherFreed, PageInv, RegionsDisjoint
<1>6. \A r \in regions : Freed \cap Run(r) = {}
  BY <1>4 DEF Freed, PageInv, RegionsDisjoint
<1> QED BY <1>1, <1>3, <1>5, <1>6 DEF Live

\* A step that moves no frame.
LEMMA FramesStay ==
    ASSUME Frames, NEW t \in Thread, \A u \in Thread : u # t => call'[u] = call[u],
           pbits' = pbits, pte' = pte, Live' = Live,
           call[t].pc # "map", call'[t].pc # "map",
           call'[t].pc = "pfree" => call'[t].paddr = pte[PageOf(t)']
    PROVE  Frames'
<1>1. InHand' = InHand
  BY DEF InHand
<1>2. \A u \in InHand : u # t /\ u \in Thread
  BY DEF InHand
<1>3. \A u \in Thread : u # t => PageOf(u)' = PageOf(u)
  BY DEF PageOf
<1>4. \A u \in Thread : call'[u].pc = "pfree" => call'[u].paddr = pte'[PageOf(u)']
  BY <1>3 DEF Frames
<1> QED BY <1>1, <1>2, <1>4 DEF Frames

\* palloc takes a free frame.
LEMMA FramesTake ==
    ASSUME Frames, NEW t \in Thread, \A u \in Thread : u # t => call'[u] = call[u],
           NEW f \in Frame \ pbits, pbits' = pbits \cup {f}, pte' = pte, Live' = Live,
           call[t].pc # "map", call'[t].pc = "map", call'[t].paddr = f
    PROVE  Frames'
<1>1. InHand' = InHand \cup {t} /\ t \notin InHand
  BY DEF InHand
<1>2. \A u \in InHand : u # t /\ call'[u] = call[u]
  BY DEF InHand
<1>3. \A u \in Thread : u # t => PageOf(u)' = PageOf(u)
  BY DEF PageOf
<1>4. \A u \in Thread : call'[u].pc = "pfree" => call'[u].paddr = pte'[PageOf(u)']
  BY <1>3 DEF Frames
<1>5. \A u \in InHand' : call'[u].paddr \in pbits' /\ \A p \in Live' : pte'[p] # call'[u].paddr
  BY <1>1, <1>2 DEF Frames
<1>6. \A u, v \in InHand' : call'[u].paddr = call'[v].paddr => u = v
  BY <1>1, <1>2 DEF Frames
<1>7. \A g \in pbits' : (\E p \in Live' : pte'[p] = g) \/ (\E u \in InHand' : call'[u].paddr = g)
  BY <1>1, <1>2 DEF Frames
<1> QED BY <1>4, <1>5, <1>6, <1>7 DEF Frames

\* page_table_add turns a frame in hand into a mapping.
LEMMA FramesMap ==
    ASSUME Frames, NEW t \in Thread, \A u \in Thread : u # t => call'[u] = call[u],
           NEW p \in Page \ Live, pbits' = pbits, Live' = Live \cup {p}, Live \subseteq Page,
           pte \in [Page -> Frame \cup {NoFrame}], pte' = [pte EXCEPT ![p] = call[t].paddr],
           call[t].pc = "map", call'[t].pc \notin {"map", "pfree"},
           \A u \in Thread : call[u].pc = "pfree" => PageOf(u) \in Page \ {p}
    PROVE  Frames'
<1>1. InHand' = InHand \ {t} /\ t \in InHand
  BY DEF InHand
<1>2. \A u \in InHand' : u # t /\ call'[u] = call[u] /\ u \in InHand
  BY <1>1 DEF InHand
<1>3. \A u \in Thread : u # t => PageOf(u)' = PageOf(u)
  BY DEF PageOf
<1>4. pte'[p] = call[t].paddr /\ \A q \in Page : q # p => pte'[q] = pte[q]
  OBVIOUS
<1>5. \A q \in Live : q # p /\ pte'[q] = pte[q]
  BY <1>4
<1>6. \A u \in Thread : call'[u].pc = "pfree" => call'[u].paddr = pte'[PageOf(u)']
  BY <1>3, <1>4 DEF Frames
<1>7. \A q \in Live' : pte'[q] \in pbits'
  BY <1>1, <1>4, <1>5 DEF Frames
<1>8. \A q, s \in Live' : pte'[q] = pte'[s] => q = s
  BY <1>1, <1>4, <1>5 DEF Frames
<1>9. \A u \in InHand' : call'[u].paddr \in pbits' /\ \A q \in Live' : pte'[q] # call'[u].paddr
  BY <1>1, <1>2, <1>4, <1>5 DEF Frames
<1>10. \A u, v \in InHand' : call'[u].paddr = call'[v].paddr => u = v
  BY <1>2 DEF Frames
<1>11. ASSUME NEW g \in pbits'
       PROVE  (\E q \in Live' : pte'[q] = g) \/ (\E u \in InHand' : call'[u].paddr = g)
  <2>1. CASE \E q \in Live : pte[q] = g
    BY <1>5, <2>1
  <2>2. CASE \E u \in InHand : call[u].paddr = g
    BY <1>1, <1>2, <1>4, <2>2
  <2> QED BY <2>1, <2>2 DEF Frames
<1> QED BY <1>6, <1>7, <1>8, <1>9, <1>10, <1>11 DEF Frames

\* pfree ends the life of a mapping whose entry is still there.
LEMMA FramesFree ==
    ASSUME Frames, NEW t \in Thread, \A u \in Thread : u # t => call'[u] = call[u],
           NEW p \in Live, pbits' = pbits \ {pte[p]}, pte' = pte, Live' = Live \ {p},
           call[t].pc # "map", call'[t].pc \notin {"map", "pfree"}
    PROVE  Frames'
<1>1. InHand' = InHand
  BY DEF InHand
<1>2. \A u \in InHand : u # t /\ call'[u] = call[u]
  BY DEF InHand
<1>3. \A u \in Thread : u # t => PageOf(u)' = PageOf(u)
  BY DEF PageOf
<1>4. \A u \in Thread : call'[u].pc = "pfree" => call'[u].paddr = pte'[PageOf(u)']
  BY <1>3 DEF Frames
<1>5. \A q \in Live' : pte'[q] \in pbits'
  BY DEF Frames
<1>6. \A u \in InHand' : call'[u].paddr \in pbits' /\ \A q \in Live' : pte'[q] # call'[u].paddr
  BY <1>1, <1>2 DEF Frames
<1>7. \A g \in pbits' : (\E q \in Live' : pte'[q] = g) \/ (\E u \in InHand' : call'[u].paddr = g)
  BY <1>1, <1>2 DEF Frames
<1> QED BY <1>1, <1>2, <1>4, <1>5, <1>6, <1>7 DEF Frames

\* A step outside every call.
LEMMA IdleFrames ==
    ASSUME FrameInv, call' = call, present' = present, pte' = pte, pbits' = pbits,
           regions' = regions, vbits \subseteq vbits'
    PROVE  Progress' /\ Frames'
<1>1. Progress'
  BY DEF FrameInv, Progress, Passage, PagesOf, InCall
<1>2. Live' = Live /\ InHand' = InHand /\ \A t \in Thread : PageOf(t)' = PageOf(t)
  BY DEF Live, Freed, InHand, PageOf
<1>3. Frames'
  BY <1>2 DEF FrameInv, Frames
<1> QED BY <1>1, <1>3

\* page_acquire begins with pages no entry maps.
LEMMA FillFrames ==
    ASSUME FrameInv, NEW t \in Thread, call[t] = NotCalling,
           NEW start \in Nat, NEW cnt \in 1..MaxCnt, start..(start + cnt - 1) \cap vbits = {},
           call' = [call EXCEPT ![t] = Calling("palloc", start, cnt)], vbits \subseteq vbits',
           present' = present, pte' = pte, pbits' = pbits, regions' = regions
    PROVE  Progress' /\ Frames'
<1>1. PageInv /\ PoolTypes /\ Progress /\ Frames /\ call[t].pc = "idle"
  BY CallShapes DEF FrameInv, PageInv
<1>2. \A u \in Thread : u # t => call'[u] = call[u]
  BY <1>1, CallStep
<1>3. call'[t] = [pc |-> "palloc", start |-> start, cnt |-> cnt, i |-> 0, paddr |-> NoFrame]
  BY <1>1, CallStep, CallShapes
<1>4. PagesOf(t, 0, call[t].i)' = {} /\ PagesOf(t, call[t].i, call[t].cnt)' = start..(start + cnt - 1)
  BY <1>3 DEF PagesOf
<1>5. Passage(t)'
  BY <1>1, <1>3, <1>4 DEF Passage, Progress
<1>6. \A u \in Thread : Passage(u)'
  BY <1>1, <1>2, <1>5, PassageOthers DEF Progress
<1>7. Progress'
  BY <1>1, <1>6 DEF Progress
<1>8. Live' = Live
  BY <1>1, <1>2, <1>3, LiveAfter DEF Live
<1>9. Frames'
  <2>1. call[t].pc # "map" /\ call'[t].pc # "map" /\ call'[t].pc # "pfree"
    BY <1>1, <1>3
  <2> QED BY <1>1, <1>2, <1>8, <2>1, FramesStay
<1> QED BY <1>7, <1>9

LEMMA AcquireFrames ==
    ASSUME FrameInv, NEW t \in Thread, NEW cnt \in 1..MaxCnt,
           AcquireAny(t, cnt) \/ \E start \in Page : AcquireAt(t, start, cnt)
    PROVE  Progress' /\ Frames'
<1>1. cnt \in Nat \ {0} /\ \A x \in Page : x \in Nat
  BY PoolAssumption, PoolBits DEF Page
<1>2. CASE AcquireAny(t, cnt)
  <2> DEFINE start == AcquireIdx(vbits, VLen, cnt)
  <2>1. /\ call[t] = NotCalling /\ vbits' = AcquireBits(vbits, VLen, cnt)
        /\ call' = IF start = -1 THEN call ELSE [call EXCEPT ![t] = Calling("palloc", start, cnt)]
        /\ present' = present /\ pte' = pte /\ pbits' = pbits /\ regions' = regions
    BY <1>2 DEF AcquireAny
  <2>2. CASE start = -1
    <3>1. vbits' = vbits /\ call' = call
      BY <2>1, <2>2 DEF AcquireBits
    <3> QED BY <2>1, <3>1, IdleFrames
  <2>3. CASE start # -1
    <3>1. /\ start \in Nat /\ start..(start + cnt - 1) \cap vbits = {}
          /\ vbits' = vbits \cup start..(start + cnt - 1)
      BY <1>1, <2>1, <2>3, PoolLens, AcquireFrees
    <3> HIDE DEF start
    <3>2. call' = [call EXCEPT ![t] = Calling("palloc", start, cnt)] /\ vbits \subseteq vbits'
      BY <2>1, <2>3, <3>1
    <3> QED BY <2>1, <3>1, <3>2, FillFrames
  <2> QED BY <2>2, <2>3
<1>3. CASE \E start \in Page : AcquireAt(t, start, cnt)
  <2>1. PICK start \in Page : AcquireAt(t, start, cnt)
    BY <1>3
  <2> DEFINE run == start..(start + cnt - 1)
  <2>2. /\ call[t] = NotCalling /\ vbits \subseteq vbits'
        /\ present' = present /\ pte' = pte /\ pbits' = pbits /\ regions' = regions
    BY <2>1 DEF AcquireAt
  <2>3. CASE run \cap vbits = {}
    <3>1. call' = [call EXCEPT ![t] = Calling("palloc", start, cnt)]
      BY <2>1, <2>3 DEF AcquireAt, Run
    <3>2. start \in Nat
      BY <1>1
    <3> QED BY <2>2, <2>3, <3>1, <3>2, FillFrames
  <2>4. CASE run \cap vbits # {}
    <3>1. call' = call
      BY <2>1, <2>4 DEF AcquireAt, Run
    <3> QED BY <2>2, <3>1, IdleFrames
  <2> QED BY <2>3, <2>4
<1> QED BY <1>2, <1>3

LEMMA PallocFrames ==
    ASSUME FrameInv, NEW t \in Thread, Palloc(t)
    PROVE  Progress' /\ Frames'
<1> DEFINE f == AcquireIdx(pbits, PLen, 1)
<1>1. /\ call[t].pc = "palloc" /\ call[t].pc \in Steps
      /\ pbits' = AcquireBits(pbits, PLen, 1)
      /\ call' = [call EXCEPT ![t] = IF f = -1 THEN NotCalling
                                     ELSE [call[t] EXCEPT !.pc = "map", !.paddr = f]]
      /\ vbits' = vbits /\ pte' = pte /\ regions' = regions /\ present' = present
  BY DEF Palloc, Steps
<1>2. PageInv /\ PoolTypes /\ Progress /\ Frames /\ call[t] \in CallType
  BY <1>1, UnderWay DEF FrameInv, PageInv
<1>3. /\ f = -1 => pbits' = pbits
      /\ f # -1 => f \in Frame /\ f \notin pbits /\ pbits' = pbits \cup {f}
  BY <1>1, OneFrame
<1>4. \A u \in Thread : u # t => call'[u] = call[u]
  BY <1>1, <1>2, CallStep
<1>5. f = -1 => call'[t] = NotCalling
  BY <1>1, <1>2, CallStep
<1>6. f # -1 => call'[t] = [pc |-> "map", start |-> call[t].start, cnt |-> call[t].cnt,
                            i |-> call[t].i, paddr |-> f]
  <2>1. f # -1 => call'[t] = [call[t] EXCEPT !.pc = "map", !.paddr = f]
    BY <1>1, <1>2, CallStep
  <2> QED BY <1>2, <1>3, <2>1, GoesOn DEF Steps
<1> HIDE DEF f
<1>7. Passage(t)'
  <2>1. CASE f = -1
    BY <1>5, <2>1, CallShapes DEF Passage
  <2>2. CASE f # -1
    <3>1. /\ PagesOf(t, 0, call[t].i)' = PagesOf(t, 0, call[t].i)
          /\ PagesOf(t, call[t].i, call[t].cnt)' = PagesOf(t, call[t].i, call[t].cnt)
      BY <1>6, <2>2 DEF PagesOf
    <3>2. call'[t].pc = "map"
      BY <1>6, <2>2
    <3> QED BY <1>1, <1>2, <3>1, <3>2 DEF Passage, Progress
  <2> QED BY <2>1, <2>2
<1>8. \A u \in Thread : Passage(u)'
  BY <1>1, <1>2, <1>4, <1>7, PassageOthers DEF Progress
<1>9. Progress'
  BY <1>1, <1>2, <1>8 DEF Progress
<1>10. call'[t].pc # "unmap" /\ call'[t].pc # "pfree"
  BY <1>5, <1>6, CallShapes
<1>11. Live' = Live
  BY <1>1, <1>2, <1>4, <1>10, LiveAfter DEF Live
<1>12. Frames'
  <2>1. CASE f = -1
    <3>1. call[t].pc # "map" /\ call'[t].pc # "map"
      BY <1>1, <1>5, <2>1, CallShapes
    <3> QED BY <1>1, <1>2, <1>3, <1>4, <1>10, <1>11, <2>1, <3>1, FramesStay
  <2>2. CASE f # -1
    <3>1. call[t].pc # "map" /\ call'[t].pc = "map" /\ call'[t].paddr = f
      BY <1>1, <1>6, <2>2
    <3>2. f \in Frame \ pbits
      BY <1>3, <2>2
    <3> QED BY <1>1, <1>2, <1>3, <1>4, <1>11, <2>2, <3>1, <3>2, FramesTake
  <2> QED BY <2>1, <2>2
<1> QED BY <1>9, <1>12

LEMMA PageTableAddFrames ==
    ASSUME FrameInv, NEW t \in Thread, PageTableAdd(t)
    PROVE  Progress' /\ Frames'
<1> DEFINE p == PageOf(t)
<1>1. /\ call[t].pc = "map" /\ call[t].pc \in Steps
      /\ pte' = [pte EXCEPT ![p] = call[t].paddr] /\ present' = present \cup {p}
      /\ vbits' = vbits /\ pbits' = pbits
  BY DEF PageTableAdd, Steps
<1>2. PageInv /\ PoolTypes /\ Progress /\ Frames
  BY DEF FrameInv, PageInv
<1>3. /\ call[t] \in CallType /\ p \in InCall(t) /\ p \in Page /\ InCall(t) \subseteq vbits
      /\ InCall(t) = PagesOf(t, 0, call[t].cnt)
      /\ PagesOf(t, 0, call[t].i + 1) = PagesOf(t, 0, call[t].i) \cup {p}
      /\ PagesOf(t, call[t].i, call[t].cnt) = {p} \cup PagesOf(t, call[t].i + 1, call[t].cnt)
      /\ p \notin PagesOf(t, call[t].i + 1, call[t].cnt)
  BY <1>1, <1>2, UnderWay, CallParts
<1>4. /\ PagesOf(t, 0, call[t].i) \subseteq present
      /\ PagesOf(t, call[t].i, call[t].cnt) \cap present = {}
  BY <1>1, <1>2 DEF Progress, Passage
<1>5. /\ call[t].i + 1 = call[t].cnt =>
             /\ call' = [call EXCEPT ![t] = NotCalling]
             /\ regions' = regions \cup {<<call[t].start, call[t].cnt>>}
      /\ call[t].i + 1 # call[t].cnt =>
             /\ call' = [call EXCEPT ![t] =
                            [Calling("palloc", call[t].start, call[t].cnt) EXCEPT !.i = call[t].i + 1]]
             /\ regions' = regions
  BY DEF PageTableAdd
<1>6. \A u \in Thread : u # t => call'[u] = call[u]
  BY <1>2, <1>5, CallStep
<1>7. call[t].i + 1 = call[t].cnt => call'[t] = NotCalling
  BY <1>2, <1>5, CallStep
<1>8. call[t].i + 1 # call[t].cnt =>
          call'[t] = [pc |-> "palloc", start |-> call[t].start, cnt |-> call[t].cnt,
                      i |-> call[t].i + 1, paddr |-> NoFrame]
  <2>1. call[t].i + 1 # call[t].cnt =>
            call'[t] = [Calling("palloc", call[t].start, call[t].cnt) EXCEPT !.i = call[t].i + 1]
    BY <1>2, <1>5, CallStep
  <2> QED BY <1>3, <2>1, GoesOn DEF Steps
<1>9. Passage(t)'
  <2>1. CASE call[t].i + 1 = call[t].cnt
    BY <1>7, <2>1, CallShapes DEF Passage
  <2>2. CASE call[t].i + 1 # call[t].cnt
    <3>1. /\ PagesOf(t, 0, call[t].i)' = PagesOf(t, 0, call[t].i + 1)
          /\ PagesOf(t, call[t].i, call[t].cnt)' = PagesOf(t, call[t].i + 1, call[t].cnt)
      BY <1>8, <2>2 DEF PagesOf
    <3>2. call'[t].pc = "palloc"
      BY <1>8, <2>2
    <3>3. /\ PagesOf(t, 0, call[t].i)' \subseteq present'
          /\ PagesOf(t, call[t].i, call[t].cnt)' \cap present' = {}
      <4> HIDE DEF p
      <4> QED BY <1>1, <1>3, <1>4, <3>1
    <3> QED BY <3>2, <3>3 DEF Passage
  <2> QED BY <2>1, <2>2
<1>10. \A u \in Thread : Passage(u)'
  <2>1. \A q : q \notin InCall(t) => (q \in present' <=> q \in present)
    BY <1>1, <1>3
  <2> QED BY <1>2, <1>6, <1>9, <2>1, PassageOthers DEF Progress
<1>11. Progress'
  <2>1. \A r \in regions' : Run(r) \subseteq present'
    <3>1. CASE call[t].i + 1 = call[t].cnt
      <4>1. Run(<<call[t].start, call[t].cnt>>) \subseteq present'
        <5>1. InCall(t) \subseteq present'
          <6> HIDE DEF p
          <6> QED BY <1>1, <1>3, <1>4, <3>1
        <5> QED BY <5>1 DEF InCall
      <4> QED BY <1>1, <1>2, <1>5, <3>1, <4>1 DEF Progress
    <3>2. CASE call[t].i + 1 # call[t].cnt
      BY <1>1, <1>2, <1>5, <3>2 DEF Progress
    <3> QED BY <3>1, <3>2
  <2>2. present' \subseteq vbits'
    BY <1>1, <1>2, <1>3 DEF Progress
  <2> QED BY <1>10, <2>1, <2>2 DEF Progress
<1>12. call'[t].pc \notin {"map", "pfree", "unmap"}
  BY <1>7, <1>8, CallShapes
<1>13. p \notin present
  <2> HIDE DEF p
  <2> QED BY <1>3, <1>4
<1>14. Live' = Live \cup {p} /\ p \notin Live /\ Live \subseteq Page
  <2>1. p \notin OtherFreed(t)
    BY <1>2, <1>3, <1>6, LiveAfter
  <2>2. call[t].pc # "unmap" /\ call'[t].pc # "unmap"
    BY <1>1, <1>12
  <2>3. \A q : q \in Live' <=> q \in Live \/ q = p
    <3> HIDE DEF p
    <3> QED BY <1>1, <1>2, <1>6, <2>1, <2>2, LiveAfter
  <2>4. Live \subseteq present /\ present \subseteq Page
    BY <1>2 DEF Live, Progress, PoolTypes
  <2> QED BY <1>13, <2>3, <2>4
<1>15. \A u \in Thread : call[u].pc = "pfree" => PageOf(u) \in Page \ {p}
  <2>1. ASSUME NEW u \in Thread, call[u].pc = "pfree" PROVE PageOf(u) \in Page \ {p}
    <3>1. u # t
      BY <1>1, <2>1
    <3>2. PageOf(u) \in InCall(u) /\ PageOf(u) \in Page
      BY <1>2, <2>1, UnderWay DEF Steps
    <3> QED BY <1>2, <1>3, <3>1, <3>2 DEF PageInv, RegionsDisjoint
  <2> QED BY <2>1
<1>16. Frames'
  <2>1. p \in Page \ Live /\ pte \in [Page -> Frame \cup {NoFrame}]
    BY <1>2, <1>3, <1>14 DEF PoolTypes
  <2>2. call'[t].pc \notin {"map", "pfree"}
    BY <1>12
  <2> HIDE DEF p
  <2> QED BY <1>1, <1>2, <1>6, <1>14, <1>15, <2>1, <2>2, FramesMap
<1> QED BY <1>11, <1>16

LEMMA ReleaseFrames ==
    ASSUME FrameInv, NEW t \in Thread, NEW r \in regions, NEW cnt \in 1..MaxCnt, Release(t, r, cnt)
    PROVE  Progress' /\ Frames'
<1>1. /\ call[t] = NotCalling /\ cnt <= r[2]
      /\ call' = [call EXCEPT ![t] = Calling("v2p", r[1], cnt)]
      /\ vbits' = vbits /\ pbits' = pbits /\ pte' = pte /\ present' = present
      /\ \A s \in regions' : \/ s \in regions
                             \/ s = <<r[1] + cnt, r[2] - cnt>>
  BY DEF Release, poolvars
<1>2. PageInv /\ PoolTypes /\ Progress /\ Frames /\ call[t].pc = "idle"
  BY <1>1, CallShapes DEF FrameInv, PageInv
<1>3. cnt \in Nat \ {0} /\ r[1] \in Nat /\ r[2] \in Nat
  <2>1. \A x \in Page : x \in Nat
    BY PoolBits DEF Page
  <2> QED BY <1>2, <2>1, PoolAssumption DEF PoolTypes
<1>4. Run(r) = r[1]..(r[1] + r[2] - 1) /\ Run(r) \subseteq present
  BY <1>2 DEF Run, Progress
<1>5. /\ r[1]..(r[1] + cnt - 1) \subseteq Run(r)
      /\ (r[1] + cnt)..(r[1] + r[2] - 1) \subseteq Run(r)
  BY <1>1, <1>3, <1>4
<1>6. Run(<<r[1] + cnt, r[2] - cnt>>) = (r[1] + cnt)..(r[1] + r[2] - 1)
  <2>1. r[1] + cnt + (r[2] - cnt) - 1 = r[1] + r[2] - 1
    BY <1>3
  <2> QED BY <2>1 DEF Run
<1>7. \A u \in Thread : u # t => call'[u] = call[u]
  BY <1>1, <1>2, CallStep
<1>8. call'[t] = [pc |-> "v2p", start |-> r[1], cnt |-> cnt, i |-> 0, paddr |-> NoFrame]
  BY <1>1, <1>2, CallStep, CallShapes
<1>9. PagesOf(t, 0, call[t].i)' = {} /\ PagesOf(t, call[t].i, call[t].cnt)' = r[1]..(r[1] + cnt - 1)
  BY <1>3, <1>8 DEF PagesOf
<1>10. Passage(t)'
  <2>1. /\ PagesOf(t, 0, call[t].i)' \cap present' = {}
        /\ PagesOf(t, call[t].i, call[t].cnt)' \subseteq present'
    BY <1>1, <1>4, <1>5, <1>9
  <2>2. call'[t].pc = "v2p"
    BY <1>8
  <2> QED BY <2>1, <2>2 DEF Passage
<1>11. \A u \in Thread : Passage(u)'
  BY <1>1, <1>2, <1>7, <1>10, PassageOthers DEF Progress
<1>12. Progress'
  BY <1>1, <1>2, <1>4, <1>5, <1>6, <1>11 DEF Progress
<1>13. call'[t].pc # "map" /\ call'[t].pc # "unmap" /\ call'[t].pc # "pfree"
  BY <1>8
<1>14. Live' = Live
  BY <1>1, <1>2, <1>7, <1>13, LiveAfter DEF Live
<1>15. call[t].pc # "map"
  BY <1>2
<1> QED BY <1>1, <1>2, <1>7, <1>12, <1>13, <1>14, <1>15, FramesStay

\* A step of page_release at the same page of the call.
LEMMA SamePageFrames ==
    ASSUME FrameInv, NEW t \in Thread, call[t].pc \in {"v2p", "pfree"},
           NEW c \in CallType, call' = [call EXCEPT ![t] = c], c.pc \in {"pfree", "unmap"},
           c.start = call[t].start, c.cnt = call[t].cnt, c.i = call[t].i,
           present' = present, vbits' = vbits, regions' = regions
    PROVE  /\ Progress' /\ \A u \in Thread : u # t => call'[u] = call[u]
           /\ call'[t] = c /\ PageOf(t)' = PageOf(t) /\ PageOf(t) \in Live
           /\ c.pc # "unmap" => Live' = Live
           /\ c.pc = "unmap" => Live' = Live \ {PageOf(t)}
<1>1. PageInv /\ PoolTypes /\ Progress /\ Frames /\ call[t].pc \in Steps
  BY DEF FrameInv, PageInv, Steps
<1>2. call'[t] = c /\ \A u \in Thread : u # t => call'[u] = call[u]
  BY <1>1, CallStep
<1>3. /\ PagesOf(t, 0, call[t].i)' = PagesOf(t, 0, call[t].i)
      /\ PagesOf(t, call[t].i, call[t].cnt)' = PagesOf(t, call[t].i, call[t].cnt)
      /\ PageOf(t)' = PageOf(t)
  BY <1>2 DEF PagesOf, PageOf
<1>4. /\ PagesOf(t, 0, call[t].i) \cap present = {}
      /\ PagesOf(t, call[t].i, call[t].cnt) \subseteq present
  BY <1>1 DEF Progress, Passage
<1>5. Passage(t)'
  BY <1>2, <1>3, <1>4 DEF Passage
<1>6. \A u \in Thread : Passage(u)'
  BY <1>1, <1>2, <1>5, PassageOthers DEF Progress
<1>7. Progress'
  BY <1>1, <1>6 DEF Progress
<1>8. PageOf(t) \in present /\ PageOf(t) \notin OtherFreed(t) /\ call[t].pc # "unmap"
  <2>1. PageOf(t) \in InCall(t) /\ PageOf(t) \in PagesOf(t, call[t].i, call[t].cnt)
    BY <1>1, UnderWay, CallParts
  <2> QED BY <1>1, <1>2, <1>4, <2>1, LiveAfter
<1>9. \A p : p \in Live <=> p \in present /\ p \notin OtherFreed(t)
  BY <1>1, <1>2, <1>8, LiveAfter
<1>10. \A p : p \in Live' <=> /\ p \in present /\ p \notin OtherFreed(t)
                              /\ ~(c.pc = "unmap" /\ p = PageOf(t))
  BY <1>1, <1>2, <1>3, LiveAfter
<1> QED BY <1>2, <1>3, <1>7, <1>8, <1>9, <1>10

LEMMA AddrV2pFrames ==
    ASSUME FrameInv, NEW t \in Thread, AddrV2p(t)
    PROVE  Progress' /\ Frames'
<1> DEFINE f == pte[PageOf(t)]
           c == [call[t] EXCEPT !.pc = "pfree", !.paddr = f]
<1>1. call[t].pc = "v2p" /\ call[t].pc \in Steps /\ PageInv /\ PoolTypes /\ Frames
  BY DEF AddrV2p, Steps, FrameInv, PageInv
<1>2. call[t] \in CallType /\ f \in Frame \cup {NoFrame} /\ call \in [Thread -> CallType]
  BY <1>1, UnderWay DEF PoolTypes
<1>3. c = [pc |-> "pfree", start |-> call[t].start, cnt |-> call[t].cnt, i |-> call[t].i, paddr |-> f]
  BY <1>2, GoesOn DEF Steps
<1>4. call' = [call EXCEPT ![t] = c]
  BY <1>2 DEF AddrV2p
<1>5. /\ present' = present /\ vbits' = vbits /\ regions' = regions /\ pbits' = pbits /\ pte' = pte
  BY DEF AddrV2p, poolvars
<1> HIDE DEF c
<1>6. /\ c \in CallType /\ c.pc = "pfree" /\ c.start = call[t].start /\ c.cnt = call[t].cnt
      /\ c.i = call[t].i /\ c.paddr = f
  <2> HIDE DEF f
  <2> QED BY <1>2, <1>3 DEF CallType, Steps
<1>7. /\ Progress' /\ \A u \in Thread : u # t => call'[u] = call[u]
      /\ call'[t] = c /\ PageOf(t)' = PageOf(t) /\ Live' = Live
  <2>1. call[t].pc \in {"v2p", "pfree"} /\ c.pc \in {"pfree", "unmap"} /\ c.pc # "unmap"
    BY <1>1, <1>6
  <2> HIDE DEF f
  <2> QED BY <1>4, <1>5, <1>6, <2>1, SamePageFrames
<1>8. call[t].pc # "map" /\ call'[t].pc # "map" /\ call'[t].paddr = pte[PageOf(t)']
  BY <1>1, <1>6, <1>7
<1> QED BY <1>1, <1>5, <1>7, <1>8, FramesStay

LEMMA PfreeFrames ==
    ASSUME FrameInv, NEW t \in Thread, Pfree(t)
    PROVE  Progress' /\ Frames' /\ ReleaseOK(pbits, call[t].paddr, 1)
<1> DEFINE p == PageOf(t)
           c == [call[t] EXCEPT !.pc = "unmap"]
<1>1. call[t].pc = "pfree" /\ call[t].pc \in Steps /\ PageInv /\ PoolTypes /\ Frames
  BY DEF Pfree, Steps, FrameInv, PageInv
<1>2. call[t] \in CallType /\ call \in [Thread -> CallType]
  BY <1>1, UnderWay DEF PoolTypes
<1>3. c = [pc |-> "unmap", start |-> call[t].start, cnt |-> call[t].cnt,
           i |-> call[t].i, paddr |-> call[t].paddr]
  BY <1>2, GoesOn DEF Steps
<1>4. /\ call' = [call EXCEPT ![t] = c] /\ pbits' = ReleaseBits(pbits, call[t].paddr, 1)
      /\ present' = present /\ vbits' = vbits /\ regions' = regions /\ pte' = pte
  BY <1>2 DEF Pfree
<1> HIDE DEF c
<1>5. /\ c \in CallType /\ c.pc = "unmap" /\ c.start = call[t].start /\ c.cnt = call[t].cnt
      /\ c.i = call[t].i
  BY <1>2, <1>3 DEF CallType, Steps
<1>6. /\ Progress' /\ \A u \in Thread : u # t => call'[u] = call[u]
      /\ call'[t] = c /\ p \in Live /\ Live' = Live \ {p}
  <2>1. call[t].pc \in {"v2p", "pfree"} /\ c.pc \in {"pfree", "unmap"}
    BY <1>1, <1>5
  <2> QED BY <1>4, <1>5, <2>1, SamePageFrames
<1>7. call[t].paddr = pte[p] /\ pte[p] \in pbits
  BY <1>1, <1>6 DEF Frames
<1>8. call[t].paddr..(call[t].paddr + 1 - 1) = {pte[p]}
  <2>1. pte[p] \in Int
    <3>1. \A x \in Frame : x \in Int
      BY PoolBits DEF Frame
    <3> QED BY <1>1, <1>7, <3>1 DEF Frames
  <2> HIDE DEF p
  <2> QED BY <1>7, <2>1
<1>9. pbits' = pbits \ {pte[p]} /\ ReleaseOK(pbits, call[t].paddr, 1)
  BY <1>4, <1>7, <1>8 DEF ReleaseBits, ReleaseOK
<1>10. call[t].pc # "map" /\ call'[t].pc \notin {"map", "pfree"}
  BY <1>1, <1>5, <1>6
<1> HIDE DEF p
<1> QED BY <1>1, <1>4, <1>6, <1>9, <1>10, FramesFree

LEMMA PageTableRemoveFrames ==
    ASSUME FrameInv, NEW t \in Thread, PageTableRemove(t)
    PROVE  Progress' /\ Frames'
<1> DEFINE p == PageOf(t)
<1>1. /\ call[t].pc = "unmap" /\ call[t].pc \in Steps /\ present' = present \ {p}
      /\ vbits' = vbits /\ pte' = pte /\ pbits' = pbits /\ regions' = regions
      /\ PageInv /\ PoolTypes /\ Progress /\ Frames
  BY DEF PageTableRemove, Steps, FrameInv, PageInv
<1>2. /\ call[t] \in CallType /\ p \in InCall(t)
      /\ InCall(t) = PagesOf(t, 0, call[t].cnt)
      /\ PagesOf(t, 0, call[t].i + 1) = PagesOf(t, 0, call[t].i) \cup {p}
      /\ PagesOf(t, call[t].i, call[t].cnt) = {p} \cup PagesOf(t, call[t].i + 1, call[t].cnt)
      /\ p \notin PagesOf(t, call[t].i + 1, call[t].cnt)
  BY <1>1, UnderWay, CallParts
<1>3. /\ PagesOf(t, 0, call[t].i) \cap present = {}
      /\ PagesOf(t, call[t].i, call[t].cnt) \subseteq present
  BY <1>1 DEF Progress, Passage
<1>4. /\ call[t].i + 1 = call[t].cnt =>
             call' = [call EXCEPT ![t] = Calling("vrel", call[t].start, call[t].cnt)]
      /\ call[t].i + 1 # call[t].cnt =>
             call' = [call EXCEPT ![t] =
                         [Calling("v2p", call[t].start, call[t].cnt) EXCEPT !.i = call[t].i + 1]]
  BY DEF PageTableRemove
<1>5. \A u \in Thread : u # t => call'[u] = call[u]
  BY <1>1, <1>4, CallStep
<1>6. call[t].i + 1 = call[t].cnt =>
          call'[t] = [pc |-> "vrel", start |-> call[t].start, cnt |-> call[t].cnt,
                      i |-> 0, paddr |-> NoFrame]
  <2>1. call[t].i + 1 = call[t].cnt => call'[t] = Calling("vrel", call[t].start, call[t].cnt)
    BY <1>1, <1>4, CallStep
  <2> QED BY <2>1, CallShapes
<1>7. call[t].i + 1 # call[t].cnt =>
          call'[t] = [pc |-> "v2p", start |-> call[t].start, cnt |-> call[t].cnt,
                      i |-> call[t].i + 1, paddr |-> NoFrame]
  <2>1. call[t].i + 1 # call[t].cnt =>
            call'[t] = [Calling("v2p", call[t].start, call[t].cnt) EXCEPT !.i = call[t].i + 1]
    BY <1>1, <1>4, CallStep
  <2> QED BY <1>2, <2>1, GoesOn DEF Steps
<1>8. Passage(t)'
  <2>1. CASE call[t].i + 1 = call[t].cnt
    <3>1. InCall(t)' = InCall(t)
      BY <1>6, <2>1 DEF InCall
    <3>2. InCall(t)' \cap present' = {}
      <4> HIDE DEF p
      <4> QED BY <1>1, <1>2, <1>3, <2>1, <3>1
    <3>3. call'[t].pc = "vrel"
      BY <1>6, <2>1
    <3> QED BY <3>2, <3>3 DEF Passage
  <2>2. CASE call[t].i + 1 # call[t].cnt
    <3>1. /\ PagesOf(t, 0, call[t].i)' = PagesOf(t, 0, call[t].i + 1)
          /\ PagesOf(t, call[t].i, call[t].cnt)' = PagesOf(t, call[t].i + 1, call[t].cnt)
      BY <1>7, <2>2 DEF PagesOf
    <3>2. call'[t].pc = "v2p"
      BY <1>7, <2>2
    <3>3. /\ PagesOf(t, 0, call[t].i)' \cap present' = {}
          /\ PagesOf(t, call[t].i, call[t].cnt)' \subseteq present'
      <4> HIDE DEF p
      <4> QED BY <1>1, <1>2, <1>3, <3>1
    <3> QED BY <3>2, <3>3 DEF Passage
  <2> QED BY <2>1, <2>2
<1>9. \A u \in Thread : Passage(u)'
  <2>1. \A q : q \notin InCall(t) => (q \in present' <=> q \in present)
    BY <1>1, <1>2
  <2> QED BY <1>1, <1>5, <1>8, <2>1, PassageOthers DEF Progress
<1>10. Progress'
  <2>1. \A r \in regions : Run(r) \subseteq present'
    <3>1. \A r \in regions : p \notin Run(r)
      BY <1>1, <1>2 DEF PageInv, RegionsDisjoint
    <3> QED BY <1>1, <3>1 DEF Progress
  <2> QED BY <1>1, <1>9, <2>1 DEF Progress
<1>11. call'[t].pc \notin {"map", "pfree", "unmap"}
  BY <1>6, <1>7
<1>12. Live' = Live
  <2>1. \A q : q \in Live' <=> q \in Live
    <3>1. \A q : q \in Live <=> q \in present /\ q \notin OtherFreed(t) /\ q # p
      BY <1>1, <1>5, LiveAfter
    <3>2. \A q : q \in Live' <=> q \in present' /\ q \notin OtherFreed(t)
      BY <1>1, <1>5, <1>11, LiveAfter
    <3> QED BY <1>1, <3>1, <3>2
  <2> QED BY <2>1 DEF Live
<1>13. Frames'
  <2>1. call[t].pc # "map" /\ call'[t].pc # "map" /\ call'[t].pc # "pfree"
    BY <1>1, <1>11
  <2> QED BY <1>1, <1>5, <1>12, <2>1, FramesStay
<1> QED BY <1>10, <1>13

LEMMA VaddrReleaseFrames ==
    ASSUME FrameInv, NEW t \in Thread, VaddrRelease(t)
    PROVE  Progress' /\ Frames'
<1>1. /\ call[t].pc = "vrel" /\ call' = [call EXCEPT ![t] = NotCalling]
      /\ vbits' = vbits \ InCall(t) /\ pte' = pte /\ pbits' = pbits
      /\ present' = present /\ regions' = regions
      /\ PageInv /\ PoolTypes /\ Progress /\ Frames
  BY DEF VaddrRelease, ReleaseBits, InCall, Run, FrameInv, PageInv
<1>2. call'[t] = NotCalling /\ \A u \in Thread : u # t => call'[u] = call[u]
  BY <1>1, CallStep
<1>3. call'[t].pc \notin Steps
  BY <1>2, CallShapes DEF Steps
<1>4. Passage(t)'
  BY <1>3 DEF Passage, Steps
<1>5. \A u \in Thread : Passage(u)'
  BY <1>1, <1>2, <1>4, PassageOthers DEF Progress
<1>6. Progress'
  <2>1. InCall(t) \cap present = {}
    BY <1>1 DEF Progress, Passage
  <2> QED BY <1>1, <1>5, <2>1 DEF Progress
<1>7. call'[t].pc # "map" /\ call'[t].pc # "pfree" /\ call'[t].pc # "unmap" /\ call[t].pc # "map"
      /\ call[t].pc # "unmap"
  BY <1>1, <1>3 DEF Steps
<1>8. Live' = Live
  BY <1>1, <1>2, <1>7, LiveAfter DEF Live
<1> QED BY <1>1, <1>2, <1>6, <1>7, <1>8, FramesStay

LEMMA FrameInit == Init => FrameInv
<1> SUFFICES ASSUME Init PROVE FrameInv
  OBVIOUS
<1>1. PageInv
  BY PageInit
<1>2. /\ pbits = {} /\ present = {} /\ regions = {} /\ \A t \in Thread : call[t].pc = "idle"
  BY CallShapes DEF Init
<1>3. Progress
  BY <1>2 DEF Progress, Passage
<1>4. Live = {} /\ InHand = {}
  BY <1>2 DEF Live, InHand
<1>5. Frames
  BY <1>2, <1>4 DEF Frames
<1> QED BY <1>1, <1>3, <1>5 DEF FrameInv

LEMMA FrameNext ==
    ASSUME FrameInv, [Next]_vars
    PROVE  FrameInv'
<1>1. PageInv'
  BY PageNext DEF FrameInv
<1>2. CASE UNCHANGED vars
  <2>1. /\ call' = call /\ present' = present /\ pte' = pte /\ pbits' = pbits
        /\ regions' = regions /\ vbits \subseteq vbits'
    BY <1>2 DEF vars, poolvars
  <2> QED BY <1>1, <2>1, IdleFrames DEF FrameInv
<1>3. ASSUME NEW t \in Thread, NEW cnt \in 1..MaxCnt,
             AcquireAny(t, cnt) \/ \E start \in Page : AcquireAt(t, start, cnt)
      PROVE  FrameInv'
  BY <1>1, <1>3, AcquireFrames DEF FrameInv
<1>4. ASSUME NEW t \in Thread, NEW r \in regions, NEW cnt \in 1..MaxCnt, Release(t, r, cnt)
      PROVE  FrameInv'
  BY <1>1, <1>4, ReleaseFrames DEF FrameInv
<1>5. ASSUME NEW t \in Thread,
             \/ Palloc(t) \/ PageTableAdd(t)
             \/ AddrV2p(t) \/ Pfree(t) \/ PageTableRemove(t) \/ VaddrRelease(t)
      PROVE  FrameInv'
  <2>1. Progress' /\ Frames'
    BY <1>5, PallocFrames, PageTableAddFrames, AddrV2pFrames, PfreeFrames, PageTableRemoveFrames,
       VaddrReleaseFrames
  <2> QED BY <1>1, <2>1 DEF FrameInv
<1> QED BY <1>2, <1>3, <1>4, <1>5 DEF Next

\* No step loses or doubles a frame, at any number of threads, pages and frames.
THEOREM FrameInvariant == Spec => []FrameInv
<1> QED BY FrameInit, FrameNext, PTL DEF Spec

\* memory.c:298-351: a caller's pages are mapped, each to a frame of its own.
THEOREM RegionsMappedHolds == Spec => []RegionsMapped
<1>1. ASSUME FrameInv PROVE RegionsMapped
  <2> DEFINE own == UNION {Run(r) : r \in regions}
  <2>1. own \subseteq present
    BY <1>1 DEF FrameInv, Progress
  <2>2. own \subseteq Live
    <3>1. ASSUME NEW r \in regions PROVE Freed \cap Run(r) = {}
      <4>1. \A u \in Thread : call[u].pc = "unmap" => PageOf(u) \in InCall(u)
        BY <1>1, UnderWay DEF FrameInv, Steps
      <4> QED BY <1>1, <4>1 DEF Freed, FrameInv, PageInv, RegionsDisjoint
    <3> QED BY <2>1, <3>1 DEF Live
  <2> QED BY <1>1, <2>1, <2>2 DEF FrameInv, Frames, RegionsMapped
<1> QED BY <1>1, FrameInvariant, PTL

\* vaddr_release's assertion (bitmap.c:103) and who has each marked page.
THEOREM PagesAccountedHolds == Spec => []PagesAccounted
<1>1. ASSUME FrameInv PROVE PagesAccounted
  <2>1. PageInv /\ PoolTypes /\ Marked /\ Progress /\ Frames
    BY <1>1 DEF FrameInv, PageInv
  <2>2. TypeOK
    <3>1. /\ vbits \subseteq Page /\ pbits \subseteq Frame /\ pte \in [Page -> Frame \cup {NoFrame}]
          /\ present \subseteq Page /\ lost \subseteq Page /\ regions \subseteq Page \X (1..MaxCnt)
      BY <2>1 DEF PoolTypes, Progress, Frames
    <3>2. ASSUME NEW t \in Thread
          PROVE  /\ call[t].pc \in Steps \cup {"idle"} /\ call[t].paddr \in Frame \cup {NoFrame}
                 /\ call[t] # NotCalling => /\ Run(<<call[t].start, call[t].cnt>>) \subseteq Page
                                            /\ call[t].i < call[t].cnt
      BY <2>1 DEF PoolTypes, CallType, InCall
    <3> QED BY <3>1, <3>2 DEF TypeOK
  <2>3. \A p : p \in UNION ({Run(r) : r \in regions} \cup {InCall(t) : t \in Thread}) <=> Owned(p)
    BY DEF Owned
  <2> QED BY <2>1, <2>2, <2>3 DEF PagesAccounted, Marked
<1> QED BY <1>1, FrameInvariant, PTL

\* pfree's assertion (bitmap.c:103), and who has each frame in use: a caller, a
\* call under way, or nobody, when the frames ran out under its call.
THEOREM FramesAccountedHolds == Spec => []FramesAccounted
<1>1. ASSUME FrameInv PROVE FramesAccounted
  <2> DEFINE A == {pte[p] : p \in Live}
             B == {call[t].paddr : t \in InHand}
  <2>1. PageInv /\ PoolTypes /\ Progress /\ Frames
    BY <1>1 DEF FrameInv, PageInv
  <2>2. pbits = A \cup B /\ A \cap B = {}
    BY <2>1 DEF Frames
  <2>3. IsFiniteSet(A) /\ IsFiniteSet(B)
    <3>1. IsFiniteSet(pbits)
      BY <2>1, PoolBits, FS_Subset DEF Frames
    <3> HIDE DEF A, B
    <3> QED BY <2>2, <3>1, FS_Subset
  <2>4. IsFiniteSet(Live) /\ Cardinality(Live) = Cardinality(A)
    <3> DEFINE g == [p \in Live |-> pte[p]]
    <3>1. g \in Injection(Live, A) /\ g \in Surjection(Live, A)
      BY <2>1 DEF Frames, Injection, IsInjective, Surjection
    <3> HIDE DEF g, A
    <3> QED BY <2>3, <3>1, FS_Injection
  <2>5. IsFiniteSet(InHand) /\ Cardinality(InHand) = Cardinality(B)
    <3> DEFINE g == [t \in InHand |-> call[t].paddr]
    <3>1. g \in Injection(InHand, B) /\ g \in Surjection(InHand, B)
      BY <2>1 DEF Frames, Injection, IsInjective, Surjection
    <3> HIDE DEF g, B
    <3> QED BY <2>3, <3>1, FS_Injection
  <2>6. Cardinality(pbits) = Cardinality(Live) + Cardinality(InHand)
    <3>1. Cardinality(A) \in Nat /\ Cardinality(B) \in Nat /\ Cardinality(A \cap B) = 0
      <4> HIDE DEF A, B
      <4> QED BY <2>2, <2>3, FS_CardinalityType, FS_EmptySet
    <3>2. Cardinality(A \cup B) = Cardinality(A) + Cardinality(B) - Cardinality(A \cap B)
      <4> HIDE DEF A, B
      <4> QED BY <2>3, FS_Union
    <3> HIDE DEF A, B
    <3> QED BY <2>2, <2>4, <2>5, <3>1, <3>2
  <2>7. ASSUME NEW t \in Thread, call[t].pc = "pfree" PROVE ReleaseOK(pbits, call[t].paddr, 1)
    <3>1. PageOf(t) \in present
      <4>1. PageOf(t) \in PagesOf(t, call[t].i, call[t].cnt)
        BY <2>1, <2>7, CallParts DEF Steps
      <4> QED BY <2>1, <2>7, <4>1 DEF Progress, Passage
    <3>2. PageOf(t) \notin Freed
      <4>1. ASSUME NEW u \in Thread, call[u].pc = "unmap" PROVE PageOf(u) # PageOf(t)
        <5>1. u # t
          BY <2>7, <4>1
        <5>2. PageOf(u) \in InCall(u) /\ PageOf(t) \in InCall(t)
          BY <2>1, <2>7, <4>1, UnderWay DEF Steps
        <5> QED BY <2>1, <5>1, <5>2 DEF PageInv, RegionsDisjoint
      <4> QED BY <4>1 DEF Freed
    <3>3. call[t].paddr \in pbits /\ call[t].paddr \in Int
      <4>1. \A x \in Frame : x \in Int
        BY PoolBits DEF Frame
      <4>2. call[t].paddr = pte[PageOf(t)] /\ PageOf(t) \in Live
        BY <2>1, <2>7, <3>1, <3>2 DEF Frames, Live
      <4> QED BY <2>1, <4>1, <4>2 DEF Frames
    <3>4. call[t].paddr..(call[t].paddr + 1 - 1) = {call[t].paddr}
      BY <3>3
    <3> QED BY <3>3, <3>4 DEF ReleaseOK
  <2> DEFINE own == UNION ({Run(r) : r \in regions} \cup {InCall(t) : t \in Thread})
             mapped == (own \cap present) \ Freed
             leaked == lost \cap present
  <2>8. Live = mapped \cup leaked /\ mapped \cap leaked = {}
    <3>1. vbits = own \cup lost /\ own \cap lost = {} /\ present \subseteq vbits
      <4>1. \A p : p \in own <=> Owned(p)
        BY DEF Owned
      <4> HIDE DEF own
      <4> QED BY <2>1, <4>1 DEF PageInv, Marked, Progress
    <3>2. Freed \subseteq own
      <4>1. ASSUME NEW t \in Thread, call[t].pc = "unmap" PROVE PageOf(t) \in own
        <5>1. PageOf(t) \in InCall(t)
          BY <2>1, <4>1, UnderWay DEF Steps
        <5> QED BY <5>1
      <4> HIDE DEF own
      <4> QED BY <4>1 DEF Freed
    <3> HIDE DEF own
    <3> QED BY <3>1, <3>2 DEF Live
  <2> HIDE DEF mapped, leaked
  <2>9. Cardinality(Live) = Cardinality(mapped) + Cardinality(leaked)
    <3>1. IsFiniteSet(mapped) /\ IsFiniteSet(leaked)
      BY <2>4, <2>8, FS_Subset
    <3>2. /\ Cardinality(mapped) \in Nat /\ Cardinality(leaked) \in Nat
          /\ Cardinality(mapped \cap leaked) = 0
      BY <2>8, <3>1, FS_CardinalityType, FS_EmptySet
    <3>3. Cardinality(Live) = Cardinality(mapped) + Cardinality(leaked) - Cardinality(mapped \cap leaked)
      BY <2>8, <3>1, FS_Union
    <3> QED BY <3>2, <3>3
  <2>10. pbits = {pte[p] : p \in mapped \cup leaked} \cup {call[t].paddr : t \in InHand}
    BY <2>2, <2>8
  <2>11. Cardinality(pbits) = Cardinality(mapped) + Cardinality(leaked) + Cardinality(InHand)
    BY <2>6, <2>9
  <2> QED BY <2>7, <2>10, <2>11, Zenon DEF FramesAccounted, mapped, leaked, Freed, InHand
<1> QED BY <1>1, FrameInvariant, PTL

-----------------------------------------------------------------------------
(* The heap.                                                               *)

\* What is kept of the first n entries of a list, for each n up to m.
KeptStep(k, list, p, i) ==
    IF i = 0 THEN <<>> ELSE IF block2arena(list[i]) = p THEN k[i - 1] ELSE Append(k[i - 1], list[i])
KeepsOf(k, list, p, m) == k = [i \in 0..m |-> KeptStep(k, list, p, i)]

LEMMA KeptExists ==
    ASSUME NEW list, NEW p, NEW m \in Nat
    PROVE  \E k : KeepsOf(k, list, p, m)
<1> DEFINE D == {n \in Nat : ~\E k : KeepsOf(k, list, p, n)}
<1>1. ASSUME D # {} PROVE FALSE
  <2>1. PICK d \in D : \A n \in D : d <= n
    BY <1>1, NatLeast
  <2>2. CASE d = 0
    <3>1. KeepsOf([i \in 0..0 |-> <<>>], list, p, 0)
      BY DEF KeepsOf, KeptStep
    <3> QED BY <2>2, <3>1
  <2>3. CASE d > 0
    <3>1. d - 1 \in Nat /\ d - 1 \notin D
      BY <2>1, <2>3
    <3>2. PICK k : KeepsOf(k, list, p, d - 1)
      BY <3>1
    <3> DEFINE e == KeptStep(k, list, p, d)
               g == [i \in 0..d |-> IF i = d THEN e ELSE k[i]]
    <3>3. \A i \in 0..d : i # d => i \in 0..(d - 1) /\ k[i] = KeptStep(k, list, p, i)
      BY <3>1, <3>2 DEF KeepsOf
    <3>4. \A i \in 0..d : i # 0 => i - 1 \in 0..d /\ i - 1 # d /\ g[i - 1] = k[i - 1]
      BY <3>1
    <3>5. \A i \in 0..d : KeptStep(g, list, p, i) = KeptStep(k, list, p, i)
      BY <3>4 DEF KeptStep
    <3>6. \A i \in 0..d : g[i] = KeptStep(g, list, p, i)
      BY <3>3, <3>5
    <3>7. KeepsOf(g, list, p, d)
      <4>1. g = [i \in 0..d |-> g[i]]
        OBVIOUS
      <4> HIDE DEF g
      <4> QED BY <3>6, <4>1 DEF KeepsOf
    <3> QED BY <2>1, <3>7
  <2> QED BY <2>1, <2>2, <2>3
<1> QED BY <1>1

LEMMA WithoutIsKept ==
    ASSUME NEW list, NEW p, Len(list) \in Nat
    PROVE  \E k : KeepsOf(k, list, p, Len(list)) /\ Without(list, p) = k[Len(list)]
<1> DEFINE k == CHOOSE f : KeepsOf(f, list, p, Len(list))
<1>1. KeepsOf(k, list, p, Len(list))
  BY KeptExists
<1>2. Without(list, p) = k[Len(list)]
  BY Zenon DEF Without, KeepsOf, KeptStep
<1> HIDE DEF k
<1> QED BY <1>1, <1>2

\* No entry twice.
Distinct(list) == \A i, j \in 1..Len(list) : list[i] = list[j] => i = j

LEMMA WithoutIs ==
    ASSUME NEW S, NEW list \in Seq(S), NEW p, Distinct(list)
    PROVE  /\ Without(list, p) \in Seq(S) /\ Distinct(Without(list, p))
           /\ \A e : (\E i \in 1..Len(Without(list, p)) : Without(list, p)[i] = e)
                      <=> e[1] # p /\ \E i \in 1..Len(list) : list[i] = e
<1> DEFINE Right(w, n) ==
               /\ w \in Seq(S) /\ Distinct(w)
               /\ \A e : (\E i \in 1..Len(w) : w[i] = e) <=> e[1] # p /\ \E i \in 1..n : list[i] = e
<1>1. PICK k : KeepsOf(k, list, p, Len(list)) /\ Without(list, p) = k[Len(list)]
  BY WithoutIsKept
<1>2. \A n \in 0..Len(list) : k[n] = KeptStep(k, list, p, n)
  BY <1>1 DEF KeepsOf
<1> DEFINE D == {n \in 0..Len(list) : ~Right(k[n], n)}
<1> HIDE DEF Right
<1>3. ASSUME D # {} PROVE FALSE
  <2>1. PICK d \in D : \A n \in D : d <= n
    <3>1. D \subseteq Nat
      OBVIOUS
    <3> HIDE DEF D
    <3> QED BY <1>3, <3>1, NatLeast
  <2>0. d \in 0..Len(list) /\ ~Right(k[d], d) /\ k[d] = KeptStep(k, list, p, d)
    BY <1>2
  <2>2. CASE d = 0
    <3>1. k[d] = <<>>
      BY <2>0, <2>2 DEF KeptStep
    <3>2. Right(<<>>, 0)
      BY DEF Right, Distinct
    <3> QED BY <2>0, <2>2, <3>1, <3>2
  <2>3. CASE d > 0
    <3>1. d - 1 \in 0..Len(list) /\ d - 1 \notin D /\ d \in 1..Len(list) /\ list[d] \in S
      BY <2>1, <2>3
    <3>2. Right(k[d - 1], d - 1)
      BY <3>1
    <3> DEFINE v == k[d - 1]
    <3> HIDE DEF v
    <3>3. v \in Seq(S) /\ Len(v) \in Nat /\ Right(v, d - 1)
      <4>1. v \in Seq(S) /\ Right(v, d - 1)
        BY <3>2 DEF v, Right
      <4> QED BY <4>1, LenProperties
    <3>4. 1..d = 1..(d - 1) \cup {d}
      BY <3>1
    <3>5. CASE list[d][1] = p
      <4>1. k[d] = v
        BY <2>0, <3>1, <3>5, <2>3 DEF KeptStep, block2arena, v
      <4>2. \A e : e[1] # p => ((\E i \in 1..d : list[i] = e) <=> \E i \in 1..(d - 1) : list[i] = e)
        BY <3>4, <3>5
      <4>3. Right(v, d)
        BY <3>3, <4>2, Zenon DEF Right
      <4> QED BY <2>0, <4>1, <4>3
    <3>6. CASE list[d][1] # p
      <4> DEFINE w == Append(v, list[d])
      <4>1. k[d] = w
        BY <2>0, <3>1, <3>6, <2>3 DEF KeptStep, block2arena, v
      <4>2. /\ w \in Seq(S) /\ Len(w) = Len(v) + 1 /\ w[Len(v) + 1] = list[d]
            /\ \A i \in 1..Len(v) : w[i] = v[i]
        BY <3>1, <3>3, AppendProperties
      <4> HIDE DEF w
      <4>3. 1..Len(w) = 1..Len(v) \cup {Len(v) + 1} /\ Len(v) + 1 \notin 1..Len(v)
        BY <3>3, <4>2
      <4>4. \A i \in 1..Len(v) : v[i] # list[d]
        <5>1. \A i \in 1..Len(v) : \E j \in 1..(d - 1) : list[j] = v[i]
          BY <3>3 DEF Right
        <5>2. \A j \in 1..(d - 1) : j \in 1..Len(list) /\ list[j] # list[d]
          BY <3>1 DEF Distinct
        <5> QED BY <5>1, <5>2
      <4>5. \A i, j \in 1..Len(w) : w[i] = w[j] => i = j
        <5> SUFFICES ASSUME NEW i \in 1..Len(w), NEW j \in 1..Len(w), w[i] = w[j]
                     PROVE  i = j
          OBVIOUS
        <5>1. CASE i \in 1..Len(v) /\ j \in 1..Len(v)
          <6>1. v[i] = v[j]
            BY <4>2, <5>1
          <6> QED BY <3>3, <5>1, <6>1, Zenon DEF Right, Distinct
        <5>2. CASE i = Len(v) + 1 /\ j \in 1..Len(v)
          BY <4>2, <4>4, <5>2
        <5>3. CASE i \in 1..Len(v) /\ j = Len(v) + 1
          BY <4>2, <4>4, <5>3
        <5> QED BY <4>3, <5>1, <5>2, <5>3, Zenon
      <4>6. \A e : (\E i \in 1..Len(w) : w[i] = e) <=> e[1] # p /\ \E i \in 1..d : list[i] = e
        <5>1. \A e : (\E i \in 1..Len(w) : w[i] = e) <=> (\E i \in 1..Len(v) : v[i] = e) \/ e = list[d]
          <6>1. \A e : (\E i \in 1..Len(w) : w[i] = e) <=> (\E i \in 1..Len(v) : w[i] = e) \/ w[Len(v) + 1] = e
            BY <4>3, Zenon
          <6>2. \A e : (\E i \in 1..Len(v) : w[i] = e) <=> (\E i \in 1..Len(v) : v[i] = e)
            BY <4>2, Zenon
          <6> QED BY <4>2, <6>1, <6>2, Zenon
        <5>2. \A e : (\E i \in 1..d : list[i] = e) <=> (\E i \in 1..(d - 1) : list[i] = e) \/ e = list[d]
          BY <3>4
        <5>3. \A e : (\E i \in 1..Len(v) : v[i] = e) <=> e[1] # p /\ \E i \in 1..(d - 1) : list[i] = e
          BY <3>3, Zenon DEF Right
        <5> QED BY <3>6, <5>1, <5>2, <5>3, Zenon
      <4>7. Right(w, d)
        BY <4>2, <4>5, <4>6 DEF Right, Distinct
      <4> QED BY <2>0, <4>1, <4>7
    <3> QED BY <3>5, <3>6
  <2> QED BY <2>1, <2>2, <2>3
<1>4. Right(k[Len(list)], Len(list))
  BY <1>3
<1> QED BY <1>1, <1>4 DEF Right
HeapSteps == {"idle", "acquire", "split", "pop", "unlock", "lock", "release", "reread", "fault"}

ArenaType == [p_mem_block : Class \cup {NULL}, cnt : Nat, is_page_cnt : BOOLEAN]
DoingType == [pc : HeapSteps, class : Class \cup {NULL}, block : Block \cup {NoBlock}]
HeapTypes ==
    /\ taken \subseteq HeapPage
    /\ arena \in [HeapPage -> ArenaType]
    /\ \A p \in HeapPage :
          arena[p].cnt <= IF arena[p].p_mem_block = NULL THEN Pages ELSE blocks_per_arena[arena[p].p_mem_block]
    /\ free_list \in [Class -> Seq(Block)]
    /\ owner \in [Class -> Caller \cup {NULL}]
    /\ held \subseteq Block
    /\ doing \in [Caller -> DoingType]
    /\ \A t \in Caller : doing[t] = NoCall \/ (doing[t].pc # "idle" /\ doing[t].class \in Class)

\* A block of an arena of the class.
BlockOf(b, c) ==
    /\ b \in Block /\ b[1] \in taken /\ arena[b[1]].p_mem_block = c /\ ~arena[b[1]].is_page_cnt
    /\ b[2] < blocks_per_arena[c]

\* The pages of a large allocation, whose pointer is held.
RunOf(p) == p..(p + arena[p].cnt - 1)
Large(b) == b \in held /\ arena[b[1]].is_page_cnt
LargeRuns ==
    /\ \A b \in held : Large(b) =>
          /\ b[2] = 0 /\ arena[b[1]].cnt > 0 /\ RunOf(b[1]) \subseteq taken
          /\ \A q \in RunOf(b[1]) : arena[q].p_mem_block = NULL
    /\ \A a, b \in held : Large(a) /\ Large(b) /\ a # b => RunOf(a[1]) \cap RunOf(b[1]) = {}

\* What a call has in its hand.
Carried(t) == doing[t].pc \in {"unlock", "lock", "release"} /\ doing[t].block # NoBlock
FreeLists ==
    \A c \in Class : /\ Distinct(free_list[c])
                     /\ \A i \in 1..Len(free_list[c]) : BlockOf(free_list[c][i], c)
HeldOnce ==
    \A b \in held : /\ ~OnList(b)
                    /\ \A t \in Caller : Carried(t) => doing[t].block # b
                    /\ ~Large(b) => \E c \in Class : BlockOf(b, c)
CarriedOnce ==
    \A t \in Caller : Carried(t) =>
        /\ BlockOf(doing[t].block, doing[t].class)
        /\ ~OnList(doing[t].block)
        /\ \A u \in Caller : Carried(u) /\ doing[u].block = doing[t].block => t = u
CallsBlock ==
    \A t \in Caller : /\ doing[t].pc \in {"lock", "release", "reread"} => doing[t].block \in Block
                      /\ doing[t].pc \in {"acquire", "pop", "fault"} => doing[t].block = NoBlock

\* A page that was taken for an arena, and one that was just made into one: the
\* list of the class is empty, or has the blocks of that arena only.
Splits ==
    /\ \A t \in Caller : doing[t].pc = "split" =>
          LET b == doing[t].block
          IN  /\ b \in Block /\ b[1] \in taken /\ arena[b[1]] = Zeroed
              /\ free_list[doing[t].class] = <<>>
              /\ \A u \in Caller : doing[u].pc = "split" /\ doing[u].block[1] = b[1] => u = t
              /\ \A h \in held : Large(h) => b[1] \notin RunOf(h[1])
    /\ \A t \in Caller : doing[t].pc = "pop" =>
          \E p \in HeapPage : free_list[doing[t].class] = BlocksOf(p, doing[t].class)

Complete ==
    \A p \in HeapPage : IsArena(p) =>
        \A i \in 0..(blocks_per_arena[arena[p].p_mem_block] - 1) :
            <<p, i>> \in held \/ OnList(<<p, i>>) \/ InTransit(<<p, i>>)

HeapInv ==
    /\ HeapTypes /\ LargeRuns /\ FreeLists /\ HeldOnce /\ CarriedOnce /\ CallsBlock /\ Splits
    /\ Complete /\ ArenaCount
-----------------------------------------------------------------------------
LEMMA HeapConstants ==
    /\ Class \subseteq Nat /\ NULL \notin Class /\ Pages \in Nat
    /\ \A c \in Class : blocks_per_arena[c] \in Nat \ {0}
    /\ HeapPage \subseteq Nat
    /\ NoBlock \notin Block
BY HeapAssumption DEF HeapPage, NoBlock, Block

\* What a block that is carried, or a page that is an arena, looks like.
LEMMA DoingIs ==
    ASSUME HeapTypes, NEW t \in Caller
    PROVE  /\ doing[t] \in DoingType
           /\ doing[t].pc \in HeapSteps /\ doing[t].class \in Class \cup {NULL}
           /\ doing[t].block \in Block \cup {NoBlock}
           /\ doing[t].pc # "idle" => doing[t].class \in Class
           /\ doing[t] = NoCall <=> doing[t].pc = "idle"
BY DEF HeapTypes, DoingType, NoCall

LEMMA ArenaTypes ==
    ASSUME HeapTypes, NEW p \in HeapPage
    PROVE  /\ arena[p] \in ArenaType
           /\ arena[p].p_mem_block \in Class \cup {NULL} /\ arena[p].cnt \in Nat
           /\ arena[p].is_page_cnt \in BOOLEAN
           /\ IsArena(p) => p \in taken /\ arena[p].p_mem_block \in Class
BY DEF HeapTypes, ArenaType, IsArena

\* A block that a call carries is in transit.
LEMMA TransitIs ==
    ASSUME NEW b \in Block
    PROVE  InTransit(b) <=> \E t \in Caller : Carried(t) /\ doing[t].block = b
BY HeapConstants DEF InTransit, Carried

\* A call goes on and no page or block changes place.
GoesOnWith(t, d) ==
    /\ doing' = [doing EXCEPT ![t] = d]
    /\ d \in DoingType /\ d.pc \notin {"split", "pop"} /\ doing[t].pc \notin {"split", "pop"}
    /\ d = NoCall \/ (d.pc # "idle" /\ d.class \in Class)
    /\ d.pc \in {"lock", "release", "reread"} => d.block \in Block
    /\ d.pc \in {"acquire", "fault"} => d.block = NoBlock
    /\ (d.pc \in {"unlock", "lock", "release"} /\ d.block # NoBlock) <=> Carried(t)
    /\ Carried(t) => d.block = doing[t].block /\ d.class = doing[t].class
    /\ owner' \in [Class -> Caller \cup {NULL}]
    /\ UNCHANGED <<taken, arena, free_list, held>>

LEMMA GoesOnKeeps ==
    ASSUME HeapInv, NEW t \in Caller, NEW d, GoesOnWith(t, d)
    PROVE  HeapInv'
<1>1. HeapTypes /\ doing \in [Caller -> DoingType]
  BY DEF HeapInv, HeapTypes
<1>2. doing' \in [Caller -> DoingType] /\ doing'[t] = d /\ \A u \in Caller : u # t => doing'[u] = doing[u]
  BY <1>1 DEF GoesOnWith
<1>3. \A u \in Caller : Carried(u)' <=> Carried(u)
  BY <1>2 DEF GoesOnWith, Carried
<1>4. \A u \in Caller : Carried(u) => doing'[u].block = doing[u].block /\ doing'[u].class = doing[u].class
  BY <1>2 DEF GoesOnWith
<1>5. UNCHANGED <<taken, arena, free_list, held>>
  BY DEF GoesOnWith
<1>6. HeapTypes'
  BY <1>1, <1>2, <1>5 DEF HeapTypes, GoesOnWith
<1>7. LargeRuns' /\ FreeLists'
  BY <1>5 DEF HeapInv, LargeRuns, Large, RunOf, FreeLists, BlockOf
<1>8. \A b : OnList(b)' <=> OnList(b)
  BY <1>5 DEF OnList
<1>9. \A b, c : BlockOf(b, c)' <=> BlockOf(b, c)
  BY <1>5 DEF BlockOf
<1>10. \A b : Large(b)' <=> Large(b)
  BY <1>5 DEF Large
<1>11. HeldOnce'
  BY <1>3, <1>4, <1>5, <1>8, <1>9, <1>10 DEF HeapInv, HeldOnce
<1>12. CarriedOnce'
  <2>1. CarriedOnce
    BY DEF HeapInv
  <2> QED BY <2>1, <1>3, <1>4, <1>8, <1>9 DEF CarriedOnce
<1>13. CallsBlock'
  BY <1>2 DEF HeapInv, CallsBlock, GoesOnWith
<1>14. Splits'
  <2>1. \A u \in Caller : doing'[u].pc \in {"split", "pop"} => u # t /\ doing'[u] = doing[u]
    BY <1>2 DEF GoesOnWith
  <2>2. Splits
    BY DEF HeapInv
  <2> QED BY <2>1, <2>2, <1>5, <1>10 DEF Splits, RunOf
<1>15. \A b \in Block : InTransit(b)' <=> InTransit(b)
  <2>1. \A b \in Block : InTransit(b)' <=> \E u \in Caller : Carried(u)' /\ doing'[u].block = b
    BY HeapConstants DEF InTransit, Carried
  <2> QED BY <2>1, <1>3, <1>4, TransitIs
<1>16. Complete'
  <2>1. Complete
    BY DEF HeapInv
  <2>2. \A p \in HeapPage : \A i \in 0..(blocks_per_arena[arena[p].p_mem_block] - 1) : <<p, i>> \in Block
    BY DEF Block
  <2> QED BY <2>1, <2>2, <1>5, <1>8, <1>15 DEF Complete, IsArena
<1>17. ArenaCount'
  <2>1. ArenaCount
    BY DEF HeapInv
  <2>2. \A u \in Caller : doing[u].pc = "pop" => doing'[u] = doing[u]
    BY <1>2 DEF GoesOnWith
  <2>3. \A c : (\E u \in Caller : doing[u].pc = "pop" /\ doing[u].class = c)
               => \E u \in Caller : doing'[u].pc = "pop" /\ doing'[u].class = c
    BY <2>2
  <2> QED BY <2>1, <2>3, <1>5 DEF ArenaCount, IsArena
<1> QED BY <1>6, <1>7, <1>11, <1>12, <1>13, <1>14, <1>16, <1>17 DEF HeapInv

LEMMA GoingOn ==
    ASSUME HeapInv, NEW t \in Caller,
           \/ \E c \in Class : MallocLock(t, c)
           \/ doing[t].pc = "acquire" /\ RefillFails(t)
           \/ doing[t].pc = "lock" /\ FreeLock(t)
           \/ FreeUnlock(t) \/ FreeFault(t)
    PROVE  HeapInv'
<1>1. HeapTypes /\ CallsBlock /\ owner \in [Class -> Caller \cup {NULL}]
  BY DEF HeapInv, HeapTypes
<1>2. /\ doing[t].class \in Class \cup {NULL} /\ doing[t].block \in Block \cup {NoBlock}
      /\ doing[t].pc # "idle" => doing[t].class \in Class
  BY <1>1, DoingIs
<1>3. /\ doing[t].pc \in {"lock", "release", "reread"} => doing[t].block \in Block
      /\ doing[t].pc \in {"acquire", "pop", "fault"} => doing[t].block = NoBlock
  BY <1>1 DEF CallsBlock
<1>4. CASE \E c \in Class : MallocLock(t, c)
  <2>1. PICK c \in Class : MallocLock(t, c)
    BY <1>4
  <2>2. GoesOnWith(t, Call("acquire", c, NoBlock))
    BY <2>1, <1>1 DEF MallocLock, GoesOnWith, Call, DoingType, HeapSteps, NoCall, Carried
  <2> QED BY <2>2, GoesOnKeeps
<1>5. CASE doing[t].pc = "acquire" /\ RefillFails(t)
  <2>1. GoesOnWith(t, Call("unlock", doing[t].class, NoBlock))
    BY <1>5, <1>1, <1>2, <1>3 DEF RefillFails, Goto, GoesOnWith, Call, DoingType, HeapSteps, NoCall, Carried
  <2> QED BY <2>1, GoesOnKeeps
<1>6. CASE doing[t].pc = "lock" /\ FreeLock(t)
  <2>1. GoesOnWith(t, Call("release", doing[t].class, doing[t].block))
    BY <1>6, <1>1, <1>2, <1>3, HeapConstants DEF FreeLock, Goto, GoesOnWith, Call, DoingType, HeapSteps, NoCall, Carried
  <2> QED BY <2>1, GoesOnKeeps
<1>7. CASE FreeUnlock(t)
  <2>1. owner' \in [Class -> Caller \cup {NULL}]
    BY <1>1, <1>7 DEF FreeUnlock
  <2>2. GoesOnWith(t, NoCall)
    BY <1>7, <1>1, <2>1 DEF FreeUnlock, Goto, GoesOnWith, DoingType, HeapSteps, NoCall, Carried
  <2> QED BY <2>2, GoesOnKeeps
<1>8. CASE FreeFault(t)
  <2>1. GoesOnWith(t, Call("fault", doing[t].class, NoBlock))
    BY <1>8, <1>1, <1>2 DEF FreeFault, Goto, GoesOnWith, Call, DoingType, HeapSteps, NoCall, Carried
  <2> QED BY <2>1, GoesOnKeeps
<1> QED BY <1>4, <1>5, <1>6, <1>7, <1>8
LEMMA BlockIs ==
    ASSUME NEW b \in Block
    PROVE  b = <<b[1], b[2]>> /\ b[1] \in HeapPage /\ b[1] \in Nat /\ b[2] \in Nat /\ b # NoBlock
BY DEF Block, HeapPage, NoBlock

LEMMA ListsAre ==
    ASSUME HeapTypes, NEW c \in Class
    PROVE  /\ free_list[c] \in Seq(Block) /\ Len(free_list[c]) \in Nat
           /\ DOMAIN free_list[c] = 1..Len(free_list[c])
           /\ \A i \in 1..Len(free_list[c]) : free_list[c][i] \in Block
BY DEF HeapTypes

\* The block of a call, and one that is held, are of pages that are taken.
LEMMA CarriedIs ==
    ASSUME HeapInv, NEW t \in Caller, Carried(t)
    PROVE  /\ doing[t].class \in Class /\ BlockOf(doing[t].block, doing[t].class)
           /\ doing[t].block \in Block /\ doing[t].block[1] \in taken
           /\ ~OnList(doing[t].block)
           /\ \A u \in Caller : Carried(u) /\ doing[u].block = doing[t].block => t = u
BY DoingIs DEF HeapInv, CarriedOnce, Carried, BlockOf

LEMMA HeldIs ==
    ASSUME HeapInv, NEW b \in held
    PROVE  /\ b \in Block /\ b[1] \in taken /\ ~OnList(b)
           /\ \A t \in Caller : Carried(t) => doing[t].block # b
           /\ ~Large(b) => \E c \in Class : BlockOf(b, c)
           /\ Large(b) => /\ b[2] = 0 /\ arena[b[1]].cnt > 0 /\ b[1] \in RunOf(b[1])
                          /\ RunOf(b[1]) \subseteq taken
                          /\ \A q \in RunOf(b[1]) : arena[q].p_mem_block = NULL
<1>1. HeapTypes /\ LargeRuns /\ HeldOnce /\ b \in Block
  BY DEF HeapInv, HeapTypes
<1>2. b[1] \in HeapPage /\ b[1] \in Nat /\ arena[b[1]].cnt \in Nat
  BY <1>1, BlockIs, ArenaTypes
<1>3. Large(b) => /\ b[2] = 0 /\ arena[b[1]].cnt > 0 /\ RunOf(b[1]) \subseteq taken
                  /\ \A q \in RunOf(b[1]) : arena[q].p_mem_block = NULL
  BY <1>1 DEF LargeRuns
<1>4. Large(b) => b[1] \in RunOf(b[1])
  BY <1>2, <1>3 DEF RunOf
<1>5. /\ ~OnList(b) /\ \A t \in Caller : Carried(t) => doing[t].block # b
      /\ ~Large(b) => \E c \in Class : BlockOf(b, c)
  BY <1>1 DEF HeldOnce
<1>6. b[1] \in taken
  BY <1>3, <1>4, <1>5 DEF BlockOf
<1> QED BY <1>1, <1>3, <1>4, <1>5, <1>6

-----------------------------------------------------------------------------
\* Pages are taken and cleared; what was there stays.
Grows ==
    /\ taken \subseteq taken' /\ taken' \subseteq HeapPage
    /\ arena' \in [HeapPage -> ArenaType]
    /\ \A p \in HeapPage : p \notin taken => arena'[p] = arena[p] \/ arena'[p].p_mem_block = NULL
    /\ \A p \in HeapPage : arena'[p] # arena[p] => arena'[p].cnt <= Pages
    /\ \A p \in taken' \ taken : arena'[p].p_mem_block = NULL
    /\ \A p \in taken : arena'[p] = arena[p]
    /\ UNCHANGED <<free_list, owner>>
    /\ doing' \in [Caller -> DoingType]
    /\ \A u \in Caller : doing'[u] = doing[u] \/ (doing[u].pc = "acquire" /\ doing'[u].pc = "split"
                                                  /\ doing'[u].class = doing[u].class)

LEMMA GrowsKeeps ==
    ASSUME HeapInv, Grows, held \subseteq held', held' \subseteq Block,
           LargeRuns', Splits',
           \A b \in held' \ held : Large(b)' /\ b[1] \notin taken
    PROVE  HeapInv'
<1> USE DEF Grows
<1>1. HeapTypes
  BY DEF HeapInv
<1>2. \A u \in Caller : /\ Carried(u)' <=> Carried(u)
                        /\ Carried(u) => doing'[u] = doing[u]
                        /\ doing'[u].pc = "pop" <=> doing[u].pc = "pop"
                        /\ doing[u].pc = "pop" => doing'[u] = doing[u]
                        /\ doing'[u].pc \in {"lock", "release", "reread", "acquire", "fault"} => doing'[u] = doing[u]
  BY DEF Carried
<1>3. \A b, c : BlockOf(b, c) => BlockOf(b, c)'
  BY DEF BlockOf
<1>4. \A b : OnList(b)' <=> OnList(b)
  BY DEF OnList
<1>5. HeapTypes'
  <2>1. \A p \in HeapPage : arena'[p].cnt <=
            IF arena'[p].p_mem_block = NULL THEN Pages ELSE blocks_per_arena[arena'[p].p_mem_block]
    BY <1>1 DEF HeapTypes
  <2>2. \A u \in Caller : doing'[u] = NoCall \/ (doing'[u].pc # "idle" /\ doing'[u].class \in Class)
    <3> SUFFICES ASSUME NEW u \in Caller, doing'[u] # doing[u]
                 PROVE  doing'[u].pc # "idle" /\ doing'[u].class \in Class
      BY <1>1 DEF HeapTypes
    <3> QED BY <1>1, DoingIs
  <2>3. free_list' \in [Class -> Seq(Block)] /\ owner' \in [Class -> Caller \cup {NULL}]
    BY <1>1 DEF HeapTypes
  <2> QED BY <2>1, <2>2, <2>3 DEF HeapTypes
<1>6. FreeLists'
  <2>1. FreeLists
    BY DEF HeapInv
  <2> QED BY <2>1, <1>3 DEF FreeLists
<1>7. HeldOnce'
  <2> SUFFICES ASSUME NEW b \in held'
               PROVE  /\ ~OnList(b)' /\ \A t \in Caller : Carried(t)' => doing'[t].block # b
                      /\ ~Large(b)' => \E c \in Class : BlockOf(b, c)'
    BY DEF HeldOnce
  <2>1. CASE b \in held
    <3>1. b[1] \in taken /\ (Large(b)' <=> Large(b))
      BY <2>1, HeldIs DEF Large
    <3>2. /\ ~OnList(b) /\ (\A t \in Caller : Carried(t) => doing[t].block # b)
          /\ ~Large(b) => \E c \in Class : BlockOf(b, c)
      BY <2>1, HeldIs
    <3> QED BY <3>1, <3>2, <1>2, <1>3, <1>4
  <2>2. CASE b \notin held
    <3>1. Large(b)' /\ b[1] \notin taken
      BY <2>2
    <3>2. ~OnList(b)
      <4>1. FreeLists
        BY DEF HeapInv
      <4>2. ASSUME OnList(b) PROVE b[1] \in taken
        BY <4>1, <4>2, <1>1, ListsAre DEF FreeLists, OnList, BlockOf
      <4> QED BY <3>1, <4>2
    <3>3. \A t \in Caller : Carried(t) => doing[t].block # b
      BY <3>1, CarriedIs
    <3> QED BY <3>1, <3>2, <3>3, <1>2, <1>4
  <2> QED BY <2>1, <2>2
<1>8. CarriedOnce'
  <2> SUFFICES ASSUME NEW t \in Caller, Carried(t)'
               PROVE  /\ BlockOf(doing[t].block, doing[t].class)' /\ ~OnList(doing[t].block)'
                      /\ \A u \in Caller : Carried(u)' /\ doing'[u].block = doing'[t].block => t = u
    BY DEF CarriedOnce
  <2>1. Carried(t) /\ doing'[t] = doing[t]
    BY <1>2
  <2>2. /\ BlockOf(doing[t].block, doing[t].class) /\ ~OnList(doing[t].block)
        /\ \A u \in Caller : Carried(u) /\ doing[u].block = doing[t].block => t = u
    BY <2>1, CarriedIs
  <2>3. \A u \in Caller : Carried(u)' => Carried(u) /\ doing'[u] = doing[u]
    BY <1>2
  <2> QED BY <2>1, <2>2, <2>3, <1>3, <1>4
<1>9. CallsBlock'
  <2> SUFFICES ASSUME NEW u \in Caller
               PROVE  /\ doing'[u].pc \in {"lock", "release", "reread"} => doing'[u].block \in Block
                      /\ doing'[u].pc \in {"acquire", "pop", "fault"} => doing'[u].block = NoBlock
    BY DEF CallsBlock
  <2>1. doing[u].pc \in {"lock", "release", "reread"} => doing[u].block \in Block
    BY DEF HeapInv, CallsBlock
  <2>2. doing[u].pc \in {"acquire", "pop", "fault"} => doing[u].block = NoBlock
    BY DEF HeapInv, CallsBlock
  <2> QED BY <1>2, <2>1, <2>2
<1>10. \A p \in HeapPage : IsArena(p)' => IsArena(p) /\ arena'[p] = arena[p]
  BY DEF IsArena
<1>11. Complete'
  <2> SUFFICES ASSUME NEW p \in HeapPage, IsArena(p)',
                      NEW i \in 0..(blocks_per_arena[arena'[p].p_mem_block] - 1)
               PROVE  <<p, i>> \in held' \/ OnList(<<p, i>>)' \/ InTransit(<<p, i>>)'
    BY DEF Complete
  <2>1. IsArena(p) /\ arena'[p] = arena[p] /\ <<p, i>> \in Block
    BY <1>10 DEF Block
  <2>2. <<p, i>> \in held \/ OnList(<<p, i>>) \/ InTransit(<<p, i>>)
    BY <2>1 DEF HeapInv, Complete
  <2>3. InTransit(<<p, i>>) => InTransit(<<p, i>>)'
    <3>1. InTransit(<<p, i>>) => \E u \in Caller : Carried(u) /\ doing[u].block = <<p, i>>
      BY <2>1, TransitIs
    <3> QED BY <3>1, <1>2 DEF InTransit, Carried
  <2> QED BY <2>2, <2>3, <1>4
<1>12. ArenaCount'
  <2> SUFFICES ASSUME NEW p \in HeapPage, IsArena(p)'
               PROVE  LET c == arena'[p].p_mem_block
                      IN  /\ arena'[p].cnt = Cardinality({b \in Range(free_list'[c]) : b[1] = p})
                          /\ arena'[p].cnt = blocks_per_arena[c] =>
                                \E t \in Caller : doing'[t].pc = "pop" /\ doing'[t].class = c
    BY DEF ArenaCount
  <2>1. IsArena(p) /\ arena'[p] = arena[p]
    BY <1>10
  <2>2. LET c == arena[p].p_mem_block
        IN  /\ arena[p].cnt = Cardinality({b \in Range(free_list[c]) : b[1] = p})
            /\ arena[p].cnt = blocks_per_arena[c] =>
                  \E t \in Caller : doing[t].pc = "pop" /\ doing[t].class = c
    BY <2>1 DEF HeapInv, ArenaCount
  <2> QED BY <2>1, <2>2, <1>2
<1> QED BY <1>5, <1>6, <1>7, <1>8, <1>9, <1>11, <1>12 DEF HeapInv

LEMMA MallocPagesKeeps ==
    ASSUME HeapInv, NEW t \in Caller, NEW p \in HeapPage, NEW cnt \in 1..MaxPages, MallocPages(t, p, cnt)
    PROVE  HeapInv'
<1> DEFINE R == p..(p + cnt - 1)
           b0 == <<p, 0>>
<1>1. HeapTypes /\ Pages \in Nat /\ p \in Nat /\ cnt \in Nat \ {0} /\ p \in R
  BY HeapAssumption DEF HeapInv, HeapPage
<1>2. /\ R \subseteq HeapPage \ taken /\ taken' = taken \cup R /\ held' = held \cup {b0}
      /\ arena' = [q \in HeapPage |->
                      IF q = p THEN [p_mem_block |-> NULL, cnt |-> cnt, is_page_cnt |-> TRUE]
                      ELSE IF q \in R THEN Zeroed ELSE arena[q]]
      /\ UNCHANGED <<free_list, owner, doing>>
  BY DEF MallocPages
<1>3. p + cnt - 1 \in R /\ cnt <= Pages
  BY <1>1, <1>2 DEF HeapPage
<1> HIDE DEF R
<1>4. /\ arena'[p] = [p_mem_block |-> NULL, cnt |-> cnt, is_page_cnt |-> TRUE]
      /\ \A q \in R : q # p => arena'[q] = Zeroed
      /\ \A q \in HeapPage : q \notin R => arena'[q] = arena[q]
  BY <1>1, <1>2
<1>5. \A q \in R : arena'[q].p_mem_block = NULL /\ arena'[q].cnt <= Pages /\ arena'[q] \in ArenaType
  <2>1. Zeroed.p_mem_block = NULL /\ Zeroed.cnt <= Pages /\ Zeroed \in ArenaType
    BY <1>1 DEF Zeroed, ArenaType
  <2>2. arena'[p].p_mem_block = NULL /\ arena'[p].cnt <= Pages /\ arena'[p] \in ArenaType
    BY <1>1, <1>3, <1>4 DEF ArenaType
  <2> QED BY <1>4, <2>1, <2>2
<1>6. Grows
  <2>1. arena' \in [HeapPage -> ArenaType]
    <3>1. \A q \in HeapPage : arena'[q] \in ArenaType
      BY <1>1, <1>4, <1>5, ArenaTypes
    <3>2. arena' = [q \in HeapPage |-> arena'[q]]
      BY <1>2
    <3> QED BY <3>1, <3>2
  <2>2. taken' \subseteq HeapPage
    BY <1>1, <1>2 DEF HeapTypes
  <2> QED BY <1>1, <1>2, <1>4, <1>5, <2>1, <2>2 DEF Grows, HeapTypes
<1>7. b0 \in Block /\ b0 \notin held /\ RunOf(p)' = R /\ Large(b0)'
  <2>1. b0 \in Block
    BY <1>1 DEF Block
  <2>2. b0 \notin held
    BY <1>1, <1>2, HeldIs
  <2>3. RunOf(p)' = R
    BY <1>4 DEF RunOf, R
  <2> QED BY <1>2, <1>4, <2>1, <2>2, <2>3 DEF Large
<1>8. \A b \in held : /\ b[1] \in taken /\ b[1] \notin R /\ (Large(b)' <=> Large(b))
                      /\ Large(b) => RunOf(b[1])' = RunOf(b[1]) /\ RunOf(b[1]) \subseteq taken
                                     /\ RunOf(b[1]) \cap R = {}
                                     /\ arena'[b[1]].cnt > 0 /\ b[2] = 0
                                     /\ \A q \in RunOf(b[1]) : arena'[q].p_mem_block = NULL
  <2> SUFFICES ASSUME NEW b \in held
               PROVE  /\ b[1] \in taken /\ b[1] \notin R /\ (Large(b)' <=> Large(b))
                      /\ Large(b) => RunOf(b[1])' = RunOf(b[1]) /\ RunOf(b[1]) \subseteq taken
                                     /\ RunOf(b[1]) \cap R = {}
                                     /\ arena'[b[1]].cnt > 0 /\ b[2] = 0
                                     /\ \A q \in RunOf(b[1]) : arena'[q].p_mem_block = NULL
    OBVIOUS
  <2>1. b[1] \in taken /\ b[1] \in HeapPage /\ b[1] \notin R /\ arena'[b[1]] = arena[b[1]]
    BY <1>1, <1>2, <1>4, HeldIs DEF HeapTypes
  <2>2. Large(b)' <=> Large(b)
    BY <1>2, <2>1 DEF Large
  <2>3. RunOf(b[1])' = RunOf(b[1])
    BY <2>1 DEF RunOf
  <2>4. ASSUME Large(b)
        PROVE  /\ RunOf(b[1]) \subseteq taken /\ RunOf(b[1]) \cap R = {} /\ arena'[b[1]].cnt > 0 /\ b[2] = 0
               /\ \A q \in RunOf(b[1]) : arena'[q].p_mem_block = NULL
    <3>1. /\ RunOf(b[1]) \subseteq taken /\ arena[b[1]].cnt > 0 /\ b[2] = 0
          /\ \A q \in RunOf(b[1]) : arena[q].p_mem_block = NULL
      BY <2>4, HeldIs
    <3>2. \A q \in RunOf(b[1]) : q \in HeapPage /\ q \notin R /\ arena'[q] = arena[q]
      BY <3>1, <1>1, <1>2, <1>4 DEF HeapTypes
    <3> QED BY <2>1, <3>1, <3>2
  <2> QED BY <2>1, <2>2, <2>3, <2>4
<1>9. LargeRuns'
  <2>1. ASSUME NEW b \in held', Large(b)'
        PROVE  /\ b[2] = 0 /\ arena'[b[1]].cnt > 0 /\ RunOf(b[1])' \subseteq taken'
               /\ \A q \in RunOf(b[1])' : arena'[q].p_mem_block = NULL
    <3>1. CASE b \in held
      BY <1>2, <1>8, <2>1, <3>1
    <3>2. CASE b = b0
      <4>1. b[1] = p /\ b[2] = 0 /\ RunOf(b[1])' = R
        BY <3>2, <1>7
      <4>2. arena'[p].cnt > 0 /\ R \subseteq taken'
        BY <1>1, <1>2, <1>4
      <4> QED BY <4>1, <4>2, <1>5
    <3> QED BY <1>2, <3>1, <3>2
  <2>2. ASSUME NEW a \in held', NEW b \in held', Large(a)', Large(b)', a # b
        PROVE  RunOf(a[1])' \cap RunOf(b[1])' = {}
    <3>1. CASE a \in held /\ b \in held
      <4>1. RunOf(a[1]) \cap RunOf(b[1]) = {}
        BY <1>8, <2>2, <3>1 DEF HeapInv, LargeRuns
      <4> QED BY <4>1, <1>8, <2>2, <3>1
    <3>2. CASE a = b0 /\ b \in held
      BY <1>7, <1>8, <2>2, <3>2
    <3>3. CASE a \in held /\ b = b0
      BY <1>7, <1>8, <2>2, <3>3
    <3> QED BY <1>2, <2>2, <3>1, <3>2, <3>3
  <2> QED BY <2>1, <2>2 DEF LargeRuns
<1>10. Splits'
  <2>1. Splits
    BY DEF HeapInv
  <2>2. ASSUME NEW u \in Caller, doing[u].pc = "split"
        PROVE  LET b == doing[u].block
               IN  /\ b \in Block /\ b[1] \in taken' /\ arena'[b[1]] = Zeroed
                   /\ free_list[doing[u].class] = <<>>
                   /\ \A v \in Caller : doing[v].pc = "split" /\ doing[v].block[1] = b[1] => v = u
                   /\ \A h \in held' : Large(h)' => b[1] \notin RunOf(h[1])'
    <3> DEFINE b == doing[u].block
    <3>1. /\ b \in Block /\ b[1] \in taken /\ arena[b[1]] = Zeroed
          /\ free_list[doing[u].class] = <<>>
          /\ \A v \in Caller : doing[v].pc = "split" /\ doing[v].block[1] = b[1] => v = u
          /\ \A h \in held : Large(h) => b[1] \notin RunOf(h[1])
      BY <2>1, <2>2 DEF Splits
    <3> HIDE DEF b
    <3>2. b[1] \in HeapPage /\ b[1] \notin R /\ arena'[b[1]] = Zeroed
      BY <3>1, <1>1, <1>2, <1>4 DEF HeapTypes
    <3>3. \A h \in held' : Large(h)' => b[1] \notin RunOf(h[1])'
      <4> SUFFICES ASSUME NEW h \in held', Large(h)' PROVE b[1] \notin RunOf(h[1])'
        OBVIOUS
      <4>1. CASE h \in held
        BY <4>1, <3>1, <1>8
      <4>2. CASE h = b0
        BY <4>2, <3>2, <1>7
      <4> QED BY <1>2, <4>1, <4>2
    <3> QED BY <1>2, <3>1, <3>2, <3>3 DEF b
  <2>3. \A u \in Caller : doing[u].pc = "pop" =>
            \E q \in HeapPage : free_list[doing[u].class] = BlocksOf(q, doing[u].class)
    BY <2>1 DEF Splits
  <2> QED BY <1>2, <2>2, <2>3 DEF Splits
<1>11. held' \subseteq Block /\ \A b \in held' \ held : Large(b)' /\ b[1] \notin taken
  <2>1. b0[1] = p /\ p \notin taken /\ held \subseteq Block
    BY <1>1, <1>2 DEF HeapTypes
  <2> HIDE DEF b0
  <2> QED BY <1>2, <1>7, <2>1
<1> QED BY <1>2, <1>6, <1>9, <1>10, <1>11, GrowsKeeps

LEMMA RefillKeeps ==
    ASSUME HeapInv, NEW t \in Caller, NEW p \in HeapPage, doing[t].pc = "acquire", Refill(t, p)
    PROVE  HeapInv'
<1> DEFINE c == doing[t].class
           d == Call("split", c, <<p, 0>>)
<1>1. HeapTypes /\ Splits /\ Pages \in Nat /\ c \in Class
  BY DoingIs, HeapConstants DEF HeapInv
<1>2. /\ free_list[c] = <<>> /\ p \notin taken
      /\ doing' = [doing EXCEPT ![t] = d]
      /\ taken' = taken \cup {p} /\ arena' = [arena EXCEPT ![p] = Zeroed]
      /\ UNCHANGED <<free_list, owner, held>>
  BY DEF Refill, Goto
<1>3. /\ Zeroed.p_mem_block = NULL /\ Zeroed.cnt <= Pages /\ Zeroed \in ArenaType
      /\ d \in DoingType /\ d.pc = "split" /\ d.class = c /\ d.block = <<p, 0>>
      /\ d.block \in Block /\ d.block[1] = p
  BY <1>1 DEF Zeroed, ArenaType, Call, DoingType, HeapSteps, Block
<1> HIDE DEF c, d
<1>4. /\ arena' \in [HeapPage -> ArenaType] /\ arena'[p] = Zeroed
      /\ \A q \in HeapPage : q # p => arena'[q] = arena[q]
      /\ \A q \in taken : q \in HeapPage /\ q # p /\ arena'[q] = arena[q]
  BY <1>1, <1>2, <1>3 DEF HeapTypes
<1>5. /\ doing' \in [Caller -> DoingType] /\ doing'[t] = d
      /\ \A u \in Caller : u # t => doing'[u] = doing[u]
  BY <1>1, <1>2, <1>3 DEF HeapTypes
<1>6. Grows
  <2>1. taken' \subseteq HeapPage /\ taken \subseteq taken'
    BY <1>1, <1>2 DEF HeapTypes
  <2>2. \A q \in taken' \ taken : q = p
    BY <1>2
  <2> QED BY <1>2, <1>3, <1>4, <1>5, <2>1, <2>2 DEF Grows, c
<1>7. \A b \in held : /\ Large(b)' <=> Large(b)
                      /\ Large(b) => RunOf(b[1])' = RunOf(b[1]) /\ RunOf(b[1]) \subseteq taken
                                     /\ arena'[b[1]].cnt > 0 /\ b[2] = 0
                                     /\ \A q \in RunOf(b[1]) : arena'[q].p_mem_block = NULL
  <2> SUFFICES ASSUME NEW b \in held
               PROVE  /\ Large(b)' <=> Large(b)
                      /\ Large(b) => RunOf(b[1])' = RunOf(b[1]) /\ RunOf(b[1]) \subseteq taken
                                     /\ arena'[b[1]].cnt > 0 /\ b[2] = 0
                                     /\ \A q \in RunOf(b[1]) : arena'[q].p_mem_block = NULL
    OBVIOUS
  <2>1. arena'[b[1]] = arena[b[1]]
    BY <1>4, HeldIs
  <2>2. RunOf(b[1])' = RunOf(b[1]) /\ (Large(b)' <=> Large(b))
    BY <1>2, <2>1 DEF RunOf, Large
  <2>3. Large(b) => /\ b[2] = 0 /\ arena[b[1]].cnt > 0 /\ RunOf(b[1]) \subseteq taken
                    /\ \A q \in RunOf(b[1]) : arena[q].p_mem_block = NULL
    BY HeldIs
  <2>4. Large(b) => \A q \in RunOf(b[1]) : arena'[q] = arena[q]
    BY <2>3, <1>4
  <2> QED BY <2>1, <2>2, <2>3, <2>4
<1>8. LargeRuns'
  <2>1. ASSUME NEW b \in held', Large(b)'
        PROVE  /\ b[2] = 0 /\ arena'[b[1]].cnt > 0 /\ RunOf(b[1])' \subseteq taken'
               /\ \A q \in RunOf(b[1])' : arena'[q].p_mem_block = NULL
    BY <1>2, <1>7, <2>1
  <2>2. ASSUME NEW a \in held', NEW b \in held', Large(a)', Large(b)', a # b
        PROVE  RunOf(a[1])' \cap RunOf(b[1])' = {}
    <3>1. a \in held /\ b \in held /\ Large(a) /\ Large(b)
      BY <1>2, <1>7, <2>2
    <3>2. RunOf(a[1]) \cap RunOf(b[1]) = {}
      BY <2>2, <3>1 DEF HeapInv, LargeRuns
    <3> QED BY <3>1, <3>2, <1>7
  <2> QED BY <2>1, <2>2 DEF LargeRuns
<1>9. Splits'
  <2>1. ASSUME NEW u \in Caller, doing'[u].pc = "split"
        PROVE  LET b == doing'[u].block
               IN  /\ b \in Block /\ b[1] \in taken' /\ arena'[b[1]] = Zeroed
                   /\ free_list'[doing'[u].class] = <<>>
                   /\ \A v \in Caller : doing'[v].pc = "split" /\ doing'[v].block[1] = b[1] => v = u
                   /\ \A h \in held' : Large(h)' => b[1] \notin RunOf(h[1])'
    <3>1. \A v \in Caller : v # t /\ doing'[v].pc = "split" =>
              LET b == doing[v].block
              IN  /\ b \in Block /\ b[1] \in taken /\ arena[b[1]] = Zeroed
                  /\ free_list[doing[v].class] = <<>>
                  /\ \A w \in Caller : doing[w].pc = "split" /\ doing[w].block[1] = b[1] => w = v
                  /\ \A h \in held : Large(h) => b[1] \notin RunOf(h[1])
      BY <1>1, <1>5 DEF Splits
    <3>2. CASE u = t
      <4>1. \A v \in Caller : doing'[v].pc = "split" /\ doing'[v].block[1] = p => v = u
        BY <1>2, <1>5, <3>1, <3>2
      <4>2. \A h \in held' : Large(h)' => p \notin RunOf(h[1])'
        BY <1>2, <1>7
      <4> QED BY <1>2, <1>3, <1>4, <1>5, <3>2, <4>1, <4>2
    <3>3. CASE u # t
      <4>1. doing'[u] = doing[u]
        BY <1>5, <3>3
      <4> DEFINE b == doing[u].block
      <4>2. /\ b \in Block /\ b[1] \in taken /\ arena[b[1]] = Zeroed
            /\ free_list[doing[u].class] = <<>>
            /\ \A w \in Caller : doing[w].pc = "split" /\ doing[w].block[1] = b[1] => w = u
            /\ \A h \in held : Large(h) => b[1] \notin RunOf(h[1])
        BY <2>1, <3>1, <3>3
      <4> HIDE DEF b
      <4>3. b[1] # p
        BY <1>2, <4>2
      <4>4. \A v \in Caller : doing'[v].pc = "split" /\ doing'[v].block[1] = b[1] => v = u
        BY <1>3, <1>5, <4>2, <4>3
      <4>5. \A h \in held' : Large(h)' => b[1] \notin RunOf(h[1])'
        BY <1>2, <1>7, <4>2
      <4> QED BY <1>2, <1>4, <4>1, <4>2, <4>4, <4>5 DEF b
    <3> QED BY <3>2, <3>3
  <2>2. \A u \in Caller : doing'[u].pc = "pop" =>
            \E q \in HeapPage : free_list'[doing'[u].class] = BlocksOf(q, doing'[u].class)
    BY <1>1, <1>2, <1>3, <1>5 DEF Splits
  <2> QED BY <2>1, <2>2 DEF Splits
<1>10. held' \subseteq Block /\ held \subseteq held' /\ held' \ held = {}
  BY <1>1, <1>2 DEF HeapTypes
<1> QED BY <1>6, <1>8, <1>9, <1>10, GrowsKeeps
-----------------------------------------------------------------------------
\* Blocks go from a call to its caller or back, or pages that are no arena's
\* go back; the free lists and the arenas stay as they are.
Moves ==
    /\ UNCHANGED <<arena, free_list>>
    /\ owner' \in [Class -> Caller \cup {NULL}]
    /\ taken' \subseteq taken
    /\ \A b \in Block, c \in Class : BlockOf(b, c) => b[1] \in taken'
    /\ held' \subseteq Block
    /\ doing' \in [Caller -> DoingType]
    /\ \A u \in Caller : doing'[u] = NoCall \/ (doing'[u].pc # "idle" /\ doing'[u].class \in Class)
    /\ \A u \in Caller : doing'[u].pc \in {"split", "pop"} \/ doing[u].pc \in {"split", "pop"}
                            => doing'[u] = doing[u]
    /\ \A u \in Caller : doing[u].pc = "split" => doing[u].block[1] \in taken'
    /\ \A h \in held' : arena[h[1]].is_page_cnt => h \in held /\ RunOf(h[1]) \subseteq taken'
    /\ \A b \in held' : /\ ~OnList(b) /\ \A u \in Caller : Carried(u)' => doing'[u].block # b
                        /\ arena[b[1]].is_page_cnt \/ \E c \in Class : BlockOf(b, c)
    /\ \A u \in Caller : Carried(u)' =>
          /\ BlockOf(doing'[u].block, doing'[u].class)
          /\ ~OnList(doing'[u].block)
          /\ \A v \in Caller : Carried(v)' /\ doing'[v].block = doing'[u].block => u = v
    /\ \A b \in Block : (b \in held /\ IsArena(b[1])) \/ InTransit(b) => b \in held' \/ InTransit(b)'

LEMMA MovesKeeps ==
    ASSUME HeapInv, Moves, CallsBlock'
    PROVE  HeapInv'
<1> USE DEF Moves
<1>1. HeapTypes
  BY DEF HeapInv
<1>2. HeapTypes'
  BY <1>1 DEF HeapTypes
<1>3. \A b \in Block, c \in Class : BlockOf(b, c)' <=> BlockOf(b, c)
  BY DEF BlockOf
<1>4. \A b : OnList(b)' <=> OnList(b)
  BY DEF OnList
<1>5. \A b \in held' : Large(b)' <=> arena[b[1]].is_page_cnt
  BY DEF Large
<1>6. \A p : RunOf(p)' = RunOf(p)
  BY DEF RunOf
<1>7. \A b \in held' : Large(b)' => Large(b) /\ b \in held
  BY <1>5 DEF Large
<1>8. LargeRuns'
  <2>1. ASSUME NEW b \in held', Large(b)'
        PROVE  /\ b[2] = 0 /\ arena'[b[1]].cnt > 0 /\ RunOf(b[1])' \subseteq taken'
               /\ \A q \in RunOf(b[1])' : arena'[q].p_mem_block = NULL
    <3>1. b \in held /\ Large(b) /\ RunOf(b[1]) \subseteq taken'
      BY <1>5, <1>7, <2>1
    <3>2. /\ b[2] = 0 /\ arena[b[1]].cnt > 0
          /\ \A q \in RunOf(b[1]) : arena[q].p_mem_block = NULL
      BY <3>1, HeldIs
    <3> QED BY <1>6, <3>1, <3>2
  <2>2. ASSUME NEW a \in held', NEW b \in held', Large(a)', Large(b)', a # b
        PROVE  RunOf(a[1])' \cap RunOf(b[1])' = {}
    <3>1. a \in held /\ b \in held /\ Large(a) /\ Large(b)
      BY <1>7, <2>2
    <3>2. RunOf(a[1]) \cap RunOf(b[1]) = {}
      BY <2>2, <3>1 DEF HeapInv, LargeRuns
    <3> QED BY <3>2, <1>6
  <2> QED BY <2>1, <2>2 DEF LargeRuns
<1>9. FreeLists'
  <2>1. FreeLists
    BY DEF HeapInv
  <2>2. \A c \in Class : \A i \in 1..Len(free_list[c]) : free_list[c][i] \in Block
    BY <1>1, ListsAre
  <2> QED BY <2>1, <2>2, <1>3 DEF FreeLists
<1>10. HeldOnce'
  <2> SUFFICES ASSUME NEW b \in held'
               PROVE  /\ ~OnList(b)' /\ \A t \in Caller : Carried(t)' => doing'[t].block # b
                      /\ ~Large(b)' => \E c \in Class : BlockOf(b, c)'
    BY DEF HeldOnce
  <2> QED BY <1>3, <1>4, <1>5
<1>11. CarriedOnce'
  <2> SUFFICES ASSUME NEW u \in Caller, Carried(u)'
               PROVE  /\ BlockOf(doing[u].block, doing[u].class)' /\ ~OnList(doing[u].block)'
                      /\ \A v \in Caller : Carried(v)' /\ doing'[v].block = doing'[u].block => u = v
    BY DEF CarriedOnce
  <2>1. BlockOf(doing'[u].block, doing'[u].class) /\ ~OnList(doing'[u].block)
    OBVIOUS
  <2>2. doing'[u].block \in Block /\ doing'[u].block[1] \in taken'
    <3>1. doing'[u].pc # "idle"
      BY DEF Carried
    <3>2. doing'[u].class \in Class
      BY <3>1 DEF NoCall
    <3> QED BY <2>1, <3>2 DEF BlockOf
  <2>3. BlockOf(doing[u].block, doing[u].class)'
    BY <2>1, <2>2 DEF BlockOf
  <2> QED BY <2>1, <2>3, <1>4
<1>12. Splits'
  <2>1. Splits
    BY DEF HeapInv
  <2>2. ASSUME NEW u \in Caller, doing'[u].pc = "split"
        PROVE  LET b == doing'[u].block
               IN  /\ b \in Block /\ b[1] \in taken' /\ arena'[b[1]] = Zeroed
                   /\ free_list'[doing'[u].class] = <<>>
                   /\ \A v \in Caller : doing'[v].pc = "split" /\ doing'[v].block[1] = b[1] => v = u
                   /\ \A h \in held' : Large(h)' => b[1] \notin RunOf(h[1])'
    <3>1. doing'[u] = doing[u] /\ doing[u].pc = "split"
      BY <2>2
    <3> DEFINE b == doing[u].block
    <3>2. /\ b \in Block /\ b[1] \in taken' /\ arena[b[1]] = Zeroed
          /\ free_list[doing[u].class] = <<>>
          /\ \A v \in Caller : doing[v].pc = "split" /\ doing[v].block[1] = b[1] => v = u
          /\ \A h \in held : Large(h) => b[1] \notin RunOf(h[1])
      BY <2>1, <3>1 DEF Splits
    <3>3. \A v \in Caller : doing'[v].pc = "split" => doing'[v] = doing[v]
      OBVIOUS
    <3> HIDE DEF b
    <3>4. \A h \in held' : Large(h)' => b[1] \notin RunOf(h[1])'
      BY <3>2, <1>6, <1>7
    <3> QED BY <3>1, <3>2, <3>3, <3>4 DEF b
  <2>3. \A u \in Caller : doing'[u].pc = "pop" =>
            \E q \in HeapPage : free_list'[doing'[u].class] = BlocksOf(q, doing'[u].class)
    BY <2>1 DEF Splits
  <2> QED BY <2>2, <2>3 DEF Splits
<1>13. \A p \in HeapPage : IsArena(p)' => IsArena(p)
  BY DEF IsArena
<1>14. Complete'
  <2> SUFFICES ASSUME NEW p \in HeapPage, IsArena(p)',
                      NEW i \in 0..(blocks_per_arena[arena[p].p_mem_block] - 1)
               PROVE  <<p, i>> \in held' \/ OnList(<<p, i>>)' \/ InTransit(<<p, i>>)'
    BY DEF Complete
  <2>1. IsArena(p) /\ <<p, i>> \in Block
    BY <1>13 DEF Block
  <2>2. <<p, i>> \in held \/ OnList(<<p, i>>) \/ InTransit(<<p, i>>)
    BY <2>1 DEF HeapInv, Complete
  <2> QED BY <2>1, <2>2, <1>4
<1>15. ArenaCount'
  <2> SUFFICES ASSUME NEW p \in HeapPage, IsArena(p)'
               PROVE  LET c == arena[p].p_mem_block
                      IN  /\ arena[p].cnt = Cardinality({b \in Range(free_list[c]) : b[1] = p})
                          /\ arena[p].cnt = blocks_per_arena[c] =>
                                \E t \in Caller : doing'[t].pc = "pop" /\ doing'[t].class = c
    BY DEF ArenaCount
  <2>1. LET c == arena[p].p_mem_block
        IN  /\ arena[p].cnt = Cardinality({b \in Range(free_list[c]) : b[1] = p})
            /\ arena[p].cnt = blocks_per_arena[c] =>
                  \E t \in Caller : doing[t].pc = "pop" /\ doing[t].class = c
    BY <1>13 DEF HeapInv, ArenaCount
  <2>2. \A t \in Caller : doing[t].pc = "pop" => doing'[t] = doing[t]
    OBVIOUS
  <2> QED BY <2>1, <2>2
<1> QED BY <1>2, <1>8, <1>9, <1>10, <1>11, <1>12, <1>14, <1>15 DEF HeapInv

\* The call of one thread goes on, and with it what it carries.
LEMMA OneGoesOn ==
    ASSUME HeapInv, NEW t \in Caller, NEW d \in DoingType, doing' = [doing EXCEPT ![t] = d],
           d = NoCall \/ (d.pc # "idle" /\ d.class \in Class), d.pc \notin {"split", "pop"},
           doing[t].pc \notin {"split", "pop"},
           d.pc \in {"lock", "release", "reread"} => d.block \in Block,
           d.pc \in {"acquire", "fault"} => d.block = NoBlock
    PROVE  /\ doing' \in [Caller -> DoingType] /\ doing'[t] = d
           /\ \A u \in Caller : u # t => doing'[u] = doing[u] /\ (Carried(u)' <=> Carried(u))
           /\ \A u \in Caller : doing'[u] = NoCall \/ (doing'[u].pc # "idle" /\ doing'[u].class \in Class)
           /\ \A u \in Caller : doing'[u].pc \in {"split", "pop"} \/ doing[u].pc \in {"split", "pop"}
                                   => doing'[u] = doing[u]
           /\ CallsBlock'
<1>1. doing \in [Caller -> DoingType] /\ CallsBlock
      /\ \A u \in Caller : doing[u] = NoCall \/ (doing[u].pc # "idle" /\ doing[u].class \in Class)
  BY DEF HeapInv, HeapTypes
<1>2. doing' \in [Caller -> DoingType] /\ doing'[t] = d /\ \A u \in Caller : u # t => doing'[u] = doing[u]
  BY <1>1
<1>3. \A u \in Caller : u # t => (Carried(u)' <=> Carried(u))
  BY <1>2 DEF Carried
<1>4. CallsBlock'
  BY <1>1, <1>2 DEF CallsBlock
<1> QED BY <1>1, <1>2, <1>3, <1>4

LEMMA MallocUnlockKeeps ==
    ASSUME HeapInv, NEW t \in Caller, MallocUnlock(t)
    PROVE  HeapInv'
<1> DEFINE b == doing[t].block
<1>1. HeapTypes /\ CallsBlock /\ doing[t].pc = "unlock" /\ doing[t].class \in Class /\ b \in Block \cup {NoBlock}
  BY DoingIs DEF HeapInv, MallocUnlock, Goto
<1>2. /\ doing' = [doing EXCEPT ![t] = NoCall] /\ owner' = [owner EXCEPT ![doing[t].class] = NULL]
      /\ held' = (IF b = NoBlock THEN held ELSE held \cup {b})
      /\ UNCHANGED <<taken, arena, free_list>>
  BY DEF MallocUnlock, Goto
<1>3. NoCall \in DoingType /\ NoCall.pc = "idle" /\ owner' \in [Class -> Caller \cup {NULL}]
  BY <1>1, <1>2 DEF DoingType, NoCall, HeapSteps, HeapTypes
<1>4. /\ doing' \in [Caller -> DoingType] /\ doing'[t] = NoCall
      /\ \A u \in Caller : u # t => doing'[u] = doing[u] /\ (Carried(u)' <=> Carried(u))
      /\ \A u \in Caller : doing'[u] = NoCall \/ (doing'[u].pc # "idle" /\ doing'[u].class \in Class)
      /\ \A u \in Caller : doing'[u].pc \in {"split", "pop"} \/ doing[u].pc \in {"split", "pop"}
                              => doing'[u] = doing[u]
      /\ CallsBlock'
  BY <1>1, <1>2, <1>3, OneGoesOn
<1>5. \A u \in Caller : Carried(u)' => u # t
  BY <1>3, <1>4 DEF Carried
<1>6. b # NoBlock => /\ Carried(t) /\ BlockOf(b, doing[t].class) /\ b \in Block /\ ~OnList(b) /\ b \notin held
                     /\ \A u \in Caller : Carried(u) /\ doing[u].block = b => t = u
                     /\ ~arena[b[1]].is_page_cnt
  <2>1. b # NoBlock => Carried(t)
    BY <1>1 DEF Carried
  <2>2. b \notin held \/ ~Carried(t)
    BY HeldIs
  <2> QED BY <2>1, <2>2, CarriedIs DEF BlockOf
<1>7. Moves
  <2>1. \A e \in Block, c \in Class : BlockOf(e, c) => e[1] \in taken'
    BY <1>2 DEF BlockOf
  <2>2. held' \subseteq Block
    BY <1>1, <1>2 DEF HeapTypes
  <2>3. \A u \in Caller : doing[u].pc = "split" => doing[u].block[1] \in taken'
    BY <1>2 DEF HeapInv, Splits
  <2>4. ASSUME NEW h \in held', arena[h[1]].is_page_cnt
        PROVE  h \in held /\ RunOf(h[1]) \subseteq taken'
    <3>1. h \in held
      BY <1>2, <1>6, <2>4
    <3>2. RunOf(h[1]) \subseteq taken
      BY <2>4, <3>1, HeldIs DEF Large
    <3> QED BY <1>2, <3>1, <3>2
  <2>5. ASSUME NEW e \in held'
        PROVE  /\ ~OnList(e) /\ \A u \in Caller : Carried(u)' => doing'[u].block # e
               /\ arena[e[1]].is_page_cnt \/ \E c \in Class : BlockOf(e, c)
    <3>1. CASE e \in held
      BY <1>4, <1>5, <3>1, HeldIs DEF Large
    <3>2. CASE e = b /\ b # NoBlock
      BY <1>1, <1>4, <1>5, <1>6, <3>2
    <3> QED BY <1>2, <3>1, <3>2
  <2>6. \A u \in Caller : Carried(u)' =>
          /\ BlockOf(doing'[u].block, doing'[u].class)
          /\ ~OnList(doing'[u].block)
          /\ \A v \in Caller : Carried(v)' /\ doing'[v].block = doing'[u].block => u = v
    BY <1>4, <1>5, CarriedIs
  <2>7. ASSUME NEW e \in Block, (e \in held /\ IsArena(e[1])) \/ InTransit(e)
        PROVE  e \in held' \/ InTransit(e)'
    <3>1. CASE e \in held
      BY <1>2, <3>1
    <3>2. CASE InTransit(e)
      <4>1. PICK u \in Caller : Carried(u) /\ doing[u].block = e
        BY <3>2, TransitIs
      <4>2. CASE u = t
        BY <1>2, <4>1, <4>2, BlockIs
      <4>3. CASE u # t
        BY <1>4, <4>1, <4>3 DEF Carried, InTransit
      <4> QED BY <4>2, <4>3
    <3> QED BY <2>7, <3>1, <3>2
  <2> QED BY <1>2, <1>3, <1>4, <2>1, <2>2, <2>3, <2>4, <2>5, <2>6, <2>7, Zenon DEF Moves
<1> QED BY <1>4, <1>7, MovesKeeps

LEMMA FreeBlockKeeps ==
    ASSUME HeapInv, NEW t \in Caller, NEW b \in held, FreeBlock(t, b)
    PROVE  HeapInv'
<1> DEFINE d == Call("lock", arena[b[1]].p_mem_block, b)
<1>1. HeapTypes /\ doing[t] = NoCall /\ doing[t].pc = "idle" /\ ~arena[b[1]].is_page_cnt
  BY DEF HeapInv, FreeBlock, block2arena, NoCall
<1>2. /\ doing' = [doing EXCEPT ![t] = d] /\ held' = held \ {b}
      /\ UNCHANGED <<taken, arena, free_list, owner>>
  BY DEF FreeBlock, block2arena
<1>3. /\ b \in Block /\ ~OnList(b) /\ BlockOf(b, arena[b[1]].p_mem_block) /\ arena[b[1]].p_mem_block \in Class
      /\ \A u \in Caller : Carried(u) => doing[u].block # b
  BY <1>1, HeldIs DEF Large, BlockOf
<1>4. d \in DoingType /\ d.pc = "lock" /\ d.class = arena[b[1]].p_mem_block /\ d.block = b
  BY <1>3 DEF DoingType, Call, HeapSteps
<1> HIDE DEF d
<1>5. /\ doing' \in [Caller -> DoingType] /\ doing'[t] = d
      /\ \A u \in Caller : u # t => doing'[u] = doing[u] /\ (Carried(u)' <=> Carried(u))
      /\ \A u \in Caller : doing'[u] = NoCall \/ (doing'[u].pc # "idle" /\ doing'[u].class \in Class)
      /\ \A u \in Caller : doing'[u].pc \in {"split", "pop"} \/ doing[u].pc \in {"split", "pop"}
                              => doing'[u] = doing[u]
      /\ CallsBlock'
  BY <1>1, <1>2, <1>3, <1>4, OneGoesOn
<1>6. Moves
  <2>1. \A e \in Block, c \in Class : BlockOf(e, c) => e[1] \in taken'
    BY <1>2 DEF BlockOf
  <2>2. held' \subseteq Block /\ owner' \in [Class -> Caller \cup {NULL}]
    BY <1>1, <1>2 DEF HeapTypes
  <2>3. \A u \in Caller : doing[u].pc = "split" => doing[u].block[1] \in taken'
    BY <1>2 DEF HeapInv, Splits
  <2>4. \A h \in held' : arena[h[1]].is_page_cnt => h \in held /\ RunOf(h[1]) \subseteq taken'
    BY <1>2, HeldIs DEF Large
  <2>5. ASSUME NEW e \in held'
        PROVE  /\ ~OnList(e) /\ \A u \in Caller : Carried(u)' => doing'[u].block # e
               /\ arena[e[1]].is_page_cnt \/ \E c \in Class : BlockOf(e, c)
    BY <1>2, <1>4, <1>5, HeldIs DEF Large
  <2>6. ASSUME NEW u \in Caller, Carried(u)'
        PROVE  /\ BlockOf(doing'[u].block, doing'[u].class)
               /\ ~OnList(doing'[u].block)
               /\ \A v \in Caller : Carried(v)' /\ doing'[v].block = doing'[u].block => u = v
    <3>1. \A v \in Caller : v # t /\ Carried(v)' => Carried(v) /\ doing'[v] = doing[v] /\ doing[v].block # b
      BY <1>3, <1>5
    <3>2. CASE u = t
      BY <1>3, <1>4, <1>5, <3>1, <3>2
    <3>3. CASE u # t
      <4>1. /\ BlockOf(doing[u].block, doing[u].class) /\ ~OnList(doing[u].block)
            /\ \A v \in Caller : Carried(v) /\ doing[v].block = doing[u].block => u = v
        BY <2>6, <3>1, <3>3, CarriedIs
      <4> QED BY <2>6, <3>1, <3>3, <4>1, <1>4, <1>5
    <3> QED BY <3>2, <3>3
  <2>7. ASSUME NEW e \in Block, (e \in held /\ IsArena(e[1])) \/ InTransit(e)
        PROVE  e \in held' \/ InTransit(e)'
    <3>1. CASE e \in held /\ e # b
      BY <1>2, <3>1
    <3>2. CASE e = b
      BY <1>4, <1>5, <3>2 DEF InTransit
    <3>3. CASE InTransit(e)
      <4>1. PICK u \in Caller : doing[u].pc \in {"unlock", "lock", "release"} /\ doing[u].block = e
        BY <3>3 DEF InTransit
      <4> QED BY <1>1, <1>5, <4>1 DEF InTransit
    <3> QED BY <2>7, <3>1, <3>2, <3>3
  <2> QED BY <1>2, <1>5, <2>1, <2>2, <2>3, <2>4, <2>5, <2>6, <2>7, Zenon DEF Moves
<1> QED BY <1>5, <1>6, MovesKeeps

LEMMA FreePagesKeeps ==
    ASSUME HeapInv, NEW t \in Caller, NEW b \in held, FreePages(t, b)
    PROVE  HeapInv'
<1> DEFINE R == RunOf(b[1])
<1>1. HeapTypes /\ Large(b) /\ taken' = taken \ R /\ held' = held \ {b} /\ b \in Block
      /\ UNCHANGED <<arena, free_list, owner, doing>>
  BY HeldIs DEF HeapInv, FreePages, block2arena, Large, RunOf
<1>2. b[1] \in R /\ \A q \in R : arena[q].p_mem_block = NULL
  BY <1>1, HeldIs
<1> HIDE DEF R
<1>3. NULL \notin Class
  BY HeapConstants
<1>4. \A u \in Caller : Carried(u)' <=> Carried(u)
  BY <1>1 DEF Carried
<1>5. Moves
  <2>1. \A e \in Block, c \in Class : BlockOf(e, c) => e[1] \in taken'
    BY <1>1, <1>2, <1>3 DEF BlockOf
  <2>2. /\ held' \subseteq Block /\ owner' \in [Class -> Caller \cup {NULL}] /\ doing' \in [Caller -> DoingType]
        /\ \A u \in Caller : doing'[u] = NoCall \/ (doing'[u].pc # "idle" /\ doing'[u].class \in Class)
    BY <1>1 DEF HeapTypes
  <2>3. \A u \in Caller : doing[u].pc = "split" => doing[u].block[1] \in taken'
    BY <1>1 DEF HeapInv, Splits, R
  <2>4. ASSUME NEW h \in held', arena[h[1]].is_page_cnt
        PROVE  h \in held /\ RunOf(h[1]) \subseteq taken'
    <3>1. h \in held /\ h # b /\ Large(h)
      BY <1>1, <2>4 DEF Large
    <3>2. RunOf(h[1]) \cap R = {}
      BY <1>1, <3>1 DEF HeapInv, LargeRuns, R
    <3>3. RunOf(h[1]) \subseteq taken
      BY <3>1, HeldIs
    <3> QED BY <1>1, <3>1, <3>2, <3>3
  <2>5. \A e \in held' : /\ ~OnList(e) /\ \A u \in Caller : Carried(u)' => doing'[u].block # e
                         /\ arena[e[1]].is_page_cnt \/ \E c \in Class : BlockOf(e, c)
    BY <1>1, <1>4, HeldIs DEF Large
  <2>6. \A u \in Caller : Carried(u)' =>
          /\ BlockOf(doing'[u].block, doing'[u].class)
          /\ ~OnList(doing'[u].block)
          /\ \A v \in Caller : Carried(v)' /\ doing'[v].block = doing'[u].block => u = v
    BY <1>1, <1>4, CarriedIs
  <2>7. ASSUME NEW e \in Block, (e \in held /\ IsArena(e[1])) \/ InTransit(e)
        PROVE  e \in held' \/ InTransit(e)'
    <3>1. CASE e \in held /\ IsArena(e[1])
      BY <1>1, <1>2, <3>1 DEF IsArena
    <3>2. CASE InTransit(e)
      BY <1>1, <3>2 DEF InTransit
    <3> QED BY <2>7, <3>1, <3>2
  <2> QED BY <1>1, <2>1, <2>2, <2>3, <2>4, <2>5, <2>6, <2>7, Zenon DEF Moves
<1>6. CallsBlock'
  BY <1>1 DEF HeapInv, CallsBlock
<1> QED BY <1>5, <1>6, MovesKeeps
-----------------------------------------------------------------------------
LEMMA RangeIs ==
    ASSUME NEW S, NEW list \in Seq(S)
    PROVE  /\ Len(list) \in Nat /\ DOMAIN list = 1..Len(list)
           /\ \A e : e \in Range(list) <=> \E i \in 1..Len(list) : list[i] = e
           /\ Range(list) \subseteq S
<1>1. Len(list) \in Nat /\ DOMAIN list = 1..Len(list) /\ \A i \in 1..Len(list) : list[i] \in S
  BY LenProperties
<1> QED BY <1>1 DEF Range

LEMMA TailHas ==
    ASSUME NEW S, NEW list \in Seq(S), list # <<>>, Distinct(list)
    PROVE  /\ Tail(list) \in Seq(S) /\ Distinct(Tail(list))
           /\ Head(list) \in Range(list) /\ Range(Tail(list)) = Range(list) \ {Head(list)}
<1> DEFINE w == Tail(list)
           n == Len(list)
<1>1. /\ n \in Nat /\ n > 0 /\ w \in Seq(S) /\ Len(w) = n - 1 /\ Head(list) = list[1]
      /\ \A i \in 1..(n - 1) : w[i] = list[i + 1]
  BY HeadTailProperties, EmptySeq
<1> HIDE DEF w, n
<1>2. \A i, j \in 1..n : list[i] = list[j] => i = j
  BY DEF Distinct, n
<1>3. Distinct(w)
  <2> SUFFICES ASSUME NEW i \in 1..(n - 1), NEW j \in 1..(n - 1), w[i] = w[j]
               PROVE  i = j
    BY <1>1 DEF Distinct
  <2>1. i + 1 \in 1..n /\ j + 1 \in 1..n /\ list[i + 1] = list[j + 1]
    BY <1>1
  <2>2. i + 1 = j + 1
    BY <1>2, <2>1
  <2> QED BY <1>1, <2>2
<1>4. \A e : e \in Range(w) <=> \E i \in 1..(n - 1) : w[i] = e
  BY <1>1, RangeIs
<1>5. \A e : e \in Range(list) <=> \E i \in 1..n : list[i] = e
  BY RangeIs DEF n
<1>6. 1 \in 1..n /\ \A i \in 1..(n - 1) : i + 1 \in 1..n /\ i + 1 # 1
  BY <1>1
<1>7. \A i \in 1..n : i # 1 => i - 1 \in 1..(n - 1) /\ (i - 1) + 1 = i
  BY <1>1
<1>8. ASSUME NEW e \in Range(w) PROVE e \in Range(list) /\ e # Head(list)
  BY <1>1, <1>2, <1>4, <1>5, <1>6
<1>9. ASSUME NEW e \in Range(list), e # Head(list) PROVE e \in Range(w)
  <2>1. PICK i \in 1..n : list[i] = e
    BY <1>5
  <2>2. i # 1
    BY <1>1, <1>9, <2>1
  <2>3. w[i - 1] = e /\ i - 1 \in 1..(n - 1)
    BY <1>1, <1>7, <2>1, <2>2
  <2> QED BY <1>4, <2>3
<1>10. Head(list) \in Range(list)
  BY <1>1, <1>5, <1>6
<1> QED BY <1>1, <1>3, <1>8, <1>9, <1>10 DEF w

LEMMA AppendHas ==
    ASSUME NEW S, NEW list \in Seq(S), NEW b \in S, Distinct(list), b \notin Range(list)
    PROVE  /\ Append(list, b) \in Seq(S) /\ Distinct(Append(list, b))
           /\ Range(Append(list, b)) = Range(list) \cup {b}
<1> DEFINE w == Append(list, b)
           n == Len(list)
<1>1. /\ n \in Nat /\ w \in Seq(S) /\ Len(w) = n + 1 /\ w[n + 1] = b
      /\ \A i \in 1..n : w[i] = list[i]
  BY AppendProperties, LenProperties
<1>2. \A e : e \in Range(list) <=> \E i \in 1..n : list[i] = e
  BY RangeIs
<1> HIDE DEF w, n
<1>3. \A e : e \in Range(w) <=> \E i \in 1..(n + 1) : w[i] = e
  BY <1>1, RangeIs
<1>4. 1..(n + 1) = 1..n \cup {n + 1} /\ n + 1 \notin 1..n
  BY <1>1
<1>5. \A i, j \in 1..n : list[i] = list[j] => i = j
  BY DEF Distinct, n
<1>6. Distinct(w)
  <2> SUFFICES ASSUME NEW i \in 1..(n + 1), NEW j \in 1..(n + 1), w[i] = w[j]
               PROVE  i = j
    BY <1>1 DEF Distinct
  <2>1. \A k \in 1..n : w[k] # w[n + 1]
    BY <1>1, <1>2
  <2>2. CASE i \in 1..n /\ j \in 1..n
    BY <1>1, <1>5, <2>2
  <2> QED BY <1>4, <2>1, <2>2
<1>7. \A e : e \in Range(w) <=> e \in Range(list) \/ e = b
  BY <1>1, <1>2, <1>3, <1>4
<1> QED BY <1>1, <1>6, <1>7 DEF w

LEMMA WithoutHas ==
    ASSUME NEW S, NEW list \in Seq(S), NEW p, Distinct(list)
    PROVE  /\ Without(list, p) \in Seq(S) /\ Distinct(Without(list, p))
           /\ Range(Without(list, p)) = {e \in Range(list) : e[1] # p}
<1>0. Without(list, p) \in Seq(S) /\ Distinct(Without(list, p))
  BY WithoutIs
<1>1. \A e : (\E i \in 1..Len(Without(list, p)) : Without(list, p)[i] = e)
                <=> e[1] # p /\ \E i \in 1..Len(list) : list[i] = e
  BY WithoutIs
<1> DEFINE w == Without(list, p)
<1>2. \A e : e \in Range(list) <=> \E i \in 1..Len(list) : list[i] = e
  BY RangeIs
<1>3. w \in Seq(S) /\ \A e : (\E i \in 1..Len(w) : w[i] = e) <=> e[1] # p /\ e \in Range(list)
  BY <1>0, <1>1, <1>2
<1> HIDE DEF w
<1>4. \A e : e \in Range(w) <=> \E i \in 1..Len(w) : w[i] = e
  BY <1>3, RangeIs
<1>5. Range(w) = {e \in Range(list) : e[1] # p}
  BY <1>3, <1>4
<1> QED BY <1>0, <1>5 DEF w

\* The blocks of an arena.
SlotsOf(p, c) == {<<p, i>> : i \in 0..(blocks_per_arena[c] - 1)}

LEMMA BlocksOfHas ==
    ASSUME NEW c \in Class, NEW p \in HeapPage
    PROVE  /\ BlocksOf(p, c) \in Seq(Block) /\ Distinct(BlocksOf(p, c)) /\ Range(BlocksOf(p, c)) = SlotsOf(p, c)
           /\ BlocksOf(p, c) # <<>>
<1>1. PICK n \in Nat : n = blocks_per_arena[c] /\ n > 0
  BY HeapConstants
<1> DEFINE w == [i \in 1..n |-> <<p, i - 1>>]
<1>2. w = BlocksOf(p, c)
  BY <1>1 DEF BlocksOf
<1>3. \A i \in 1..n : w[i] = <<p, i - 1>> /\ <<p, i - 1>> \in Block
  BY DEF Block
<1>4. w \in Seq(Block) /\ Len(w) = n /\ DOMAIN w = 1..n
  <2>1. w \in [1..n -> Block] /\ DOMAIN w = 1..n
    BY <1>3
  <2>2. w \in Seq(Block)
    BY <2>1, SeqDef
  <2> HIDE DEF w
  <2>3. Len(w) \in Nat /\ 1..Len(w) = 1..n
    BY <2>1, <2>2, LenProperties
  <2>4. Len(w) = n
    BY <1>1, <2>3
  <2> QED BY <2>1, <2>2, <2>4
<1> HIDE DEF w
<1>5. Distinct(w)
  <2> SUFFICES ASSUME NEW i \in 1..n, NEW j \in 1..n, <<p, i - 1>> = <<p, j - 1>>
               PROVE  i = j
    BY <1>3, <1>4 DEF Distinct
  <2> QED OBVIOUS
<1>6. \A e : e \in Range(w) <=> \E i \in 1..n : <<p, i - 1>> = e
  BY <1>3, <1>4 DEF Range
<1>7. \A e : e \in SlotsOf(p, c) <=> \E i \in 0..(n - 1) : <<p, i>> = e
  BY <1>1 DEF SlotsOf
<1>8. (\A i \in 1..n : i - 1 \in 0..(n - 1)) /\ \A i \in 0..(n - 1) : i + 1 \in 1..n /\ (i + 1) - 1 = i
  BY <1>1
<1>9. \A e : e \in Range(w) <=> e \in SlotsOf(p, c)
  BY <1>6, <1>7, <1>8
<1>10. w # <<>>
  BY <1>1, <1>4
<1> QED BY <1>2, <1>4, <1>5, <1>9, <1>10

LEMMA SlotsCount ==
    ASSUME NEW c \in Class, NEW p
    PROVE  IsFiniteSet(SlotsOf(p, c)) /\ Cardinality(SlotsOf(p, c)) = blocks_per_arena[c]
<1>1. PICK n \in Nat : n = blocks_per_arena[c]
  BY HeapConstants
<1> DEFINE S == 0..(n - 1)
           T == {<<p, i>> : i \in S}
           f == [i \in S |-> <<p, i>>]
<1>2. IsFiniteSet(S) /\ Cardinality(S) = n
  <2>1. 0 \in Int /\ n - 1 \in Int
    OBVIOUS
  <2>2. IsFiniteSet(0..(n - 1)) /\ Cardinality(0..(n - 1)) = IF 0 > n - 1 THEN 0 ELSE (n - 1) - 0 + 1
    BY <2>1, FS_Interval, Zenon
  <2> QED BY <2>2
<1> HIDE DEF S
<1>3. f \in [S -> T] /\ (\A i, j \in S : f[i] = f[j] => i = j) /\ \A e \in T : \E i \in S : f[i] = e
  OBVIOUS
<1>4. ExistsBijection(S, T)
  BY <1>3 DEF ExistsBijection, Bijection, Injection, Surjection, IsInjective
<1> HIDE DEF T
<1>5. IsFiniteSet(T) /\ Cardinality(T) = n
  BY <1>2, <1>4, FS_Bijection
<1> QED BY <1>1, <1>5 DEF SlotsOf, S, T
-----------------------------------------------------------------------------
\* A call in the section of class c changes its free list to new and the arena
\* of page p, which the class has then, and goes on with d.
BlockThen(b, c) ==
    /\ b \in Block /\ b[1] \in taken' /\ arena'[b[1]].p_mem_block = c /\ ~arena'[b[1]].is_page_cnt
    /\ b[2] < blocks_per_arena[c]
StepCall(t, c, new, d) ==
    /\ doing[t].pc # "idle" /\ doing[t].class = c
    /\ doing' = [doing EXCEPT ![t] = d] /\ d \in DoingType /\ d.class = c
    /\ d.pc \in {"pop", "unlock", "reread"}
    /\ d.pc = "reread" => d.block \in Block
    /\ d.pc = "pop" => d.block = NoBlock /\ \E q \in HeapPage : new = BlocksOf(q, c)
    /\ \A u \in Caller : u # t /\ doing[u].pc \in {"split", "pop"} => doing[u].class # c
    /\ free_list' = [free_list EXCEPT ![c] = new] /\ new \in Seq(Block) /\ Distinct(new)
    /\ UNCHANGED <<owner, held>>
StepPages(t, c, p) ==
    /\ arena' \in [HeapPage -> ArenaType]
    /\ \A q \in HeapPage : q # p => arena'[q] = arena[q]
    /\ arena'[p].p_mem_block = c /\ ~arena'[p].is_page_cnt /\ arena'[p].cnt <= blocks_per_arena[c]
    /\ taken' \subseteq taken /\ taken \ {p} \subseteq taken'
    /\ \A h \in held : Large(h) => p \notin RunOf(h[1])
    /\ \A u \in Caller : u # t /\ doing[u].pc = "split" => doing[u].block[1] # p
StepBlocks(t, c, p, new, d) ==
    /\ \A b \in Range(new) : BlockThen(b, c)
    /\ \A k \in Class : k # c => \A b \in Range(free_list[k]) : b[1] # p
    /\ \A b \in held : b \notin Range(new) /\ (b[1] = p => BlockThen(b, c))
    /\ \A u \in Caller : u # t /\ Carried(u) =>
          /\ doing[u].block \notin Range(new)
          /\ doing[u].block[1] = p => BlockThen(doing[u].block, doing[u].class)
    /\ d.pc = "unlock" =>
          /\ BlockThen(d.block, c) /\ d.block \notin Range(new) /\ d.block \notin held
          /\ \A u \in Caller : u # t /\ Carried(u) => doing[u].block # d.block
StepCounts(t, c, new, d) ==
    \A q \in HeapPage : q \in taken' /\ arena'[q].p_mem_block = c =>
        /\ arena'[q].cnt = Cardinality({b \in Range(new) : b[1] = q})
        /\ arena'[q].cnt = blocks_per_arena[c] => d.pc = "pop"
        /\ \A i \in 0..(blocks_per_arena[c] - 1) :
              \/ <<q, i>> \in held \cup Range(new)
              \/ \E u \in Caller : u # t /\ Carried(u) /\ doing[u].block = <<q, i>>
              \/ d.pc = "unlock" /\ d.block = <<q, i>>

LEMMA OnListIs ==
    ASSUME HeapTypes, NEW b
    PROVE  OnList(b) <=> \E c \in Class : b \in Range(free_list[c])
BY ListsAre DEF OnList, Range

\* A block on a list is an arena's of the class, and on no other list.
LEMMA ListedIs ==
    ASSUME HeapInv, NEW c \in Class, NEW b \in Range(free_list[c])
    PROVE  /\ BlockOf(b, c) /\ OnList(b) /\ b \notin held
           /\ \A u \in Caller : Carried(u) => doing[u].block # b
<1>1. HeapTypes /\ FreeLists
  BY DEF HeapInv
<1>2. PICK i \in 1..Len(free_list[c]) : free_list[c][i] = b
  BY <1>1, ListsAre, RangeIs
<1>3. BlockOf(b, c) /\ OnList(b)
  BY <1>1, <1>2, OnListIs DEF FreeLists
<1> QED BY <1>3, HeldIs, CarriedIs

LEMMA ListStepKeeps ==
    ASSUME HeapInv, NEW t \in Caller, NEW c \in Class, NEW p \in HeapPage, NEW new, NEW d,
           StepCall(t, c, new, d), StepPages(t, c, p), StepBlocks(t, c, p, new, d), StepCounts(t, c, new, d)
    PROVE  HeapInv'
<1>1. HeapTypes /\ FreeLists /\ NULL \notin Class
  BY HeapConstants DEF HeapInv
<1>2. /\ doing' \in [Caller -> DoingType] /\ doing'[t] = d
      /\ \A u \in Caller : u # t => doing'[u] = doing[u] /\ (Carried(u)' <=> Carried(u))
  BY <1>1 DEF StepCall, HeapTypes, Carried
<1>3. /\ free_list' \in [Class -> Seq(Block)] /\ free_list'[c] = new
      /\ \A k \in Class : k # c => free_list'[k] = free_list[k]
  BY <1>1 DEF StepCall, HeapTypes
<1>4. /\ held' = held /\ owner' = owner /\ taken' \subseteq taken /\ taken \ {p} \subseteq taken'
      /\ \A q \in HeapPage : q # p => arena'[q] = arena[q]
  BY DEF StepCall, StepPages
<1>5. HeapTypes'
  <2>1. \A q \in HeapPage : arena'[q].cnt <=
            IF arena'[q].p_mem_block = NULL THEN Pages ELSE blocks_per_arena[arena'[q].p_mem_block]
    <3> SUFFICES ASSUME NEW q \in HeapPage
                 PROVE  arena'[q].cnt <=
                            IF arena'[q].p_mem_block = NULL THEN Pages ELSE blocks_per_arena[arena'[q].p_mem_block]
      OBVIOUS
    <3>1. CASE q = p
      BY <1>1, <3>1 DEF StepPages
    <3>2. CASE q # p
      BY <1>1, <1>4, <3>2 DEF HeapTypes
    <3> QED BY <3>1, <3>2
  <2>2. \A u \in Caller : doing'[u] = NoCall \/ (doing'[u].pc # "idle" /\ doing'[u].class \in Class)
    <3>1. d.pc # "idle" /\ d.class \in Class
      BY DEF StepCall
    <3> QED BY <1>1, <1>2, <3>1 DEF HeapTypes
  <2>3. arena' \in [HeapPage -> ArenaType]
    BY DEF StepPages
  <2> QED BY <1>1, <1>2, <1>3, <1>4, <2>1, <2>2, <2>3 DEF HeapTypes
<1>6. \A b, k : BlockThen(b, k) <=> BlockOf(b, k)'
  BY DEF BlockThen, BlockOf
<1>7. \A b, k : BlockOf(b, k) /\ b[1] # p => BlockThen(b, k)
  BY <1>4, BlockIs DEF BlockThen, BlockOf
<1>8. \A h \in held : /\ Large(h)' <=> Large(h)
                      /\ Large(h) => /\ RunOf(h[1])' = RunOf(h[1]) /\ RunOf(h[1]) \subseteq taken'
                                     /\ arena'[h[1]].cnt > 0 /\ h[2] = 0
                                     /\ \A q \in RunOf(h[1]) : arena'[q].p_mem_block = NULL
  <2> SUFFICES ASSUME NEW h \in held
               PROVE  /\ Large(h)' <=> Large(h)
                      /\ Large(h) => /\ RunOf(h[1])' = RunOf(h[1]) /\ RunOf(h[1]) \subseteq taken'
                                     /\ arena'[h[1]].cnt > 0 /\ h[2] = 0
                                     /\ \A q \in RunOf(h[1]) : arena'[q].p_mem_block = NULL
    OBVIOUS
  <2>0. h[1] \in HeapPage
    BY HeldIs, BlockIs
  <2>1. CASE h[1] = p
    <3>1. ~Large(h)
      BY <2>1, HeldIs DEF StepPages
    <3>2. ~Large(h)'
      BY <2>1 DEF StepPages, Large
    <3> QED BY <3>1, <3>2
  <2>2. CASE h[1] # p
    <3>1. arena'[h[1]] = arena[h[1]]
      BY <1>4, <2>0, <2>2
    <3>2. (Large(h)' <=> Large(h)) /\ RunOf(h[1])' = RunOf(h[1])
      BY <1>4, <3>1 DEF Large, RunOf
    <3>3. ASSUME Large(h)
          PROVE  /\ RunOf(h[1]) \subseteq taken' /\ arena'[h[1]].cnt > 0 /\ h[2] = 0
                 /\ \A q \in RunOf(h[1]) : arena'[q].p_mem_block = NULL
      <4>1. /\ RunOf(h[1]) \subseteq taken /\ p \notin RunOf(h[1]) /\ arena[h[1]].cnt > 0 /\ h[2] = 0
            /\ \A q \in RunOf(h[1]) : arena[q].p_mem_block = NULL
        BY <3>3, HeldIs DEF StepPages
      <4>2. \A q \in RunOf(h[1]) : q \in taken' /\ arena'[q] = arena[q]
        BY <1>1, <1>4, <4>1 DEF HeapTypes
      <4> QED BY <3>1, <4>1, <4>2
    <3> QED BY <3>2, <3>3
  <2> QED BY <2>1, <2>2
<1>9. LargeRuns'
  <2>1. \A a, b \in held : Large(a) /\ Large(b) /\ a # b => RunOf(a[1]) \cap RunOf(b[1]) = {}
    BY DEF HeapInv, LargeRuns
  <2>2. ASSUME NEW b \in held', Large(b)'
        PROVE  /\ b[2] = 0 /\ arena'[b[1]].cnt > 0 /\ RunOf(b[1])' \subseteq taken'
               /\ \A q \in RunOf(b[1])' : arena'[q].p_mem_block = NULL
    BY <1>4, <1>8, <2>2
  <2>3. ASSUME NEW a \in held', NEW b \in held', Large(a)', Large(b)', a # b
        PROVE  RunOf(a[1])' \cap RunOf(b[1])' = {}
    BY <1>4, <1>8, <2>1, <2>3
  <2> QED BY <2>2, <2>3 DEF LargeRuns
<1>10. \A k \in Class : \A b \in Range(free_list'[k]) : BlockThen(b, k)
  <2> SUFFICES ASSUME NEW k \in Class, NEW b \in Range(free_list'[k])
               PROVE  BlockThen(b, k)
    OBVIOUS
  <2>1. CASE k = c
    BY <1>3, <2>1 DEF StepBlocks
  <2>2. CASE k # c
    <3>1. b \in Range(free_list[k]) /\ b[1] # p
      BY <1>3, <2>2 DEF StepBlocks
    <3> QED BY <1>7, <3>1, ListedIs
  <2> QED BY <2>1, <2>2
<1>11. FreeLists'
  <2>1. \A k \in Class : Distinct(free_list'[k])
    BY <1>1, <1>3 DEF FreeLists, StepCall
  <2>2. \A k \in Class : \A i \in 1..Len(free_list'[k]) : free_list'[k][i] \in Range(free_list'[k])
    BY <1>3, RangeIs
  <2>3. \A k \in Class : \A i \in 1..Len(free_list'[k]) : BlockThen(free_list'[k][i], k)
    BY <1>10, <2>2
  <2> QED BY <2>1, <2>3 DEF FreeLists, BlockOf, BlockThen
<1>12. \A b : OnList(b)' <=> \E k \in Class : b \in Range(free_list'[k])
  <2>1. \A k \in Class : DOMAIN free_list'[k] = 1..Len(free_list'[k])
    BY <1>3, LenProperties
  <2> QED BY <2>1 DEF OnList, Range
<1>13. \A b : b \notin Range(new) /\ ~OnList(b) => ~OnList(b)'
  BY <1>1, <1>3, <1>12, OnListIs
<1>14. HeldOnce'
  <2> SUFFICES ASSUME NEW b \in held'
               PROVE  /\ ~OnList(b)' /\ \A u \in Caller : Carried(u)' => doing'[u].block # b
                      /\ ~Large(b)' => \E k \in Class : BlockThen(b, k)
    BY <1>6 DEF HeldOnce
  <2>1. /\ b \in held /\ ~OnList(b) /\ \A u \in Caller : Carried(u) => doing[u].block # b
        /\ ~Large(b) => \E k \in Class : BlockOf(b, k)
    BY <1>4, HeldIs
  <2>2. b \notin Range(new) /\ (b[1] = p => BlockThen(b, c))
    BY <2>1 DEF StepBlocks
  <2>3. Carried(t)' => d.block # b
    <3>1. Carried(t)' => d.pc = "unlock"
      BY <1>2 DEF Carried, StepCall
    <3> QED BY <2>1, <3>1 DEF StepBlocks
  <2>4. ~Large(b)' => \E k \in Class : BlockThen(b, k)
    BY <1>7, <1>8, <2>1, <2>2
  <2> QED BY <1>2, <1>13, <2>1, <2>2, <2>3, <2>4
<1>15. Carried(t)' => /\ BlockThen(d.block, c) /\ ~OnList(d.block)'
                      /\ \A u \in Caller : u # t /\ Carried(u) => doing[u].block # d.block
  <2>1. SUFFICES ASSUME Carried(t)'
                 PROVE  /\ BlockThen(d.block, c) /\ ~\E k \in Class : d.block \in Range(free_list'[k])
                        /\ \A u \in Caller : u # t /\ Carried(u) => doing[u].block # d.block
    <3>1. ~OnList(d.block)' <=> ~\E k \in Class : d.block \in Range(free_list'[k])
      <4>1. \A k \in Class : DOMAIN free_list'[k] = 1..Len(free_list'[k])
        BY <1>3, LenProperties
      <4> QED BY <4>1 DEF OnList, Range
    <3> QED BY <3>1
  <2>2. d.pc = "unlock"
    BY <1>2, <2>1 DEF Carried, StepCall
  <2>3. /\ BlockThen(d.block, c) /\ d.block \notin Range(new)
        /\ \A u \in Caller : u # t /\ Carried(u) => doing[u].block # d.block
    BY <2>2 DEF StepBlocks
  <2>4. \A k \in Class : d.block \in Range(free_list'[k]) => k = c
    BY <1>10, <2>3 DEF BlockThen
  <2> QED BY <1>3, <2>3, <2>4
<1>16. CarriedOnce'
  <2> SUFFICES ASSUME NEW u \in Caller, Carried(u)'
               PROVE  /\ BlockThen(doing'[u].block, doing'[u].class) /\ ~OnList(doing[u].block)'
                      /\ \A v \in Caller : Carried(v)' /\ doing'[v].block = doing'[u].block => u = v
    BY DEF CarriedOnce, BlockThen, BlockOf
  <2>1. CASE u = t
    <3>1. OnList(doing[u].block)' <=> OnList(d.block)'
      BY <1>2, <2>1 DEF OnList
    <3>2. d.class = c
      BY DEF StepCall
    <3> QED BY <1>2, <1>15, <2>1, <3>1, <3>2
  <2>2. CASE u # t
    <3>1. doing'[u] = doing[u] /\ Carried(u)
      BY <1>2, <2>2
    <3>2. /\ BlockOf(doing[u].block, doing[u].class) /\ ~OnList(doing[u].block)
          /\ \A v \in Caller : Carried(v) /\ doing[v].block = doing[u].block => u = v
      BY <3>1, CarriedIs
    <3>3. BlockThen(doing[u].block, doing[u].class) /\ doing[u].block \notin Range(new)
      BY <1>7, <2>2, <3>1, <3>2 DEF StepBlocks
    <3>4. ~OnList(doing[u].block)'
      <4>1. \A k \in Class : doing[u].block \notin Range(free_list'[k])
        BY <1>1, <1>3, <3>2, <3>3, OnListIs
      <4> QED BY <1>12, <3>1, <4>1
    <3> QED BY <1>2, <1>15, <2>2, <3>1, <3>2, <3>3, <3>4
  <2> QED BY <2>1, <2>2
<1>17. CallsBlock'
  <2>1. CallsBlock
    BY DEF HeapInv
  <2> QED BY <1>2, <2>1 DEF CallsBlock, StepCall
<1>18. Splits'
  <2>1. Splits
    BY DEF HeapInv
  <2>2. ASSUME NEW u \in Caller, doing'[u].pc = "split"
        PROVE  LET b == doing'[u].block
               IN  /\ b \in Block /\ b[1] \in taken' /\ arena'[b[1]] = Zeroed
                   /\ free_list'[doing'[u].class] = <<>>
                   /\ \A v \in Caller : doing'[v].pc = "split" /\ doing'[v].block[1] = b[1] => v = u
                   /\ \A h \in held' : Large(h)' => b[1] \notin RunOf(h[1])'
    <3>1. u # t /\ doing'[u] = doing[u] /\ doing[u].pc = "split"
      BY <1>2, <2>2 DEF StepCall
    <3> DEFINE b == doing[u].block
    <3>2. /\ b \in Block /\ b[1] \in taken /\ arena[b[1]] = Zeroed
          /\ free_list[doing[u].class] = <<>>
          /\ \A v \in Caller : doing[v].pc = "split" /\ doing[v].block[1] = b[1] => v = u
          /\ \A h \in held : Large(h) => b[1] \notin RunOf(h[1])
      BY <2>1, <3>1 DEF Splits
    <3>3. b[1] # p /\ doing[u].class # c /\ doing[u].class \in Class
      BY <1>1, <3>1, DoingIs DEF StepPages, StepCall
    <3>4. \A v \in Caller : doing'[v].pc = "split" => doing'[v] = doing[v]
      BY <1>2 DEF StepCall
    <3> HIDE DEF b
    <3>5. b[1] \in taken' /\ arena'[b[1]] = Zeroed /\ free_list'[doing[u].class] = <<>>
      BY <1>3, <1>4, <3>2, <3>3, BlockIs
    <3>6. \A h \in held' : Large(h)' => b[1] \notin RunOf(h[1])'
      BY <1>4, <1>8, <3>2
    <3> QED BY <3>1, <3>2, <3>4, <3>5, <3>6 DEF b
  <2>3. ASSUME NEW u \in Caller, doing'[u].pc = "pop"
        PROVE  \E q \in HeapPage : free_list'[doing'[u].class] = BlocksOf(q, doing'[u].class)
    <3>1. CASE u = t
      BY <1>2, <1>3, <2>3, <3>1 DEF StepCall
    <3>2. CASE u # t
      <4>1. doing'[u] = doing[u] /\ doing[u].class # c /\ doing[u].class \in Class
        BY <1>1, <1>2, <2>3, <3>2, DoingIs DEF StepCall
      <4> QED BY <1>3, <2>1, <2>3, <4>1 DEF Splits
    <3> QED BY <3>1, <3>2
  <2> QED BY <2>2, <2>3 DEF Splits
<1>19. \A q \in HeapPage : IsArena(q)' /\ arena'[q].p_mem_block # c =>
            IsArena(q) /\ arena'[q] = arena[q] /\ arena[q].p_mem_block \in Class
  <2>1. arena'[p].p_mem_block = c
    BY DEF StepPages
  <2> QED BY <1>1, <1>4, <2>1, ArenaTypes DEF IsArena
<1>20. \A b \in Block : (\E u \in Caller : u # t /\ Carried(u) /\ doing[u].block = b) => InTransit(b)'
  BY <1>2 DEF Carried, InTransit
<1>21. Complete'
  <2> SUFFICES ASSUME NEW q \in HeapPage, IsArena(q)',
                      NEW i \in 0..(blocks_per_arena[arena'[q].p_mem_block] - 1)
               PROVE  <<q, i>> \in held \/ OnList(<<q, i>>)' \/ InTransit(<<q, i>>)'
    BY <1>4 DEF Complete
  <2>0. <<q, i>> \in Block
    BY DEF Block
  <2>1. CASE arena'[q].p_mem_block = c
    <3>1. \/ <<q, i>> \in held \cup Range(new)
          \/ \E u \in Caller : u # t /\ Carried(u) /\ doing[u].block = <<q, i>>
          \/ d.pc = "unlock" /\ d.block = <<q, i>>
      BY <2>1 DEF StepCounts, IsArena
    <3>2. <<q, i>> \in Range(new) => OnList(<<q, i>>)'
      BY <1>3, <1>12
    <3>3. d.pc = "unlock" /\ d.block = <<q, i>> => InTransit(<<q, i>>)'
      BY <1>2 DEF InTransit
    <3> QED BY <1>20, <2>0, <3>1, <3>2, <3>3
  <2>2. CASE arena'[q].p_mem_block # c
    <3>1. IsArena(q) /\ arena'[q] = arena[q] /\ arena[q].p_mem_block \in Class
      BY <1>19, <2>2
    <3>2. <<q, i>> \in held \/ OnList(<<q, i>>) \/ InTransit(<<q, i>>)
      BY <3>1 DEF HeapInv, Complete
    <3>3. OnList(<<q, i>>) => OnList(<<q, i>>)'
      <4>1. ASSUME NEW k \in Class, <<q, i>> \in Range(free_list[k]) PROVE k # c
        <5>1. arena[q].p_mem_block = k
          BY <4>1, ListedIs DEF BlockOf
        <5> QED BY <2>2, <3>1, <5>1
      <4> QED BY <1>1, <1>3, <1>12, <4>1, OnListIs
    <3>4. ASSUME InTransit(<<q, i>>) PROVE InTransit(<<q, i>>)'
      <4>1. PICK u \in Caller : Carried(u) /\ doing[u].block = <<q, i>>
        BY <2>0, <3>4, TransitIs
      <4>2. arena[q].p_mem_block = doing[u].class
        BY <4>1, CarriedIs DEF BlockOf
      <4>3. u # t
        BY <2>2, <3>1, <4>2 DEF StepCall
      <4> QED BY <1>20, <2>0, <4>1, <4>3
    <3> QED BY <3>2, <3>3, <3>4
  <2> QED BY <2>1, <2>2
<1>22. ArenaCount'
  <2> SUFFICES ASSUME NEW q \in HeapPage, IsArena(q)'
               PROVE  /\ arena'[q].cnt = Cardinality({b \in Range(free_list'[arena'[q].p_mem_block]) : b[1] = q})
                      /\ arena'[q].cnt = blocks_per_arena[arena'[q].p_mem_block] =>
                            \E u \in Caller : doing'[u].pc = "pop" /\ doing'[u].class = arena'[q].p_mem_block
    BY DEF ArenaCount
  <2>1. CASE arena'[q].p_mem_block = c
    <3>1. /\ arena'[q].cnt = Cardinality({b \in Range(new) : b[1] = q})
          /\ arena'[q].cnt = blocks_per_arena[c] => d.pc = "pop"
      BY <2>1 DEF StepCounts, IsArena
    <3>2. d.class = c
      BY DEF StepCall
    <3> QED BY <1>2, <1>3, <2>1, <3>1, <3>2
  <2>2. CASE arena'[q].p_mem_block # c
    <3> DEFINE k == arena[q].p_mem_block
    <3>1. IsArena(q) /\ arena'[q] = arena[q] /\ k \in Class /\ k # c
      BY <1>19, <2>2
    <3>2. /\ arena[q].cnt = Cardinality({b \in Range(free_list[k]) : b[1] = q})
          /\ arena[q].cnt = blocks_per_arena[k] => \E u \in Caller : doing[u].pc = "pop" /\ doing[u].class = k
      BY <3>1 DEF HeapInv, ArenaCount
    <3>3. \A u \in Caller : doing[u].pc = "pop" /\ doing[u].class = k => doing'[u] = doing[u]
      BY <1>2, <3>1 DEF StepCall
    <3>4. free_list'[k] = free_list[k]
      BY <1>3, <3>1
    <3> QED BY <3>1, <3>2, <3>3, <3>4
  <2> QED BY <2>1, <2>2
<1> QED BY <1>5, <1>9, <1>11, <1>14, <1>16, <1>17, <1>18, <1>21, <1>22 DEF HeapInv
-----------------------------------------------------------------------------
\* The free blocks of an arena, and where its blocks are.
LEMMA FreeCount ==
    ASSUME HeapInv, NEW c \in Class, NEW p \in HeapPage, p \in taken, arena[p].p_mem_block = c
    PROVE  LET F == {b \in Range(free_list[c]) : b[1] = p}
           IN  /\ F \subseteq SlotsOf(p, c) /\ IsFiniteSet(F)
               /\ Cardinality(F) = arena[p].cnt /\ arena[p].cnt \in Nat
               /\ arena[p].cnt = blocks_per_arena[c] =>
                     \E t \in Caller : doing[t].pc = "pop" /\ doing[t].class = c
<1> DEFINE F == {b \in Range(free_list[c]) : b[1] = p}
<1>1. IsArena(p) /\ HeapTypes /\ ArenaCount
  BY HeapConstants DEF IsArena, HeapInv
<1>2. ASSUME NEW b \in F PROVE b \in SlotsOf(p, c)
  <2>1. BlockOf(b, c) /\ b[1] = p
    BY ListedIs
  <2>2. b = <<p, b[2]>> /\ b[2] \in Nat /\ b[2] < blocks_per_arena[c] /\ blocks_per_arena[c] \in Nat
    BY <2>1, BlockIs, HeapConstants DEF BlockOf
  <2> QED BY <2>2 DEF SlotsOf
<1>3. IsFiniteSet(F)
  <2>1. IsFiniteSet(SlotsOf(p, c)) /\ F \in SUBSET SlotsOf(p, c)
    BY <1>2, SlotsCount
  <2> HIDE DEF F
  <2> QED BY <2>1, FS_Subset
<1>4. /\ arena[p].cnt = Cardinality(F)
      /\ arena[p].cnt = blocks_per_arena[c] => \E t \in Caller : doing[t].pc = "pop" /\ doing[t].class = c
  BY <1>1 DEF ArenaCount
<1>5. arena[p].cnt \in Nat
  BY <1>1, ArenaTypes
<1> QED BY <1>2, <1>3, <1>4, <1>5

LEMMA BlocksNat ==
    ASSUME NEW c \in Class
    PROVE  \E n \in Nat : n = blocks_per_arena[c] /\ n > 0
<1>1. blocks_per_arena[c] \in Nat \ {0}
  BY HeapConstants
<1> QED BY <1>1

LEMMA EmptyRange == Range(<<>>) = {}
<1>1. <<>> \in Seq({})
  BY EmptySeq
<1>2. Len(<<>>) = 0
  BY EmptySeq
<1>3. DOMAIN <<>> = 1..0
  BY <1>1, <1>2, LenProperties
<1>4. 1..0 = {}
  OBVIOUS
<1>5. DOMAIN <<>> = {}
  BY <1>3, <1>4
<1> QED BY <1>5, Zenon DEF Range

LEMMA BlocksAre ==
    ASSUME HeapInv, NEW c \in Class, NEW p \in HeapPage, p \in taken, arena[p].p_mem_block = c,
           NEW i \in 0..(blocks_per_arena[c] - 1)
    PROVE  \/ <<p, i>> \in held \cup Range(free_list[c])
           \/ \E u \in Caller : Carried(u) /\ doing[u].block = <<p, i>>
<1>1. IsArena(p) /\ HeapTypes /\ Complete /\ <<p, i>> \in Block
  BY HeapConstants DEF IsArena, HeapInv, Block
<1>2. <<p, i>> \in held \/ OnList(<<p, i>>) \/ InTransit(<<p, i>>)
  BY <1>1 DEF Complete
<1>3. ASSUME OnList(<<p, i>>) PROVE <<p, i>> \in Range(free_list[c])
  <2>1. PICK k \in Class : <<p, i>> \in Range(free_list[k])
    BY <1>1, <1>3, OnListIs
  <2>2. BlockOf(<<p, i>>, k)
    BY <2>1, ListedIs
  <2> QED BY <2>1, <2>2 DEF BlockOf
<1> QED BY <1>1, <1>2, <1>3, TransitIs

LEMMA BlockSlot ==
    ASSUME NEW c \in Class, NEW b, BlockOf(b, c)
    PROVE  b \in SlotsOf(b[1], c) /\ b \in Block /\ b[1] \in HeapPage
<1>1. b \in Block /\ b = <<b[1], b[2]>> /\ b[1] \in HeapPage /\ b[2] \in Nat /\ b[2] < blocks_per_arena[c]
  BY BlockIs DEF BlockOf
<1>2. blocks_per_arena[c] \in Nat
  BY HeapConstants
<1> QED BY <1>1, <1>2 DEF SlotsOf

\* The one call in the section of the class.
LEMMA OneInSection ==
    ASSUME ClassExclusion, NEW t \in Caller, InSection(t)
    PROVE  \A u \in Caller : u # t /\ doing[u].pc \in {"split", "pop"} => doing[u].class # doing[t].class
BY DEF ClassExclusion, InSection

LEMMA SplitKeeps ==
    ASSUME HeapInv, ClassExclusion, NEW t \in Caller, Split(t)
    PROVE  HeapInv'
<1> DEFINE c == doing[t].class
           p == doing[t].block[1]
           a == [p_mem_block |-> c, cnt |-> blocks_per_arena[c], is_page_cnt |-> FALSE]
           d == Call("pop", c, NoBlock)
           new == BlocksOf(p, c)
<1>1. HeapTypes /\ doing[t].pc = "split" /\ c \in Class /\ Splits /\ InSection(t)
  BY DoingIs DEF HeapInv, Split, Goto, InSection
<1>2. /\ p \in HeapPage /\ p \in taken /\ arena[p] = Zeroed /\ free_list[c] = <<>>
      /\ \A u \in Caller : doing[u].pc = "split" /\ doing[u].block[1] = p => u = t
      /\ \A h \in held : Large(h) => p \notin RunOf(h[1])
  BY <1>1, BlockIs DEF Splits
<1>3. /\ new \in Seq(Block) /\ Distinct(new) /\ Range(new) = SlotsOf(p, c)
  BY <1>1, <1>2, BlocksOfHas
<1>4. /\ doing' = [doing EXCEPT ![t] = d] /\ arena' = [arena EXCEPT ![p] = a]
      /\ free_list' = [free_list EXCEPT ![c] = new] /\ UNCHANGED <<taken, owner, held>>
  <2>1. free_list' = [free_list EXCEPT ![c] = free_list[c] \o BlocksOf(p, c)]
    BY DEF Split, block2arena
  <2>2. free_list[c] \o BlocksOf(p, c) = BlocksOf(p, c)
    BY <1>2, <1>3, ConcatEmptySeq
  <2> QED BY <2>1, <2>2 DEF Split, Goto, block2arena
<1>5. \A u \in Caller : u # t /\ doing[u].pc \in {"split", "pop"} => doing[u].class # c
  BY <1>1, OneInSection
<1>6. PICK n \in Nat : n = blocks_per_arena[c] /\ n > 0
  BY <1>1, BlocksNat
<1>7. /\ d \in DoingType /\ d.pc = "pop" /\ d.class = c /\ d.block = NoBlock
      /\ a \in ArenaType /\ a.p_mem_block = c /\ a.cnt = blocks_per_arena[c] /\ ~a.is_page_cnt
      /\ Zeroed.p_mem_block = NULL
  BY <1>1, <1>6 DEF Call, DoingType, HeapSteps, ArenaType, Zeroed
<1>8. StepCall(t, c, new, d)
  <2>1. doing[t].pc # "idle" /\ \E q \in HeapPage : new = BlocksOf(q, c)
    BY <1>1, <1>2
  <2> HIDE DEF d, new
  <2> QED BY <1>3, <1>4, <1>5, <1>7, <2>1 DEF StepCall
<1> HIDE DEF a, d, new, c, p
<1>9. /\ arena' \in [HeapPage -> ArenaType] /\ arena'[p] = a
      /\ \A q \in HeapPage : q # p => arena'[q] = arena[q]
  BY <1>1, <1>2, <1>4, <1>7 DEF HeapTypes
<1>10. StepPages(t, c, p)
  BY <1>2, <1>4, <1>6, <1>7, <1>9 DEF StepPages
<1>11. NULL \notin Class
  BY HeapConstants
<1>12. \A b, k : k \in Class /\ BlockOf(b, k) => b[1] # p
  BY <1>2, <1>7, <1>11 DEF BlockOf
<1>13. \A b \in held : b[1] # p
  BY <1>2, <1>12, HeldIs
<1>14. \A u \in Caller : Carried(u) => doing[u].block[1] # p /\ u # t
  BY <1>1, <1>12, CarriedIs DEF Carried
<1>15. \A b \in Range(new) : b[1] = p /\ b \in Block /\ b[2] < blocks_per_arena[c]
  <2>1. \A i \in 0..(n - 1) : <<p, i>> \in Block /\ i < n
    BY <1>2 DEF Block
  <2> QED BY <1>3, <1>6, <2>1 DEF SlotsOf
<1>16. StepBlocks(t, c, p, new, d)
  <2>1. \A b \in Range(new) : BlockThen(b, c)
    BY <1>2, <1>4, <1>7, <1>9, <1>15 DEF BlockThen
  <2>2. \A k \in Class : \A b \in Range(free_list[k]) : b[1] # p
    BY <1>12, ListedIs
  <2> QED BY <1>7, <1>13, <1>14, <1>15, <2>1, <2>2 DEF StepBlocks
<1>17. StepCounts(t, c, new, d)
  <2> SUFFICES ASSUME NEW q \in HeapPage, q \in taken', arena'[q].p_mem_block = c
               PROVE  /\ arena'[q].cnt = Cardinality({b \in Range(new) : b[1] = q})
                      /\ arena'[q].cnt = blocks_per_arena[c] => d.pc = "pop"
                      /\ \A i \in 0..(blocks_per_arena[c] - 1) :
                            \/ <<q, i>> \in held \cup Range(new)
                            \/ \E u \in Caller : u # t /\ Carried(u) /\ doing[u].block = <<q, i>>
                            \/ d.pc = "unlock" /\ d.block = <<q, i>>
    BY DEF StepCounts
  <2>1. CASE q = p
    <3>1. {b \in Range(new) : b[1] = q} = SlotsOf(p, c)
      BY <1>3, <1>15, <2>1
    <3>2. \A i \in 0..(blocks_per_arena[c] - 1) : <<q, i>> \in Range(new)
      BY <1>3, <2>1 DEF SlotsOf
    <3>3. Cardinality(SlotsOf(p, c)) = blocks_per_arena[c]
      BY <1>1, SlotsCount DEF c
    <3> QED BY <1>7, <1>9, <2>1, <3>1, <3>2, <3>3
  <2>2. CASE q # p
    <3>1. q \in taken /\ arena'[q] = arena[q] /\ arena[q].p_mem_block = c /\ c \in Class
      BY <1>1, <1>4, <1>9, <2>2 DEF c
    <3>2. Range(free_list[c]) = {}
      BY <1>2, EmptyRange
    <3>3. {b \in Range(free_list[c]) : b[1] = q} = {} /\ {b \in Range(new) : b[1] = q} = {}
      BY <1>15, <2>2, <3>2
    <3>4. Cardinality({b \in Range(free_list[c]) : b[1] = q}) = arena[q].cnt
      BY <3>1, FreeCount
    <3>5. \A i \in 0..(blocks_per_arena[c] - 1) :
              <<q, i>> \in held \/ \E u \in Caller : Carried(u) /\ doing[u].block = <<q, i>>
      BY <3>1, <3>2, BlocksAre
    <3> QED BY <1>7, <1>14, <3>1, <3>3, <3>4, <3>5
  <2> QED BY <2>1, <2>2
<1> QED BY <1>1, <1>2, <1>8, <1>10, <1>16, <1>17, ListStepKeeps DEF c

LEMMA PopKeeps ==
    ASSUME HeapInv, ClassExclusion, NEW t \in Caller, doing[t].pc \in {"acquire", "pop"}, Pop(t)
    PROVE  HeapInv'
<1> DEFINE c == doing[t].class
           list == free_list[c]
           b == Head(list)
           p == b[1]
           d == Call("unlock", c, b)
           new == Tail(list)
<1>1. HeapTypes /\ FreeLists /\ Splits /\ c \in Class /\ InSection(t) /\ list \in Seq(Block) /\ list # <<>>
  BY DoingIs, ListsAre DEF HeapInv, InSection, Pop
<1>2. Distinct(list)
  BY <1>1 DEF FreeLists
<1>3. new \in Seq(Block) /\ Distinct(new) /\ b \in Range(list) /\ Range(new) = Range(list) \ {b}
  BY <1>1, <1>2, TailHas
<1>4. /\ BlockOf(b, c) /\ b \in Block /\ b \notin held /\ p \in HeapPage
      /\ \A u \in Caller : Carried(u) => doing[u].block # b
  BY <1>1, <1>3, ListedIs, BlockIs DEF BlockOf
<1>5. /\ doing' = [doing EXCEPT ![t] = d] /\ arena' = [arena EXCEPT ![p].cnt = @ - 1]
      /\ free_list' = [free_list EXCEPT ![c] = new] /\ UNCHANGED <<taken, owner, held>>
  BY DEF Pop, block2arena
<1>6. \A u \in Caller : u # t /\ doing[u].pc \in {"split", "pop"} => doing[u].class # c
  BY <1>1, OneInSection
<1>7. PICK n \in Nat : n = blocks_per_arena[c] /\ n > 0
  BY <1>1, BlocksNat
<1>8. d \in DoingType /\ d.pc = "unlock" /\ d.class = c /\ d.block = b
  BY <1>1, <1>4 DEF Call, DoingType, HeapSteps
<1>9. doing[t].pc # "idle" /\ doing[t].pc # "split" /\ ~Carried(t)
  BY DEF Carried
<1>10. /\ p \in taken /\ arena[p].p_mem_block = c /\ ~arena[p].is_page_cnt
       /\ b \in SlotsOf(p, c) /\ b[2] < blocks_per_arena[c]
  BY <1>1, <1>4, BlockSlot DEF BlockOf
<1>11. \A q \in HeapPage : doing[t].pc = "pop" /\ q # p => {e \in Range(list) : e[1] = q} = {}
  <2>1. ASSUME doing[t].pc = "pop" PROVE \A e \in Range(list) : e[1] = p
    <3>1. PICK r \in HeapPage : list = BlocksOf(r, c)
      BY <1>1, <2>1 DEF Splits
    <3>2. \A e \in Range(list) : e[1] = r
      BY <1>1, <3>1, BlocksOfHas DEF SlotsOf
    <3> QED BY <1>3, <3>2
  <2> QED BY <2>1
<1>12. StepCall(t, c, new, d)
  <2> HIDE DEF d, new
  <2> QED BY <1>3, <1>5, <1>6, <1>8, <1>9 DEF StepCall
<1>13. \A q \in HeapPage : q \in taken /\ arena[q].p_mem_block = c =>
            \A i \in 0..(blocks_per_arena[c] - 1) :
                \/ <<q, i>> \in held \cup Range(list)
                \/ \E u \in Caller : Carried(u) /\ doing[u].block = <<q, i>>
  BY <1>1, BlocksAre
<1>14. \A q \in HeapPage : q \in taken /\ arena[q].p_mem_block = c =>
            LET F == {e \in Range(list) : e[1] = q}
            IN  /\ F \subseteq SlotsOf(q, c) /\ IsFiniteSet(F)
                /\ Cardinality(F) = arena[q].cnt /\ arena[q].cnt \in Nat
                /\ arena[q].cnt = blocks_per_arena[c] =>
                      \E u \in Caller : doing[u].pc = "pop" /\ doing[u].class = c
  BY <1>1, FreeCount
<1>15. arena[p].cnt <= n /\ c # NULL
  BY <1>1, <1>4, <1>7, <1>10, HeapConstants DEF HeapTypes
<1>16. \A k \in Class : k # c => \A e \in Range(free_list[k]) : e[1] # p
  BY <1>10, ListedIs DEF BlockOf
<1> HIDE DEF d, new, b, p, list
<1>17. arena[p].cnt >= 1
  <2> DEFINE F == {e \in Range(list) : e[1] = p}
  <2>1. IsFiniteSet(F) /\ Cardinality(F) = arena[p].cnt /\ arena[p].cnt \in Nat
    BY <1>4, <1>10, <1>14
  <2>2. b \in F
    BY <1>3 DEF p
  <2> HIDE DEF F
  <2>3. Cardinality(F) # 0
    BY <2>1, <2>2, FS_EmptySet
  <2> QED BY <2>1, <2>3
<1>18. /\ arena' \in [HeapPage -> ArenaType] /\ arena'[p].cnt = arena[p].cnt - 1
       /\ arena'[p].p_mem_block = c /\ ~arena'[p].is_page_cnt
       /\ \A q \in HeapPage : q # p => arena'[q] = arena[q]
  <2>1. arena \in [HeapPage -> ArenaType] /\ arena[p] \in ArenaType /\ arena[p].cnt - 1 \in Nat
    BY <1>1, <1>4, <1>17, ArenaTypes DEF HeapTypes
  <2> HIDE DEF c
  <2> QED BY <1>4, <1>5, <1>10, <2>1 DEF ArenaType
<1>19. StepPages(t, c, p)
  <2>1. \A h \in held : Large(h) => p \notin RunOf(h[1])
    BY <1>10, <1>15, HeldIs
  <2>2. \A u \in Caller : doing[u].pc = "split" => doing[u].block[1] # p
    <3>1. \A u \in Caller : doing[u].pc = "split" => arena[doing[u].block[1]] = Zeroed
      BY <1>1 DEF Splits
    <3>2. arena[p] # Zeroed
      BY <1>10, <1>15 DEF Zeroed
    <3> QED BY <3>1, <3>2
  <2>3. arena'[p].cnt <= blocks_per_arena[c]
    <3>1. arena[p].cnt \in Nat
      BY <1>1, <1>4, ArenaTypes
    <3> QED BY <1>7, <1>15, <1>18, <3>1
  <2> HIDE DEF c
  <2> QED BY <1>5, <1>18, <2>1, <2>2, <2>3 DEF StepPages
<1>20. \A e, k : k \in Class /\ BlockOf(e, k) => BlockThen(e, k)
  <2> SUFFICES ASSUME NEW e, NEW k \in Class, BlockOf(e, k)
               PROVE  BlockThen(e, k)
    OBVIOUS
  <2>1. e \in Block /\ e[1] \in HeapPage
    BY BlockSlot
  <2>2. arena'[e[1]].p_mem_block = arena[e[1]].p_mem_block /\ (arena'[e[1]].is_page_cnt <=> arena[e[1]].is_page_cnt)
    <3>1. CASE e[1] = p
      BY <1>10, <1>18, <3>1
    <3>2. CASE e[1] # p
      BY <1>18, <2>1, <3>2
    <3> QED BY <3>1, <3>2
  <2> QED BY <1>5, <2>2 DEF BlockOf, BlockThen
<1>21. StepBlocks(t, c, p, new, d)
  <2>1. \A e \in Range(new) : BlockThen(e, c)
    BY <1>1, <1>3, <1>20, ListedIs DEF list
  <2>2. \A e \in held : e \notin Range(new) /\ (e[1] = p => BlockThen(e, c))
    <3> SUFFICES ASSUME NEW e \in held PROVE e \notin Range(new) /\ (e[1] = p => BlockThen(e, c))
      OBVIOUS
    <3>1. e \notin Range(list)
      BY <1>1, ListedIs DEF list
    <3>2. ASSUME e[1] = p PROVE BlockOf(e, c)
      <4>1. PICK k \in Class : BlockOf(e, k)
        BY <1>10, <3>2, HeldIs DEF Large
      <4> QED BY <1>10, <3>2, <4>1 DEF BlockOf
    <3> QED BY <1>1, <1>3, <1>20, <3>1, <3>2
  <2>3. \A u \in Caller : Carried(u) =>
          doing[u].block \notin Range(new) /\ BlockThen(doing[u].block, doing[u].class)
    BY <1>1, <1>3, <1>20, CarriedIs, ListedIs DEF list
  <2>4. BlockThen(b, c) /\ b \notin Range(new)
    BY <1>1, <1>3, <1>4, <1>20
  <2> HIDE DEF c
  <2> QED BY <1>4, <1>8, <1>16, <2>1, <2>2, <2>3, <2>4 DEF StepBlocks
<1>22. StepCounts(t, c, new, d)
  <2> SUFFICES ASSUME NEW q \in HeapPage, q \in taken', arena'[q].p_mem_block = c
               PROVE  /\ arena'[q].cnt = Cardinality({e \in Range(new) : e[1] = q})
                      /\ arena'[q].cnt # blocks_per_arena[c]
                      /\ \A i \in 0..(blocks_per_arena[c] - 1) :
                            \/ <<q, i>> \in held \cup Range(new)
                            \/ \E u \in Caller : u # t /\ Carried(u) /\ doing[u].block = <<q, i>>
                            \/ d.pc = "unlock" /\ d.block = <<q, i>>
    BY DEF StepCounts
  <2> DEFINE F == {e \in Range(list) : e[1] = q}
  <2>1. q \in taken /\ arena[q].p_mem_block = c
    BY <1>5, <1>10, <1>18
  <2>2. /\ IsFiniteSet(F) /\ Cardinality(F) = arena[q].cnt /\ arena[q].cnt \in Nat
        /\ arena[q].cnt = blocks_per_arena[c] => \E u \in Caller : doing[u].pc = "pop" /\ doing[u].class = c
    BY <2>1, <1>14
  <2>3. \A i \in 0..(blocks_per_arena[c] - 1) :
            \/ <<q, i>> \in held \cup Range(new)
            \/ \E u \in Caller : u # t /\ Carried(u) /\ doing[u].block = <<q, i>>
            \/ d.pc = "unlock" /\ d.block = <<q, i>>
    <3> SUFFICES ASSUME NEW i \in 0..(blocks_per_arena[c] - 1)
                 PROVE  \/ <<q, i>> \in held \cup Range(new)
                        \/ \E u \in Caller : u # t /\ Carried(u) /\ doing[u].block = <<q, i>>
                        \/ d.pc = "unlock" /\ d.block = <<q, i>>
      OBVIOUS
    <3>1. \/ <<q, i>> \in held \cup Range(list)
          \/ \E u \in Caller : Carried(u) /\ doing[u].block = <<q, i>>
      BY <1>13, <2>1
    <3> HIDE DEF c
    <3> QED BY <1>3, <1>8, <1>9, <3>1
  <2>4. CASE q = p
    <3>1. {e \in Range(new) : e[1] = q} = F \ {b} /\ b \in F
      BY <1>3, <2>4 DEF p
    <3>2. Cardinality({e \in Range(new) : e[1] = q}) = arena[q].cnt - 1
      <4> HIDE DEF F
      <4> QED BY <2>2, <3>1, FS_RemoveElement
    <3>3. arena'[q].cnt # blocks_per_arena[c]
      BY <1>7, <1>15, <1>18, <2>2, <2>4
    <3> QED BY <1>18, <2>3, <2>4, <3>2, <3>3
  <2>5. CASE q # p
    <3>1. {e \in Range(new) : e[1] = q} = F /\ arena'[q] = arena[q]
      BY <1>3, <1>18, <2>5 DEF p
    <3>2. arena[q].cnt # blocks_per_arena[c]
      <4>1. SUFFICES ASSUME arena[q].cnt = blocks_per_arena[c]
                     PROVE  FALSE
        OBVIOUS
      <4>2. doing[t].pc = "pop"
        BY <1>6, <2>2, <4>1
      <4>3. F = {}
        BY <1>11, <2>5, <4>2
      <4>4. Cardinality(F) = 0
        BY <4>3, FS_EmptySet
      <4> QED BY <1>7, <2>2, <4>1, <4>4
    <3> QED BY <2>2, <2>3, <3>1, <3>2
  <2> QED BY <2>4, <2>5
<1> QED BY <1>1, <1>4, <1>12, <1>19, <1>21, <1>22, ListStepKeeps

\* What mem_release finds: the arena of the block it has, and the others.
LEMMA MemReleaseKeeps ==
    ASSUME HeapInv, ClassExclusion, NEW t \in Caller, MemRelease(t)
    PROVE  HeapInv'
<1> DEFINE c == doing[t].class
           list == free_list[c]
           b == doing[t].block
           p == b[1]
           d == Call("reread", c, b)
           full == arena[p].cnt + 1 = blocks_per_arena[c]
           returned == Append(list, b)
           new == IF full THEN Without(returned, p) ELSE returned
           G == {e \in Range(returned) : e[1] = p}
<1>1. /\ HeapTypes /\ FreeLists /\ Splits /\ CallsBlock
      /\ doing[t].pc = "release" /\ c \in Class /\ InSection(t) /\ b \in Block
  BY DoingIs DEF HeapInv, MemRelease, Goto, InSection, CallsBlock
<1>2. Carried(t)
  BY <1>1, BlockIs DEF Carried
<1>3. /\ BlockOf(b, c) /\ ~OnList(b) /\ b \notin held /\ \A u \in Caller : Carried(u) /\ doing[u].block = b => u = t
      /\ p \in taken /\ p \in HeapPage /\ arena[p].p_mem_block = c /\ ~arena[p].is_page_cnt
      /\ b \in SlotsOf(p, c) /\ b[2] < blocks_per_arena[c]
  BY <1>1, <1>2, CarriedIs, HeldIs, BlockSlot DEF BlockOf
<1>4. list \in Seq(Block) /\ Distinct(list) /\ b \notin Range(list)
  BY <1>1, <1>3, ListsAre, OnListIs DEF FreeLists
<1>5. returned \in Seq(Block) /\ Distinct(returned) /\ Range(returned) = Range(list) \cup {b}
  BY <1>1, <1>4, AppendHas
<1>6. /\ new \in Seq(Block) /\ Distinct(new)
      /\ ~full => new = returned
      /\ full => Range(new) = {e \in Range(returned) : e[1] # p}
  <2> HIDE DEF returned, p, full
  <2>1. /\ Without(returned, p) \in Seq(Block) /\ Distinct(Without(returned, p))
        /\ Range(Without(returned, p)) = {e \in Range(returned) : e[1] # p}
    BY <1>5, WithoutHas
  <2> QED BY <1>5, <2>1
<1>7. /\ doing' = [doing EXCEPT ![t] = d] /\ arena' = [arena EXCEPT ![p].cnt = arena[p].cnt + 1]
      /\ free_list' = [free_list EXCEPT ![c] = new] /\ UNCHANGED <<owner, held>>
      /\ taken' = IF full THEN taken \ {p} ELSE taken
  BY <1>3 DEF MemRelease, Goto, block2arena
<1>8. \A u \in Caller : u # t /\ doing[u].pc \in {"split", "pop"} => doing[u].class # c
  BY <1>1, OneInSection
<1>9. PICK n \in Nat : n = blocks_per_arena[c] /\ n > 0
  BY <1>1, BlocksNat
<1>10. d \in DoingType /\ d.pc = "reread" /\ d.class = c /\ d.block = b
  BY <1>1 DEF Call, DoingType, HeapSteps
<1>11. StepCall(t, c, new, d)
  <2> HIDE DEF d, new
  <2> QED BY <1>1, <1>6, <1>7, <1>8, <1>10 DEF StepCall
<1>12. \A q \in HeapPage : q \in taken /\ arena[q].p_mem_block = c =>
            \A i \in 0..(blocks_per_arena[c] - 1) :
                \/ <<q, i>> \in held \cup Range(list)
                \/ \E u \in Caller : Carried(u) /\ doing[u].block = <<q, i>>
  BY <1>1, BlocksAre
<1>13. \A q \in HeapPage : q \in taken /\ arena[q].p_mem_block = c =>
            LET F == {e \in Range(list) : e[1] = q}
            IN  /\ F \subseteq SlotsOf(q, c) /\ IsFiniteSet(F)
                /\ Cardinality(F) = arena[q].cnt /\ arena[q].cnt \in Nat
                /\ arena[q].cnt # blocks_per_arena[c]
  BY <1>1, <1>8, FreeCount
<1>14. \A k \in Class : k # c => \A e \in Range(free_list[k]) : e[1] # p
  BY <1>3, ListedIs DEF BlockOf
<1>15. \A e \in Range(list) : BlockOf(e, c) /\ e \notin held /\ \A u \in Caller : Carried(u) => doing[u].block # e
  BY <1>1, ListedIs
<1>16. c # NULL
  BY <1>1, HeapConstants
<1> HIDE DEF d, new, list, returned, G
\* The free blocks of the arena and the one that comes back.
<1>17. /\ IsFiniteSet(G) /\ G \subseteq SlotsOf(p, c) /\ Cardinality(G) = arena[p].cnt + 1
       /\ arena[p].cnt \in Nat /\ arena[p].cnt + 1 <= n
       /\ full => G = SlotsOf(p, c)
  <2> DEFINE F == {e \in Range(list) : e[1] = p}
  <2>1. /\ F \subseteq SlotsOf(p, c) /\ IsFiniteSet(F) /\ Cardinality(F) = arena[p].cnt /\ arena[p].cnt \in Nat
    BY <1>3, <1>13
  <2>2. G = F \cup {b} /\ b \notin F
    BY <1>4, <1>5 DEF G
  <2>3. IsFiniteSet(SlotsOf(p, c)) /\ Cardinality(SlotsOf(p, c)) = n
    BY <1>1, <1>9, SlotsCount
  <2> HIDE DEF F, p, c, b
  <2>4. IsFiniteSet(G) /\ Cardinality(G) = arena[p].cnt + 1
    BY <2>1, <2>2, FS_AddElement
  <2>5. G \in SUBSET SlotsOf(p, c)
    BY <1>3, <2>1, <2>2
  <2>6. Cardinality(G) <= n /\ (Cardinality(SlotsOf(p, c)) = Cardinality(G) => G = SlotsOf(p, c))
    BY <2>3, <2>5, FS_Subset
  <2> QED BY <1>9, <2>1, <2>3, <2>4, <2>5, <2>6
<1>18. /\ arena' \in [HeapPage -> ArenaType] /\ arena'[p].cnt = arena[p].cnt + 1
       /\ arena'[p].p_mem_block = c /\ ~arena'[p].is_page_cnt
       /\ \A q \in HeapPage : q # p => arena'[q] = arena[q]
  <2>1. arena \in [HeapPage -> ArenaType] /\ arena[p] \in ArenaType /\ arena[p].cnt + 1 \in Nat
    BY <1>1, <1>3, <1>17, ArenaTypes DEF HeapTypes
  <2> HIDE DEF c, p
  <2> QED BY <1>3, <1>7, <2>1 DEF ArenaType
\* Nobody has a block of an arena that becomes full.
<1>19. full => /\ \A e \in held : e[1] # p
               /\ \A u \in Caller : u # t /\ Carried(u) => doing[u].block[1] # p
  <2>1. \A e : full /\ e \in SlotsOf(p, c) => e \in Range(list) \/ e = b
    BY <1>5, <1>17 DEF G
  <2>2. \A e, k : k \in Class /\ BlockOf(e, k) /\ e[1] = p => e \in SlotsOf(p, c)
    <3>1. \A e, k : k \in Class /\ BlockOf(e, k) /\ e[1] = p => k = c
      BY <1>3 DEF BlockOf
    <3> QED BY <3>1, BlockSlot
  <2>3. ASSUME full, NEW e \in held PROVE e[1] # p
    <3>1. SUFFICES ASSUME e[1] = p PROVE FALSE
      OBVIOUS
    <3>2. PICK k \in Class : BlockOf(e, k)
      BY <1>3, <3>1, HeldIs DEF Large
    <3>3. e \in Range(list) \/ e = b
      BY <2>1, <2>2, <2>3, <3>1, <3>2
    <3> QED BY <1>3, <1>15, <3>3
  <2>4. ASSUME full, NEW u \in Caller, u # t, Carried(u) PROVE doing[u].block[1] # p
    <3>1. SUFFICES ASSUME doing[u].block[1] = p PROVE FALSE
      OBVIOUS
    <3>2. doing[u].class \in Class /\ BlockOf(doing[u].block, doing[u].class)
      BY <2>4, CarriedIs
    <3>3. doing[u].block \in Range(list) \/ doing[u].block = b
      BY <2>1, <2>2, <2>4, <3>1, <3>2
    <3> QED BY <1>3, <1>15, <2>4, <3>3
  <2> QED BY <2>3, <2>4
<1> HIDE DEF full, p, b, c
<1>20. taken' \subseteq taken /\ taken \ {p} \subseteq taken' /\ (~full => taken' = taken) /\ (full => p \notin taken')
  BY <1>7
<1>21. StepPages(t, c, p)
  <2>1. \A h \in held : Large(h) => p \notin RunOf(h[1])
    BY <1>3, <1>16, HeldIs
  <2>2. \A u \in Caller : doing[u].pc = "split" => doing[u].block[1] # p
    <3>1. \A u \in Caller : doing[u].pc = "split" => arena[doing[u].block[1]] = Zeroed
      BY <1>1 DEF Splits
    <3>2. arena[p] # Zeroed
      BY <1>3, <1>16 DEF Zeroed
    <3> QED BY <3>1, <3>2
  <2> QED BY <1>9, <1>17, <1>18, <1>20, <2>1, <2>2 DEF StepPages
<1>22. \A e, k : k \in Class /\ BlockOf(e, k) /\ (full => e[1] # p) => BlockThen(e, k)
  <2> SUFFICES ASSUME NEW e, NEW k \in Class, BlockOf(e, k), full => e[1] # p
               PROVE  BlockThen(e, k)
    OBVIOUS
  <2>1. e \in Block /\ e[1] \in HeapPage /\ e[1] \in taken
    BY BlockSlot DEF BlockOf
  <2>2. arena'[e[1]].p_mem_block = arena[e[1]].p_mem_block /\ (arena'[e[1]].is_page_cnt <=> arena[e[1]].is_page_cnt)
    <3>1. CASE e[1] = p
      BY <1>3, <1>18, <3>1
    <3>2. CASE e[1] # p
      BY <1>18, <2>1, <3>2
    <3> QED BY <3>1, <3>2
  <2>3. e[1] \in taken'
    BY <1>20, <2>1
  <2> QED BY <2>2, <2>3 DEF BlockOf, BlockThen
<1>23. Range(new) \subseteq Range(list) \cup {b} /\ \A e \in Range(new) : full => e[1] # p
  BY <1>5, <1>6
<1>24. StepBlocks(t, c, p, new, d)
  <2>1. \A e \in Range(new) : BlockThen(e, c)
    BY <1>1, <1>3, <1>15, <1>22, <1>23
  <2>2. \A e \in held : e \notin Range(new) /\ (e[1] = p => BlockThen(e, c))
    <3> SUFFICES ASSUME NEW e \in held PROVE e \notin Range(new) /\ (e[1] = p => BlockThen(e, c))
      OBVIOUS
    <3>1. e \notin Range(new)
      BY <1>3, <1>15, <1>23
    <3>2. ASSUME e[1] = p PROVE BlockThen(e, c)
      <4>1. PICK k \in Class : BlockOf(e, k)
        BY <1>3, <3>2, HeldIs DEF Large
      <4>2. k = c
        BY <1>3, <3>2, <4>1 DEF BlockOf
      <4> QED BY <1>19, <1>22, <3>2, <4>1, <4>2
    <3> QED BY <3>1, <3>2
  <2>3. \A u \in Caller : u # t /\ Carried(u) =>
          doing[u].block \notin Range(new) /\ BlockThen(doing[u].block, doing[u].class)
    <3> SUFFICES ASSUME NEW u \in Caller, u # t, Carried(u)
                 PROVE  doing[u].block \notin Range(new) /\ BlockThen(doing[u].block, doing[u].class)
      OBVIOUS
    <3>1. doing[u].class \in Class /\ BlockOf(doing[u].block, doing[u].class)
      BY CarriedIs
    <3> QED BY <1>3, <1>15, <1>19, <1>22, <1>23, <3>1
  <2> QED BY <1>10, <1>14, <2>1, <2>2, <2>3 DEF StepBlocks
<1>25. StepCounts(t, c, new, d)
  <2> SUFFICES ASSUME NEW q \in HeapPage, q \in taken', arena'[q].p_mem_block = c
               PROVE  /\ arena'[q].cnt = Cardinality({e \in Range(new) : e[1] = q})
                      /\ arena'[q].cnt # blocks_per_arena[c]
                      /\ \A i \in 0..(blocks_per_arena[c] - 1) :
                            \/ <<q, i>> \in held \cup Range(new)
                            \/ \E u \in Caller : u # t /\ Carried(u) /\ doing[u].block = <<q, i>>
    BY DEF StepCounts
  <2>1. q \in taken /\ arena[q].p_mem_block = c
    BY <1>3, <1>18, <1>20
  <2>2. {e \in Range(new) : e[1] = q} = {e \in Range(returned) : e[1] = q}
    BY <1>6, <1>20
  <2>3. \A i \in 0..(blocks_per_arena[c] - 1) :
            \/ <<q, i>> \in held \cup Range(new)
            \/ \E u \in Caller : u # t /\ Carried(u) /\ doing[u].block = <<q, i>>
    <3> SUFFICES ASSUME NEW i \in 0..(blocks_per_arena[c] - 1)
                 PROVE  \/ <<q, i>> \in held \cup Range(new)
                        \/ \E u \in Caller : u # t /\ Carried(u) /\ doing[u].block = <<q, i>>
      OBVIOUS
    <3>1. \/ <<q, i>> \in held \cup Range(list)
          \/ \E u \in Caller : Carried(u) /\ doing[u].block = <<q, i>>
      BY <1>12, <2>1
    <3>2. <<q, i>> \in Range(returned) => <<q, i>> \in Range(new)
      <4>1. <<q, i>>[1] = q
        OBVIOUS
      <4> QED BY <2>2, <4>1
    <3>3. doing[t].block = b
      BY DEF b
    <3> QED BY <1>5, <3>1, <3>2, <3>3
  <2>4. CASE q = p
    <3>1. ~full
      BY <1>20, <2>4
    <3>2. {e \in Range(returned) : e[1] = q} = G
      BY <2>4 DEF G
    <3>3. Cardinality({e \in Range(new) : e[1] = q}) = arena[p].cnt + 1
      BY <1>17, <2>2, <3>2
    <3>4. arena'[q].cnt = arena[p].cnt + 1 /\ arena[p].cnt + 1 # blocks_per_arena[c]
      BY <1>18, <2>4, <3>1 DEF full
    <3> QED BY <2>3, <3>3, <3>4
  <2>5. CASE q # p
    <3>1. {e \in Range(returned) : e[1] = q} = {e \in Range(list) : e[1] = q} /\ arena'[q] = arena[q]
      BY <1>5, <1>18, <2>5 DEF p
    <3>2. Cardinality({e \in Range(list) : e[1] = q}) = arena[q].cnt /\ arena[q].cnt # blocks_per_arena[c]
      BY <1>13, <2>1
    <3> QED BY <2>2, <2>3, <3>1, <3>2
  <2> QED BY <2>4, <2>5
<1> QED BY <1>1, <1>3, <1>11, <1>21, <1>24, <1>25, ListStepKeeps
-----------------------------------------------------------------------------
\* The thread in the section of a class is the owner of its mutex.
OwnersInside == \A t \in Caller : InSection(t) => owner[doing[t].class] = t

\* The arena that sys_free reads again before it unlocks is not another class's.
RereadsOwn ==
    \A t \in Caller : doing[t].pc = "reread" =>
        arena[doing[t].block[1]].p_mem_block \in {NULL, doing[t].class}

LEMMA OwnersExclude ==
    ASSUME OwnersInside
    PROVE  ClassExclusion
BY DEF OwnersInside, ClassExclusion

LEMMA HeapInits ==
    ASSUME HeapInit
    PROVE  HeapInv /\ OwnersInside
<1>1. /\ taken = {} /\ arena = [p \in HeapPage |-> Zeroed] /\ free_list = [c \in Class |-> <<>>]
      /\ owner = [c \in Class |-> NULL] /\ held = {} /\ doing = [t \in Caller |-> NoCall]
  BY DEF HeapInit
<1>2. NoCall \in DoingType /\ NoCall.pc = "idle" /\ Pages \in Nat
      /\ Zeroed \in ArenaType /\ Zeroed.p_mem_block = NULL /\ Zeroed.cnt = 0
  BY HeapConstants DEF NoCall, DoingType, HeapSteps, Zeroed, ArenaType
<1>3. \A c \in Class : free_list[c] = <<>> /\ free_list[c] \in Seq(Block) /\ Len(free_list[c]) = 0 /\ 1..Len(free_list[c]) = {}
  BY <1>1, EmptySeq
<1>4. HeapTypes
  <2>1. free_list \in [Class -> Seq(Block)]
    BY <1>1, EmptySeq
  <2> QED BY <1>1, <1>2, <2>1 DEF HeapTypes
<1>5. \A t \in Caller : doing[t].pc = "idle"
  BY <1>1, <1>2
<1>6. LargeRuns /\ HeldOnce
  BY <1>1 DEF LargeRuns, HeldOnce
<1>7. FreeLists
  BY <1>3 DEF FreeLists, Distinct
<1>8. CarriedOnce /\ CallsBlock /\ Splits /\ OwnersInside
  BY <1>5 DEF CarriedOnce, CallsBlock, Splits, OwnersInside, Carried, InSection
<1>9. Complete /\ ArenaCount
  BY <1>1 DEF Complete, ArenaCount, IsArena
<1> QED BY <1>4, <1>6, <1>7, <1>8, <1>9 DEF HeapInv

LEMMA HeapGoesOn ==
    ASSUME HeapInv, ClassExclusion, HeapNext
    PROVE  HeapInv'
<1>1. PICK t \in Caller :
        \/ \E p \in HeapPage, cnt \in 1..MaxPages : MallocPages(t, p, cnt)
        \/ \E c \in Class : MallocLock(t, c)
        \/ doing[t].pc = "acquire" /\ ((\E p \in HeapPage : Refill(t, p)) \/ RefillFails(t))
        \/ Split(t)
        \/ doing[t].pc \in {"acquire", "pop"} /\ Pop(t)
        \/ MallocUnlock(t)
        \/ \E b \in held : FreePages(t, b) \/ FreeBlock(t, b)
        \/ doing[t].pc = "lock" /\ FreeLock(t)
        \/ MemRelease(t) \/ FreeUnlock(t) \/ FreeFault(t)
  BY Zenon DEF HeapNext
<1>2. CASE \E p \in HeapPage, cnt \in 1..MaxPages : MallocPages(t, p, cnt)
  BY <1>2, MallocPagesKeeps
<1>3. CASE doing[t].pc = "acquire" /\ \E p \in HeapPage : Refill(t, p)
  BY <1>3, RefillKeeps
<1>4. CASE Split(t)
  BY <1>4, SplitKeeps
<1>5. CASE doing[t].pc \in {"acquire", "pop"} /\ Pop(t)
  BY <1>5, PopKeeps
<1>6. CASE MallocUnlock(t)
  BY <1>6, MallocUnlockKeeps
<1>7. CASE \E b \in held : FreePages(t, b)
  BY <1>7, FreePagesKeeps
<1>8. CASE \E b \in held : FreeBlock(t, b)
  BY <1>8, FreeBlockKeeps
<1>9. CASE MemRelease(t)
  BY <1>9, MemReleaseKeeps
<1>10. CASE \/ \E c \in Class : MallocLock(t, c)
            \/ doing[t].pc = "acquire" /\ RefillFails(t)
            \/ doing[t].pc = "lock" /\ FreeLock(t)
            \/ FreeUnlock(t) \/ FreeFault(t)
  BY <1>10, GoingOn
<1> QED BY <1>1, <1>2, <1>3, <1>4, <1>5, <1>6, <1>7, <1>8, <1>9, <1>10, Zenon

\* A thread enters the section with the mutex free, and its own is the only one
\* that it gives up.
LEMMA OwnersStay ==
    ASSUME HeapTypes, OwnersInside, RereadsOwn, HeapNext
    PROVE  OwnersInside'
<1>1. owner \in [Class -> Caller \cup {NULL}] /\ doing \in [Caller -> DoingType] /\ NULL \notin Class /\ NULL \notin Caller
  BY HeapAssumption DEF HeapTypes
<1>2. PICK t \in Caller :
        \/ \E p \in HeapPage, cnt \in 1..MaxPages : MallocPages(t, p, cnt)
        \/ \E c \in Class : MallocLock(t, c)
        \/ doing[t].pc = "acquire" /\ ((\E p \in HeapPage : Refill(t, p)) \/ RefillFails(t))
        \/ Split(t)
        \/ doing[t].pc \in {"acquire", "pop"} /\ Pop(t)
        \/ MallocUnlock(t)
        \/ \E b \in held : FreePages(t, b) \/ FreeBlock(t, b)
        \/ doing[t].pc = "lock" /\ FreeLock(t)
        \/ MemRelease(t) \/ FreeUnlock(t) \/ FreeFault(t)
  BY Zenon DEF HeapNext
<1>0. \A pc, c, b : Call(pc, c, b).pc = pc /\ Call(pc, c, b).class = c
  BY DEF Call
\* A thread goes on inside or outside.
<1>3. ASSUME UNCHANGED owner, NEW d, doing' = [doing EXCEPT ![t] = d],
             d.pc \in {"lock", "fault"} \/ (InSection(t) /\ d.class = doing[t].class)
      PROVE  OwnersInside'
  <2>1. doing'[t] = d /\ \A u \in Caller : u # t => doing'[u] = doing[u]
    BY <1>1, <1>3
  <2> QED BY <1>3, <2>1 DEF OwnersInside, InSection
\* A thread enters.
<1>4. ASSUME NEW c \in Class, NEW d, owner[c] = NULL, owner' = [owner EXCEPT ![c] = t],
             doing' = [doing EXCEPT ![t] = d], d.class = c, ~InSection(t)
      PROVE  OwnersInside'
  <2>1. doing'[t] = d /\ \A u \in Caller : u # t => doing'[u] = doing[u]
    BY <1>1, <1>4
  <2>2. owner'[c] = t /\ \A k \in Class : k # c => owner'[k] = owner[k]
    BY <1>1, <1>4
  <2>3. ASSUME NEW u \in Caller, u # t, InSection(u)
        PROVE  doing[u].class \in Class /\ doing[u].class # c /\ owner[doing[u].class] = u
    <3>1. doing[u].class \in Class
      BY <2>3, DoingIs DEF InSection
    <3> QED BY <1>1, <1>4, <2>3, <3>1 DEF OwnersInside
  <2> QED BY <1>4, <2>1, <2>2, <2>3 DEF OwnersInside, InSection
\* A thread leaves.
<1>5. ASSUME InSection(t), doing' = [doing EXCEPT ![t] = NoCall],
             owner' = owner \/ owner' = [owner EXCEPT ![doing[t].class] = NULL]
      PROVE  OwnersInside'
  <2>1. doing'[t] = NoCall /\ NoCall.pc = "idle" /\ \A u \in Caller : u # t => doing'[u] = doing[u]
    BY <1>1, <1>5 DEF NoCall
  <2>2. \A k \in Class : k # doing[t].class => owner'[k] = owner[k]
    BY <1>1, <1>5
  <2>3. ASSUME NEW u \in Caller, u # t, InSection(u)
        PROVE  doing[u].class \in Class /\ doing[u].class # doing[t].class /\ owner[doing[u].class] = u
    <3>1. doing[u].class \in Class
      BY <2>3, DoingIs DEF InSection
    <3> QED BY <1>5, <2>3, <3>1 DEF OwnersInside
  <2> QED BY <2>1, <2>2, <2>3 DEF OwnersInside, InSection
<1>6. doing[t].pc \in {"acquire", "split", "pop", "unlock", "release", "reread"} => InSection(t) /\ doing[t].class \in Class
  BY DoingIs DEF InSection
<1>7. CASE \/ \E p \in HeapPage, cnt \in 1..MaxPages : MallocPages(t, p, cnt)
           \/ \E b \in held : FreePages(t, b)
  <2>1. UNCHANGED <<owner, doing>>
    BY <1>7 DEF MallocPages, FreePages
  <2> QED BY <2>1 DEF OwnersInside, InSection
<1>8. CASE \E b \in held : FreeBlock(t, b)
  <2>1. PICK b \in held : FreeBlock(t, b)
    BY <1>8
  <2> DEFINE d == Call("lock", arena[b[1]].p_mem_block, b)
  <2>2. doing' = [doing EXCEPT ![t] = d] /\ UNCHANGED owner
    BY <2>1 DEF FreeBlock, block2arena
  <2>3. d.pc = "lock"
    BY <1>0
  <2> HIDE DEF d
  <2> QED BY <1>3, <2>2, <2>3
<1>9. CASE FreeFault(t)
  <2> DEFINE d == Call("fault", doing[t].class, NoBlock)
  <2>1. doing' = [doing EXCEPT ![t] = d] /\ UNCHANGED owner
    BY <1>9 DEF FreeFault, Goto
  <2>2. d.pc = "fault"
    BY <1>0
  <2> HIDE DEF d
  <2> QED BY <1>3, <2>1, <2>2
<1>10. CASE doing[t].pc = "acquire" /\ ((\E p \in HeapPage : Refill(t, p)) \/ RefillFails(t))
  <2>1. PICK pc, b : doing' = [doing EXCEPT ![t] = Call(pc, doing[t].class, b)] /\ UNCHANGED owner
    BY <1>10, Zenon DEF Refill, RefillFails, Goto
  <2> DEFINE d == Call(pc, doing[t].class, b)
  <2>2. d.class = doing[t].class /\ doing' = [doing EXCEPT ![t] = d]
    BY <1>0, <2>1
  <2> HIDE DEF d
  <2> QED BY <1>3, <1>6, <1>10, <2>1, <2>2
<1>11. CASE Split(t)
  <2> DEFINE d == Call("pop", doing[t].class, NoBlock)
  <2>1. doing' = [doing EXCEPT ![t] = d] /\ UNCHANGED owner /\ doing[t].pc = "split"
    BY <1>11 DEF Split, Goto
  <2>2. d.class = doing[t].class
    BY <1>0
  <2> HIDE DEF d
  <2> QED BY <1>3, <1>6, <2>1, <2>2
<1>12. CASE doing[t].pc \in {"acquire", "pop"} /\ Pop(t)
  <2> DEFINE d == Call("unlock", doing[t].class, Head(free_list[doing[t].class]))
  <2>1. doing' = [doing EXCEPT ![t] = d] /\ UNCHANGED owner
    BY <1>12 DEF Pop
  <2>2. d.class = doing[t].class
    BY <1>0
  <2> HIDE DEF d
  <2> QED BY <1>3, <1>6, <1>12, <2>1, <2>2
<1>13. CASE MemRelease(t)
  <2> DEFINE d == Call("reread", doing[t].class, doing[t].block)
  <2>1. doing' = [doing EXCEPT ![t] = d] /\ UNCHANGED owner /\ doing[t].pc = "release"
    BY <1>13, Zenon DEF MemRelease, Goto
  <2>2. d.class = doing[t].class
    BY <1>0
  <2> HIDE DEF d
  <2> QED BY <1>3, <1>6, <2>1, <2>2
<1>14. CASE \E c \in Class : MallocLock(t, c)
  <2>1. PICK c \in Class : MallocLock(t, c)
    BY <1>14
  <2> DEFINE d == Call("acquire", c, NoBlock)
  <2>2. doing' = [doing EXCEPT ![t] = d] /\ owner[c] = NULL /\ owner' = [owner EXCEPT ![c] = t]
    BY <2>1 DEF MallocLock
  <2>3. ~InSection(t) /\ d.class = c
    BY <2>1, <1>0 DEF MallocLock, NoCall, InSection
  <2> HIDE DEF d
  <2> QED BY <1>4, <2>2, <2>3
<1>15. CASE doing[t].pc = "lock" /\ FreeLock(t)
  <2> DEFINE c == doing[t].class
             d == Call("release", c, doing[t].block)
  <2>1. ~InSection(t) /\ c \in Class /\ d.class = c
    BY <1>0, <1>15, DoingIs DEF InSection
  <2>2. doing' = [doing EXCEPT ![t] = d] /\ owner[c] = NULL /\ owner' = [owner EXCEPT ![c] = t]
    BY <1>15 DEF FreeLock, Goto
  <2> HIDE DEF d, c
  <2> QED BY <1>4, <2>1, <2>2
<1>16. CASE MallocUnlock(t)
  BY <1>5, <1>6, <1>16 DEF MallocUnlock, Goto
<1>17. CASE FreeUnlock(t)
  <2>1. arena[doing[t].block[1]].p_mem_block \in {NULL, doing[t].class}
    BY <1>17 DEF RereadsOwn, FreeUnlock, Goto
  <2> QED BY <1>5, <1>6, <1>17, <2>1 DEF FreeUnlock, Goto, block2arena
<1> QED BY <1>2, <1>7, <1>8, <1>9, <1>10, <1>11, <1>12, <1>13, <1>14, <1>15, <1>16, <1>17, Zenon

LEMMA HeapStutters ==
    ASSUME HeapInv, OwnersInside, UNCHANGED heapvars
    PROVE  HeapInv' /\ OwnersInside'
<1>1. UNCHANGED <<taken, arena, free_list, owner, held, doing>>
  BY DEF heapvars
<1>2. HeapTypes' /\ LargeRuns' /\ FreeLists'
  BY <1>1 DEF HeapInv, HeapTypes, LargeRuns, FreeLists, Large, RunOf, BlockOf
<1>3. HeldOnce' /\ CarriedOnce'
  BY <1>1 DEF HeapInv, HeldOnce, CarriedOnce, Carried, OnList, Large, BlockOf
<1>4. CallsBlock' /\ Splits'
  BY <1>1 DEF HeapInv, CallsBlock, Splits, Large, RunOf
<1>5. Complete' /\ ArenaCount'
  <2>1. (\A b : OnList(b)' <=> OnList(b)) /\ (\A b : InTransit(b)' <=> InTransit(b))
        /\ \A p : IsArena(p)' <=> IsArena(p)
    BY <1>1 DEF OnList, InTransit, IsArena
  <2>2. Complete /\ ArenaCount
    BY DEF HeapInv
  <2>3. Complete'
    BY <1>1, <2>1, <2>2 DEF Complete
  <2>4. ArenaCount'
    BY <1>1, <2>1, <2>2 DEF ArenaCount
  <2> QED BY <2>3, <2>4
<1>6. OwnersInside'
  BY <1>1 DEF OwnersInside, InSection
<1> QED BY <1>2, <1>3, <1>4, <1>5, <1>6 DEF HeapInv

LEMMA HeapInvIs ==
    ASSUME HeapInv
    PROVE  BlocksAccounted /\ ArenaCount
<1>1. HeapTypes /\ FreeLists /\ HeldOnce /\ Complete /\ ArenaCount
  BY DEF HeapInv
<1>2. HeapTypeOK
  <2>1. \A p \in HeapPage : arena[p].p_mem_block \in Class \cup {NULL} /\ arena[p].cnt \in Nat
    BY <1>1, ArenaTypes
  <2>2. \A p \in HeapPage : arena[p].cnt \in
            0..(IF arena[p].p_mem_block = NULL THEN Pages ELSE blocks_per_arena[arena[p].p_mem_block])
    <3>1. \A c \in Class : blocks_per_arena[c] \in Nat
      BY HeapConstants
    <3>2. Pages \in Nat
      BY HeapConstants
    <3> QED BY <1>1, <2>1, <3>1, <3>2 DEF HeapTypes
  <2>3. \A c \in Class : \A i \in DOMAIN free_list[c] : free_list[c][i] \in Block
    BY <1>1, ListsAre
  <2>4. \A t \in Caller : doing[t].class \in Class \cup {NULL}
    BY <1>1, DoingIs
  <2> QED BY <1>1, <2>1, <2>2, <2>3, <2>4 DEF HeapTypes, HeapTypeOK
<1>3. \A c \in Class : IsInjective(free_list[c])
  BY <1>1, ListsAre DEF FreeLists, Distinct, IsInjective
<1>4. \A c \in Class : \A i \in DOMAIN free_list[c] :
          LET b == free_list[c][i]
          IN  IsArena(b[1]) /\ arena[b[1]].p_mem_block = c /\ b[2] < blocks_per_arena[c]
  BY <1>1, ListsAre, HeapConstants DEF FreeLists, BlockOf, IsArena
<1>5. \A b \in held : b[1] \in taken /\ ~OnList(b) /\ ~InTransit(b)
  BY HeldIs, <1>1, TransitIs
<1> QED BY <1>1, <1>2, <1>3, <1>4, <1>5 DEF BlocksAccounted, Complete

LEMMA HeapInvariant == HeapSpec /\ []RereadsOwn => [](HeapInv /\ OwnersInside)
<1>1. HeapInit => HeapInv /\ OwnersInside
  BY HeapInits
<1>2. HeapInv /\ OwnersInside /\ RereadsOwn /\ [HeapNext]_heapvars => HeapInv' /\ OwnersInside'
  <2> SUFFICES ASSUME HeapInv, OwnersInside, RereadsOwn, [HeapNext]_heapvars
               PROVE  HeapInv' /\ OwnersInside'
    OBVIOUS
  <2>1. HeapTypes /\ ClassExclusion
    BY OwnersExclude DEF HeapInv
  <2>2. CASE HeapNext
    BY <2>1, <2>2, HeapGoesOn, OwnersStay
  <2>3. CASE UNCHANGED heapvars
    BY <2>3, HeapStutters
  <2> QED BY <2>2, <2>3
<1> QED BY <1>1, <1>2, PTL DEF HeapSpec

\* memory.h:129: the mutex of a class serialises its free list, unless sys_free
\* reads another class's arena when it unlocks.
THEOREM HeapExclusion == HeapSpec /\ []RereadsOwn => []ClassExclusion
<1>1. HeapInv /\ OwnersInside => ClassExclusion
  BY OwnersExclude
<1> QED BY <1>1, HeapInvariant, PTL

\* Then every block is on its free list once, or has one holder, whatever the
\* threads, the classes, the sizes of the arenas and the pages are.
THEOREM HeapAccounts == HeapSpec /\ []RereadsOwn => []BlocksAccounted
<1>1. HeapInv /\ OwnersInside => BlocksAccounted
  BY HeapInvIs
<1> QED BY <1>1, HeapInvariant, PTL

\* And the count of an arena is right, and an arena with no block in use goes
\* back to the pages before the class's mutex does.
THEOREM HeapCounts == HeapSpec /\ []RereadsOwn => []ArenaCount
<1>1. HeapInv /\ OwnersInside => ArenaCount
  BY HeapInvIs
<1> QED BY <1>1, HeapInvariant, PTL
=============================================================================
