----------------------- MODULE ContextTokenBudgetProofs -----------------------
(***************************************************************************)
(* The context token budget, for every pool, page size and number of        *)
(* requests: the extents partition the pool, the free list is merged, and   *)
(* first fit on the list is first fit on a bitmap of slots.                 *)
(***************************************************************************)
EXTENDS ContextTokenBudget, QueueLemmas

-----------------------------------------------------------------------------
(* Lists of extents *)

ProperList(list) == list \in Seq(Extent) /\ \A i \in DOMAIN list : Proper(list[i])

Apart(list) == \A i, j \in DOMAIN list : i < j => End(list[i]) < list[j].base

SlotsOf(list) == {t \in Slot : \E i \in DOMAIN list : Covers(list[i], t)}

Stretch(e) == {t \in Slot : Covers(e, t)}

(* Numbers that are small enough to be read off an assumption.              *)
LEMMA Sizes ==
  /\ MaxTokens \in Nat /\ MaxTokens > 0
  /\ PageTokens \in Nat /\ PageTokens > 0
  /\ MaxActive \in Nat /\ MaxActive > 0
BY BudgetAssumption DEF BudgetAssumption

LEMMA ProperExtent ==
  ASSUME NEW e, Proper(e)
  PROVE  /\ e = [base |-> e.base, tokens |-> e.tokens]
         /\ e.base \in Nat /\ e.tokens \in Nat /\ e.tokens > 0
         /\ End(e) \in Nat /\ e.base < End(e) /\ End(e) <= MaxTokens
BY Sizes DEF Proper, Extent, End

LEMMA WholePages ==
  ASSUME NEW a \in Nat, NEW b \in Nat, Whole(a), Whole(b)
  PROVE  /\ a + b <= MaxTokens => Whole(a + b)
         /\ b <= a => Whole(a - b)
<1>1. PICK i \in 0..MaxTokens, j \in 0..MaxTokens : a = i * PageTokens /\ b = j * PageTokens
  BY DEF Whole
<1>2. i \in Nat /\ j \in Nat
  BY Sizes, <1>1
<1>3. a + b = (i + j) * PageTokens /\ a - b = (i - j) * PageTokens
  BY Sizes, <1>1, <1>2
<1>4. \A k \in Nat : k <= k * PageTokens
  BY Sizes
<1>5. b <= a => j <= i
  <2>1. j > i => j * PageTokens > i * PageTokens
    BY Sizes, <1>2
  <2> QED BY Sizes, <1>1, <1>2, <2>1
<1>6. ASSUME a + b <= MaxTokens PROVE Whole(a + b)
  <2>1. i + j <= (i + j) * PageTokens
    BY <1>2, <1>4
  <2>2. i + j \in 0..MaxTokens
    BY Sizes, <1>2, <1>3, <1>6, <2>1
  <2> QED BY <1>3, <2>2 DEF Whole
<1>7. ASSUME b <= a PROVE Whole(a - b)
  <2>1. i - j \in 0..MaxTokens
    BY Sizes, <1>1, <1>2, <1>5, <1>7
  <2> QED BY <1>3, <2>1 DEF Whole
<1> QED BY <1>6, <1>7

(* What is reserved for n tokens.                                           *)
LEMMA RoundedIsWhole ==
  ASSUME NEW n \in 1..MaxTokens
  PROVE  /\ Rounded(n) \in Nat /\ Rounded(n) > 0
         /\ Rounded(n) <= MaxTokens => Whole(Rounded(n))
<1> DEFINE q == (n + PageTokens - 1) \div PageTokens
<1>1. n \in Nat /\ n > 0 /\ n + PageTokens - 1 \in Nat /\ n + PageTokens - 1 >= PageTokens
  BY Sizes
<1>2. q \in Nat
  BY Sizes, <1>1
<1>3. q > 0
  BY Sizes, <1>1, SMTT(30)
<1>4. Rounded(n) = q * PageTokens
  BY DEF Rounded
<1> HIDE DEF q
<1>5. Rounded(n) \in Nat /\ Rounded(n) >= q
  BY Sizes, <1>2, <1>4
<1>6. Rounded(n) <= MaxTokens => q \in 0..MaxTokens
  BY Sizes, <1>2, <1>5
<1> QED BY <1>2, <1>3, <1>4, <1>5, <1>6 DEF Whole

(* A finite set of numbers has a least and a greatest element.              *)
LEMMA Bounded ==
  ASSUME NEW S, S \subseteq Nat, IsFiniteSet(S), S # {}
  PROVE  /\ \E m \in S : \A x \in S : m <= x
         /\ \E m \in S : \A x \in S : x <= m
<1> DEFINE a == Ascending(S)
<1>1. a \in Seq(Nat) /\ Sorted(a) /\ ToSet(a) = S
  BY AscendingIsSorted
<1> HIDE DEF a
<1>2. Len(a) \in Nat /\ DOMAIN a = 1..Len(a) /\ a \in [1..Len(a) -> Nat]
  BY <1>1, LenProperties
<1>3. Len(a) > 0
  BY <1>1, <1>2 DEF ToSet
<1>4. 1 \in DOMAIN a /\ Len(a) \in DOMAIN a
  BY <1>2, <1>3
<1>5. \A i \in DOMAIN a : a[1] <= a[i] /\ a[i] <= a[Len(a)]
  BY <1>1, <1>2, <1>4 DEF Sorted
<1> QED BY <1>1, <1>4, <1>5 DEF ToSet

(* Two extents without a slot in common lie one after the other.            *)
LEMMA OneAfterTheOther ==
  ASSUME NEW e, NEW f, Proper(e), Proper(f), Stretch(e) \cap Stretch(f) = {}
  PROVE  End(e) <= f.base \/ End(f) <= e.base
<1> DEFINE t == IF e.base <= f.base THEN f.base ELSE e.base
<1>1. /\ e.base \in Nat /\ f.base \in Nat /\ End(e) \in Nat /\ End(f) \in Nat
      /\ e.base < End(e) /\ f.base < End(f)
      /\ End(e) <= MaxTokens /\ End(f) <= MaxTokens
  BY ProperExtent
<1>2. SUFFICES ASSUME ~(End(e) <= f.base), ~(End(f) <= e.base) PROVE FALSE
  OBVIOUS
<1>3. t \in Slot /\ Covers(e, t) /\ Covers(f, t)
  BY Sizes, <1>1, <1>2 DEF Slot, Covers
<1> QED BY <1>3 DEF Stretch

-----------------------------------------------------------------------------
(* An element taken out of a list and put into one.                         *)
LEMMA Sliced ==
  ASSUME NEW S, NEW q \in Seq(S), NEW a \in 1..(Len(q) + 1), NEW b \in 0..Len(q)
  PROVE  /\ SubSeq(q, a, b) \in Seq(S)
         /\ Len(SubSeq(q, a, b)) = IF a <= b THEN b - a + 1 ELSE 0
         /\ \A i \in 1..(b - a + 1) : SubSeq(q, a, b)[i] = q[a + i - 1]
<1>1. Len(q) \in Nat /\ q \in [1..Len(q) -> S]
  BY LenProperties
<1>2. a \in Int /\ b \in Int /\ \A i \in a..b : q[i] \in S
  BY <1>1
<1> QED BY <1>2, SubSeqProperties

LEMMA Removed ==
  ASSUME NEW S, NEW q \in Seq(S), NEW i \in 1..Len(q)
  PROVE  /\ RemoveAt(q, i) \in Seq(S)
         /\ DOMAIN RemoveAt(q, i) = 1..(Len(q) - 1)
         /\ \A j \in 1..(Len(q) - 1) :
              RemoveAt(q, i)[j] = IF j < i THEN q[j] ELSE q[j + 1]
<1> DEFINE l == SubSeq(q, 1, i - 1)
           r == SubSeq(q, i + 1, Len(q))
<1>1. Len(q) \in Nat /\ i \in Nat /\ 1 <= i /\ i <= Len(q)
  BY LenProperties
<1>2. /\ 1 \in 1..(Len(q) + 1) /\ i - 1 \in 0..Len(q)
      /\ i + 1 \in 1..(Len(q) + 1) /\ Len(q) \in 0..Len(q)
  BY <1>1
<1>3. /\ l \in Seq(S) /\ Len(l) = IF 1 <= i - 1 THEN (i - 1) - 1 + 1 ELSE 0
      /\ \A j \in 1..((i - 1) - 1 + 1) : l[j] = q[1 + j - 1]
  BY <1>2, Sliced
<1>4. /\ r \in Seq(S) /\ Len(r) = IF i + 1 <= Len(q) THEN Len(q) - (i + 1) + 1 ELSE 0
      /\ \A j \in 1..(Len(q) - (i + 1) + 1) : r[j] = q[(i + 1) + j - 1]
  BY <1>2, Sliced
<1>5. RemoveAt(q, i) = l \o r
  BY DEF RemoveAt
<1> HIDE DEF l, r
<1>6. Len(l) = i - 1 /\ Len(r) = Len(q) - i
  BY <1>1, <1>3, <1>4
<1>7. /\ l \o r \in Seq(S) /\ Len(l \o r) = Len(q) - 1
      /\ \A j \in 1..(Len(q) - 1) : (l \o r)[j] = IF j <= i - 1 THEN l[j] ELSE r[j - (i - 1)]
  <2>1. Len(l) + Len(r) = Len(q) - 1
    BY <1>1, <1>6
  <2>2. /\ l \o r \in Seq(S) /\ Len(l \o r) = Len(l) + Len(r)
        /\ \A j \in 1..(Len(l) + Len(r)) :
             (l \o r)[j] = IF j <= Len(l) THEN l[j] ELSE r[j - Len(l)]
    BY <1>3, <1>4, ConcatProperties
  <2> QED BY <1>6, <2>1, <2>2
<1>8. DOMAIN (l \o r) = 1..(Len(q) - 1)
  BY <1>7, LenProperties
<1>9. ASSUME NEW j \in 1..(Len(q) - 1)
      PROVE  (l \o r)[j] = IF j < i THEN q[j] ELSE q[j + 1]
  <2>1. j \in Nat /\ 1 <= j /\ j <= Len(q) - 1
    BY <1>1
  <2>2. CASE j < i
    <3>1. j <= i - 1 /\ j \in 1..((i - 1) - 1 + 1) /\ 1 + j - 1 = j
      BY <1>1, <2>1, <2>2
    <3> QED BY <1>3, <1>7, <2>2, <3>1
  <2>3. CASE ~(j < i)
    <3>1. ~(j <= i - 1) /\ j - (i - 1) \in 1..(Len(q) - (i + 1) + 1)
          /\ (i + 1) + (j - (i - 1)) - 1 = j + 1
      BY <1>1, <2>1, <2>3
    <3> QED BY <1>4, <1>7, <2>3, <3>1
  <2> QED BY <2>2, <2>3
<1> QED BY <1>5, <1>7, <1>8, <1>9

LEMMA Inserted ==
  ASSUME NEW S, NEW q \in Seq(S), NEW i \in 1..(Len(q) + 1), NEW e \in S
  PROVE  /\ InsertAt(q, i, e) \in Seq(S)
         /\ Len(InsertAt(q, i, e)) = Len(q) + 1
         /\ DOMAIN InsertAt(q, i, e) = 1..(Len(q) + 1)
         /\ \A j \in 1..(Len(q) + 1) :
              InsertAt(q, i, e)[j] = IF j < i THEN q[j] ELSE IF j = i THEN e ELSE q[j - 1]
<1> DEFINE l == SubSeq(q, 1, i - 1)
           r == SubSeq(q, i, Len(q))
           m == l \o <<e>>
           s == m \o r
<1>1. Len(q) \in Nat /\ i \in Nat /\ 1 <= i /\ i <= Len(q) + 1
  BY LenProperties
<1>2. 1 \in 1..(Len(q) + 1) /\ i - 1 \in 0..Len(q) /\ Len(q) \in 0..Len(q)
  BY <1>1
<1>3. /\ l \in Seq(S) /\ Len(l) = IF 1 <= i - 1 THEN (i - 1) - 1 + 1 ELSE 0
      /\ \A j \in 1..((i - 1) - 1 + 1) : l[j] = q[1 + j - 1]
  BY <1>2, Sliced
<1>4. /\ r \in Seq(S) /\ Len(r) = IF i <= Len(q) THEN Len(q) - i + 1 ELSE 0
      /\ \A j \in 1..(Len(q) - i + 1) : r[j] = q[i + j - 1]
  BY <1>2, Sliced
<1>5. InsertAt(q, i, e) = s
  BY DEF InsertAt
<1>6. <<e>> \in Seq(S) /\ Len(<<e>>) = 1 /\ <<e>>[1] = e
  OBVIOUS
<1> HIDE DEF l, r
<1>7. Len(l) = i - 1 /\ Len(r) = Len(q) - i + 1
  BY <1>1, <1>3, <1>4
<1>8. /\ m \in Seq(S) /\ Len(m) = i
      /\ \A j \in 1..i : m[j] = IF j <= i - 1 THEN l[j] ELSE <<e>>[j - (i - 1)]
  <2>1. Len(l) + Len(<<e>>) = i
    BY <1>1, <1>6, <1>7
  <2> QED BY <1>3, <1>6, <1>7, <2>1, ConcatProperties
<1> HIDE DEF m
<1>9. /\ s \in Seq(S) /\ Len(s) = Len(q) + 1
      /\ \A j \in 1..(Len(q) + 1) : s[j] = IF j <= i THEN m[j] ELSE r[j - i]
  <2>1. Len(m) + Len(r) = Len(q) + 1
    BY <1>1, <1>7, <1>8
  <2>2. /\ m \o r \in Seq(S) /\ Len(m \o r) = Len(m) + Len(r)
        /\ \A j \in 1..(Len(m) + Len(r)) :
             (m \o r)[j] = IF j <= Len(m) THEN m[j] ELSE r[j - Len(m)]
    BY <1>4, <1>8, ConcatProperties
  <2> QED BY <1>8, <2>1, <2>2
<1>10. DOMAIN s = 1..(Len(q) + 1)
  BY <1>9, LenProperties
<1> HIDE DEF s
<1>11. ASSUME NEW j \in 1..(Len(q) + 1)
       PROVE  s[j] = IF j < i THEN q[j] ELSE IF j = i THEN e ELSE q[j - 1]
  <2>1. j \in Nat /\ 1 <= j /\ j <= Len(q) + 1
    BY <1>1
  <2>2. CASE j < i
    <3>1. j <= i - 1 /\ j <= i /\ j \in 1..i /\ j \in 1..((i - 1) - 1 + 1) /\ 1 + j - 1 = j
      BY <1>1, <2>1, <2>2
    <3> QED BY <1>3, <1>8, <1>9, <2>2, <3>1
  <2>3. CASE j = i
    <3>1. j <= i /\ ~(j <= i - 1) /\ j \in 1..i /\ j - (i - 1) = 1 /\ ~(j < i)
      BY <1>1, <2>1, <2>3
    <3>2. s[j] = m[j]
      BY <1>9, <3>1
    <3>3. m[j] = <<e>>[j - (i - 1)]
      BY <1>8, <3>1
    <3>4. m[j] = e
      BY <1>6, <3>1, <3>3
    <3> QED BY <2>3, <3>1, <3>2, <3>4
  <2>4. CASE j > i
    <3>1. ~(j <= i) /\ ~(j < i) /\ j # i /\ j - i \in 1..(Len(q) - i + 1)
          /\ i + (j - i) - 1 = j - 1
      BY <1>1, <2>1, <2>4
    <3> QED BY <1>4, <1>9, <3>1
  <2> QED BY <1>1, <2>1, <2>2, <2>3, <2>4
<1> QED BY <1>5, <1>9, <1>10, <1>11

-----------------------------------------------------------------------------
(* The merging pass *)

Ordered(list) == \A i, j \in DOMAIN list : i < j => End(list[i]) <= list[j].base

LEMMA ListOfExtents ==
  ASSUME NEW list, ProperList(list)
  PROVE  /\ Len(list) \in Nat /\ DOMAIN list = 1..Len(list)
         /\ \A i \in DOMAIN list :
              /\ Proper(list[i]) /\ i \in Nat
              /\ list[i].base \in Nat /\ list[i].tokens \in Nat /\ list[i].tokens > 0
              /\ End(list[i]) \in Nat /\ End(list[i]) <= MaxTokens
              /\ list[i].base < End(list[i])
              /\ End(list[i]) = list[i].base + list[i].tokens
<1>1. Len(list) \in Nat /\ DOMAIN list = 1..Len(list)
  BY LenProperties DEF ProperList
<1>2. ASSUME NEW i \in DOMAIN list
      PROVE  /\ Proper(list[i]) /\ i \in Nat
             /\ list[i].base \in Nat /\ list[i].tokens \in Nat /\ list[i].tokens > 0
             /\ End(list[i]) \in Nat /\ End(list[i]) <= MaxTokens
             /\ list[i].base < End(list[i])
             /\ End(list[i]) = list[i].base + list[i].tokens
  <2>1. Proper(list[i])
    BY DEF ProperList
  <2> QED BY <1>1, <2>1, ProperExtent DEF End
<1> QED BY <1>1, <1>2

LEMMA ListFromExtents ==
  ASSUME NEW n \in Nat, NEW list, DOMAIN list = 1..n, list = [i \in 1..n |-> list[i]],
         \A i \in 1..n : Proper(list[i])
  PROVE  ProperList(list)
<1>1. \A i \in 1..n : list[i] \in Extent
  BY DEF Proper
<1>2. list \in [1..n -> Extent]
  BY <1>1
<1>3. list \in Seq(Extent)
  BY <1>2
<1> QED BY <1>3 DEF ProperList

(* What the pass keeps: the extents stay whole, in order, and cover the same *)
(* slots; and no two of the result touch, if none did before position from.  *)
LEMMA JoinedKeeps ==
  ASSUME NEW list, ProperList(list), list # <<>>, Ordered(list),
         NEW from \in Nat, from >= 1,
         \A i \in DOMAIN list : 1 < i /\ i <= from => End(list[i - 1]) < list[i].base
  PROVE  /\ ProperList(Joined(list, from))
         /\ Apart(Joined(list, from))
         /\ SlotsOf(Joined(list, from)) = SlotsOf(list)
<1> DEFINE n == Len(list)
           H == Heads(list, from)
           a == Ascending(H)
           m == Len(a)
           last(k) == IF k < m THEN a[k + 1] - 1 ELSE n
           J == Joined(list, from)
<1>1. /\ n \in Nat /\ DOMAIN list = 1..n
      /\ \A i \in DOMAIN list :
              /\ Proper(list[i]) /\ i \in Nat
              /\ list[i].base \in Nat /\ list[i].tokens \in Nat /\ list[i].tokens > 0
              /\ End(list[i]) \in Nat /\ End(list[i]) <= MaxTokens
              /\ list[i].base < End(list[i])
              /\ End(list[i]) = list[i].base + list[i].tokens
  BY ListOfExtents
<1>2. n > 0
  <2>1. list \in Seq(Extent)
    BY DEF ProperList
  <2> QED BY <1>1, <2>1, EmptySeq
<1>3. H \subseteq 1..n /\ H \subseteq Nat /\ IsFiniteSet(H) /\ 1 \in H
  <2>1. H \in SUBSET (1..n) /\ 1 \in H
    BY <1>1, <1>2 DEF Heads
  <2>2. IsFiniteSet(1..n)
    BY <1>1, FS_Interval
  <2> HIDE DEF H
  <2>3. IsFiniteSet(H)
    BY <2>1, <2>2, FS_Subset
  <2> QED BY <1>1, <2>1, <2>3
<1>4. \A h \in H : 1 < h => h - 1 \in DOMAIN list /\ End(list[h - 1]) < list[h].base
  <2> SUFFICES ASSUME NEW h \in H, 1 < h
               PROVE  h - 1 \in DOMAIN list /\ End(list[h - 1]) < list[h].base
    OBVIOUS
  <2>1. h \in DOMAIN list /\ h - 1 \in DOMAIN list
    BY <1>1, <1>3
  <2>2. End(list[h - 1]) <= list[h].base
    BY <1>1, <2>1 DEF Ordered
  <2>3. h <= from \/ End(list[h - 1]) # list[h].base
    BY DEF Heads
  <2> QED BY <1>1, <2>1, <2>2, <2>3
<1>5. \A i \in DOMAIN list \ H : 1 < i /\ End(list[i - 1]) = list[i].base
  BY <1>1, <1>3 DEF Heads
<1>6. a \in Seq(Nat) /\ Sorted(a) /\ ToSet(a) = H
  BY <1>3, AscendingIsSorted
<1> HIDE DEF H, a
<1>7. m \in Nat /\ DOMAIN a = 1..m /\ a \in [1..m -> Nat]
  BY <1>6, LenProperties
<1>8. /\ \A k \in 1..m : a[k] \in H /\ a[k] \in 1..n /\ a[k] \in Nat
      /\ \A h \in H : \E k \in 1..m : h = a[k]
      /\ \A k, l \in 1..m : k < l => a[k] < a[l]
  BY <1>3, <1>6, <1>7 DEF ToSet, Sorted
<1>9. \A k \in 1..m : last(k) \in 1..n /\ last(k) \in Nat /\ a[k] <= last(k)
  <2> SUFFICES ASSUME NEW k \in 1..m
               PROVE  last(k) \in 1..n /\ last(k) \in Nat /\ a[k] <= last(k)
    OBVIOUS
  <2>1. CASE k < m
    <3>1. k + 1 \in 1..m /\ k < k + 1
      BY <1>7, <2>1
    <3>2. a[k] < a[k + 1] /\ a[k + 1] \in 1..n /\ a[k] \in 1..n
      BY <1>8, <3>1
    <3> QED BY <1>1, <2>1, <3>2
  <2>2. CASE ~(k < m)
    BY <1>1, <1>2, <1>8, <2>2
  <2> QED BY <2>1, <2>2
<1>10. \A i \in 1..n : \E k \in 1..m : a[k] <= i /\ i <= last(k)
  <2> SUFFICES ASSUME NEW i \in 1..n PROVE \E k \in 1..m : a[k] <= i /\ i <= last(k)
    OBVIOUS
  <2> DEFINE L == {h \in H : h <= i}
  <2>1. L \subseteq Nat /\ 1 \in L /\ IsFiniteSet(L)
    <3>1. L \in SUBSET H
      OBVIOUS
    <3>2. 1 <= i
      BY <1>1
    <3> QED BY <1>3, <3>1, <3>2, FS_Subset
  <2>2. PICK h \in L : \A x \in L : x <= h
    <3> HIDE DEF L
    <3> QED BY <2>1, Bounded
  <2>3. PICK k \in 1..m : h = a[k]
    BY <1>8
  <2>4. i <= last(k)
    <3>1. CASE k < m
      <4>1. k + 1 \in 1..m /\ k < k + 1
        BY <1>7, <3>1
      <4>2. a[k] < a[k + 1] /\ a[k + 1] \in H /\ a[k + 1] \in Nat /\ a[k] \in Nat
        BY <1>8, <4>1
      <4>3. a[k + 1] \notin L
        BY <2>2, <2>3, <4>2
      <4> QED BY <1>1, <3>1, <4>2, <4>3
    <3>2. CASE ~(k < m)
      BY <1>1, <3>2
    <3> QED BY <3>1, <3>2
  <2> QED BY <2>3, <2>4
<1>11. \A k \in 1..m : \A j \in DOMAIN list : a[k] < j /\ j <= last(k) => j \notin H
  <2> SUFFICES ASSUME NEW k \in 1..m, NEW j \in DOMAIN list, a[k] < j, j <= last(k), j \in H
               PROVE  FALSE
    OBVIOUS
  <2> PICK l \in 1..m : j = a[l]
    BY <1>8
  <2>1. k \in Nat /\ l \in Nat /\ a[k] \in Nat /\ a[l] \in Nat
    BY <1>7, <1>8
  <2>2. k < l
    <3>1. l < k => a[l] < a[k]
      BY <1>8
    <3> QED BY <2>1, <3>1
  <2>3. k < m /\ k + 1 \in 1..m /\ (k + 1 = l \/ k + 1 < l)
    BY <1>7, <2>1, <2>2
  <2>4. a[k + 1] <= a[l] /\ a[k + 1] \in Nat
    BY <1>8, <2>1, <2>3
  <2> QED BY <2>1, <2>3, <2>4
<1>12. /\ DOMAIN J = 1..m /\ J = [k \in 1..m |-> J[k]]
       /\ \A k \in 1..m : J[k] = [base   |-> list[a[k]].base,
                                  tokens |-> End(list[last(k)]) - list[a[k]].base]
  BY <1>7 DEF Joined, a, H
<1> HIDE DEF J
<1>13. ASSUME NEW k \in 1..m
       PROVE  /\ J[k].base = list[a[k]].base
              /\ End(J[k]) = End(list[last(k)])
              /\ J[k].base < End(J[k])
              /\ Proper(J[k])
  <2>1. a[k] \in DOMAIN list /\ last(k) \in DOMAIN list /\ a[k] <= last(k)
    BY <1>1, <1>8, <1>9
  <2> DEFINE b == list[a[k]].base
             t == End(list[last(k)])
  <2> HIDE DEF last
  <2>2. b \in Nat /\ t \in Nat /\ b < t /\ t <= MaxTokens
    <3>1. CASE a[k] = last(k)
      BY <1>1, <2>1, <3>1
    <3>2. CASE a[k] < last(k)
      <4>1. End(list[a[k]]) <= list[last(k)].base
        BY <2>1, <3>2 DEF Ordered
      <4> QED BY Sizes, <1>1, <2>1, <4>1
    <3>3. a[k] \in Nat /\ last(k) \in Nat
      BY <1>1, <2>1
    <3> QED BY <2>1, <3>1, <3>2, <3>3
  <2>3. J[k].base = b /\ J[k].tokens = t - b /\ J[k] = [base |-> b, tokens |-> t - b]
    BY <1>12
  <2>4. End(J[k]) = t
    BY <2>2, <2>3 DEF End
  <2>5. Whole(b) /\ Whole(t)
    <3>1. Whole(b) /\ Whole(list[last(k)].base) /\ Whole(list[last(k)].tokens)
      BY <1>1, <2>1 DEF Proper
    <3> QED BY <1>1, <2>1, <3>1, WholePages
  <2>6. Whole(t - b)
    BY <2>2, <2>5, WholePages
  <2>7. t - b \in 1..MaxTokens /\ b \in 0..MaxTokens
    BY Sizes, <2>2
  <2>8. J[k] \in Extent
    BY <2>3, <2>7 DEF Extent
  <2> QED BY <2>2, <2>3, <2>4, <2>5, <2>6, <2>8 DEF Proper
<1>14. ProperList(J)
  BY <1>7, <1>12, <1>13, ListFromExtents
<1>15. Apart(J)
  <2> SUFFICES ASSUME NEW k \in 1..m, NEW l \in 1..m, k < l
               PROVE  End(J[k]) < J[l].base
    BY <1>12 DEF Apart
  <2>1. k < m /\ k + 1 \in 1..m /\ (k + 1 = l \/ k + 1 < l) /\ k < k + 1
    BY <1>7
  <2>2. last(k) = a[k + 1] - 1
    BY <2>1
  <2>3. a[k + 1] \in H /\ a[k] < a[k + 1] /\ a[k] >= 1 /\ a[k] \in Nat /\ a[k + 1] \in Nat
    BY <1>8, <2>1
  <2>4. End(list[last(k)]) < list[a[k + 1]].base /\ last(k) \in DOMAIN list
    BY <1>4, <2>2, <2>3
  <2>5. a[k + 1] \in DOMAIN list /\ a[l] \in DOMAIN list
    BY <1>1, <1>8, <2>1
  <2>6. list[a[k + 1]].base <= list[a[l]].base
    <3>1. CASE k + 1 = l
      BY <1>1, <2>5, <3>1
    <3>2. CASE k + 1 < l
      <4>1. End(list[a[k + 1]]) <= list[a[l]].base
        BY <1>8, <2>1, <2>5, <3>2 DEF Ordered
      <4> QED BY <1>1, <2>5, <4>1
    <3> QED BY <2>1, <3>1, <3>2
  <2> HIDE DEF last
  <2>7. End(J[k]) = End(list[last(k)]) /\ J[l].base = list[a[l]].base
    BY <1>13
  <2> QED BY <1>1, <2>4, <2>5, <2>6, <2>7
<1>16. ASSUME NEW t \in Slot, NEW i \in DOMAIN list, Covers(list[i], t)
       PROVE  \E k \in 1..m : Covers(J[k], t)
  <2>1. PICK k \in 1..m : a[k] <= i /\ i <= last(k)
    BY <1>1, <1>10
  <2>2. a[k] \in DOMAIN list /\ last(k) \in DOMAIN list /\ t \in Nat
    BY Sizes, <1>1, <1>8, <1>9 DEF Slot
  <2> HIDE DEF last
  <2>3. list[a[k]].base <= t
    <3>1. a[k] < i => End(list[a[k]]) <= list[i].base
      BY <2>2 DEF Ordered
    <3> QED BY <1>1, <1>16, <2>1, <2>2, <3>1 DEF Covers
  <2>4. t < End(list[last(k)])
    <3>1. i < last(k) => End(list[i]) <= list[last(k)].base
      BY <2>2 DEF Ordered
    <3> QED BY <1>1, <1>16, <2>1, <2>2, <3>1 DEF Covers
  <2> QED BY <1>13, <2>3, <2>4 DEF Covers
<1>17. ASSUME NEW t \in Slot, NEW k \in 1..m, Covers(J[k], t)
       PROVE  \E i \in DOMAIN list : Covers(list[i], t)
  <2>1. /\ a[k] \in DOMAIN list /\ last(k) \in DOMAIN list /\ t \in Nat
        /\ a[k] <= last(k) /\ a[k] \in Nat /\ last(k) \in Nat
    BY Sizes, <1>1, <1>8, <1>9 DEF Slot
  <2>2. \A j \in DOMAIN list : a[k] < j /\ j <= last(k) => j \notin H
    BY <1>11
  <2> HIDE DEF last
  <2>3. list[a[k]].base <= t /\ t < End(list[last(k)])
    BY <1>13, <1>17 DEF Covers
  <2> DEFINE B == {j \in a[k]..last(k) : list[j].base <= t}
  <2>4. B \subseteq Nat /\ a[k] \in B /\ IsFiniteSet(B)
    <3>1. B \in SUBSET (a[k]..last(k)) /\ a[k]..last(k) \subseteq Nat
      BY <2>1
    <3>2. IsFiniteSet(a[k]..last(k))
      <4>1. a[k] \in Int /\ last(k) \in Int
        BY <2>1
      <4> QED BY <4>1, FS_Interval
    <3>3. a[k] \in B
      BY <2>1, <2>3
    <3> HIDE DEF B
    <3> QED BY <3>1, <3>2, <3>3, FS_Subset
  <2>5. PICK j \in B : \A x \in B : x <= j
    <3> HIDE DEF B
    <3> QED BY <2>4, Bounded
  <2>6. j \in DOMAIN list /\ j \in Nat /\ a[k] <= j /\ j <= last(k) /\ list[j].base <= t
    BY <1>1, <2>1
  <2>7. CASE j = last(k)
    BY <2>3, <2>6, <2>7 DEF Covers
  <2>8. CASE j < last(k)
    <3>1. j + 1 \in a[k]..last(k) /\ j + 1 \notin B
      BY <2>1, <2>4, <2>5, <2>6, <2>8
    <3>2. j + 1 \in DOMAIN list /\ j + 1 \notin H /\ (j + 1) - 1 = j
      BY <1>1, <2>1, <2>2, <2>6, <2>8
    <3>3. End(list[j]) = list[j + 1].base
      BY <1>5, <3>2
    <3>4. t < End(list[j])
      BY <1>1, <2>1, <3>1, <3>2, <3>3
    <3> QED BY <2>6, <3>4 DEF Covers
  <2> QED BY <2>1, <2>6, <2>7, <2>8
<1>18. SlotsOf(J) = SlotsOf(list)
  BY <1>12, <1>16, <1>17 DEF SlotsOf
<1> QED BY <1>14, <1>15, <1>18 DEF J

(* The insertion point: the extents that start before e come first.         *)
LEMMA BeforeIsPlace ==
  ASSUME ProperList(free), Apart(free), NEW e, e.base \in Nat
  PROVE  /\ Before(e) \in 0..Len(free)
         /\ \A i \in DOMAIN free : i <= Before(e) <=> free[i].base < e.base
<1> DEFINE n == Len(free)
           S == {i \in DOMAIN free : free[i].base < e.base}
<1>1. /\ n \in Nat /\ DOMAIN free = 1..n
      /\ \A i \in DOMAIN free : /\ i \in Nat /\ free[i].base \in Nat /\ End(free[i]) \in Nat
                                /\ free[i].base < End(free[i])
  BY ListOfExtents
<1>2. S \subseteq Nat /\ IsFiniteSet(S)
  <2>1. S \in SUBSET (1..n) /\ 1..n \subseteq Nat
    BY <1>1
  <2>2. IsFiniteSet(1..n)
    BY <1>1, FS_Interval
  <2> HIDE DEF S
  <2> QED BY <2>1, <2>2, FS_Subset
<1>3. Before(e) = Cardinality(S)
  BY DEF Before
<1>4. CASE S = {}
  <2>1. Before(e) = 0
    BY <1>3, <1>4, FS_EmptySet
  <2> QED BY <1>1, <1>4, <2>1
<1>5. CASE S # {}
  <2>1. PICK m \in S : \A x \in S : x <= m
    <3> HIDE DEF S
    <3> QED BY <1>2, <1>5, Bounded
  <2>2. m \in 1..n /\ free[m].base < e.base
    BY <1>1
  <2>3. \A i \in DOMAIN free : i <= m => free[i].base < e.base
    <3> SUFFICES ASSUME NEW i \in DOMAIN free, i < m PROVE free[i].base < e.base
      BY <1>1, <2>2
    <3>1. End(free[i]) < free[m].base
      BY <1>1, <2>2 DEF Apart
    <3> QED BY <1>1, <2>2, <3>1
  <2>4. S = 1..m
    <3>1. \A i \in S : i \in 1..m
      BY <1>1, <2>1
    <3>2. \A i \in 1..m : i \in S
      BY <1>1, <2>2, <2>3
    <3> QED BY <3>1, <3>2
  <2>5. Before(e) = m
    <3>1. Cardinality(1..m) = m
      BY <1>1, <2>2, FS_Interval
    <3> QED BY <1>3, <2>4, <3>1
  <2>6. \A i \in DOMAIN free : free[i].base < e.base => i <= m
    BY <2>1
  <2> QED BY <1>1, <2>2, <2>3, <2>5, <2>6
<1> QED BY <1>4, <1>5

(* An extent that comes back is merged into the list.                       *)
LEMMA MergedKeeps ==
  ASSUME ProperList(free), Apart(free), NEW e, Proper(e), Stretch(e) \cap SlotsOf(free) = {}
  PROVE  LET at == Before(e) + 1
             m  == Merged(InsertAt(free, at, e), at)
         IN  ProperList(m) /\ Apart(m) /\ SlotsOf(m) = SlotsOf(free) \cup Stretch(e)
<1> DEFINE n == Len(free)
           at == Before(e) + 1
           l == InsertAt(free, at, e)
           from == Max({at - 1, 1})
<1>1. /\ n \in Nat /\ DOMAIN free = 1..n
      /\ \A i \in DOMAIN free : /\ Proper(free[i]) /\ i \in Nat
                                /\ free[i].base \in Nat /\ End(free[i]) \in Nat
                                /\ free[i].base < End(free[i])
  BY ListOfExtents
<1>2. e.base \in Nat /\ End(e) \in Nat /\ e.base < End(e) /\ e \in Extent
  BY ProperExtent DEF Proper
<1>3. Before(e) \in 0..n /\ \A i \in DOMAIN free : i <= Before(e) <=> free[i].base < e.base
  BY <1>2, BeforeIsPlace
<1>4. at \in 1..(n + 1) /\ at \in Nat
  BY <1>1, <1>3
<1>5. \A i \in DOMAIN free : i < at <=> free[i].base < e.base
  BY <1>1, <1>3
<1> HIDE DEF at
<1>6. \A i \in DOMAIN free : IF i < at THEN End(free[i]) <= e.base ELSE End(e) <= free[i].base
  <2> SUFFICES ASSUME NEW i \in DOMAIN free
               PROVE  IF i < at THEN End(free[i]) <= e.base ELSE End(e) <= free[i].base
    OBVIOUS
  <2>1. Stretch(e) \cap Stretch(free[i]) = {}
    BY DEF Stretch, SlotsOf
  <2>2. End(e) <= free[i].base \/ End(free[i]) <= e.base
    BY <1>1, <2>1, OneAfterTheOther
  <2> QED BY <1>1, <1>2, <1>5, <2>2
<1>7. /\ l \in Seq(Extent) /\ Len(l) = n + 1 /\ DOMAIN l = 1..(n + 1)
      /\ \A j \in 1..(n + 1) :
           l[j] = IF j < at THEN free[j] ELSE IF j = at THEN e ELSE free[j - 1]
  <2>1. free \in Seq(Extent)
    BY DEF ProperList
  <2> QED BY <1>2, <1>4, <2>1, Inserted
<1> HIDE DEF l
<1>8. \A j \in DOMAIN l : /\ j \in Nat
                          /\ \/ j < at /\ j \in DOMAIN free /\ l[j] = free[j]
                             \/ j = at /\ l[j] = e
                             \/ at < j /\ j - 1 \in DOMAIN free /\ l[j] = free[j - 1]
                                /\ ~(j - 1 < at)
  <2> SUFFICES ASSUME NEW j \in DOMAIN l
               PROVE  /\ j \in Nat
                      /\ \/ j < at /\ j \in DOMAIN free /\ l[j] = free[j]
                         \/ j = at /\ l[j] = e
                         \/ at < j /\ j - 1 \in DOMAIN free /\ l[j] = free[j - 1]
                            /\ ~(j - 1 < at)
    OBVIOUS
  <2>1. j \in Nat /\ 1 <= j /\ j <= n + 1
    BY <1>1, <1>7
  <2>2. CASE j < at
    BY <1>1, <1>4, <1>7, <2>1, <2>2
  <2>3. CASE j = at
    BY <1>4, <1>7, <2>1, <2>3
  <2>4. CASE at < j
    BY <1>1, <1>4, <1>7, <2>1, <2>4
  <2> QED BY <1>4, <2>1, <2>2, <2>3, <2>4
<1>9. ProperList(l) /\ l # <<>>
  <2>1. ProperList(l)
    BY <1>1, <1>7, <1>8 DEF ProperList
  <2>2. l # <<>>
    BY <1>1, <1>7
  <2> QED BY <2>1, <2>2
<1>10. Ordered(l)
  <2> SUFFICES ASSUME NEW i \in DOMAIN l, NEW j \in DOMAIN l, i < j
               PROVE  End(l[i]) <= l[j].base
    BY DEF Ordered
  <2>1. CASE i < at /\ j < at
    <3>1. End(free[i]) < free[j].base
      BY <1>4, <1>8, <2>1 DEF Apart
    <3> QED BY <1>1, <1>4, <1>8, <2>1, <3>1
  <2>2. CASE i < at /\ j = at
    BY <1>4, <1>6, <1>8, <2>2
  <2>3. CASE i < at /\ at < j
    <3>1. /\ i \in DOMAIN free /\ l[i] = free[i]
          /\ j - 1 \in DOMAIN free /\ l[j] = free[j - 1] /\ ~(j - 1 < at)
      BY <1>4, <1>8, <2>3
    <3>2. End(free[i]) <= e.base /\ End(e) <= free[j - 1].base
      BY <1>6, <2>3, <3>1
    <3> QED BY <1>1, <1>2, <3>1, <3>2
  <2>4. CASE i = at /\ at < j
    <3>1. l[i] = e /\ j - 1 \in DOMAIN free /\ l[j] = free[j - 1] /\ ~(j - 1 < at)
      BY <1>4, <1>8, <2>4
    <3> QED BY <1>6, <3>1
  <2>5. CASE at < i /\ at < j
    <3>1. /\ i - 1 \in DOMAIN free /\ l[i] = free[i - 1]
          /\ j - 1 \in DOMAIN free /\ l[j] = free[j - 1] /\ i - 1 < j - 1
      BY <1>4, <1>8, <2>5
    <3>2. End(free[i - 1]) < free[j - 1].base
      BY <3>1 DEF Apart
    <3> QED BY <1>1, <3>1, <3>2
  <2> QED BY <1>4, <1>8, <2>1, <2>2, <2>3, <2>4, <2>5
<1>11. from \in Nat /\ from >= 1 /\ (1 < at => from = at - 1)
  <2>1. at - 1 <= 1 \/ 1 <= at - 1
    BY <1>4
  <2>2. from = IF 1 < at THEN at - 1 ELSE 1
    <3>1. \A x \in {at - 1, 1} : x <= IF 1 < at THEN at - 1 ELSE 1
      BY <1>4
    <3>2. (IF 1 < at THEN at - 1 ELSE 1) \in {at - 1, 1}
      OBVIOUS
    <3>3. \A x \in {at - 1, 1} : (\A y \in {at - 1, 1} : x >= y)
                                   => x = IF 1 < at THEN at - 1 ELSE 1
      BY <1>4
    <3>4. from = CHOOSE x \in {at - 1, 1} : \A y \in {at - 1, 1} : x >= y
      BY DEF Max
    <3>5. \A y \in {at - 1, 1} : (IF 1 < at THEN at - 1 ELSE 1) >= y
      BY <1>4
    <3> HIDE DEF from
    <3> QED BY <3>2, <3>3, <3>4, <3>5
  <2> HIDE DEF from
  <2> QED BY <1>4, <2>2
<1> HIDE DEF from
<1>12. \A i \in DOMAIN l : 1 < i /\ i <= from => End(l[i - 1]) < l[i].base
  <2> SUFFICES ASSUME NEW i \in DOMAIN l, 1 < i, i <= from
               PROVE  End(l[i - 1]) < l[i].base
    OBVIOUS
  <2>1. i < at /\ i - 1 < at /\ i - 1 \in DOMAIN l /\ i - 1 < i
    <3>1. i \in Nat /\ from \in Nat /\ (at <= 1 => from = 1)
      BY <1>4, <1>8, <1>11 DEF from, Max
    <3> QED BY <1>4, <1>7, <1>11, <3>1
  <2>2. l[i - 1] = free[i - 1] /\ l[i] = free[i] /\ i - 1 \in DOMAIN free /\ i \in DOMAIN free
    BY <1>4, <1>8, <2>1
  <2> QED BY <2>1, <2>2 DEF Apart
<1>13. SlotsOf(l) = SlotsOf(free) \cup Stretch(e)
  <2>1. \A j \in DOMAIN l : l[j] = e \/ \E i \in DOMAIN free : l[j] = free[i]
    BY <1>8
  <2>2. \E j \in DOMAIN l : l[j] = e
    BY <1>4, <1>7
  <2>3. \A i \in DOMAIN free : \E j \in DOMAIN l : l[j] = free[i]
    <3> SUFFICES ASSUME NEW i \in DOMAIN free PROVE \E j \in DOMAIN l : l[j] = free[i]
      OBVIOUS
    <3>1. CASE i < at
      BY <1>1, <1>4, <1>7, <3>1
    <3>2. CASE ~(i < at)
      <4>1. i + 1 \in 1..(n + 1) /\ ~(i + 1 < at) /\ i + 1 # at /\ (i + 1) - 1 = i
        BY <1>1, <1>4, <3>2
      <4> QED BY <1>7, <4>1
    <3> QED BY <3>1, <3>2
  <2> QED BY <2>1, <2>2, <2>3 DEF SlotsOf, Stretch
<1>14. /\ ProperList(Joined(l, from)) /\ Apart(Joined(l, from))
       /\ SlotsOf(Joined(l, from)) = SlotsOf(l)
  BY <1>9, <1>10, <1>11, <1>12, JoinedKeeps
<1> QED BY <1>13, <1>14 DEF Merged, l, at, from

(* What is left when an extent is cut.                                      *)
LEMMA CutKeeps ==
  ASSUME ProperList(free), Apart(free), NEW i \in DOMAIN free,
         NEW n \in Nat, n > 0, Whole(n), n <= free[i].tokens
  PROVE  LET e == [base |-> free[i].base, tokens |-> n]
         IN  /\ Proper(e) /\ Stretch(e) \subseteq SlotsOf(free)
             /\ ProperList(Cut(i, n)) /\ Apart(Cut(i, n))
             /\ SlotsOf(Cut(i, n)) = SlotsOf(free) \ Stretch(e)
<1> DEFINE e == [base |-> free[i].base, tokens |-> n]
           c == Cut(i, n)
           N == Len(free)
<1>1. /\ N \in Nat /\ DOMAIN free = 1..N
      /\ \A j \in DOMAIN free :
           /\ Proper(free[j]) /\ j \in Nat
           /\ free[j].base \in Nat /\ free[j].tokens \in Nat /\ free[j].tokens > 0
           /\ End(free[j]) \in Nat /\ End(free[j]) <= MaxTokens
           /\ free[j].base < End(free[j])
           /\ End(free[j]) = free[j].base + free[j].tokens
  BY ListOfExtents
<1>2. e.base = free[i].base /\ e.tokens = n /\ End(e) = free[i].base + n
  BY DEF End
<1>3. Proper(e)
  <2>1. e \in Extent
    BY Sizes, <1>1, <1>2 DEF Extent
  <2>2. Whole(e.base) /\ Whole(e.tokens)
    BY <1>1, <1>2 DEF Proper
  <2>3. End(e) <= MaxTokens
    BY Sizes, <1>1, <1>2
  <2> QED BY <2>1, <2>2, <2>3 DEF Proper
<1> HIDE DEF e
<1>4. \A t \in Slot : Covers(e, t) => Covers(free[i], t)
  <2>1. \A t \in Slot : t \in Nat
    BY Sizes DEF Slot
  <2> QED BY <1>1, <1>2, <2>1 DEF Covers
<1>5. ASSUME NEW t \in Slot, NEW j \in DOMAIN free, j # i, Covers(free[j], t)
      PROVE  ~Covers(free[i], t)
  <2>1. t \in Nat
    BY Sizes DEF Slot
  <2>2. End(free[i]) < free[j].base \/ End(free[j]) < free[i].base
    BY <1>1, <1>5 DEF Apart
  <2> QED BY <1>1, <1>5, <2>1, <2>2 DEF Covers
<1>6. ASSUME free[i].tokens = n
      PROVE  ProperList(c) /\ Apart(c) /\ SlotsOf(c) = SlotsOf(free) \ Stretch(e)
  <2>1. /\ c = RemoveAt(free, i) /\ c \in Seq(Extent) /\ DOMAIN c = 1..(N - 1)
        /\ \A j \in 1..(N - 1) : c[j] = IF j < i THEN free[j] ELSE free[j + 1]
    <3>1. free \in Seq(Extent)
      BY DEF ProperList
    <3> QED BY <1>1, <1>6, <3>1, Removed DEF Cut
  <2> HIDE DEF c
  <2>2. \A j \in DOMAIN c : /\ j \in Nat
                            /\ \/ j < i /\ j \in DOMAIN free /\ c[j] = free[j]
                               \/ j >= i /\ j + 1 \in DOMAIN free /\ c[j] = free[j + 1]
    BY <1>1, <2>1
  <2>3. ProperList(c)
    BY <1>1, <2>1, <2>2 DEF ProperList
  <2>4. Apart(c)
    <3> SUFFICES ASSUME NEW j \in DOMAIN c, NEW k \in DOMAIN c, j < k
                 PROVE  End(c[j]) < c[k].base
      BY DEF Apart
    <3>1. \E x, y \in DOMAIN free : x < y /\ c[j] = free[x] /\ c[k] = free[y]
      <4>1. CASE j < i /\ k < i
        BY <1>1, <2>2, <4>1
      <4>2. CASE j < i /\ k >= i
        <5>1. /\ j \in DOMAIN free /\ c[j] = free[j]
              /\ k + 1 \in DOMAIN free /\ c[k] = free[k + 1]
          BY <1>1, <2>2, <4>2
        <5>2. j < k + 1
          BY <2>2
        <5> QED BY <5>1, <5>2
      <4>3. CASE j >= i /\ k >= i
        BY <1>1, <2>2, <4>3
      <4> QED BY <1>1, <2>2, <4>1, <4>2, <4>3
    <3> QED BY <3>1 DEF Apart
  <2>5. \A t \in Slot : Covers(e, t) <=> Covers(free[i], t)
    BY <1>2, <1>6 DEF Covers, End
  <2>6. \A j \in DOMAIN c : \E x \in DOMAIN free : x # i /\ c[j] = free[x]
    BY <1>1, <2>2
  <2>7. \A x \in DOMAIN free : x # i => \E j \in DOMAIN c : c[j] = free[x]
    <3> SUFFICES ASSUME NEW x \in DOMAIN free, x # i PROVE \E j \in DOMAIN c : c[j] = free[x]
      OBVIOUS
    <3>1. CASE x < i
      <4>1. x \in 1..(N - 1)
        BY <1>1, <3>1
      <4> QED BY <2>1, <3>1, <4>1
    <3>2. CASE x > i
      <4>1. x - 1 \in 1..(N - 1) /\ ~(x - 1 < i) /\ (x - 1) + 1 = x
        BY <1>1, <3>2
      <4> QED BY <2>1, <4>1
    <3> QED BY <1>1, <3>1, <3>2
  <2>8. SlotsOf(c) = SlotsOf(free) \ Stretch(e)
    BY <1>5, <2>5, <2>6, <2>7 DEF SlotsOf, Stretch
  <2> QED BY <2>3, <2>4, <2>8
<1>7. ASSUME free[i].tokens # n
      PROVE  ProperList(c) /\ Apart(c) /\ SlotsOf(c) = SlotsOf(free) \ Stretch(e)
  <2> DEFINE d == [base |-> free[i].base + n, tokens |-> free[i].tokens - n]
  <2>1. c = [free EXCEPT ![i] = d]
    BY <1>7 DEF Cut
  <2>2. d.base = free[i].base + n /\ End(d) = End(free[i])
    BY <1>1 DEF End
  <2>3. Proper(d)
    <3>1. Whole(free[i].base) /\ Whole(free[i].tokens)
      BY <1>1 DEF Proper
    <3>2. Whole(free[i].base + n) /\ Whole(free[i].tokens - n)
      <4>1. free[i].base + n <= MaxTokens
        BY Sizes, <1>1
      <4> QED BY <1>1, <3>1, <4>1, WholePages
    <3>3. d \in Extent
      BY Sizes, <1>1, <1>7 DEF Extent
    <3>4. d.base = free[i].base + n /\ d.tokens = free[i].tokens - n
      OBVIOUS
    <3> HIDE DEF d
    <3> QED BY <1>1, <2>2, <3>2, <3>3, <3>4 DEF Proper
  <2> HIDE DEF c, d
  <2>4. /\ c \in Seq(Extent) /\ DOMAIN c = DOMAIN free
        /\ \A j \in DOMAIN free : c[j] = IF j = i THEN d ELSE free[j]
    <3>1. free \in Seq(Extent) /\ d \in Extent
      BY <2>3 DEF ProperList, Proper
    <3> QED BY <2>1, <3>1
  <2>5. ProperList(c)
    BY <1>1, <2>3, <2>4 DEF ProperList
  <2>6. Apart(c)
    <3> SUFFICES ASSUME NEW j \in DOMAIN free, NEW k \in DOMAIN free, j < k
                 PROVE  End(c[j]) < c[k].base
      BY <2>4 DEF Apart
    <3>1. End(free[j]) < free[k].base
      BY DEF Apart
    <3>2. End(c[j]) = End(free[j])
      BY <2>2, <2>4
    <3>3. free[k].base <= c[k].base /\ c[k].base \in Nat
      <4>1. CASE k = i
        BY <1>1, <2>2, <2>4, <4>1
      <4>2. CASE k # i
        BY <1>1, <2>4, <4>2
      <4> QED BY <4>1, <4>2
    <3> QED BY <1>1, <3>1, <3>2, <3>3
  <2>7. \A t \in Slot : Covers(d, t) <=> Covers(free[i], t) /\ ~Covers(e, t)
    <3>1. \A t \in Slot : t \in Nat
      BY Sizes DEF Slot
    <3> QED BY <1>1, <1>2, <2>2, <3>1 DEF Covers
  <2>8. SlotsOf(c) = SlotsOf(free) \ Stretch(e)
    <3>1. ASSUME NEW t \in Slot
          PROVE  t \in SlotsOf(c) <=> t \in SlotsOf(free) /\ t \notin Stretch(e)
      <4>1. ASSUME NEW j \in DOMAIN c, Covers(c[j], t)
            PROVE  t \in SlotsOf(free) /\ t \notin Stretch(e)
        BY <1>4, <1>5, <2>4, <2>7, <4>1 DEF SlotsOf, Stretch
      <4>2. ASSUME NEW j \in DOMAIN free, Covers(free[j], t), t \notin Stretch(e)
            PROVE  t \in SlotsOf(c)
        BY <2>4, <2>7, <4>2 DEF SlotsOf, Stretch
      <4> QED BY <4>1, <4>2 DEF SlotsOf
    <3> QED BY <3>1 DEF SlotsOf
  <2> QED BY <2>5, <2>6, <2>8
<1>8. ProperList(c) /\ Apart(c) /\ SlotsOf(c) = SlotsOf(free) \ Stretch(e)
  BY <1>6, <1>7
<1>9. Stretch(e) \subseteq SlotsOf(free)
  BY <1>4 DEF Stretch, SlotsOf
<1> QED BY <1>3, <1>8, <1>9 DEF e

-----------------------------------------------------------------------------
(* The inductive invariant: the free list is sorted and merged, no slot is   *)
(* held twice or held and free, none is lost, and the counters agree.       *)

HeldSlots == {t \in Slot : \E r \in Live : Covers(held[r], t)}

HoldersApart ==
  /\ DOMAIN held = Request
  /\ \A r \in Live : Proper(held[r]) /\ Stretch(held[r]) \cap SlotsOf(free) = {}
  /\ \A r, q \in Live : r # q => Stretch(held[r]) \cap Stretch(held[q]) = {}

NothingLost == Slot \subseteq SlotsOf(free) \cup HeldSlots

Counters ==
  /\ used = Cardinality(HeldSlots)
  /\ IsFiniteSet(Live) /\ active = Cardinality(Live) /\ active <= MaxActive

BudgetInv == /\ ProperList(free) /\ Apart(free)
             /\ HoldersApart /\ NothingLost /\ Counters

-----------------------------------------------------------------------------

LEMMA NoneIsNoExtent ==
  ASSUME NEW e, Proper(e)
  PROVE  e # None
<1>1. e \in [base : Nat, tokens : Nat]
  BY ProperExtent
<1> QED BY <1>1, BudgetAssumption DEF BudgetAssumption

LEMMA StretchCounted ==
  ASSUME NEW e, Proper(e)
  PROVE  /\ IsFiniteSet(Stretch(e)) /\ Cardinality(Stretch(e)) = e.tokens
         /\ Stretch(e) # {}
<1>1. e.base \in Nat /\ e.tokens \in Nat /\ e.tokens > 0 /\ End(e) = e.base + e.tokens
      /\ End(e) <= MaxTokens
  BY ProperExtent DEF End
<1>2. Stretch(e) = e.base..(End(e) - 1)
  BY Sizes, <1>1 DEF Stretch, Covers, Slot
<1>3. e.base \in Int /\ End(e) - 1 \in Int /\ ~(e.base > End(e) - 1)
      /\ (End(e) - 1) - e.base + 1 = e.tokens
  BY <1>1
<1>4. /\ IsFiniteSet(e.base..(End(e) - 1))
      /\ Cardinality(e.base..(End(e) - 1))
           = IF e.base > End(e) - 1 THEN 0 ELSE (End(e) - 1) - e.base + 1
  BY <1>3, FS_Interval
<1>5. IsFiniteSet(Stretch(e)) /\ Cardinality(Stretch(e)) = e.tokens
  BY <1>2, <1>3, <1>4
<1> QED BY <1>1, <1>5, FS_EmptySet

LEMMA SlotsAreFinite ==
  ASSUME NEW S, S \subseteq Slot
  PROVE  IsFiniteSet(S) /\ Cardinality(S) \in Nat
<1>1. 0 \in Int /\ MaxTokens - 1 \in Int
  BY Sizes
<1>2. IsFiniteSet(Slot)
  BY <1>1, FS_Interval DEF Slot
<1> QED BY <1>2, FS_Subset, FS_CardinalityType

LEMMA FirstFits ==
  ASSUME ProperList(free), NEW n, Fitting(n) # {}
  PROVE  /\ FirstFit(n) \in DOMAIN free /\ free[FirstFit(n)].tokens >= n
         /\ \A i \in DOMAIN free : free[i].tokens >= n => FirstFit(n) <= i
<1> DEFINE S == Fitting(n)
<1>1. S \subseteq Nat /\ IsFiniteSet(S)
  <2>1. Len(free) \in Nat /\ DOMAIN free = 1..Len(free)
    BY ListOfExtents
  <2>2. S \in SUBSET (1..Len(free)) /\ 1..Len(free) \subseteq Nat
    BY <2>1 DEF Fitting
  <2>3. IsFiniteSet(1..Len(free))
    BY <2>1, FS_Interval
  <2> HIDE DEF S
  <2> QED BY <2>2, <2>3, FS_Subset
<1> HIDE DEF S
<1>2. \E m \in S : \A x \in S : m <= x
  BY <1>1, Bounded DEF S
<1>3. FirstFit(n) \in S /\ \A x \in S : FirstFit(n) <= x
  BY <1>2 DEF FirstFit, S, Min
<1> QED BY <1>3 DEF S, Fitting

(* What a reservation and a release do to the pool.                         *)
LEMMA ReserveEffect ==
  ASSUME ProperList(free), Apart(free), NEW r \in Request, NEW n \in 1..MaxTokens,
         Reserve(r, n)
  PROVE  LET e == [base |-> free[FirstFit(Rounded(n))].base, tokens |-> Rounded(n)]
         IN  /\ r \notin Live /\ Proper(e) /\ Stretch(e) \subseteq SlotsOf(free)
             /\ ProperList(free') /\ Apart(free')
             /\ SlotsOf(free') = SlotsOf(free) \ Stretch(e)
             /\ held' = [held EXCEPT ![r] = e] /\ used' = used + e.tokens
             /\ active < MaxActive /\ active' = active + 1
<1> DEFINE m == Rounded(n)
           i == FirstFit(m)
<1>1. i \in DOMAIN free /\ free[i].tokens >= m
  <2>1. Fitting(m) # {}
    BY DEF Reserve
  <2> QED BY <2>1, FirstFits
<1>2. m \in Nat /\ m > 0 /\ (m <= MaxTokens => Whole(m))
  BY RoundedIsWhole
<1>3. free[i].tokens \in Nat /\ free[i].base \in Nat /\ End(free[i]) <= MaxTokens
      /\ End(free[i]) = free[i].base + free[i].tokens
  BY <1>1, ListOfExtents
<1>4. Whole(m) /\ m <= free[i].tokens
  BY Sizes, <1>1, <1>2, <1>3
<1> HIDE DEF i, m
<1>5. LET e == [base |-> free[i].base, tokens |-> m]
      IN  /\ Proper(e) /\ Stretch(e) \subseteq SlotsOf(free)
          /\ ProperList(Cut(i, m)) /\ Apart(Cut(i, m))
          /\ SlotsOf(Cut(i, m)) = SlotsOf(free) \ Stretch(e)
  BY <1>1, <1>2, <1>4, CutKeeps
<1>6. /\ held' = [held EXCEPT ![r] = [base |-> free[i].base, tokens |-> m]]
      /\ free' = Cut(i, m) /\ used' = used + m
      /\ active < MaxActive /\ active' = active + 1 /\ r \notin Live
  BY DEF Reserve, Live, i, m
<1> QED BY <1>5, <1>6 DEF i, m

LEMMA ReleaseEffect ==
  ASSUME BudgetInv, NEW r \in Request, Release(r)
  PROVE  /\ r \in Live /\ Proper(held[r])
         /\ ProperList(free') /\ Apart(free')
         /\ SlotsOf(free') = SlotsOf(free) \cup Stretch(held[r])
         /\ held' = [held EXCEPT ![r] = None] /\ used' = used - held[r].tokens
         /\ active' = active - 1
<1>1. r \in Live /\ held' = [held EXCEPT ![r] = None] /\ used' = used - held[r].tokens
      /\ active' = active - 1
      /\ free' = Merged(InsertAt(free, Before(held[r]) + 1, held[r]), Before(held[r]) + 1)
  BY DEF Release, Live
<1>2. Proper(held[r]) /\ Stretch(held[r]) \cap SlotsOf(free) = {}
      /\ ProperList(free) /\ Apart(free)
  BY <1>1 DEF BudgetInv, HoldersApart
<1> QED BY <1>1, <1>2, MergedKeeps

(* A step maps Live and HeldSlots as expected.                                  *)
LEMMA Reserved ==
  ASSUME BudgetInv, NEW r \in Request, r \notin Live, NEW e, Proper(e),
         held' = [held EXCEPT ![r] = e]
  PROVE  /\ Live' = Live \cup {r} /\ DOMAIN held' = Request
         /\ \A q \in Live' : held'[q] = IF q = r THEN e ELSE held[q]
         /\ HeldSlots' = HeldSlots \cup Stretch(e)
<1>1. e # None
  BY NoneIsNoExtent
<1>2. DOMAIN held = Request
  BY DEF BudgetInv, HoldersApart
<1>3. DOMAIN held' = Request /\ \A q \in Request : held'[q] = IF q = r THEN e ELSE held[q]
  BY <1>2
<1>4. Live' = Live \cup {r}
  BY <1>1, <1>3 DEF Live
<1>5. \A q \in Live' : held'[q] = IF q = r THEN e ELSE held[q]
  BY <1>3 DEF Live
<1>6. HeldSlots' = HeldSlots \cup Stretch(e)
  <2>1. HeldSlots' = {t \in Slot : \E q \in Live' : Covers(held'[q], t)}
    BY DEF HeldSlots, Covers, End
  <2> QED BY <1>4, <1>5, <2>1 DEF HeldSlots, Stretch
<1> QED BY <1>3, <1>4, <1>5, <1>6

LEMMA Released ==
  ASSUME BudgetInv, NEW r \in Live, held' = [held EXCEPT ![r] = None]
  PROVE  /\ Live' = Live \ {r} /\ DOMAIN held' = Request
         /\ \A q \in Live' : held'[q] = held[q]
         /\ HeldSlots' = HeldSlots \ Stretch(held[r])
<1>1. DOMAIN held = Request /\ r \in Request
      /\ \A q \in Live : q # r => Stretch(held[r]) \cap Stretch(held[q]) = {}
  BY DEF BudgetInv, HoldersApart, Live
<1>2. DOMAIN held' = Request /\ \A q \in Request : held'[q] = IF q = r THEN None ELSE held[q]
  BY <1>1
<1>3. Live' = Live \ {r}
  BY <1>2 DEF Live
<1>4. \A q \in Live' : held'[q] = held[q]
  BY <1>2, <1>3 DEF Live
<1>5. HeldSlots' = HeldSlots \ Stretch(held[r])
  <2>1. HeldSlots' = {t \in Slot : \E q \in Live' : Covers(held'[q], t)}
    BY DEF HeldSlots, Covers, End
  <2>2. \A t \in Slot : \A q \in Live : q # r /\ Covers(held[q], t) => ~Covers(held[r], t)
    BY <1>1 DEF Stretch
  <2> QED BY <1>3, <1>4, <2>1, <2>2 DEF HeldSlots, Stretch
<1> QED BY <1>2, <1>3, <1>4, <1>5

LEMMA InitBudget == Init => BudgetInv
<1> SUFFICES ASSUME Init PROVE BudgetInv
  OBVIOUS
<1> DEFINE all == [base |-> 0, tokens |-> MaxTokens]
<1>1. free = <<all>> /\ used = 0 /\ active = 0 /\ held = [r \in Request |-> None]
  BY DEF Init
<1>2. Proper(all)
  <2>1. PICK k \in 1..MaxTokens : MaxTokens = k * PageTokens
    BY BudgetAssumption DEF BudgetAssumption
  <2>2. Whole(MaxTokens)
    BY Sizes, <2>1 DEF Whole
  <2>3. Whole(0)
    <3>1. 0 = 0 * PageTokens /\ 0 \in 0..MaxTokens
      BY Sizes
    <3> QED BY <3>1 DEF Whole
  <2> QED BY Sizes, <2>2, <2>3 DEF Proper, Extent, End
<1>3. DOMAIN free = {1} /\ free[1] = all /\ free \in Seq(Extent)
  BY <1>1, <1>2 DEF Proper
<1>4. ProperList(free) /\ Apart(free)
  BY <1>2, <1>3 DEF ProperList, Apart
<1>5. Live = {}
  BY <1>1 DEF Live
<1>6. HoldersApart
  BY <1>1, <1>5 DEF HoldersApart
<1>7. NothingLost
  <2>1. \A t \in Slot : Covers(all, t)
    BY Sizes DEF Slot, Covers, End
  <2> QED BY <1>3, <2>1 DEF NothingLost, SlotsOf
<1>8. Counters
  <2>1. HeldSlots = {}
    BY <1>5 DEF HeldSlots
  <2> QED BY Sizes, <1>1, <1>5, <2>1, FS_EmptySet DEF Counters
<1> QED BY <1>4, <1>6, <1>7, <1>8 DEF BudgetInv

LEMMA ReserveKeeps ==
  ASSUME BudgetInv, NEW r \in Request, NEW n \in 1..MaxTokens, Reserve(r, n)
  PROVE  BudgetInv'
<1> DEFINE e == [base |-> free[FirstFit(Rounded(n))].base, tokens |-> Rounded(n)]
<1>1. /\ r \notin Live /\ Proper(e) /\ Stretch(e) \subseteq SlotsOf(free)
      /\ ProperList(free') /\ Apart(free')
      /\ SlotsOf(free') = SlotsOf(free) \ Stretch(e)
      /\ held' = [held EXCEPT ![r] = e] /\ used' = used + e.tokens
      /\ active < MaxActive /\ active' = active + 1
  BY ReserveEffect DEF BudgetInv
<1> HIDE DEF e
<1>2. /\ Live' = Live \cup {r} /\ DOMAIN held' = Request
      /\ \A q \in Live' : held'[q] = IF q = r THEN e ELSE held[q]
      /\ HeldSlots' = HeldSlots \cup Stretch(e)
  BY <1>1, Reserved
<1>3. HoldersApart /\ NothingLost /\ Counters
  BY DEF BudgetInv
<1>4. HoldersApart'
  <2>1. \A q \in Live' : \/ q = r /\ held'[q] = e
                         \/ q \in Live /\ q # r /\ held'[q] = held[q]
    BY <1>1, <1>2
  <2>2. \A q \in Live : Stretch(held[q]) \cap Stretch(e) = {}
    BY <1>1, <1>3 DEF HoldersApart
  <2>3. \A q \in Live' : Proper(held'[q]) /\ Stretch(held'[q]) \cap SlotsOf(free') = {}
    BY <1>1, <1>3, <2>1 DEF HoldersApart
  <2>4. \A p, q \in Live' : p # q => Stretch(held'[p]) \cap Stretch(held'[q]) = {}
    <3> SUFFICES ASSUME NEW p \in Live', NEW q \in Live', p # q
                 PROVE  Stretch(held'[p]) \cap Stretch(held'[q]) = {}
      OBVIOUS
    <3>1. CASE p = r
      BY <2>1, <2>2, <3>1
    <3>2. CASE q = r
      BY <2>1, <2>2, <3>2
    <3>3. CASE p # r /\ q # r
      <4>1. p \in Live /\ q \in Live /\ held'[p] = held[p] /\ held'[q] = held[q]
        BY <2>1, <3>3
      <4> QED BY <1>3, <4>1 DEF HoldersApart
    <3> QED BY <3>1, <3>2, <3>3
  <2> QED BY <1>2, <2>3, <2>4 DEF HoldersApart, Stretch, Covers, End, Proper, SlotsOf
<1>5. NothingLost'
  <2>1. Slot \subseteq SlotsOf(free') \cup HeldSlots'
    BY <1>1, <1>2, <1>3 DEF NothingLost
  <2> QED BY <2>1 DEF NothingLost
<1>6. Counters'
  <2>1. HeldSlots \cap Stretch(e) = {}
    BY <1>1, <1>3 DEF HoldersApart, HeldSlots, Stretch
  <2>2. /\ IsFiniteSet(HeldSlots) /\ Cardinality(HeldSlots) \in Nat
    BY SlotsAreFinite DEF HeldSlots
  <2>3. IsFiniteSet(Stretch(e)) /\ Cardinality(Stretch(e)) = e.tokens /\ e.tokens \in Nat
    BY <1>1, StretchCounted, ProperExtent
  <2>4. Cardinality(HeldSlots') = Cardinality(HeldSlots) + e.tokens
    <3>1. Cardinality(HeldSlots \cup Stretch(e))
            = Cardinality(HeldSlots) + Cardinality(Stretch(e)) - Cardinality(HeldSlots \cap Stretch(e))
      BY <2>2, <2>3, FS_Union
    <3>2. Cardinality(HeldSlots \cap Stretch(e)) = 0
      BY <2>1, FS_EmptySet
    <3> QED BY <1>2, <2>2, <2>3, <3>1, <3>2
  <2>5. IsFiniteSet(Live') /\ Cardinality(Live') = Cardinality(Live) + 1
    BY <1>1, <1>2, <1>3, FS_AddElement DEF Counters
  <2>6. active \in Nat
    BY <1>3, FS_CardinalityType DEF Counters
  <2>7. active' <= MaxActive
    BY Sizes, <1>1, <2>6
  <2> QED BY <1>1, <1>3, <2>4, <2>5, <2>7 DEF Counters
<1> QED BY <1>1, <1>4, <1>5, <1>6 DEF BudgetInv, ProperList, Apart, Proper, End

LEMMA ReleaseKeeps ==
  ASSUME BudgetInv, NEW r \in Request, Release(r)
  PROVE  BudgetInv'
<1> DEFINE e == held[r]
<1>1. /\ r \in Live /\ Proper(e)
      /\ ProperList(free') /\ Apart(free')
      /\ SlotsOf(free') = SlotsOf(free) \cup Stretch(e)
      /\ held' = [held EXCEPT ![r] = None] /\ used' = used - e.tokens
      /\ active' = active - 1
  BY ReleaseEffect
<1>2. /\ Live' = Live \ {r} /\ DOMAIN held' = Request
      /\ \A q \in Live' : held'[q] = held[q]
      /\ HeldSlots' = HeldSlots \ Stretch(e)
  BY <1>1, Released
<1>3. HoldersApart /\ NothingLost /\ Counters
  BY DEF BudgetInv
<1>4. HoldersApart'
  <2>1. \A q \in Live' : q \in Live /\ q # r /\ held'[q] = held[q]
    BY <1>2
  <2>2. \A q \in Live' : Proper(held'[q]) /\ Stretch(held'[q]) \cap SlotsOf(free') = {}
    <3> SUFFICES ASSUME NEW q \in Live'
                 PROVE  Proper(held'[q]) /\ Stretch(held'[q]) \cap SlotsOf(free') = {}
      OBVIOUS
    <3>1. /\ Proper(held[q]) /\ Stretch(held[q]) \cap SlotsOf(free) = {}
          /\ Stretch(held[q]) \cap Stretch(e) = {}
      BY <1>1, <1>3, <2>1 DEF HoldersApart
    <3> QED BY <1>1, <2>1, <3>1
  <2>3. \A p, q \in Live' : p # q => Stretch(held'[p]) \cap Stretch(held'[q]) = {}
    BY <1>3, <2>1 DEF HoldersApart
  <2> QED BY <1>2, <2>2, <2>3 DEF HoldersApart, Stretch, Covers, End, Proper, SlotsOf
<1>5. NothingLost'
  <2>1. Slot \subseteq SlotsOf(free') \cup HeldSlots'
    BY <1>1, <1>2, <1>3 DEF NothingLost
  <2> QED BY <2>1 DEF NothingLost
<1>6. Counters'
  <2>1. HeldSlots \cap Stretch(e) = Stretch(e)
    BY <1>1 DEF HeldSlots, Stretch
  <2>2. /\ IsFiniteSet(HeldSlots) /\ Cardinality(HeldSlots) \in Nat
    BY SlotsAreFinite DEF HeldSlots
  <2>3. Cardinality(Stretch(e)) = e.tokens
    BY <1>1, StretchCounted
  <2>4. Cardinality(HeldSlots') = Cardinality(HeldSlots) - e.tokens
    <3>1. Cardinality(HeldSlots \ Stretch(e))
            = Cardinality(HeldSlots) - Cardinality(HeldSlots \cap Stretch(e))
      BY <2>2, FS_Difference
    <3> QED BY <1>2, <2>1, <2>3, <3>1
  <2>5. IsFiniteSet(Live') /\ Cardinality(Live') = Cardinality(Live) - 1
    BY <1>1, <1>2, <1>3, FS_RemoveElement DEF Counters
  <2>6. active \in Nat
    BY <1>3, FS_CardinalityType DEF Counters
  <2>7. active' <= MaxActive
    BY Sizes, <1>1, <1>3, <2>6 DEF Counters
  <2> QED BY <1>1, <1>3, <2>4, <2>5, <2>7 DEF Counters
<1> QED BY <1>1, <1>4, <1>5, <1>6 DEF BudgetInv, ProperList, Apart, Proper, End

LEMMA StutterKeeps ==
  ASSUME BudgetInv, UNCHANGED vars
  PROVE  BudgetInv'
<1>1. free' = free /\ held' = held /\ used' = used /\ active' = active
  BY DEF vars
<1>2. Live' = Live
  BY <1>1 DEF Live
<1>3. HeldSlots' = HeldSlots
  BY <1>1, <1>2 DEF HeldSlots
<1>4. HoldersApart'
  BY <1>1, <1>2 DEF BudgetInv, HoldersApart
<1>5. NothingLost' /\ Counters'
  BY <1>1, <1>2, <1>3 DEF BudgetInv, NothingLost, Counters
<1> QED BY <1>1, <1>4, <1>5 DEF BudgetInv

(* The invariant holds in every reachable state of the budget.              *)
THEOREM BudgetInvariance == Spec => []BudgetInv
<1>1. ASSUME BudgetInv, [Next]_vars PROVE BudgetInv'
  <2>1. ASSUME NEW r \in Request, NEW n \in 1..MaxTokens, Reserve(r, n) PROVE BudgetInv'
    BY <1>1, <2>1, ReserveKeeps
  <2>2. ASSUME NEW r \in Request, Release(r) PROVE BudgetInv'
    BY <1>1, <2>2, ReleaseKeeps
  <2>3. CASE UNCHANGED vars
    BY <1>1, <2>3, StutterKeeps
  <2> QED BY <1>1, <2>1, <2>2, <2>3 DEF Next
<1> QED BY <1>1, InitBudget, PTL DEF Spec

-----------------------------------------------------------------------------
(* What follows *)

(* The free list is sorted, and no two of its extents touch, whatever the    *)
(* order in which reservations come back: a free run is never split over    *)
(* two extents, so a request is refused only when no run is long enough.     *)
THEOREM FreeListStaysMerged == Spec => []FreeListIsMerged
<1>1. ASSUME BudgetInv PROVE FreeListIsMerged
  <2>1. ProperList(free) /\ Apart(free) /\ HoldersApart /\ Counters
    BY <1>1 DEF BudgetInv
  <2>2. TypeOK
    BY <2>1 DEF TypeOK, ProperList, HoldersApart, Counters, HeldSlots
  <2>3. ASSUME NEW i \in 1..(Len(free) - 1) PROVE End(free[i]) < free[i + 1].base
    <3>1. Len(free) \in Nat /\ DOMAIN free = 1..Len(free)
      BY <2>1, ListOfExtents
    <3>2. i \in DOMAIN free /\ i + 1 \in DOMAIN free /\ i < i + 1
      BY <3>1
    <3> QED BY <2>1, <3>2 DEF Apart
  <2> QED BY <2>2, <2>3 DEF FreeListIsMerged
<1> QED BY <1>1, BudgetInvariance, PTL

(* Every slot of the pool is in exactly one extent, free or held: no slot is *)
(* lost and none is given to two requests.                                  *)
THEOREM SlotsArePartitioned == Spec => []SlotsPartitioned
<1>1. ASSUME BudgetInv PROVE SlotsPartitioned
  <2> SUFFICES ASSUME NEW t \in Slot
               PROVE  Cardinality({i \in DOMAIN free : Covers(free[i], t)})
                        + Cardinality({r \in Live : Covers(held[r], t)}) = 1
    BY DEF SlotsPartitioned
  <2> DEFINE F == {i \in DOMAIN free : Covers(free[i], t)}
             L == {r \in Live : Covers(held[r], t)}
  <2>1. ProperList(free) /\ Apart(free) /\ HoldersApart /\ NothingLost
    BY <1>1 DEF BudgetInv
  <2>2. \A i, j \in F : i = j
    <3> SUFFICES ASSUME NEW i \in F, NEW j \in F, i < j PROVE FALSE
      <4>1. \A i \in F : i \in Nat
        BY <2>1, ListOfExtents
      <4> QED BY <4>1
    <3>1. End(free[i]) < free[j].base /\ t \in Nat
      BY Sizes, <2>1 DEF Apart, Slot
    <3>2. End(free[i]) \in Nat /\ free[j].base \in Nat
      BY <2>1, ListOfExtents
    <3> QED BY <3>1, <3>2 DEF Covers
  <2>3. \A r, q \in L : r = q
    BY <2>1 DEF HoldersApart, Stretch
  <2>4. F # {} => L = {}
    BY <2>1 DEF HoldersApart, Stretch, SlotsOf
  <2>5. F # {} \/ L # {}
    BY <2>1 DEF NothingLost, SlotsOf, HeldSlots
  <2> HIDE DEF F, L
  <2>6. ASSUME NEW S, S # {}, \A x, y \in S : x = y PROVE Cardinality(S) = 1
    <3>1. PICK x : S = {x}
      BY <2>6
    <3> QED BY <3>1, FS_Singleton
  <2>7. CASE F # {}
    <3>1. Cardinality(F) = 1 /\ Cardinality(L) = 0
      BY <2>2, <2>4, <2>6, <2>7, FS_EmptySet
    <3> QED BY <3>1 DEF F, L
  <2>8. CASE F = {}
    <3>1. Cardinality(L) = 1 /\ Cardinality(F) = 0
      BY <2>3, <2>5, <2>6, <2>8, FS_EmptySet
    <3> QED BY <3>1 DEF F, L
  <2> QED BY <2>7, <2>8
<1> QED BY <1>1, BudgetInvariance, PTL

-----------------------------------------------------------------------------
(* First fit on the list is first fit on the bitmap *)

Owners == [t \in Slot |-> Owner(t)]

LEMMA HolderOf ==
  ASSUME NEW L, NEW h, NEW t,
         \A r, q \in L : Covers(h[r], t) /\ Covers(h[q], t) => r = q
  PROVE  LET o == IF \E r \in L : Covers(h[r], t)
                  THEN CHOOSE r \in L : Covers(h[r], t) ELSE None
         IN  /\ \A r \in L : Covers(h[r], t) => o = r
             /\ (\A r \in L : ~Covers(h[r], t)) => o = None
OBVIOUS

LEMMA OwnerNow ==
  ASSUME HoldersApart, NEW t \in Slot
  PROVE  /\ Owners[t] = Owner(t)
         /\ \A r \in Live : Covers(held[r], t) => Owner(t) = r
         /\ (\A r \in Live : ~Covers(held[r], t)) => Owner(t) = None
<1>1. \A r, q \in Live : Covers(held[r], t) /\ Covers(held[q], t) => r = q
  BY DEF HoldersApart, Stretch
<1> QED BY <1>1, HolderOf DEF Owner, Owners

LEMMA OwnerNext ==
  ASSUME HoldersApart', NEW t \in Slot
  PROVE  /\ Owners'[t] = Owner(t)'
         /\ \A r \in Live' : Covers(held'[r], t) => Owner(t)' = r
         /\ (\A r \in Live' : ~Covers(held'[r], t)) => Owner(t)' = None
<1>1. \A r, q \in Live' : Covers(held'[r], t) /\ Covers(held'[q], t) => r = q
  BY DEF HoldersApart, Stretch, Covers, End
<1>2. Owner(t)' = IF \E r \in Live' : Covers(held'[r], t)
                  THEN CHOOSE r \in Live' : Covers(held'[r], t) ELSE None
  BY DEF Owner, Covers, End
<1>3. Owners'[t] = Owner(t)'
  BY DEF Owners
<1> QED BY <1>1, <1>2, <1>3, HolderOf

(* A slot without an owner is a free one.                                   *)
LEMMA FreeSlots ==
  ASSUME BudgetInv, NEW t \in Slot
  PROVE  Owners[t] = None <=> t \in SlotsOf(free)
<1>1. HoldersApart /\ NothingLost
  BY DEF BudgetInv
<1>2. None \notin Live
  BY BudgetAssumption DEF BudgetAssumption, Live
<1>3. CASE \E r \in Live : Covers(held[r], t)
  <2>1. PICK r \in Live : Covers(held[r], t)
    BY <1>3
  <2>2. Owners[t] = r /\ r # None
    BY <1>1, <1>2, <2>1, OwnerNow
  <2>3. t \notin SlotsOf(free)
    BY <1>1, <2>1 DEF HoldersApart, Stretch
  <2> QED BY <2>2, <2>3
<1>4. CASE \A r \in Live : ~Covers(held[r], t)
  <2>1. Owners[t] = None
    BY <1>1, <1>4, OwnerNow
  <2>2. t \in SlotsOf(free)
    BY <1>1, <1>4 DEF NothingLost, HeldSlots
  <2> QED BY <2>1, <2>2
<1> QED BY <1>3, <1>4

(* A run of free slots lies in one extent: the slot after an extent is held. *)
LEMMA RunsLieInExtents ==
  ASSUME ProperList(free), Apart(free), NEW n \in Nat, n > 0, NEW b \in Slot,
         \A t \in b..(b + n - 1) : t \in SlotsOf(free)
  PROVE  \E i \in DOMAIN free : free[i].base <= b /\ b + n <= End(free[i])
<1>1. b \in Nat /\ b \in b..(b + n - 1)
  BY Sizes DEF Slot
<1>2. PICK i \in DOMAIN free : Covers(free[i], b)
  BY <1>1 DEF SlotsOf
<1>3. \A j \in DOMAIN free : /\ j \in Nat /\ free[j].base \in Nat /\ End(free[j]) \in Nat
                             /\ free[j].base < End(free[j])
  BY ListOfExtents
<1>4. ASSUME End(free[i]) < b + n PROVE FALSE
  <2> DEFINE t == End(free[i])
  <2>1. t \in b..(b + n - 1)
    BY <1>1, <1>2, <1>3, <1>4 DEF Covers
  <2>2. PICK j \in DOMAIN free : Covers(free[j], t)
    BY <2>1 DEF SlotsOf
  <2>3. ~(i < j)
    <3>1. i < j => End(free[i]) < free[j].base
      BY DEF Apart
    <3> QED BY <1>3, <2>2, <3>1 DEF Covers
  <2>4. ~(j < i)
    <3>1. j < i => End(free[j]) < free[i].base
      BY DEF Apart
    <3> QED BY <1>3, <2>2, <3>1 DEF Covers
  <2>5. i # j
    BY <1>3, <2>2 DEF Covers
  <2> QED BY <1>3, <2>3, <2>4, <2>5
<1> QED BY <1>1, <1>2, <1>3, <1>4 DEF Covers

LEMMA InitMaps == Init => Bitmap!Init
<1> SUFFICES ASSUME Init PROVE Bitmap!Init
  OBVIOUS
<1>1. Live = {}
  BY DEF Init, Live
<1>2. \A t \in Slot : Owner(t) = None
  BY <1>1 DEF Owner
<1> QED BY <1>2 DEF Bitmap!Init, Bitmap!Slot, Slot

LEMMA ReserveMaps ==
  ASSUME BudgetInv, HoldersApart', NEW r \in Request, NEW n \in 1..MaxTokens, Reserve(r, n)
  PROVE  Bitmap!Reserve(r, Rounded(n))
<1> DEFINE m == Rounded(n)
           i == FirstFit(m)
           e == [base |-> free[i].base, tokens |-> m]
           R == Bitmap!FreeRuns(m)
<1>1. ProperList(free) /\ Apart(free) /\ HoldersApart /\ NothingLost
  BY DEF BudgetInv
<1>2. /\ r \notin Live /\ Proper(e) /\ Stretch(e) \subseteq SlotsOf(free)
      /\ held' = [held EXCEPT ![r] = e]
  BY <1>1, ReserveEffect
<1>3. /\ Live' = Live \cup {r} /\ \A q \in Live' : held'[q] = IF q = r THEN e ELSE held[q]
  BY <1>2, Reserved
<1>4. m \in Nat /\ m > 0
  BY RoundedIsWhole
<1>5. /\ i \in DOMAIN free
      /\ \A j \in DOMAIN free : free[j].tokens >= m => i <= j
  <2>1. Fitting(m) # {}
    BY DEF Reserve
  <2> QED BY <1>1, <2>1, FirstFits
<1>6. /\ e.base = free[i].base /\ End(e) = free[i].base + m
      /\ e.base \in Nat /\ End(e) <= MaxTokens
  <2>1. e.base = free[i].base /\ e.tokens = m
    OBVIOUS
  <2> HIDE DEF e
  <2> QED BY <1>2, <2>1, ProperExtent DEF End
<1> HIDE DEF m, i
<1>7. \A t \in Slot : t \in Stretch(e) <=> t \in e.base..(e.base + m - 1)
  BY Sizes, <1>4, <1>6 DEF Stretch, Covers, Slot
<1> HIDE DEF e
<1>8. /\ R = {b \in Slot : \A t \in b..(b + m - 1) : t \in Slot /\ Owners[t] = None}
      /\ \A b \in R : b \in Slot /\ \A t \in b..(b + m - 1) : t \in Slot /\ Owners[t] = None
  BY DEF Bitmap!FreeRuns, Bitmap!Run, Bitmap!Slot, Slot, Owners
<1> HIDE DEF R
<1>9. e.base \in R
  <2>1. \A t \in e.base..(e.base + m - 1) : t \in Slot
    BY Sizes, <1>4, <1>6 DEF Slot
  <2>2. \A t \in e.base..(e.base + m - 1) : Owners[t] = None
    BY <1>2, <1>7, <2>1, FreeSlots
  <2>3. e.base \in Slot
    BY <1>4, <1>6, <2>1
  <2> QED BY <1>8, <2>1, <2>2, <2>3
<1>10. ASSUME NEW b \in R PROVE e.base <= b
  <2>1. b \in Slot /\ \A t \in b..(b + m - 1) : t \in SlotsOf(free)
    BY <1>8, FreeSlots
  <2>2. PICK j \in DOMAIN free : free[j].base <= b /\ b + m <= End(free[j])
    BY <1>1, <1>4, <2>1, RunsLieInExtents
  <2>3. /\ \A k \in DOMAIN free : /\ k \in Nat /\ free[k].base \in Nat /\ free[k].tokens \in Nat
                                  /\ End(free[k]) = free[k].base + free[k].tokens
                                  /\ free[k].base < End(free[k]) /\ End(free[k]) \in Nat
    BY <1>1, ListOfExtents
  <2>4. b \in Nat
    BY Sizes, <2>1 DEF Slot
  <2>5. free[j].tokens >= m
    BY <1>4, <2>2, <2>3, <2>4
  <2>6. i <= j
    BY <1>5, <2>5
  <2>7. CASE i = j
    BY <1>6, <2>2, <2>7
  <2>8. CASE i < j
    <3>1. End(free[i]) < free[j].base
      BY <1>1, <1>5, <2>8 DEF Apart
    <3> QED BY <1>5, <1>6, <2>2, <2>3, <2>4, <3>1
  <2> QED BY <1>5, <2>3, <2>6, <2>7, <2>8
<1>11. Min(R) = e.base
  <2>1. \A b \in R : b \in Nat
    BY <1>8, Sizes DEF Slot
  <2>2. ASSUME NEW x \in R, \A y \in R : x <= y PROVE x = e.base
    BY <1>9, <1>10, <2>1, <2>2
  <2> QED BY <1>9, <1>10, <2>2 DEF Min
<1>12. ASSUME NEW t \in Slot
       PROVE  Owner(t)' = IF t \in e.base..(e.base + m - 1) THEN r ELSE Owners[t]
  <2>1. CASE t \in Stretch(e)
    <3>1. r \in Live' /\ Covers(held'[r], t)
      BY <1>3, <2>1 DEF Stretch
    <3>2. Owner(t)' = r
      BY <3>1, OwnerNext
    <3> QED BY <1>7, <2>1, <3>2
  <2>2. CASE t \notin Stretch(e)
    <3>1. ~Covers(e, t)
      BY <2>2 DEF Stretch
    <3>2. CASE \E q \in Live : Covers(held[q], t)
      <4>1. PICK q \in Live : Covers(held[q], t)
        BY <3>2
      <4>2. q \in Live' /\ Covers(held'[q], t)
        BY <1>2, <1>3, <4>1
      <4>3. Owner(t)' = q
        BY <4>2, OwnerNext
      <4>4. Owners[t] = q
        BY <1>1, <4>1, OwnerNow
      <4> QED BY <1>7, <2>2, <4>3, <4>4
    <3>3. CASE \A q \in Live : ~Covers(held[q], t)
      <4>1. \A q \in Live' : ~Covers(held'[q], t)
        BY <1>3, <3>1, <3>3
      <4>2. Owner(t)' = None
        BY <4>1, OwnerNext
      <4>3. Owners[t] = None
        BY <1>1, <3>3, OwnerNow
      <4> QED BY <1>7, <2>2, <4>2, <4>3
    <3> QED BY <3>2, <3>3
  <2> QED BY <2>1, <2>2
<1>13. ~Bitmap!Holds(r)
  <2> SUFFICES ASSUME NEW t \in Slot, Owners[t] = r PROVE FALSE
    BY DEF Bitmap!Holds, Bitmap!Slot, Slot, Owners
  <2>1. r # None
    BY BudgetAssumption DEF BudgetAssumption
  <2>2. Owners[t] = None \/ \E q \in Live : Owners[t] = q
    BY <1>1, OwnerNow
  <2> QED BY <1>2, <2>1, <2>2
<1>14. Owners' = [t \in Slot |-> IF t \in e.base..(e.base + m - 1) THEN r ELSE Owners[t]]
  BY <1>12 DEF Owners
<1>15. R # {}
  BY <1>9
<1>16. Owners' = [t \in Bitmap!Slot |->
                     IF t \in Bitmap!Run(Min(R), m) THEN r ELSE Owners[t]]
  BY <1>11, <1>14 DEF Bitmap!Run, Bitmap!Slot, Slot
<1>17. Bitmap!FreeRuns(m) # {} /\ Owners' = [t \in Bitmap!Slot |->
                     IF t \in Bitmap!Run(Min(Bitmap!FreeRuns(m)), m) THEN r ELSE Owners[t]]
  BY <1>15, <1>16 DEF R
<1>18. Bitmap!Min(Bitmap!FreeRuns(m)) = Min(Bitmap!FreeRuns(m))
  BY DEF Bitmap!Min, Min
<1>19. Bitmap!Reserve(r, m)
  BY <1>13, <1>17, <1>18 DEF Bitmap!Reserve, Owners
<1> QED BY <1>19 DEF m

LEMMA ReleaseMaps ==
  ASSUME BudgetInv, HoldersApart', NEW r \in Request, Release(r)
  PROVE  Bitmap!Release(r)
<1> DEFINE e == held[r]
<1>1. HoldersApart
  BY DEF BudgetInv
<1>2. r \in Live /\ Proper(e) /\ held' = [held EXCEPT ![r] = None]
  BY ReleaseEffect
<1>3. Live' = Live \ {r} /\ \A q \in Live' : held'[q] = held[q]
  BY <1>2, Released
<1>4. Bitmap!Holds(r)
  <2>1. PICK t \in Slot : Covers(e, t)
    BY <1>2, StretchCounted DEF Stretch
  <2>2. Owners[t] = r
    BY <1>1, <1>2, <2>1, OwnerNow
  <2> QED BY <2>2 DEF Bitmap!Holds, Bitmap!Slot, Slot, Owners
<1>5. ASSUME NEW t \in Slot
      PROVE  Owner(t)' = IF Owners[t] = r THEN None ELSE Owners[t]
  <2>1. CASE Covers(e, t)
    <3>1. Owners[t] = r
      BY <1>1, <1>2, <2>1, OwnerNow
    <3>2. \A q \in Live' : ~Covers(held'[q], t)
      BY <1>1, <1>2, <1>3, <2>1 DEF HoldersApart, Stretch
    <3>3. Owner(t)' = None
      BY <3>2, OwnerNext
    <3> QED BY <3>1, <3>3
  <2>2. CASE ~Covers(e, t) /\ \E q \in Live : Covers(held[q], t)
    <3>1. PICK q \in Live : Covers(held[q], t)
      BY <2>2
    <3>2. q # r /\ q \in Live' /\ Covers(held'[q], t)
      BY <1>3, <2>2, <3>1
    <3>3. Owner(t)' = q /\ Owners[t] = q
      BY <1>1, <3>1, <3>2, OwnerNow, OwnerNext
    <3> QED BY <3>2, <3>3
  <2>3. CASE \A q \in Live : ~Covers(held[q], t)
    <3>1. \A q \in Live' : ~Covers(held'[q], t)
      BY <1>3, <2>3
    <3>2. Owner(t)' = None /\ Owners[t] = None
      BY <1>1, <2>3, <3>1, OwnerNow, OwnerNext
    <3> QED BY <3>2
  <2> QED BY <2>1, <2>2, <2>3
<1>6. Owners' = [t \in Slot |-> IF Owners[t] = r THEN None ELSE Owners[t]]
  BY <1>5 DEF Owners
<1> QED BY <1>4, <1>6 DEF Bitmap!Release, Bitmap!Slot, Slot, Owners

(* The list of extents implements the bitmap: a request gets the lowest run  *)
(* of free slots that is long enough, and a release frees exactly the slots  *)
(* that were reserved.                                                      *)
THEOREM BudgetImplementsBitmap == Spec => ImplementsBitmap
<1>1. ASSUME BudgetInv, BudgetInv', [Next]_vars
      PROVE  [Bitmap!Next]_Owners
  <2>1. HoldersApart'
    BY <1>1 DEF BudgetInv
  <2>2. ASSUME NEW r \in Request, NEW n \in 1..MaxTokens, Reserve(r, n) PROVE Bitmap!Next
    <3>1. Bitmap!Reserve(r, Rounded(n))
      BY <1>1, <2>1, <2>2, ReserveMaps
    <3> QED BY <3>1 DEF Bitmap!Next
  <2>3. ASSUME NEW r \in Request, Release(r) PROVE Bitmap!Next
    <3>1. Bitmap!Release(r)
      BY <1>1, <2>1, <2>3, ReleaseMaps
    <3> QED BY <3>1 DEF Bitmap!Next
  <2>4. ASSUME UNCHANGED vars PROVE Owners' = Owners
    <3>1. held' = held /\ Live' = Live
      BY <2>4 DEF vars, Live
    <3>2. \A t \in Slot : Owner(t)' = Owner(t)
      BY <3>1 DEF Owner, Covers, End
    <3> QED BY <3>2 DEF Owners
  <2> QED BY <1>1, <2>2, <2>3, <2>4 DEF Next
<1>2. Bitmap!Spec <=> Bitmap!Init /\ [][Bitmap!Next]_Owners
  BY DEF Bitmap!Spec, Owners
<1> QED BY <1>1, <1>2, InitMaps, BudgetInvariance, PTL DEF Spec, ImplementsBitmap

=============================================================================
