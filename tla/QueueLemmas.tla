----------------------------- MODULE QueueLemmas -----------------------------
(***************************************************************************)
(* What the operators on queues return: the elements of a list after one is *)
(* appended, taken or kept, and the list of a set in ascending order.       *)
(***************************************************************************)
EXTENDS Queues, SequencesExt, SequenceTheorems, FunctionTheorems,
        FiniteSetTheorems, TLAPS

(* An element put at the tail.                                              *)
LEMMA Appended ==
  ASSUME NEW S, NEW q \in Seq(S), NEW e \in S
  PROVE  /\ Append(q, e) \in Seq(S)
         /\ Len(Append(q, e)) = Len(q) + 1
         /\ ToSet(Append(q, e)) = ToSet(q) \cup {e}
         /\ IsInjective(q) /\ e \notin ToSet(q) => IsInjective(Append(q, e))
<1> DEFINE a == Append(q, e)
<1>1. /\ a \in Seq(S) /\ Len(a) = Len(q) + 1 /\ a[Len(q) + 1] = e
      /\ \A i \in 1..Len(q) : a[i] = q[i]
  BY AppendProperties
<1>2. Len(q) \in Nat /\ DOMAIN q = 1..Len(q) /\ DOMAIN a = 1..(Len(q) + 1)
  BY <1>1, LenProperties
<1>3. DOMAIN a = DOMAIN q \cup {Len(q) + 1} /\ Len(q) + 1 \notin DOMAIN q
  BY <1>2
<1> HIDE DEF a
<1>4. ToSet(a) = ToSet(q) \cup {e}
  BY <1>1, <1>2, <1>3 DEF ToSet
<1>5. IsInjective(q) /\ e \notin ToSet(q) => IsInjective(a)
  BY <1>1, <1>2, <1>3 DEF ToSet, IsInjective
<1> QED BY <1>1, <1>4, <1>5 DEF a

(* The element at the head, taken.                                          *)
LEMMA Taken ==
  ASSUME NEW S, NEW q \in Seq(S), q # <<>>
  PROVE  /\ Tail(q) \in Seq(S)
         /\ Head(q) \in S
         /\ ToSet(q) = ToSet(Tail(q)) \cup {Head(q)}
         /\ IsInjective(q) =>
              IsInjective(Tail(q)) /\ Head(q) \notin ToSet(Tail(q))
<1> DEFINE t == Tail(q)
<1>1. /\ Head(q) \in S /\ t \in Seq(S) /\ Len(t) = Len(q) - 1
      /\ \A i \in 1..Len(t) : t[i] = q[i + 1]
  BY HeadTailProperties
<1>2. Len(q) \in Nat /\ Len(q) # 0 /\ DOMAIN q = 1..Len(q) /\ DOMAIN t = 1..(Len(q) - 1)
  BY <1>1, LenProperties, EmptySeq
<1>3. Head(q) = q[1]
  OBVIOUS
<1> HIDE DEF t
<1>4. \A i \in DOMAIN q : i = 1 \/ (i - 1 \in DOMAIN t /\ q[i] = t[i - 1])
  BY <1>1, <1>2
<1>5. \A i \in DOMAIN t : i + 1 \in DOMAIN q /\ i + 1 # 1 /\ q[i + 1] = t[i]
  BY <1>1, <1>2
<1>6. 1 \in DOMAIN q
  BY <1>2
<1>7. ToSet(q) = ToSet(t) \cup {q[1]}
  BY <1>4, <1>5, <1>6 DEF ToSet
<1>8. IsInjective(q) => IsInjective(t) /\ q[1] \notin ToSet(t)
  BY <1>2, <1>5, <1>6 DEF ToSet, IsInjective
<1> QED BY <1>1, <1>3, <1>7, <1>8 DEF t

(* A queue without repetition is as long as the set of its elements is large. *)
LEMMA Counted ==
  ASSUME NEW S, NEW q \in Seq(S), IsInjective(q)
  PROVE  /\ IsFiniteSet(ToSet(q))
         /\ Cardinality(ToSet(q)) = Len(q)
         /\ Len(q) \in Nat
<1>1. Len(q) \in Nat /\ q \in [1..Len(q) -> S] /\ DOMAIN q = 1..Len(q)
  BY LenProperties
<1>2. q \in [1..Len(q) -> ToSet(q)]
  BY <1>1 DEF ToSet
<1>3. q \in Surjection(1..Len(q), ToSet(q)) /\ q \in Injection(1..Len(q), ToSet(q))
  BY <1>1, <1>2 DEF ToSet, Surjection, Injection, IsInjective
<1>4. IsFiniteSet(1..Len(q)) /\ Cardinality(1..Len(q)) = Len(q)
  BY <1>1, FS_Interval
<1> QED BY <1>1, <1>3, <1>4, FS_Surjection

Rank(S, x) == Cardinality({y \in S : y <= x})

(* Ascending is what its name says: the place of each element is its rank.   *)
LEMMA RanksAreDistinct ==
  ASSUME NEW S, S \subseteq Nat, IsFiniteSet(S)
  PROVE  /\ \A x \in S : Rank(S, x) \in 1..Cardinality(S)
         /\ \A x, y \in S : x < y => Rank(S, x) < Rank(S, y)
<1>1. \A x \in S : LET B == {y \in S : y <= x}
                   IN  /\ IsFiniteSet(B) /\ Cardinality(B) \in Nat
                       /\ Cardinality(B) <= Cardinality(S)
  BY FS_Subset, FS_CardinalityType
<1>2. ASSUME NEW x \in S, NEW y \in S, x < y
      PROVE  Rank(S, x) < Rank(S, y)
  <2> DEFINE B == {z \in S : z <= x}
             C == {z \in S : z <= y}
  <2>1. IsFiniteSet(C) /\ Cardinality(C) \in Nat /\ Cardinality(B) \in Nat
    BY <1>1
  <2>2. B \subseteq C
    <3> SUFFICES ASSUME NEW z \in S, z <= x PROVE z <= y
      OBVIOUS
    <3>1. x \in Nat /\ y \in Nat /\ z \in Nat
      OBVIOUS
    <3> QED BY <1>2, <3>1
  <2>3. y \in C /\ y \notin B
    BY <1>2
  <2> HIDE DEF B, C
  <2>4. Cardinality(B) <= Cardinality(C) /\ Cardinality(B) # Cardinality(C)
    BY <2>1, <2>2, <2>3, FS_Subset
  <2> QED BY <2>1, <2>4 DEF Rank, B, C
<1>3. ASSUME NEW x \in S PROVE Rank(S, x) # 0
  <2>1. x \in {y \in S : y <= x}
    OBVIOUS
  <2> QED BY <1>1, <2>1, FS_EmptySet DEF Rank
<1>4. Cardinality(S) \in Nat
  BY FS_CardinalityType
<1> QED BY <1>1, <1>2, <1>3, <1>4 DEF Rank

LEMMA AscendingEnumerates ==
  ASSUME NEW S, S \subseteq Nat, IsFiniteSet(S)
  PROVE  /\ Ascending(S) \in Seq(S)
         /\ Len(Ascending(S)) = Cardinality(S)
         /\ IsInjective(Ascending(S))
         /\ ToSet(Ascending(S)) = S
         /\ \A k \in 1..Cardinality(S) : Rank(S, Ascending(S)[k]) = k
<1> DEFINE n == Cardinality(S)
           rank == [x \in S |-> Rank(S, x)]
           at(k) == CHOOSE x \in S : Rank(S, x) = k
<1>1. n \in Nat
  BY FS_CardinalityType
<1>2. /\ \A x \in S : Rank(S, x) \in 1..n
      /\ \A x, y \in S : x < y => Rank(S, x) < Rank(S, y)
  BY RanksAreDistinct
<1>3. ASSUME NEW x \in S, NEW y \in S, Rank(S, x) = Rank(S, y)
      PROVE  x = y
  <2>1. x \in Nat /\ y \in Nat /\ Rank(S, x) \in Nat
    BY <1>1, <1>2
  <2>2. ~(x < y) /\ ~(y < x)
    BY <1>2, <1>3, <2>1
  <2> QED BY <2>1, <2>2
<1>4. IsFiniteSet(1..n) /\ Cardinality(1..n) = n
  BY <1>1, FS_Interval
<1>5. rank \in [S -> 1..n] /\ IsInjective(rank)
  BY <1>2, <1>3 DEF IsInjective
<1>6. rank \in Injection(S, 1..n)
  BY <1>5 DEF Injection
<1>7. rank \in Surjection(S, 1..n)
  BY <1>4, <1>6, FS_Injection
<1>8. \A k \in 1..n : \E x \in S : Rank(S, x) = k
  BY <1>7 DEF Surjection
<1>9. \A k \in 1..n : at(k) \in S /\ Rank(S, at(k)) = k
  BY <1>8
<1>10. Ascending(S) = [k \in 1..n |-> at(k)]
  BY DEF Ascending, Rank
<1> HIDE DEF n, at
<1>11. Ascending(S) \in Seq(S)
  BY <1>1, <1>9, <1>10
<1>12. DOMAIN Ascending(S) = 1..n /\ Len(Ascending(S)) = n
  BY <1>1, <1>10, <1>11, LenProperties
<1>13. IsInjective(Ascending(S))
  BY <1>9, <1>10, <1>12 DEF IsInjective
<1>14. \A x \in S : at(Rank(S, x)) = x
  BY <1>2, <1>3, <1>9
<1>15. ToSet(Ascending(S)) = S
  <2>1. ToSet(Ascending(S)) = {at(k) : k \in 1..n}
    BY <1>10 DEF ToSet
  <2>2. \A x \in S : \E k \in 1..n : at(k) = x
    BY <1>2, <1>14
  <2> QED BY <1>9, <2>1, <2>2
<1>16. \A k \in 1..n : Rank(S, Ascending(S)[k]) = k
  BY <1>9, <1>10
<1> QED BY <1>11, <1>12, <1>13, <1>15, <1>16 DEF n

(* What is kept of a queue, in a queue.                                     *)
LEMMA Kept ==
  ASSUME NEW S, NEW q \in Seq(S), IsInjective(q), NEW K
  PROVE  /\ Keep(q, K) \in Seq(S)
         /\ IsInjective(Keep(q, K))
         /\ ToSet(Keep(q, K)) = ToSet(q) \cap K
<1> DEFINE I == {i \in DOMAIN q : q[i] \in K}
           a == Ascending(I)
<1>1. Len(q) \in Nat /\ q \in [1..Len(q) -> S] /\ DOMAIN q = 1..Len(q)
  BY LenProperties
<1>2. I \subseteq Nat /\ IsFiniteSet(I)
  <2>1. I \in SUBSET (1..Len(q)) /\ 1..Len(q) \subseteq Nat
    BY <1>1
  <2>2. IsFiniteSet(1..Len(q))
    BY <1>1, FS_Interval
  <2> HIDE DEF I
  <2> QED BY <2>1, <2>2, FS_Subset
<1>3. a \in Seq(I) /\ IsInjective(a) /\ ToSet(a) = I
  BY <1>2, AscendingEnumerates
<1>4. Len(a) \in Nat /\ DOMAIN a = 1..Len(a) /\ \A k \in DOMAIN a : a[k] \in I
  <2> HIDE DEF a, I
  <2>1. Len(a) \in Nat /\ DOMAIN a = 1..Len(a) /\ a \in [1..Len(a) -> I]
    BY <1>3, LenProperties
  <2> QED BY <2>1
<1>5. Keep(q, K) = [k \in DOMAIN a |-> q[a[k]]]
  BY DEF Keep
<1>6. \A i \in I : i \in DOMAIN q /\ q[i] \in S /\ q[i] \in K
  BY <1>1
<1>7. ToSet(q) \cap K = {q[i] : i \in I}
  BY DEF ToSet
<1> HIDE DEF I, a
<1>8. Keep(q, K) \in Seq(S)
  BY <1>4, <1>5, <1>6
<1>9. IsInjective(Keep(q, K))
  BY <1>3, <1>4, <1>5, <1>6 DEF IsInjective
<1>10. ToSet(Keep(q, K)) = {q[i] : i \in I}
  BY <1>3, <1>5 DEF ToSet
<1> QED BY <1>7, <1>8, <1>9, <1>10

Leading(q, n) == {q[i] : i \in 1..n}

LEMMA LeadingCounted ==
  ASSUME NEW S, NEW q \in Seq(S), IsInjective(q), NEW n \in 0..Len(q)
  PROVE  IsFiniteSet(Leading(q, n)) /\ Cardinality(Leading(q, n)) = n
<1> DEFINE f == [i \in 1..n |-> q[i]]
<1>1. Len(q) \in Nat /\ n \in Nat /\ n <= Len(q) /\ DOMAIN q = 1..Len(q)
  BY LenProperties
<1>2. IsFiniteSet(1..n) /\ Cardinality(1..n) = n
  BY <1>1, FS_Interval
<1>3. f \in [1..n -> Leading(q, n)]
  BY DEF Leading
<1>4. IsInjective(f)
  BY <1>1 DEF IsInjective
<1>5. f \in Surjection(1..n, Leading(q, n)) /\ f \in Injection(1..n, Leading(q, n))
  BY <1>3, <1>4 DEF Surjection, Injection, Leading
<1> HIDE DEF f
<1> QED BY <1>2, <1>5, FS_Surjection

(* The first n of a queue and the rest.                                     *)
LEMMA Parted ==
  ASSUME NEW S, NEW q \in Seq(S), IsInjective(q), NEW n \in 0..Len(q)
  PROVE  /\ SubSeq(q, n + 1, Len(q)) \in Seq(S)
         /\ IsInjective(SubSeq(q, n + 1, Len(q)))
         /\ ToSet(q) = {q[i] : i \in 1..n} \cup ToSet(SubSeq(q, n + 1, Len(q)))
         /\ {q[i] : i \in 1..n} \cap ToSet(SubSeq(q, n + 1, Len(q))) = {}
         /\ IsFiniteSet({q[i] : i \in 1..n})
         /\ Cardinality({q[i] : i \in 1..n}) = n
<1> DEFINE first == {q[i] : i \in 1..n}
           rest  == SubSeq(q, n + 1, Len(q))
<1>1. Len(q) \in Nat /\ n \in Nat /\ n <= Len(q) /\ DOMAIN q = 1..Len(q)
      /\ q \in [1..Len(q) -> S]
  BY LenProperties
<1>2. \A i \in (n + 1)..Len(q) : q[i] \in S
  BY <1>1
<1>3. /\ rest \in Seq(S) /\ Len(rest) = Len(q) - n
      /\ \A i \in 1..(Len(q) - n) : rest[i] = q[n + i]
  <2>1. n + 1 \in Int /\ Len(q) \in Int
    BY <1>1
  <2>2. /\ rest \in Seq(S)
        /\ Len(rest) = IF n + 1 <= Len(q) THEN Len(q) - (n + 1) + 1 ELSE 0
        /\ \A i \in 1..(Len(q) - (n + 1) + 1) : rest[i] = q[(n + 1) + i - 1]
    BY <1>2, <2>1, SubSeqProperties
  <2>3. Len(q) - (n + 1) + 1 = Len(q) - n
    BY <1>1
  <2>4. \A i \in Nat : (n + 1) + i - 1 = n + i
    BY <1>1
  <2> HIDE DEF rest
  <2>5. Len(rest) = Len(q) - n
    <3>1. CASE n + 1 <= Len(q)
      BY <2>2, <2>3, <3>1
    <3>2. CASE ~(n + 1 <= Len(q))
      <4>1. \A a, b \in Nat : a <= b /\ ~(a + 1 <= b) => b - a = 0
        OBVIOUS
      <4> QED BY <1>1, <2>2, <3>2, <4>1
    <3> QED BY <3>1, <3>2
  <2>6. ASSUME NEW i \in 1..(Len(q) - n) PROVE rest[i] = q[n + i]
    <3>1. i \in Nat /\ i \in 1..(Len(q) - (n + 1) + 1)
      BY <2>3
    <3> QED BY <2>2, <2>4, <3>1
  <2> QED BY <2>2, <2>5, <2>6
<1>4. DOMAIN rest = 1..(Len(q) - n)
  BY <1>3, LenProperties
<1> HIDE DEF rest
<1>5. \A i \in DOMAIN rest : n + i \in DOMAIN q /\ n + i > n /\ rest[i] = q[n + i]
  BY <1>1, <1>3, <1>4
<1>6. \A i \in DOMAIN q : i \in 1..n \/ (i - n \in DOMAIN rest /\ rest[i - n] = q[i])
  BY <1>1, <1>3, <1>4
<1>7. IsInjective(rest)
  <2> SUFFICES ASSUME NEW i \in DOMAIN rest, NEW j \in DOMAIN rest, rest[i] = rest[j]
               PROVE  i = j
    BY DEF IsInjective
  <2>1. n + i = n + j
    BY <1>5 DEF IsInjective
  <2> QED BY <1>1, <1>4, <2>1
<1>8. ToSet(q) = first \cup ToSet(rest)
  BY <1>1, <1>5, <1>6 DEF ToSet
<1>9. first \cap ToSet(rest) = {}
  <2> SUFFICES ASSUME NEW i \in 1..n, NEW j \in DOMAIN rest, q[i] = rest[j]
               PROVE  FALSE
    BY DEF ToSet
  <2>1. i = n + j
    BY <1>1, <1>5 DEF IsInjective
  <2> QED BY <1>1, <1>4, <2>1
<1>10. IsFiniteSet(first) /\ Cardinality(first) = n
  BY LeadingCounted DEF Leading
<1> QED BY <1>3, <1>7, <1>8, <1>9, <1>10 DEF rest

(* A set and a queue without repetition that have nothing in common.        *)
LEMMA CrowdCounted ==
  ASSUME NEW A, IsFiniteSet(A), NEW S, NEW q \in Seq(S), IsInjective(q),
         A \cap ToSet(q) = {}
  PROVE  /\ IsFiniteSet(A \cup ToSet(q))
         /\ Cardinality(A \cup ToSet(q)) = Cardinality(A) + Len(q)
         /\ Cardinality(A) \in Nat /\ Len(q) \in Nat
<1>1. IsFiniteSet(ToSet(q)) /\ Cardinality(ToSet(q)) = Len(q) /\ Len(q) \in Nat
  BY Counted
<1>2. /\ IsFiniteSet(A \cup ToSet(q))
      /\ Cardinality(A \cup ToSet(q))
           = Cardinality(A) + Cardinality(ToSet(q)) - Cardinality(A \cap ToSet(q))
  BY <1>1, FS_Union
<1>3. Cardinality(A) \in Nat /\ Cardinality(A \cap ToSet(q)) = 0
  BY FS_CardinalityType, FS_EmptySet
<1> QED BY <1>1, <1>2, <1>3

(* Lists in ascending order.                                                *)
Sorted(q) == \A i, j \in DOMAIN q : i < j => q[i] < q[j]

LEMMA SortedIsInjective ==
  ASSUME NEW q \in Seq(Nat), Sorted(q)
  PROVE  IsInjective(q)
<1> SUFFICES ASSUME NEW i \in DOMAIN q, NEW j \in DOMAIN q, q[i] = q[j]
             PROVE  i = j
  BY DEF IsInjective
<1>1. DOMAIN q = 1..Len(q) /\ Len(q) \in Nat /\ q \in [1..Len(q) -> Nat]
  BY LenProperties
<1>2. i \in Nat /\ j \in Nat /\ q[i] \in Nat /\ q[j] \in Nat
  BY <1>1
<1>3. ~(i < j) /\ ~(j < i)
  BY <1>2 DEF Sorted
<1> QED BY <1>2, <1>3

(* A list in ascending order is the one Ascending returns.                  *)
LEMMA SortedIsAscending ==
  ASSUME NEW q \in Seq(Nat), Sorted(q)
  PROVE  q = Ascending(ToSet(q))
<1> DEFINE S == ToSet(q)
<1>1. Len(q) \in Nat /\ DOMAIN q = 1..Len(q) /\ q \in [1..Len(q) -> Nat]
  BY LenProperties
<1>2. IsInjective(q)
  BY SortedIsInjective
<1>3. IsFiniteSet(S) /\ Cardinality(S) = Len(q)
  BY <1>2, Counted
<1>4. S \subseteq Nat
  BY <1>1 DEF ToSet
<1>5. ASSUME NEW k \in 1..Len(q)
      PROVE  Rank(S, q[k]) = k
  <2>1. {y \in S : y <= q[k]} = {q[i] : i \in 1..k}
    <3>1. ASSUME NEW i \in 1..Len(q) PROVE q[i] <= q[k] <=> i \in 1..k
      <4>1. i \in Nat /\ k \in Nat /\ q[i] \in Nat /\ q[k] \in Nat /\ i >= 1
        BY <1>1
      <4>2. i < k => q[i] < q[k]
        BY <1>1 DEF Sorted
      <4>3. k < i => q[k] < q[i]
        BY <1>1 DEF Sorted
      <4> QED BY <4>1, <4>2, <4>3
    <3>2. \A i \in 1..k : i \in 1..Len(q)
      BY <1>1
    <3> QED BY <1>1, <3>1, <3>2 DEF ToSet
  <2>2. k \in 0..Len(q)
    BY <1>1
  <2>3. Cardinality({q[i] : i \in 1..k}) = k
    BY <1>2, <2>2, LeadingCounted DEF Leading
  <2> QED BY <2>1, <2>2, <2>3 DEF Rank
<1>6. \A x, y \in S : x < y => Rank(S, x) < Rank(S, y)
  BY <1>3, <1>4, RanksAreDistinct
<1>7. ASSUME NEW k \in 1..Len(q)
      PROVE  (CHOOSE x \in S : Rank(S, x) = k) = q[k]
  <2>1. q[k] \in S
    BY <1>1 DEF ToSet
  <2>2. ASSUME NEW x \in S, Rank(S, x) = k PROVE x = q[k]
    <3>1. x \in Nat /\ q[k] \in Nat /\ k \in Nat
      BY <1>1, <1>4
    <3>2. ~(x < q[k]) /\ ~(q[k] < x)
      BY <1>5, <1>6, <2>1, <2>2, <3>1
    <3> QED BY <3>1, <3>2
  <2> HIDE DEF S
  <2> QED BY <1>5, <2>1, <2>2
<1> HIDE DEF S
<1>8. Ascending(S) = [k \in 1..Len(q) |-> CHOOSE x \in S : Rank(S, x) = k]
  BY <1>3 DEF Ascending, Rank
<1>9. Ascending(S) = [k \in 1..Len(q) |-> q[k]]
  BY <1>7, <1>8
<1> QED BY <1>1, <1>9 DEF S

LEMMA AscendingIsSorted ==
  ASSUME NEW S, S \subseteq Nat, IsFiniteSet(S)
  PROVE  Ascending(S) \in Seq(Nat) /\ Sorted(Ascending(S)) /\ ToSet(Ascending(S)) = S
<1> DEFINE a == Ascending(S)
           n == Cardinality(S)
<1>1. /\ a \in Seq(S) /\ Len(a) = n /\ ToSet(a) = S
      /\ \A k \in 1..n : Rank(S, a[k]) = k
  BY AscendingEnumerates
<1>2. n \in Nat
  BY FS_CardinalityType
<1>3. \A x, y \in S : x < y => Rank(S, x) < Rank(S, y)
  BY RanksAreDistinct
<1> HIDE DEF a, n
<1>4. DOMAIN a = 1..n /\ a \in [1..n -> S]
  BY <1>1, LenProperties
<1>5. \A k \in 1..n : a[k] \in S /\ a[k] \in Nat
  BY <1>4
<1>6. ASSUME NEW i \in DOMAIN a, NEW j \in DOMAIN a, i < j
      PROVE  a[i] < a[j]
  <2>1. i \in Nat /\ j \in Nat /\ a[i] \in Nat /\ a[j] \in Nat /\ a[i] \in S /\ a[j] \in S
    BY <1>2, <1>4, <1>5
  <2>2. Rank(S, a[i]) = i /\ Rank(S, a[j]) = j
    BY <1>1, <1>4
  <2>3. a[i] # a[j] /\ ~(a[j] < a[i])
    BY <1>3, <1>6, <2>1, <2>2
  <2> QED BY <2>1, <2>3
<1>7. Sorted(a)
  BY <1>6 DEF Sorted
<1>8. a \in Seq(Nat)
  <2>1. a \in [1..n -> Nat]
    BY <1>4, <1>5
  <2> QED BY <1>2, <2>1
<1> QED BY <1>1, <1>7, <1>8 DEF a

(* What is kept of a list in ascending order, and two such lists one after  *)
(* the other.                                                               *)
LEMMA KeptIsSorted ==
  ASSUME NEW q \in Seq(Nat), Sorted(q), NEW K
  PROVE  Keep(q, K) \in Seq(Nat) /\ Sorted(Keep(q, K)) /\ ToSet(Keep(q, K)) = ToSet(q) \cap K
<1> DEFINE I == {i \in DOMAIN q : q[i] \in K}
           a == Ascending(I)
<1>1. Len(q) \in Nat /\ DOMAIN q = 1..Len(q) /\ q \in [1..Len(q) -> Nat]
  BY LenProperties
<1>2. I \subseteq Nat /\ IsFiniteSet(I)
  <2>1. I \in SUBSET (1..Len(q)) /\ 1..Len(q) \subseteq Nat
    BY <1>1
  <2>2. IsFiniteSet(1..Len(q))
    BY <1>1, FS_Interval
  <2> HIDE DEF I
  <2> QED BY <2>1, <2>2, FS_Subset
<1>3. Sorted(a)
  BY <1>2, AscendingIsSorted
<1>4. a \in Seq(I)
  BY <1>2, AscendingEnumerates
<1>5. Keep(q, K) = [k \in DOMAIN a |-> q[a[k]]]
  BY DEF Keep
<1>6. I \subseteq DOMAIN q
  OBVIOUS
<1> HIDE DEF I, a
<1>7. \A k \in DOMAIN a : a[k] \in DOMAIN q
  <2>1. a \in [1..Len(a) -> I] /\ DOMAIN a = 1..Len(a)
    BY <1>4, LenProperties
  <2> QED BY <1>6, <2>1
<1>8. Sorted(Keep(q, K))
  BY <1>3, <1>5, <1>7 DEF Sorted
<1>9. IsInjective(q)
  BY SortedIsInjective
<1> QED BY <1>8, <1>9, Kept

LEMMA JoinedIsSorted ==
  ASSUME NEW q \in Seq(Nat), Sorted(q), NEW r \in Seq(Nat), Sorted(r),
         \A x \in ToSet(q), y \in ToSet(r) : x < y
  PROVE  q \o r \in Seq(Nat) /\ Sorted(q \o r) /\ ToSet(q \o r) = ToSet(q) \cup ToSet(r)
<1> DEFINE s == q \o r
           m == Len(q)
           n == Len(r)
<1>1. /\ m \in Nat /\ DOMAIN q = 1..m /\ q \in [1..m -> Nat]
      /\ n \in Nat /\ DOMAIN r = 1..n /\ r \in [1..n -> Nat]
  BY LenProperties
<1>2. /\ s \in Seq(Nat) /\ Len(s) = m + n
      /\ \A i \in 1..m + n : s[i] = IF i <= m THEN q[i] ELSE r[i - m]
  BY ConcatProperties
<1>3. DOMAIN s = 1..m + n
  BY <1>2, LenProperties
<1> HIDE DEF s, m, n
<1>4. \A i \in DOMAIN s : i \in Nat /\ \/ i \in DOMAIN q /\ s[i] = q[i] /\ i <= m
                                       \/ i - m \in DOMAIN r /\ s[i] = r[i - m] /\ i > m
  BY <1>1, <1>2, <1>3
<1>5. \A i \in DOMAIN q : i \in DOMAIN s /\ s[i] = q[i]
  BY <1>1, <1>2, <1>3
<1>6. \A i \in DOMAIN r : m + i \in DOMAIN s /\ s[m + i] = r[i]
  BY <1>1, <1>2, <1>3
<1>7. ToSet(s) = ToSet(q) \cup ToSet(r)
  BY <1>4, <1>5, <1>6 DEF ToSet
<1>8. ASSUME NEW i \in DOMAIN s, NEW j \in DOMAIN s, i < j
      PROVE  s[i] < s[j]
  <2>1. i \in Nat /\ j \in Nat
    BY <1>4
  <2>2. CASE j <= m
    <3>1. i <= m
      BY <1>1, <1>8, <2>1, <2>2
    <3> QED BY <1>1, <1>4, <1>8, <2>1, <2>2, <3>1 DEF Sorted
  <2>3. CASE i <= m /\ j > m
    <3>1. i \in DOMAIN q /\ j - m \in DOMAIN r /\ s[i] = q[i] /\ s[j] = r[j - m]
      BY <1>1, <1>4, <2>1, <2>3
    <3> QED BY <3>1 DEF ToSet
  <2>4. CASE i > m /\ j > m
    <3>1. i - m \in DOMAIN r /\ j - m \in DOMAIN r /\ s[i] = r[i - m] /\ s[j] = r[j - m]
      BY <1>1, <1>4, <2>1, <2>4
    <3>2. i - m < j - m
      BY <1>1, <1>8, <2>1
    <3> QED BY <3>1, <3>2 DEF Sorted
  <2> QED BY <1>1, <2>1, <2>2, <2>3, <2>4
<1> QED BY <1>2, <1>7, <1>8 DEF Sorted, s

(* One list after another, element by element.                              *)
LEMMA Concatenated ==
  ASSUME NEW S, NEW q \in Seq(S), NEW r \in Seq(S)
  PROVE  /\ q \o r \in Seq(S) /\ Len(q \o r) = Len(q) + Len(r)
         /\ Len(q) \in Nat /\ Len(r) \in Nat
         /\ DOMAIN q = 1..Len(q) /\ DOMAIN r = 1..Len(r)
         /\ DOMAIN (q \o r) = 1..Len(q) + Len(r)
         /\ \A i \in DOMAIN (q \o r) :
              \/ i \in DOMAIN q /\ (q \o r)[i] = q[i]
              \/ i - Len(q) \in DOMAIN r /\ (q \o r)[i] = r[i - Len(q)]
         /\ \A i \in DOMAIN q : i \in DOMAIN (q \o r) /\ (q \o r)[i] = q[i]
         /\ \A i \in DOMAIN r : /\ Len(q) + i \in DOMAIN (q \o r)
                                /\ (q \o r)[Len(q) + i] = r[i]
<1> DEFINE s == q \o r
           m == Len(q)
           n == Len(r)
<1>1. m \in Nat /\ DOMAIN q = 1..m /\ n \in Nat /\ DOMAIN r = 1..n
  BY LenProperties
<1>2. /\ s \in Seq(S) /\ Len(s) = m + n
      /\ \A i \in 1..m + n : s[i] = IF i <= m THEN q[i] ELSE r[i - m]
  BY ConcatProperties
<1>3. DOMAIN s = 1..m + n
  BY <1>2, LenProperties
<1> HIDE DEF s, m, n
<1>4. \A i \in DOMAIN s : \/ i \in DOMAIN q /\ s[i] = q[i]
                          \/ i - m \in DOMAIN r /\ s[i] = r[i - m]
  BY <1>1, <1>2, <1>3
<1>5. \A i \in DOMAIN q : i \in DOMAIN s /\ s[i] = q[i]
  BY <1>1, <1>2, <1>3
<1>6. \A i \in DOMAIN r : m + i \in DOMAIN s /\ s[m + i] = r[i]
  BY <1>1, <1>2, <1>3
<1> QED BY <1>1, <1>2, <1>3, <1>4, <1>5, <1>6 DEF s, m, n
==============================================================================
