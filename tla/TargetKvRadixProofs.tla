------------------------- MODULE TargetKvRadixProofs -------------------------
(***************************************************************************)
(* The prefix cache is correct for every pool, page size and number of     *)
(* reservations: IInv is inductive, and the properties of module           *)
(* TargetKvRadix follow from it.  There is one lemma per action, in the    *)
(* order of Next; the theorems are at the end.  What comes first are facts  *)
(* about prefixes, page counts and the operators on prefix trees, for       *)
(* arbitrary trees and not states of the system.                           *)
(***************************************************************************)
EXTENDS TargetKvRadix, TLAPS, FiniteSetTheorems, SequenceTheorems

-----------------------------------------------------------------------------
(* Prefixes, page counts, trees *)

(* A prefix of a prefix is a prefix: the order the tree's edges follow is   *)
(* transitive.                                                              *)
LEMMA PrefixTransitive ==
  ASSUME NEW a \in Seq(Token), NEW b \in Seq(Token), NEW c \in Seq(Token),
         a \sqsubseteq b, b \sqsubseteq c
  PROVE  a \sqsubseteq c
BY DEF \sqsubseteq

(* A prefix that is no shorter than the whole is the whole, so a match as   *)
(* long as the prompt is the prompt.                                        *)
LEMMA PrefixAntisymmetric ==
  ASSUME NEW a \in Seq(Token), NEW b \in Seq(Token),
         a \sqsubseteq b, Len(b) <= Len(a)
  PROVE  a = b
BY SeqEqual DEF \sqsubseteq

(* Two prefixes of one prompt lie on one path: the shorter is a prefix of   *)
(* the longer.                                                              *)
LEMMA PrefixesComparable ==
  ASSUME NEW a \in Seq(Token), NEW b \in Seq(Token), NEW c \in Seq(Token),
         a \sqsubseteq c, b \sqsubseteq c, Len(a) <= Len(b)
  PROVE  a \sqsubseteq b
BY DEF \sqsubseteq

(* The first k elements of a sequence, as the code cuts token ids and page  *)
(* tables.                                                                  *)
LEMMA SubSeqPrefix ==
  ASSUME NEW S, NEW s \in Seq(S), NEW k \in 0..Len(s)
  PROVE  /\ SubSeq(s, 1, k) \in Seq(S)
         /\ Len(SubSeq(s, 1, k)) = k
         /\ \A i \in 1..k : SubSeq(s, 1, k)[i] = s[i]
         /\ SubSeq(s, 1, k) \sqsubseteq s
BY DEF \sqsubseteq

(* pages_for_tokens is the rounded-up quotient, and grows with the token    *)
(* count.                                                                   *)
LEMMA PagesForProperties ==
  ASSUME NEW n \in Nat
  PROVE  /\ PagesFor(n) \in Nat
         /\ n \div PageTokens <= PagesFor(n)
         /\ PagesFor(n) <= n \div PageTokens + 1
         /\ n % PageTokens = 0 => PagesFor(n) = n \div PageTokens
         /\ n % PageTokens # 0 => PagesFor(n) = n \div PageTokens + 1
         /\ \A k \in Nat : k <= n => PagesFor(k) <= PagesFor(n)
BY RadixAssumption DEF PagesFor, RadixAssumption

(* No tokens need no page. *)
LEMMA PagesForZero == PagesFor(0) = 0
<1>1. PageTokens \in Nat /\ PageTokens - 1 \in 0..(PageTokens - 1)
  BY RadixAssumption DEF RadixAssumption
<1>2. (0 + PageTokens - 1) \div PageTokens = 0
  BY <1>1
<1> QED BY <1>2 DEF PagesFor

(* The pages a shorter prefix fills are among the full pages, and the       *)
(* table, of a longer one.                                                  *)
LEMMA FullPages ==
  ASSUME NEW j \in Nat, NEW k \in Nat, j <= k
  PROVE  /\ j \div PageTokens \in Nat /\ k \div PageTokens \in Nat
         /\ j \div PageTokens <= k \div PageTokens
         /\ j \div PageTokens <= PagesFor(k)
<1>1. PageTokens \in Nat \ {0}
  BY RadixAssumption DEF RadixAssumption
<1>2. j \div PageTokens \in Nat /\ k \div PageTokens \in Nat
  BY <1>1
<1>3. j \div PageTokens <= PagesFor(j) /\ PagesFor(j) <= PagesFor(k)
  BY PagesForProperties
<1>4. PagesFor(j) \in Nat /\ PagesFor(k) \in Nat
  BY PagesForProperties
<1>5. j \div PageTokens <= k \div PageTokens
  BY <1>1, SMTT(30)
<1> QED BY <1>2, <1>3, <1>4, <1>5

(* ForksAreNodes, restated without reference to the cached prefix m was cut *)
(* from.                                                                    *)
LEMMA ForksForm ==
  ASSUME NEW t, DOMAIN t \subseteq Prefix
  PROVE  ForksAreNodes(t) <=>
           \A m \in Prefix \ DOMAIN t :
             Below(t, m) # {} => \E c \in Below(t, m) : \A d \in Below(t, m) : c \sqsubseteq d
<1>1. ASSUME NEW m \in Prefix \ DOMAIN t, NEW n \in Below(t, m)
      PROVE  n \in DOMAIN t /\ m \in Prefixes(n) \ (DOMAIN t \cup {<<>>})
  <2>1. n \in Seq(Token) /\ m \in Seq(Token) /\ m # <<>> /\ m \sqsubseteq n
    BY DEF Below, Prefix
  <2>2. Len(m) \in 0..Len(n)
    BY <2>1 DEF \sqsubseteq
  <2>3. m = SubSeq(n, 1, Len(m))
    BY <2>1, <2>2, SubSeqPrefix, SeqEqual DEF \sqsubseteq
  <2> QED BY <2>1, <2>2, <2>3 DEF Prefixes, Below
<1>2. ASSUME NEW n \in DOMAIN t, NEW m \in Prefixes(n) \ (DOMAIN t \cup {<<>>})
      PROVE  m \in Prefix \ DOMAIN t /\ n \in Below(t, m)
  <2>1. n \in Seq(Token)
    BY DEF Prefix
  <2>2. PICK k \in 0..Len(n) : m = SubSeq(n, 1, k)
    BY DEF Prefixes
  <2>3. m \in Seq(Token) /\ m \sqsubseteq n
    BY <2>1, <2>2, SubSeqPrefix
  <2> QED BY <2>3 DEF Prefix, Below
<1> QED BY <1>1, <1>2 DEF ForksAreNodes

(* Below every node there is a leaf (the node itself perhaps): what         *)
(* evict_one_leaf relies on to find a victim.                               *)
LEMMA BelowHasLeaf ==
  ASSUME NEW t, DOMAIN t \subseteq Prefix, IsFiniteSet(DOMAIN t),
         NEW n \in DOMAIN t
  PROVE  \E x \in Below(t, n) : Below(t, x) = {x}
<1> DEFINE T == {Below(t, x) : x \in Below(t, n)}
<1>1. T \subseteq FiniteSubsetsOf(DOMAIN t)
  BY FS_FiniteSubsetsOfFinite DEF Below
<1>2. n \in Below(t, n)
  BY DEF Below, Prefix, \sqsubseteq
<1>3. PICK B \in T : \A C \in T : <<C, B>> \notin StrictSubsetOrdering(DOMAIN t)
  <2>1. IsWellFoundedOn(StrictSubsetOrdering(DOMAIN t), FiniteSubsetsOf(DOMAIN t))
    BY FS_StrictSubsetOrderingWellFounded
  <2>2. T # {}
    BY <1>2
  <2> HIDE DEF T
  <2> QED BY <1>1, <2>1, <2>2, WFMin
<1>4. PICK x \in Below(t, n) : B = Below(t, x)
  OBVIOUS
<1>5. ASSUME NEW d \in Below(t, x) PROVE d = x
  <2>1. d \in Below(t, n) /\ Below(t, d) \subseteq Below(t, x)
    BY PrefixTransitive DEF Below, Prefix
  <2>2. Below(t, d) = Below(t, x)
    <3>1. Below(t, d) \in T /\ Below(t, d) \in SUBSET DOMAIN t /\ Below(t, x) \in SUBSET DOMAIN t
      BY <2>1 DEF Below
    <3>2. <<Below(t, d), Below(t, x)>> \notin StrictSubsetOrdering(DOMAIN t)
      BY <1>3, <1>4, <3>1
    <3> QED BY <2>1, <3>1, <3>2 DEF StrictSubsetOrdering
  <2>3. x \in Below(t, x)
    BY DEF Below, Prefix, \sqsubseteq
  <2>4. d \sqsubseteq x /\ x \sqsubseteq d
    BY <2>2, <2>3 DEF Below
  <2> QED BY <2>4, PrefixAntisymmetric DEF \sqsubseteq, Below, Prefix
<1>6. x \in Below(t, x)
  BY DEF Below, Prefix, \sqsubseteq
<1> QED BY <1>5, <1>6

(* A match that ends inside an edge has exactly one node just below it, the *)
(* child that split_node divides.                                           *)
LEMMA EdgeEndProperties ==
  ASSUME NEW t, PrefixTree(t), NEW m \in Prefix \ DOMAIN t, Below(t, m) # {}
  PROVE  /\ EdgeEnd(t, m) \in DOMAIN t
         /\ m \sqsubseteq EdgeEnd(t, m)
         /\ \A d \in Below(t, m) : EdgeEnd(t, m) \sqsubseteq d
BY ForksForm DEF PrefixTree, PathOwnsTables, EdgeEnd, Below

(* What split_node does to the nodes of t when m cuts the edge that ends in *)
(* c.                                                                       *)
IsSplit(s, t, m, c) ==
  LET pages == SubSeq(t[c].table, 1, PagesFor(Len(m)))
  IN  /\ DOMAIN s = DOMAIN t \cup {m}
      /\ s \in [DOMAIN s -> Node]
      /\ s[m].table = pages
      /\ s[m].own = t[c].own \cap Elems(pages)
      /\ s[m].lock = t[c].lock
      /\ s[c].own = t[c].own \ Elems(pages)
      /\ \A n \in DOMAIN t : s[n].table = t[n].table /\ s[n].lock = t[n].lock
      /\ \A n \in DOMAIN t \ {c} : s[n].own = t[n].own
      /\ Len(pages) = PagesFor(Len(m))
      /\ Elems(pages) \subseteq Elems(t[c].table)

(* split_node divides the child's owned pages between the new upper node    *)
(* and the child, and copies its lock count.                                *)
LEMMA SplitNodes ==
  ASSUME NEW t, PrefixTree(t), NEW m \in Prefix \ DOMAIN t, Below(t, m) # {}
  PROVE  IsSplit(Split(t, m), t, m, EdgeEnd(t, m))
<1>0. PICK c : c = EdgeEnd(t, m)
  OBVIOUS
<1> DEFINE s == Split(t, m)
           pages == SubSeq(t[c].table, 1, PagesFor(Len(m)))
           upper == t[c].own \cap Elems(pages)
<1>1. c \in DOMAIN t /\ m \sqsubseteq c /\ t[c] \in Node
  BY <1>0, EdgeEndProperties DEF PrefixTree, PathOwnsTables
<1>2. m # <<>> /\ m \in Seq(Token) /\ c \in Seq(Token)
  BY <1>1 DEF Prefix, PrefixTree
<1>3. PagesFor(Len(m)) \in 0..Len(t[c].table)
  <2>1. Len(m) \in Nat /\ Len(c) \in Nat /\ Len(m) <= Len(c)
    BY <1>1, <1>2 DEF \sqsubseteq
  <2>2. Len(t[c].table) = PagesFor(Len(c))
    BY <1>1 DEF PrefixTree, PathOwnsTables
  <2> QED BY <2>1, <2>2, PagesForProperties
<1>4. /\ pages \in Seq(Page)
      /\ Len(pages) = PagesFor(Len(m))
      /\ Elems(pages) \subseteq Elems(t[c].table)
  <2>1. t[c].table \in Seq(Page)
    BY <1>1 DEF Node
  <2> QED BY <1>3, <2>1, SubSeqPrefix DEF Elems
<1>5. s = [n \in DOMAIN t \cup {m} |->
             IF n = m THEN [table |-> pages, own |-> upper, lock |-> t[c].lock]
             ELSE IF n = c THEN [t[c] EXCEPT !.own = @ \ upper]
             ELSE t[n]]
  BY <1>0, <1>2 DEF Split
<1> HIDE DEF s, pages
<1>6. DOMAIN s = DOMAIN t \cup {m}
  BY <1>5
<1>7. \A n \in DOMAIN t : n # m
  OBVIOUS
<1>8. \A n \in DOMAIN t : t[n] \in Node
  BY DEF PrefixTree, PathOwnsTables
<1>9. s[m] = [table |-> pages, own |-> upper, lock |-> t[c].lock]
  BY <1>5
<1>10. s[c] = [t[c] EXCEPT !.own = @ \ upper]
  BY <1>1, <1>5, <1>7
<1>11. \A n \in DOMAIN t \ {c} : s[n] = t[n]
  BY <1>5, <1>7
<1>12. s[c].own = t[c].own \ Elems(pages) /\ s[c].table = t[c].table /\ s[c].lock = t[c].lock
  BY <1>1, <1>10 DEF Node
<1>13. s \in [DOMAIN s -> Node]
  <2>1. s[m] \in Node
    BY <1>1, <1>4, <1>9 DEF Node
  <2>2. s[c] \in Node
    BY <1>1, <1>10 DEF Node
  <2> QED BY <1>1, <1>5, <1>6, <1>8, <1>11, <2>1, <2>2
<1> QED BY <1>0, <1>4, <1>6, <1>9, <1>11, <1>12, <1>13 DEF IsSplit, s, pages

(* split_node leaves a well-formed prefix tree. *)
LEMMA SplitKeepsTree ==
  ASSUME NEW t, PrefixTree(t), NEW m \in Prefix \ DOMAIN t, Below(t, m) # {}
  PROVE  PrefixTree(Split(t, m))
<1> DEFINE s == Split(t, m)
<1>0. PICK c : c = EdgeEnd(t, m)
  OBVIOUS
<1> DEFINE pages == SubSeq(t[c].table, 1, PagesFor(Len(m)))
<1> HIDE DEF s
<1>b. IsSplit(s, t, m, c)
  BY <1>0, SplitNodes DEF s
<1>1. /\ DOMAIN s = DOMAIN t \cup {m}
      /\ s \in [DOMAIN s -> Node]
      /\ s[m].table = pages
      /\ s[m].own = t[c].own \cap Elems(pages)
      /\ s[c].own = t[c].own \ Elems(pages)
      /\ \A n \in DOMAIN t : s[n].table = t[n].table
      /\ \A n \in DOMAIN t \ {c} : s[n].own = t[n].own
      /\ Len(pages) = PagesFor(Len(m))
      /\ Elems(pages) \subseteq Elems(t[c].table)
  BY <1>b DEF IsSplit
<1>2. c \in DOMAIN t /\ m \sqsubseteq c /\ \A d \in Below(t, m) : c \sqsubseteq d
  BY <1>0, EdgeEndProperties
<1> HIDE DEF pages
<1>3. DOMAIN s \subseteq Prefix /\ IsFiniteSet(DOMAIN s)
  BY <1>1, FS_AddElement DEF PrefixTree, PathOwnsTables
<1>4. m \sqsubseteq m /\ m \in Seq(Token) /\ \A n \in DOMAIN t : n \in Seq(Token)
  BY DEF PrefixTree, PathOwnsTables, Prefix, \sqsubseteq
<1>5. ASSUME NEW n \in DOMAIN s
      PROVE  /\ Len(s[n].table) = PagesFor(Len(n))
             /\ s[n].own \subseteq Elems(s[n].table)
             /\ \A x \in Elems(s[n].table) :
                  \E q \in DOMAIN s : q \sqsubseteq n /\ x \in s[q].own
  <2>1. ASSUME NEW k \in DOMAIN t, NEW x \in Elems(t[k].table),
               m \sqsubseteq k \/ x \notin Elems(pages) \/ ~ (c \sqsubseteq k)
        PROVE  \E q \in DOMAIN s : q \sqsubseteq k /\ x \in s[q].own
    <3>1. PICK q \in DOMAIN t : q \sqsubseteq k /\ x \in t[q].own
      BY DEF PrefixTree, PathOwnsTables
    <3>2. CASE q # c \/ x \notin Elems(pages)
      BY <1>1, <3>1, <3>2
    <3>3. CASE q = c /\ x \in Elems(pages)
      BY <1>1, <2>1, <3>1, <3>3
    <3> QED BY <3>2, <3>3
  <2>2. CASE n = m
    <3>1. ASSUME NEW x \in Elems(pages)
          PROVE  \E q \in DOMAIN s : q \sqsubseteq m /\ x \in s[q].own
      <4>1. PICK q \in DOMAIN t : q \sqsubseteq c /\ x \in t[q].own
        BY <1>1, <1>2 DEF PrefixTree, PathOwnsTables
      <4>2. CASE q = c
        BY <1>1, <1>4, <4>1, <4>2
      <4>3. CASE q # c
        <5>1. ~ (m \sqsubseteq q)
          <6>1. SUFFICES ASSUME m \sqsubseteq q PROVE FALSE
            OBVIOUS
          <6>2. c \sqsubseteq q
            BY <1>2, <6>1 DEF Below
          <6> QED BY <1>2, <1>4, <4>1, <4>3, <6>2, PrefixAntisymmetric DEF \sqsubseteq
        <5>2. q \sqsubseteq m
          <6>1. Len(q) \in Nat /\ Len(m) \in Nat
            BY <1>4
          <6> QED BY <1>2, <1>4, <4>1, <5>1, <6>1, PrefixesComparable
        <5> QED BY <1>1, <4>1, <4>3, <5>2
      <4> QED BY <4>2, <4>3
    <3> QED BY <1>1, <2>2, <3>1
  <2>3. CASE n # m
    <3>1. n \in DOMAIN t
      BY <1>1, <2>3
    <3>2. c \sqsubseteq n => m \sqsubseteq n
      BY <1>2, <1>4, <3>1, PrefixTransitive
    <3>3. s[n].own \subseteq Elems(s[n].table)
      BY <1>1, <3>1 DEF PrefixTree, PathOwnsTables
    <3>4. Len(s[n].table) = PagesFor(Len(n))
      BY <1>1, <3>1 DEF PrefixTree, PathOwnsTables
    <3> QED BY <1>1, <2>1, <3>1, <3>2, <3>3, <3>4
  <2> QED BY <2>2, <2>3
<1>6. ASSUME NEW n1 \in DOMAIN s, NEW n2 \in DOMAIN s, n1 # n2
      PROVE  s[n1].own \cap s[n2].own = {}
  <2> DEFINE was(n) == IF n = m THEN c ELSE n
  <2>1. \A n \in DOMAIN s : was(n) \in DOMAIN t /\ s[n].own \subseteq t[was(n)].own
    BY <1>1, <1>2
  <2>2. CASE was(n1) # was(n2)
    BY <2>1, <2>2 DEF PrefixTree, PathOwnsTables
  <2>3. CASE was(n1) = was(n2)
    BY <1>1, <1>6, <2>3
  <2> QED BY <2>2, <2>3
<1>7. ASSUME NEW p \in Prefix \ DOMAIN s, Below(s, p) # {}
      PROVE  \E e \in Below(s, p) : \A d \in Below(s, p) : e \sqsubseteq d
  <2>1. Below(s, p) = Below(t, p) \cup (IF p \sqsubseteq m THEN {m} ELSE {})
    BY <1>1 DEF Below
  <2>2. CASE ~ (p \sqsubseteq m)
    BY <1>1, <1>7, <2>1, <2>2, ForksForm DEF PrefixTree, PathOwnsTables
  <2>3. CASE p \sqsubseteq m
    <3>1. c \in Below(t, p)
      BY <1>2, <1>4, <2>3, PrefixTransitive DEF Below, Prefix
    <3>2. PICK e \in Below(t, p) : \A d \in Below(t, p) : e \sqsubseteq d
      BY <1>1, <3>1, ForksForm DEF PrefixTree, PathOwnsTables
    <3>3. e \in Seq(Token) /\ e \sqsubseteq c /\ Len(e) \in Nat /\ Len(m) \in Nat
      BY <1>4, <3>1, <3>2 DEF Below
    <3>4. CASE e \sqsubseteq m
      BY <2>1, <3>2, <3>4
    <3>5. CASE m \sqsubseteq e
      <4>1. \A d \in Below(t, p) : m \sqsubseteq d
        BY <1>4, <3>2, <3>3, <3>5, PrefixTransitive DEF Below
      <4> QED BY <1>4, <2>1, <2>3, <4>1
    <3> QED BY <1>2, <1>4, <3>3, <3>4, <3>5, PrefixesComparable
  <2> QED BY <2>2, <2>3
<1>8. ForksAreNodes(s) /\ PathOwnsTables(s)
  BY <1>3, <1>5, <1>7, ForksForm DEF PathOwnsTables
<1> QED BY <1>1, <1>3, <1>6, <1>8 DEF PrefixTree, s

(* split_node neither frees, loses nor pins a page. *)
LEMMA SplitKeepsPages ==
  ASSUME NEW t, PrefixTree(t), NEW m \in Prefix \ DOMAIN t, Below(t, m) # {}
  PROVE  Cached(Split(t, m)) = Cached(t) /\ Pinned(Split(t, m)) = Pinned(t)
<1> DEFINE s == Split(t, m)
<1>1. PICK c : c = EdgeEnd(t, m)
  OBVIOUS
<1> DEFINE pages == SubSeq(t[c].table, 1, PagesFor(Len(m)))
<1> HIDE DEF s
<1>2. IsSplit(s, t, m, c)
  BY <1>1, SplitNodes DEF s
<1>3. /\ DOMAIN s = DOMAIN t \cup {m}
      /\ s[m].own = t[c].own \cap Elems(pages)
      /\ s[m].lock = t[c].lock
      /\ s[c].own = t[c].own \ Elems(pages)
      /\ \A n \in DOMAIN t : s[n].lock = t[n].lock
      /\ \A n \in DOMAIN t \ {c} : s[n].own = t[n].own
  BY <1>2 DEF IsSplit
<1>4. c \in DOMAIN t
  BY <1>1, EdgeEndProperties
<1> HIDE DEF pages
<1>5. t[c].own = s[c].own \cup s[m].own
  BY <1>3
<1>6. Cached(s) = Cached(t)
  BY <1>3, <1>4, <1>5 DEF Cached
<1>7. Locked(s) = Locked(t) \cup (IF c \in Locked(t) THEN {m} ELSE {})
  BY <1>3, <1>4 DEF Locked
<1>8. Pinned(s) = Pinned(t)
  <2>1. \A n \in Locked(t) : n \in DOMAIN t
    BY DEF Locked
  <2>2. \A n \in Locked(s) : n \in Locked(t) \/ (n = m /\ c \in Locked(t))
    BY <1>7
  <2>3. Locked(t) \subseteq Locked(s) /\ (c \in Locked(t) => m \in Locked(s))
    BY <1>7
  <2>4. Pinned(s) \subseteq Pinned(t)
    BY <1>3, <1>5, <2>1, <2>2 DEF Pinned
  <2>5. Pinned(t) \subseteq Pinned(s)
    BY <1>3, <1>5, <2>1, <2>3 DEF Pinned
  <2> QED BY <2>4, <2>5
<1> QED BY <1>6, <1>8 DEF s

(* What materialize_page_table and split_node together may have done to t   *)
(* at m.                                                                    *)
IsGrown(s, t, m) ==
  /\ PrefixTree(s)
  /\ DOMAIN s = IF m = <<>> THEN DOMAIN t ELSE DOMAIN t \cup {m}
  /\ \A n \in DOMAIN t : s[n].table = t[n].table /\ s[n].lock = t[n].lock
  /\ m \in Prefix \ DOMAIN t => s[m].lock = t[EdgeEnd(t, m)].lock
  /\ Cached(s) = Cached(t)
  /\ Pinned(s) = Pinned(t)

(* Making a match into a node keeps the tree well formed and changes no     *)
(* node's table or lock.                                                    *)
LEMMA SplitGrows ==
  ASSUME NEW t, PrefixTree(t), NEW m \in Seq(Token),
         m # <<>> => Below(t, m) # {}
  PROVE  IsGrown(Split(t, m), t, m)
<1>1. CASE m = <<>> \/ m \in DOMAIN t
  <2>1. Split(t, m) = t
    BY <1>1 DEF Split
  <2> QED BY <1>1, <2>1 DEF IsGrown, Prefix
<1>2. CASE ~ (m = <<>> \/ m \in DOMAIN t)
  <2>1. m \in Prefix \ DOMAIN t /\ Below(t, m) # {}
    BY <1>2 DEF Prefix
  <2>2. IsSplit(Split(t, m), t, m, EdgeEnd(t, m))
    BY <2>1, SplitNodes
  <2> QED BY <1>2, <2>1, <2>2, SplitKeepsTree, SplitKeepsPages DEF IsGrown, IsSplit
<1> QED BY <1>1, <1>2

(* match_prefix finds the longest cached prefix: every node that is a       *)
(* prefix of the prompt is a prefix of the match.                           *)
LEMMA MatchIsLongest ==
  ASSUME NEW t, DOMAIN t \subseteq Prefix,
         NEW ids \in Seq(Token), NEW m, IsMatch(t, ids, m),
         NEW n \in DOMAIN t, n \sqsubseteq ids, m \in Seq(Token)
  PROVE  n \sqsubseteq m
<1>1. n \in Seq(Token) /\ Len(n) \in Nat /\ Len(m) \in Nat /\ Len(ids) \in Nat
  BY DEF Prefix
<1>2. CASE Len(n) <= Len(m)
  BY <1>1, <1>2, PrefixesComparable DEF IsMatch
<1>3. CASE Len(n) > Len(m)
  <2>1. m # ids /\ Len(m) + 1 \in 0..Len(ids)
    BY <1>1, <1>3 DEF \sqsubseteq
  <2> DEFINE longer == SubSeq(ids, 1, Len(m) + 1)
  <2>2. longer \sqsubseteq ids /\ longer \in Seq(Token) /\ Len(longer) = Len(m) + 1
    BY <2>1, SubSeqPrefix
  <2> HIDE DEF longer
  <2>3. longer \sqsubseteq n
    BY <1>1, <1>3, <2>2, PrefixesComparable
  <2> QED BY <2>1, <2>3 DEF IsMatch, Below, longer
<1> QED BY <1>1, <1>2, <1>3

(* Nothing cached extends a prefix of the prompt that is longer than the    *)
(* match.                                                                   *)
LEMMA BeyondMatchIsEmpty ==
  ASSUME NEW t, DOMAIN t \subseteq Prefix,
         NEW ids \in Seq(Token), NEW m \in Seq(Token), IsMatch(t, ids, m),
         NEW p \in Seq(Token), p \sqsubseteq ids, Len(m) < Len(p)
  PROVE  Below(t, p) = {}
<1> SUFFICES ASSUME NEW n \in DOMAIN t, p \sqsubseteq n PROVE FALSE
  BY DEF Below
<1>1. n \in Seq(Token) /\ Len(n) \in Nat /\ Len(m) \in Nat /\ Len(ids) \in Nat /\ Len(p) \in Nat
  BY DEF Prefix
<1> DEFINE longer == SubSeq(ids, 1, Len(m) + 1)
<1>2. m # ids /\ Len(m) + 1 \in 0..Len(ids)
  BY <1>1 DEF \sqsubseteq
<1>3. longer \sqsubseteq ids /\ longer \in Seq(Token) /\ Len(longer) = Len(m) + 1
  BY <1>2, SubSeqPrefix
<1> HIDE DEF longer
<1>4. longer \sqsubseteq p
  BY <1>1, <1>3, PrefixesComparable
<1>5. longer \sqsubseteq n
  BY <1>1, <1>3, <1>4, PrefixTransitive
<1> QED BY <1>2, <1>5 DEF IsMatch, Below, longer

(* What insert_radix_child does: one new unlocked node, everything else as  *)
(* it was.                                                                  *)
IsInserted(u, t, ids, pages, owned) ==
  /\ DOMAIN u = DOMAIN t \cup {ids}
  /\ \A n \in DOMAIN t : u[n] = t[n]
  /\ u[ids] = [table |-> pages, own |-> owned, lock |-> 0]
  /\ Cached(u) = Cached(t) \cup owned
  /\ Pinned(u) = Pinned(t)

(* insert_radix_child adds exactly the pages it was given and pins none. *)
LEMMA InsertGrows ==
  ASSUME NEW t, NEW ids, ids \notin DOMAIN t, NEW pages, NEW owned
  PROVE  IsInserted(Insert(t, ids, pages, owned), t, ids, pages, owned)
<1> DEFINE u == Insert(t, ids, pages, owned)
<1>1. u = [n \in DOMAIN t \cup {ids} |->
             IF n = ids THEN [table |-> pages, own |-> owned, lock |-> 0] ELSE t[n]]
  BY DEF Insert
<1> HIDE DEF u
<1>2. DOMAIN u = DOMAIN t \cup {ids}
  BY <1>1
<1>3. u[ids] = [table |-> pages, own |-> owned, lock |-> 0]
  BY <1>1
<1>4. \A n \in DOMAIN t : u[n] = t[n]
  BY <1>1
<1>5. Cached(u) = Cached(t) \cup owned
  BY <1>2, <1>3, <1>4 DEF Cached
<1>6. Locked(u) = Locked(t)
  BY <1>2, <1>3, <1>4 DEF Locked
<1>7. Pinned(u) = Pinned(t)
  BY <1>4, <1>6 DEF Pinned, Locked
<1> QED BY <1>2, <1>3, <1>4, <1>5, <1>7 DEF u, IsInserted

(* Publishing beyond the longest match leaves a well-formed tree when the   *)
(* pages reused come from the match and the rest are new to the tree.       *)
LEMMA InsertKeepsTree ==
  ASSUME NEW t, PrefixTree(t),
         NEW ids \in Prefix, NEW m \in Seq(Token), m \sqsubseteq ids,
         m # <<>> => m \in DOMAIN t,
         \A p \in Seq(Token) : p \sqsubseteq ids /\ Len(m) < Len(p) => Below(t, p) = {},
         Len(m) < Len(ids),
         NEW pages \in Seq(Page), Len(pages) = PagesFor(Len(ids)),
         NEW owned, owned \subseteq Elems(pages), owned \cap Cached(t) = {},
         \A x \in Elems(pages) \ owned : m # <<>> /\ x \in Elems(t[m].table)
  PROVE  ids \notin DOMAIN t /\ PrefixTree(Insert(t, ids, pages, owned))
<1> DEFINE u == Insert(t, ids, pages, owned)
<1>1. ids \in Seq(Token) /\ ids \sqsubseteq ids
  BY DEF Prefix, \sqsubseteq
<1>2. Below(t, ids) = {}
  BY <1>1
<1>3. ids \notin DOMAIN t
  BY <1>1, <1>2 DEF Below
<1>4. IsInserted(u, t, ids, pages, owned)
  BY <1>3, InsertGrows
<1> HIDE DEF u
<1>5. DOMAIN u = DOMAIN t \cup {ids}
  BY <1>4 DEF IsInserted
<1>6. u[ids] = [table |-> pages, own |-> owned, lock |-> 0]
  BY <1>4 DEF IsInserted
<1>7. \A n \in DOMAIN t : u[n] = t[n]
  BY <1>4 DEF IsInserted
<1>8. u[ids] \in Node
  BY <1>6 DEF Node, Elems
<1>9. u \in [DOMAIN u -> Node]
  <2>1. DOMAIN u = DOMAIN t \cup {ids} /\ \A n \in DOMAIN u : u[n] \in Node
    BY <1>5, <1>7, <1>8 DEF PrefixTree
  <2>2. u = [n \in DOMAIN u |-> u[n]]
    BY DEF Insert, u
  <2> QED BY <2>1, <2>2
<1>10. DOMAIN u \subseteq Prefix /\ IsFiniteSet(DOMAIN u)
  BY <1>5, FS_AddElement DEF PrefixTree, PathOwnsTables
<1>11. ASSUME NEW n \in DOMAIN u
       PROVE  /\ Len(u[n].table) = PagesFor(Len(n))
              /\ u[n].own \subseteq Elems(u[n].table)
              /\ \A x \in Elems(u[n].table) :
                   \E q \in DOMAIN u : q \sqsubseteq n /\ x \in u[q].own
  <2>1. CASE n \in DOMAIN t
    BY <1>5, <1>7, <2>1 DEF PrefixTree, PathOwnsTables
  <2>2. CASE n = ids
    <3>1. ASSUME NEW x \in Elems(pages)
          PROVE  \E q \in DOMAIN u : q \sqsubseteq ids /\ x \in u[q].own
      <4>1. CASE x \in owned
        BY <1>1, <1>5, <1>6, <4>1
      <4>2. CASE x \notin owned
        <5>1. m \in DOMAIN t /\ x \in Elems(t[m].table)
          BY <4>2
        <5>2. PICK q \in DOMAIN t : q \sqsubseteq m /\ x \in t[q].own
          BY <5>1 DEF PrefixTree, PathOwnsTables
        <5>3. q \sqsubseteq ids
          BY <1>1, <5>2, PrefixTransitive DEF PrefixTree, PathOwnsTables, Prefix
        <5> QED BY <1>5, <1>7, <5>2, <5>3
      <4> QED BY <4>1, <4>2
    <3> QED BY <1>6, <2>2, <3>1
  <2> QED BY <1>5, <2>1, <2>2
<1>12. ASSUME NEW n1 \in DOMAIN u, NEW n2 \in DOMAIN u, n1 # n2
       PROVE  u[n1].own \cap u[n2].own = {}
  <2>1. \A n \in DOMAIN t : u[n].own \subseteq Cached(t)
    BY <1>7 DEF Cached
  <2> QED BY <1>5, <1>6, <1>7, <1>12, <2>1 DEF PrefixTree, PathOwnsTables
<1>13. ASSUME NEW p \in Prefix \ DOMAIN u, Below(u, p) # {}
       PROVE  \E e \in Below(u, p) : \A d \in Below(u, p) : e \sqsubseteq d
  <2>1. Below(u, p) = Below(t, p) \cup (IF p \sqsubseteq ids THEN {ids} ELSE {})
    BY <1>5 DEF Below
  <2>2. p \in Seq(Token) /\ Len(p) \in Nat /\ Len(m) \in Nat
    BY DEF Prefix
  <2>3. CASE ~ (p \sqsubseteq ids)
    BY <1>5, <1>13, <2>1, <2>3, ForksForm DEF PrefixTree, PathOwnsTables
  <2>4. CASE p \sqsubseteq ids /\ Len(m) < Len(p)
    <3>1. Below(t, p) = {}
      BY <2>2, <2>4
    <3>2. Below(u, p) = {ids}
      BY <2>1, <2>4, <3>1
    <3> QED BY <1>1, <3>2
  <2>5. CASE p \sqsubseteq ids /\ Len(p) <= Len(m)
    <3>1. p \sqsubseteq m /\ m # <<>>
      BY <1>1, <2>2, <2>5, PrefixesComparable DEF Prefix
    <3>2. m \in Below(t, p)
      BY <3>1 DEF Below
    <3>3. PICK e \in Below(t, p) : \A d \in Below(t, p) : e \sqsubseteq d
      BY <1>5, <3>2, ForksForm DEF PrefixTree, PathOwnsTables
    <3>4. e \sqsubseteq ids
      BY <1>1, <3>2, <3>3, PrefixTransitive DEF PrefixTree, PathOwnsTables, Prefix, Below
    <3> QED BY <2>1, <3>3, <3>4
  <2> QED BY <2>2, <2>3, <2>4, <2>5
<1>14. PrefixTree(u)
  <2>1. ForksAreNodes(u) /\ PathOwnsTables(u)
    BY <1>10, <1>11, <1>13, ForksForm DEF PathOwnsTables
  <2> QED BY <1>9, <1>10, <1>12, <2>1 DEF PrefixTree
<1> QED BY <1>3, <1>14 DEF u

(* Locking and unlocking a path (inc_lock_ref, dec_lock_ref) do not disturb *)
(* the tree.                                                                *)
LEMMA RelockKeepsTree ==
  ASSUME NEW t, PrefixTree(t), NEW u, u \in [DOMAIN t -> Node],
         \A n \in DOMAIN t : u[n].table = t[n].table /\ u[n].own = t[n].own
  PROVE  PrefixTree(u) /\ Cached(u) = Cached(t)
<1>1. DOMAIN u = DOMAIN t
  OBVIOUS
<1>2. \A p : Below(u, p) = Below(t, p)
  BY <1>1 DEF Below
<1>3. ASSUME NEW n \in DOMAIN u
      PROVE  /\ Len(u[n].table) = PagesFor(Len(n))
             /\ u[n].own \subseteq Elems(u[n].table)
             /\ \A x \in Elems(u[n].table) :
                  \E q \in DOMAIN u : q \sqsubseteq n /\ x \in u[q].own
  BY <1>1 DEF PrefixTree, PathOwnsTables
<1>4. \A n1, n2 \in DOMAIN u : n1 # n2 => u[n1].own \cap u[n2].own = {}
  BY <1>1 DEF PrefixTree, PathOwnsTables
<1>5. \A p \in Prefix \ DOMAIN u :
        Below(u, p) # {} => \E c \in Below(u, p) : \A d \in Below(u, p) : c \sqsubseteq d
  BY <1>1, <1>2, ForksForm DEF PrefixTree, PathOwnsTables
<1>6. PrefixTree(u)
  <2>1. DOMAIN u \subseteq Prefix
    BY <1>1 DEF PrefixTree
  <2>2. ForksAreNodes(u) /\ PathOwnsTables(u)
    BY <1>3, <1>5, <2>1, ForksForm DEF PathOwnsTables
  <2> QED BY <1>1, <1>4, <2>2 DEF PrefixTree
<1>7. Cached(u) = Cached(t)
  BY <1>1 DEF Cached
<1> QED BY <1>6, <1>7

(* Removing a set of nodes closed under descendants (evict_leaf,            *)
(* evict_subtree) leaves a well-formed tree without their pages.            *)
LEMMA PruneKeepsTree ==
  ASSUME NEW t, PrefixTree(t), NEW S \in SUBSET DOMAIN t,
         \A n \in S : Below(t, n) \subseteq S
  PROVE  LET u == Prune(t, S)
         IN  /\ PrefixTree(u)
             /\ DOMAIN u = DOMAIN t \ S
             /\ \A n \in DOMAIN u : u[n] = t[n]
             /\ Cached(u) = Cached(t) \ UNION {t[n].own : n \in S}
             /\ UNION {t[n].own : n \in S} \subseteq Cached(t)
<1> DEFINE u == Prune(t, S)
<1>1. DOMAIN u = DOMAIN t \ S /\ \A n \in DOMAIN u : u[n] = t[n]
  BY DEF Prune
<1>2. u \in [DOMAIN u -> Node]
  BY DEF Prune, PrefixTree
<1> HIDE DEF u
<1>3. DOMAIN u \subseteq Prefix /\ IsFiniteSet(DOMAIN u)
  BY <1>1, FS_Subset DEF PrefixTree, PathOwnsTables
<1>4. \A p : Below(u, p) = Below(t, p) \ S
  BY <1>1 DEF Below
<1>5. ASSUME NEW n \in DOMAIN u, NEW x \in Elems(u[n].table)
      PROVE  \E q \in DOMAIN u : q \sqsubseteq n /\ x \in u[q].own
  <2>1. PICK q \in DOMAIN t : q \sqsubseteq n /\ x \in t[q].own
    BY <1>1 DEF PrefixTree, PathOwnsTables
  <2>2. q \notin S
    BY <1>1, <2>1 DEF Below
  <2> QED BY <1>1, <2>1, <2>2
<1>6. ASSUME NEW p \in Prefix \ DOMAIN u, Below(u, p) # {}
      PROVE  \E e \in Below(u, p) : \A d \in Below(u, p) : e \sqsubseteq d
  <2>1. p \notin S
    BY <1>4, <1>6
  <2>2. PICK e \in Below(t, p) : \A d \in Below(t, p) : e \sqsubseteq d
    BY <1>1, <1>4, <1>6, <2>1, ForksForm DEF PrefixTree, PathOwnsTables
  <2>3. PICK d \in Below(t, p) : d \notin S
    BY <1>4, <1>6
  <2>4. e \notin S
    BY <2>2, <2>3 DEF Below
  <2> QED BY <1>4, <2>2, <2>4
<1>7. PrefixTree(u)
  <2>1. ForksAreNodes(u)
    BY <1>3, <1>6, ForksForm
  <2>2. PathOwnsTables(u)
    BY <1>1, <1>5 DEF PrefixTree, PathOwnsTables
  <2> QED BY <1>1, <1>2, <1>3, <2>1, <2>2 DEF PrefixTree
<1>8. Cached(u) = Cached(t) \ UNION {t[n].own : n \in S}
  <2>1. \A n \in DOMAIN u, k \in S : t[n].own \cap t[k].own = {}
    BY <1>1 DEF PrefixTree, PathOwnsTables
  <2> QED BY <1>1, <2>1 DEF Cached
<1>9. UNION {t[n].own : n \in S} \subseteq Cached(t)
  BY DEF Cached
<1> QED BY <1>1, <1>7, <1>8, <1>9 DEF u

-----------------------------------------------------------------------------
(* The actions *)

(* A new cache satisfies the inductive invariant. *)
LEMMA InitInv == Init => IInv
<1> SUFFICES ASSUME Init PROVE IInv
  OBVIOUS
<1>1. tree = EmptyTree /\ DOMAIN tree = {}
  BY DEF Init, EmptyTree
<1>2. PrefixTree(tree)
  BY <1>1, FS_EmptySet DEF PrefixTree, PathOwnsTables, ForksAreNodes
<1>3. TypeOK
  BY <1>1, EmptySeq DEF Init, TypeOK
<1>4. Cached(tree) = {} /\ Pinned(tree) = {}
  BY <1>1 DEF Cached, Pinned, Locked
<1>5. PagePartition
  <2>1. \A r \in Request : Held(r) = {}
    BY EmptySeq DEF Init, Elems, Held
  <2>2. \A r \in Request : DOMAIN private[r] = {}
    BY DEF Init
  <2> QED BY <1>1, <1>4, <2>1, <2>2 DEF PagePartition, Init
<1>6. LocksCountReservations /\ SharedPagesStayCached /\ IdleHandles
  BY <1>1 DEF LocksCountReservations, SharedPagesStayCached, IdleHandles, Init
<1>7. CreditsWithinPool
  <2>1. Slots(credit) = {}
    BY DEF Slots, Init
  <2>2. reserved = Cardinality(Slots(credit)) /\ Cardinality(Pinned(tree)) = 0
    BY <1>4, <2>1, FS_EmptySet DEF Init
  <2>3. Cardinality(Page) \in Nat
    BY FS_CardinalityType, RadixAssumption DEF RadixAssumption
  <2>4. \A r \in Request : Len(private[r]) <= credit[r]
    BY DEF Init
  <2> QED BY <2>2, <2>3, <2>4 DEF CreditsWithinPool, Init
<1> QED BY <1>2, <1>3, <1>5, <1>6, <1>7 DEF IInv

(* take_boundary_copy preserves the inductive invariant. *)
LEMMA TakeBoundaryCopyStep ==
  ASSUME IInv, NEW r \in Request, TakeBoundaryCopy(r)
  PROVE  IInv'
<1> USE DEF TakeBoundaryCopy
<1>1. TypeOK' /\ IdleHandles' /\ LocksCountReservations'
  BY DEF IInv, TypeOK, IdleHandles, LocksCountReservations, Lockers
<1>2. PrefixTree(tree)' /\ PagePartition'
  BY DEF IInv, PagePartition, Held
<1>3. SharedPagesStayCached'
  BY DEF IInv, TypeOK, SharedPagesStayCached
<1>4. CreditsWithinPool'
  BY DEF IInv, CreditsWithinPool, PageTable
<1> QED BY <1>1, <1>2, <1>3, <1>4 DEF IInv

(* ensure_materialized_through preserves it: its target stays within the    *)
(* pages the reservation was promised.                                      *)
LEMMA EnsureMaterializedStep ==
  ASSUME IInv, NEW r \in Request, NEW tokens \in Capacities,
         EnsureMaterialized(r, tokens)
  PROVE  IInv'
<1> USE DEF EnsureMaterialized, Allocate
<1>1. tokens \in Nat /\ capacity[r] \in Nat
  BY RadixAssumption, FS_CardinalityType DEF IInv, TypeOK, Capacities, RadixAssumption
<1>2. TypeOK' /\ IdleHandles' /\ LocksCountReservations'
  BY <1>1, PagesForProperties DEF IInv, TypeOK, IdleHandles, LocksCountReservations, Lockers
<1>3. PrefixTree(tree)' /\ PagePartition' /\ SharedPagesStayCached'
  <2>1. UNCHANGED <<tree, free, active, matched, capacity, shared, private, boundary>>
    OBVIOUS
  <2>2. PrefixTree(tree)'
    BY <2>1 DEF IInv
  <2>3. PagePartition'
    BY <2>1 DEF IInv, PagePartition, Held
  <2>4. SharedPagesStayCached'
    BY <2>1 DEF IInv, SharedPagesStayCached
  <2> QED BY <2>2, <2>3, <2>4
<1>4. CreditsWithinPool'
  BY <1>1, PagesForProperties DEF IInv, CreditsWithinPool, PageTable
<1> QED BY <1>2, <1>3, <1>4 DEF IInv

(* Appending a page to private_pages adds that page and nothing else. *)
LEMMA AppendElems ==
  ASSUME NEW S, NEW s \in Seq(S), NEW x \in S
  PROVE  /\ Append(s, x) \in Seq(S)
         /\ Len(Append(s, x)) = Len(s) + 1
         /\ DOMAIN s = 1..Len(s)
         /\ \A i \in 1..Len(s) : Append(s, x)[i] = s[i]
         /\ Append(s, x)[Len(s) + 1] = x
         /\ Elems(Append(s, x)) = Elems(s) \cup {x}
BY DEF Elems

(* Taking a free page into the reservation's table preserves it. *)
LEMMA TakePageStep ==
  ASSUME IInv, NEW p \in Page, TakePage(p)
  PROVE  IInv'
<1>0. PICK b : b = busy
  OBVIOUS
<1>1. /\ b \in active /\ b \in Request /\ b # None
      /\ p \in free /\ free' = free \ {p}
      /\ private' = [private EXCEPT ![b] = Append(private[b], p)]
      /\ tree' = tree /\ reserved' = reserved /\ active' = active
      /\ matched' = matched /\ capacity' = capacity /\ credit' = credit
      /\ shared' = shared /\ boundary' = boundary
      /\ private \in [Request -> Seq(Page)]
      /\ private[b] \in Seq(Page) /\ shared[b] \in Seq(Page)
      /\ credit[b] \in Nat /\ capacity[b] \in Nat
      /\ goal \in Nat
  BY <1>0 DEF TakePage, IInv, TypeOK
<1>2. \/ busy' = None /\ goal' = 0
      \/ busy' = b /\ goal' = goal /\ Len(PageTable(b)) + 1 # goal
  BY <1>0 DEF TakePage
<1>3. /\ private' \in [Request -> Seq(Page)]
      /\ \A r \in Request \ {b} : private'[r] = private[r]
      /\ private'[b] = Append(private[b], p)
  BY <1>1, AppendElems
<1>4. TypeOK' /\ IdleHandles' /\ LocksCountReservations'
  <2>1. TypeOK'
    BY <1>1, <1>2, <1>3 DEF IInv, TypeOK
  <2>2. IdleHandles' /\ LocksCountReservations'
    BY <1>1, <1>3 DEF IInv, IdleHandles, LocksCountReservations, Lockers
  <2> QED BY <2>1, <2>2
<1>5. PrefixTree(tree)' /\ SharedPagesStayCached'
  BY <1>1 DEF IInv, SharedPagesStayCached
<1>6. PagePartition'
  <2>1. /\ Held(b)' = Held(b) \cup {p}
        /\ \A r \in Request \ {b} : Held(r)' = Held(r)
    BY <1>1, <1>3, AppendElems DEF Held
  <2>2. /\ \A r \in Request : p \notin Held(r)
        /\ p \notin Cached(tree)
    BY <1>1 DEF IInv, PagePartition
  <2>3. \A i, j \in DOMAIN private'[b] : private'[b][i] = private'[b][j] => i = j
    <3>1. \A i \in 1..Len(private[b]) : private[b][i] # p
      BY <1>1, <2>2 DEF Elems, Held
    <3>2. \A i, j \in 1..Len(private[b]) : private[b][i] = private[b][j] => i = j
      BY <1>1, AppendElems DEF IInv, PagePartition
    <3>3. /\ DOMAIN Append(private[b], p) = 1..(Len(private[b]) + 1)
          /\ Len(private[b]) \in Nat
      BY <1>1, AppendElems
    <3> QED BY <1>1, <1>3, <3>1, <3>2, <3>3, AppendElems
  <2>4. Page = free \cup Cached(tree) \cup UNION {Held(r) : r \in Request}
    BY DEF IInv, PagePartition
  <2>5. UNION {Held(r)' : r \in Request} = {p} \cup UNION {Held(r) : r \in Request}
    BY <1>1, <2>1
  <2>6. (Page = free \cup Cached(tree) \cup UNION {Held(r) : r \in Request})'
    BY <1>1, <2>4, <2>5
  <2>7. \A r \in Request : Held(r)' \cap (free' \cup Cached(tree)) = {}
    BY <1>1, <2>1, <2>2 DEF IInv, PagePartition
  <2>8. \A r \in Request : \A q \in Request \ {r} : Held(r)' \cap Held(q)' = {}
    <3>1. \A r \in Request : \A q \in Request \ {r} : Held(r) \cap Held(q) = {}
      BY DEF IInv, PagePartition
    <3> QED BY <2>1, <2>2, <3>1
  <2>9. \A r \in Request : \A i, j \in DOMAIN private'[r] :
           private'[r][i] = private'[r][j] => i = j
    <3>1. \A r \in Request : \A i, j \in DOMAIN private[r] :
            private[r][i] = private[r][j] => i = j
      BY DEF IInv, PagePartition
    <3> QED BY <1>3, <2>3, <3>1
  <2>10. /\ \A n1, n2 \in DOMAIN tree : n1 # n2 => tree[n1].own \cap tree[n2].own = {}
         /\ free' \cap Cached(tree) = {}
    BY <1>1 DEF IInv, PagePartition
  <2> QED BY <1>1, <2>6, <2>7, <2>8, <2>9, <2>10 DEF PagePartition
<1>7. CreditsWithinPool'
  <2>1. PICK s \in Nat, k \in Nat, c \in Nat, f \in Nat :
          /\ s = Len(shared[b]) /\ k = Len(private[b])
          /\ c = credit[b] /\ f = PagesFor(capacity[b])
    <3>1. Len(shared[b]) \in Nat /\ Len(private[b]) \in Nat
      BY <1>1
    <3>2. credit[b] \in Nat /\ PagesFor(capacity[b]) \in Nat
      BY <1>1, PagesForProperties
    <3> QED BY <3>1, <3>2
  <2>2. Len(private'[b]) = k + 1
    <3>1. Len(Append(private[b], p)) = Len(private[b]) + 1
      BY <1>1, AppendElems
    <3> QED BY <1>3, <2>1, <3>1
  <2>3. Len(PageTable(b)) = s + k
    BY <1>1, <2>1, ConcatProperties DEF PageTable
  <2>4. Len(shared[b] \o private'[b]) = s + k + 1
    <3>1. private'[b] \in Seq(Page) /\ shared[b] \in Seq(Page)
      BY <1>1, <1>3
    <3>2. Len(shared[b] \o private'[b]) = Len(shared[b]) + Len(private'[b])
      BY <3>1, ConcatProperties
    <3>3. Len(shared[b] \o private'[b]) = s + (k + 1)
      BY <2>1, <2>2, <3>2
    <3> QED BY <3>3
  <2>5. s + k < goal /\ goal <= f /\ s + c = f
    BY <1>0, <1>1, <2>1, <2>3 DEF IInv, CreditsWithinPool
  <2>6. k + 1 <= c
    BY <1>1, <2>5
  <2>7. \A r \in Request : Len(private'[r]) <= credit[r]
    BY <1>3, <2>1, <2>2, <2>6 DEF IInv, CreditsWithinPool
  <2>8. busy' = b => goal' = goal /\ s + k + 1 < goal
    BY <1>1, <1>2, <2>3, <2>5
  <2>9. busy' # None => Len(PageTable(busy))' < goal' /\ goal' <= PagesFor(capacity'[busy'])
    BY <1>1, <1>2, <2>1, <2>4, <2>5, <2>8 DEF PageTable
  <2> QED BY <1>1, <2>7, <2>9 DEF IInv, CreditsWithinPool
<1> QED BY <1>4, <1>5, <1>6, <1>7 DEF IInv

(* A node made by a split is locked by exactly the reservations that lock   *)
(* the child below it: copying lock_ref is right because no match ends      *)
(* inside an edge.                                                          *)
LEMMA SplitKeepsLocks ==
  ASSUME IInv, NEW m \in Seq(Token), m # <<>> => Below(tree, m) # {}
  PROVE  \A n \in DOMAIN Split(tree, m) :
           Split(tree, m)[n].lock = Cardinality(Lockers(n))
<1> DEFINE s == Split(tree, m)
<1>1. IsGrown(s, tree, m)
  BY SplitGrows DEF IInv
<1>2. PICK c : c = EdgeEnd(tree, m)
  OBVIOUS
<1> HIDE DEF s
<1>3. ASSUME NEW n \in DOMAIN s PROVE s[n].lock = Cardinality(Lockers(n))
  <2>1. CASE n \in DOMAIN tree
    BY <1>1, <2>1 DEF IsGrown, IInv, LocksCountReservations
  <2>2. CASE n \notin DOMAIN tree
    <3>1. n = m /\ m \in Prefix \ DOMAIN tree /\ Below(tree, m) # {}
      BY <1>1, <2>2 DEF IsGrown, Prefix
    <3>2. /\ c \in DOMAIN tree /\ c \in Seq(Token) /\ m \sqsubseteq c
          /\ \A d \in Below(tree, m) : c \sqsubseteq d
      BY <1>2, <3>1, EdgeEndProperties DEF IInv, PrefixTree, Prefix
    <3>3. \A q \in active : m \sqsubseteq matched[q] <=> c \sqsubseteq matched[q]
      <4> SUFFICES ASSUME NEW q \in active
                   PROVE  m \sqsubseteq matched[q] <=> c \sqsubseteq matched[q]
        OBVIOUS
      <4>1. matched[q] \in Seq(Token)
        BY DEF IInv, TypeOK
      <4>2. c \sqsubseteq matched[q] => m \sqsubseteq matched[q]
        BY <3>2, <4>1, PrefixTransitive
      <4>3. ASSUME m \sqsubseteq matched[q] PROVE c \sqsubseteq matched[q]
        <5>1. matched[q] # <<>>
          BY <3>1, <4>3 DEF \sqsubseteq, Prefix
        <5>2. matched[q] \in Below(tree, m)
          BY <4>3, <5>1 DEF Below, IInv, SharedPagesStayCached
        <5> QED BY <3>2, <5>2
      <4> QED BY <4>2, <4>3
    <3>4. Lockers(m) = Lockers(c)
      BY <3>3 DEF Lockers
    <3>5. s[m].lock = tree[c].lock
      BY <1>1, <1>2, <3>1 DEF IsGrown
    <3> QED BY <3>1, <3>2, <3>4, <3>5 DEF IInv, LocksCountReservations
  <2> QED BY <2>1, <2>2
<1> QED BY <1>3 DEF s

(* Only finitely many reservations can lock a node. *)
LEMMA LockersFinite ==
  ASSUME IInv, NEW n
  PROVE  IsFiniteSet(Lockers(n)) /\ Cardinality(Lockers(n)) \in Nat
<1>1. Lockers(n) \in SUBSET Request
  BY DEF Lockers, IInv, TypeOK
<1> QED BY <1>1, FS_Subset, FS_CardinalityType, RadixAssumption DEF RadixAssumption

(* Evicting unlocked nodes with everything below them preserves it: no      *)
(* reservation reads their pages.                                           *)
LEMMA PruneStep ==
  ASSUME IInv, NEW m \in Seq(Token), m # <<>> => Below(tree, m) # {},
         NEW S \in SUBSET DOMAIN Split(tree, m),
         \A n \in S : Below(Split(tree, m), n) \subseteq S /\ Split(tree, m)[n].lock = 0,
         tree' = Prune(Split(tree, m), S),
         free' = free \cup UNION {Split(tree, m)[n].own : n \in S},
         UNCHANGED <<reserved, active, matched, capacity, credit, shared,
                     private, boundary, busy, goal>>
  PROVE  IInv'
<1> DEFINE s == Split(tree, m)
           u == Prune(s, S)
           freed == UNION {s[n].own : n \in S}
<1>1. /\ PrefixTree(tree) /\ IsGrown(s, tree, m)
      /\ \A n \in DOMAIN s : s[n].lock = Cardinality(Lockers(n))
  BY SplitGrows, SplitKeepsLocks DEF IInv
<1>2. /\ PrefixTree(s) /\ Cached(s) = Cached(tree) /\ Pinned(s) = Pinned(tree)
      /\ DOMAIN tree \subseteq DOMAIN s
      /\ \A n \in DOMAIN tree : s[n].table = tree[n].table
      /\ S \in SUBSET DOMAIN s
      /\ \A n \in S : Below(s, n) \subseteq S /\ s[n].lock = 0
  BY <1>1 DEF IsGrown
<1> HIDE DEF s
<1>3. /\ PrefixTree(u) /\ DOMAIN u = DOMAIN s \ S
      /\ \A n \in DOMAIN u : u[n] = s[n]
      /\ Cached(u) = Cached(tree) \ freed /\ freed \subseteq Cached(tree)
  <2>1. /\ PrefixTree(Prune(s, S)) /\ Cached(Prune(s, S)) = Cached(s) \ UNION {s[n].own : n \in S}
        /\ UNION {s[n].own : n \in S} \subseteq Cached(s)
        /\ DOMAIN Prune(s, S) = DOMAIN s \ S
        /\ \A n \in DOMAIN Prune(s, S) : Prune(s, S)[n] = s[n]
    BY <1>2, PruneKeepsTree
  <2> QED BY <1>2, <2>1
<1> HIDE DEF u, freed
<1>4. /\ tree' = u /\ free' = free \cup freed
      /\ reserved' = reserved /\ active' = active /\ matched' = matched
      /\ capacity' = capacity /\ credit' = credit /\ shared' = shared
      /\ private' = private /\ boundary' = boundary /\ busy' = busy /\ goal' = goal
  BY DEF s, u, freed
<1>5. TypeOK' /\ IdleHandles'
  <2>1. freed \subseteq Page
    BY <1>3 DEF IInv, PagePartition
  <2>2. /\ u \in [DOMAIN u -> Node] /\ DOMAIN u \subseteq Prefix
    BY <1>3 DEF PrefixTree
  <2>3. free' \subseteq Page
    BY <1>4, <2>1 DEF IInv, TypeOK
  <2> QED BY <1>4, <2>2, <2>3 DEF IInv, TypeOK, IdleHandles
<1>6. PagePartition'
  <2>1. \A r \in Request : Held(r)' = Held(r)
    BY <1>4 DEF Held
  <2>2. /\ Page = free \cup Cached(tree) \cup UNION {Held(r) : r \in Request}
        /\ free \cap Cached(tree) = {}
        /\ \A r \in Request : Held(r) \cap (free \cup Cached(tree)) = {}
    BY DEF IInv, PagePartition
  <2>3. free \cup freed \cup Cached(u) = free \cup Cached(tree)
    BY <1>3
  <2>4. UNION {Held(r)' : r \in Request} = UNION {Held(r) : r \in Request}
    BY <2>1
  <2>5. (Page = free \cup Cached(tree) \cup UNION {Held(r) : r \in Request})'
    BY <1>4, <2>2, <2>3, <2>4
  <2>6. (free \cap Cached(tree) = {})'
    BY <1>3, <1>4, <2>2
  <2>7. \A r \in Request : Held(r)' \cap (free' \cup Cached(tree')) = {}
    BY <1>4, <2>1, <2>2, <2>3
  <2>8. \A r \in Request :
          /\ \A q \in Request \ {r} : Held(r)' \cap Held(q)' = {}
          /\ \A i, j \in DOMAIN private[r] : private[r][i] = private[r][j] => i = j
    BY <2>1 DEF IInv, PagePartition
  <2>9. \A n1, n2 \in DOMAIN u : n1 # n2 => u[n1].own \cap u[n2].own = {}
    BY <1>3 DEF PrefixTree
  <2> QED BY <1>4, <2>5, <2>6, <2>7, <2>8, <2>9 DEF PagePartition
<1>7. LocksCountReservations'
  BY <1>1, <1>3, <1>4 DEF LocksCountReservations, Lockers
<1>8. ASSUME NEW r \in active, matched[r] # <<>>
      PROVE  matched[r] \in DOMAIN u /\ u[matched[r]].table = tree[matched[r]].table
  <2>1. matched[r] \in DOMAIN tree /\ matched[r] \in Seq(Token)
    BY <1>8 DEF IInv, SharedPagesStayCached, TypeOK
  <2>2. r \in Lockers(matched[r])
    BY <2>1 DEF Lockers, \sqsubseteq
  <2>3. s[matched[r]].lock # 0
    BY <1>1, <1>2, <2>1, <2>2, LockersFinite, FS_EmptySet
  <2> QED BY <1>2, <1>3, <2>1, <2>3 DEF s
<1>9. SharedPagesStayCached'
  <2>1. \A r \in active : Table(u, matched[r]) = Table(tree, matched[r])
    BY <1>8 DEF Table
  <2> QED BY <1>4, <1>8, <2>1 DEF IInv, SharedPagesStayCached
<1>10. CreditsWithinPool'
  <2>1. Locked(u) = Locked(s)
    BY <1>3 DEF Locked, s
  <2>2. Pinned(u) = Pinned(tree)
    BY <1>2, <1>3, <2>1 DEF Pinned, Locked
  <2> QED BY <1>4, <2>2 DEF IInv, CreditsWithinPool, PageTable
<1> QED BY <1>3, <1>4, <1>5, <1>6, <1>7, <1>9, <1>10 DEF IInv

(* evict_one_leaf preserves it. *)
LEMMA EvictOneLeafStep ==
  ASSUME IInv, NEW n \in DOMAIN tree, EvictOneLeaf(n)
  PROVE  IInv'
<1>1. Split(tree, <<>>) = tree /\ <<>> \in Seq(Token)
  BY DEF Split
<1>2. UNION {tree[k].own : k \in {n}} = tree[n].own
  OBVIOUS
<1>3. Below(tree, n) \subseteq {n} /\ tree[n].lock = 0
  BY DEF EvictOneLeaf, Evictable
<1>4. /\ tree' = Prune(Split(tree, <<>>), {n})
      /\ free' = free \cup UNION {Split(tree, <<>>)[k].own : k \in {n}}
      /\ UNCHANGED <<reserved, active, matched, capacity, credit, shared,
                     private, boundary, busy, goal>>
  BY <1>1, <1>2 DEF EvictOneLeaf
<1>5. /\ {n} \in SUBSET DOMAIN Split(tree, <<>>)
      /\ \A k \in {n} : /\ Below(Split(tree, <<>>), k) \subseteq {n}
                        /\ Split(tree, <<>>)[k].lock = 0
  BY <1>1, <1>3
<1> QED BY <1>1, <1>4, <1>5, PruneStep

(* The matches enumerated for a prompt are prefixes of it. *)
LEMMA PrefixesType ==
  ASSUME NEW ids \in Texts, NEW m \in Prefixes(ids)
  PROVE  /\ ids \in Seq(Token) /\ m \in Seq(Token)
         /\ m \sqsubseteq ids /\ Len(m) \in Nat /\ Len(ids) \in Nat /\ Len(m) <= Len(ids)
<1>1. ids \in Seq(Token)
  BY RadixAssumption DEF RadixAssumption
<1>2. PICK k \in 0..Len(ids) : m = SubSeq(ids, 1, k)
  BY DEF Prefixes
<1> QED BY <1>1, <1>2, SubSeqPrefix

(* Both evictions by name preserve it, whether or not they find and remove  *)
(* their node.                                                              *)
LEMMA EvictExactStep ==
  ASSUME IInv, NEW ids \in Texts, NEW m \in Prefixes(ids),
         EvictExactLeaf(ids, m) \/ EvictExactSubtree(ids, m)
  PROVE  IInv'
<1>1. PICK S : EvictExact(ids, m, S) /\ S \in {{}, Leaf(Split(tree, m), ids),
                                              Subtree(Split(tree, m), ids)}
  BY DEF EvictExactLeaf, EvictExactSubtree
<1>2. m \in Seq(Token) /\ (m # <<>> => Below(tree, m) # {})
  BY <1>1, PrefixesType DEF EvictExact, IsMatch
<1>3. PrefixTree(Split(tree, m))
  BY <1>2, SplitGrows DEF IInv, IsGrown
<1> DEFINE s == Split(tree, m)
<1> HIDE DEF s
<1>4. S \in SUBSET DOMAIN s
  BY <1>1 DEF Leaf, Subtree, Evictable, Below, s
<1>5. ASSUME NEW n \in S PROVE Below(s, n) \subseteq S /\ s[n].lock = 0
  <2>1. CASE S = Leaf(s, ids)
    BY <2>1 DEF Leaf, Evictable
  <2>2. CASE S = Subtree(s, ids)
    <3>1. S = Below(s, ids) /\ Below(s, ids) \cap Locked(s) = {}
      BY <2>2 DEF Subtree
    <3>2. \A k \in DOMAIN s : s[k].lock \in Nat /\ k \in Seq(Token)
      BY <1>3 DEF PrefixTree, Node, Prefix, s
    <3>3. ids \in Seq(Token)
      BY PrefixesType
    <3> QED BY <3>1, <3>2, <3>3, PrefixTransitive DEF Below, Locked
  <2> QED BY <1>1, <2>1, <2>2 DEF s
<1>6. /\ tree' = Prune(Split(tree, m), S)
      /\ free' = free \cup UNION {Split(tree, m)[n].own : n \in S}
      /\ UNCHANGED <<reserved, active, matched, capacity, credit, shared,
                     private, boundary, busy, goal>>
  BY <1>1 DEF EvictExact
<1> QED BY <1>2, <1>4, <1>5, <1>6, PruneStep DEF s

(* A refused reservation preserves it although it may have split a node. *)
LEMMA ReserveRefusedStep ==
  ASSUME IInv, NEW ids \in Texts, NEW m \in Prefixes(ids),
         NEW r \in Request, NEW cap \in Capacities, ReserveRefused(r, ids, cap, m)
  PROVE  IInv'
<1>1. m \in Seq(Token) /\ (m # <<>> => Below(tree, m) # {})
  BY PrefixesType DEF ReserveRefused, IsMatch
<1>2. PrefixTree(Split(tree, m))
  BY <1>1, SplitGrows DEF IInv, IsGrown
<1>3. Prune(Split(tree, m), {}) = Split(tree, m)
  BY <1>2 DEF Prune, PrefixTree
<1>4. UNION {Split(tree, m)[n].own : n \in {}} = {}
  OBVIOUS
<1>5. /\ tree' = Prune(Split(tree, m), {})
      /\ free' = free \cup UNION {Split(tree, m)[n].own : n \in {}}
      /\ UNCHANGED <<reserved, active, matched, capacity, credit, shared,
                     private, boundary, busy, goal>>
  BY <1>3, <1>4 DEF ReserveRefused
<1>6. /\ {} \in SUBSET DOMAIN Split(tree, m)
      /\ \A n \in {} : /\ Below(Split(tree, m), n) \subseteq {}
                       /\ Split(tree, m)[n].lock = 0
  OBVIOUS
<1> QED BY <1>1, <1>5, <1>6, PruneStep

(* How many pages of a match are used in place: all of them, or all but the *)
(* partly filled last.                                                      *)
LEMMA SharedPagesBounds ==
  ASSUME NEW k \in Nat, NEW cap \in Nat, k <= cap
  PROVE  /\ SharedPages(k, cap) \in Nat
         /\ SharedPages(k, cap) <= PagesFor(k)
         /\ SharedPages(k, cap) <= PagesFor(cap)
         /\ SharedPages(k, cap) < PagesFor(k) => PagesFor(k) = SharedPages(k, cap) + 1
         /\ k < cap => SharedPages(k, cap) = k \div PageTokens
<1>1. k \div PageTokens \in Nat
  BY RadixAssumption DEF RadixAssumption
<1> QED BY <1>1, PagesForProperties DEF SharedPages

(* One reservation's promised pages, as numbered slots. *)
LEMMA RowOfSlots ==
  ASSUME NEW r, NEW k \in Nat
  PROVE  IsFiniteSet({r} \X (1..k)) /\ Cardinality({r} \X (1..k)) = k
<1>1. IsFiniteSet({r}) /\ Cardinality({r}) = 1
  BY FS_Singleton
<1>2. IsFiniteSet(1..k) /\ Cardinality(1..k) = k
  BY FS_Interval
<1>3. /\ IsFiniteSet({r} \X (1..k))
      /\ Cardinality({r} \X (1..k)) = Cardinality({r}) * Cardinality(1..k)
  BY <1>1, <1>2, FS_Product, Zenon
<1>4. 1 * k = k
  OBVIOUS
<1> QED BY <1>1, <1>2, <1>3, <1>4

(* The promised pages of all reservations are finitely many. *)
LEMMA SlotsFinite ==
  ASSUME NEW c \in [Request -> Nat]
  PROVE  IsFiniteSet(Slots(c)) /\ Cardinality(Slots(c)) \in Nat
<1> DEFINE f == [r \in Request |-> {r} \X (1..c[r])]
           T == {{r} \X (1..c[r]) : r \in Request}
<1>1. f \in Surjection(Request, T)
  BY DEF Surjection
<1>2. IsFiniteSet(T)
  BY <1>1, FS_Surjection, RadixAssumption DEF RadixAssumption
<1>3. ASSUME NEW r \in Request PROVE IsFiniteSet({r} \X (1..c[r]))
  BY RowOfSlots
<1> QED BY <1>2, <1>3, FS_UNION, FS_CardinalityType DEF Slots

(* Promising pages to a reservation that had none adds exactly that many. *)
LEMMA SlotsAdd ==
  ASSUME NEW c \in [Request -> Nat], NEW d \in [Request -> Nat],
         NEW r \in Request, c[r] = 0, \A q \in Request \ {r} : d[q] = c[q]
  PROVE  Cardinality(Slots(d)) = Cardinality(Slots(c)) + d[r]
<1> DEFINE new == {r} \X (1..d[r])
<1>1. Slots(d) = Slots(c) \cup new
  <2>1. {r} \X (1..c[r]) = {}
    OBVIOUS
  <2> QED BY <2>1 DEF Slots
<1>2. Slots(c) \cap new = {}
  BY DEF Slots
<1>3. IsFiniteSet(new) /\ Cardinality(new) = d[r]
  BY RowOfSlots
<1>4. IsFiniteSet(Slots(c)) /\ Cardinality(Slots(c)) \in Nat
  BY SlotsFinite
<1> QED BY <1>1, <1>2, <1>3, <1>4, FS_Union, FS_EmptySet

(* Capacities are natural numbers. *)
LEMMA CapacitiesType == Capacities \subseteq Nat
BY RadixAssumption, FS_CardinalityType DEF Capacities, RadixAssumption

(* An admitted reservation preserves it: the pages it shares are pinned by  *)
(* its own locks, and the admission test covers its promise.                *)
LEMMA ReserveStep ==
  ASSUME IInv, NEW ids \in Texts, NEW m \in Prefixes(ids),
         NEW r \in Request, NEW cap \in Capacities, Reserve(r, ids, cap, m)
  PROVE  IInv'
<1> DEFINE s == Split(tree, m)
           u == LockPath(s, m)
           direct == SharedPages(Len(m), cap)
           promise == Promise(m, cap)
           table == Table(s, m)
<1>1. /\ m \in Seq(Token) /\ (m # <<>> => Below(tree, m) # {})
      /\ Len(m) \in Nat /\ Len(ids) \in Nat /\ cap \in Nat
      /\ Len(m) <= Len(ids) /\ Len(ids) <= cap /\ Len(m) <= cap
  BY PrefixesType, CapacitiesType DEF Reserve, CanReserve, IsMatch
<1>2. /\ IsGrown(s, tree, m)
      /\ \A n \in DOMAIN s : s[n].lock = Cardinality(Lockers(n))
  BY <1>1, SplitGrows, SplitKeepsLocks DEF IInv
<1>3. /\ tree' = u
      /\ r \notin active /\ busy = None /\ active' = active \cup {r}
      /\ reserved' = reserved + promise
      /\ matched' = [matched EXCEPT ![r] = m]
      /\ capacity' = [capacity EXCEPT ![r] = cap]
      /\ credit' = [credit EXCEPT ![r] = promise]
      /\ shared' = [shared EXCEPT ![r] = SubSeq(table, 1, direct)]
      /\ boundary' = [boundary EXCEPT
                        ![r] = IF direct < Len(table) THEN table[Len(table)] ELSE None]
      /\ free' = free /\ private' = private
      /\ \/ busy' = busy /\ goal' = goal
         \/ busy' = r /\ goal' = PagesFor(Len(ids)) /\ direct < goal'
  BY DEF Reserve, CanReserve, Allocate
<1>4. reserved + promise + Cardinality(Pinned(u)) <= Cardinality(Page)
  BY DEF Reserve, Admissible
<1> HIDE DEF s
<1>5. /\ PrefixTree(s) /\ Cached(s) = Cached(tree)
      /\ DOMAIN tree \subseteq DOMAIN s
      /\ m # <<>> => m \in DOMAIN s
      /\ \A n \in DOMAIN tree : s[n].table = tree[n].table
      /\ \A n \in DOMAIN s : n \in Seq(Token) /\ s[n] \in Node
  BY <1>2 DEF IsGrown, PrefixTree, Prefix
<1>6. /\ table \in Seq(Page) /\ Len(table) = PagesFor(Len(m))
      /\ m # <<>> => table = s[m].table
  <2>1. CASE m = <<>>
    <3>1. table = <<>> /\ Len(m) = 0
      BY <2>1 DEF Table
    <3> QED BY <2>1, <3>1, PagesForZero, EmptySeq
  <2>2. CASE m # <<>>
    BY <1>5, <2>2 DEF Table, PrefixTree, PathOwnsTables, Node
  <2> QED BY <2>1, <2>2
<1>7. /\ direct \in Nat /\ direct <= Len(table) /\ promise \in Nat
      /\ direct + promise = PagesFor(cap)
      /\ direct < Len(table) => Len(table) = direct + 1
      /\ PagesFor(Len(ids)) \in Nat /\ PagesFor(Len(ids)) <= PagesFor(cap)
  <2>1. /\ direct \in Nat /\ direct <= PagesFor(Len(m)) /\ direct <= PagesFor(cap)
        /\ direct < PagesFor(Len(m)) => PagesFor(Len(m)) = direct + 1
    BY <1>1, SharedPagesBounds
  <2>2. PagesFor(cap) \in Nat /\ PagesFor(Len(ids)) \in Nat
        /\ PagesFor(Len(ids)) <= PagesFor(cap)
    BY <1>1, PagesForProperties
  <2>3. promise = PagesFor(cap) - direct
    BY DEF Promise
  <2> QED BY <1>6, <2>1, <2>2, <2>3
<1> HIDE DEF direct, promise, table
<1>8. /\ DOMAIN u = DOMAIN s
      /\ u \in [DOMAIN s -> Node]
      /\ \A n \in DOMAIN s :
           /\ u[n].table = s[n].table /\ u[n].own = s[n].own
           /\ u[n].lock = IF n \sqsubseteq m THEN s[n].lock + 1 ELSE s[n].lock
  <2>1. u = [n \in DOMAIN s |-> IF n \sqsubseteq m THEN [s[n] EXCEPT !.lock = @ + 1]
                                                     ELSE s[n]]
    BY DEF LockPath
  <2>2. \A n \in DOMAIN s :
          /\ [s[n] EXCEPT !.lock = @ + 1] \in Node
          /\ [s[n] EXCEPT !.lock = @ + 1].table = s[n].table
          /\ [s[n] EXCEPT !.lock = @ + 1].own = s[n].own
          /\ [s[n] EXCEPT !.lock = @ + 1].lock = s[n].lock + 1
    <3>1. ASSUME NEW x \in Node
          PROVE  /\ [x EXCEPT !.lock = @ + 1] \in Node
                 /\ [x EXCEPT !.lock = @ + 1].table = x.table
                 /\ [x EXCEPT !.lock = @ + 1].own = x.own
                 /\ [x EXCEPT !.lock = @ + 1].lock = x.lock + 1
      BY DEF Node
    <3>2. \A n \in DOMAIN s : s[n] \in Node
      BY <1>5
    <3> QED BY <3>1, <3>2
  <2>3. DOMAIN u = DOMAIN s
    BY <2>1
  <2>4. ASSUME NEW n \in DOMAIN s
        PROVE  /\ u[n] \in Node
               /\ u[n].table = s[n].table /\ u[n].own = s[n].own
               /\ u[n].lock = IF n \sqsubseteq m THEN s[n].lock + 1 ELSE s[n].lock
    <3>1. u[n] = IF n \sqsubseteq m THEN [s[n] EXCEPT !.lock = @ + 1] ELSE s[n]
      BY <2>1
    <3> QED BY <1>5, <2>2, <3>1
  <2>5. u \in [DOMAIN s -> Node]
    <3>1. u = [n \in DOMAIN s |-> u[n]]
      BY <2>1
    <3> HIDE DEF u
    <3> QED BY <2>4, <3>1
  <2> QED BY <2>3, <2>4, <2>5
<1> HIDE DEF u
<1>9. PrefixTree(u) /\ Cached(u) = Cached(tree)
  BY <1>5, <1>8, RelockKeepsTree
<1>10. /\ SubSeq(table, 1, direct) \in Seq(Page)
       /\ Len(SubSeq(table, 1, direct)) = direct
       /\ \A i \in 1..direct : SubSeq(table, 1, direct)[i] = table[i]
  BY <1>6, <1>7, SubSeqPrefix
<1>11. /\ shared' \in [Request -> Seq(Page)]
       /\ shared'[r] = SubSeq(table, 1, direct)
       /\ matched'[r] = m /\ capacity'[r] = cap /\ credit'[r] = promise
       /\ boundary'[r] = IF direct < Len(table) THEN table[direct + 1] ELSE None
       /\ \A q \in Request \ {r} :
            /\ shared'[q] = shared[q] /\ matched'[q] = matched[q]
            /\ capacity'[q] = capacity[q] /\ credit'[q] = credit[q]
            /\ boundary'[q] = boundary[q]
  BY <1>3, <1>7, <1>10 DEF IInv, TypeOK
<1>12. TypeOK'
  <2>1. tree' \in [DOMAIN tree' -> Node] /\ DOMAIN tree' \subseteq Prefix
    BY <1>3, <1>9 DEF PrefixTree
  <2>2. /\ reserved' \in Nat /\ active' \subseteq Request
    BY <1>3, <1>7 DEF IInv, TypeOK
  <2>5. /\ matched' \in [Request -> Seq(Token)] /\ capacity' \in [Request -> Nat]
        /\ credit' \in [Request -> Nat]
    BY <1>1, <1>3, <1>7 DEF IInv, TypeOK
  <2>3. boundary' \in [Request -> Page \cup {None}]
    <3>1. direct < Len(table) => table[Len(table)] \in Page
      BY <1>6, <1>7, ElementOfSeq
    <3> QED BY <1>3, <3>1 DEF IInv, TypeOK
  <2>4. busy' \in active' \cup {None} /\ goal' \in Nat
    BY <1>3, <1>7 DEF IInv, TypeOK
  <2> QED BY <1>3, <1>11, <2>1, <2>2, <2>3, <2>4, <2>5 DEF IInv, TypeOK
<1>13. IdleHandles'
  BY <1>3, <1>11 DEF IInv, IdleHandles
<1>14. PagePartition'
  <2>1. \A q \in Request : Held(q)' = Held(q)
    BY <1>3 DEF Held
  <2>2. UNION {Held(q)' : q \in Request} = UNION {Held(q) : q \in Request}
    BY <2>1
  <2>3. \A n1, n2 \in DOMAIN u : n1 # n2 => u[n1].own \cap u[n2].own = {}
    BY <1>9 DEF PrefixTree
  <2> QED BY <1>3, <1>9, <2>1, <2>2, <2>3 DEF IInv, PagePartition
<1>15. LocksCountReservations'
  <2>1. ASSUME NEW n \in DOMAIN s PROVE u[n].lock = Cardinality(Lockers(n)')
    <3>1. r \notin Lockers(n) /\ Lockers(n)' = IF n \sqsubseteq m THEN Lockers(n) \cup {r}
                                                               ELSE Lockers(n)
      <4>1. r \notin active /\ active' = active \cup {r} /\ active \subseteq Request
        BY <1>3 DEF IInv, TypeOK
      <4>2. matched'[r] = m /\ \A q \in active : matched'[q] = matched[q]
        BY <1>11, <4>1
      <4> QED BY <4>1, <4>2 DEF Lockers
    <3>2. IsFiniteSet(Lockers(n)) /\ s[n].lock = Cardinality(Lockers(n))
      BY <1>2, LockersFinite DEF s
    <3>3. Cardinality(Lockers(n) \cup {r}) = Cardinality(Lockers(n)) + 1
      BY <3>1, <3>2, FS_AddElement
    <3> QED BY <1>8, <3>1, <3>2, <3>3
  <2> QED BY <1>3, <1>8, <2>1 DEF LocksCountReservations
<1>16. SharedPagesStayCached'
  <2>1. ASSUME NEW q \in active, q # r
        PROVE  /\ matched[q] # <<>> => matched[q] \in DOMAIN u
               /\ Table(u, matched[q]) = Table(tree, matched[q])
    BY <1>5, <1>8 DEF Table, IInv, SharedPagesStayCached
  <2>2. /\ m # <<>> => m \in DOMAIN u
        /\ Table(u, m) = table
    BY <1>5, <1>6, <1>8 DEF Table, table
  <2>3. ASSUME NEW q \in active'
        PROVE  /\ matched'[q] # <<>> => matched'[q] \in DOMAIN u
               /\ Len(shared'[q]) = SharedPages(Len(matched'[q]), capacity'[q])
               /\ Len(shared'[q]) <= Len(Table(u, matched'[q]))
               /\ \A i \in 1..Len(shared'[q]) : shared'[q][i] = Table(u, matched'[q])[i]
               /\ boundary'[q] # None =>
                    /\ Len(shared'[q]) < Len(Table(u, matched'[q]))
                    /\ boundary'[q] = Table(u, matched'[q])[Len(shared'[q]) + 1]
    <3>1. CASE q = r
      BY <1>7, <1>10, <1>11, <2>2, <3>1 DEF direct
    <3>2. CASE q # r
      <4>1. q \in active /\ q \in Request \ {r}
        BY <1>3, <3>2 DEF IInv, TypeOK
      <4>2. /\ shared'[q] = shared[q] /\ matched'[q] = matched[q]
            /\ capacity'[q] = capacity[q] /\ boundary'[q] = boundary[q]
        BY <1>11, <4>1
      <4>3. /\ Len(shared[q]) = SharedPages(Len(matched[q]), capacity[q])
            /\ Len(shared[q]) <= Len(Table(tree, matched[q]))
            /\ \A i \in 1..Len(shared[q]) : shared[q][i] = Table(tree, matched[q])[i]
            /\ boundary[q] # None =>
                 /\ Len(shared[q]) < Len(Table(tree, matched[q]))
                 /\ boundary[q] = Table(tree, matched[q])[Len(shared[q]) + 1]
        BY <4>1 DEF IInv, SharedPagesStayCached
      <4>4. /\ matched[q] # <<>> => matched[q] \in DOMAIN u
            /\ Table(u, matched[q]) = Table(tree, matched[q])
        BY <2>1, <3>2, <4>1
      <4> QED BY <4>2, <4>3, <4>4
    <3> QED BY <3>1, <3>2
  <2>4. tree' = u
    BY <1>3
  <2> QED BY <2>3, <2>4 DEF SharedPagesStayCached
<1>17. CreditsWithinPool'
  <2>1. Cardinality(Slots(credit')) = Cardinality(Slots(credit)) + promise
    <3>1. credit[r] = 0 /\ credit \in [Request -> Nat] /\ credit' \in [Request -> Nat]
      BY <1>3, <1>12 DEF IInv, TypeOK, IdleHandles
    <3> QED BY <1>11, <3>1, SlotsAdd
  <2>2. private[r] = <<>> /\ Len(private[r]) = 0
    BY <1>3 DEF IInv, IdleHandles
  <2>3. \A q \in Request : Len(private'[q]) <= credit'[q]
    BY <1>3, <1>7, <1>11, <2>2 DEF IInv, CreditsWithinPool
  <2>4. \A q \in active' : Len(shared'[q]) + credit'[q] = PagesFor(capacity'[q])
    BY <1>3, <1>7, <1>10, <1>11 DEF IInv, CreditsWithinPool, TypeOK
  <2>5. reserved' = Cardinality(Slots(credit'))
    BY <1>3, <2>1 DEF IInv, CreditsWithinPool
  <2>6. busy' # None => Len(PageTable(busy))' < goal' /\ goal' <= PagesFor(capacity'[busy'])
    <3>1. SUFFICES ASSUME busy' # None
                   PROVE  /\ Len(shared'[r] \o private'[r]) < goal'
                          /\ goal' <= PagesFor(capacity'[r])
                          /\ busy' = r
      BY DEF PageTable
    <3>2. busy' = r /\ goal' = PagesFor(Len(ids)) /\ direct < goal'
      BY <1>3, <3>1
    <3>3. shared'[r] \o private'[r] = SubSeq(table, 1, direct)
      BY <1>3, <1>10, <1>11, <2>2, ConcatEmptySeq
    <3> QED BY <1>7, <1>10, <1>11, <3>2, <3>3
  <2> QED BY <1>3, <1>4, <2>3, <2>4, <2>5, <2>6 DEF CreditsWithinPool
<1> QED BY <1>3, <1>9, <1>12, <1>13, <1>14, <1>15, <1>16, <1>17 DEF IInv

(* finish_reservation preserves it, whatever share of the private pages the *)
(* tree keeps (kept) or the pool gets back (back).                          *)
LEMMA ReleaseStep ==
  ASSUME IInv, NEW r \in Request, Release(r),
         NEW t, PrefixTree(t), DOMAIN tree \subseteq DOMAIN t,
         \A n \in DOMAIN tree : t[n].table = tree[n].table,
         \A n \in DOMAIN t : t[n].lock = Cardinality(Lockers(n)),
         Pinned(t) = Pinned(tree),
         tree' = UnlockPath(t, matched[r]),
         NEW kept, NEW back, kept \cup back = Held(r), kept \cap back = {},
         Cached(t) = Cached(tree) \cup kept, free' = free \cup back
  PROVE  IInv'
<1> DEFINE u == UnlockPath(t, matched[r])
<1>1. /\ r \in active /\ busy = None /\ active' = active \ {r}
      /\ reserved' = reserved - credit[r]
      /\ matched' = [matched EXCEPT ![r] = <<>>]
      /\ capacity' = [capacity EXCEPT ![r] = 0]
      /\ credit' = [credit EXCEPT ![r] = 0]
      /\ shared' = [shared EXCEPT ![r] = <<>>]
      /\ private' = [private EXCEPT ![r] = <<>>]
      /\ boundary' = [boundary EXCEPT ![r] = None]
      /\ busy' = busy /\ goal' = goal
  BY DEF Release
<1>2. /\ matched'[r] = <<>> /\ credit'[r] = 0 /\ shared'[r] = <<>> /\ private'[r] = <<>>
      /\ \A q \in Request \ {r} :
           /\ matched'[q] = matched[q] /\ capacity'[q] = capacity[q]
           /\ credit'[q] = credit[q] /\ shared'[q] = shared[q]
           /\ private'[q] = private[q] /\ boundary'[q] = boundary[q]
  BY <1>1 DEF IInv, TypeOK
<1>3. \A n \in DOMAIN t : /\ n \in Seq(Token) /\ t[n] \in Node
                          /\ n \sqsubseteq matched[r] => t[n].lock > 0
  <2>1. \A n \in DOMAIN t : n \in Seq(Token) /\ t[n] \in Node
    BY DEF PrefixTree, Prefix
  <2>2. ASSUME NEW n \in DOMAIN t, n \sqsubseteq matched[r]
        PROVE  Cardinality(Lockers(n)) > 0
    <3>1. r \in Lockers(n)
      BY <1>1, <2>2 DEF Lockers
    <3> QED BY <3>1, LockersFinite, FS_EmptySet
  <2> QED BY <2>1, <2>2
<1>4. /\ DOMAIN u = DOMAIN t
      /\ u \in [DOMAIN t -> Node]
      /\ \A n \in DOMAIN t :
           /\ u[n].table = t[n].table /\ u[n].own = t[n].own
           /\ u[n].lock = IF n \sqsubseteq matched[r] THEN t[n].lock - 1 ELSE t[n].lock
  <2>1. u = [n \in DOMAIN t |-> IF n \sqsubseteq matched[r] THEN [t[n] EXCEPT !.lock = @ - 1]
                                                            ELSE t[n]]
    BY DEF UnlockPath
  <2>2. ASSUME NEW n \in DOMAIN t, n \sqsubseteq matched[r]
        PROVE  /\ [t[n] EXCEPT !.lock = @ - 1] \in Node
               /\ [t[n] EXCEPT !.lock = @ - 1].table = t[n].table
               /\ [t[n] EXCEPT !.lock = @ - 1].own = t[n].own
               /\ [t[n] EXCEPT !.lock = @ - 1].lock = t[n].lock - 1
    <3>1. t[n] \in Node /\ t[n].lock > 0
      BY <1>3, <2>2
    <3> QED BY <3>1 DEF Node
  <2> QED BY <1>3, <2>1, <2>2
<1>5. tree' = u
  OBVIOUS
<1> HIDE DEF u
<1>6. PrefixTree(u) /\ Cached(u) = Cached(tree) \cup kept
  BY <1>4, RelockKeepsTree
<1>7. TypeOK'
  <2>1. tree' \in [DOMAIN tree' -> Node] /\ DOMAIN tree' \subseteq Prefix
    BY <1>5, <1>6 DEF PrefixTree
  <2>2. free' \subseteq Page
    BY DEF IInv, PagePartition
  <2>3. reserved' \in Nat
    <3>1. PICK c \in [Request -> Nat] : c = credit'
      BY <1>1 DEF IInv, TypeOK
    <3>2. Cardinality(Slots(credit)) = Cardinality(Slots(c)) + credit[r]
      <4>1. /\ credit \in [Request -> Nat] /\ c[r] = 0
            /\ \A q \in Request \ {r} : credit[q] = c[q]
        BY <1>2, <3>1 DEF IInv, TypeOK
      <4> QED BY <4>1, SlotsAdd
    <3>3. Cardinality(Slots(c)) \in Nat /\ credit[r] \in Nat
      BY SlotsFinite DEF IInv, TypeOK
    <3> QED BY <1>1, <3>2, <3>3 DEF IInv, CreditsWithinPool
  <2>4. /\ active' \subseteq Request
        /\ matched' \in [Request -> Seq(Token)] /\ capacity' \in [Request -> Nat]
        /\ credit' \in [Request -> Nat] /\ shared' \in [Request -> Seq(Page)]
        /\ private' \in [Request -> Seq(Page)]
        /\ boundary' \in [Request -> Page \cup {None}]
    BY <1>1, EmptySeq DEF IInv, TypeOK
  <2> QED BY <1>1, <2>1, <2>2, <2>3, <2>4 DEF IInv, TypeOK
<1>8. IdleHandles'
  BY <1>1, <1>2 DEF IInv, IdleHandles
<1>9. PagePartition'
  <2>1. /\ Held(r)' = {}
        /\ \A q \in Request \ {r} : Held(q)' = Held(q)
    BY <1>2, EmptySeq DEF Held, Elems
  <2>2. /\ Page = free \cup Cached(tree) \cup UNION {Held(q) : q \in Request}
        /\ free \cap Cached(tree) = {}
        /\ \A q \in Request : Held(q) \cap (free \cup Cached(tree)) = {}
        /\ \A q \in Request : \A k \in Request \ {q} : Held(q) \cap Held(k) = {}
        /\ \A q \in Request : \A i, j \in DOMAIN private[q] :
             private[q][i] = private[q][j] => i = j
    BY DEF IInv, PagePartition
  <2>3. UNION {Held(q) : q \in Request} = Held(r) \cup UNION {Held(q)' : q \in Request}
    BY <2>1
  <2>4. (Page = free \cup Cached(tree) \cup UNION {Held(q) : q \in Request})'
    BY <1>5, <1>6, <2>2, <2>3
  <2>5. free' \cap Cached(u) = {}
    BY <1>6, <2>2
  <2>6. \A q \in Request : Held(q)' \cap (free' \cup Cached(u)) = {}
    BY <1>6, <2>1, <2>2
  <2>7. \A q \in Request : \A k \in Request \ {q} : Held(q)' \cap Held(k)' = {}
    BY <2>1, <2>2
  <2>8. \A q \in Request : \A i, j \in DOMAIN private'[q] :
          private'[q][i] = private'[q][j] => i = j
    BY <1>2, <2>2
  <2>9. \A n1, n2 \in DOMAIN u : n1 # n2 => u[n1].own \cap u[n2].own = {}
    BY <1>6 DEF PrefixTree
  <2> QED BY <1>5, <2>4, <2>5, <2>6, <2>7, <2>8, <2>9 DEF PagePartition
<1>10. LocksCountReservations'
  <2>1. ASSUME NEW n \in DOMAIN t PROVE u[n].lock = Cardinality(Lockers(n)')
    <3>1. /\ Lockers(n)' = Lockers(n) \ {r}
          /\ r \in Lockers(n) <=> n \sqsubseteq matched[r]
      BY <1>1, <1>2 DEF Lockers, IInv, TypeOK
    <3>2. /\ IsFiniteSet(Lockers(n)) /\ Cardinality(Lockers(n)) \in Nat
          /\ t[n].lock = Cardinality(Lockers(n))
      BY LockersFinite
    <3>3. Cardinality(Lockers(n) \ {r}) = IF r \in Lockers(n) THEN Cardinality(Lockers(n)) - 1
                                                             ELSE Cardinality(Lockers(n))
      BY <3>2, FS_RemoveElement
    <3> QED BY <1>4, <3>1, <3>2, <3>3
  <2> QED BY <1>4, <1>5, <2>1 DEF LocksCountReservations
<1>11. SharedPagesStayCached'
  <2>1. ASSUME NEW q \in active
        PROVE  /\ matched[q] # <<>> => matched[q] \in DOMAIN u
               /\ Table(u, matched[q]) = Table(tree, matched[q])
    BY <1>4 DEF Table, IInv, SharedPagesStayCached
  <2>2. ASSUME NEW q \in active'
        PROVE  /\ matched'[q] # <<>> => matched'[q] \in DOMAIN u
               /\ Len(shared'[q]) = SharedPages(Len(matched'[q]), capacity'[q])
               /\ Len(shared'[q]) <= Len(Table(u, matched'[q]))
               /\ \A i \in 1..Len(shared'[q]) : shared'[q][i] = Table(u, matched'[q])[i]
               /\ boundary'[q] # None =>
                    /\ Len(shared'[q]) < Len(Table(u, matched'[q]))
                    /\ boundary'[q] = Table(u, matched'[q])[Len(shared'[q]) + 1]
    <3>1. q \in active /\ q \in Request \ {r}
      BY <1>1 DEF IInv, TypeOK
    <3> QED BY <1>2, <2>1, <3>1 DEF IInv, SharedPagesStayCached
  <2> QED BY <1>5, <2>2 DEF SharedPagesStayCached
<1>12. CreditsWithinPool'
  <2>1. PICK c \in [Request -> Nat] : c = credit'
    BY <1>1 DEF IInv, TypeOK
  <2>2. Cardinality(Slots(credit)) = Cardinality(Slots(c)) + credit[r]
    <3>1. /\ credit \in [Request -> Nat] /\ c[r] = 0
          /\ \A q \in Request \ {r} : credit[q] = c[q]
      BY <1>2, <2>1 DEF IInv, TypeOK
    <3> QED BY <3>1, SlotsAdd
  <2>3. Cardinality(Slots(c)) \in Nat /\ credit[r] \in Nat
    BY SlotsFinite DEF IInv, TypeOK
  <2>4. reserved' = Cardinality(Slots(credit')) /\ reserved' <= reserved
    BY <1>1, <2>1, <2>2, <2>3 DEF IInv, CreditsWithinPool
  <2>5. Cardinality(Pinned(u)) <= Cardinality(Pinned(tree)) /\ Cardinality(Pinned(u)) \in Nat
    <3>1. Pinned(tree) \subseteq Page
      BY DEF Pinned, Locked, Cached, IInv, PagePartition
    <3>2. Locked(u) \subseteq Locked(t)
      BY <1>3, <1>4 DEF Locked, Node
    <3>3. Pinned(u) \in SUBSET Pinned(tree)
      <4>1. \A n \in Locked(t) : n \in DOMAIN t
        BY DEF Locked
      <4>2. Pinned(u) \subseteq Pinned(t)
        BY <1>4, <3>2, <4>1 DEF Pinned
      <4> QED BY <4>2
    <3>4. IsFiniteSet(Pinned(tree))
      BY <3>1, FS_Subset, RadixAssumption DEF RadixAssumption
    <3> QED BY <3>3, <3>4, FS_Subset, FS_CardinalityType
  <2>6. reserved' + Cardinality(Pinned(u)) <= Cardinality(Page)
    <3>1. reserved + Cardinality(Pinned(tree)) <= Cardinality(Page)
      BY DEF IInv, CreditsWithinPool
    <3>2. reserved \in Nat /\ reserved' \in Nat /\ Cardinality(Page) \in Nat
          /\ Cardinality(Pinned(tree)) \in Nat
      <4>1. Pinned(tree) \in SUBSET Page
        BY DEF Pinned, Locked, Cached, IInv, PagePartition
      <4> QED BY <1>7, <4>1, FS_Subset, FS_CardinalityType, RadixAssumption
              DEF IInv, TypeOK, RadixAssumption
    <3> QED BY <2>4, <2>5, <3>1, <3>2
  <2>7. \A q \in Request : Len(private'[q]) <= credit'[q]
    BY <1>2, EmptySeq DEF IInv, CreditsWithinPool
  <2>8. \A q \in active' : Len(shared'[q]) + credit'[q] = PagesFor(capacity'[q])
    BY <1>1, <1>2 DEF IInv, CreditsWithinPool, TypeOK
  <2> QED BY <1>1, <1>5, <2>4, <2>6, <2>7, <2>8 DEF CreditsWithinPool
<1> QED BY <1>5, <1>6, <1>7, <1>8, <1>9, <1>10, <1>11, <1>12 DEF IInv

(* Cancelling, or dropping, a reservation preserves it. *)
LEMMA CancelStep ==
  ASSUME IInv, NEW r \in Request, Cancel(r)
  PROVE  IInv'
<1>1. /\ Release(r) /\ PrefixTree(tree) /\ tree' = UnlockPath(tree, matched[r])
      /\ {} \cup Held(r) = Held(r) /\ {} \cap Held(r) = {}
      /\ Cached(tree) = Cached(tree) \cup {} /\ free' = free \cup Held(r)
      /\ \A n \in DOMAIN tree : tree[n].lock = Cardinality(Lockers(n))
  BY DEF Cancel, IInv, Held, LocksCountReservations
<1> QED BY <1>1, ReleaseStep

(* Publishing a prefix that is cached already preserves it: all the private *)
(* pages go back.                                                           *)
LEMMA CommitKnownStep ==
  ASSUME IInv, NEW ids \in Texts, NEW r \in Request, Commit(r, ids, ids)
  PROVE  IInv'
<1> DEFINE s == Split(tree, ids)
<1>1. ids \in Seq(Token) /\ (ids # <<>> => Below(tree, ids) # {})
  BY RadixAssumption DEF Commit, IsMatch, RadixAssumption
<1>2. /\ IsGrown(s, tree, ids)
      /\ \A n \in DOMAIN s : s[n].lock = Cardinality(Lockers(n))
  BY <1>1, SplitGrows, SplitKeepsLocks DEF IInv
<1>3. /\ Release(r)
      /\ tree' = UnlockPath(s, matched[r])
      /\ free' = free \cup (Held(r) \ Elems(Table(s, ids)))
  BY DEF Commit, Published, Canonical, Held
<1> HIDE DEF s
<1>4. /\ PrefixTree(s) /\ Cached(s) = Cached(tree) /\ Pinned(s) = Pinned(tree)
      /\ DOMAIN tree \subseteq DOMAIN s
      /\ ids # <<>> => ids \in DOMAIN s
      /\ \A n \in DOMAIN tree : s[n].table = tree[n].table
  BY <1>2 DEF IsGrown
<1>5. Elems(Table(s, ids)) \subseteq Cached(s)
  <2>1. CASE ids = <<>>
    BY <2>1, EmptySeq DEF Table, Elems
  <2>2. CASE ids # <<>>
    BY <1>4, <2>2 DEF Table, PrefixTree, PathOwnsTables, Cached
  <2> QED BY <2>1, <2>2
<1>6. free' = free \cup Held(r)
  BY <1>3, <1>4, <1>5 DEF IInv, PagePartition
<1>7. /\ {} \cup Held(r) = Held(r) /\ {} \cap Held(r) = {}
      /\ Cached(s) = Cached(tree) \cup {}
  BY <1>4
<1>8. \A n \in DOMAIN s : s[n].lock = Cardinality(Lockers(n))
  BY <1>2 DEF s
<1> QED BY <1>3, <1>4, <1>6, <1>7, <1>8, ReleaseStep

(* What a commit adds beyond the pages it reuses is private to it, page for *)
(* page: what it shares with the tree ends before the tree's match of the   *)
(* text does.                                                               *)
LEMMA SuffixIsPrivate ==
  ASSUME IInv, NEW ids \in Texts, NEW m \in Prefixes(ids), m # ids, NEW r \in active,
         matched[r] \sqsubseteq ids, Len(ids) <= capacity[r],
         PagesFor(Len(ids)) <= Len(PageTable(r)), IsMatch(tree, ids, m)
  PROVE  LET suffix == OwnSuffix(r, ids, m)
         IN  /\ matched[r] \sqsubseteq m
             /\ Reusable(m) \in Nat /\ Reusable(m) <= PagesFor(Len(m))
             /\ PagesFor(Len(ids)) \in Nat /\ Reusable(m) <= PagesFor(Len(ids))
             /\ suffix \in Seq(Page) /\ Len(suffix) = PagesFor(Len(ids)) - Reusable(m)
             /\ Elems(suffix) \subseteq Held(r)
             /\ \A i, j \in 1..Len(suffix) : suffix[i] = suffix[j] => i = j
<1> DEFINE suffix == OwnSuffix(r, ids, m)
<1>1. /\ ids \in Seq(Token) /\ m \in Seq(Token) /\ m \sqsubseteq ids
      /\ Len(m) \in Nat /\ Len(ids) \in Nat
  BY PrefixesType DEF IsMatch
<1>2. Len(m) < Len(ids)
  BY <1>1, PrefixAntisymmetric
<1>3. r \in Request
  BY DEF IInv, TypeOK
<1>6. /\ matched[r] \in Seq(Token) /\ capacity[r] \in Nat
      /\ shared[r] \in Seq(Page) /\ private[r] \in Seq(Page)
      /\ matched[r] # <<>> => matched[r] \in DOMAIN tree
      /\ Len(shared[r]) = SharedPages(Len(matched[r]), capacity[r])
      /\ DOMAIN tree \subseteq Prefix
  BY <1>3 DEF IInv, TypeOK, SharedPagesStayCached, PrefixTree
<1>7. matched[r] \sqsubseteq m
  <2>1. CASE matched[r] = <<>>
    BY <1>1, <2>1 DEF \sqsubseteq
  <2>2. CASE matched[r] # <<>>
    BY <1>1, <1>6, <2>2, MatchIsLongest
  <2> QED BY <2>1, <2>2
<1> HIDE DEF suffix
<1>8. PICK L \in Nat : L = Len(shared[r])
  BY <1>6, LenProperties
<1>81. PICK K \in Nat : K = Len(private[r])
  BY <1>6, LenProperties
<1>82. PICK k \in Nat : k = Reusable(m)
  <2>1. Len(m) \div PageTokens \in Nat
    BY <1>1, FullPages
  <2> QED BY <2>1 DEF Reusable
<1>83. PICK N \in Nat : N = PagesFor(Len(ids))
  BY <1>1, PagesForProperties
<1>9. L <= k /\ k <= N /\ N <= L + K /\ k <= PagesFor(Len(m))
  <2>1. Len(matched[r]) \in Nat /\ Len(matched[r]) <= Len(m) /\ Len(matched[r]) < capacity[r]
    <3>1. Len(matched[r]) \in Nat /\ Len(matched[r]) <= Len(m)
      BY <1>6, <1>7, LenProperties DEF \sqsubseteq
    <3> QED BY <1>1, <1>2, <1>6, <3>1
  <2>2. L = Len(matched[r]) \div PageTokens
    <3>1. L = SharedPages(Len(matched[r]), capacity[r])
      BY <1>6, <1>8
    <3>2. \A j, cap \in Nat : j < cap => SharedPages(j, cap) = j \div PageTokens
      BY SharedPagesBounds
    <3> QED BY <1>6, <2>1, <3>1, <3>2
  <2>3. L <= k
    BY <1>1, <1>82, <2>1, <2>2, FullPages DEF Reusable
  <2>4. k <= N
    <3>1. Len(m) <= Len(ids)
      BY <1>1, <1>2
    <3> QED BY <1>1, <1>82, <1>83, <3>1, FullPages DEF Reusable
  <2>5. k <= PagesFor(Len(m))
    <3>1. Len(m) <= Len(m)
      BY <1>1
    <3> QED BY <1>1, <1>82, <3>1, FullPages DEF Reusable
  <2>6. Len(PageTable(r)) = L + K
    BY <1>6, <1>8, <1>81, ConcatProperties, ZenonT(40) DEF PageTable
  <2> QED BY <1>83, <2>3, <2>4, <2>5, <2>6
<1>10. /\ PageTable(r) \in Seq(Page)
       /\ \A i \in (k + 1)..N : PageTable(r)[i] = private[r][i - L]
  <2>1. /\ PageTable(r) \in Seq(Page)
        /\ \A i \in 1..(L + K) :
             PageTable(r)[i] = IF i <= L THEN shared[r][i] ELSE private[r][i - L]
    BY <1>6, <1>8, <1>81, ConcatProperties DEF PageTable
  <2>2. ASSUME NEW i \in (k + 1)..N PROVE i \in 1..(L + K) /\ ~ (i <= L)
    BY <1>9
  <2> QED BY <2>1, <2>2
<1>11. /\ suffix \in Seq(Page) /\ Len(suffix) = N - k
       /\ \A i \in 1..(N - k) : suffix[i] = private[r][k + i - L]
       /\ Elems(suffix) \subseteq Held(r)
  <2>1. suffix = SubSeq(PageTable(r), k + 1, N)
    BY <1>82, <1>83 DEF OwnSuffix, suffix
  <2>2. PageTable(r) \in Seq(Page) /\ Len(PageTable(r)) \in Nat /\ N <= Len(PageTable(r))
    BY <1>10, <1>83, LenProperties
  <2>3. /\ suffix \in Seq(Page) /\ Len(suffix) = N - k
        /\ \A i \in 1..(N - k) : suffix[i] = PageTable(r)[k + i]
    BY <1>9, <2>1, <2>2
  <2>4. ASSUME NEW i \in 1..(N - k)
        PROVE  suffix[i] = private[r][k + i - L] /\ k + i - L \in 1..K
    <3>1. k + i \in (k + 1)..N /\ k + i - L \in 1..K
      BY <1>9
    <3>2. PageTable(r)[k + i] = private[r][k + i - L]
      BY <1>10, <3>1, SMTT(20)
    <3> QED BY <2>3, <3>1, <3>2
  <2>5. ASSUME NEW x \in Elems(suffix) PROVE x \in Held(r)
    <3>1. PICK i \in 1..(N - k) : x = suffix[i]
      BY <2>3 DEF Elems
    <3>2. k + i - L \in 1..Len(private[r]) /\ x = private[r][k + i - L]
      BY <1>81, <2>4, <3>1
    <3>3. PICK j \in 1..Len(private[r]) : x = private[r][j]
      BY <3>2
    <3> QED BY <3>3 DEF Elems, Held
  <2> QED BY <2>3, <2>4, <2>5
<1>12. \A i, j \in 1..(N - k) : suffix[i] = suffix[j] => i = j
  <2> SUFFICES ASSUME NEW i \in 1..(N - k), NEW j \in 1..(N - k), suffix[i] = suffix[j]
               PROVE  i = j
    OBVIOUS
  <2>1. /\ k + i - L \in 1..K /\ k + j - L \in 1..K
        /\ private[r][k + i - L] = private[r][k + j - L]
    BY <1>9, <1>11
  <2>2. DOMAIN private[r] = 1..K
    BY <1>6, <1>81
  <2>3. k + i - L = k + j - L
    BY <1>3, <2>1, <2>2 DEF IInv, PagePartition
  <2> QED BY <2>3
<1> QED BY <1>7, <1>82, <1>83, <1>9, <1>11, <1>12 DEF suffix

(* Publishing a new prefix preserves it: the pages not in the canonical     *)
(* table go back, and the new node owns the rest.                           *)
LEMMA CommitNewStep ==
  ASSUME IInv, NEW ids \in Texts, NEW m \in Prefixes(ids), m # ids,
         NEW r \in Request, Commit(r, ids, m)
  PROVE  IInv'
<1> DEFINE s == Split(tree, m)
           table == Table(s, m)
           suffix == OwnSuffix(r, ids, m)
           canon == SubSeq(table, 1, Reusable(m)) \o suffix
           t == Insert(s, ids, canon, Elems(suffix))
<1>1. /\ ids \in Seq(Token) /\ m \in Seq(Token) /\ m \sqsubseteq ids
      /\ Len(m) \in Nat /\ Len(ids) \in Nat
      /\ IsMatch(tree, ids, m) /\ (m # <<>> => Below(tree, m) # {})
  BY PrefixesType DEF Commit, IsMatch
<1>2. Len(m) < Len(ids)
  BY <1>1, PrefixAntisymmetric
<1>3. /\ IsGrown(s, tree, m)
      /\ \A n \in DOMAIN s : s[n].lock = Cardinality(Lockers(n))
  BY <1>1, SplitGrows, SplitKeepsLocks DEF IInv
<1>4. /\ Release(r) /\ r \in active
      /\ matched[r] \sqsubseteq ids /\ Len(ids) <= capacity[r]
      /\ PagesFor(Len(ids)) <= Len(PageTable(r))
      /\ tree' = UnlockPath(t, matched[r])
      /\ free' = free \cup (Held(r) \ Elems(canon))
  BY DEF Commit, Release, Published, Canonical, Held
<1> HIDE DEF s
<1>5. /\ PrefixTree(s) /\ Cached(s) = Cached(tree) /\ Pinned(s) = Pinned(tree)
      /\ DOMAIN s = IF m = <<>> THEN DOMAIN tree ELSE DOMAIN tree \cup {m}
      /\ \A n \in DOMAIN tree : s[n].table = tree[n].table
  BY <1>3 DEF IsGrown
<1>6. /\ matched[r] \in Seq(Token)
      /\ matched[r] # <<>> => matched[r] \in DOMAIN tree
      /\ DOMAIN tree \subseteq Prefix
  BY <1>4 DEF IInv, TypeOK, SharedPagesStayCached, PrefixTree
<1>7. /\ Reusable(m) \in Nat /\ Reusable(m) <= PagesFor(Len(m))
      /\ PagesFor(Len(ids)) \in Nat /\ Reusable(m) <= PagesFor(Len(ids))
      /\ suffix \in Seq(Page) /\ Len(suffix) = PagesFor(Len(ids)) - Reusable(m)
      /\ Elems(suffix) \subseteq Held(r)
  BY <1>1, <1>4, SuffixIsPrivate
<1> HIDE DEF t, canon, suffix, table
<1>82. PICK k \in Nat : k = Reusable(m)
  BY <1>7
<1>83. PICK N \in Nat : N = PagesFor(Len(ids))
  BY <1>7
<1>9. k <= N /\ k <= PagesFor(Len(m))
  BY <1>7, <1>82, <1>83
<1>11. suffix \in Seq(Page) /\ Len(suffix) = N - k /\ Elems(suffix) \subseteq Held(r)
  BY <1>7, <1>82, <1>83
<1>12. /\ table \in Seq(Page) /\ Len(table) = PagesFor(Len(m))
       /\ m # <<>> => m \in DOMAIN s /\ table = s[m].table
       /\ m = <<>> => Len(table) = 0
       /\ Elems(table) \subseteq Cached(tree)
  <2>1. CASE m = <<>>
    <3>1. table = <<>> /\ Len(m) = 0
      BY <2>1 DEF Table, table
    <3> QED BY <2>1, <3>1, PagesForZero, EmptySeq DEF Elems
  <2>2. CASE m # <<>>
    <3>1. m \in DOMAIN s /\ table = s[m].table
      BY <1>5, <2>2 DEF Table, table
    <3>2. table \in Seq(Page)
      BY <1>5, <3>1 DEF PrefixTree, Node
    <3>3. Len(table) = PagesFor(Len(m))
      BY <1>5, <3>1 DEF PrefixTree, PathOwnsTables
    <3>4. Elems(s[m].table) \subseteq Cached(s)
      <4>1. \A x \in Elems(s[m].table) : \E q \in DOMAIN s : x \in s[q].own
        BY <1>5, <3>1 DEF PrefixTree, PathOwnsTables
      <4> QED BY <4>1 DEF Cached
    <3> QED BY <1>5, <2>2, <3>1, <3>2, <3>3, <3>4
  <2> QED BY <2>1, <2>2
<1>13. /\ SubSeq(table, 1, k) \in Seq(Page) /\ Len(SubSeq(table, 1, k)) = k
       /\ Elems(SubSeq(table, 1, k)) \subseteq Elems(table)
  <2>1. k \in 0..Len(table)
    BY <1>9, <1>12, LenProperties
  <2> QED BY <1>12, <2>1, SubSeqPrefix DEF Elems
<1>14. /\ canon \in Seq(Page) /\ Len(canon) = N
       /\ Elems(canon) \subseteq Elems(table) \cup Elems(suffix)
       /\ Elems(suffix) \subseteq Elems(canon)
  <2>1. PICK front \in Seq(Page) : front = SubSeq(table, 1, k)
    BY <1>13
  <2>2. canon = front \o suffix
    BY <1>82, <2>1 DEF canon
  <2>3. Len(front) = k /\ Len(suffix) \in Nat
    BY <1>11, <1>13, <2>1, LenProperties
  <2>4. /\ canon \in Seq(Page) /\ Len(canon) = k + Len(suffix)
        /\ \A i \in 1..(k + Len(suffix)) :
             canon[i] = IF i <= k THEN front[i] ELSE suffix[i - k]
    BY <1>11, <2>2, <2>3, ConcatProperties
  <2>5. Len(canon) = N
    BY <1>9, <1>11, <2>4
  <2>6. ASSUME NEW i \in 1..Len(canon)
        PROVE  canon[i] \in Elems(front) \cup Elems(suffix)
    <3>1. i \in 1..(k + Len(suffix))
      BY <2>4
    <3>2. CASE i <= k
      BY <2>3, <2>4, <3>1, <3>2 DEF Elems
    <3>3. CASE ~ (i <= k)
      <4>1. i - k \in 1..Len(suffix)
        BY <2>3, <3>1, <3>3
      <4> QED BY <2>4, <3>1, <3>3, <4>1 DEF Elems
    <3> QED BY <3>2, <3>3
  <2>7. ASSUME NEW i \in 1..Len(suffix) PROVE suffix[i] \in Elems(canon)
    <3>1. k + i \in 1..(k + Len(suffix)) /\ ~ (k + i <= k) /\ (k + i) - k = i
      BY <2>3
    <3> QED BY <2>4, <3>1 DEF Elems
  <2>8. Elems(canon) \subseteq Elems(front) \cup Elems(suffix)
    BY <2>6 DEF Elems
  <2>9. Elems(suffix) \subseteq Elems(canon)
    BY <2>7 DEF Elems
  <2> QED BY <1>13, <2>1, <2>4, <2>5, <2>8, <2>9
<1>15. /\ ids \in Prefix
       /\ \A p \in Seq(Token) : p \sqsubseteq ids /\ Len(m) < Len(p) => Below(s, p) = {}
  <2>1. ids \in Prefix
    BY <1>1, <1>2 DEF Prefix
  <2>2. ASSUME NEW p \in Seq(Token), p \sqsubseteq ids, Len(m) < Len(p)
        PROVE  Below(s, p) = {}
    <3>1. Below(tree, p) = {}
      BY <1>1, <1>6, <2>2, BeyondMatchIsEmpty
    <3>2. ~ (p \sqsubseteq m)
      BY <1>1, <2>2 DEF \sqsubseteq
    <3> QED BY <1>5, <3>1, <3>2 DEF Below
  <2> QED BY <2>1, <2>2
<1>16. /\ Elems(suffix) \cap Cached(s) = {}
       /\ \A x \in Elems(canon) \ Elems(suffix) : m # <<>> /\ x \in Elems(s[m].table)
  <2>1. Elems(suffix) \cap Cached(s) = {}
    BY <1>5, <1>11 DEF IInv, PagePartition
  <2>2. m = <<>> => Elems(table) = {}
    BY <1>12 DEF Elems
  <2> QED BY <1>12, <1>14, <2>1, <2>2
<1>17. /\ PrefixTree(t) /\ DOMAIN t = DOMAIN s \cup {ids} /\ ids \notin DOMAIN s
       /\ \A n \in DOMAIN s : t[n] = s[n]
       /\ t[ids].lock = 0
       /\ Cached(t) = Cached(s) \cup Elems(suffix) /\ Pinned(t) = Pinned(s)
  <2>1. canon \in Seq(Page) /\ Len(canon) = PagesFor(Len(ids))
    BY <1>83, <1>14
  <2>2. m # <<>> => m \in DOMAIN s
    BY <1>12
  <2>3. PICK owned : owned = Elems(suffix)
    OBVIOUS
  <2>4. owned \subseteq Elems(canon) /\ owned \cap Cached(s) = {}
    BY <1>14, <1>16, <2>3
  <2>5. \A x \in Elems(canon) \ owned : m # <<>> /\ x \in Elems(s[m].table)
    BY <1>16, <2>3
  <2>6. t = Insert(s, ids, canon, owned)
    BY <2>3 DEF t
  <2>7. PrefixTree(s) /\ ids \in Prefix /\ m \in Seq(Token) /\ m \sqsubseteq ids
    BY <1>1, <1>5, <1>15
  <2>8. \A p \in Seq(Token) : p \sqsubseteq ids /\ Len(m) < Len(p) => Below(s, p) = {}
    BY <1>15
  <2>9. /\ PrefixTree(t) /\ DOMAIN t = DOMAIN s \cup {ids} /\ ids \notin DOMAIN s
        /\ \A n \in DOMAIN s : t[n] = s[n]
        /\ t[ids].lock = 0
        /\ Cached(t) = Cached(s) \cup owned /\ Pinned(t) = Pinned(s)
    <3>1. PICK ss : ss = s
      OBVIOUS
    <3>2. PICK pages \in Seq(Page) : pages = canon
      BY <2>1
    <3>3. /\ PrefixTree(ss) /\ (m # <<>> => m \in DOMAIN ss)
          /\ \A p \in Seq(Token) : p \sqsubseteq ids /\ Len(m) < Len(p) => Below(ss, p) = {}
          /\ Len(pages) = PagesFor(Len(ids))
          /\ owned \subseteq Elems(pages) /\ owned \cap Cached(ss) = {}
          /\ \A x \in Elems(pages) \ owned : m # <<>> /\ x \in Elems(ss[m].table)
      BY <2>1, <2>2, <2>4, <2>5, <2>7, <2>8, <3>1, <3>2
    <3>4. t = Insert(ss, ids, pages, owned)
      BY <2>6, <3>1, <3>2
    <3>5. ids \notin DOMAIN ss /\ PrefixTree(Insert(ss, ids, pages, owned))
      BY <1>2, <2>7, <3>3, InsertKeepsTree
    <3>6. IsInserted(Insert(ss, ids, pages, owned), ss, ids, pages, owned)
      BY <3>5, InsertGrows
    <3> QED BY <3>1, <3>4, <3>5, <3>6 DEF IsInserted
  <2> QED BY <2>3, <2>9
<1> HIDE DEF t
<1>18. \A n \in DOMAIN t : t[n].lock = Cardinality(Lockers(n))
  <2>1. Lockers(ids) = {}
    <3>1. SUFFICES ASSUME NEW q \in active, ids \sqsubseteq matched[q] PROVE FALSE
      BY DEF Lockers
    <3>2. matched[q] # <<>> /\ matched[q] \in DOMAIN tree
      BY <1>1, <1>2, <3>1 DEF \sqsubseteq, IInv, SharedPagesStayCached
    <3>3. matched[q] \in Below(s, ids)
      BY <1>5, <3>1, <3>2 DEF Below
    <3>4. Below(s, ids) = {}
      BY <1>1, <1>2, <1>15 DEF \sqsubseteq
    <3> QED BY <3>3, <3>4
  <2>2. \A n \in DOMAIN s : s[n].lock = Cardinality(Lockers(n))
    BY <1>3 DEF s
  <2> QED BY <1>17, <2>1, <2>2, FS_EmptySet
<1>19. /\ DOMAIN tree \subseteq DOMAIN t
       /\ \A n \in DOMAIN tree : t[n].table = tree[n].table
       /\ Pinned(t) = Pinned(tree) /\ Cached(t) = Cached(tree) \cup Elems(suffix)
  BY <1>5, <1>17
<1>20. /\ Elems(suffix) \cup (Held(r) \ Elems(canon)) = Held(r)
       /\ Elems(suffix) \cap (Held(r) \ Elems(canon)) = {}
  <2>1. Held(r) \cap Elems(table) = {}
    BY <1>12 DEF IInv, PagePartition
  <2> QED BY <1>11, <1>14, <2>1
<1> QED BY <1>4, <1>17, <1>18, <1>19, <1>20, ReleaseStep DEF t

(* commit_prefix preserves it. *)
LEMMA CommitStep ==
  ASSUME IInv, NEW ids \in Texts, NEW m \in Prefixes(ids),
         NEW r \in Request, Commit(r, ids, m)
  PROVE  IInv'
<1>1. CASE m = ids
  BY <1>1, CommitKnownStep
<1>2. CASE m # ids
  BY <1>2, CommitNewStep
<1> QED BY <1>1, <1>2

(* Every step of the code preserves the inductive invariant. *)
LEMMA IInvStep == IInv /\ [Next]_vars => IInv'
<1> SUFFICES ASSUME IInv, [Next]_vars PROVE IInv'
  OBVIOUS
<1>1. ASSUME NEW ids \in Texts, NEW m \in Prefixes(ids), NEW r \in Request,
             NEW cap \in Capacities, Reserve(r, ids, cap, m)
      PROVE  IInv'
  BY <1>1, ReserveStep
<1>2. ASSUME NEW ids \in Texts, NEW m \in Prefixes(ids), NEW r \in Request,
             NEW cap \in Capacities, ReserveRefused(r, ids, cap, m)
      PROVE  IInv'
  BY <1>2, ReserveRefusedStep
<1>3. ASSUME NEW ids \in Texts, NEW m \in Prefixes(ids), NEW r \in Request,
             Commit(r, ids, m)
      PROVE  IInv'
  BY <1>3, CommitStep
<1>4. ASSUME NEW ids \in Texts, NEW m \in Prefixes(ids),
             EvictExactLeaf(ids, m) \/ EvictExactSubtree(ids, m)
      PROVE  IInv'
  BY <1>4, EvictExactStep
<1>5. ASSUME NEW r \in Request, TakeBoundaryCopy(r)
      PROVE  IInv'
  BY <1>5, TakeBoundaryCopyStep
<1>6. ASSUME NEW r \in Request, Cancel(r)
      PROVE  IInv'
  BY <1>6, CancelStep
<1>7. ASSUME NEW r \in Request, NEW tokens \in Capacities, EnsureMaterialized(r, tokens)
      PROVE  IInv'
  BY <1>7, EnsureMaterializedStep
<1>8. ASSUME NEW p \in Page, TakePage(p)
      PROVE  IInv'
  BY <1>8, TakePageStep
<1>9. ASSUME NEW n \in DOMAIN tree, EvictOneLeaf(n)
      PROVE  IInv'
  BY <1>9, EvictOneLeafStep
<1>10. CASE UNCHANGED vars
  <2> USE <1>10 DEF vars
  <2>1. TypeOK'
    BY DEF IInv, TypeOK
  <2>2. PrefixTree(tree)'
    BY DEF IInv, PrefixTree, PathOwnsTables, ForksAreNodes, Below
  <2>3. PagePartition'
    <3>1. Cached(tree)' = Cached(tree) /\ \A r \in Request : Held(r)' = Held(r)
      BY DEF Cached, Held
    <3>2. \A r \in Request : private'[r] = private[r]
      OBVIOUS
    <3> QED BY <3>1, <3>2 DEF IInv, PagePartition
  <2>4. LocksCountReservations'
    BY DEF IInv, LocksCountReservations, Lockers
  <2>5. SharedPagesStayCached'
    BY DEF IInv, SharedPagesStayCached, Table
  <2>6. CreditsWithinPool'
    BY DEF IInv, CreditsWithinPool, Slots, Pinned, Locked, PageTable
  <2>7. IdleHandles'
    BY DEF IInv, IdleHandles
  <2> QED BY <2>1, <2>2, <2>3, <2>4, <2>5, <2>6, <2>7 DEF IInv
<1> QED BY <1>1, <1>2, <1>3, <1>4, <1>5, <1>6, <1>7, <1>8, <1>9, <1>10 DEF Next

(* What is held is at most what is promised.                                *)
LEMMA HeldIsReserved ==
  ASSUME IInv
  PROVE  LET held == UNION {Held(r) : r \in Request}
         IN  IsFiniteSet(held) /\ Cardinality(held) \in Nat /\ Cardinality(held) <= reserved
<1> DEFINE held == UNION {Held(r) : r \in Request}
           count == [r \in Request |-> Len(private[r])]
           f == [x \in Slots(count) |-> private[x[1]][x[2]]]
<1>1. credit \in [Request -> Nat] /\ count \in [Request -> Nat]
  BY LenProperties DEF IInv, TypeOK
<1>2. \A x \in Slots(count) : f[x] \in held
  BY DEF Slots, Held, Elems
<1>3. ASSUME NEW p \in held PROVE \E x \in Slots(count) : f[x] = p
  <2>1. PICK q \in Request : p \in Held(q)
    OBVIOUS
  <2>2. PICK i \in 1..Len(private[q]) : p = private[q][i]
    BY <2>1 DEF Held, Elems
  <2>3. <<q, i>> \in Slots(count) /\ f[<<q, i>>] = p
    BY <2>2 DEF Slots
  <2> QED BY <2>3
<1>4. f \in Surjection(Slots(count), held)
  BY <1>2, <1>3 DEF Surjection
<1>5. /\ IsFiniteSet(Slots(count)) /\ Cardinality(Slots(count)) \in Nat
      /\ IsFiniteSet(Slots(credit)) /\ Cardinality(Slots(credit)) \in Nat
  BY <1>1, SlotsFinite
<1>6. IsFiniteSet(held) /\ Cardinality(held) <= Cardinality(Slots(count))
  BY <1>4, <1>5, FS_Surjection
<1>7. Slots(count) \in SUBSET Slots(credit)
  <2>1. \A q \in Request : 1..count[q] \subseteq 1..credit[q]
    BY <1>1 DEF IInv, CreditsWithinPool
  <2> QED BY <2>1 DEF Slots
<1>8. Cardinality(Slots(count)) <= Cardinality(Slots(credit))
  BY <1>5, <1>7, FS_Subset
<1>9. reserved = Cardinality(Slots(credit)) /\ Cardinality(held) \in Nat
  BY <1>6, FS_CardinalityType DEF IInv, CreditsWithinPool
<1> HIDE DEF held, count
<1> QED BY <1>5, <1>6, <1>8, <1>9 DEF held

(* While a reservation still lacks a page, there is a free page or a leaf   *)
(* to evict: otherwise every node would be locked, the pool would consist   *)
(* of pinned and private pages, and the private ones are fewer than the     *)
(* credits that the admission test counted.                                 *)
LEMMA NextPageExists ==
  ASSUME IInv
  PROVE  GuaranteedCapacity
<1> SUFFICES ASSUME busy # None
             PROVE  /\ Len(private[busy]) < credit[busy]
                    /\ free # {} \/ Evictable(tree) # {}
  BY DEF GuaranteedCapacity
<1>1. PICK r \in active : r = busy
  BY DEF IInv, TypeOK
<1>0. r \in Request
  BY DEF IInv, TypeOK
<1>2. Len(private[r]) < credit[r]
  <2>1. /\ shared[r] \in Seq(Page) /\ private[r] \in Seq(Page) /\ credit[r] \in Nat
        /\ Len(PageTable(r)) < goal /\ goal <= PagesFor(capacity[r])
        /\ Len(shared[r]) + credit[r] = PagesFor(capacity[r])
        /\ goal \in Nat
    BY <1>1, <1>0 DEF IInv, TypeOK, CreditsWithinPool
  <2>2. Len(PageTable(r)) = Len(shared[r]) + Len(private[r])
    BY <2>1, ConcatProperties DEF PageTable
  <2>3. Len(shared[r]) \in Nat /\ Len(private[r]) \in Nat
    BY <2>1, LenProperties
  <2> HIDE DEF PageTable
  <2>4. PICK w \in Nat : w = goal
    BY <2>1
  <2>5. PICK x \in Nat, y \in Nat, z \in Nat :
          x = Len(shared[r]) /\ y = Len(private[r]) /\ z = credit[r]
    BY <2>1, <2>3
  <2>6. x + y < w /\ w <= x + z
    BY <2>1, <2>2, <2>4, <2>5
  <2>7. y < z
    BY <2>6
  <2> QED BY <2>5, <2>7
<1>3. ASSUME free = {}, Evictable(tree) = {}
      PROVE  FALSE
  <2> DEFINE HeldAll == UNION {Held(q) : q \in Request}
             count == [q \in Request |-> Len(private[q])]
  <2>1. ASSUME NEW n \in DOMAIN tree PROVE tree[n].lock > 0
    <3>1. PICK x \in Below(tree, n) : Below(tree, x) = {x}
      BY BelowHasLeaf DEF IInv, PrefixTree
    <3>2. x \in DOMAIN tree /\ n \sqsubseteq x /\ tree[x].lock # 0
      BY <1>3, <3>1 DEF Evictable, Below
    <3>3. Lockers(x) # {}
      BY <3>2, FS_EmptySet DEF IInv, LocksCountReservations
    <3>4. PICK q \in active : x \sqsubseteq matched[q]
      BY <3>3 DEF Lockers
    <3>5. n \sqsubseteq matched[q]
      BY <3>2, <3>4, PrefixTransitive DEF IInv, TypeOK, Prefix
    <3>6. Lockers(n) # {}
      BY <3>4, <3>5 DEF Lockers
    <3>7. tree[n].lock = Cardinality(Lockers(n)) /\ Cardinality(Lockers(n)) \in Nat
      BY LockersFinite DEF IInv, LocksCountReservations
    <3> QED BY <3>6, <3>7, LockersFinite, FS_EmptySet
  <2>2. Cached(tree) = Pinned(tree)
    BY <2>1 DEF Cached, Pinned, Locked
  <2>3. Page = Pinned(tree) \cup HeldAll
    BY <1>3, <2>2 DEF IInv, PagePartition
  <2>4. /\ IsFiniteSet(Page) /\ IsFiniteSet(Pinned(tree))
        /\ Cardinality(Pinned(tree)) \in Nat /\ Cardinality(Page) \in Nat
    BY <2>3, FS_Subset, FS_CardinalityType, RadixAssumption DEF RadixAssumption
  <2>5. credit \in [Request -> Nat] /\ count \in [Request -> Nat]
    BY LenProperties DEF IInv, TypeOK
  <2>6. Cardinality(Slots(count)) < Cardinality(Slots(credit))
    <3>1. \A q \in Request : 1..count[q] \subseteq 1..credit[q]
      BY <2>5 DEF IInv, CreditsWithinPool
    <3>2. Slots(count) \in SUBSET Slots(credit)
      BY <3>1 DEF Slots
    <3>3. r \in Request /\ credit[r] \in 1..credit[r] /\ credit[r] \notin 1..count[r]
      BY <1>2, <2>5 DEF IInv, TypeOK
    <3>4. <<r, credit[r]>> \in Slots(credit) /\ <<r, credit[r]>> \notin Slots(count)
      BY <3>3 DEF Slots
    <3>5. IsFiniteSet(Slots(credit)) /\ Cardinality(Slots(credit)) \in Nat
          /\ Cardinality(Slots(count)) \in Nat
      BY <2>5, SlotsFinite
    <3> QED BY <3>2, <3>4, <3>5, FS_Subset
  <2>7. IsFiniteSet(HeldAll) /\ Cardinality(HeldAll) <= Cardinality(Slots(count))
    <3> DEFINE f == [x \in Slots(count) |-> private[x[1]][x[2]]]
    <3>1. ASSUME NEW x \in Slots(count) PROVE f[x] \in HeldAll
      BY DEF Slots, Held, Elems
    <3>2. ASSUME NEW p \in HeldAll PROVE \E x \in Slots(count) : f[x] = p
      <4>1. PICK q \in Request : p \in Held(q)
        OBVIOUS
      <4>2. PICK i \in 1..Len(private[q]) : p = private[q][i]
        BY <4>1 DEF Held, Elems
      <4>3. <<q, i>> \in Slots(count) /\ f[<<q, i>>] = p
        BY <4>2 DEF Slots
      <4> QED BY <4>3
    <3>3. f \in Surjection(Slots(count), HeldAll)
      BY <3>1, <3>2 DEF Surjection
    <3>4. IsFiniteSet(Slots(count))
      BY <2>5, SlotsFinite
    <3> QED BY <3>3, <3>4, FS_Surjection
  <2>8. Cardinality(Page) <= Cardinality(Pinned(tree)) + Cardinality(HeldAll)
    <3> HIDE DEF HeldAll
    <3>1. Cardinality(Page) = Cardinality(Pinned(tree)) + Cardinality(HeldAll)
                              - Cardinality(Pinned(tree) \cap HeldAll)
      BY <2>3, <2>4, <2>7, FS_Union
    <3>2. Cardinality(Pinned(tree) \cap HeldAll) \in Nat
      BY <2>4, FS_Subset, FS_CardinalityType
    <3>3. Cardinality(HeldAll) \in Nat
      BY <2>7, FS_CardinalityType
    <3> QED BY <2>4, <3>1, <3>2, <3>3
  <2>9. /\ reserved = Cardinality(Slots(credit))
        /\ reserved + Cardinality(Pinned(tree)) <= Cardinality(Page)
    BY DEF IInv, CreditsWithinPool
  <2>10. /\ Cardinality(HeldAll) \in Nat /\ Cardinality(Slots(count)) \in Nat
         /\ Cardinality(Slots(credit)) \in Nat
    BY <2>5, <2>7, SlotsFinite, FS_CardinalityType
  <2> HIDE DEF HeldAll, count
  <2> QED BY <2>4, <2>6, <2>7, <2>8, <2>9, <2>10
<1> QED BY <1>1, <1>2, <1>3

-----------------------------------------------------------------------------
(* Tables along a path *)

(* A page that a prefix fills is the same page in the table of everything   *)
(* cached beyond that prefix; only the page it ends inside may differ.      *)
TablesExtend(t) ==
  \A a, n \in DOMAIN t : a \sqsubseteq n =>
    \A i \in 1..(Len(a) \div PageTokens) : t[n].table[i] = t[a].table[i]

(* Changing locks and owners or removing nodes leaves that as it was.       *)
LEMMA SameTablesExtend ==
  ASSUME NEW t, TablesExtend(t), NEW u, DOMAIN u \subseteq DOMAIN t,
         \A n \in DOMAIN u : u[n].table = t[n].table
  PROVE  TablesExtend(u)
BY DEF TablesExtend

(* So does split_node, which cuts the new node's table from its child's.    *)
LEMMA SplitTablesExtend ==
  ASSUME NEW t, PrefixTree(t), TablesExtend(t), NEW m \in Seq(Token),
         m # <<>> => Below(t, m) # {}
  PROVE  TablesExtend(Split(t, m))
<1>1. CASE m = <<>> \/ m \in DOMAIN t
  BY <1>1 DEF Split
<1>2. CASE ~ (m = <<>> \/ m \in DOMAIN t)
  <2> DEFINE s == Split(t, m)
  <2>1. m \in Prefix \ DOMAIN t /\ Below(t, m) # {}
    BY <1>2 DEF Prefix
  <2>2. PICK c : c = EdgeEnd(t, m)
    OBVIOUS
  <2>3. /\ c \in DOMAIN t /\ c \in Seq(Token) /\ m \sqsubseteq c
        /\ \A d \in Below(t, m) : c \sqsubseteq d
    BY <2>1, <2>2, EdgeEndProperties DEF PrefixTree, Prefix
  <2>4. IsSplit(s, t, m, c)
    BY <2>1, <2>2, SplitNodes
  <2> HIDE DEF s
  <2>5. /\ DOMAIN s = DOMAIN t \cup {m}
        /\ s[m].table = SubSeq(t[c].table, 1, PagesFor(Len(m)))
        /\ \A n \in DOMAIN t : s[n].table = t[n].table
    BY <2>4 DEF IsSplit
  <2>6. \A n \in DOMAIN t : n \in Seq(Token) /\ Len(n) \in Nat
    BY DEF PrefixTree, Prefix
  <2>7. Len(m) \in Nat /\ Len(c) \in Nat /\ Len(m) <= Len(c)
    BY <2>3 DEF \sqsubseteq
  <2>8. PICK k \in Nat : k = PagesFor(Len(m))
    BY <2>7, PagesForProperties
  <2>9. \A i \in 1..k : s[m].table[i] = t[c].table[i]
    <3>1. t[c].table \in Seq(Page) /\ Len(t[c].table) = PagesFor(Len(c))
      BY <2>3 DEF PrefixTree, PathOwnsTables, Node
    <3>2. k \in 0..Len(t[c].table)
      BY <2>7, <2>8, <3>1, PagesForProperties
    <3> QED BY <2>5, <2>8, <3>1, <3>2, SubSeqPrefix
  <2>10. ASSUME NEW n \in DOMAIN t, m \sqsubseteq n,
                NEW i \in 1..(Len(m) \div PageTokens)
         PROVE  s[n].table[i] = s[m].table[i]
    <3>1. c \sqsubseteq n
      BY <2>3, <2>10 DEF Below
    <3>2. i \in 1..(Len(c) \div PageTokens) /\ i \in 1..k
      <4>1. /\ Len(m) \div PageTokens \in Nat /\ Len(c) \div PageTokens \in Nat
            /\ Len(m) \div PageTokens <= Len(c) \div PageTokens
        BY <2>7, FullPages
      <4>2. Len(m) \div PageTokens <= k
        BY <2>7, <2>8, PagesForProperties
      <4> QED BY <4>1, <4>2
    <3>3. t[n].table[i] = t[c].table[i]
      BY <2>3, <3>1, <3>2 DEF TablesExtend
    <3> QED BY <2>5, <2>9, <3>2, <3>3
  <2>11. ASSUME NEW a \in DOMAIN t, a \sqsubseteq m,
                NEW i \in 1..(Len(a) \div PageTokens)
         PROVE  s[m].table[i] = s[a].table[i]
    <3>1. a \sqsubseteq c
      BY <2>3, <2>6, <2>11, PrefixTransitive
    <3>2. i \in 1..k
      <4>1. Len(a) \in Nat /\ Len(a) <= Len(m)
        BY <2>6, <2>11 DEF \sqsubseteq
      <4>2. Len(a) \div PageTokens \in Nat /\ Len(a) \div PageTokens <= k
        BY <2>7, <2>8, <4>1, FullPages
      <4> QED BY <4>2
    <3>3. t[c].table[i] = t[a].table[i]
      BY <2>3, <3>1 DEF TablesExtend
    <3> QED BY <2>5, <2>9, <3>2, <3>3
  <2>12. ASSUME NEW a \in DOMAIN s, NEW n \in DOMAIN s, a \sqsubseteq n,
                NEW i \in 1..(Len(a) \div PageTokens)
         PROVE  s[n].table[i] = s[a].table[i]
    <3>1. CASE a \in DOMAIN t /\ n \in DOMAIN t
      BY <2>5, <2>12, <3>1 DEF TablesExtend
    <3>2. CASE a = m /\ n \in DOMAIN t
      BY <2>10, <2>12, <3>2
    <3>3. CASE a \in DOMAIN t /\ n = m
      BY <2>11, <2>12, <3>3
    <3>4. CASE a = m /\ n = m
      BY <3>4
    <3> QED BY <2>5, <3>1, <3>2, <3>3, <3>4
  <2> QED BY <2>12 DEF TablesExtend, s
<1> QED BY <1>1, <1>2

(* So does publication: the reused pages come from the match, and nothing   *)
(* cached is longer.                                                        *)
LEMMA InsertTablesExtend ==
  ASSUME NEW t, PrefixTree(t), TablesExtend(t),
         NEW ids \in Seq(Token), ids \notin DOMAIN t, Below(t, ids) = {},
         NEW m \in Seq(Token), m # <<>> => m \in DOMAIN t,
         \A a \in DOMAIN t : a \sqsubseteq ids => a \sqsubseteq m,
         NEW pages, NEW owned,
         \A i \in 1..(Len(m) \div PageTokens) : pages[i] = Table(t, m)[i]
  PROVE  TablesExtend(Insert(t, ids, pages, owned))
<1> DEFINE u == Insert(t, ids, pages, owned)
<1>1. /\ DOMAIN u = DOMAIN t \cup {ids}
      /\ \A n \in DOMAIN t : u[n] = t[n]
      /\ u[ids].table = pages
  BY DEF Insert
<1> HIDE DEF u
<1>2. ASSUME NEW a \in DOMAIN u, NEW n \in DOMAIN u, a \sqsubseteq n,
             NEW i \in 1..(Len(a) \div PageTokens)
      PROVE  u[n].table[i] = u[a].table[i]
  <2>1. CASE a \in DOMAIN t /\ n \in DOMAIN t
    BY <1>1, <1>2, <2>1 DEF TablesExtend
  <2>2. CASE a = ids /\ n \in DOMAIN t
    BY <1>2, <2>2 DEF Below
  <2>3. CASE a = ids /\ n = ids
    BY <2>3
  <2>4. CASE a \in DOMAIN t /\ n = ids
    <3>1. a \sqsubseteq m /\ a \in Seq(Token) /\ a # <<>>
      BY <1>2, <2>4 DEF PrefixTree, Prefix
    <3>2. Len(a) \in Nat /\ Len(m) \in Nat /\ Len(a) <= Len(m)
      BY <3>1 DEF \sqsubseteq
    <3>3. Len(a) # 0
      BY <3>1, EmptySeq
    <3>4. m # <<>>
      BY <3>2, <3>3, EmptySeq
    <3>5. /\ Len(a) \div PageTokens \in Nat /\ Len(m) \div PageTokens \in Nat
          /\ Len(a) \div PageTokens <= Len(m) \div PageTokens
      BY <3>2, FullPages
    <3>6. i \in 1..(Len(m) \div PageTokens)
      BY <3>5
    <3>7. pages[i] = t[m].table[i]
      BY <3>4, <3>6 DEF Table
    <3>8. t[m].table[i] = t[a].table[i]
      BY <2>4, <3>1, <3>4 DEF TablesExtend
    <3> QED BY <1>1, <2>4, <3>7, <3>8
  <2> QED BY <1>1, <2>1, <2>2, <2>3, <2>4
<1> QED BY <1>2 DEF TablesExtend, u

(* commit_request keeps it, whether or not the prefix is cached already.    *)
LEMMA PublishedTablesExtend ==
  ASSUME IInv, TablesExtend(tree), NEW ids \in Texts, NEW m \in Prefixes(ids),
         NEW r \in Request, Commit(r, ids, m)
  PROVE  /\ TablesExtend(Published(r, ids, m))
         /\ \A n \in DOMAIN Published(r, ids, m) : Published(r, ids, m)[n] \in Node
<1> DEFINE s == Split(tree, m)
<1>1. /\ ids \in Seq(Token) /\ m \in Seq(Token) /\ m \sqsubseteq ids
      /\ Len(m) \in Nat /\ Len(ids) \in Nat /\ Len(m) <= Len(ids)
      /\ IsMatch(tree, ids, m) /\ (m # <<>> => Below(tree, m) # {})
  BY PrefixesType DEF Commit, IsMatch
<1>2. TablesExtend(s)
  BY <1>1, SplitTablesExtend DEF IInv
<1>3. CASE m = ids
  <2>1. Published(r, ids, m) = s /\ PrefixTree(s)
    BY <1>1, <1>3, SplitGrows DEF Published, IInv, IsGrown
  <2> QED BY <1>2, <2>1 DEF PrefixTree
<1>4. CASE m # ids
  <2>1. Len(m) < Len(ids)
    BY <1>1, <1>4, PrefixAntisymmetric
  <2>2. IsGrown(s, tree, m)
    BY <1>1, SplitGrows DEF IInv
  <2>3. Published(r, ids, m) = Insert(s, ids, Canonical(r, ids, m), Elems(OwnSuffix(r, ids, m)))
    BY <1>4 DEF Published
  <2>4. Canonical(r, ids, m) = SubSeq(Table(s, m), 1, Reusable(m)) \o OwnSuffix(r, ids, m)
    BY <1>4 DEF Canonical
  <2> HIDE DEF s
  <2>5. /\ PrefixTree(s) /\ DOMAIN tree \subseteq Prefix
        /\ DOMAIN s \subseteq DOMAIN tree \cup {m}
        /\ m # <<>> => m \in DOMAIN s
    BY <2>2 DEF IsGrown, IInv, PrefixTree
  <2>6. Below(tree, ids) = {}
    BY <1>1, <2>1, <2>5, BeyondMatchIsEmpty DEF \sqsubseteq
  <2>7. Below(s, ids) = {} /\ ids \notin DOMAIN s
    <3>1. ~ (ids \sqsubseteq m) /\ ids \sqsubseteq ids
      BY <1>1, <2>1 DEF \sqsubseteq
    <3> QED BY <2>5, <2>6, <3>1 DEF Below
  <2>8. ASSUME NEW a \in DOMAIN s, a \sqsubseteq ids PROVE a \sqsubseteq m
    <3>1. CASE a = m
      BY <1>1, <3>1 DEF \sqsubseteq
    <3>2. CASE a \in DOMAIN tree
      BY <1>1, <2>5, <2>8, <3>2, MatchIsLongest
    <3> QED BY <2>5, <3>1, <3>2
  <2>9. Table(s, m) \in Seq(Page) /\ Len(Table(s, m)) = PagesFor(Len(m))
    <3>1. CASE m = <<>>
      <4>1. Table(s, m) = <<>> /\ Len(m) = 0
        BY <3>1 DEF Table
      <4> QED BY <4>1, PagesForZero, EmptySeq
    <3>2. CASE m # <<>>
      BY <2>5, <3>2 DEF Table, PrefixTree, PathOwnsTables, Node
    <3> QED BY <3>1, <3>2
  <2>10. PICK k \in Nat : k = Reusable(m) /\ k = Len(m) \div PageTokens
    BY <1>1, FullPages DEF Reusable
  <2>11. k \in 0..Len(Table(s, m))
    <3>1. k <= PagesFor(Len(m)) /\ PagesFor(Len(m)) \in Nat
      BY <1>1, <2>10, PagesForProperties
    <3> QED BY <2>9, <3>1
  <2>12. OwnSuffix(r, ids, m) \in Seq(Page)
    <3>1. r \in Request /\ PagesFor(Len(ids)) <= Len(PageTable(r))
      BY DEF Commit
    <3>2. PageTable(r) \in Seq(Page)
      BY ConcatProperties DEF PageTable, IInv, TypeOK
    <3>3. PagesFor(Len(ids)) \in Nat
      BY <1>1, PagesForProperties
    <3> HIDE DEF PageTable
    <3>4. PICK N \in Nat : N = PagesFor(Len(ids))
      BY <3>3
    <3>5. SubSeq(PageTable(r), k + 1, N) \in Seq(Page)
      BY <3>1, <3>2, <3>4
    <3> QED BY <2>10, <3>4, <3>5 DEF OwnSuffix
  <2> DEFINE reused == SubSeq(Table(s, m), 1, k)
             suffix == OwnSuffix(r, ids, m)
  <2>13. reused \in Seq(Page) /\ Len(reused) = k /\ \A i \in 1..k : reused[i] = Table(s, m)[i]
    BY <2>9, <2>11, SubSeqPrefix
  <2>14. suffix \in Seq(Page)
    BY <2>12
  <2>15. Canonical(r, ids, m) = reused \o suffix
    BY <2>4, <2>10
  <2> HIDE DEF reused, suffix
  <2>16. \A i \in 1..k : (reused \o suffix)[i] = reused[i]
    BY <2>13, <2>14, ConcatProperties
  <2>17. \A i \in 1..(Len(m) \div PageTokens) : Canonical(r, ids, m)[i] = Table(s, m)[i]
    BY <2>10, <2>13, <2>15, <2>16
  <2>18. TablesExtend(s)
    BY <1>2 DEF s
  <2>19. TablesExtend(Published(r, ids, m))
    BY <1>1, <2>3, <2>5, <2>7, <2>8, <2>17, <2>18, InsertTablesExtend
  <2>20. Canonical(r, ids, m) \in Seq(Page) /\ Elems(OwnSuffix(r, ids, m)) \in SUBSET Page
    <3>1. reused \o suffix \in Seq(Page)
      BY <2>13, <2>14, ConcatProperties
    <3> QED BY <2>12, <2>15, <3>1 DEF Elems
  <2>21. ASSUME NEW n \in DOMAIN Published(r, ids, m)
         PROVE  Published(r, ids, m)[n] \in Node
    BY <2>3, <2>5, <2>20 DEF Insert, PrefixTree, Node
  <2> QED BY <2>19, <2>21
<1> QED BY <1>3, <1>4

(* The tables of the tree agree along every path, in every reachable state. *)
LEMMA TablesExtendStep ==
  ASSUME IInv, TablesExtend(tree), [Next]_vars
  PROVE  TablesExtend(tree)'
<1>1. ASSUME NEW m \in Seq(Token), m # <<>> => Below(tree, m) # {}
      PROVE  TablesExtend(Split(tree, m))
  BY <1>1, SplitTablesExtend DEF IInv
<1>2. ASSUME NEW t, TablesExtend(t), \A n \in DOMAIN t : t[n] \in Node, NEW p
      PROVE  TablesExtend(LockPath(t, p)) /\ TablesExtend(UnlockPath(t, p))
  <2>1. ASSUME NEW x \in Node
        PROVE  [x EXCEPT !.lock = @ + 1].table = x.table /\ [x EXCEPT !.lock = @ - 1].table = x.table
    BY DEF Node
  <2>2. /\ DOMAIN LockPath(t, p) \subseteq DOMAIN t
        /\ \A n \in DOMAIN LockPath(t, p) : LockPath(t, p)[n].table = t[n].table
    BY <1>2, <2>1 DEF LockPath
  <2>3. /\ DOMAIN UnlockPath(t, p) \subseteq DOMAIN t
        /\ \A n \in DOMAIN UnlockPath(t, p) : UnlockPath(t, p)[n].table = t[n].table
    BY <1>2, <2>1 DEF UnlockPath
  <2> QED BY <1>2, <2>2, <2>3, SameTablesExtend
<1>3. ASSUME NEW t, TablesExtend(t), NEW S
      PROVE  TablesExtend(Prune(t, S))
  BY <1>3, SameTablesExtend DEF Prune
<1>4. ASSUME NEW ids \in Texts, NEW m \in Prefixes(ids), IsMatch(tree, ids, m)
      PROVE  TablesExtend(Split(tree, m)) /\ \A n \in DOMAIN Split(tree, m) : Split(tree, m)[n] \in Node
  <2>1. m \in Seq(Token) /\ (m # <<>> => Below(tree, m) # {})
    BY <1>4, PrefixesType DEF IsMatch
  <2>2. PrefixTree(Split(tree, m))
    BY <2>1, SplitGrows DEF IInv, IsGrown
  <2> QED BY <1>1, <2>1, <2>2 DEF PrefixTree
<1>5. ASSUME NEW ids \in Texts, NEW m \in Prefixes(ids), NEW r \in Request,
             NEW cap \in Capacities, Reserve(r, ids, cap, m)
      PROVE  TablesExtend(tree)'
  BY <1>2, <1>4, <1>5 DEF Reserve
<1>6. ASSUME NEW ids \in Texts, NEW m \in Prefixes(ids), NEW r \in Request,
             NEW cap \in Capacities, ReserveRefused(r, ids, cap, m)
      PROVE  TablesExtend(tree)'
  BY <1>4, <1>6 DEF ReserveRefused
<1>7. ASSUME NEW ids \in Texts, NEW m \in Prefixes(ids), NEW r \in Request,
             Commit(r, ids, m)
      PROVE  TablesExtend(tree)'
  <2>1. tree' = UnlockPath(Published(r, ids, m), matched[r])
    BY <1>7 DEF Commit
  <2> QED BY <1>2, <1>7, <2>1, PublishedTablesExtend
<1>8. ASSUME NEW ids \in Texts, NEW m \in Prefixes(ids),
             EvictExactLeaf(ids, m) \/ EvictExactSubtree(ids, m)
      PROVE  TablesExtend(tree)'
  <2>1. PICK S : IsMatch(tree, ids, m) /\ tree' = Prune(Split(tree, m), S)
    BY <1>8 DEF EvictExactLeaf, EvictExactSubtree, EvictExact
  <2> QED BY <1>3, <1>4, <2>1
<1>9. ASSUME NEW r \in Request, Cancel(r)
      PROVE  TablesExtend(tree)'
  <2>1. \A n \in DOMAIN tree : tree[n] \in Node
    BY DEF IInv, PrefixTree
  <2> QED BY <1>2, <1>9, <2>1 DEF Cancel
<1>10. ASSUME NEW n \in DOMAIN tree, EvictOneLeaf(n)
       PROVE  TablesExtend(tree)'
  BY <1>3, <1>10 DEF EvictOneLeaf
<1>11. ASSUME tree' = tree PROVE TablesExtend(tree)'
  BY <1>11 DEF TablesExtend
<1>12. ASSUME NEW r \in Request, TakeBoundaryCopy(r) PROVE tree' = tree
  BY <1>12 DEF TakeBoundaryCopy
<1>13. ASSUME NEW r \in Request, NEW tokens \in Capacities, EnsureMaterialized(r, tokens)
       PROVE  tree' = tree
  BY <1>13 DEF EnsureMaterialized
<1>14. ASSUME NEW p \in Page, TakePage(p) PROVE tree' = tree
  BY <1>14 DEF TakePage
<1>15. CASE UNCHANGED vars
  BY <1>11, <1>15 DEF vars
<1> QED BY <1>5, <1>6, <1>7, <1>8, <1>9, <1>10, <1>11, <1>12, <1>13, <1>14, <1>15 DEF Next

-----------------------------------------------------------------------------
(* A table names a page once                                                *)

OnceIn(s) == \A i, j \in 1..Len(s) : s[i] = s[j] => i = j

NoPageTwice(t) == \A n \in DOMAIN t : OnceIn(t[n].table)

LEMMA OnceInFront ==
  ASSUME NEW s \in Seq(Page), OnceIn(s), NEW k \in 0..Len(s)
  PROVE  OnceIn(SubSeq(s, 1, k))
<1>1. PICK t : t = SubSeq(s, 1, k)
  OBVIOUS
<1>2. Len(t) = k /\ \A i \in 1..k : t[i] = s[i]
  BY <1>1, SubSeqPrefix
<1>3. ASSUME NEW i \in 1..k, NEW j \in 1..k, t[i] = t[j] PROVE i = j
  <2>1. i \in 1..Len(s) /\ j \in 1..Len(s) /\ s[i] = s[j]
    BY <1>2, <1>3
  <2> QED BY <2>1 DEF OnceIn
<1> QED BY ONLY <1>1, <1>2, <1>3 DEF OnceIn

(* Two stretches without repetition that have no page in common.            *)
LEMMA OnceInBoth ==
  ASSUME NEW s \in Seq(Page), NEW u \in Seq(Page), OnceIn(s), OnceIn(u),
         Elems(s) \cap Elems(u) = {}
  PROVE  OnceIn(s \o u)
<1>1. PICK k \in Nat, l \in Nat : k = Len(s) /\ l = Len(u)
  OBVIOUS
<1>2. PICK w : w = s \o u
  OBVIOUS
<1>3. /\ w \in Seq(Page) /\ Len(w) = k + l
      /\ \A i \in 1..(k + l) : w[i] = IF i <= k THEN s[i] ELSE u[i - k]
  BY <1>1, <1>2, ConcatProperties
<1>4. ASSUME NEW i \in 1..(k + l), NEW j \in 1..(k + l), w[i] = w[j], i <= j PROVE i = j
  <2>1. CASE j <= k
    <3>1. i \in 1..Len(s) /\ j \in 1..Len(s) /\ s[i] = s[j]
      BY <1>1, <1>3, <1>4, <2>1
    <3> QED BY <3>1 DEF OnceIn
  <2>2. CASE ~ (i <= k)
    <3>1. ~ (j <= k) /\ i - k \in 1..Len(u) /\ j - k \in 1..Len(u)
      BY <1>1, <1>4, <2>2
    <3>2. u[i - k] = u[j - k]
      BY <1>3, <1>4, <2>2, <3>1
    <3>3. i - k = j - k
      BY <3>1, <3>2 DEF OnceIn
    <3> QED BY <1>1, <1>4, <3>3
  <2>3. CASE i <= k /\ ~ (j <= k)
    <3>1. i \in 1..Len(s) /\ j - k \in 1..Len(u) /\ s[i] = u[j - k]
      BY <1>1, <1>3, <1>4, <2>3
    <3> QED BY <3>1 DEF Elems
  <2> QED BY <1>1, <2>1, <2>2, <2>3
<1>5. \A i, j \in 1..(k + l) : w[i] = w[j] => i = j
  <2> SUFFICES ASSUME NEW i \in 1..(k + l), NEW j \in 1..(k + l), w[i] = w[j] PROVE i = j
    OBVIOUS
  <2>1. i <= j \/ j <= i
    OBVIOUS
  <2> QED BY <1>4, <2>1
<1> QED BY <1>2, <1>3, <1>5 DEF OnceIn

LEMMA SplitNamesOnce ==
  ASSUME NEW t, PrefixTree(t), NoPageTwice(t), NEW m \in Seq(Token),
         m # <<>> => Below(t, m) # {}
  PROVE  NoPageTwice(Split(t, m))
<1>1. CASE m = <<>> \/ m \in DOMAIN t
  BY <1>1 DEF Split
<1>2. CASE ~ (m = <<>> \/ m \in DOMAIN t)
  <2> DEFINE s == Split(t, m)
  <2>1. m \in Prefix \ DOMAIN t /\ Below(t, m) # {}
    BY <1>2 DEF Prefix
  <2>2. PICK c : c = EdgeEnd(t, m)
    OBVIOUS
  <2>3. c \in DOMAIN t /\ c \in Seq(Token) /\ m \sqsubseteq c
    BY <2>1, <2>2, EdgeEndProperties DEF PrefixTree, Prefix
  <2>4. IsSplit(s, t, m, c)
    BY <2>1, <2>2, SplitNodes
  <2> HIDE DEF s
  <2>5. /\ DOMAIN s = DOMAIN t \cup {m}
        /\ s[m].table = SubSeq(t[c].table, 1, PagesFor(Len(m)))
        /\ \A n \in DOMAIN t : s[n].table = t[n].table
    BY <2>4 DEF IsSplit
  <2>6. t[c].table \in Seq(Page) /\ PagesFor(Len(m)) \in 0..Len(t[c].table)
    <3>1. t[c].table \in Seq(Page) /\ Len(t[c].table) = PagesFor(Len(c))
      BY <2>3 DEF PrefixTree, PathOwnsTables, Node
    <3>2. Len(m) \in Nat /\ Len(c) \in Nat /\ Len(m) <= Len(c)
      BY <2>3 DEF \sqsubseteq
    <3> QED BY <3>1, <3>2, PagesForProperties
  <2>7. OnceIn(t[c].table) /\ \A n \in DOMAIN t : OnceIn(t[n].table)
    BY <2>3 DEF NoPageTwice
  <2>8. OnceIn(s[m].table)
    BY <2>5, <2>6, <2>7, OnceInFront
  <2> QED BY <2>5, <2>7, <2>8 DEF NoPageTwice, s
<1> QED BY <1>1, <1>2

LEMMA PublishedNamesOnce ==
  ASSUME IInv, NoPageTwice(tree), NEW ids \in Texts, NEW m \in Prefixes(ids),
         NEW r \in Request, Commit(r, ids, m)
  PROVE  /\ NoPageTwice(Published(r, ids, m))
         /\ \A n \in DOMAIN Published(r, ids, m) : Published(r, ids, m)[n] \in Node
<1> DEFINE s == Split(tree, m)
<1>1. m \in Seq(Token) /\ (m # <<>> => Below(tree, m) # {})
  BY PrefixesType DEF Commit, IsMatch
<1>2. NoPageTwice(s) /\ IsGrown(s, tree, m)
  BY <1>1, SplitNamesOnce, SplitGrows DEF IInv
<1>3. CASE m = ids
  BY <1>2, <1>3 DEF Published, IsGrown, PrefixTree
<1>4. CASE m # ids
  <2> DEFINE suffix == OwnSuffix(r, ids, m)
             canon == Canonical(r, ids, m)
  <2>1. /\ Reusable(m) \in Nat /\ Reusable(m) <= PagesFor(Len(m))
        /\ suffix \in Seq(Page) /\ Elems(suffix) \subseteq Held(r) /\ OnceIn(suffix)
    BY <1>4, SuffixIsPrivate DEF Commit, Release, OnceIn
  <2>2. Published(r, ids, m) = Insert(s, ids, canon, Elems(suffix))
    BY <1>4 DEF Published
  <2>3. canon = SubSeq(Table(s, m), 1, Reusable(m)) \o suffix
    BY <1>4 DEF Canonical
  <2> HIDE DEF s, suffix, canon
  <2>4. /\ PrefixTree(s) /\ Cached(s) = Cached(tree)
        /\ m # <<>> => m \in DOMAIN s
    BY <1>2 DEF IsGrown
  <2>5. PICK table : table = Table(s, m)
    OBVIOUS
  <2>6. /\ table \in Seq(Page) /\ Len(table) = PagesFor(Len(m)) /\ OnceIn(table)
        /\ Elems(table) \subseteq Cached(tree)
    <3>1. CASE m = <<>>
      <4>1. table = <<>> /\ Len(m) = 0 /\ Len(table) = 0
        BY <2>5, <3>1 DEF Table
      <4> QED BY <4>1, PagesForZero DEF OnceIn, Elems
    <3>2. CASE m # <<>>
      <4>1. m \in DOMAIN s /\ table = s[m].table
        BY <2>4, <2>5, <3>2 DEF Table
      <4>2. table \in Seq(Page) /\ Len(table) = PagesFor(Len(m)) /\ OnceIn(table)
        BY <1>2, <2>4, <4>1 DEF PrefixTree, PathOwnsTables, Node, NoPageTwice
      <4>3. \A x \in Elems(s[m].table) : \E q \in DOMAIN s : x \in s[q].own
        BY <2>4, <4>1 DEF PrefixTree, PathOwnsTables
      <4> QED BY <2>4, <4>1, <4>2, <4>3 DEF Cached
    <3> QED BY <3>1, <3>2
  <2>7. PICK k : k = Reusable(m)
    OBVIOUS
  <2>8. k \in 0..Len(table)
    BY <2>1, <2>6, <2>7
  <2>9. PICK front : front = SubSeq(table, 1, k)
    OBVIOUS
  <2>10. /\ front \in Seq(Page) /\ OnceIn(front) /\ Elems(front) \subseteq Elems(table)
    BY <2>6, <2>8, <2>9, OnceInFront, SubSeqPrefix DEF Elems
  <2>11. Elems(front) \cap Elems(suffix) = {}
    BY <2>1, <2>6, <2>10 DEF IInv, PagePartition
  <2>12. OnceIn(canon) /\ canon \in Seq(Page) /\ Elems(suffix) \in SUBSET Page
    <3>1. canon = front \o suffix
      BY <2>3, <2>5, <2>7, <2>9
    <3>2. OnceIn(front \o suffix)
      BY <2>1, <2>10, <2>11, OnceInBoth
    <3>3. front \o suffix \in Seq(Page)
      BY <2>1, <2>10, ConcatProperties
    <3>4. Elems(suffix) \in SUBSET Page
      BY <2>1 DEF Elems
    <3> QED BY <3>1, <3>2, <3>3, <3>4
  <2>13. \A n \in DOMAIN s : s[n] \in Node
    BY <2>4 DEF PrefixTree
  <2> QED BY <1>2, <2>2, <2>12, <2>13 DEF NoPageTwice, Insert, Node
<1> QED BY <1>3, <1>4

(* No operation makes a table name a page twice.                            *)
LEMMA NoPageTwiceStep ==
  ASSUME IInv, NoPageTwice(tree), [Next]_vars
  PROVE  NoPageTwice(tree)'
<1>1. ASSUME NEW t, NoPageTwice(t), NEW u, DOMAIN u \subseteq DOMAIN t,
             \A n \in DOMAIN u : u[n].table = t[n].table
      PROVE  NoPageTwice(u)
  BY <1>1 DEF NoPageTwice
<1>2. ASSUME NEW t, NoPageTwice(t), \A n \in DOMAIN t : t[n] \in Node, NEW p
      PROVE  NoPageTwice(LockPath(t, p)) /\ NoPageTwice(UnlockPath(t, p))
  <2>1. ASSUME NEW x \in Node
        PROVE  [x EXCEPT !.lock = @ + 1].table = x.table /\ [x EXCEPT !.lock = @ - 1].table = x.table
    BY DEF Node
  <2>2. /\ DOMAIN LockPath(t, p) \subseteq DOMAIN t
        /\ \A n \in DOMAIN LockPath(t, p) : LockPath(t, p)[n].table = t[n].table
    BY <1>2, <2>1 DEF LockPath
  <2>3. /\ DOMAIN UnlockPath(t, p) \subseteq DOMAIN t
        /\ \A n \in DOMAIN UnlockPath(t, p) : UnlockPath(t, p)[n].table = t[n].table
    BY <1>2, <2>1 DEF UnlockPath
  <2> QED BY <1>1, <1>2, <2>2, <2>3
<1>3. ASSUME NEW t, NoPageTwice(t), NEW S PROVE NoPageTwice(Prune(t, S))
  BY <1>1, <1>3 DEF Prune
<1>4. ASSUME NEW ids \in Texts, NEW m \in Prefixes(ids), IsMatch(tree, ids, m)
      PROVE  NoPageTwice(Split(tree, m)) /\ \A n \in DOMAIN Split(tree, m) : Split(tree, m)[n] \in Node
  <2>1. m \in Seq(Token) /\ (m # <<>> => Below(tree, m) # {})
    BY <1>4, PrefixesType DEF IsMatch
  <2>2. PrefixTree(Split(tree, m))
    BY <2>1, SplitGrows DEF IInv, IsGrown
  <2> QED BY <2>1, <2>2, SplitNamesOnce DEF PrefixTree, IInv
<1>5. ASSUME NEW ids \in Texts, NEW m \in Prefixes(ids), NEW r \in Request,
             NEW cap \in Capacities, Reserve(r, ids, cap, m)
      PROVE  NoPageTwice(tree)'
  BY <1>2, <1>4, <1>5 DEF Reserve
<1>6. ASSUME NEW ids \in Texts, NEW m \in Prefixes(ids), NEW r \in Request,
             NEW cap \in Capacities, ReserveRefused(r, ids, cap, m)
      PROVE  NoPageTwice(tree)'
  BY <1>4, <1>6 DEF ReserveRefused
<1>7. ASSUME NEW ids \in Texts, NEW m \in Prefixes(ids), NEW r \in Request, Commit(r, ids, m)
      PROVE  NoPageTwice(tree)'
  <2>1. tree' = UnlockPath(Published(r, ids, m), matched[r])
    BY <1>7 DEF Commit
  <2> QED BY <1>2, <1>7, <2>1, PublishedNamesOnce
<1>8. ASSUME NEW ids \in Texts, NEW m \in Prefixes(ids),
             EvictExactLeaf(ids, m) \/ EvictExactSubtree(ids, m)
      PROVE  NoPageTwice(tree)'
  <2>1. PICK S : IsMatch(tree, ids, m) /\ tree' = Prune(Split(tree, m), S)
    BY <1>8 DEF EvictExactLeaf, EvictExactSubtree, EvictExact
  <2> QED BY <1>3, <1>4, <2>1
<1>9. ASSUME NEW r \in Request, Cancel(r)
      PROVE  NoPageTwice(tree)'
  <2>1. \A n \in DOMAIN tree : tree[n] \in Node
    BY DEF IInv, PrefixTree
  <2> QED BY <1>2, <1>9, <2>1 DEF Cancel
<1>10. ASSUME NEW n \in DOMAIN tree, EvictOneLeaf(n)
       PROVE  NoPageTwice(tree)'
  BY <1>3, <1>10 DEF EvictOneLeaf
<1>11. ASSUME tree' = tree PROVE NoPageTwice(tree)'
  BY <1>11 DEF NoPageTwice
<1>12. ASSUME NEW r \in Request, TakeBoundaryCopy(r) PROVE tree' = tree
  BY <1>12 DEF TakeBoundaryCopy
<1>13. ASSUME NEW r \in Request, NEW tokens \in Capacities, EnsureMaterialized(r, tokens)
       PROVE  tree' = tree
  BY <1>13 DEF EnsureMaterialized
<1>14. ASSUME NEW p \in Page, TakePage(p) PROVE tree' = tree
  BY <1>14 DEF TakePage
<1>15. CASE UNCHANGED vars
  BY <1>11, <1>15 DEF vars
<1> QED BY <1>5, <1>6, <1>7, <1>8, <1>9, <1>10, <1>11, <1>12, <1>13, <1>14, <1>15 DEF Next

-----------------------------------------------------------------------------
(* What an idle pool has pinned                                             *)

(* The pages on the path to m: one for each page m fills, and one for each  *)
(* node on the path that ends inside a page.                                *)
OnPath(t, m) == UNION {t[n].own : n \in {n \in DOMAIN t : n \sqsubseteq m}}

LEMMA PathPages ==
  ASSUME NEW t, PrefixTree(t), TablesExtend(t), NEW m \in Seq(Token),
         m # <<>> => m \in DOMAIN t
  PROVE  /\ IsFiniteSet(OnPath(t, m)) /\ Cardinality(OnPath(t, m)) \in Nat
         /\ Cardinality(Ragged(t, m)) \in Nat
         /\ Cardinality(OnPath(t, m)) <= Len(m) \div PageTokens + Cardinality(Ragged(t, m))
<1> DEFINE full == {t[m].table[i] : i \in 1..(Len(m) \div PageTokens)}
           last == {t[n].table[PagesFor(Len(n))] : n \in Ragged(t, m)}
<1>1. PICK k \in Nat : k = Len(m) \div PageTokens
  BY FullPages
<1>2. IsFiniteSet(full) /\ Cardinality(full) <= k
  <2> DEFINE f == [i \in 1..k |-> t[m].table[i]]
  <2>1. f \in Surjection(1..k, full)
    BY <1>1 DEF Surjection
  <2>2. IsFiniteSet(1..k) /\ Cardinality(1..k) = k
    BY ONLY k \in Nat, FS_Interval
  <2> HIDE DEF f, full
  <2> QED BY <2>1, <2>2, FS_Surjection
<1>3. IsFiniteSet(Ragged(t, m))
  <2>1. Ragged(t, m) \in SUBSET DOMAIN t
    BY DEF Ragged
  <2> QED BY <2>1, FS_Subset DEF PrefixTree
<1>4. IsFiniteSet(last) /\ Cardinality(last) <= Cardinality(Ragged(t, m))
  <2> DEFINE f == [n \in Ragged(t, m) |-> t[n].table[PagesFor(Len(n))]]
  <2>1. f \in Surjection(Ragged(t, m), last)
    BY DEF Surjection
  <2> HIDE DEF f, last
  <2> QED BY <1>3, <2>1, FS_Surjection
<1>5. ASSUME NEW n \in DOMAIN t, n \sqsubseteq m, NEW x \in t[n].own
      PROVE  x \in full \cup last
  <2>1. n \in Seq(Token) /\ n # <<>> /\ Len(n) \in Nat /\ Len(m) \in Nat /\ Len(n) <= Len(m)
    BY <1>5 DEF PrefixTree, Prefix, \sqsubseteq
  <2>2. m # <<>>
    BY <2>1, EmptySeq
  <2>3. PICK i \in 1..PagesFor(Len(n)) : x = t[n].table[i]
    BY DEF PrefixTree, PathOwnsTables, Elems
  <2>4. PICK j \in Nat, w \in Nat : j = Len(n) \div PageTokens /\ w = PagesFor(Len(n))
    BY <2>1, FullPages, PagesForProperties
  <2>5. /\ j <= w /\ w <= j + 1 /\ j <= k
        /\ Len(n) % PageTokens = 0 => w = j
    BY <1>1, <2>1, <2>4, FullPages, PagesForProperties
  <2>6. CASE i <= j
    <3>1. i \in 1..j /\ i \in 1..k
      BY <2>5, <2>6
    <3>2. t[m].table[i] = t[n].table[i]
      BY <1>5, <2>2, <2>4, <3>1 DEF TablesExtend
    <3> QED BY <1>1, <2>3, <3>1, <3>2
  <2>7. CASE ~ (i <= j)
    <3>1. i \in 1..w
      BY <2>4
    <3>2. i = w /\ w # j
      BY <2>5, <2>7, <3>1
    <3>3. n \in Ragged(t, m)
      BY <1>5, <2>5, <3>2 DEF Ragged
    <3> QED BY <2>3, <2>4, <3>2, <3>3
  <2> QED BY <2>6, <2>7
<1>6. OnPath(t, m) \subseteq full \cup last
  BY <1>5 DEF OnPath
<1> HIDE DEF full, last
<1>7. /\ IsFiniteSet(full \cup last)
      /\ Cardinality(full \cup last) = Cardinality(full) + Cardinality(last)
                                       - Cardinality(full \cap last)
  BY <1>2, <1>4, FS_Union
<1>8. IsFiniteSet(full \cap last)
  BY <1>2, FS_Subset
<1>9. /\ IsFiniteSet(OnPath(t, m))
      /\ Cardinality(OnPath(t, m)) <= Cardinality(full \cup last)
  BY <1>6, <1>7, FS_Subset
<1>10. /\ Cardinality(full) \in Nat /\ Cardinality(last) \in Nat
       /\ Cardinality(full \cap last) \in Nat /\ Cardinality(full \cup last) \in Nat
       /\ Cardinality(OnPath(t, m)) \in Nat /\ Cardinality(Ragged(t, m)) \in Nat
  BY <1>2, <1>3, <1>4, <1>7, <1>8, <1>9, FS_CardinalityType
<1> QED BY <1>1, <1>2, <1>4, <1>7, <1>9, <1>10

(* With no reservation there are no credits, and no node is locked.         *)
LEMMA IdlePool ==
  ASSUME IInv, active = {}
  PROVE  /\ reserved = 0
         /\ \A m \in Seq(Token) : (m # <<>> => Below(tree, m) # {}) =>
              \A n \in DOMAIN Split(tree, m) : Split(tree, m)[n].lock = 0
<1>1. Slots(credit) = {}
  <2>1. \A r \in Request : credit[r] = 0
    BY DEF IInv, IdleHandles
  <2> QED BY <2>1 DEF Slots
<1>2. reserved = 0
  BY <1>1, FS_EmptySet DEF IInv, CreditsWithinPool
<1>3. ASSUME NEW m \in Seq(Token), m # <<>> => Below(tree, m) # {},
             NEW n \in DOMAIN Split(tree, m)
      PROVE  Split(tree, m)[n].lock = 0
  <2>1. Lockers(n) = {}
    BY DEF Lockers
  <2> QED BY <1>3, <2>1, SplitKeepsLocks, FS_EmptySet
<1> QED BY <1>2, <1>3

(* A pool without reservations admits what fits beside the partly filled    *)
(* pages of the path.                                                       *)
LEMMA IdleAdmits ==
  ASSUME IInv, TablesExtend(tree)
  PROVE  IdlePoolAdmits
<1> SUFFICES ASSUME active = {},
                    NEW ids \in Texts, NEW m \in Prefixes(ids), NEW cap \in Capacities,
                    IsMatch(tree, ids, m), Len(ids) <= cap,
                    PagesFor(cap) + Cardinality(Ragged(Split(tree, m), m))
                      <= Cardinality(Page)
             PROVE  Admissible(m, cap)
  BY DEF IdlePoolAdmits
<1> DEFINE s == Split(tree, m)
           u == LockPath(s, m)
<1>1. /\ m \in Seq(Token) /\ (m # <<>> => Below(tree, m) # {})
      /\ Len(m) \in Nat /\ Len(ids) \in Nat /\ cap \in Nat /\ Len(m) <= cap
  BY PrefixesType, CapacitiesType DEF IsMatch
<1>2. /\ reserved = 0
      /\ \A n \in DOMAIN s : s[n].lock = 0
  BY <1>1, IdlePool
<1>3. IsGrown(s, tree, m) /\ TablesExtend(s)
  BY <1>1, SplitGrows, SplitTablesExtend DEF IInv
<1>4. Cardinality(Page) \in Nat
  BY RadixAssumption, FS_CardinalityType DEF RadixAssumption
<1>5. PagesFor(cap) + Cardinality(Ragged(s, m)) <= Cardinality(Page)
  OBVIOUS
<1> HIDE DEF s
<1>6. PrefixTree(s) /\ (m # <<>> => m \in DOMAIN s)
  BY <1>3 DEF IsGrown
<1>7. Pinned(u) = OnPath(s, m)
  <2>1. \A n \in DOMAIN s : s[n] \in Node
    BY <1>6 DEF PrefixTree
  <2>2. u = [n \in DOMAIN s |-> IF n \sqsubseteq m THEN [s[n] EXCEPT !.lock = @ + 1]
                                                    ELSE s[n]]
    BY DEF LockPath
  <2>3. ASSUME NEW x \in Node
        PROVE  /\ [x EXCEPT !.lock = @ + 1].own = x.own
               /\ [x EXCEPT !.lock = @ + 1].lock = x.lock + 1
    BY DEF Node
  <2> HIDE DEF u
  <2>4. /\ DOMAIN u = DOMAIN s
        /\ \A n \in DOMAIN s : u[n].own = s[n].own /\ (u[n].lock > 0 <=> n \sqsubseteq m)
    BY <1>2, <2>1, <2>2, <2>3
  <2>5. Locked(u) = {n \in DOMAIN s : n \sqsubseteq m}
    BY <2>4 DEF Locked
  <2> QED BY <2>4, <2>5 DEF Pinned, OnPath
<1>8. /\ Cardinality(OnPath(s, m)) \in Nat /\ Cardinality(Ragged(s, m)) \in Nat
      /\ Cardinality(OnPath(s, m)) <= Len(m) \div PageTokens + Cardinality(Ragged(s, m))
  BY <1>1, <1>3, <1>6, PathPages
<1>9. Len(m) \div PageTokens <= SharedPages(Len(m), cap)
  <2>1. /\ Len(m) \div PageTokens \in Nat /\ PagesFor(Len(m)) \in Nat
        /\ Len(m) \div PageTokens <= PagesFor(Len(m))
    BY <1>1, FullPages, PagesForProperties
  <2>2. SharedPages(Len(m), cap) \in {Len(m) \div PageTokens, PagesFor(Len(m))}
    BY DEF SharedPages
  <2> QED BY <2>1, <2>2
<1>10. /\ Len(m) \div PageTokens \in Nat /\ SharedPages(Len(m), cap) \in Nat
       /\ PagesFor(cap) \in Nat
  BY <1>1, FullPages, SharedPagesBounds, PagesForProperties
<1>11. reserved + Promise(m, cap) + Cardinality(OnPath(s, m)) <= Cardinality(Page)
  <2> DEFINE p == PagesFor(cap)  d == SharedPages(Len(m), cap)  j == Len(m) \div PageTokens
  <2>1. Promise(m, cap) = p - d
    BY DEF Promise
  <2> HIDE DEF p, d, j
  <2> QED BY <1>2, <1>4, <1>5, <1>8, <1>9, <1>10, <2>1 DEF p, d, j
<1> QED BY <1>7, <1>11 DEF Admissible, s, u

-----------------------------------------------------------------------------
(* The theorems *)

(* The inductive invariant holds in every reachable state. *)
THEOREM Invariance == Spec => []IInv
<1>1. Init => IInv
  BY InitInv
<1>2. IInv /\ [Next]_vars => IInv'
  BY IInvStep
<1> QED BY <1>1, <1>2, PTL DEF Spec

(* Every variable keeps its type: page ids come from the pool, lock counts  *)
(* never go negative.                                                       *)
THEOREM TypeCorrectness == Spec => []TypeOK
<1>1. IInv => TypeOK
  BY DEF IInv
<1> QED BY <1>1, Invariance, PTL

(* No page is lost, leaked or owned twice, over any sequence of             *)
(* reservations, publications, cancellations, splits and evictions.         *)
THEOREM PagesArePartitioned == Spec => []PagePartition
<1>1. IInv => PagePartition
  BY DEF IInv
<1> QED BY <1>1, Invariance, PTL

(* lock_ref always equals the number of live reservations whose match runs  *)
(* through the node.                                                        *)
THEOREM LocksAreCounted == Spec => []LocksCountReservations
<1>1. IInv => LocksCountReservations
  BY DEF IInv
<1> QED BY <1>1, Invariance, PTL

(* The cached pages a reservation reads, and the source of its boundary     *)
(* copy, stay cached under its match until it finishes.                     *)
THEOREM SharedPagesAreSafe == Spec => []SharedPagesStayCached
<1>1. IInv => SharedPagesStayCached
  BY DEF IInv
<1> QED BY <1>1, Invariance, PTL

(* Every node's page table has the right length and names only pages owned  *)
(* on its path, and every fork of cached prefixes is a node.                *)
THEOREM TreeIsSound == Spec => [](TablesOwnedByPath /\ BranchesAreNodes)
<1>1. IInv => TablesOwnedByPath /\ BranchesAreNodes
  BY DEF IInv, PrefixTree, TablesOwnedByPath, BranchesAreNodes
<1> QED BY <1>1, Invariance, PTL

(* Outstanding credits and pinned pages together never exceed the pool, the *)
(* second assertion of debug_validate.                                      *)
THEOREM CreditsAreCovered == Spec => []CreditsWithinPool
<1>1. IInv => CreditsWithinPool
  BY DEF IInv
<1> QED BY <1>1, Invariance, PTL

(* The allocation loops of reserve and ensure_materialized_through always   *)
(* find a page, so their exhaustion errors cannot occur.                    *)
THEOREM CapacityIsGuaranteed == Spec => []GuaranteedCapacity
<1>1. IInv => GuaranteedCapacity
  BY NextPageExists
<1> QED BY <1>1, Invariance, PTL

(* With no request running, admission refuses a request for nothing but the *)
(* partly filled pages on the path it matched: whatever else is cached, and *)
(* however it was split, published and evicted, can be evicted again.       *)
THEOREM IdlePoolIsUsable == Spec => []IdlePoolAdmits
<1>1. Init => TablesExtend(tree)
  BY DEF Init, EmptyTree, TablesExtend
<1>2. TablesExtend(tree) /\ IInv /\ [Next]_vars => TablesExtend(tree)'
  BY TablesExtendStep
<1>3. Spec => []TablesExtend(tree)
  BY <1>1, <1>2, Invariance, PTL DEF Spec
<1>4. IInv /\ TablesExtend(tree) => IdlePoolAdmits
  BY IdleAdmits
<1> QED BY <1>3, <1>4, Invariance, PTL

(* Whatever is split, published and evicted, a node's page table names no   *)
(* page twice, so that the lengths of deltas count pages, as cached_pages   *)
(* and pinned_cached_pages take them to do.                                 *)
THEOREM TablesNamePagesOnce == Spec => []NoPageTwice(tree)
<1>1. Init => NoPageTwice(tree)
  BY DEF Init, EmptyTree, NoPageTwice
<1>2. IInv /\ NoPageTwice(tree) /\ [Next]_vars => NoPageTwice(tree)'
  BY NoPageTwiceStep
<1> QED BY <1>1, <1>2, Invariance, PTL DEF Spec
=============================================================================
