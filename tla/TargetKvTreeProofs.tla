-------------------------- MODULE TargetKvTreeProofs --------------------------
(***************************************************************************)
(* The tree in memory keeps its shape, for every pool, page size and text: *)
(* NodesFormATree and TiesLieOnOnePath.  What is read along the parents or *)
(* the children of a tree is a recursive function, about which one argues  *)
(* with a rank that decreases at every step, the length of a prefix.       *)
(*                                                                         *)
(* With that shape, every operation on the arena is an operation of the    *)
(* prefix cache of TargetKvRadix on the prefixes that the nodes stand for: *)
(* the tree implements the cache (TreeImplementsRadix), and what is proved *)
(* of the cache holds in memory.  From the two together it follows that the*)
(* pages are accounted for, that an allocation always finds a page, and    *)
(* that debug_validate never fails.                                        *)
(***************************************************************************)
EXTENDS TargetKvTree, TLAPS, SequenceTheorems, FiniteSetTheorems,
        WellFoundedInduction, NaturalsInduction

-----------------------------------------------------------------------------
(* Recursion along a function on which a rank decreases                     *)

LEMMA LeastOf ==
  ASSUME NEW S \in SUBSET Nat, S # {}
  PROVE  \E m \in S : \A k \in S : m <= k
<1>1. IsWellFoundedOn(OpToRel(<, Nat), Nat)
  BY NatLessThanWellFounded
<1>2. PICK m \in S : \A k \in S : ~ (<<k, m>> \in OpToRel(<, Nat))
  BY <1>1, WFMin
<1>3. \A k \in S : ~ (k < m)
  BY <1>2 DEF OpToRel
<1> QED BY <1>3

(* From every element of D that is not in Stop, next leads to a lower rank. *)
Descends(D, Stop, next, rank) ==
  /\ Stop \subseteq D
  /\ rank \in [D -> Nat]
  /\ \A n \in D \ Stop : next[n] \in D /\ rank[next[n]] < rank[n]

(* What holds where one stops, and wherever it holds one step further, holds *)
(* everywhere.                                                              *)
LEMMA HoldsEverywhere ==
  ASSUME NEW D, NEW Stop, NEW next, NEW rank, Descends(D, Stop, next, rank),
         NEW Good, Stop \subseteq Good,
         \A n \in D \ Stop : next[n] \in Good => n \in Good
  PROVE  D \subseteq Good
<1> DEFINE Bad == {k \in Nat : \E n \in D \ Good : rank[n] = k}
<1>1. SUFFICES ASSUME NEW x \in D \ Good PROVE FALSE
  OBVIOUS
<1>2. rank[x] \in Bad
  BY DEF Descends
<1>3. PICK m \in Bad : \A k \in Bad : m <= k
  <2>1. Bad \in SUBSET Nat /\ Bad # {}
    BY <1>2
  <2> HIDE DEF Bad
  <2> QED BY <2>1, LeastOf
<1>4. PICK n \in D \ Good : rank[n] = m
  OBVIOUS
<1>5. n \in D \ Stop /\ next[n] \in D \ Good /\ rank[next[n]] < rank[n] /\ rank[next[n]] \in Nat
  BY <1>4 DEF Descends
<1>6. rank[next[n]] \in Bad
  BY <1>5
<1> QED BY <1>3, <1>4, <1>5, <1>6

(* f is what the recursion computes.                                        *)
Solves(f, D, Stop, base, next, H) ==
  \A n \in D : f[n] = IF n \in Stop THEN base[n] ELSE H[<<n, f[next[n]]>>]

LEMMA RecursionExists ==
  ASSUME NEW D, NEW V, NEW Stop, NEW next, NEW rank, Descends(D, Stop, next, rank),
         NEW base \in [Stop -> V], NEW H \in [(D \ Stop) \X V -> V],
         NEW top \in Nat, \A n \in D : rank[n] < top
  PROVE  \E f \in [D -> V] : Solves(f, D, Stop, base, next, H)
<1> DEFINE Upto(k) == {n \in D : rank[n] < k}
           Part(f, k) == f \in [Upto(k) -> V] /\ Solves(f, Upto(k), Stop, base, next, H)
           Bad == {k \in Nat : ~ \E f : Part(f, k)}
<1>1. SUFFICES Bad = {}
  <2>1. PICK f : Part(f, top)
    BY <1>1
  <2>2. Upto(top) = D
    OBVIOUS
  <2> QED BY <2>1, <2>2
<1>2. SUFFICES ASSUME Bad # {} PROVE FALSE
  OBVIOUS
<1>3. PICK m \in Bad : \A k \in Bad : m <= k
  <2>1. Bad \in SUBSET Nat
    OBVIOUS
  <2> HIDE DEF Bad
  <2> QED BY <1>2, <2>1, LeastOf
<1>4. m # 0
  <2> SUFFICES ASSUME m = 0 PROVE FALSE
    OBVIOUS
  <2>1. Upto(0) = {}
    BY DEF Descends
  <2>2. Part([n \in {} |-> 0], 0)
    BY <2>1 DEF Solves
  <2> QED BY <2>2
<1>5. m \in Nat /\ m - 1 \in Nat
  BY <1>4
<1>6. PICK f : Part(f, m - 1)
  <2>1. ~(m <= m - 1)
    BY <1>5
  <2>2. m - 1 \notin Bad
    <3> HIDE DEF Bad
    <3> QED BY <1>3, <2>1
  <2> QED BY <1>5, <2>2
<1> DEFINE h == [n \in Upto(m) |-> IF n \in Stop THEN base[n] ELSE H[<<n, f[next[n]]>>]]
<1>7. \A n \in Upto(m) \ Stop : next[n] \in Upto(m - 1)
  BY <1>5 DEF Descends
<1>8. \A n \in Upto(m - 1) : n \in Upto(m) /\ h[n] = f[n]
  <2>1. \A n \in Upto(m - 1) : n \in Upto(m)
    BY <1>5 DEF Descends
  <2> QED BY <1>6, <2>1 DEF Solves
<1>9. h \in [Upto(m) -> V]
  <2>1. ASSUME NEW n \in Upto(m) PROVE (IF n \in Stop THEN base[n] ELSE H[<<n, f[next[n]]>>]) \in V
    <3>1. CASE n \in Stop
      BY <3>1
    <3>2. CASE n \notin Stop
      <4>1. f[next[n]] \in V
        BY <1>6, <1>7, <3>2
      <4>2. <<n, f[next[n]]>> \in (D \ Stop) \X V
        BY <3>2, <4>1
      <4> QED BY <3>2, <4>2
    <3> QED BY <3>1, <3>2
  <2> QED BY <2>1
<1>10. Solves(h, Upto(m), Stop, base, next, H)
  <2>1. ASSUME NEW n \in Upto(m)
        PROVE  h[n] = IF n \in Stop THEN base[n] ELSE H[<<n, h[next[n]]>>]
    <3>1. n \notin Stop => h[next[n]] = f[next[n]]
      BY <1>7, <1>8
    <3> QED BY <3>1
  <2> QED BY <2>1 DEF Solves
<1>11. Part(h, m)
  BY <1>9, <1>10
<1> QED BY <1>11
LEMMA ImageFinite ==
  ASSUME NEW D, IsFiniteSet(D), NEW T, NEW f \in [D -> T], T = {f[x] : x \in D}
  PROVE  IsFiniteSet(T)
<1>1. f \in Surjection(D, T)
  BY DEF Surjection
<1> QED BY <1>1, FS_Surjection

(* A finite set of numbers has a bound.                                     *)
LEMMA FiniteBounded ==
  ASSUME NEW S \in SUBSET Nat, IsFiniteSet(S)
  PROVE  \E top \in Nat : \A s \in S : s < top
<1> DEFINE Free(T) == ~ \E top \in Nat : \A s \in T : s < top
           Bad == {k \in Nat : \E T \in SUBSET Nat :
                                  IsFiniteSet(T) /\ Cardinality(T) = k /\ Free(T)}
<1>1. SUFFICES ASSUME Free(S) PROVE FALSE
  OBVIOUS
<1>2. Cardinality(S) \in Bad
  BY <1>1, FS_CardinalityType
<1>3. PICK m \in Bad : \A k \in Bad : m <= k
  <2>1. Bad \in SUBSET Nat /\ Bad # {}
    BY <1>2
  <2> HIDE DEF Bad
  <2> QED BY <2>1, LeastOf
<1>4. PICK T \in SUBSET Nat : IsFiniteSet(T) /\ Cardinality(T) = m /\ Free(T)
  OBVIOUS
<1>5. PICK x : x \in T
  <2>1. T # {}
    BY <1>4
  <2> QED BY <2>1
<1>6. IsFiniteSet(T \ {x}) /\ Cardinality(T \ {x}) = m - 1
  BY <1>4, <1>5, FS_RemoveElement
<1>7. m \in Nat /\ m - 1 \in Nat
  BY <1>6, FS_CardinalityType
<1>8. ~ Free(T \ {x})
  <2>1. ~(m <= m - 1)
    BY <1>7
  <2>0. T \ {x} \in SUBSET Nat
    BY <1>4
  <2>2. m - 1 \notin Bad
    <3> HIDE DEF Bad
    <3> QED BY <1>3, <2>1
  <2> HIDE DEF Free
  <2> QED BY <1>6, <1>7, <2>0, <2>2
<1>9. PICK top \in Nat : \A s \in T \ {x} : s < top
  BY <1>8
<1>10. x \in Nat /\ \E big \in Nat : top <= big /\ x < big
  <2>1. x \in Nat
    BY <1>5
  <2>2. top <= top + x + 1 /\ x < top + x + 1 /\ top + x + 1 \in Nat
    BY <2>1
  <2> QED BY <2>1, <2>2
<1>11. PICK big \in Nat : top <= big /\ x < big
  BY <1>10
<1>12. \A s \in T : s < big
  <2> TAKE s \in T
  <2>1. s \in Nat
    OBVIOUS
  <2> QED BY <1>9, <1>11, <2>1
<1> QED BY <1>4, <1>12

-----------------------------------------------------------------------------
(* Trees in memory                                                          *)

Node == [parent   : Nat,
         edge     : Seq(Token),
         length   : Nat,
         delta    : [retain : Nat, pages : Seq(Page)],
         children : UNION {[S -> Nat] : S \in SUBSET Token},
         lock     : Int,
         access   : Nat]

Typed(a) ==
  /\ IsFiniteSet(DOMAIN a) /\ DOMAIN a \subseteq Nat
  /\ a \in [DOMAIN a -> Node]
  /\ ROOT \in DOMAIN a

(* A node hangs below its parent, in the place its edge begins with, and    *)
(* its delta makes a page table of the right length from its parent's.      *)
Hangs(a, n) ==
  LET node == a[n]
  IN  /\ node.parent \in DOMAIN a
      /\ node.edge # <<>>
      /\ node.length = a[node.parent].length + Len(node.edge)
      /\ Head(node.edge) \in DOMAIN a[node.parent].children
      /\ a[node.parent].children[Head(node.edge)] = n
      /\ node.delta.retain <= PagesFor(a[node.parent].length)
      /\ node.delta.retain + Len(node.delta.pages) = PagesFor(node.length)

Leads(a, n, t) ==
  LET child == a[n].children[t]
  IN  child \in DOMAIN a \ {ROOT} /\ a[child].parent = n /\ Head(a[child].edge) = t

Shape(a) ==
  /\ Typed(a)
  /\ a[ROOT].length = 0
  /\ \A n \in DOMAIN a \ {ROOT} : Hangs(a, n)
  /\ \A n \in DOMAIN a : \A t \in DOMAIN a[n].children : Leads(a, n, t)

Parents(a) == [n \in DOMAIN a |-> a[n].parent]
Lengths(a) == [n \in DOMAIN a |-> a[n].length]

LEMMA NodeFields ==
  ASSUME NEW a, Typed(a), NEW n \in DOMAIN a
  PROVE  /\ n \in Nat /\ a[n] \in Node
         /\ a[n].parent \in Nat /\ a[n].edge \in Seq(Token) /\ a[n].length \in Nat
         /\ a[n].delta.retain \in Nat /\ a[n].delta.pages \in Seq(Page)
         /\ DOMAIN a[n].children \subseteq Token
         /\ \A t \in DOMAIN a[n].children : a[n].children[t] \in Nat
         /\ a[n].lock \in Int /\ a[n].access \in Nat
BY SMTT(20) DEF Typed, Node

LEMMA LengthsBounded ==
  ASSUME NEW a, Typed(a)
  PROVE  \E top \in Nat : \A n \in DOMAIN a : a[n].length < top
<1> DEFINE S == {a[n].length : n \in DOMAIN a}
<1>1. S \in SUBSET Nat
  BY NodeFields
<1>2. IsFiniteSet(S)
  <2> DEFINE f == [n \in DOMAIN a |-> a[n].length]
  <2>1. f \in [DOMAIN a -> S] /\ S = {f[n] : n \in DOMAIN a}
    OBVIOUS
  <2>2. IsFiniteSet(DOMAIN a)
    BY DEF Typed
  <2> HIDE DEF f, S
  <2> QED BY <2>1, <2>2, ImageFinite
<1>3. PICK top \in Nat : \A s \in S : s < top
  <2> HIDE DEF S
  <2> QED BY <1>1, <1>2, FiniteBounded
<1> QED BY <1>3

(* Upwards the lengths decrease.                                            *)
LEMMA ParentsDescend ==
  ASSUME NEW a, Shape(a)
  PROVE  Descends(DOMAIN a, {ROOT}, Parents(a), Lengths(a))
<1>1. Typed(a) /\ ROOT \in DOMAIN a
  BY DEF Shape, Typed
<1>2. Lengths(a) \in [DOMAIN a -> Nat]
  BY <1>1, NodeFields DEF Lengths
<1>3. ASSUME NEW n \in DOMAIN a \ {ROOT}
      PROVE  Parents(a)[n] \in DOMAIN a /\ Lengths(a)[Parents(a)[n]] < Lengths(a)[n]
  <2>1. a[n].parent \in DOMAIN a /\ a[n].edge # <<>>
        /\ a[n].length = a[a[n].parent].length + Len(a[n].edge)
    BY DEF Shape, Hangs
  <2>2. a[n].edge \in Seq(Token) /\ a[n].length \in Nat /\ a[a[n].parent].length \in Nat
    BY <1>1, <2>1, NodeFields
  <2>3. Len(a[n].edge) \in Nat /\ Len(a[n].edge) # 0
    BY <2>1, <2>2, EmptySeq, LenProperties
  <2> QED BY <2>1, <2>2, <2>3 DEF Parents, Lengths
<1> QED BY <1>1, <1>2, <1>3 DEF Descends

(* f answers at the root with b, elsewhere with what H makes of the parent's *)
(* answer.                                                                  *)
Upwards(f, a, b, H) ==
  \A n \in DOMAIN a : f[n] = IF n = ROOT THEN b ELSE H[<<n, f[a[n].parent]>>]

LEMMA UpwardsExists ==
  ASSUME NEW a, Shape(a), NEW V, NEW b \in V, NEW H \in [(DOMAIN a \ {ROOT}) \X V -> V]
  PROVE  \E f \in [DOMAIN a -> V] : Upwards(f, a, b, H)
<1> DEFINE base == [n \in {ROOT} |-> b]
<1>1. Typed(a)
  BY DEF Shape
<1>2. PICK top \in Nat : \A n \in DOMAIN a : a[n].length < top
  BY <1>1, LengthsBounded
<1>3. \A n \in DOMAIN a : Lengths(a)[n] < top
  BY <1>2 DEF Lengths
<1>4. base \in [{ROOT} -> V]
  OBVIOUS
<1>5. PICK f \in [DOMAIN a -> V] : Solves(f, DOMAIN a, {ROOT}, base, Parents(a), H)
  <2> HIDE DEF base
  <2> QED BY <1>3, <1>4, ParentsDescend, RecursionExists
<1>6. Upwards(f, a, b, H)
  BY <1>5 DEF Solves, Parents, Upwards
<1> QED BY <1>6

(* What a node inherits from its parent, every node has that the root has.  *)
LEMMA UpwardsHolds ==
  ASSUME NEW a, Shape(a), NEW Good, ROOT \in Good,
         \A n \in DOMAIN a \ {ROOT} : a[n].parent \in Good => n \in Good
  PROVE  DOMAIN a \subseteq Good
<1>1. \A n \in DOMAIN a \ {ROOT} : Parents(a)[n] \in Good => n \in Good
  BY DEF Parents
<1>2. {ROOT} \subseteq Good
  OBVIOUS
<1> QED BY <1>1, <1>2, ParentsDescend, HoldsEverywhere

LEMMA PathSteps ==
  ASSUME NEW a, Shape(a)
  PROVE  /\ Path(a, ROOT) = {}
         /\ \A n \in DOMAIN a \ {ROOT} : Path(a, n) = {n} \cup Path(a, a[n].parent)
         /\ \A n \in DOMAIN a : Path(a, n) \subseteq DOMAIN a \ {ROOT}
<1> DEFINE V == SUBSET (DOMAIN a \ {ROOT})
           H == [x \in (DOMAIN a \ {ROOT}) \X V |-> {x[1]} \cup x[2]]
           Runs(g) == g = [n \in DOMAIN a |->
                             IF n = ROOT THEN {} ELSE {n} \cup g[a[n].parent]]
           u == CHOOSE g : Runs(g)
<1>1. Typed(a) /\ ROOT \in DOMAIN a /\ \A n \in DOMAIN a \ {ROOT} : a[n].parent \in DOMAIN a
  BY DEF Shape, Typed, Hangs
<1>2. PICK f \in [DOMAIN a -> V] : Upwards(f, a, {}, H)
  <2>1. H \in [(DOMAIN a \ {ROOT}) \X V -> V] /\ {} \in V
    OBVIOUS
  <2> HIDE DEF H, V
  <2> QED BY ONLY <2>1, Shape(a), UpwardsExists
<1>3. Runs(f)
  <2>1. ASSUME NEW n \in DOMAIN a
        PROVE  f[n] = IF n = ROOT THEN {} ELSE {n} \cup f[a[n].parent]
    <3>1. n # ROOT => <<n, f[a[n].parent]>> \in (DOMAIN a \ {ROOT}) \X V
      BY <1>1
    <3>2. n # ROOT => H[<<n, f[a[n].parent]>>] = {n} \cup f[a[n].parent]
      BY <3>1
    <3> QED BY <1>2, <3>2 DEF Upwards
  <2> QED BY <2>1
<1>4. Runs(u)
  <2> HIDE DEF Runs
  <2> QED BY <1>3
<1>5. \A n \in DOMAIN a : Path(a, n) = u[n]
  BY DEF Path
<1> HIDE DEF u
<1>6. \A n \in DOMAIN a : u[n] = IF n = ROOT THEN {} ELSE {n} \cup u[a[n].parent]
  BY <1>4
<1>7. DOMAIN a \subseteq {n \in DOMAIN a : u[n] \subseteq DOMAIN a \ {ROOT}}
  <2> DEFINE Good == {n \in DOMAIN a : u[n] \subseteq DOMAIN a \ {ROOT}}
  <2>1. ROOT \in Good
    BY <1>1, <1>6
  <2>2. \A n \in DOMAIN a \ {ROOT} : a[n].parent \in Good => n \in Good
    BY <1>6
  <2>3. DOMAIN a \subseteq Good
    <3> HIDE DEF Good
    <3> QED BY <2>1, <2>2, UpwardsHolds
  <2> QED BY <2>3
<1> QED BY <1>1, <1>5, <1>6, <1>7

(* Whatever answers as a path does at every node is the path.               *)
LEMMA PathIs ==
  ASSUME NEW a, Shape(a), NEW P, P[ROOT] = {},
         \A n \in DOMAIN a \ {ROOT} : P[n] = {n} \cup P[a[n].parent]
  PROVE  \A n \in DOMAIN a : Path(a, n) = P[n]
<1> DEFINE Good == {n \in DOMAIN a : Path(a, n) = P[n]}
<1>1. ROOT \in Good
  BY PathSteps DEF Shape, Typed
<1>2. \A n \in DOMAIN a \ {ROOT} : a[n].parent \in Good => n \in Good
  BY PathSteps
<1>3. DOMAIN a \subseteq Good
  <2> HIDE DEF Good
  <2> QED BY <1>1, <1>2, UpwardsHolds
<1> QED BY <1>3

LEMMA PagesForFacts ==
  /\ PagesFor(0) = 0
  /\ \A n \in Nat : PagesFor(n) \in Nat
  /\ \A m, n \in Nat : m <= n => PagesFor(m) <= PagesFor(n)
BY TreeAssumption DEF PagesFor

LEMMA CutSequence ==
  ASSUME NEW S, NEW s \in Seq(S), NEW k \in Nat, k <= Len(s)
  PROVE  /\ SubSeq(s, 1, k) \in Seq(S) /\ Len(SubSeq(s, 1, k)) = k
         /\ \A i \in 1 .. k : SubSeq(s, 1, k)[i] = s[i]
OBVIOUS

LEMMA RestOfSequence ==
  ASSUME NEW S, NEW s \in Seq(S), NEW k \in Nat, k <= Len(s)
  PROVE  /\ SubSeq(s, k + 1, Len(s)) \in Seq(S)
         /\ Len(SubSeq(s, k + 1, Len(s))) = Len(s) - k
         /\ \A i \in 1 .. Len(s) - k : SubSeq(s, k + 1, Len(s))[i] = s[k + i]
OBVIOUS

LEMMA Joined ==
  ASSUME NEW S, NEW s \in Seq(S), NEW t \in Seq(S)
  PROVE  /\ s \o t \in Seq(S) /\ Len(s \o t) = Len(s) + Len(t)
         /\ \A i \in 1 .. Len(s) : (s \o t)[i] = s[i]
         /\ \A i \in 1 .. Len(t) : (s \o t)[Len(s) + i] = t[i]
OBVIOUS

Table(v, delta) == SubSeq(v, 1, delta.retain) \o delta.pages

LEMMA TableExtends ==
  ASSUME NEW v \in Seq(Page), NEW d \in [retain : Nat, pages : Seq(Page)], d.retain <= Len(v)
  PROVE  Table(v, d) \in Seq(Page) /\ Len(Table(v, d)) = d.retain + Len(d.pages)
<1>1. d.retain \in Nat /\ d.pages \in Seq(Page)
  OBVIOUS
<1>2. SubSeq(v, 1, d.retain) \in Seq(Page) /\ Len(SubSeq(v, 1, d.retain)) = d.retain
  BY <1>1, CutSequence
<1>3. PICK w \in Seq(Page) : w = SubSeq(v, 1, d.retain)
  BY <1>2
<1> QED BY <1>1, <1>2, <1>3, Joined DEF Table

LEMMA TableSteps ==
  ASSUME NEW a, Shape(a)
  PROVE  /\ PageTableOf(a, ROOT) = <<>>
         /\ \A n \in DOMAIN a \ {ROOT} :
              PageTableOf(a, n) = Table(PageTableOf(a, a[n].parent), a[n].delta)
         /\ \A n \in DOMAIN a :
              PageTableOf(a, n) \in Seq(Page) /\ Len(PageTableOf(a, n)) = PagesFor(a[n].length)
<1> DEFINE D == DOMAIN a \ {ROOT}
           V == Seq(Page)
           H == [x \in D \X V |-> IF a[x[1]].delta.retain <= Len(x[2])
                                  THEN Table(x[2], a[x[1]].delta) ELSE <<>>]
           Runs(g) == g = [n \in DOMAIN a |->
                             IF n = ROOT THEN <<>>
                             ELSE SubSeq(g[a[n].parent], 1, a[n].delta.retain) \o a[n].delta.pages]
           u == CHOOSE g : Runs(g)
<1>1. /\ Typed(a) /\ ROOT \in DOMAIN a /\ \A n \in D : a[n].parent \in DOMAIN a
      /\ \A n \in DOMAIN a : /\ a[n].delta \in [retain : Nat, pages : Seq(Page)]
                             /\ a[n].delta.retain \in Nat
                             /\ a[n].length \in Nat
  BY NodeFields DEF Shape, Typed, Hangs, Node
<1>2. PICK f \in [DOMAIN a -> V] : Upwards(f, a, <<>>, H)
  <2>1. ASSUME NEW n \in D, NEW v \in V
        PROVE  (IF a[n].delta.retain <= Len(v) THEN Table(v, a[n].delta) ELSE <<>>) \in V
    <3>1. a[n].delta \in [retain : Nat, pages : Seq(Page)]
      BY <1>1
    <3>2. a[n].delta.retain <= Len(v) => Table(v, a[n].delta) \in V
      BY <3>1, TableExtends
    <3> QED BY <3>2
  <2>2. H \in [D \X V -> V] /\ <<>> \in V
    BY <2>1
  <2> HIDE DEF H, V
  <2> QED BY ONLY <2>2, Shape(a), UpwardsExists
<1>3. \A n \in D, v \in V : a[n].delta.retain <= Len(v) => H[<<n, v>>] = Table(v, a[n].delta)
  OBVIOUS
<1>4. \A n \in DOMAIN a : f[n] = IF n = ROOT THEN <<>> ELSE H[<<n, f[a[n].parent]>>]
  BY <1>2 DEF Upwards
<1> HIDE DEF H, u, Runs
<1>5. \A n \in DOMAIN a : Len(f[n]) = PagesFor(a[n].length)
  <2> DEFINE Good == {n \in DOMAIN a : Len(f[n]) = PagesFor(a[n].length)}
  <2>1. ROOT \in Good
    <3>1. f[ROOT] = <<>> /\ Len(<<>>) = 0
      BY <1>1, <1>4
    <3>2. a[ROOT].length = 0
      BY DEF Shape
    <3> QED BY <1>1, <3>1, <3>2, PagesForFacts
  <2>2. ASSUME NEW n \in DOMAIN a \ {ROOT}, a[n].parent \in Good PROVE n \in Good
    <3>1. /\ a[n].delta.retain <= PagesFor(a[a[n].parent].length)
          /\ a[n].delta.retain + Len(a[n].delta.pages) = PagesFor(a[n].length)
      BY DEF Shape, Hangs
    <3>2. PICK v \in V : v = f[a[n].parent] /\ Len(v) = PagesFor(a[a[n].parent].length)
      BY <1>1, <2>2
    <3>3. f[n] = Table(v, a[n].delta)
      BY <1>3, <1>4, <3>1, <3>2
    <3> QED BY <1>1, <3>1, <3>2, <3>3, TableExtends
  <2>3. DOMAIN a \subseteq Good
    <3> HIDE DEF Good
    <3> QED BY <2>1, <2>2, UpwardsHolds
  <2> QED BY <2>3
<1>6. ASSUME NEW n \in D PROVE f[n] = Table(f[a[n].parent], a[n].delta)
  <2>1. a[n].delta.retain <= PagesFor(a[a[n].parent].length)
    BY DEF Shape, Hangs
  <2>2. f[a[n].parent] \in V /\ Len(f[a[n].parent]) = PagesFor(a[a[n].parent].length)
    BY <1>1, <1>5
  <2> QED BY <1>3, <1>4, <2>1, <2>2
<1>7. Runs(f)
  BY <1>4, <1>6 DEF Runs, Table
<1>8. Runs(u)
  BY <1>7 DEF u
<1>9. \A n \in DOMAIN a : PageTableOf(a, n) = u[n]
  BY DEF PageTableOf, u, Runs
<1>10. \A n \in DOMAIN a : u[n] = IF n = ROOT THEN <<>> ELSE Table(u[a[n].parent], a[n].delta)
  BY <1>8 DEF Runs, Table
<1>11. \A n \in DOMAIN a : u[n] = f[n]
  <2> DEFINE Good == {n \in DOMAIN a : u[n] = f[n]}
  <2>1. ROOT \in Good
    BY <1>1, <1>4, <1>10
  <2>2. \A n \in DOMAIN a \ {ROOT} : a[n].parent \in Good => n \in Good
    BY <1>6, <1>10
  <2>3. DOMAIN a \subseteq Good
    <3> HIDE DEF Good
    <3> QED BY <2>1, <2>2, UpwardsHolds
  <2> QED BY <2>3
<1>12. PageTableOf(a, ROOT) = <<>>
  BY <1>1, <1>9, <1>10
<1>13. ASSUME NEW n \in D PROVE PageTableOf(a, n) = Table(PageTableOf(a, a[n].parent), a[n].delta)
  BY <1>1, <1>9, <1>10
<1>14. \A n \in DOMAIN a : PageTableOf(a, n) \in V /\ Len(PageTableOf(a, n)) = PagesFor(a[n].length)
  BY <1>5, <1>9, <1>11
<1> QED BY <1>12, <1>13, <1>14

(* Whatever answers as a page table does at every node is the page table.   *)
LEMMA TableIs ==
  ASSUME NEW a, Shape(a), NEW P, P[ROOT] = <<>>,
         \A n \in DOMAIN a \ {ROOT} : P[n] = Table(P[a[n].parent], a[n].delta)
  PROVE  \A n \in DOMAIN a : PageTableOf(a, n) = P[n]
<1> DEFINE Good == {n \in DOMAIN a : PageTableOf(a, n) = P[n]}
<1>1. ROOT \in Good
  BY TableSteps DEF Shape, Typed
<1>2. \A n \in DOMAIN a \ {ROOT} : a[n].parent \in Good => n \in Good
  BY TableSteps
<1>3. DOMAIN a \subseteq Good
  <2> HIDE DEF Good
  <2> QED BY <1>1, <1>2, UpwardsHolds
<1> QED BY <1>3

-----------------------------------------------------------------------------
(* The walk of match_prefix                                                 *)

Agree(s, t, k) == k <= Len(s) /\ k <= Len(t) /\ \A i \in 1 .. k : s[i] = t[i]

LEMMA PrefixesAgree ==
  ASSUME NEW S, NEW s \in Seq(S), NEW t \in Seq(S), NEW p
  PROVE  /\ p \in CommonPrefixes({s, t}) => p \in Seq(S) /\ Len(p) \in Nat /\ Agree(s, t, Len(p))
         /\ \A k \in Nat : Agree(s, t, k) /\ p = SubSeq(s, 1, k) =>
              p \in CommonPrefixes({s, t}) /\ Len(p) = k
<1>1. ASSUME p \in CommonPrefixes({s, t})
      PROVE  p \in Seq(S) /\ Len(p) \in Nat /\ Agree(s, t, Len(p))
  <2>1. PICK q \in {s, t} : p \in Prefixes(q)
    BY <1>1 DEF CommonPrefixes
  <2>2. IsPrefix(p, s) /\ IsPrefix(p, t)
    BY <1>1 DEF CommonPrefixes
  <2>3. PICK l \in 0 .. Len(q) : p = SubSeq(q, 1, l)
    BY <2>1 DEF Prefixes
  <2>4. q \in Seq(S)
    BY <2>1
  <2>5. p \in Seq(S) /\ Len(p) = l /\ l \in Nat
    BY <2>3, <2>4, CutSequence
  <2> HIDE <2>3
  <2>6. Len(p) <= Len(s) /\ Len(p) <= Len(t)
    BY <2>2 DEF IsPrefix
  <2>7. \A i \in 1 .. Len(p) : SubSeq(p, 1, Len(p))[i] = p[i]
    BY <2>5
  <2>8. \A i \in 1 .. Len(p) : SubSeq(s, 1, Len(p))[i] = s[i] /\ SubSeq(t, 1, Len(p))[i] = t[i]
    BY <2>5, <2>6
  <2>9. SubSeq(p, 1, Len(p)) = SubSeq(s, 1, Len(p)) /\ SubSeq(p, 1, Len(p)) = SubSeq(t, 1, Len(p))
    BY <2>2 DEF IsPrefix
  <2>10. \A i \in 1 .. Len(p) : s[i] = t[i]
    BY <2>7, <2>8, <2>9
  <2> QED BY <2>5, <2>6, <2>10 DEF Agree
<1>2. ASSUME NEW k \in Nat, Agree(s, t, k), p = SubSeq(s, 1, k)
      PROVE  p \in CommonPrefixes({s, t}) /\ Len(p) = k
  <2>1. k <= Len(s) /\ k <= Len(t) /\ \A i \in 1 .. k : s[i] = t[i]
    BY <1>2 DEF Agree
  <2>2. p \in Seq(S) /\ Len(p) = k /\ \A i \in 1 .. k : p[i] = s[i]
    BY <1>2, <2>1, CutSequence
  <2>3. p \in Prefixes(s)
    BY <1>2, <2>1 DEF Prefixes
  <2>4. ASSUME NEW q \in {s, t} PROVE IsPrefix(p, q)
    <3>1. q \in Seq(S) /\ k <= Len(q) /\ \A i \in 1 .. k : p[i] = q[i]
      BY <2>1, <2>2
    <3> HIDE <1>2
    <3>2. /\ SubSeq(p, 1, k) = [i \in 1 .. k |-> p[i]]
          /\ SubSeq(q, 1, k) = [i \in 1 .. k |-> q[i]]
      BY <2>2, <3>1
    <3> QED BY <2>2, <3>1, <3>2 DEF IsPrefix
  <2> QED BY <2>2, <2>3, <2>4 DEF CommonPrefixes
<1> QED BY <1>1, <1>2

LEMMA LongestCommon ==
  ASSUME NEW S, NEW s \in Seq(S), NEW t \in Seq(S)
  PROVE  LET l == Len(LongestCommonPrefix({s, t}))
         IN  /\ l \in Nat /\ Agree(s, t, l)
             /\ l < Len(s) /\ l < Len(t) => s[l + 1] # t[l + 1]
<1> DEFINE C == CommonPrefixes({s, t})
           Most(p) == \A q \in C : Len(q) <= Len(p)
           p == LongestCommonPrefix({s, t})
           K == {Len(s) - k : k \in {k \in 0 .. Len(s) : Agree(s, t, k)}}
<1>1. Len(s) \in Nat /\ Len(t) \in Nat
  OBVIOUS
<1>2. PICK m \in K : \A k \in K : m <= k
  <2>1. Agree(s, t, 0)
    BY <1>1 DEF Agree
  <2>2. 0 \in {k \in 0 .. Len(s) : Agree(s, t, k)}
    BY <1>1, <2>1
  <2>3. K # {} /\ K \in SUBSET Nat
    BY <1>1, <2>2
  <2> HIDE DEF K
  <2> QED BY <2>3, LeastOf
<1>3. PICK n \in 0 .. Len(s) : Agree(s, t, n) /\ m = Len(s) - n
  OBVIOUS
<1>4. \A k \in Nat : Agree(s, t, k) => k <= n
  <2> SUFFICES ASSUME NEW k \in Nat, Agree(s, t, k) PROVE k <= n
    OBVIOUS
  <2>1. k \in 0 .. Len(s)
    BY <1>1 DEF Agree
  <2>2. Len(s) - k \in K
    BY <2>1
  <2>3. m <= Len(s) - k
    <3> HIDE DEF K
    <3> QED BY <1>2, <2>2
  <2> QED BY <1>1, <1>3, <2>1, <2>3
<1>5. PICK c : c = SubSeq(s, 1, n)
  OBVIOUS
<1>6. c \in C /\ Len(c) = n
  <2>1. n \in Nat
    OBVIOUS
  <2> QED BY <1>3, <1>5, <2>1, PrefixesAgree
<1>7. \A q \in C : Len(q) \in Nat /\ Len(q) <= n /\ Agree(s, t, Len(q))
  BY <1>4, PrefixesAgree
<1>8. Most(c)
  BY <1>6, <1>7
<1>9. p \in C /\ Most(p)
  <2> HIDE DEF C
  <2>1. \E q \in C : Most(q)
    BY <1>6, <1>8
  <2>2. p = CHOOSE q \in C : Most(q)
    BY DEF LongestCommonPrefix, C
  <2> HIDE DEF Most, p
  <2> QED BY <2>1, <2>2
<1> HIDE DEF C, p
<1>10. Len(p) \in Nat /\ Agree(s, t, Len(p)) /\ Len(p) = n
  BY <1>6, <1>7, <1>9
<1>11. Len(p) < Len(s) /\ Len(p) < Len(t) => s[Len(p) + 1] # t[Len(p) + 1]
  <2> SUFFICES ASSUME n < Len(s), n < Len(t), s[n + 1] = t[n + 1] PROVE FALSE
    BY <1>10
  <2>1. Agree(s, t, n + 1)
    BY <1>1, <1>3 DEF Agree
  <2>2. n + 1 \in Nat /\ ~(n + 1 <= n)
    OBVIOUS
  <2> QED BY <1>4, <2>1, <2>2
<1> QED BY <1>10, <1>11 DEF p

Rest(a, ids, n) == SubSeq(ids, a[n].length + 1, Len(ids))

Stays(a, ids, n) == Rest(a, ids, n) = <<>> \/ Head(Rest(a, ids, n)) \notin DOMAIN a[n].children

Onward(a, ids, n) == a[n].children[Head(Rest(a, ids, n))]

Common(a, ids, n) == Len(LongestCommonPrefix({a[Onward(a, ids, n)].edge, Rest(a, ids, n)}))

Within(a, ids, n) == Common(a, ids, n) < Len(a[Onward(a, ids, n)].edge)

(* w[n] is where the walk ends that has come to n.                          *)
Walks(w, a, ids) ==
  \A n \in DOMAIN a :
    w[n] = IF Stays(a, ids, n) THEN [at |-> n, cut |-> 0]
           ELSE IF Within(a, ids, n) THEN [at |-> Onward(a, ids, n), cut |-> Common(a, ids, n)]
           ELSE w[Onward(a, ids, n)]

Ending(a, ids) == {n \in DOMAIN a : Stays(a, ids, n) \/ Within(a, ids, n)}

Onwards(a, ids) == [n \in DOMAIN a |-> Onward(a, ids, n)]

(* Downwards the lengths approach their bound.                              *)
LEMMA WalkDescends ==
  ASSUME NEW a, Shape(a), NEW ids, NEW top \in Nat, \A n \in DOMAIN a : a[n].length < top
  PROVE  LET left == [n \in DOMAIN a |-> top - a[n].length]
         IN  /\ Descends(DOMAIN a, Ending(a, ids), Onwards(a, ids), left)
             /\ \A n \in DOMAIN a : left[n] < top + 1
<1> DEFINE left == [n \in DOMAIN a |-> top - a[n].length]
<1>1. Typed(a) /\ \A n \in DOMAIN a : a[n].length \in Nat
  BY NodeFields DEF Shape
<1>2. left \in [DOMAIN a -> Nat] /\ \A n \in DOMAIN a : left[n] < top + 1
  <2>1. ASSUME NEW n \in DOMAIN a PROVE top - a[n].length \in Nat /\ top - a[n].length < top + 1
    <3>1. a[n].length \in Nat /\ a[n].length < top
      BY <1>1
    <3> QED BY <3>1
  <2> QED BY <2>1
<1>3. ASSUME NEW n \in DOMAIN a \ Ending(a, ids)
      PROVE  Onwards(a, ids)[n] \in DOMAIN a /\ left[Onwards(a, ids)[n]] < left[n]
  <2> DEFINE c == Onward(a, ids, n)
  <2>1. Head(Rest(a, ids, n)) \in DOMAIN a[n].children
    BY DEF Ending, Stays
  <2>2. c \in DOMAIN a \ {ROOT} /\ a[c].parent = n
    BY <2>1 DEF Shape, Leads, Onward
  <2> HIDE DEF c
  <2>3. a[c].length = a[n].length + Len(a[c].edge) /\ a[c].edge # <<>>
    BY <2>2 DEF Shape, Hangs
  <2>4. a[c].edge \in Seq(Token)
    BY <1>1, <2>2, NodeFields
  <2>5. Len(a[c].edge) \in Nat /\ Len(a[c].edge) # 0
    BY <2>3, <2>4, EmptySeq, LenProperties
  <2>6. a[n].length < a[c].length
    BY <1>1, <2>2, <2>3, <2>5
  <2>7. left[c] < left[n]
    BY <1>1, <2>2, <2>6
  <2> QED BY <2>2, <2>7 DEF Onwards, c
<1> QED BY <1>2, <1>3 DEF Descends, Ending

LEMMA WalkExists ==
  ASSUME NEW a, Shape(a), NEW ids
  PROVE  \E w : Walks(w, a, ids) /\ w[ROOT] = WalkEnd(a, ids)
<1> DEFINE E == Ending(a, ids)
           base == [n \in E |-> IF Stays(a, ids, n) THEN [at |-> n, cut |-> 0]
                                ELSE [at |-> Onward(a, ids, n), cut |-> Common(a, ids, n)]]
           V == {base[n] : n \in E}
           H == [x \in (DOMAIN a \ E) \X V |-> x[2]]
           Runs(g) == g = [id \in DOMAIN a |->
             LET rest == SubSeq(ids, a[id].length + 1, Len(ids))
             IN  IF rest = <<>> \/ Head(rest) \notin DOMAIN a[id].children
                 THEN [at |-> id, cut |-> 0]
                 ELSE LET child  == a[id].children[Head(rest)]
                          common == Len(LongestCommonPrefix({a[child].edge, rest}))
                      IN  IF common < Len(a[child].edge)
                          THEN [at |-> child, cut |-> common]
                          ELSE g[child]]
           u == CHOOSE g : Runs(g)
<1>1. Typed(a) /\ ROOT \in DOMAIN a
  BY DEF Shape, Typed
<1>2. PICK top \in Nat : \A n \in DOMAIN a : a[n].length < top
  BY <1>1, LengthsBounded
<1>3. PICK left : /\ Descends(DOMAIN a, E, Onwards(a, ids), left)
                  /\ \A n \in DOMAIN a : left[n] < top + 1
  BY <1>2, WalkDescends
<1>4. PICK f \in [DOMAIN a -> V] : Solves(f, DOMAIN a, E, base, Onwards(a, ids), H)
  <2>1. base \in [E -> V] /\ H \in [(DOMAIN a \ E) \X V -> V] /\ top + 1 \in Nat
    OBVIOUS
  <2> HIDE DEF E, base, V, H
  <2> QED BY ONLY <1>3, <2>1, RecursionExists
<1>5. Runs(f)
  <2>1. ASSUME NEW n \in DOMAIN a
        PROVE  f[n] = IF Stays(a, ids, n) THEN [at |-> n, cut |-> 0]
                      ELSE IF Within(a, ids, n)
                           THEN [at |-> Onward(a, ids, n), cut |-> Common(a, ids, n)]
                           ELSE f[Onward(a, ids, n)]
    <3>1. f[n] = IF n \in E THEN base[n] ELSE H[<<n, f[Onwards(a, ids)[n]]>>]
      BY <1>4 DEF Solves
    <3>2. CASE n \in E
      <4>1. f[n] = base[n]
        BY <3>1, <3>2
      <4>2. Stays(a, ids, n) \/ Within(a, ids, n)
        BY <3>2 DEF Ending
      <4> QED BY <3>2, <4>1, <4>2
    <3>3. CASE n \notin E
      <4>1. Onwards(a, ids)[n] \in DOMAIN a /\ Onwards(a, ids)[n] = Onward(a, ids, n)
        BY <1>3, <3>3 DEF Descends, Onwards
      <4>2. <<n, f[Onward(a, ids, n)]>> \in (DOMAIN a \ E) \X V
        BY <3>3, <4>1
      <4>3. f[n] = f[Onward(a, ids, n)]
        BY <3>1, <3>3, <4>1, <4>2
      <4>4. ~Stays(a, ids, n) /\ ~Within(a, ids, n)
        BY <3>3 DEF Ending
      <4> QED BY <4>3, <4>4
    <3> QED BY <3>2, <3>3
  <2> HIDE DEF E, base, V, H
  <2>2. f = [n \in DOMAIN a |-> f[n]]
    OBVIOUS
  <2> QED BY <2>1, <2>2 DEF Stays, Within, Onward, Common, Rest
<1>6. Runs(u)
  <2> HIDE DEF Runs
  <2> QED BY <1>5
<1>7. WalkEnd(a, ids) = u[ROOT]
  BY DEF WalkEnd
<1> HIDE DEF u
<1>8. Walks(u, a, ids)
  BY <1>6 DEF Walks, Stays, Within, Onward, Common, Rest
<1> QED BY <1>7, <1>8

(* The prefix a node stands for is as long as the node says.                *)
LEMMA PrefixSteps ==
  ASSUME NEW a, Shape(a)
  PROVE  /\ PrefixOf(a, ROOT) = <<>>
         /\ \A n \in DOMAIN a \ {ROOT} : PrefixOf(a, n) = PrefixOf(a, a[n].parent) \o a[n].edge
         /\ \A n \in DOMAIN a :
              PrefixOf(a, n) \in Seq(Token) /\ Len(PrefixOf(a, n)) = a[n].length
<1> DEFINE D == DOMAIN a \ {ROOT}
           V == Seq(Token)
           H == [x \in D \X V |-> x[2] \o a[x[1]].edge]
           Runs(g) == g = [n \in DOMAIN a |-> IF n = ROOT THEN <<>> ELSE g[a[n].parent] \o a[n].edge]
           u == CHOOSE g : Runs(g)
<1>1. /\ Typed(a) /\ ROOT \in DOMAIN a /\ a[ROOT].length = 0
      /\ \A n \in D : /\ a[n].parent \in DOMAIN a
                      /\ a[n].length = a[a[n].parent].length + Len(a[n].edge)
      /\ \A n \in DOMAIN a : a[n].edge \in V /\ a[n].length \in Nat
  BY NodeFields DEF Shape, Typed, Hangs
<1>2. PICK f \in [DOMAIN a -> V] : Upwards(f, a, <<>>, H)
  <2>1. ASSUME NEW n \in D, NEW v \in V PROVE v \o a[n].edge \in V
    <3>1. a[n].edge \in Seq(Token)
      BY <1>1
    <3> QED BY <3>1, Joined
  <2>2. H \in [D \X V -> V] /\ <<>> \in V
    BY <2>1
  <2> HIDE DEF H, V
  <2> QED BY ONLY <2>2, Shape(a), UpwardsExists
<1>3. Runs(f)
  <2>1. ASSUME NEW n \in DOMAIN a
        PROVE  f[n] = IF n = ROOT THEN <<>> ELSE f[a[n].parent] \o a[n].edge
    <3>1. n # ROOT => <<n, f[a[n].parent]>> \in D \X V
      BY <1>1
    <3>2. n # ROOT => H[<<n, f[a[n].parent]>>] = f[a[n].parent] \o a[n].edge
      BY <3>1
    <3> QED BY <1>2, <3>2 DEF Upwards
  <2> QED BY <2>1
<1>4. Runs(u)
  <2> HIDE DEF Runs
  <2> QED BY <1>3
<1>5. \A n \in DOMAIN a : PrefixOf(a, n) = u[n]
  BY DEF PrefixOf
<1> HIDE DEF u, H
<1>6. \A n \in DOMAIN a : u[n] = IF n = ROOT THEN <<>> ELSE u[a[n].parent] \o a[n].edge
  BY <1>4
<1>7. \A n \in DOMAIN a : u[n] \in V /\ Len(u[n]) = a[n].length
  <2> DEFINE Good == {n \in DOMAIN a : u[n] \in V /\ Len(u[n]) = a[n].length}
  <2>1. ROOT \in Good
    <3>1. u[ROOT] = <<>> /\ Len(<<>>) = 0 /\ <<>> \in V
      BY <1>1, <1>6
    <3> QED BY <1>1, <3>1
  <2>2. ASSUME NEW n \in DOMAIN a \ {ROOT}, a[n].parent \in Good PROVE n \in Good
    <3>1. PICK v \in Seq(Token) : v = u[a[n].parent] /\ Len(v) = a[a[n].parent].length
      BY <2>2
    <3>2. u[n] = v \o a[n].edge /\ a[n].edge \in Seq(Token)
      BY <1>1, <1>6, <3>1
    <3>3. u[n] \in V /\ Len(u[n]) = Len(v) + Len(a[n].edge)
      BY <3>2, Joined
    <3> QED BY <1>1, <3>1, <3>3
  <2>3. DOMAIN a \subseteq Good
    <3> HIDE DEF Good
    <3> QED BY <2>1, <2>2, UpwardsHolds
  <2> QED BY <2>3
<1>8. PrefixOf(a, ROOT) = <<>>
  BY <1>1, <1>5, <1>6
<1>9. ASSUME NEW n \in D PROVE PrefixOf(a, n) = PrefixOf(a, a[n].parent) \o a[n].edge
  BY <1>1, <1>5, <1>6
<1> QED BY <1>5, <1>7, <1>8, <1>9

(* The first k tokens of a node's prefix are those of ids.                  *)
Spells(a, ids, n, k) == k <= Len(ids) /\ \A i \in 1 .. k : PrefixOf(a, n)[i] = ids[i]

(* Where the walk ends: as far as the tree spells ids.                      *)
EndsWell(a, ids, e) ==
  /\ e.at \in DOMAIN a /\ e.cut \in Nat
  /\ e.cut = 0 =>
       /\ Spells(a, ids, e.at, a[e.at].length)
       /\ a[e.at].length < Len(ids) => ids[a[e.at].length + 1] \notin DOMAIN a[e.at].children
  /\ e.cut # 0 =>
       LET node == a[e.at]
           k    == a[node.parent].length + e.cut
       IN  /\ e.at # ROOT /\ e.cut < Len(node.edge)
           /\ Spells(a, ids, e.at, k)
           /\ k < Len(ids) => ids[k + 1] # node.edge[e.cut + 1]

LEMMA RestFacts ==
  ASSUME NEW a, Shape(a), NEW ids \in Seq(Token), NEW n \in DOMAIN a,
         a[n].length <= Len(ids)
  PROVE  /\ a[n].length \in Nat
         /\ Rest(a, ids, n) \in Seq(Token)
         /\ Len(Rest(a, ids, n)) = Len(ids) - a[n].length
         /\ \A i \in 1 .. Len(ids) - a[n].length : Rest(a, ids, n)[i] = ids[a[n].length + i]
         /\ Rest(a, ids, n) = <<>> <=> a[n].length = Len(ids)
         /\ a[n].length < Len(ids) => Head(Rest(a, ids, n)) = ids[a[n].length + 1]
<1>1. a[n].length \in Nat
  BY NodeFields DEF Shape
<1>2. PICK k \in Nat : k = a[n].length
  BY <1>1
<1>3. PICK r : r = SubSeq(ids, k + 1, Len(ids))
  OBVIOUS
<1>4. r \in Seq(Token) /\ Len(r) = Len(ids) - k /\ \A i \in 1 .. Len(ids) - k : r[i] = ids[k + i]
  BY <1>2, <1>3, RestOfSequence
<1> HIDE <1>3
<1>5. (r = <<>> <=> k = Len(ids)) /\ (k < Len(ids) => Head(r) = ids[k + 1])
  BY <1>4
<1> QED BY <1>1, <1>2, <1>3, <1>4, <1>5 DEF Rest

(* The child on the way shares a token at least with what is left.          *)
LEMMA OnwardFacts ==
  ASSUME NEW a, Shape(a), NEW ids \in Seq(Token), NEW n \in DOMAIN a,
         Spells(a, ids, n, a[n].length), ~Stays(a, ids, n)
  PROVE  LET c == Onward(a, ids, n)
             l == Common(a, ids, n)
         IN  /\ c \in DOMAIN a \ {ROOT} /\ a[c].parent = n
             /\ l \in Nat \ {0} /\ l <= Len(a[c].edge)
             /\ Spells(a, ids, c, a[n].length + l)
             /\ l < Len(a[c].edge) /\ a[n].length + l < Len(ids) =>
                  ids[a[n].length + l + 1] # a[c].edge[l + 1]
<1> DEFINE c == Onward(a, ids, n)
           l == Common(a, ids, n)
           r == Rest(a, ids, n)
<1>1. PICK k \in Nat : k = a[n].length
  BY NodeFields DEF Shape
<1>2. k <= Len(ids) /\ \A i \in 1 .. k : PrefixOf(a, n)[i] = ids[i]
  BY <1>1 DEF Spells
<1>3. /\ r \in Seq(Token) /\ Len(r) = Len(ids) - k
      /\ \A i \in 1 .. Len(ids) - k : r[i] = ids[k + i]
      /\ r # <<>>
  BY <1>1, <1>2, RestFacts DEF Stays
<1>4. Head(r) \in DOMAIN a[n].children
  BY DEF Stays
<1>5. c \in DOMAIN a \ {ROOT} /\ a[c].parent = n /\ Head(a[c].edge) = Head(r)
  BY <1>4 DEF Shape, Leads, Onward
<1> HIDE DEF r, c
<1>6. PICK e \in Seq(Token) : e = a[c].edge /\ e # <<>>
  BY <1>5, NodeFields DEF Shape, Hangs
<1>7. /\ l \in Nat /\ Agree(e, r, l)
      /\ l < Len(e) /\ l < Len(r) => e[l + 1] # r[l + 1]
  BY <1>3, <1>6, LongestCommon DEF Common, c, r
<1> HIDE DEF l
<1>8. l # 0
  <2>1. Len(e) > 0 /\ Len(r) > 0 /\ Head(e) = e[1] /\ Head(r) = r[1]
    BY <1>3, <1>6
  <2> QED BY <1>5, <1>6, <1>7, <2>1
<1>9. l <= Len(e) /\ l <= Len(ids) - k /\ \A i \in 1 .. l : e[i] = ids[k + i]
  BY <1>3, <1>7 DEF Agree
<1>10. Spells(a, ids, c, k + l)
  <2>1. PICK p \in Seq(Token) : p = PrefixOf(a, n) /\ Len(p) = k
    BY <1>1, PrefixSteps
  <2>2. PrefixOf(a, c) = p \o e
    BY <1>5, <1>6, <2>1, PrefixSteps
  <2>3. PICK q \in Seq(Token) : q = p \o e
    BY Joined
  <2>4. /\ \A i \in 1 .. k : q[i] = p[i]
        /\ \A i \in 1 .. Len(e) : q[k + i] = e[i]
    BY <2>1, <2>3, Joined
  <2>5. Len(ids) \in Nat /\ Len(e) \in Nat
    OBVIOUS
  <2>6. ASSUME NEW i \in 1 .. k + l PROVE q[i] = ids[i]
    <3>1. CASE i <= k
      <4>1. i \in 1 .. k
        BY <3>1
      <4> QED BY <1>2, <2>1, <2>4, <4>1
    <3>2. CASE i > k
      <4>1. i - k \in 1 .. l /\ i - k \in 1 .. Len(e) /\ k + (i - k) = i
        BY <1>7, <1>9, <2>5, <3>2
      <4> QED BY <1>9, <2>4, <4>1
    <3> QED BY <3>1, <3>2
  <2>7. k + l <= Len(ids)
    BY <1>7, <1>9, <2>5
  <2> QED BY <2>2, <2>3, <2>6, <2>7 DEF Spells
<1>11. l < Len(e) /\ k + l < Len(ids) => ids[k + l + 1] # e[l + 1]
  <2> SUFFICES ASSUME l < Len(e), k + l < Len(ids) PROVE ids[k + l + 1] # e[l + 1]
    OBVIOUS
  <2>1. l < Len(r) /\ l + 1 \in 1 .. Len(ids) - k /\ k + (l + 1) = k + l + 1
    BY <1>3, <1>7
  <2> QED BY <1>3, <1>7, <2>1
<1> QED BY <1>1, <1>5, <1>6, <1>7, <1>8, <1>9, <1>10, <1>11 DEF c, l

LEMMA WalkEndsWell ==
  ASSUME NEW a, Shape(a), NEW ids \in Seq(Token)
  PROVE  EndsWell(a, ids, WalkEnd(a, ids))
<1>1. PICK w : Walks(w, a, ids) /\ w[ROOT] = WalkEnd(a, ids)
  BY WalkExists
<1>2. Typed(a) /\ ROOT \in DOMAIN a /\ a[ROOT].length = 0
  BY DEF Shape, Typed
<1> DEFINE Good == {n \in DOMAIN a : Spells(a, ids, n, a[n].length) => EndsWell(a, ids, w[n])}
<1>3. ASSUME NEW n \in Ending(a, ids) PROVE n \in Good
  <2> SUFFICES ASSUME Spells(a, ids, n, a[n].length) PROVE EndsWell(a, ids, w[n])
    BY DEF Ending
  <2>0. n \in DOMAIN a /\ (Stays(a, ids, n) \/ Within(a, ids, n))
    BY DEF Ending
  <2>1. CASE Stays(a, ids, n)
    <3>1. w[n] = [at |-> n, cut |-> 0]
      BY <1>1, <2>0, <2>1 DEF Walks
    <3>2. a[n].length <= Len(ids)
      BY DEF Spells
    <3>3. a[n].length < Len(ids) => ids[a[n].length + 1] \notin DOMAIN a[n].children
      <4> SUFFICES ASSUME a[n].length < Len(ids) PROVE ids[a[n].length + 1] \notin DOMAIN a[n].children
        OBVIOUS
      <4>1. a[n].length # Len(ids)
        BY <1>2, <2>0, NodeFields
      <4> QED BY <2>0, <2>1, <3>2, <4>1, RestFacts DEF Stays
    <3> QED BY <2>0, <3>1, <3>3 DEF EndsWell
  <2>2. CASE ~Stays(a, ids, n)
    <3>1. w[n] = [at |-> Onward(a, ids, n), cut |-> Common(a, ids, n)]
      BY <1>1, <2>0, <2>2 DEF Walks
    <3>2. PICK c, l : c = Onward(a, ids, n) /\ l = Common(a, ids, n)
      OBVIOUS
    <3>3. /\ c \in DOMAIN a \ {ROOT} /\ a[c].parent = n
          /\ l \in Nat \ {0}
          /\ Spells(a, ids, c, a[n].length + l)
          /\ l < Len(a[c].edge) /\ a[n].length + l < Len(ids) =>
               ids[a[n].length + l + 1] # a[c].edge[l + 1]
      BY <2>0, <2>2, <3>2, OnwardFacts
    <3>4. l < Len(a[c].edge)
      BY <2>0, <2>2, <3>2 DEF Within
    <3>5. w[n].at = c /\ w[n].cut = l
      BY <3>1, <3>2
    <3> QED BY <3>3, <3>4, <3>5 DEF EndsWell
  <2> QED BY <2>1, <2>2
<1>4. ASSUME NEW n \in DOMAIN a \ Ending(a, ids), Onwards(a, ids)[n] \in Good PROVE n \in Good
  <2> SUFFICES ASSUME Spells(a, ids, n, a[n].length) PROVE EndsWell(a, ids, w[n])
    OBVIOUS
  <2>1. ~Stays(a, ids, n) /\ ~Within(a, ids, n)
    BY DEF Ending
  <2>2. PICK c, l : c = Onward(a, ids, n) /\ l = Common(a, ids, n)
    OBVIOUS
  <2>3. w[n] = w[c]
    BY <1>1, <2>1, <2>2 DEF Walks
  <2>4. /\ c \in DOMAIN a \ {ROOT} /\ a[c].parent = n
        /\ l \in Nat \ {0} /\ l <= Len(a[c].edge)
        /\ Spells(a, ids, c, a[n].length + l)
    BY <2>1, <2>2, OnwardFacts
  <2>5. l = Len(a[c].edge)
    <3>1. ~(l < Len(a[c].edge)) /\ a[c].edge \in Seq(Token)
      BY <1>2, <2>1, <2>2, <2>4, NodeFields DEF Within
    <3> QED BY <2>4, <3>1
  <2>6. a[c].length = a[n].length + l
    BY <2>4, <2>5 DEF Shape, Hangs
  <2>7. c \in Good
    BY <1>4, <2>2 DEF Onwards
  <2> QED BY <2>3, <2>4, <2>6, <2>7
<1>5. DOMAIN a \subseteq Good
  <2>1. PICK top \in Nat : \A n \in DOMAIN a : a[n].length < top
    BY <1>2, LengthsBounded
  <2>2. PICK left : Descends(DOMAIN a, Ending(a, ids), Onwards(a, ids), left)
    BY <2>1, WalkDescends
  <2>3. Ending(a, ids) \subseteq Good
    BY <1>3
  <2> HIDE DEF Good
  <2> QED BY <1>4, <2>2, <2>3, HoldsEverywhere
<1>6. Spells(a, ids, ROOT, a[ROOT].length)
  BY <1>2 DEF Spells
<1> QED BY <1>1, <1>2, <1>5, <1>6

-----------------------------------------------------------------------------
(* Changes of the tree                                                      *)

LEMMA MinOf ==
  ASSUME NEW S \in SUBSET Nat, S # {}
  PROVE  Min(S) \in S /\ \A k \in S : Min(S) <= k
<1>1. \E m \in S : \A k \in S : m <= k
  BY LeastOf
<1> QED BY <1>1 DEF Min

LEMMA NewIdIsNew ==
  ASSUME NEW a, Typed(a)
  PROVE  NewId(a) \in Nat \ DOMAIN a
<1> DEFINE N == Cardinality(DOMAIN a)
           S == 0 .. N \ DOMAIN a
<1>1. IsFiniteSet(DOMAIN a) /\ N \in Nat
  BY FS_CardinalityType DEF Typed
<1>2. S # {}
  <2> SUFFICES ASSUME 0 .. N \subseteq DOMAIN a PROVE FALSE
    OBVIOUS
  <2>1. Cardinality(0 .. N) <= N
    BY <1>1, FS_Subset
  <2>2. Cardinality(0 .. N) = N + 1
    <3> HIDE DEF N
    <3>1. 0 \in Int /\ N \in Int /\ ~(0 > N) /\ N - 0 + 1 = N + 1
      BY <1>1
    <3> QED BY <3>1, FS_Interval
  <2> HIDE DEF N
  <2> QED BY <1>1, <2>1, <2>2
<1>3. S \in SUBSET Nat
  BY <1>1
<1>4. Min(S) \in S
  <2> HIDE DEF S
  <2> QED BY <1>2, <1>3, MinOf
<1>5. NewId(a) = Min(S)
  BY DEF NewId
<1> HIDE DEF N
<1> QED BY <1>1, <1>4, <1>5

LEMMA CutAndJoin ==
  ASSUME NEW S, NEW s \in Seq(S), NEW t \in Seq(S), NEW l \in Nat, Agree(s, t, l)
  PROVE  SubSeq(s, 1, l) \o SubSeq(t, l + 1, Len(t)) = t
<1>1. l <= Len(s) /\ l <= Len(t) /\ Len(t) \in Nat /\ \A i \in 1 .. l : s[i] = t[i]
  BY DEF Agree
<1>2. /\ SubSeq(s, 1, l) \in Seq(S) /\ Len(SubSeq(s, 1, l)) = l
      /\ \A i \in 1 .. l : SubSeq(s, 1, l)[i] = s[i]
  BY <1>1, CutSequence
<1>3. /\ SubSeq(t, l + 1, Len(t)) \in Seq(S) /\ Len(SubSeq(t, l + 1, Len(t))) = Len(t) - l
      /\ \A i \in 1 .. Len(t) - l : SubSeq(t, l + 1, Len(t))[i] = t[l + i]
  BY <1>1, RestOfSequence
<1>4. PICK q \in Seq(S) : q = SubSeq(s, 1, l)
  BY <1>2
<1>5. PICK r \in Seq(S) : r = SubSeq(t, l + 1, Len(t))
  BY <1>3
<1>6. /\ Len(q) = l /\ \A i \in 1 .. l : q[i] = s[i]
      /\ Len(r) = Len(t) - l /\ \A i \in 1 .. Len(t) - l : r[i] = t[l + i]
  BY <1>2, <1>3, <1>4, <1>5
<1> HIDE <1>4, <1>5
<1>7. PICK w \in Seq(S) : w = q \o r
  BY Joined
<1>8. /\ Len(w) = Len(q) + Len(r)
      /\ \A i \in 1 .. Len(q) : w[i] = q[i]
      /\ \A i \in 1 .. Len(r) : w[Len(q) + i] = r[i]
  BY <1>7, Joined
<1> HIDE <1>7
<1>9. Len(w) = Len(t)
  BY <1>1, <1>6, <1>8
<1>10. ASSUME NEW i \in 1 .. Len(t) PROVE w[i] = t[i]
  <2>1. CASE i <= l
    <3>1. i \in 1 .. l
      BY <1>1, <2>1
    <3> QED BY <1>1, <1>6, <1>8, <3>1
  <2>2. CASE i > l
    <3>1. i - l \in 1 .. Len(t) - l /\ l + (i - l) = i
      BY <1>1, <2>2
    <3> QED BY <1>6, <1>8, <3>1
  <2> QED BY <1>1, <2>1, <2>2
<1>11. w = t
  BY ONLY w \in Seq(S), t \in Seq(S), <1>9, <1>10, SeqEqual
<1> QED BY <1>4, <1>5, <1>7, <1>11

(* page_delta gives back the child's table.                                 *)
LEMMA PageDeltaFacts ==
  ASSUME NEW s \in Seq(Page), NEW t \in Seq(Page)
  PROVE  LET d == PageDelta(s, t)
         IN  /\ d \in [retain : Nat, pages : Seq(Page)]
             /\ d.retain <= Len(s) /\ d.retain + Len(d.pages) = Len(t)
             /\ Table(s, d) = t
<1> DEFINE l == Len(LongestCommonPrefix({s, t}))
           d == PageDelta(s, t)
<1>1. l \in Nat /\ Agree(s, t, l)
  BY LongestCommon
<1>2. d = [retain |-> l, pages |-> SubSeq(t, l + 1, Len(t))]
  BY DEF PageDelta
<1> HIDE DEF l, d
<1>3. d.retain = l /\ d.pages = SubSeq(t, l + 1, Len(t))
  BY <1>2
<1>4. l <= Len(s) /\ l <= Len(t) /\ Len(t) \in Nat
  BY <1>1 DEF Agree
<1>5. SubSeq(t, l + 1, Len(t)) \in Seq(Page) /\ Len(SubSeq(t, l + 1, Len(t))) = Len(t) - l
  BY <1>1, <1>4, RestOfSequence
<1>6. Table(s, d) = t
  BY <1>1, <1>3, CutAndJoin DEF Table
<1>7. d.retain + Len(d.pages) = Len(t)
  BY <1>1, <1>3, <1>4, <1>5
<1>8. d \in [retain : Nat, pages : Seq(Page)]
  BY <1>1, <1>2, <1>5
<1> QED BY <1>3, <1>4, <1>6, <1>7, <1>8 DEF d

LEMMA PutFacts ==
  ASSUME NEW f, NEW k, NEW x
  PROVE  /\ DOMAIN Put(f, k, x) = DOMAIN f \cup {k}
         /\ Put(f, k, x)[k] = x
         /\ \A t \in DOMAIN f : t # k => Put(f, k, x)[t] = f[t]
BY DEF Put

ChildMaps == UNION {[S -> Nat] : S \in SUBSET Token}

LEMMA PutChild ==
  ASSUME NEW f, DOMAIN f \subseteq Token, \A t \in DOMAIN f : f[t] \in Nat,
         NEW k \in Token, NEW x \in Nat
  PROVE  Put(f, k, x) \in ChildMaps
<1> DEFINE S == DOMAIN f \cup {k}
<1>1. Put(f, k, x) \in [S -> Nat] /\ S \in SUBSET Token
  BY DEF Put
<1> HIDE DEF S
<1> QED BY <1>1 DEF ChildMaps

(* Nothing above a node is longer.                                          *)
LEMMA PathLengths ==
  ASSUME NEW a, Shape(a)
  PROVE  \A n \in DOMAIN a : \A q \in Path(a, n) : a[q].length <= a[n].length
<1> DEFINE Good == {n \in DOMAIN a : \A q \in Path(a, n) : a[q].length <= a[n].length}
<1>1. Typed(a) /\ ROOT \in DOMAIN a
  BY DEF Shape, Typed
<1>2. ROOT \in Good
  BY <1>1, PathSteps
<1>3. ASSUME NEW n \in DOMAIN a \ {ROOT}, a[n].parent \in Good PROVE n \in Good
  <2>1. a[n].parent \in DOMAIN a /\ a[n].length = a[a[n].parent].length + Len(a[n].edge)
    BY DEF Shape, Hangs
  <2>2. a[n].length \in Nat /\ a[a[n].parent].length \in Nat /\ Len(a[n].edge) \in Nat
    BY <1>1, <2>1, NodeFields
  <2>3. a[a[n].parent].length <= a[n].length
    BY <2>1, <2>2
  <2>4. Path(a, n) = {n} \cup Path(a, a[n].parent) /\ Path(a, a[n].parent) \subseteq DOMAIN a
    BY <2>1, PathSteps
  <2>5. ASSUME NEW q \in Path(a, a[n].parent) PROVE a[q].length <= a[n].length
    <3>1. a[q].length <= a[a[n].parent].length /\ a[q].length \in Nat
      BY <1>1, <1>3, <2>4, NodeFields
    <3> QED BY <2>2, <2>3, <3>1
  <2> QED BY <2>2, <2>4, <2>5
<1>4. DOMAIN a \subseteq Good
  <2> HIDE DEF Good
  <2> QED BY <1>2, <1>3, UpwardsHolds
<1> QED BY <1>4

(* What a split of a node leaves: a new node between it and its parent.     *)
IsSplit(b, a, id, cut) ==
  LET new    == NewId(a)
      node   == a[id]
      p      == node.parent
      length == a[p].length + cut
      below  == PageTableOf(a, id)
      pages  == SubSeq(below, 1, PagesFor(length))
  IN  /\ new \in Nat \ DOMAIN a /\ new # ROOT
      /\ p \in DOMAIN a /\ p # id
      /\ DOMAIN b = DOMAIN a \cup {new} /\ b = [n \in DOMAIN b |-> b[n]]
      /\ b[new] = [node EXCEPT !.edge = SubSeq(node.edge, 1, cut), !.length = length,
                               !.delta = PageDelta(PageTableOf(a, p), pages),
                               !.children = Put(<<>>, node.edge[cut + 1], id)]
      /\ b[id] = [node EXCEPT !.parent = new,
                              !.edge = SubSeq(node.edge, cut + 1, Len(node.edge)),
                              !.delta = PageDelta(pages, below)]
      /\ b[p] = [a[p] EXCEPT !.children = Put(a[p].children, Head(node.edge), new)]
      /\ \A n \in DOMAIN a \ {id, p} : b[n] = a[n]

LEMMA ParentOf ==
  ASSUME NEW a, Shape(a), NEW n \in DOMAIN a \ {ROOT}
  PROVE  /\ a[n].parent \in DOMAIN a /\ a[n].parent # n
         /\ a[n].edge \in Seq(Token) /\ Len(a[n].edge) \in Nat \ {0}
         /\ Head(a[n].edge) = a[n].edge[1] /\ a[n].edge[1] \in Token
         /\ a[n].length \in Nat /\ a[a[n].parent].length \in Nat
         /\ a[n].length = a[a[n].parent].length + Len(a[n].edge)
<1>1. /\ a[n].parent \in DOMAIN a /\ a[n].edge # <<>>
      /\ a[n].length = a[a[n].parent].length + Len(a[n].edge)
  BY DEF Shape, Hangs
<1>2. a[n].edge \in Seq(Token) /\ a[n].length \in Nat /\ a[a[n].parent].length \in Nat
  BY <1>1, NodeFields DEF Shape
<1>3. PICK e \in Seq(Token) : e = a[n].edge
  BY <1>2
<1>4. Len(e) \in Nat \ {0} /\ Head(e) = e[1] /\ e[1] \in Token
  BY <1>1, <1>3
<1>5. a[n].parent # n
  BY <1>1, <1>2, <1>3, <1>4
<1> QED BY <1>1, <1>2, <1>3, <1>4, <1>5

LEMMA SplitIs ==
  ASSUME NEW a, Shape(a), NEW id \in DOMAIN a \ {ROOT}, NEW cut
  PROVE  IsSplit(SplitNode(a, id, cut), a, id, cut)
<1> DEFINE new    == NewId(a)
           node   == a[id]
           p      == node.parent
           length == a[p].length + cut
           below  == PageTableOf(a, id)
           pages  == SubSeq(below, 1, PagesFor(length))
           upper  == [node EXCEPT !.edge = SubSeq(node.edge, 1, cut), !.length = length,
                                  !.delta = PageDelta(PageTableOf(a, p), pages),
                                  !.children = Put(<<>>, node.edge[cut + 1], id)]
           lower  == [node EXCEPT !.parent = new,
                                  !.edge = SubSeq(node.edge, cut + 1, Len(node.edge)),
                                  !.delta = PageDelta(pages, below)]
           x      == Put(a, new, upper)
           y      == [x EXCEPT ![id] = lower]
           b      == [y EXCEPT ![p].children = Put(@, Head(node.edge), new)]
<1>1. Typed(a) /\ ROOT \in DOMAIN a
  BY DEF Shape, Typed
<1>2. new \in Nat \ DOMAIN a /\ new # ROOT
  BY <1>1, NewIdIsNew
<1>3. p \in DOMAIN a /\ p # id
  BY ParentOf
<1>4. SplitNode(a, id, cut) = b
  BY DEF SplitNode, SetChild, InsertNode
<1> HIDE DEF new, length, pages, below, upper, lower
<1>5. /\ DOMAIN x = DOMAIN a \cup {new} /\ x[new] = upper
      /\ \A n \in DOMAIN a : x[n] = a[n]
  BY <1>2 DEF Put
<1> HIDE DEF x
<1>6. /\ DOMAIN y = DOMAIN a \cup {new} /\ y[new] = upper /\ y[id] = lower
      /\ \A n \in DOMAIN a \ {id} : y[n] = a[n]
  BY <1>2, <1>5
<1> HIDE DEF y
<1>7. DOMAIN b = DOMAIN a \cup {new} /\ b = [n \in DOMAIN b |-> b[n]]
  BY <1>6
<1>8. b[p] = [y[p] EXCEPT !.children = Put(@, Head(node.edge), new)]
  BY <1>3, <1>6
<1>9. y[p] = a[p]
  BY <1>3, <1>6
<1>10. b[p] = [a[p] EXCEPT !.children = Put(a[p].children, Head(node.edge), new)]
  BY <1>8, <1>9
<1>11. \A n \in DOMAIN a \cup {new} : n # p => b[n] = y[n]
  BY <1>6
<1>12. b[new] = upper /\ b[id] = lower /\ \A n \in DOMAIN a \ {id, p} : b[n] = a[n]
  BY <1>2, <1>3, <1>6, <1>11
<1> HIDE DEF b
<1> QED BY <1>2, <1>3, <1>4, <1>7, <1>10, <1>12 DEF IsSplit, new, length, pages, below, upper, lower

(* The same, field by field.                                                *)
SplitFields(b, a, id, cut) ==
  LET new    == NewId(a)
      node   == a[id]
      p      == node.parent
      length == a[p].length + cut
      below  == PageTableOf(a, id)
      pages  == SubSeq(below, 1, PagesFor(length))
  IN  /\ new \in Nat \ DOMAIN a /\ new # ROOT
      /\ p \in DOMAIN a /\ p # id
      /\ DOMAIN b = DOMAIN a \cup {new} /\ b = [n \in DOMAIN b |-> b[n]]
      /\ \A n \in DOMAIN a :
           /\ b[n] \in Node
           /\ b[n].length = a[n].length /\ b[n].lock = a[n].lock /\ b[n].access = a[n].access
           /\ n # id => b[n].parent = a[n].parent /\ b[n].edge = a[n].edge /\ b[n].delta = a[n].delta
           /\ n # p => b[n].children = a[n].children
      /\ b[p].children = Put(a[p].children, Head(node.edge), new)
      /\ b[id].parent = new /\ b[id].edge = SubSeq(node.edge, cut + 1, Len(node.edge))
      /\ b[id].delta = PageDelta(pages, below)
      /\ b[new] \in Node
      /\ b[new].parent = p /\ b[new].edge = SubSeq(node.edge, 1, cut)
      /\ b[new].length = length
      /\ b[new].delta = PageDelta(PageTableOf(a, p), pages)
      /\ b[new].children = Put(<<>>, node.edge[cut + 1], id)
      /\ b[new].lock = node.lock /\ b[new].access = node.access
      /\ pages \in Seq(Page) /\ Len(pages) = PagesFor(length)
      /\ length \in Nat /\ length <= node.length

LEMMA SplitHasFields ==
  ASSUME NEW a, Shape(a), NEW id \in DOMAIN a \ {ROOT}, NEW b,
         NEW cut \in Nat \ {0}, cut < Len(a[id].edge), IsSplit(b, a, id, cut)
  PROVE  SplitFields(b, a, id, cut)
<1> DEFINE new    == NewId(a)
           node   == a[id]
           p      == node.parent
           length == a[p].length + cut
           below  == PageTableOf(a, id)
           pages  == SubSeq(below, 1, PagesFor(length))
<1>1. Typed(a)
  BY DEF Shape
<1>2. /\ new \in Nat \ DOMAIN a /\ new # ROOT /\ p \in DOMAIN a /\ p # id
      /\ DOMAIN b = DOMAIN a \cup {new} /\ b = [n \in DOMAIN b |-> b[n]]
  BY DEF IsSplit
<1>3. /\ node.edge \in Seq(Token) /\ Len(node.edge) \in Nat \ {0} /\ Head(node.edge) \in Token
      /\ node.length \in Nat /\ a[p].length \in Nat
      /\ node.length = a[p].length + Len(node.edge)
  BY ParentOf
<1>4. length \in Nat /\ length <= node.length
  BY <1>3
<1>5. below \in Seq(Page) /\ Len(below) = PagesFor(node.length) /\ PageTableOf(a, p) \in Seq(Page)
  BY <1>2, TableSteps
<1>6. PagesFor(length) \in Nat /\ PagesFor(length) <= PagesFor(node.length)
  BY <1>3, <1>4, PagesForFacts
<1>7. pages \in Seq(Page) /\ Len(pages) = PagesFor(length)
  <2> HIDE DEF length, below
  <2> QED BY <1>5, <1>6, CutSequence
<1>8. /\ PageDelta(PageTableOf(a, p), pages) \in [retain : Nat, pages : Seq(Page)]
      /\ PageDelta(pages, below) \in [retain : Nat, pages : Seq(Page)]
  <2> HIDE DEF pages, below
  <2> QED BY <1>5, <1>7, PageDeltaFacts
<1>9. /\ SubSeq(node.edge, 1, cut) \in Seq(Token)
      /\ SubSeq(node.edge, cut + 1, Len(node.edge)) \in Seq(Token)
      /\ node.edge[cut + 1] \in Token
  <2>1. PICK e \in Seq(Token) : e = node.edge
    BY <1>3
  <2>2. cut <= Len(e) /\ cut + 1 \in 1 .. Len(e)
    BY <1>3, <2>1
  <2>3. SubSeq(e, 1, cut) \in Seq(Token)
    BY <2>2, CutSequence
  <2>4. SubSeq(e, cut + 1, Len(e)) \in Seq(Token)
    BY <2>2, RestOfSequence
  <2>5. e[cut + 1] \in Token
    BY <2>2
  <2> QED BY <2>1, <2>3, <2>4, <2>5
<1>10. id \in Nat /\ node \in Node /\ a[p] \in Node
       /\ DOMAIN a[p].children \subseteq Token /\ \A t \in DOMAIN a[p].children : a[p].children[t] \in Nat
  BY <1>1, <1>2, NodeFields
<1>11. /\ Put(<<>>, node.edge[cut + 1], id) \in ChildMaps
       /\ Put(a[p].children, Head(node.edge), new) \in ChildMaps
  <2>1. DOMAIN <<>> \subseteq Token /\ \A t \in DOMAIN <<>> : <<>>[t] \in Nat
    OBVIOUS
  <2>2. Put(<<>>, node.edge[cut + 1], id) \in ChildMaps
    BY <1>9, <1>10, <2>1, PutChild
  <2>3. new \in Nat /\ Head(node.edge) \in Token
    BY <1>2, <1>3
  <2>4. Put(a[p].children, Head(node.edge), new) \in ChildMaps
    <3> HIDE DEF new, node, p
    <3> QED BY <1>10, <2>3, PutChild
  <2> QED BY <2>2, <2>4
<1> DEFINE dn == PageDelta(PageTableOf(a, p), pages)
           di == PageDelta(pages, below)
           en == SubSeq(node.edge, 1, cut)
           ei == SubSeq(node.edge, cut + 1, Len(node.edge))
           cn == Put(<<>>, node.edge[cut + 1], id)
           cp == Put(a[p].children, Head(node.edge), new)
<1>12. /\ b[new] = [node EXCEPT !.edge = en, !.length = length, !.delta = dn, !.children = cn]
       /\ b[id] = [node EXCEPT !.parent = new, !.edge = ei, !.delta = di]
       /\ b[p] = [a[p] EXCEPT !.children = cp]
       /\ \A n \in DOMAIN a \ {id, p} : b[n] = a[n]
  BY DEF IsSplit
<1> HIDE DEF new, dn, di, en, ei, cn, cp, pages, below, length
<1>13. /\ b[new] \in Node /\ b[new].parent = p /\ b[new].edge = en /\ b[new].length = length
       /\ b[new].delta = dn /\ b[new].children = cn
       /\ b[new].lock = node.lock /\ b[new].access = node.access
  <2>1. en \in Seq(Token) /\ dn \in [retain : Nat, pages : Seq(Page)]
        /\ cn \in UNION {[S -> Nat] : S \in SUBSET Token}
    BY <1>8, <1>9, <1>11 DEF ChildMaps, dn, en, cn
  <2>2. b[new] = [node EXCEPT !.edge = en, !.length = length, !.delta = dn, !.children = cn]
    BY <1>12
  <2> HIDE DEF node
  <2> QED BY <1>4, <1>10, <2>1, <2>2, ZenonT(40) DEF Node
<1>14. /\ b[id] \in Node /\ b[id].parent = new /\ b[id].edge = ei /\ b[id].length = node.length
       /\ b[id].delta = di /\ b[id].children = node.children
       /\ b[id].lock = node.lock /\ b[id].access = node.access
  BY <1>2, <1>8, <1>9, <1>10, <1>11, <1>12, ZenonT(40) DEF Node, di, ei
<1>15. /\ b[p] \in Node /\ b[p].parent = a[p].parent /\ b[p].edge = a[p].edge
       /\ b[p].length = a[p].length
       /\ b[p].delta = a[p].delta /\ b[p].children = cp
       /\ b[p].lock = a[p].lock /\ b[p].access = a[p].access
  BY <1>10, <1>11, <1>12 DEF Node, ChildMaps, cp
<1>16. \A n \in DOMAIN a \ {id, p} : b[n] = a[n] /\ b[n] \in Node
  BY <1>1, <1>12, NodeFields
<1>17. ASSUME NEW n \in DOMAIN a
       PROVE  /\ b[n] \in Node
              /\ b[n].length = a[n].length /\ b[n].lock = a[n].lock /\ b[n].access = a[n].access
              /\ n # id => b[n].parent = a[n].parent /\ b[n].edge = a[n].edge /\ b[n].delta = a[n].delta
              /\ n # p => b[n].children = a[n].children
  <2>1. CASE n = id
    BY <1>14, <2>1
  <2>2. CASE n = p
    BY <1>2, <1>15, <2>2
  <2>3. CASE n \notin {id, p}
    BY <1>16, <2>3
  <2> QED BY <2>1, <2>2, <2>3
<1> QED
  BY <1>2, <1>4, <1>7, <1>13, <1>14, <1>15, <1>17
  DEF SplitFields, new, dn, di, en, ei, cn, cp, pages, below, length

LEMMA EdgeHalves ==
  ASSUME NEW e \in Seq(Token), NEW cut \in Nat \ {0}, cut < Len(e)
  PROVE  /\ SubSeq(e, 1, cut) \in Seq(Token) /\ SubSeq(e, cut + 1, Len(e)) \in Seq(Token)
         /\ SubSeq(e, 1, cut) # <<>> /\ SubSeq(e, cut + 1, Len(e)) # <<>>
         /\ Len(SubSeq(e, 1, cut)) = cut /\ Len(SubSeq(e, cut + 1, Len(e))) = Len(e) - cut
         /\ Head(SubSeq(e, 1, cut)) = Head(e)
         /\ Head(SubSeq(e, cut + 1, Len(e))) = e[cut + 1]
         /\ SubSeq(e, 1, cut) \o SubSeq(e, cut + 1, Len(e)) = e
<1>1. /\ SubSeq(e, 1, cut) \in Seq(Token) /\ Len(SubSeq(e, 1, cut)) = cut
      /\ \A i \in 1 .. cut : SubSeq(e, 1, cut)[i] = e[i]
  BY CutSequence
<1>2. /\ SubSeq(e, cut + 1, Len(e)) \in Seq(Token)
      /\ Len(SubSeq(e, cut + 1, Len(e))) = Len(e) - cut
      /\ \A i \in 1 .. Len(e) - cut : SubSeq(e, cut + 1, Len(e))[i] = e[cut + i]
  BY RestOfSequence
<1>3. PICK q \in Seq(Token) : q = SubSeq(e, 1, cut)
  BY <1>1
<1>4. PICK r \in Seq(Token) : r = SubSeq(e, cut + 1, Len(e))
  BY <1>2
<1>5. /\ Len(q) = cut /\ q[1] = e[1] /\ Len(r) = Len(e) - cut /\ r[1] = e[cut + 1]
  BY <1>1, <1>2, <1>3, <1>4
<1>6. q # <<>> /\ r # <<>> /\ Head(q) = q[1] /\ Head(r) = r[1] /\ Head(e) = e[1]
  <2> HIDE <1>3, <1>4
  <2> QED BY <1>5
<1>7. SubSeq(e, 1, cut) \o SubSeq(e, cut + 1, Len(e)) = e
  <2>1. Agree(e, e, cut)
    BY DEF Agree
  <2> QED BY <2>1, CutAndJoin
<1> QED BY <1>1, <1>2, <1>3, <1>4, <1>5, <1>6, <1>7

LEMMA SplitKeepsShape ==
  ASSUME NEW a, Shape(a), NEW id \in DOMAIN a \ {ROOT}, NEW b,
         NEW cut \in Nat \ {0}, cut < Len(a[id].edge), IsSplit(b, a, id, cut)
  PROVE  Shape(b)
<1> DEFINE new    == NewId(a)
           node   == a[id]
           p      == node.parent
           length == a[p].length + cut
           below  == PageTableOf(a, id)
           pages  == SubSeq(below, 1, PagesFor(length))
           above  == PageTableOf(a, p)
           e      == node.edge
           key    == e[cut + 1]
           en     == SubSeq(e, 1, cut)
           ei     == SubSeq(e, cut + 1, Len(e))
<1>0. b = [n \in DOMAIN b |-> b[n]]
  BY DEF IsSplit
<1>1. SplitFields(b, a, id, cut)
  BY SplitHasFields
<1>2. /\ new \in Nat \ DOMAIN a /\ new # ROOT
      /\ p \in DOMAIN a /\ p # id
      /\ DOMAIN b = DOMAIN a \cup {new}
      /\ \A n \in DOMAIN a :
           /\ b[n] \in Node
           /\ b[n].length = a[n].length /\ b[n].lock = a[n].lock /\ b[n].access = a[n].access
           /\ n # id => b[n].parent = a[n].parent /\ b[n].edge = a[n].edge /\ b[n].delta = a[n].delta
           /\ n # p => b[n].children = a[n].children
      /\ b[p].children = Put(a[p].children, Head(e), new)
      /\ b[id].parent = new /\ b[id].edge = ei /\ b[id].delta = PageDelta(pages, below)
      /\ b[new] \in Node
      /\ b[new].parent = p /\ b[new].edge = en /\ b[new].length = length
      /\ b[new].delta = PageDelta(above, pages)
      /\ b[new].children = Put(<<>>, key, id)
      /\ pages \in Seq(Page) /\ Len(pages) = PagesFor(length)
      /\ length \in Nat /\ length <= node.length
  BY <1>1 DEF SplitFields
<1>3. /\ Typed(a) /\ ROOT \in DOMAIN a /\ a[ROOT].length = 0 /\ IsFiniteSet(DOMAIN a)
      /\ DOMAIN a \subseteq Nat
  BY DEF Shape, Typed
<1>4. /\ e \in Seq(Token) /\ Len(e) \in Nat
      /\ node.length \in Nat /\ a[p].length \in Nat /\ node.length = a[p].length + Len(e)
      /\ Head(e) = e[1]
  BY ParentOf
<1>5. /\ en # <<>> /\ ei # <<>> /\ Len(en) = cut /\ Len(ei) = Len(e) - cut
      /\ Head(en) = Head(e) /\ Head(ei) = key
  BY <1>4, EdgeHalves
<1>6. /\ below \in Seq(Page) /\ Len(below) = PagesFor(node.length)
      /\ above \in Seq(Page) /\ Len(above) = PagesFor(a[p].length)
  BY <1>2, TableSteps
<1>7. /\ PageDelta(above, pages).retain <= PagesFor(a[p].length)
      /\ PageDelta(above, pages).retain + Len(PageDelta(above, pages).pages) = PagesFor(length)
      /\ PageDelta(pages, below).retain <= PagesFor(length)
      /\ PageDelta(pages, below).retain + Len(PageDelta(pages, below).pages) = PagesFor(node.length)
  <2> HIDE DEF below, pages, above, length
  <2> QED BY <1>2, <1>6, PageDeltaFacts, SMTT(20)
<1>8. id \in DOMAIN a /\ id # ROOT
      /\ Head(e) \in DOMAIN a[p].children /\ a[p].children[Head(e)] = id
  BY DEF Shape, Hangs
<1> HIDE DEF new, below, pages, above, key, en, ei, length
<1>9. Typed(b)
  <2>1. IsFiniteSet(DOMAIN b)
    BY <1>2, <1>3, FS_AddElement
  <2>2. \A n \in DOMAIN b : b[n] \in Node
    BY <1>2
  <2>3. b \in [DOMAIN b -> Node]
    BY <1>0, <2>2
  <2> QED BY <1>2, <1>3, <2>1, <2>3 DEF Typed
<1>10. Hangs(b, new)
  <2>1. length = b[p].length + Len(en)
    BY <1>2, <1>5 DEF length
  <2>2. Head(e) \in DOMAIN b[p].children /\ b[p].children[Head(e)] = new
    <3>1. b[p].children = Put(a[p].children, Head(e), new)
      BY <1>2
    <3> QED BY <3>1 DEF Put
  <2>3. b[p].length = a[p].length /\ p \in DOMAIN b
    BY <1>2
  <2> HIDE DEF p, e, node
  <2> QED BY <1>2, <1>5, <1>7, <2>1, <2>2, <2>3 DEF Hangs
<1>11. Hangs(b, id)
  <2>1. node.length = length + Len(ei)
    BY <1>4, <1>5, SMTT(20) DEF length
  <2>2. key \in DOMAIN b[new].children /\ b[new].children[key] = id
    <3>1. b[new].children = Put(<<>>, key, id)
      BY <1>2
    <3> QED BY <3>1 DEF Put
  <2>3. b[id].length = node.length /\ new \in DOMAIN b
    BY <1>2
  <2> HIDE DEF p, e, node
  <2> QED BY <1>2, <1>5, <1>7, <2>1, <2>2, <2>3 DEF Hangs
<1>12. ASSUME NEW n \in DOMAIN a \ {ROOT, id} PROVE Hangs(b, n)
  <2> DEFINE q == a[n].parent
  <2>1. /\ q \in DOMAIN a /\ a[n].edge # <<>> /\ a[n].length = a[q].length + Len(a[n].edge)
        /\ Head(a[n].edge) \in DOMAIN a[q].children /\ a[q].children[Head(a[n].edge)] = n
        /\ a[n].delta.retain <= PagesFor(a[q].length)
        /\ a[n].delta.retain + Len(a[n].delta.pages) = PagesFor(a[n].length)
    BY DEF Shape, Hangs
  <2>2. /\ b[n].parent = q /\ b[n].edge = a[n].edge /\ b[n].length = a[n].length
        /\ b[n].delta = a[n].delta /\ b[q].length = a[q].length /\ q \in DOMAIN b
    BY <1>2, <2>1
  <2>3. Head(a[n].edge) \in DOMAIN b[q].children /\ b[q].children[Head(a[n].edge)] = n
    <3>1. CASE q # p
      <4>1. b[q].children = a[q].children
        BY <1>2, <2>1, <3>1
      <4> QED BY <2>1, <4>1
    <3>2. CASE q = p
      <4>1. Head(a[n].edge) # Head(e)
        BY <1>8, <2>1, <3>2
      <4>2. b[q].children = Put(a[q].children, Head(e), new)
        BY <1>2, <3>2
      <4> HIDE DEF q, e, p
      <4> QED BY <2>1, <4>1, <4>2 DEF Put
    <3> QED BY <3>1, <3>2
  <2> HIDE DEF q
  <2> QED BY <2>1, <2>2, <2>3 DEF Hangs
<1>13. \A t \in DOMAIN b[new].children : Leads(b, new, t)
  <2>1. DOMAIN b[new].children = {key} /\ b[new].children[key] = id
    <3>1. DOMAIN <<>> = {}
      OBVIOUS
    <3>2. b[new].children = Put(<<>>, key, id)
      BY <1>2
    <3> QED BY <3>1, <3>2 DEF Put
  <2> QED BY <1>2, <1>5, <1>8, <2>1 DEF Leads
<1>14. ASSUME NEW n \in DOMAIN a, NEW t \in DOMAIN a[n].children, n # p \/ t # Head(e)
       PROVE  LET c == a[n].children[t]
              IN  c \in DOMAIN b \ {ROOT} /\ b[c].parent = n /\ Head(b[c].edge) = t
  <2> DEFINE c == a[n].children[t]
  <2>1. c \in DOMAIN a \ {ROOT} /\ a[c].parent = n /\ Head(a[c].edge) = t
    BY DEF Shape, Leads
  <2>2. c # id
    BY <1>14, <2>1
  <2> HIDE DEF c
  <2>3. b[c].parent = a[c].parent /\ b[c].edge = a[c].edge /\ c \in DOMAIN b
    BY <1>2, <2>1, <2>2
  <2> QED BY <2>1, <2>3 DEF c
<1>15. ASSUME NEW n \in DOMAIN a PROVE \A t \in DOMAIN b[n].children : Leads(b, n, t)
  <2>1. CASE n # p
    <3>1. b[n].children = a[n].children
      BY <1>2, <2>1
    <3> QED BY <1>14, <2>1, <3>1 DEF Leads
  <2>2. CASE n = p
    <3> SUFFICES ASSUME NEW t \in DOMAIN b[p].children PROVE Leads(b, p, t)
      BY <2>2
    <3>1. /\ DOMAIN b[p].children = DOMAIN a[p].children \cup {Head(e)}
          /\ b[p].children[Head(e)] = new
          /\ \A s \in DOMAIN a[p].children : s # Head(e) => b[p].children[s] = a[p].children[s]
      <4>1. b[p].children = Put(a[p].children, Head(e), new)
        BY <1>2
      <4> QED BY <4>1 DEF Put
    <3>2. CASE t = Head(e)
      BY <1>2, <1>5, <3>1, <3>2 DEF Leads
    <3>3. CASE t # Head(e)
      BY <1>2, <1>14, <3>1, <3>3 DEF Leads
    <3> QED BY <3>2, <3>3
  <2> QED BY <2>1, <2>2
<1>16. b[ROOT].length = 0
  BY <1>2, <1>3
<1>17. \A n \in DOMAIN b \ {ROOT} : Hangs(b, n)
  BY <1>2, <1>10, <1>11, <1>12
<1>18. \A n \in DOMAIN b : \A t \in DOMAIN b[n].children : Leads(b, n, t)
  BY <1>2, <1>13, <1>15
<1> QED BY <1>9, <1>16, <1>17, <1>18 DEF Shape

(* Whatever answers as a prefix does at every node is the prefix.           *)
LEMMA PrefixIs ==
  ASSUME NEW a, Shape(a), NEW P, P[ROOT] = <<>>,
         \A n \in DOMAIN a \ {ROOT} : P[n] = P[a[n].parent] \o a[n].edge
  PROVE  \A n \in DOMAIN a : PrefixOf(a, n) = P[n]
<1> DEFINE Good == {n \in DOMAIN a : PrefixOf(a, n) = P[n]}
<1>1. ROOT \in Good
  BY PrefixSteps DEF Shape, Typed
<1>2. \A n \in DOMAIN a \ {ROOT} : a[n].parent \in Good => n \in Good
  BY PrefixSteps
<1>3. DOMAIN a \subseteq Good
  <2> HIDE DEF Good
  <2> QED BY <1>1, <1>2, UpwardsHolds
<1> QED BY <1>3

(* A split adds the new node to the paths through the old one; page tables  *)
(* and prefixes stay what they were.                                        *)
LEMMA SplitReads ==
  ASSUME NEW a, Shape(a), NEW id \in DOMAIN a \ {ROOT}, NEW b,
         NEW cut \in Nat \ {0}, cut < Len(a[id].edge), IsSplit(b, a, id, cut)
  PROVE  LET new == NewId(a)
             p   == a[id].parent
         IN  /\ \A n \in DOMAIN a :
                  /\ PageTableOf(b, n) = PageTableOf(a, n)
                  /\ PrefixOf(b, n) = PrefixOf(a, n)
                  /\ Path(b, n) = IF id \in Path(a, n) THEN Path(a, n) \cup {new} ELSE Path(a, n)
             /\ PageTableOf(b, new) = SubSeq(PageTableOf(a, id), 1, PagesFor(a[p].length + cut))
             /\ PrefixOf(b, new) = PrefixOf(a, p) \o SubSeq(a[id].edge, 1, cut)
             /\ Path(b, new) = {new} \cup Path(a, p)
<1> DEFINE new    == NewId(a)
           node   == a[id]
           p      == node.parent
           length == a[p].length + cut
           below  == PageTableOf(a, id)
           pages  == SubSeq(below, 1, PagesFor(length))
           above  == PageTableOf(a, p)
           e      == node.edge
           en     == SubSeq(e, 1, cut)
           ei     == SubSeq(e, cut + 1, Len(e))
           Tables == [n \in DOMAIN b |-> IF n = new THEN pages ELSE PageTableOf(a, n)]
           Texts1 == [n \in DOMAIN b |-> IF n = new THEN PrefixOf(a, p) \o en ELSE PrefixOf(a, n)]
           Paths  == [n \in DOMAIN b |->
                        IF n = new THEN {new} \cup Path(a, p)
                        ELSE IF id \in Path(a, n) THEN Path(a, n) \cup {new} ELSE Path(a, n)]
<1>1. SplitFields(b, a, id, cut) /\ Shape(b)
  BY SplitHasFields, SplitKeepsShape
<1>2. /\ new \in Nat \ DOMAIN a /\ new # ROOT
      /\ p \in DOMAIN a /\ p # id
      /\ DOMAIN b = DOMAIN a \cup {new}
      /\ \A n \in DOMAIN a : n # id => /\ b[n].parent = a[n].parent /\ b[n].edge = a[n].edge
                                       /\ b[n].delta = a[n].delta
      /\ b[id].parent = new /\ b[id].edge = ei /\ b[id].delta = PageDelta(pages, below)
      /\ b[new].parent = p /\ b[new].edge = en
      /\ b[new].delta = PageDelta(above, pages)
      /\ pages \in Seq(Page)
  BY <1>1 DEF SplitFields
<1>3. ROOT \in DOMAIN a /\ ROOT # new
  BY <1>2 DEF Shape, Typed
<1>4. e \in Seq(Token) /\ Len(e) \in Nat /\ node.length = a[p].length + Len(e) /\ Len(e) # 0
      /\ a[p].length \in Nat
  BY ParentOf
<1>5. below \in Seq(Page) /\ above \in Seq(Page)
  BY <1>2, TableSteps
<1>6. Table(above, PageDelta(above, pages)) = pages /\ Table(pages, PageDelta(pages, below)) = below
  <2> HIDE DEF above, pages, below
  <2> QED BY <1>2, <1>5, PageDeltaFacts
<1>7. \A n \in DOMAIN a \ {ROOT} : a[n].parent \in DOMAIN a
  BY ParentOf
<1> HIDE DEF new, above, below, pages, en, ei
<1>8. \A n \in DOMAIN b : PageTableOf(b, n) = Tables[n]
  <2>1. Tables[ROOT] = <<>>
    BY <1>2, <1>3, TableSteps
  <2>2. ASSUME NEW n \in DOMAIN b \ {ROOT} PROVE Tables[n] = Table(Tables[b[n].parent], b[n].delta)
    <3>1. CASE n = new
      <4>1. Tables[n] = pages /\ Tables[p] = above
        BY <1>2, <3>1 DEF above
      <4> QED BY <1>2, <1>6, <3>1, <4>1
    <3>2. CASE n = id
      <4>1. Tables[n] = below /\ Tables[new] = pages
        BY <1>2, <3>2 DEF below
      <4> QED BY <1>2, <1>6, <3>2, <4>1
    <3>3. CASE n \notin {new, id}
      <4>1. n \in DOMAIN a \ {ROOT} /\ a[n].parent \in DOMAIN a
        BY <1>2, <1>7, <3>3
      <4>2. PageTableOf(a, n) = Table(PageTableOf(a, a[n].parent), a[n].delta)
        BY <4>1, TableSteps
      <4>3. Tables[n] = PageTableOf(a, n) /\ Tables[a[n].parent] = PageTableOf(a, a[n].parent)
        BY <1>2, <4>1
      <4>4. b[n].parent = a[n].parent /\ b[n].delta = a[n].delta
        BY <1>2, <3>3, <4>1
      <4> HIDE DEF Tables
      <4> QED BY <4>2, <4>3, <4>4
    <3> QED BY <3>1, <3>2, <3>3
  <2> HIDE DEF Tables
  <2> QED BY <1>1, <2>1, <2>2, TableIs
<1>9. \A n \in DOMAIN b : PrefixOf(b, n) = Texts1[n]
  <2>1. Texts1[ROOT] = <<>>
    BY <1>2, <1>3, PrefixSteps
  <2>2. ASSUME NEW n \in DOMAIN b \ {ROOT} PROVE Texts1[n] = Texts1[b[n].parent] \o b[n].edge
    <3>1. CASE n = new
      <4>1. Texts1[n] = PrefixOf(a, p) \o en /\ Texts1[p] = PrefixOf(a, p)
        BY <1>2, <3>1
      <4> QED BY <1>2, <3>1, <4>1
    <3>2. CASE n = id
      <4>1. Texts1[n] = PrefixOf(a, id) /\ Texts1[new] = PrefixOf(a, p) \o en
        BY <1>2, <3>2
      <4>2. PICK q \in Seq(Token) : q = PrefixOf(a, p)
        BY <1>2, PrefixSteps
      <4>3. PrefixOf(a, id) = q \o e
        BY <4>2, PrefixSteps
      <4>4. en \in Seq(Token) /\ ei \in Seq(Token) /\ en \o ei = e
        BY <1>4, EdgeHalves DEF en, ei
      <4>5. (q \o en) \o ei = q \o (en \o ei)
        <5>1. PICK x \in Seq(Token), y \in Seq(Token) : x = en /\ y = ei
          BY <4>4
        <5>2. (q \o x) \o y = q \o (x \o y)
          BY SMTT(20)
        <5> QED BY <5>1, <5>2
      <4> QED BY <1>2, <3>2, <4>1, <4>2, <4>3, <4>4, <4>5
    <3>3. CASE n \notin {new, id}
      <4>1. n \in DOMAIN a \ {ROOT} /\ a[n].parent \in DOMAIN a
        BY <1>2, <1>7, <3>3
      <4>2. PrefixOf(a, n) = PrefixOf(a, a[n].parent) \o a[n].edge
        BY <4>1, PrefixSteps
      <4>3. Texts1[n] = PrefixOf(a, n) /\ Texts1[a[n].parent] = PrefixOf(a, a[n].parent)
        BY <1>2, <4>1
      <4>4. b[n].parent = a[n].parent /\ b[n].edge = a[n].edge
        BY <1>2, <3>3, <4>1
      <4> HIDE DEF Texts1
      <4> QED BY <4>2, <4>3, <4>4
    <3> QED BY <3>1, <3>2, <3>3
  <2> HIDE DEF Texts1
  <2> QED BY <1>1, <2>1, <2>2, PrefixIs
<1>10. id \notin Path(a, p)
  <2> SUFFICES ASSUME id \in Path(a, p) PROVE FALSE
    OBVIOUS
  <2>1. a[id].length <= a[p].length
    BY <1>2, PathLengths
  <2> QED BY <1>4, <2>1
<1>11. \A n \in DOMAIN b : Path(b, n) = Paths[n]
  <2>1. Paths[ROOT] = {}
    BY <1>2, <1>3, PathSteps
  <2>2. ASSUME NEW n \in DOMAIN b \ {ROOT} PROVE Paths[n] = {n} \cup Paths[b[n].parent]
    <3>1. CASE n = new
      <4>1. Paths[n] = {new} \cup Path(a, p) /\ Paths[p] = Path(a, p)
        BY <1>2, <1>10, <3>1
      <4> QED BY <1>2, <3>1, <4>1
    <3>2. CASE n = id
      <4>1. Path(a, id) = {id} \cup Path(a, p)
        BY PathSteps
      <4>2. Paths[n] = Path(a, id) \cup {new} /\ Paths[new] = {new} \cup Path(a, p)
        BY <1>2, <3>2, <4>1
      <4> QED BY <1>2, <3>2, <4>1, <4>2
    <3>3. CASE n \notin {new, id}
      <4>1. n \in DOMAIN a \ {ROOT} /\ a[n].parent \in DOMAIN a
        BY <1>2, <1>7, <3>3
      <4>2. Path(a, n) = {n} \cup Path(a, a[n].parent)
        BY <4>1, PathSteps
      <4>3. id \in Path(a, n) <=> id \in Path(a, a[n].parent)
        BY <3>3, <4>2
      <4>4. /\ Paths[n] = IF id \in Path(a, n) THEN Path(a, n) \cup {new} ELSE Path(a, n)
            /\ Paths[a[n].parent] = IF id \in Path(a, a[n].parent)
                                    THEN Path(a, a[n].parent) \cup {new} ELSE Path(a, a[n].parent)
        BY <1>2, <4>1
      <4>5. b[n].parent = a[n].parent
        BY <1>2, <3>3, <4>1
      <4> HIDE DEF Paths
      <4> QED BY <4>2, <4>3, <4>4, <4>5
    <3> QED BY <3>1, <3>2, <3>3
  <2> HIDE DEF Paths
  <2> QED BY <1>1, <2>1, <2>2, PathIs
<1>12. ASSUME NEW n \in DOMAIN a
       PROVE  /\ PageTableOf(b, n) = PageTableOf(a, n)
              /\ PrefixOf(b, n) = PrefixOf(a, n)
              /\ Path(b, n) = IF id \in Path(a, n) THEN Path(a, n) \cup {new} ELSE Path(a, n)
  <2>1. n \in DOMAIN b /\ n # new
    BY <1>2
  <2> QED BY <1>8, <1>9, <1>11, <2>1
<1>13. PageTableOf(b, new) = pages /\ PrefixOf(b, new) = PrefixOf(a, p) \o en
       /\ Path(b, new) = {new} \cup Path(a, p)
  <2>1. new \in DOMAIN b
    BY <1>2
  <2> QED BY <1>8, <1>9, <1>11, <2>1
<1> QED BY <1>12, <1>13 DEF new, pages, below, en

(* Nodes with one stamp lie on one path.                                    *)
TiesOn(a) ==
  \A n, q \in DOMAIN a \ {ROOT} :
    a[n].access = a[q].access => n \in Path(a, q) \/ q \in Path(a, n)

LEMMA PathsAreChains ==
  ASSUME NEW a, Shape(a)
  PROVE  \A n \in DOMAIN a : \A q \in Path(a, n) :
           /\ Path(a, q) \subseteq Path(a, n)
           /\ q \in Path(a, q)
           /\ \A m \in Path(a, n) : m \in Path(a, q) \/ q \in Path(a, m)
<1> DEFINE Chain(n) == \A q \in Path(a, n) :
                         /\ Path(a, q) \subseteq Path(a, n)
                         /\ \A m \in Path(a, n) : m \in Path(a, q) \/ q \in Path(a, m)
           Good == {n \in DOMAIN a : Chain(n)}
<1>1. ROOT \in Good
  BY PathSteps DEF Shape, Typed
<1>2. ASSUME NEW n \in DOMAIN a \ {ROOT}, a[n].parent \in Good PROVE n \in Good
  <2>1. Path(a, n) = {n} \cup Path(a, a[n].parent)
    BY PathSteps
  <2> QED BY <1>2, <2>1
<1>3. DOMAIN a \subseteq Good
  <2> HIDE DEF Good
  <2> QED BY <1>1, <1>2, UpwardsHolds
<1>4. \A q \in DOMAIN a \ {ROOT} : q \in Path(a, q)
  BY PathSteps
<1>5. \A n \in DOMAIN a : Path(a, n) \subseteq DOMAIN a \ {ROOT}
  BY PathSteps
<1> QED BY <1>3, <1>4, <1>5

LEMMA SplitKeepsTies ==
  ASSUME NEW a, Shape(a), TiesOn(a), NEW id \in DOMAIN a \ {ROOT}, NEW b,
         NEW cut \in Nat \ {0}, cut < Len(a[id].edge), IsSplit(b, a, id, cut)
  PROVE  TiesOn(b)
<1> DEFINE new == NewId(a)
           p   == a[id].parent
<1>1. /\ new \in Nat \ DOMAIN a /\ new # ROOT /\ DOMAIN b = DOMAIN a \cup {new}
      /\ p \in DOMAIN a
      /\ \A n \in DOMAIN a : b[n].access = a[n].access
      /\ b[new].access = a[id].access
  <2>1. SplitFields(b, a, id, cut)
    BY SplitHasFields
  <2> QED BY <2>1 DEF SplitFields
<1>2. /\ \A n \in DOMAIN a : Path(b, n) = IF id \in Path(a, n) THEN Path(a, n) \cup {new} ELSE Path(a, n)
      /\ Path(b, new) = {new} \cup Path(a, p)
  BY SplitReads
<1>3. Path(a, id) = {id} \cup Path(a, p)
  BY PathSteps
<1> HIDE DEF new, p
<1>4. ASSUME NEW n \in DOMAIN a \ {ROOT}, NEW q \in DOMAIN a \ {ROOT}, b[n].access = b[q].access
      PROVE  n \in Path(b, q) \/ q \in Path(b, n)
  <2>1. n \in Path(a, q) \/ q \in Path(a, n)
    BY <1>1, <1>4 DEF TiesOn
  <2> QED BY <1>2, <2>1
<1>5. ASSUME NEW q \in DOMAIN a \ {ROOT}, b[new].access = b[q].access
      PROVE  new \in Path(b, q) \/ q \in Path(b, new)
  <2>1. id \in Path(a, q) \/ q \in Path(a, id)
    BY <1>1, <1>5 DEF TiesOn
  <2> QED BY <1>2, <1>3, <2>1
<1>6. new \in Path(b, new)
  BY <1>2
<1> QED BY <1>1, <1>4, <1>5, <1>6 DEF TiesOn

-----------------------------------------------------------------------------
(* match_prefix                                                             *)

Tree(a) == Shape(a) /\ TiesOn(a)

(* The match is a tree, its terminal spells a prefix of ids, and no child   *)
(* of the terminal goes on as ids does.                                     *)
Matches(m, ids) ==
  /\ Tree(m.tree) /\ m.terminal \in DOMAIN m.tree
  /\ LET length == m.tree[m.terminal].length
     IN  /\ Spells(m.tree, ids, m.terminal, length)
         /\ length < Len(ids) => ids[length + 1] \notin DOMAIN m.tree[m.terminal].children

LEMMA MatchPrefixIs ==
  ASSUME NEW a, Tree(a), NEW ids \in Seq(Token)
  PROVE  Matches(MatchPrefix(a, ids), ids)
<1> DEFINE e == WalkEnd(a, ids)
           m == MatchPrefix(a, ids)
<1>1. Shape(a) /\ TiesOn(a)
  BY DEF Tree
<1>2. EndsWell(a, ids, e)
  BY <1>1, WalkEndsWell
<1>3. e.at \in DOMAIN a /\ e.cut \in Nat
  BY <1>2 DEF EndsWell
<1> SUFFICES Matches(m, ids)
  OBVIOUS
<1>4. m = IF e.cut = 0 THEN [tree |-> a, terminal |-> e.at]
          ELSE [tree |-> SplitNode(a, e.at, e.cut), terminal |-> NewId(a)]
  BY DEF MatchPrefix
<1> HIDE DEF e, m
<1>5. CASE e.cut = 0
  <2>1. m.tree = a /\ m.terminal = e.at
    BY <1>4, <1>5
  <2> QED BY <1>2, <1>3, <1>5, <2>1 DEF EndsWell, Matches, Tree
<1>6. CASE e.cut # 0
  <2>1. PICK id, cut : id = e.at /\ cut = e.cut
    OBVIOUS
  <2> DEFINE k == a[a[id].parent].length + cut
             new == NewId(a)
             b == SplitNode(a, id, cut)
  <2>2. /\ id \in DOMAIN a \ {ROOT} /\ cut \in Nat \ {0} /\ cut < Len(a[id].edge)
        /\ Spells(a, ids, id, k)
        /\ k < Len(ids) => ids[k + 1] # a[id].edge[cut + 1]
    BY <1>2, <1>3, <1>6, <2>1 DEF EndsWell
  <2>3. m.tree = b /\ m.terminal = new
    BY <1>4, <1>6, <2>1
  <2>4. IsSplit(b, a, id, cut)
    BY <1>1, <2>2, SplitIs
  <2> HIDE DEF b
  <2>5. Tree(b)
    BY <1>1, <2>2, <2>4, SplitKeepsShape, SplitKeepsTies DEF Tree
  <2>6. /\ new \in DOMAIN b /\ b[new].length = k
        /\ b[new].children = Put(<<>>, a[id].edge[cut + 1], id)
    <3>1. SplitFields(b, a, id, cut)
      BY <1>1, <2>2, <2>4, SplitHasFields
    <3> QED BY <3>1 DEF SplitFields
  <2>7. DOMAIN b[new].children = {a[id].edge[cut + 1]}
    <3>1. DOMAIN <<>> = {}
      OBVIOUS
    <3> QED BY <2>6, <3>1 DEF Put
  <2>8. Spells(b, ids, new, k)
    <3> DEFINE p == a[id].parent
               e1 == SubSeq(a[id].edge, 1, cut)
    <3>1. /\ p \in DOMAIN a /\ a[id].edge \in Seq(Token) /\ a[p].length \in Nat
          /\ Len(a[id].edge) \in Nat
      BY <1>1, <2>2, ParentOf
    <3>2. PICK q \in Seq(Token) : q = PrefixOf(a, p) /\ Len(q) = a[p].length
      BY <1>1, <3>1, PrefixSteps
    <3>3. PICK x \in Seq(Token) : x = a[id].edge
      BY <3>1
    <3>4. PICK y \in Seq(Token) : y = SubSeq(x, 1, cut)
      BY <2>2, <3>1, <3>3, EdgeHalves
    <3>5. Len(y) = cut /\ \A i \in 1 .. cut : y[i] = x[i]
      BY <2>2, <3>1, <3>3, <3>4, CutSequence
    <3>6. PrefixOf(b, new) = q \o y /\ PrefixOf(a, id) = q \o x
      <4>1. PrefixOf(b, new) = PrefixOf(a, p) \o SubSeq(a[id].edge, 1, cut)
        BY <1>1, <2>2, <2>4, SplitReads
      <4>2. PrefixOf(a, id) = PrefixOf(a, p) \o a[id].edge
        BY <1>1, <2>2, PrefixSteps
      <4> QED BY <3>2, <3>3, <3>4, <4>1, <4>2
    <3>7. PICK u \in Seq(Token), v \in Seq(Token) : u = q \o y /\ v = q \o x
      BY Joined
    <3>8. /\ \A i \in 1 .. Len(q) : u[i] = q[i] /\ v[i] = q[i]
          /\ \A i \in 1 .. Len(y) : u[Len(q) + i] = y[i]
          /\ \A i \in 1 .. Len(x) : v[Len(q) + i] = x[i]
      BY <3>7, Joined
    <3>9. ASSUME NEW i \in 1 .. k PROVE u[i] = v[i]
      <4>1. k = Len(q) + cut /\ Len(q) \in Nat /\ cut <= Len(x) /\ cut \in Nat
        BY <2>2, <3>1, <3>2, <3>3
      <4>2. CASE i <= Len(q)
        <5>1. i \in 1 .. Len(q)
          BY <4>1, <4>2
        <5> QED BY <3>8, <5>1
      <4>3. CASE i > Len(q)
        <5>1. i - Len(q) \in 1 .. cut /\ Len(q) + (i - Len(q)) = i
          BY <4>1, <4>3
        <5>2. i - Len(q) \in 1 .. Len(y) /\ i - Len(q) \in 1 .. Len(x)
          BY <3>1, <3>3, <3>5, <4>1, <5>1
        <5> QED BY <3>5, <3>8, <5>1, <5>2
      <4> QED BY <4>1, <4>2, <4>3
    <3> QED BY <2>2, <3>6, <3>7, <3>9 DEF Spells
  <2>9. k < Len(ids) => ids[k + 1] \notin DOMAIN b[new].children
    BY <2>2, <2>7
  <2> QED BY <2>3, <2>5, <2>6, <2>8, <2>9 DEF Matches
<1> QED BY <1>3, <1>5, <1>6

-----------------------------------------------------------------------------
(* Stamps and locks                                                         *)

(* b is a with other locks and stamps.                                      *)
SameTree(b, a) ==
  /\ DOMAIN b = DOMAIN a /\ b = [n \in DOMAIN b |-> b[n]]
  /\ \A n \in DOMAIN a :
       /\ b[n] \in Node
       /\ b[n].parent = a[n].parent /\ b[n].edge = a[n].edge /\ b[n].length = a[n].length
       /\ b[n].delta = a[n].delta /\ b[n].children = a[n].children

LEMMA SameTreeReads ==
  ASSUME NEW a, Shape(a), NEW b, SameTree(b, a)
  PROVE  /\ Shape(b)
         /\ \A n \in DOMAIN a : /\ Path(b, n) = Path(a, n)
                                /\ PageTableOf(b, n) = PageTableOf(a, n)
                                /\ PrefixOf(b, n) = PrefixOf(a, n)
<1>1. /\ DOMAIN b = DOMAIN a
      /\ \A n \in DOMAIN a :
           /\ b[n] \in Node
           /\ b[n].parent = a[n].parent /\ b[n].edge = a[n].edge /\ b[n].length = a[n].length
           /\ b[n].delta = a[n].delta /\ b[n].children = a[n].children
  BY DEF SameTree
<1>2. Typed(b)
  <2>1. b \in [DOMAIN b -> Node]
    BY DEF SameTree
  <2> QED BY <1>1, <2>1 DEF Typed, Shape
<1>3. ROOT \in DOMAIN a /\ a[ROOT].length = 0
  BY DEF Shape, Typed
<1>4. ASSUME NEW n \in DOMAIN a \ {ROOT} PROVE Hangs(b, n)
  <2>1. Hangs(a, n)
    BY DEF Shape
  <2>2. a[n].parent \in DOMAIN a
    BY <2>1 DEF Hangs
  <2> QED BY <1>1, <2>1, <2>2 DEF Hangs
<1>5. ASSUME NEW n \in DOMAIN a, NEW t \in DOMAIN a[n].children PROVE Leads(b, n, t)
  <2>1. Leads(a, n, t)
    BY DEF Shape
  <2> QED BY <1>1, <2>1 DEF Leads
<1>6. Shape(b)
  BY <1>1, <1>2, <1>3, <1>4, <1>5 DEF Shape
<1> DEFINE Paths  == [n \in DOMAIN a |-> Path(a, n)]
           Tables == [n \in DOMAIN a |-> PageTableOf(a, n)]
           Texts1 == [n \in DOMAIN a |-> PrefixOf(a, n)]
<1>7. \A n \in DOMAIN a \ {ROOT} : a[n].parent \in DOMAIN a
  BY ParentOf
<1>8. \A n \in DOMAIN b : Path(b, n) = Paths[n]
  <2>1. Paths[ROOT] = {} /\ \A n \in DOMAIN b \ {ROOT} : Paths[n] = {n} \cup Paths[b[n].parent]
    BY <1>1, <1>3, <1>7, PathSteps
  <2> HIDE DEF Paths
  <2> QED BY <1>6, <2>1, PathIs
<1>9. \A n \in DOMAIN b : PageTableOf(b, n) = Tables[n]
  <2>1. /\ Tables[ROOT] = <<>>
        /\ \A n \in DOMAIN b \ {ROOT} : Tables[n] = Table(Tables[b[n].parent], b[n].delta)
    BY <1>1, <1>3, <1>7, TableSteps
  <2> HIDE DEF Tables
  <2> QED BY <1>6, <2>1, TableIs
<1>10. \A n \in DOMAIN b : PrefixOf(b, n) = Texts1[n]
  <2>1. /\ Texts1[ROOT] = <<>>
        /\ \A n \in DOMAIN b \ {ROOT} : Texts1[n] = Texts1[b[n].parent] \o b[n].edge
    <3>1. Texts1[ROOT] = <<>>
      BY <1>3, PrefixSteps
    <3>2. ASSUME NEW n \in DOMAIN b \ {ROOT} PROVE Texts1[n] = Texts1[b[n].parent] \o b[n].edge
      <4>1. n \in DOMAIN a \ {ROOT} /\ b[n].parent = a[n].parent /\ b[n].edge = a[n].edge
        BY <1>1
      <4>2. Texts1[n] = PrefixOf(a, n) /\ Texts1[a[n].parent] = PrefixOf(a, a[n].parent)
        BY <1>7, <4>1
      <4>3. PrefixOf(a, n) = PrefixOf(a, a[n].parent) \o a[n].edge
        BY <4>1, PrefixSteps
      <4> HIDE DEF Texts1
      <4> QED BY <4>1, <4>2, <4>3
    <3> QED BY <3>1, <3>2
  <2> HIDE DEF Texts1
  <2> QED BY <1>6, <2>1, PrefixIs
<1> QED BY <1>1, <1>6, <1>8, <1>9, <1>10

LEMMA AddLockKeepsTree ==
  ASSUME NEW a, Tree(a), NEW terminal, NEW d \in Int
  PROVE  LET b == AddLock(a, terminal, d)
         IN  /\ SameTree(b, a) /\ Tree(b)
             /\ \A n \in DOMAIN a :
                  b[n].lock = IF n \in Path(a, terminal) THEN a[n].lock + d ELSE a[n].lock
<1> DEFINE b == AddLock(a, terminal, d)
<1>1. Shape(a) /\ TiesOn(a) /\ Typed(a)
  BY DEF Tree, Shape
<1>2. DOMAIN b = DOMAIN a /\ b = [n \in DOMAIN b |-> b[n]]
      /\ \A n \in DOMAIN a : b[n] = IF n \in Path(a, terminal) THEN [a[n] EXCEPT !.lock = @ + d] ELSE a[n]
  BY DEF AddLock
<1> HIDE DEF b
<1>3. ASSUME NEW n \in DOMAIN a
      PROVE  /\ b[n] \in Node
             /\ b[n].parent = a[n].parent /\ b[n].edge = a[n].edge /\ b[n].length = a[n].length
             /\ b[n].delta = a[n].delta /\ b[n].children = a[n].children
             /\ b[n].access = a[n].access
             /\ b[n].lock = IF n \in Path(a, terminal) THEN a[n].lock + d ELSE a[n].lock
  <2>1. a[n] \in Node /\ a[n].lock \in Int
    BY <1>1, NodeFields
  <2>2. a[n].lock + d \in Int
    BY <2>1
  <2>3. CASE n \notin Path(a, terminal)
    BY <1>2, <2>1, <2>3
  <2>4. CASE n \in Path(a, terminal)
    <3>1. b[n] = [a[n] EXCEPT !.lock = a[n].lock + d]
      BY <1>2, <2>4
    <3> QED BY <2>1, <2>2, <2>4, <3>1 DEF Node
  <2> QED BY <2>3, <2>4
<1>4. SameTree(b, a)
  BY <1>2, <1>3 DEF SameTree
<1>5. Shape(b) /\ \A n \in DOMAIN a : Path(b, n) = Path(a, n)
  BY <1>1, <1>4, SameTreeReads
<1>6. TiesOn(b)
  BY <1>1, <1>2, <1>3, <1>5 DEF TiesOn
<1> QED BY <1>3, <1>4, <1>5, <1>6 DEF Tree, b

LEMMA MaxOf ==
  ASSUME NEW S \in SUBSET Nat, S # {}, IsFiniteSet(S)
  PROVE  Max(S) \in S /\ \A k \in S : k <= Max(S)
<1>1. PICK top \in Nat : \A k \in S : k < top
  BY FiniteBounded
<1> DEFINE R == {top - k : k \in S}
<1>2. PICK r \in R : \A k \in R : r <= k
  <2>0. ASSUME NEW k \in S PROVE top - k \in Nat
    <3>1. k \in Nat /\ k < top
      BY <1>1
    <3> QED BY <3>1
  <2>1. R \in SUBSET Nat /\ R # {}
    BY <2>0
  <2> HIDE DEF R
  <2> QED BY <2>1, LeastOf
<1>3. PICK m \in S : r = top - m
  OBVIOUS
<1>4. ASSUME NEW k \in S PROVE m >= k
  <2>1. r <= top - k
    <3>1. top - k \in R
      OBVIOUS
    <3> HIDE DEF R
    <3> QED BY <1>2, <3>1
  <2>2. k \in Nat /\ m \in Nat
    OBVIOUS
  <2> QED BY <1>3, <2>1, <2>2
<1>5. Max(S) \in S /\ \A k \in S : Max(S) >= k
  BY <1>4 DEF Max
<1>6. Max(S) \in Nat
  BY <1>5
<1> QED BY <1>5, <1>6

LEMMA RanksSeparate ==
  ASSUME NEW S \in SUBSET Nat, IsFiniteSet(S), NEW x \in S, NEW y \in S
  PROVE  LET rank(k) == Cardinality(S \cap 0 .. (k - 1))
         IN  /\ rank(x) \in Nat
             /\ x < y => rank(x) < rank(y)
<1> DEFINE X == S \cap 0 .. (x - 1)
           Y == S \cap 0 .. (y - 1)
<1>1. IsFiniteSet(X) /\ IsFiniteSet(Y) /\ Cardinality(X) \in Nat /\ Cardinality(Y) \in Nat
  <2>1. X \in SUBSET S /\ Y \in SUBSET S
    OBVIOUS
  <2> HIDE DEF X, Y
  <2> QED BY <2>1, FS_Subset, FS_CardinalityType
<1>2. ASSUME x < y PROVE Cardinality(X) < Cardinality(Y)
  <2>1. X \in SUBSET Y /\ x \in Y /\ x \notin X
    BY <1>2
  <2> HIDE DEF X, Y
  <2>2. Cardinality(X) <= Cardinality(Y) /\ (Cardinality(Y) = Cardinality(X) => Y = X)
    BY <1>1, <2>1, FS_Subset
  <2> QED BY <1>1, <2>1, <2>2
<1> QED BY <1>1, <1>2

LEMMA StampMakesTree ==
  ASSUME NEW a, Shape(a), NEW ids,
         \A n, q \in DOMAIN a \ ({ROOT} \cup ids) :
           a[n].access = a[q].access => n \in Path(a, q) \/ q \in Path(a, n),
         \A n, q \in (DOMAIN a \ {ROOT}) \cap ids : n \in Path(a, q) \/ q \in Path(a, n)
  PROVE  LET b == Stamp(a, ids)
         IN  /\ SameTree(b, a) /\ Tree(b)
             /\ \A n \in DOMAIN a : b[n].lock = a[n].lock
<1> DEFINE b == Stamp(a, ids)
           A == {a[n].access : n \in DOMAIN a}
           now == 1 + Max(A)
           at(n) == IF n \in ids THEN now ELSE a[n].access
           S == {at(q) : q \in DOMAIN a}
           rank(n) == Cardinality(S \cap 0 .. (at(n) - 1))
<1>1. Shape(a) /\ Typed(a) /\ ROOT \in DOMAIN a /\ IsFiniteSet(DOMAIN a)
  BY DEF Shape, Typed
<1>2. \A n \in DOMAIN a : a[n].access \in Nat /\ a[n] \in Node
  BY <1>1, NodeFields
<1>3. A \in SUBSET Nat /\ A # {} /\ IsFiniteSet(A)
  <2> DEFINE f == [n \in DOMAIN a |-> a[n].access]
  <2>1. f \in [DOMAIN a -> A] /\ A = {f[n] : n \in DOMAIN a}
    OBVIOUS
  <2>2. IsFiniteSet(A)
    <3> HIDE DEF f, A
    <3> QED BY <1>1, <2>1, ImageFinite
  <2> QED BY <1>1, <1>2, <2>2
<1>4. Max(A) \in Nat /\ \A k \in A : k <= Max(A)
  <2> HIDE DEF A
  <2> QED BY <1>3, MaxOf
<1>5. now \in Nat /\ \A n \in DOMAIN a : a[n].access < now
  <2> SUFFICES ASSUME NEW n \in DOMAIN a PROVE now \in Nat /\ a[n].access < now
    BY <1>1
  <2>1. a[n].access <= Max(A) /\ a[n].access \in Nat
    BY <1>2, <1>4
  <2> HIDE DEF A
  <2> QED BY <1>4, <2>1
<1>6. DOMAIN b = DOMAIN a /\ b = [n \in DOMAIN b |-> b[n]]
      /\ \A n \in DOMAIN a : b[n] = [a[n] EXCEPT !.access = rank(n)]
  BY DEF Stamp
<1> HIDE DEF b, now
<1>7. \A n \in DOMAIN a : at(n) \in Nat
  BY <1>2, <1>5
<1>8. S \in SUBSET Nat /\ IsFiniteSet(S)
  <2> DEFINE f == [n \in DOMAIN a |-> at(n)]
  <2>1. f \in [DOMAIN a -> S] /\ S = {f[n] : n \in DOMAIN a}
    OBVIOUS
  <2>2. IsFiniteSet(S)
    <3> HIDE DEF f, S
    <3> QED BY <1>1, <2>1, ImageFinite
  <2> QED BY <1>7, <2>2
<1>9. \A n, q \in DOMAIN a : rank(n) \in Nat /\ (at(n) < at(q) => rank(n) < rank(q))
  <2> SUFFICES ASSUME NEW n \in DOMAIN a, NEW q \in DOMAIN a
               PROVE  rank(n) \in Nat /\ (at(n) < at(q) => rank(n) < rank(q))
    OBVIOUS
  <2>1. PICK x \in S, y \in S : x = at(n) /\ y = at(q)
    OBVIOUS
  <2>2. /\ Cardinality(S \cap 0 .. (x - 1)) \in Nat
        /\ x < y => Cardinality(S \cap 0 .. (x - 1)) < Cardinality(S \cap 0 .. (y - 1))
    <3> HIDE DEF S
    <3> QED BY <1>8, RanksSeparate
  <2> HIDE DEF S, at
  <2> QED BY <2>1, <2>2
<1> HIDE DEF S
<1>10. ASSUME NEW n \in DOMAIN a
       PROVE  /\ b[n] \in Node
              /\ b[n].parent = a[n].parent /\ b[n].edge = a[n].edge /\ b[n].length = a[n].length
              /\ b[n].delta = a[n].delta /\ b[n].children = a[n].children
              /\ b[n].lock = a[n].lock /\ b[n].access = rank(n)
  <2>1. PICK k \in Nat : k = rank(n)
    BY <1>9
  <2>2. b[n] = [a[n] EXCEPT !.access = k] /\ a[n] \in Node
    BY <1>2, <1>6, <2>1
  <2> HIDE DEF rank
  <2> QED BY <2>1, <2>2 DEF Node
<1>11. SameTree(b, a)
  BY <1>6, <1>10 DEF SameTree
<1>12. Shape(b) /\ \A n \in DOMAIN a : Path(b, n) = Path(a, n)
  BY <1>1, <1>11, SameTreeReads
<1>13. ASSUME NEW n \in DOMAIN a \ {ROOT}, NEW q \in DOMAIN a \ {ROOT}, b[n].access = b[q].access
       PROVE  n \in Path(b, q) \/ q \in Path(b, n)
  <2>1. rank(n) = rank(q) /\ rank(n) \in Nat /\ rank(q) \in Nat
    BY <1>9, <1>10, <1>13
  <2>2. at(n) \in Nat /\ at(q) \in Nat
    BY <1>7
  <2>3. at(n) = at(q)
    <3>1. ~(at(n) < at(q)) /\ ~(at(q) < at(n))
      <4>1. at(n) < at(q) => rank(n) < rank(q)
        BY <1>9
      <4>2. at(q) < at(n) => rank(q) < rank(n)
        BY <1>9
      <4> HIDE DEF rank, at
      <4> QED BY <2>1, <4>1, <4>2
    <3> HIDE DEF at
    <3> QED BY <2>2, <3>1
  <2>4. (n \in ids <=> q \in ids) /\ (n \notin ids => a[n].access = a[q].access)
    BY <1>2, <1>5, <2>3
  <2>5. n \in Path(a, q) \/ q \in Path(a, n)
    BY <2>4
  <2> QED BY <1>12, <2>5
<1>14. TiesOn(b)
  BY <1>6, <1>13 DEF TiesOn
<1> QED BY <1>10, <1>11, <1>12, <1>14 DEF Tree, b

LEMMA TouchKeepsTree ==
  ASSUME NEW a, Tree(a), NEW terminal \in DOMAIN a
  PROVE  LET b == TouchPath(a, terminal)
         IN  /\ SameTree(b, a) /\ Tree(b)
             /\ \A n \in DOMAIN a : b[n].lock = a[n].lock
<1>1. \A n, q \in (DOMAIN a \ {ROOT}) \cap Path(a, terminal) : n \in Path(a, q) \/ q \in Path(a, n)
  BY PathsAreChains DEF Tree
<1>2. Shape(a) /\ \A n, q \in DOMAIN a \ ({ROOT} \cup Path(a, terminal)) :
        a[n].access = a[q].access => n \in Path(a, q) \/ q \in Path(a, n)
  BY DEF Tree, TiesOn
<1> QED BY <1>1, <1>2, StampMakesTree DEF TouchPath

-----------------------------------------------------------------------------
(* A node more, nodes less                                                  *)

(* b is a with a leaf more, of whatever stamp.                              *)
IsGrown(b, a, id, parent, edge, pages) ==
  /\ id \in Nat \ DOMAIN a
  /\ DOMAIN b = DOMAIN a \cup {id} /\ b = [n \in DOMAIN b |-> b[n]]
  /\ \A n \in DOMAIN a :
       /\ b[n] \in Node
       /\ b[n].parent = a[n].parent /\ b[n].edge = a[n].edge /\ b[n].length = a[n].length
       /\ b[n].delta = a[n].delta /\ b[n].lock = a[n].lock /\ b[n].access = a[n].access
       /\ n # parent => b[n].children = a[n].children
  /\ b[parent].children = Put(a[parent].children, Head(edge), id)
  /\ b[id] \in Node
  /\ b[id].parent = parent /\ b[id].edge = edge
  /\ b[id].length = a[parent].length + Len(edge)
  /\ b[id].delta = PageDelta(PageTableOf(a, parent), pages)
  /\ b[id].children = <<>> /\ b[id].lock = 0

(* There is room for the new leaf, and its page table is long enough.       *)
Fits(a, parent, edge, pages) ==
  /\ parent \in DOMAIN a
  /\ edge \in Seq(Token) /\ edge # <<>> /\ Head(edge) \notin DOMAIN a[parent].children
  /\ pages \in Seq(Page) /\ Len(pages) = PagesFor(a[parent].length + Len(edge))

LEMMA GrownIs ==
  ASSUME NEW a, Shape(a), NEW parent, NEW edge, NEW pages, Fits(a, parent, edge, pages)
  PROVE  LET child == [parent   |-> parent,
                       edge     |-> edge,
                       length   |-> a[parent].length + Len(edge),
                       delta    |-> PageDelta(PageTableOf(a, parent), pages),
                       children |-> <<>>,
                       lock     |-> 0,
                       access   |-> 0]
             id    == NewId(a)
         IN  IsGrown(SetChild(InsertNode(a, child), parent, Head(edge), id), a, id, parent, edge, pages)
<1> DEFINE child == [parent   |-> parent,
                     edge     |-> edge,
                     length   |-> a[parent].length + Len(edge),
                     delta    |-> PageDelta(PageTableOf(a, parent), pages),
                     children |-> <<>>,
                     lock     |-> 0,
                     access   |-> 0]
           id == NewId(a)
           x  == Put(a, id, child)
           cs == Put(a[parent].children, Head(edge), id)
           b  == [x EXCEPT ![parent].children = Put(@, Head(edge), id)]
<1>1. Typed(a)
  BY DEF Shape
<1>2. id \in Nat \ DOMAIN a
  BY <1>1, NewIdIsNew
<1>3. /\ parent \in DOMAIN a /\ edge \in Seq(Token) /\ edge # <<>>
      /\ pages \in Seq(Page)
  BY DEF Fits
<1>4. SetChild(InsertNode(a, child), parent, Head(edge), id) = b
  BY DEF SetChild, InsertNode
<1>5. /\ parent \in Nat /\ a[parent] \in Node /\ a[parent].length \in Nat
      /\ DOMAIN a[parent].children \subseteq Token
      /\ \A t \in DOMAIN a[parent].children : a[parent].children[t] \in Nat
  BY <1>1, <1>3, NodeFields
<1>6. Head(edge) \in Token /\ Len(edge) \in Nat
  BY <1>3
<1>7. cs \in UNION {[S -> Nat] : S \in SUBSET Token}
  <2> HIDE DEF id
  <2> QED BY <1>2, <1>5, <1>6, PutChild DEF ChildMaps
<1>8. PageTableOf(a, parent) \in Seq(Page)
  BY <1>3, TableSteps
<1>9. child \in Node
  <2>1. PageDelta(PageTableOf(a, parent), pages) \in [retain : Nat, pages : Seq(Page)]
    BY <1>3, <1>8, PageDeltaFacts
  <2>2. <<>> \in UNION {[S -> Nat] : S \in SUBSET Token}
    <3>1. <<>> \in [{} -> Nat] /\ {} \in SUBSET Token
      OBVIOUS
    <3> QED BY <3>1
  <2>3. a[parent].length + Len(edge) \in Nat
    BY <1>5, <1>6
  <2>4. PICK delta : delta = PageDelta(PageTableOf(a, parent), pages)
    OBVIOUS
  <2>5. PICK length : length = a[parent].length + Len(edge)
    OBVIOUS
  <2>6. PICK none : none = <<>>
    OBVIOUS
  <2>7. child = [parent |-> parent, edge |-> edge, length |-> length, delta |-> delta,
                 children |-> none, lock |-> 0, access |-> 0]
    BY <2>4, <2>5, <2>6
  <2>8. /\ delta \in [retain : Nat, pages : Seq(Page)] /\ length \in Nat
        /\ none \in UNION {[S -> Nat] : S \in SUBSET Token}
    BY <2>1, <2>2, <2>3, <2>4, <2>5, <2>6
  <2> HIDE DEF child
  <2> QED BY ONLY <1>3, <1>5, <2>7, <2>8 DEF Node
<1> HIDE DEF id
<1>10. DOMAIN x = DOMAIN a \cup {id} /\ x[id] = child /\ \A n \in DOMAIN a : x[n] = a[n]
  BY <1>2 DEF Put
<1> HIDE DEF x, child
<1>11. /\ DOMAIN b = DOMAIN a \cup {id} /\ b = [n \in DOMAIN b |-> b[n]]
       /\ b[id] = child /\ \A n \in DOMAIN a : n # parent => b[n] = a[n]
  BY <1>2, <1>3, <1>10
<1>12. b[parent] = [a[parent] EXCEPT !.children = cs]
  <2>1. b[parent] = [x[parent] EXCEPT !.children = Put(x[parent].children, Head(edge), id)]
    BY <1>3, <1>10
  <2> QED BY <1>3, <1>10, <2>1
<1> HIDE DEF b, cs
<1>13. /\ b[parent] \in Node
       /\ b[parent].parent = a[parent].parent /\ b[parent].edge = a[parent].edge
       /\ b[parent].length = a[parent].length
       /\ b[parent].delta = a[parent].delta /\ b[parent].lock = a[parent].lock
       /\ b[parent].access = a[parent].access
       /\ b[parent].children = cs
  BY <1>5, <1>7, <1>12 DEF Node
<1>14. ASSUME NEW n \in DOMAIN a
       PROVE  /\ b[n] \in Node
              /\ b[n].parent = a[n].parent /\ b[n].edge = a[n].edge /\ b[n].length = a[n].length
              /\ b[n].delta = a[n].delta /\ b[n].lock = a[n].lock /\ b[n].access = a[n].access
              /\ n # parent => b[n].children = a[n].children
  <2>1. CASE n = parent
    BY <1>13, <2>1
  <2>2. CASE n # parent
    BY <1>1, <1>11, <2>2, NodeFields
  <2> QED BY <2>1, <2>2
<1>15. /\ b[id] \in Node
       /\ b[id].parent = parent /\ b[id].edge = edge
       /\ b[id].length = a[parent].length + Len(edge)
       /\ b[id].delta = PageDelta(PageTableOf(a, parent), pages)
       /\ b[id].children = <<>> /\ b[id].lock = 0
  BY <1>9, <1>11 DEF child
<1>16. IsGrown(b, a, id, parent, edge, pages)
  BY <1>2, <1>11, <1>13, <1>14, <1>15 DEF IsGrown, cs
<1> QED BY <1>4, <1>16 DEF id, child

LEMMA GrownKeepsShape ==
  ASSUME NEW a, Shape(a), NEW parent, NEW edge, NEW pages, Fits(a, parent, edge, pages),
         NEW id, NEW b, IsGrown(b, a, id, parent, edge, pages)
  PROVE  Shape(b)
<1> DEFINE above == PageTableOf(a, parent)
           delta == PageDelta(above, pages)
<1>1. /\ id \in Nat \ DOMAIN a
      /\ DOMAIN b = DOMAIN a \cup {id} /\ b = [n \in DOMAIN b |-> b[n]]
      /\ \A n \in DOMAIN a :
           /\ b[n] \in Node
           /\ b[n].parent = a[n].parent /\ b[n].edge = a[n].edge /\ b[n].length = a[n].length
           /\ b[n].delta = a[n].delta
           /\ n # parent => b[n].children = a[n].children
      /\ b[parent].children = Put(a[parent].children, Head(edge), id)
      /\ b[id] \in Node
      /\ b[id].parent = parent /\ b[id].edge = edge
      /\ b[id].length = a[parent].length + Len(edge)
      /\ b[id].delta = delta
      /\ b[id].children = <<>>
  BY DEF IsGrown
<1>2. /\ parent \in DOMAIN a
      /\ edge \in Seq(Token) /\ edge # <<>> /\ Head(edge) \notin DOMAIN a[parent].children
      /\ pages \in Seq(Page) /\ Len(pages) = PagesFor(a[parent].length + Len(edge))
  BY DEF Fits
<1>3. /\ Typed(a) /\ ROOT \in DOMAIN a /\ a[ROOT].length = 0 /\ IsFiniteSet(DOMAIN a)
      /\ DOMAIN a \subseteq Nat
  BY DEF Shape, Typed
<1>4. above \in Seq(Page) /\ Len(above) = PagesFor(a[parent].length)
  BY <1>2, TableSteps
<1>5. /\ delta.retain <= PagesFor(a[parent].length)
      /\ delta.retain + Len(delta.pages) = PagesFor(a[parent].length + Len(edge))
  <2> HIDE DEF above
  <2> QED BY <1>2, <1>4, PageDeltaFacts
<1> HIDE DEF above, delta
<1>6. Typed(b)
  <2>1. IsFiniteSet(DOMAIN b)
    BY <1>1, <1>3, FS_AddElement
  <2>2. \A n \in DOMAIN b : b[n] \in Node
    BY <1>1
  <2>3. b \in [DOMAIN b -> Node]
    BY <1>1, <2>2
  <2> QED BY <1>1, <1>3, <2>1, <2>3 DEF Typed
<1>7. /\ DOMAIN b[parent].children = DOMAIN a[parent].children \cup {Head(edge)}
      /\ b[parent].children[Head(edge)] = id
      /\ \A t \in DOMAIN a[parent].children : b[parent].children[t] = a[parent].children[t]
  <2>1. b[parent].children = Put(a[parent].children, Head(edge), id)
    BY <1>1
  <2> QED BY <1>2, <2>1 DEF Put
<1>8. Hangs(b, id)
  <2>1. b[parent].length = a[parent].length
    BY <1>1, <1>2
  <2> QED BY <1>1, <1>2, <1>5, <1>7, <2>1 DEF Hangs
<1>9. \A n \in DOMAIN a : \A t \in DOMAIN a[n].children :
        t \in DOMAIN b[n].children /\ b[n].children[t] = a[n].children[t]
  BY <1>1, <1>7
<1>10. ASSUME NEW n \in DOMAIN a \ {ROOT} PROVE Hangs(b, n)
  <2>1. Hangs(a, n) /\ a[n].parent \in DOMAIN a
    BY DEF Shape, Hangs
  <2> QED BY <1>1, <1>9, <2>1 DEF Hangs
<1>11. ASSUME NEW n \in DOMAIN a, NEW t \in DOMAIN a[n].children PROVE Leads(b, n, t)
  <2>1. Leads(a, n, t)
    BY DEF Shape
  <2> QED BY <1>1, <1>9, <2>1 DEF Leads
<1>12. Leads(b, parent, Head(edge))
  <2>1. id # ROOT /\ parent # id
    BY <1>1, <1>2, <1>3
  <2> QED BY <1>1, <1>7, <2>1 DEF Leads
<1>13. \A n \in DOMAIN b : \A t \in DOMAIN b[n].children : Leads(b, n, t)
  <2> SUFFICES ASSUME NEW n \in DOMAIN b, NEW t \in DOMAIN b[n].children PROVE Leads(b, n, t)
    OBVIOUS
  <2>1. CASE n = id
    <3>1. DOMAIN <<>> = {}
      OBVIOUS
    <3> QED BY <1>1, <2>1, <3>1
  <2>2. CASE n # id
    <3>1. n \in DOMAIN a /\ (t \in DOMAIN a[n].children \/ (n = parent /\ t = Head(edge)))
      BY <1>1, <1>7, <2>2
    <3> QED BY <1>11, <1>12, <3>1
  <2> QED BY <2>1, <2>2
<1>14. \A n \in DOMAIN b \ {ROOT} : Hangs(b, n)
  BY <1>1, <1>8, <1>10
<1>15. b[ROOT].length = 0
  BY <1>1, <1>3
<1> QED BY <1>6, <1>13, <1>14, <1>15 DEF Shape

(* The new leaf has the pages it was given; nothing else reads otherwise.   *)
LEMMA GrownReads ==
  ASSUME NEW a, Shape(a), NEW parent, NEW edge, NEW pages, Fits(a, parent, edge, pages),
         NEW id, NEW b, IsGrown(b, a, id, parent, edge, pages)
  PROVE  /\ \A n \in DOMAIN a : /\ Path(b, n) = Path(a, n)
                                /\ PageTableOf(b, n) = PageTableOf(a, n)
                                /\ PrefixOf(b, n) = PrefixOf(a, n)
         /\ Path(b, id) = {id} \cup Path(a, parent)
         /\ PageTableOf(b, id) = pages
         /\ PrefixOf(b, id) = PrefixOf(a, parent) \o edge
<1> DEFINE Paths  == [n \in DOMAIN b |-> IF n = id THEN {id} \cup Path(a, parent) ELSE Path(a, n)]
           Tables == [n \in DOMAIN b |-> IF n = id THEN pages ELSE PageTableOf(a, n)]
           Texts1 == [n \in DOMAIN b |-> IF n = id THEN PrefixOf(a, parent) \o edge ELSE PrefixOf(a, n)]
<1>1. /\ id \in Nat \ DOMAIN a
      /\ DOMAIN b = DOMAIN a \cup {id}
      /\ \A n \in DOMAIN a :
           b[n].parent = a[n].parent /\ b[n].edge = a[n].edge /\ b[n].delta = a[n].delta
      /\ b[id].parent = parent /\ b[id].edge = edge
      /\ b[id].delta = PageDelta(PageTableOf(a, parent), pages)
  BY DEF IsGrown
<1>2. parent \in DOMAIN a /\ pages \in Seq(Page) /\ ROOT \in DOMAIN a /\ ROOT # id /\ parent # id
  BY <1>1 DEF Fits, Shape, Typed
<1>3. Shape(b)
  BY GrownKeepsShape
<1>4. \A n \in DOMAIN a \ {ROOT} : a[n].parent \in DOMAIN a
  BY ParentOf
<1>5. Table(PageTableOf(a, parent), PageDelta(PageTableOf(a, parent), pages)) = pages
  <2>1. PageTableOf(a, parent) \in Seq(Page)
    BY <1>2, TableSteps
  <2> QED BY <1>2, <2>1, PageDeltaFacts
<1>6. ASSUME NEW n \in DOMAIN b \ {ROOT, id}
      PROVE  n \in DOMAIN a \ {ROOT} /\ a[n].parent \in DOMAIN a \ {id} /\ b[n].parent = a[n].parent
             /\ b[n].edge = a[n].edge /\ b[n].delta = a[n].delta
  BY <1>1, <1>4
<1>7. \A n \in DOMAIN b : Path(b, n) = Paths[n]
  <2>1. Paths[ROOT] = {}
    BY <1>1, <1>2, PathSteps
  <2>2. ASSUME NEW n \in DOMAIN b \ {ROOT} PROVE Paths[n] = {n} \cup Paths[b[n].parent]
    <3>1. CASE n = id
      BY <1>1, <1>2, <3>1
    <3>2. CASE n # id
      <4>1. Path(a, n) = {n} \cup Path(a, a[n].parent)
        BY <1>6, <3>2, PathSteps
      <4>2. Paths[n] = Path(a, n) /\ Paths[a[n].parent] = Path(a, a[n].parent)
        BY <1>1, <1>6, <3>2
      <4> HIDE DEF Paths
      <4> QED BY <1>6, <3>2, <4>1, <4>2
    <3> QED BY <3>1, <3>2
  <2> HIDE DEF Paths
  <2> QED BY <1>3, <2>1, <2>2, PathIs
<1>8. \A n \in DOMAIN b : PageTableOf(b, n) = Tables[n]
  <2>1. Tables[ROOT] = <<>>
    BY <1>1, <1>2, TableSteps
  <2>2. ASSUME NEW n \in DOMAIN b \ {ROOT} PROVE Tables[n] = Table(Tables[b[n].parent], b[n].delta)
    <3>1. CASE n = id
      BY <1>1, <1>2, <1>5, <3>1
    <3>2. CASE n # id
      <4>1. PageTableOf(a, n) = Table(PageTableOf(a, a[n].parent), a[n].delta)
        BY <1>6, <3>2, TableSteps
      <4>2. Tables[n] = PageTableOf(a, n) /\ Tables[a[n].parent] = PageTableOf(a, a[n].parent)
        BY <1>1, <1>6, <3>2
      <4> HIDE DEF Tables
      <4> QED BY <1>6, <3>2, <4>1, <4>2
    <3> QED BY <3>1, <3>2
  <2> HIDE DEF Tables
  <2> QED BY <1>3, <2>1, <2>2, TableIs
<1>9. \A n \in DOMAIN b : PrefixOf(b, n) = Texts1[n]
  <2>1. Texts1[ROOT] = <<>>
    BY <1>1, <1>2, PrefixSteps
  <2>2. ASSUME NEW n \in DOMAIN b \ {ROOT} PROVE Texts1[n] = Texts1[b[n].parent] \o b[n].edge
    <3>1. CASE n = id
      <4>1. Texts1[n] = PrefixOf(a, parent) \o edge /\ Texts1[parent] = PrefixOf(a, parent)
        BY <1>1, <1>2, <3>1
      <4> HIDE DEF Texts1
      <4> QED BY <1>1, <3>1, <4>1
    <3>2. CASE n # id
      <4>1. PrefixOf(a, n) = PrefixOf(a, a[n].parent) \o a[n].edge
        BY <1>6, <3>2, PrefixSteps
      <4>2. Texts1[n] = PrefixOf(a, n) /\ Texts1[a[n].parent] = PrefixOf(a, a[n].parent)
        BY <1>1, <1>6, <3>2
      <4> HIDE DEF Texts1
      <4> QED BY <1>6, <3>2, <4>1, <4>2
    <3> QED BY <3>1, <3>2
  <2> HIDE DEF Texts1
  <2> QED BY <1>3, <2>1, <2>2, PrefixIs
<1>10. ASSUME NEW n \in DOMAIN a
       PROVE  /\ Path(b, n) = Path(a, n) /\ PageTableOf(b, n) = PageTableOf(a, n)
              /\ PrefixOf(b, n) = PrefixOf(a, n)
  BY <1>1, <1>7, <1>8, <1>9
<1>11. /\ Path(b, id) = {id} \cup Path(a, parent) /\ PageTableOf(b, id) = pages
       /\ PrefixOf(b, id) = PrefixOf(a, parent) \o edge
  <2>1. id \in DOMAIN b
    BY <1>1
  <2> QED BY <1>7, <1>8, <1>9, <2>1
<1> QED BY <1>10, <1>11

LEMMA InsertKeepsTree ==
  ASSUME NEW a, Tree(a), NEW parent, NEW edge, NEW pages, Fits(a, parent, edge, pages)
  PROVE  /\ Tree(InsertRadixChild(a, parent, edge, pages))
         /\ \E g : /\ IsGrown(g, a, NewId(a), parent, edge, pages)
                   /\ SameTree(InsertRadixChild(a, parent, edge, pages), g)
                   /\ \A n \in DOMAIN g : InsertRadixChild(a, parent, edge, pages)[n].lock = g[n].lock
<1> DEFINE id == NewId(a)
           child == [parent   |-> parent,
                     edge     |-> edge,
                     length   |-> a[parent].length + Len(edge),
                     delta    |-> PageDelta(PageTableOf(a, parent), pages),
                     children |-> <<>>,
                     lock     |-> 0,
                     access   |-> 0]
           g == SetChild(InsertNode(a, child), parent, Head(edge), id)
<1>1. Shape(a) /\ TiesOn(a)
  BY DEF Tree
<1>2. IsGrown(g, a, id, parent, edge, pages)
  BY <1>1, GrownIs
<1>3. InsertRadixChild(a, parent, edge, pages) = Stamp(g, {id})
  BY DEF InsertRadixChild
<1> HIDE DEF g, id
<1>4. Shape(g)
  BY <1>1, <1>2, GrownKeepsShape
<1>5. \A n \in DOMAIN a : Path(g, n) = Path(a, n)
  BY <1>1, <1>2, GrownReads
<1>6. DOMAIN g = DOMAIN a \cup {id} /\ \A n \in DOMAIN a : g[n].access = a[n].access
  BY <1>2 DEF IsGrown
<1>7. \A n, q \in DOMAIN g \ ({ROOT} \cup {id}) :
        g[n].access = g[q].access => n \in Path(g, q) \/ q \in Path(g, n)
  BY <1>1, <1>5, <1>6 DEF TiesOn
<1>8. \A n, q \in (DOMAIN g \ {ROOT}) \cap {id} : n \in Path(g, q) \/ q \in Path(g, n)
  BY <1>4, PathSteps
<1>9. /\ SameTree(Stamp(g, {id}), g) /\ Tree(Stamp(g, {id}))
      /\ \A n \in DOMAIN g : Stamp(g, {id})[n].lock = g[n].lock
  BY <1>4, <1>7, <1>8, StampMakesTree
<1> QED BY <1>2, <1>3, <1>9 DEF id

-----------------------------------------------------------------------------
(* Nodes less: what is removed takes all that hangs below it with it.       *)
Droops(a, S) ==
  /\ ROOT \notin S
  /\ \A n \in DOMAIN a \ {ROOT} : a[n].parent \in S => n \in S

IsPruned(b, a, S) ==
  /\ DOMAIN b = DOMAIN a \ S /\ b = [n \in DOMAIN b |-> b[n]]
  /\ \A n \in DOMAIN a \ S :
       /\ b[n] \in Node
       /\ b[n].parent = a[n].parent /\ b[n].edge = a[n].edge /\ b[n].length = a[n].length
       /\ b[n].delta = a[n].delta /\ b[n].lock = a[n].lock /\ b[n].access = a[n].access
       /\ DOMAIN b[n].children = {t \in DOMAIN a[n].children : a[n].children[t] \notin S}
       /\ \A t \in DOMAIN b[n].children : b[n].children[t] = a[n].children[t]

LEMMA PrunedIs ==
  ASSUME NEW a, Shape(a), NEW S
  PROVE  IsPruned(RemoveAll(a, S), a, S)
<1> DEFINE b == RemoveAll(a, S)
           less(n) == [t \in {t \in DOMAIN a[n].children : a[n].children[t] \notin S} |-> a[n].children[t]]
<1>1. Typed(a)
  BY DEF Shape
<1>2. /\ DOMAIN b = DOMAIN a \ S /\ b = [n \in DOMAIN b |-> b[n]]
      /\ \A n \in DOMAIN a \ S : b[n] = [a[n] EXCEPT !.children = less(n)]
  BY DEF RemoveAll
<1> HIDE DEF b
<1>3. ASSUME NEW n \in DOMAIN a \ S
      PROVE  /\ b[n] \in Node
             /\ b[n].parent = a[n].parent /\ b[n].edge = a[n].edge /\ b[n].length = a[n].length
             /\ b[n].delta = a[n].delta /\ b[n].lock = a[n].lock /\ b[n].access = a[n].access
             /\ DOMAIN b[n].children = {t \in DOMAIN a[n].children : a[n].children[t] \notin S}
             /\ \A t \in DOMAIN b[n].children : b[n].children[t] = a[n].children[t]
  <2>1. PICK c : c = less(n)
    OBVIOUS
  <2>2. /\ DOMAIN c = {t \in DOMAIN a[n].children : a[n].children[t] \notin S}
        /\ \A t \in DOMAIN c : c[t] = a[n].children[t]
    BY <2>1
  <2>3. c \in UNION {[T -> Nat] : T \in SUBSET Token}
    <3>1. /\ DOMAIN a[n].children \subseteq Token
          /\ \A t \in DOMAIN a[n].children : a[n].children[t] \in Nat
      BY <1>1, NodeFields
    <3>2. DOMAIN c \in SUBSET Token /\ c \in [DOMAIN c -> Nat]
      BY <2>1, <2>2, <3>1
    <3> QED BY <3>2
  <2>4. a[n] \in Node /\ b[n] = [a[n] EXCEPT !.children = c]
    BY <1>1, <1>2, <2>1, NodeFields
  <2> HIDE DEF less
  <2> QED BY <2>2, <2>3, <2>4 DEF Node
<1> QED BY <1>2, <1>3 DEF IsPruned, b

LEMMA PrunedKeepsShape ==
  ASSUME NEW a, Shape(a), NEW S, Droops(a, S), NEW b, IsPruned(b, a, S)
  PROVE  Shape(b)
<1>1. /\ DOMAIN b = DOMAIN a \ S /\ b = [n \in DOMAIN b |-> b[n]]
      /\ \A n \in DOMAIN a \ S :
           /\ b[n] \in Node
           /\ b[n].parent = a[n].parent /\ b[n].edge = a[n].edge /\ b[n].length = a[n].length
           /\ b[n].delta = a[n].delta
           /\ DOMAIN b[n].children = {t \in DOMAIN a[n].children : a[n].children[t] \notin S}
           /\ \A t \in DOMAIN b[n].children : b[n].children[t] = a[n].children[t]
  BY DEF IsPruned
<1>2. /\ ROOT \in DOMAIN a \ S /\ a[ROOT].length = 0
      /\ IsFiniteSet(DOMAIN a) /\ DOMAIN a \subseteq Nat
  BY DEF Shape, Typed, Droops
<1>3. Typed(b)
  <2>1. IsFiniteSet(DOMAIN b)
    BY <1>1, <1>2, FS_Subset
  <2>2. \A n \in DOMAIN b : b[n] \in Node
    BY <1>1
  <2>3. b \in [DOMAIN b -> Node]
    BY <1>1, <2>2
  <2> QED BY <1>1, <1>2, <2>1, <2>3 DEF Typed
<1>4. ASSUME NEW n \in DOMAIN b \ {ROOT} PROVE Hangs(b, n)
  <2>1. n \in DOMAIN a \ {ROOT} /\ n \notin S
    BY <1>1
  <2>2. Hangs(a, n)
    BY <2>1 DEF Shape
  <2>3. a[n].parent \in DOMAIN a \ S
    BY <2>1, <2>2 DEF Hangs, Droops
  <2> QED BY <1>1, <2>1, <2>2, <2>3 DEF Hangs
<1>5. ASSUME NEW n \in DOMAIN b, NEW t \in DOMAIN b[n].children PROVE Leads(b, n, t)
  <2>1. n \in DOMAIN a \ S /\ t \in DOMAIN a[n].children /\ a[n].children[t] \notin S
        /\ b[n].children[t] = a[n].children[t]
    BY <1>1
  <2>2. Leads(a, n, t)
    BY <2>1 DEF Shape
  <2> QED BY <1>1, <2>1, <2>2 DEF Leads
<1> QED BY <1>1, <1>2, <1>3, <1>4, <1>5 DEF Shape

LEMMA PrunedReads ==
  ASSUME NEW a, Shape(a), NEW S, Droops(a, S), NEW b, IsPruned(b, a, S)
  PROVE  \A n \in DOMAIN b : /\ Path(b, n) = Path(a, n)
                             /\ PageTableOf(b, n) = PageTableOf(a, n)
                             /\ PrefixOf(b, n) = PrefixOf(a, n)
<1> DEFINE Paths  == [n \in DOMAIN b |-> Path(a, n)]
           Tables == [n \in DOMAIN b |-> PageTableOf(a, n)]
           Texts1 == [n \in DOMAIN b |-> PrefixOf(a, n)]
<1>1. /\ DOMAIN b = DOMAIN a \ S
      /\ \A n \in DOMAIN a \ S :
           b[n].parent = a[n].parent /\ b[n].edge = a[n].edge /\ b[n].delta = a[n].delta
  BY DEF IsPruned
<1>2. Shape(b)
  BY PrunedKeepsShape
<1>3. ROOT \in DOMAIN b
  BY <1>2 DEF Shape, Typed
<1>4. ASSUME NEW n \in DOMAIN b \ {ROOT}
      PROVE  /\ n \in DOMAIN a \ {ROOT} /\ a[n].parent \in DOMAIN b /\ b[n].parent = a[n].parent
             /\ b[n].edge = a[n].edge /\ b[n].delta = a[n].delta
  BY <1>1, <1>2, ParentOf
<1>5. \A n \in DOMAIN b : Path(b, n) = Paths[n]
  <2>1. Paths[ROOT] = {}
    BY <1>3, PathSteps
  <2>2. ASSUME NEW n \in DOMAIN b \ {ROOT} PROVE Paths[n] = {n} \cup Paths[b[n].parent]
    BY <1>4, PathSteps
  <2> HIDE DEF Paths
  <2> QED BY <1>2, <2>1, <2>2, PathIs
<1>6. \A n \in DOMAIN b : PageTableOf(b, n) = Tables[n]
  <2>1. Tables[ROOT] = <<>>
    BY <1>3, TableSteps
  <2>2. ASSUME NEW n \in DOMAIN b \ {ROOT} PROVE Tables[n] = Table(Tables[b[n].parent], b[n].delta)
    BY <1>4, TableSteps
  <2> HIDE DEF Tables
  <2> QED BY <1>2, <2>1, <2>2, TableIs
<1>7. \A n \in DOMAIN b : PrefixOf(b, n) = Texts1[n]
  <2>1. Texts1[ROOT] = <<>>
    BY <1>3, PrefixSteps
  <2>2. ASSUME NEW n \in DOMAIN b \ {ROOT} PROVE Texts1[n] = Texts1[b[n].parent] \o b[n].edge
    <3>1. PrefixOf(a, n) = PrefixOf(a, a[n].parent) \o a[n].edge
      BY <1>4, PrefixSteps
    <3>2. Texts1[n] = PrefixOf(a, n) /\ Texts1[b[n].parent] = PrefixOf(a, a[n].parent)
      BY <1>4
    <3> HIDE DEF Texts1
    <3> QED BY <1>4, <3>1, <3>2
  <2> HIDE DEF Texts1
  <2> QED BY <1>2, <2>1, <2>2, PrefixIs
<1> QED BY <1>5, <1>6, <1>7

LEMMA RemoveKeepsTree ==
  ASSUME NEW a, Tree(a), NEW S, Droops(a, S)
  PROVE  Tree(RemoveAll(a, S))
<1> DEFINE b == RemoveAll(a, S)
<1>1. Shape(a) /\ TiesOn(a)
  BY DEF Tree
<1>2. IsPruned(b, a, S)
  BY <1>1, PrunedIs
<1> HIDE DEF b
<1>3. Shape(b) /\ \A n \in DOMAIN b : Path(b, n) = Path(a, n)
  BY <1>1, <1>2, PrunedKeepsShape, PrunedReads
<1>4. DOMAIN b \subseteq DOMAIN a /\ \A n \in DOMAIN b : b[n].access = a[n].access
  BY <1>2 DEF IsPruned
<1>5. TiesOn(b)
  BY <1>1, <1>3, <1>4 DEF TiesOn
<1> QED BY <1>3, <1>5 DEF Tree, b

(* A leaf is nobody's parent, a subtree is closed below.                    *)
LEMMA LeafDroops ==
  ASSUME NEW a, Shape(a), NEW n \in Evictable(a)
  PROVE  Droops(a, {n})
<1>1. n \in DOMAIN a \ {ROOT} /\ a[n].children = <<>>
  BY DEF Evictable, IsLeaf
<1>2. ASSUME NEW q \in DOMAIN a \ {ROOT} PROVE a[q].parent # n
  <2>1. Head(a[q].edge) \in DOMAIN a[a[q].parent].children
    BY DEF Shape, Hangs
  <2>2. DOMAIN <<>> = {}
    OBVIOUS
  <2> QED BY <1>1, <2>1, <2>2
<1> QED BY <1>1, <1>2 DEF Droops

LEMMA SubtreeDroops ==
  ASSUME NEW a, Shape(a), NEW id \in DOMAIN a \ {ROOT}
  PROVE  Droops(a, Subtree(a, id))
<1> DEFINE S == {n \in DOMAIN a : id \in Path(a, n)}
<1>1. ROOT \notin S
  BY PathSteps
<1>2. ASSUME NEW n \in DOMAIN a \ {ROOT}, a[n].parent \in S PROVE n \in S
  BY <1>2, PathSteps
<1>3. Subtree(a, id) = S \/ Subtree(a, id) = {}
  BY DEF Subtree
<1> QED BY <1>1, <1>2, <1>3 DEF Droops

(* evict_one_leaf's candidate exists whenever anything can be evicted: it is *)
(* the one of the smallest id among those of the smallest stamp.            *)
LEMMA OldestIsEvictable ==
  ASSUME NEW a, Shape(a), Evictable(a) # {}
  PROVE  Oldest(a) \in Evictable(a)
<1> DEFINE E == Evictable(a)
           T == {a[n].access : n \in E}
<1>1. /\ E \subseteq DOMAIN a /\ \A n \in E : n \in Nat /\ a[n].access \in Nat
  BY NodeFields DEF Evictable, Shape
<1>2. PICK m \in T : \A k \in T : m <= k
  <2>1. T \in SUBSET Nat /\ T # {}
    BY <1>1
  <2> HIDE DEF T
  <2> QED BY <2>1, LeastOf
<1> DEFINE F == {n \in E : a[n].access = m}
<1>3. PICK n \in F : \A q \in F : n <= q
  <2>1. F \in SUBSET Nat /\ F # {}
    BY <1>1, <1>2
  <2> HIDE DEF F
  <2> QED BY <2>1, LeastOf
<1>4. n \in E /\ \A q \in E : \/ a[n].access < a[q].access
                              \/ a[n].access = a[q].access /\ n <= q
  <2>1. ASSUME NEW q \in E
        PROVE  \/ a[n].access < a[q].access
               \/ a[n].access = a[q].access /\ n <= q
    <3>1. m <= a[q].access /\ a[n].access = m /\ a[q].access \in Nat /\ m \in Nat
      BY <1>1, <1>2, <1>3
    <3>2. a[q].access = m => n <= q
      BY <1>3
    <3> QED BY <3>1, <3>2
  <2> QED BY <1>3, <2>1
<1> QED BY <1>4 DEF Oldest

-----------------------------------------------------------------------------
(* The inductive invariant                                                  *)

Loop == /\ busy \in Request \cup {None} /\ goal \in Nat
        /\ busy # None => handle[busy] \in Reservation

TreeInv ==
  /\ Tree(nodes)
  /\ free \in SUBSET Page /\ reserved \in Int
  /\ handle \in [Request -> Reservation \cup {None}]
  /\ Loop

LEMMA SharedFacts ==
  ASSUME NEW n \in Nat, NEW cap \in Nat
  PROVE  /\ n \div PageTokens \in Nat /\ n \div PageTokens <= PagesFor(n)
         /\ SharedPages(n, cap) \in Nat /\ SharedPages(n, cap) <= PagesFor(n)
         /\ PagesFor(n) \in Nat
<1>1. n \div PageTokens \in Nat /\ n \div PageTokens <= PagesFor(n)
  BY TreeAssumption DEF PagesFor
<1>2. PagesFor(n) \in Nat
  BY PagesForFacts
<1> QED BY <1>1, <1>2 DEF SharedPages

LEMMA Elements ==
  ASSUME NEW S, NEW s \in Seq(S)
  PROVE  ToSet(s) \subseteq S
BY DEF ToSet

(* What the match of a text hands to its caller.                            *)
LEMMA MatchFacts ==
  ASSUME Tree(nodes), NEW ids \in Seq(Token),
         NEW m, m = MatchPrefix(nodes, ids)
  PROVE  LET matched == m.tree[m.terminal].length
             table   == PageTableOf(m.tree, m.terminal)
         IN  /\ Matches(m, ids) /\ Tree(m.tree)
             /\ m.terminal \in DOMAIN m.tree /\ m.terminal \in Nat
             /\ matched \in Nat /\ matched <= Len(ids)
             /\ table \in Seq(Page) /\ Len(table) = PagesFor(matched)
<1>1. Matches(m, ids)
  BY MatchPrefixIs
<1>2. /\ Tree(m.tree) /\ m.terminal \in DOMAIN m.tree
      /\ m.tree[m.terminal].length <= Len(ids)
  BY <1>1 DEF Matches, Spells
<1>3. m.terminal \in Nat /\ m.tree[m.terminal].length \in Nat
  BY <1>2, NodeFields DEF Tree, Shape
<1> QED BY <1>1, <1>2, <1>3, TableSteps DEF Tree

LEMMA AllocateKeeps ==
  ASSUME NEW r \in Request, NEW have, NEW pages \in Nat, Loop, Allocate(r, have, pages),
         busy = None, handle'[r] \in Reservation
  PROVE  Loop'
BY DEF Loop, Allocate

LEMMA StartOfTree == Init => TreeInv
<1> SUFFICES ASSUME Init PROVE TreeInv
  OBVIOUS
<1> DEFINE root == [parent |-> ROOT, edge |-> <<>>, length |-> 0,
                    delta |-> [retain |-> 0, pages |-> <<>>],
                    children |-> <<>>, lock |-> 0, access |-> 0]
<1>1. nodes = Put(<<>>, ROOT, root)
  BY DEF Init
<1>2. PICK none : none = <<>>
  OBVIOUS
<1>3. none \in Seq(Token) /\ none \in Seq(Page) /\ DOMAIN none = {}
      /\ none \in UNION {[S -> Nat] : S \in SUBSET Token}
  <2>1. <<>> \in [{} -> Nat] /\ {} \in SUBSET Token
    OBVIOUS
  <2>2. <<>> \in UNION {[S -> Nat] : S \in SUBSET Token}
    BY <2>1
  <2>3. DOMAIN <<>> = {}
    OBVIOUS
  <2>4. <<>> \in Seq(Token) /\ <<>> \in Seq(Page)
    OBVIOUS
  <2> QED BY <1>2, <2>2, <2>3, <2>4
<1>4. root = [parent |-> ROOT, edge |-> none, length |-> 0,
              delta |-> [retain |-> 0, pages |-> none],
              children |-> none, lock |-> 0, access |-> 0]
  BY <1>2
<1>5. root.length = 0 /\ DOMAIN root.children = {}
  BY <1>3, <1>4
<1> HIDE DEF root
<1>6. root \in Node
  BY ONLY <1>3, <1>4, SMTT(20) DEF Node, ROOT
<1>7. DOMAIN nodes = {ROOT} /\ nodes[ROOT] = root /\ nodes = [n \in {ROOT} |-> root]
  <2>1. DOMAIN <<>> = {}
    OBVIOUS
  <2> QED BY <1>1, <2>1 DEF Put
<1>8. Typed(nodes)
  <2>1. nodes \in [DOMAIN nodes -> Node]
    BY <1>6, <1>7
  <2>2. IsFiniteSet({ROOT})
    BY FS_Singleton
  <2> QED BY <1>7, <2>1, <2>2 DEF Typed, ROOT
<1>9. Shape(nodes)
  BY <1>5, <1>7, <1>8 DEF Shape
<1>10. TiesOn(nodes)
  BY <1>7 DEF TiesOn
<1>11. /\ free = Page /\ reserved = 0 /\ handle = [r \in Request |-> None]
       /\ busy = None /\ goal = 0
  BY DEF Init
<1> QED BY <1>9, <1>10, <1>11 DEF TreeInv, Tree, Loop

LEMMA ReserveKeeps ==
  ASSUME TreeInv, NEW r \in Request, NEW ids \in Texts, NEW cap \in Asked, Reserve(r, ids, cap)
  PROVE  TreeInv'
<1>1. /\ Tree(nodes) /\ free \in SUBSET Page /\ reserved \in Int
      /\ handle \in [Request -> Reservation \cup {None}] /\ Loop
  BY DEF TreeInv
<1>2. ids \in Seq(Token) /\ cap \in Nat
  BY TreeAssumption
<1>3. PICK m : m = MatchPrefix(nodes, ids)
  OBVIOUS
<1>4. PICK matched : matched = m.tree[m.terminal].length
  OBVIOUS
<1>5. PICK table : table = PageTableOf(m.tree, m.terminal)
  OBVIOUS
<1>6. PICK touched : touched = TouchPath(m.tree, m.terminal)
  OBVIOUS
<1>7. PICK locked : locked = AddLock(touched, m.terminal, 1)
  OBVIOUS
<1>8. PICK direct : direct = SharedPages(matched, cap)
  OBVIOUS
<1>9. PICK promise : promise = PagesFor(cap) - direct
  OBVIOUS
<1>10. /\ m.terminal \in DOMAIN m.tree /\ m.terminal \in Nat /\ matched \in Nat
       /\ table \in Seq(Page) /\ Len(table) = PagesFor(matched)
       /\ Tree(m.tree)
  BY <1>1, <1>2, <1>3, <1>4, <1>5, MatchFacts
<1>11. Tree(touched)
  BY <1>6, <1>10, TouchKeepsTree
<1>12. Tree(locked)
  BY <1>7, <1>11, AddLockKeepsTree
<1>13. direct \in Nat /\ direct <= Len(table) /\ promise \in Int
  <2>1. direct \in Nat /\ direct <= PagesFor(matched)
    BY <1>2, <1>8, <1>10, SharedFacts
  <2>2. PagesFor(cap) \in Nat
    BY <1>2, PagesForFacts
  <2>3. PICK k : k = PagesFor(cap)
    OBVIOUS
  <2> QED BY <1>9, <1>10, <2>1, <2>2, <2>3
<1>14. PICK h : h = [terminal |-> m.terminal,
                     matched  |-> matched,
                     capacity |-> cap,
                     credit   |-> promise,
                     table    |-> SubSeq(table, 1, direct),
                     private  |-> <<>>,
                     boundary |-> IF direct < Len(table) THEN Last(table) ELSE None]
  OBVIOUS
<1>15. h \in Reservation
  <2>1. SubSeq(table, 1, direct) \in Seq(Page)
    BY <1>10, <1>13, CutSequence
  <2>2. (IF direct < Len(table) THEN Last(table) ELSE None) \in Page \cup {None}
    BY <1>10, <1>13 DEF Last
  <2>3. <<>> \in Seq(Page)
    OBVIOUS
  <2>4. PICK t, p, l : /\ t = SubSeq(table, 1, direct) /\ p = <<>>
                       /\ l = IF direct < Len(table) THEN Last(table) ELSE None
    OBVIOUS
  <2> QED BY <1>2, <1>10, <1>13, <1>14, <2>1, <2>2, <2>3, <2>4 DEF Reservation
<1>16. /\ busy = None /\ free' = free
       /\ \/ nodes' = touched /\ UNCHANGED <<reserved, handle, busy, goal>>
          \/ /\ nodes' = locked /\ reserved' = reserved + promise
             /\ handle' = [handle EXCEPT ![r] = h]
             /\ Allocate(r, direct, PagesFor(Len(ids)))
  BY <1>3, <1>4, <1>5, <1>6, <1>7, <1>8, <1>9, <1>14 DEF Reserve
<1>17. CASE nodes' = touched /\ UNCHANGED <<reserved, handle, busy, goal>>
  BY <1>1, <1>11, <1>16, <1>17 DEF TreeInv, Loop
<1>18. CASE /\ nodes' = locked /\ reserved' = reserved + promise
            /\ handle' = [handle EXCEPT ![r] = h]
            /\ Allocate(r, direct, PagesFor(Len(ids)))
  <2>1. handle'[r] = h /\ handle' \in [Request -> Reservation \cup {None}]
    BY <1>1, <1>15, <1>18
  <2>2. PagesFor(Len(ids)) \in Nat
    BY <1>2, PagesForFacts
  <2>3. Loop'
    BY <1>1, <1>15, <1>16, <1>18, <2>1, <2>2, AllocateKeeps
  <2> QED BY <1>1, <1>12, <1>13, <1>16, <1>18, <2>1, <2>3 DEF TreeInv
<1> QED BY <1>16, <1>17, <1>18

LEMMA TakeBoundaryCopyKeeps ==
  ASSUME TreeInv, NEW r \in Request, TakeBoundaryCopy(r)
  PROVE  TreeInv'
<1>1. /\ busy = None /\ handle[r] \in Reservation
      /\ handle' = [handle EXCEPT ![r].boundary = None]
      /\ UNCHANGED <<nodes, free, reserved, busy, goal>>
  BY DEF TakeBoundaryCopy, TreeInv
<1>2. [handle[r] EXCEPT !.boundary = None] \in Reservation
  BY <1>1 DEF Reservation
<1>3. handle' = [handle EXCEPT ![r] = [handle[r] EXCEPT !.boundary = None]]
  BY <1>1
<1>4. handle' \in [Request -> Reservation \cup {None}]
  BY <1>2, <1>3 DEF TreeInv
<1> QED BY <1>1, <1>4 DEF TreeInv, Loop

LEMMA EnsureMaterializedKeeps ==
  ASSUME TreeInv, NEW r \in Request, NEW tokens \in Asked, EnsureMaterialized(r, tokens)
  PROVE  TreeInv'
<1>1. /\ busy = None /\ handle[r] \in Reservation
      /\ Allocate(r, Len(handle[r].table), PagesFor(tokens))
      /\ UNCHANGED <<nodes, free, reserved, handle>>
  BY DEF EnsureMaterialized, TreeInv
<1>2. PagesFor(tokens) \in Nat
  BY PagesForFacts, TreeAssumption
<1>3. Loop'
  BY <1>1, <1>2, AllocateKeeps DEF TreeInv
<1> QED BY <1>1, <1>3 DEF TreeInv

LEMMA TakePageKeeps ==
  ASSUME TreeInv, NEW p \in Page, TakePage(p)
  PROVE  TreeInv'
<1>1. /\ busy \in Request /\ handle[busy] \in Reservation
      /\ free' = free \ {p}
      /\ handle' = [handle EXCEPT ![busy].table = Append(@, p),
                                  ![busy].private = Append(@, p)]
      /\ \/ busy' = None /\ goal' = 0
         \/ UNCHANGED <<busy, goal>>
      /\ UNCHANGED <<nodes, reserved>>
  BY DEF TakePage, TreeInv, Loop
<1> DEFINE h == [handle[busy] EXCEPT !.table = Append(@, p), !.private = Append(@, p)]
<1>2. h \in Reservation
  <2>1. handle[busy].table \in Seq(Page) /\ handle[busy].private \in Seq(Page)
    BY <1>1 DEF Reservation
  <2>2. PICK t, q : t = Append(handle[busy].table, p) /\ q = Append(handle[busy].private, p)
    OBVIOUS
  <2>3. t \in Seq(Page) /\ q \in Seq(Page)
    BY <2>1, <2>2
  <2>4. h = [handle[busy] EXCEPT !.table = t, !.private = q]
    BY <2>2
  <2> QED BY <1>1, <2>3, <2>4 DEF Reservation
<1>3. handle' = [handle EXCEPT ![busy] = h]
  BY <1>1 DEF TreeInv
<1> HIDE DEF h
<1>4. handle' \in [Request -> Reservation \cup {None}] /\ handle'[busy] \in Reservation
  BY <1>1, <1>2, <1>3 DEF TreeInv
<1> QED BY <1>1, <1>4 DEF TreeInv, Loop

LEMMA EvictOneLeafKeeps ==
  ASSUME TreeInv, EvictOneLeaf
  PROVE  TreeInv'
<1>1. /\ Evictable(nodes) # {}
      /\ nodes' = RemoveAll(nodes, {Oldest(nodes)})
      /\ free' = ToSet(nodes[Oldest(nodes)].delta.pages)
      /\ UNCHANGED <<reserved, handle, busy, goal>>
  BY DEF EvictOneLeaf
<1>2. Tree(nodes) /\ Shape(nodes)
  BY DEF TreeInv, Tree
<1>3. Oldest(nodes) \in Evictable(nodes)
  BY <1>1, <1>2, OldestIsEvictable
<1>4. Tree(nodes')
  BY <1>1, <1>2, <1>3, LeafDroops, RemoveKeepsTree
<1>5. nodes[Oldest(nodes)].delta.pages \in Seq(Page)
  BY <1>2, <1>3, NodeFields DEF Evictable, Shape
<1>6. free' \in SUBSET Page
  BY <1>1, <1>5, Elements
<1> QED BY <1>1, <1>4, <1>6 DEF TreeInv, Loop

LEMMA FinishKeeps ==
  ASSUME TreeInv, NEW r \in Request, handle[r] # None, busy = None,
         NEW a, Tree(a), Finish(r, a), NEW S \in SUBSET Page, free' = free \cup S
  PROVE  TreeInv'
<1>1. /\ nodes' = AddLock(a, handle[r].terminal, -1)
      /\ reserved' = reserved - handle[r].credit
      /\ handle' = [handle EXCEPT ![r] = None]
      /\ UNCHANGED <<busy, goal>>
  BY DEF Finish
<1>2. handle[r] \in Reservation /\ handle[r].credit \in Int
  BY DEF TreeInv, Reservation
<1>3. Tree(nodes')
  BY <1>1, AddLockKeepsTree
<1>4. reserved' \in Int /\ handle' \in [Request -> Reservation \cup {None}] /\ free' \in SUBSET Page
  BY <1>1, <1>2 DEF TreeInv
<1> QED BY <1>1, <1>3, <1>4 DEF TreeInv, Loop

LEMMA CancelKeeps ==
  ASSUME TreeInv, NEW r \in Request, Cancel(r)
  PROVE  TreeInv'
<1>1. /\ busy = None /\ handle[r] # None /\ Finish(r, nodes)
      /\ free' = free \cup ToSet(handle[r].private)
  BY DEF Cancel
<1>2. handle[r].private \in Seq(Page)
  BY <1>1 DEF TreeInv, Reservation
<1>3. ToSet(handle[r].private) \in SUBSET Page
  BY <1>2, Elements
<1> QED BY <1>1, <1>3, FinishKeeps DEF TreeInv

(* What a commit adds to the tree fits: no child of the terminal goes on as *)
(* the text does, and there is a page for every page of it.                 *)
LEMMA CommitFits ==
  ASSUME NEW ids \in Seq(Token), NEW m, Matches(m, ids),
         NEW touched, SameTree(touched, m.tree),
         NEW own \in Seq(Page), PagesFor(Len(ids)) <= Len(own),
         m.tree[m.terminal].length # Len(ids)
  PROVE  LET found    == m.tree[m.terminal].length
             reusable == found \div PageTokens
         IN  Fits(touched, m.terminal, SubSeq(ids, found + 1, Len(ids)),
                  SubSeq(PageTableOf(m.tree, m.terminal), 1, reusable)
                    \o SubSeq(own, reusable + 1, PagesFor(Len(ids))))
<1>1. PICK found : found = m.tree[m.terminal].length
  OBVIOUS
<1>2. PICK reusable : reusable = found \div PageTokens
  OBVIOUS
<1>3. PICK table : table = PageTableOf(m.tree, m.terminal)
  OBVIOUS
<1>4. PICK whole : whole = PagesFor(Len(ids))
  OBVIOUS
<1>5. /\ Tree(m.tree) /\ m.terminal \in DOMAIN m.tree
      /\ found < Len(ids)
      /\ ids[found + 1] \notin DOMAIN m.tree[m.terminal].children
      /\ found \in Nat
  <2>1. /\ Tree(m.tree) /\ m.terminal \in DOMAIN m.tree
        /\ found <= Len(ids)
        /\ found < Len(ids) => ids[found + 1] \notin DOMAIN m.tree[m.terminal].children
    BY <1>1 DEF Matches, Spells
  <2>2. found \in Nat
    BY <1>1, <2>1, NodeFields DEF Tree, Shape
  <2>3. found # Len(ids)
    BY <1>1
  <2> QED BY <2>1, <2>2, <2>3
<1>6. /\ m.terminal \in DOMAIN touched /\ touched[m.terminal].length = found
      /\ touched[m.terminal].children = m.tree[m.terminal].children
  BY <1>1, <1>5 DEF SameTree
<1>7. table \in Seq(Page) /\ Len(table) = PagesFor(found)
  BY <1>1, <1>3, <1>5, TableSteps DEF Tree
<1>8. PICK edge : edge = SubSeq(ids, found + 1, Len(ids))
  OBVIOUS
<1>9. /\ edge \in Seq(Token) /\ Len(edge) = Len(ids) - found /\ edge # <<>>
      /\ Head(edge) = ids[found + 1]
  <2>1. /\ edge \in Seq(Token) /\ Len(edge) = Len(ids) - found
        /\ \A i \in 1 .. Len(ids) - found : edge[i] = ids[found + i]
    BY <1>5, <1>8, RestOfSequence
  <2>2. Len(edge) > 0
    BY <1>5, <2>1
  <2> QED BY <1>5, <2>1, <2>2
<1>10. /\ reusable \in Nat /\ reusable <= Len(table)
       /\ whole \in Nat /\ reusable <= whole /\ whole <= Len(own)
  <2>1. reusable \in Nat /\ reusable <= PagesFor(found) /\ PagesFor(found) \in Nat
    BY <1>2, <1>5, SharedFacts
  <2>2. whole \in Nat /\ PagesFor(found) <= whole
    BY <1>4, <1>5, PagesForFacts
  <2> QED BY <1>4, <1>7, <2>1, <2>2
<1>11. PICK first : first = SubSeq(table, 1, reusable)
  OBVIOUS
<1>12. PICK last : last = SubSeq(own, reusable + 1, whole)
  OBVIOUS
<1>13. first \in Seq(Page) /\ Len(first) = reusable
  BY <1>7, <1>10, <1>11, CutSequence
<1>14. last \in Seq(Page) /\ Len(last) = whole - reusable
  BY <1>10, <1>12
<1>15. first \o last \in Seq(Page) /\ Len(first \o last) = whole
  <2>1. first \o last \in Seq(Page) /\ Len(first \o last) = Len(first) + Len(last)
    BY <1>13, <1>14, Joined
  <2> QED BY <1>10, <1>13, <1>14, <2>1
<1>16. found + Len(edge) = Len(ids)
  BY <1>5, <1>9
<1>17. Fits(touched, m.terminal, edge, first \o last)
  BY <1>4, <1>5, <1>6, <1>9, <1>15, <1>16 DEF Fits
<1> QED BY <1>1, <1>2, <1>3, <1>4, <1>8, <1>11, <1>12, <1>17

LEMMA CommitKeeps ==
  ASSUME TreeInv, NEW r \in Request, NEW ids \in Texts, Commit(r, ids)
  PROVE  TreeInv'
<1>1. Tree(nodes) /\ ids \in Seq(Token)
  BY TreeAssumption DEF TreeInv
<1>2. PICK m : m = MatchPrefix(nodes, ids)
  OBVIOUS
<1>3. PICK found : found = m.tree[m.terminal].length
  OBVIOUS
<1>4. PICK touched : touched = TouchPath(m.tree, m.terminal)
  OBVIOUS
<1>5. PICK reusable : reusable = found \div PageTokens
  OBVIOUS
<1>6. PICK canonical :
        canonical = IF found = Len(ids) THEN PageTableOf(m.tree, m.terminal)
                    ELSE SubSeq(PageTableOf(m.tree, m.terminal), 1, reusable)
                           \o SubSeq(handle[r].table, reusable + 1, PagesFor(Len(ids)))
  OBVIOUS
<1>7. PICK a : a = IF found = Len(ids) THEN touched
                   ELSE InsertRadixChild(touched, m.terminal,
                          SubSeq(ids, found + 1, Len(ids)), canonical)
  OBVIOUS
<1>8. /\ busy = None /\ handle[r] # None
      /\ PagesFor(Len(ids)) <= Len(handle[r].table)
      /\ Finish(r, a)
      /\ free' = free \cup (ToSet(handle[r].private) \ ToSet(canonical))
  BY <1>2, <1>3, <1>4, <1>5, <1>6, <1>7 DEF Commit
<1>9. handle[r].table \in Seq(Page) /\ handle[r].private \in Seq(Page)
  BY <1>8 DEF TreeInv, Reservation
<1>10. Matches(m, ids) /\ Tree(m.tree) /\ m.terminal \in DOMAIN m.tree
  BY <1>1, <1>2, MatchFacts
<1>11. SameTree(touched, m.tree) /\ Tree(touched)
  BY <1>4, <1>10, TouchKeepsTree
<1>12. Tree(a)
  <2>1. CASE found = Len(ids)
    BY <1>7, <1>11, <2>1
  <2>2. CASE found # Len(ids)
    <3>1. canonical = SubSeq(PageTableOf(m.tree, m.terminal), 1, reusable)
                        \o SubSeq(handle[r].table, reusable + 1, PagesFor(Len(ids)))
      BY <1>6, <2>2
    <3>2. Fits(touched, m.terminal, SubSeq(ids, found + 1, Len(ids)), canonical)
      BY <1>1, <1>3, <1>5, <1>8, <1>9, <1>10, <1>11, <2>2, <3>1, CommitFits
    <3>3. Tree(InsertRadixChild(touched, m.terminal, SubSeq(ids, found + 1, Len(ids)), canonical))
      BY <1>11, <3>2, InsertKeepsTree
    <3> QED BY <1>7, <2>2, <3>3
  <2> QED BY <2>1, <2>2
<1>13. ToSet(handle[r].private) \ ToSet(canonical) \in SUBSET Page
  BY <1>9, Elements
<1> QED BY <1>8, <1>12, <1>13, FinishKeeps

LEMMA EvictExactKeeps ==
  ASSUME TreeInv, NEW ids \in Seq(Token), NEW m, m = MatchPrefix(nodes, ids), NEW victims,
         ids # <<>> /\ m.tree[m.terminal].length = Len(ids)
           => victims \subseteq DOMAIN m.tree /\ Droops(m.tree, victims),
         EvictExact(m, ids, victims)
  PROVE  TreeInv'
<1>1. PICK S : S = IF m.tree[m.terminal].length = Len(ids) THEN victims ELSE {}
  OBVIOUS
<1>2. /\ ids # <<>>
      /\ nodes' = RemoveAll(m.tree, S)
      /\ free' = free \cup UNION {ToSet(m.tree[n].delta.pages) : n \in S}
      /\ UNCHANGED <<reserved, handle, busy, goal>>
  BY <1>1 DEF EvictExact
<1>3. Tree(m.tree) /\ Typed(m.tree)
  BY MatchFacts DEF TreeInv, Tree, Shape
<1>4. S \subseteq DOMAIN m.tree /\ Droops(m.tree, S)
  BY <1>1, <1>2 DEF Droops
<1>5. Tree(nodes')
  BY <1>2, <1>3, <1>4, RemoveKeepsTree
<1>6. ASSUME NEW n \in S PROVE ToSet(m.tree[n].delta.pages) \subseteq Page
  BY <1>3, <1>4, NodeFields, Elements
<1>7. free' \in SUBSET Page
  BY <1>2, <1>6 DEF TreeInv
<1> QED BY <1>2, <1>5, <1>7 DEF TreeInv, Loop

LEMMA EvictExactLeafKeeps ==
  ASSUME TreeInv, NEW ids \in Texts, EvictExactLeaf(ids)
  PROVE  TreeInv'
<1>1. ids \in Seq(Token)
  BY TreeAssumption
<1>2. PICK m : m = MatchPrefix(nodes, ids)
  OBVIOUS
<1>3. EvictExact(m, ids, Leaf(m.tree, m.terminal))
  BY <1>2 DEF EvictExactLeaf
<1>4. Shape(m.tree)
  BY <1>1, <1>2, MatchFacts DEF TreeInv, Tree
<1>5. Leaf(m.tree, m.terminal) \subseteq DOMAIN m.tree /\ Droops(m.tree, Leaf(m.tree, m.terminal))
  <2>1. CASE m.terminal \in Evictable(m.tree)
    BY <1>4, <2>1, LeafDroops DEF Leaf, Evictable
  <2>2. CASE m.terminal \notin Evictable(m.tree)
    <3>1. Leaf(m.tree, m.terminal) = {}
      BY <2>2 DEF Leaf
    <3> QED BY <3>1 DEF Droops
  <2> QED BY <2>1, <2>2
<1> QED BY <1>1, <1>2, <1>3, <1>5, EvictExactKeeps

LEMMA EvictExactSubtreeKeeps ==
  ASSUME TreeInv, NEW ids \in Texts, EvictExactSubtree(ids)
  PROVE  TreeInv'
<1>1. ids \in Seq(Token)
  BY TreeAssumption
<1>2. PICK m : m = MatchPrefix(nodes, ids)
  OBVIOUS
<1>3. EvictExact(m, ids, Subtree(m.tree, m.terminal))
  BY <1>2 DEF EvictExactSubtree
<1>4. Shape(m.tree) /\ m.terminal \in DOMAIN m.tree
  BY <1>1, <1>2, MatchFacts DEF TreeInv, Tree
<1>5. ASSUME ids # <<>>, m.tree[m.terminal].length = Len(ids)
      PROVE  Droops(m.tree, Subtree(m.tree, m.terminal))
  <2>1. Len(ids) # 0
    BY <1>1, <1>5, EmptySeq, LenProperties
  <2>2. m.terminal # ROOT
    BY <1>4, <1>5, <2>1 DEF Shape
  <2> QED BY <1>4, <2>2, SubtreeDroops
<1>6. Subtree(m.tree, m.terminal) \subseteq DOMAIN m.tree
  BY DEF Subtree
<1> QED BY <1>1, <1>2, <1>3, <1>5, <1>6, EvictExactKeeps

(* Every operation keeps the invariant.                                     *)
LEMMA TreeStep == TreeInv /\ [Next]_treeVars => TreeInv'
<1> SUFFICES ASSUME TreeInv, [Next]_treeVars PROVE TreeInv'
  OBVIOUS
<1>1. ASSUME NEW r \in Request, NEW ids \in Texts, NEW cap \in Asked, Reserve(r, ids, cap) PROVE TreeInv'
  BY <1>1, ReserveKeeps
<1>2. ASSUME NEW r \in Request, NEW ids \in Texts, Commit(r, ids) PROVE TreeInv'
  BY <1>2, CommitKeeps
<1>3. ASSUME NEW r \in Request, TakeBoundaryCopy(r) PROVE TreeInv'
  BY <1>3, TakeBoundaryCopyKeeps
<1>4. ASSUME NEW r \in Request, NEW tokens \in Asked, EnsureMaterialized(r, tokens) PROVE TreeInv'
  BY <1>4, EnsureMaterializedKeeps
<1>5. ASSUME NEW r \in Request, Cancel(r) PROVE TreeInv'
  BY <1>5, CancelKeeps
<1>6. ASSUME NEW ids \in Texts, EvictExactLeaf(ids) PROVE TreeInv'
  BY <1>6, EvictExactLeafKeeps
<1>7. ASSUME NEW ids \in Texts, EvictExactSubtree(ids) PROVE TreeInv'
  BY <1>7, EvictExactSubtreeKeeps
<1>8. ASSUME NEW p \in Page, TakePage(p) PROVE TreeInv'
  BY <1>8, TakePageKeeps
<1>9. CASE EvictOneLeaf
  BY <1>9, EvictOneLeafKeeps
<1>10. CASE UNCHANGED treeVars
  BY <1>10 DEF TreeInv, Loop, treeVars
<1> QED BY <1>1, <1>2, <1>3, <1>4, <1>5, <1>6, <1>7, <1>8, <1>9, <1>10 DEF Next

(* Splits, inserts, removals, locks and stamps leave a tree: its shape, its *)
(* ties, and the types of everything a reservation holds.                   *)
THEOREM TreeInvariance == Spec => []TreeInv
<1>1. Init => TreeInv
  BY StartOfTree
<1>2. TreeInv /\ [Next]_treeVars => TreeInv'
  BY TreeStep
<1> QED BY <1>1, <1>2, PTL DEF Spec

(* NodesFormATree: after any sequence of matches, commits and evictions the *)
(* child maps, parent ids, edges, lengths and page deltas still make one    *)
(* tree, whose page tables have a page for every page of their prefix.      *)
THEOREM NodesStayATree == Spec => []NodesFormATree
<1>1. TreeInv => NodesFormATree
  <2> SUFFICES ASSUME TreeInv PROVE NodesFormATree
    OBVIOUS
  <2>1. Shape(nodes) /\ ROOT \in Ids
    BY DEF TreeInv, Tree, Shape, Typed, Ids
  <2>2. \A n \in Ids \ {ROOT} : Hangs(nodes, n) /\ Len(PageTableOf(nodes, n)) = PagesFor(nodes[n].length)
    BY <2>1, TableSteps DEF Shape, Ids
  <2>3. \A n \in Ids : \A t \in DOMAIN nodes[n].children : Leads(nodes, n, t)
    BY <2>1 DEF Shape, Ids
  <2> QED BY <2>1, <2>2, <2>3 DEF NodesFormATree, Hangs, Leads, Ids
<1> QED BY <1>1, TreeInvariance, PTL

(* TiesLieOnOnePath: an access stamps a whole path, or a new leaf, later    *)
(* than all others, and a split repeats the stamp of the node it splits, so *)
(* evict_one_leaf never decides between two leaves by their ids.            *)
THEOREM TiesStayOnOnePath == Spec => []TiesLieOnOnePath
<1>1. TreeInv => TiesLieOnOnePath
  BY DEF TreeInv, Tree, TiesOn, TiesLieOnOnePath, Ids
<1> QED BY <1>1, TreeInvariance, PTL

-----------------------------------------------------------------------------
(* Nodes and prefixes: a node is on the path to another exactly if its      *)
(* prefix is a prefix of the other's.                                       *)

(* The prefix cache that the tree stands for, with what is proved of it.    *)
R == INSTANCE TargetKvRadixProofs WITH
  tree     <- Named(nodes),
  active   <- Active,
  matched  <- Matched,
  capacity <- Capacity,
  credit   <- Credit,
  shared   <- Shared,
  private  <- Private,
  boundary <- Boundary

LEMMA SameLibrary ==
  /\ \A S : R!IsFiniteSet(S) <=> IsFiniteSet(S)
  /\ \A S : R!Cardinality(S) = Cardinality(S)
<1>1. \A S : R!IsFiniteSet(S) <=> IsFiniteSet(S)
  BY DEF R!IsFiniteSet, IsFiniteSet
<1>2. \A S : R!Cardinality(S) = Cardinality(S)
  BY DEF R!Cardinality, Cardinality
<1> QED BY <1>1, <1>2

LEMMA RadixAssumed ==
  /\ Texts \subseteq Seq(Token)
  /\ R!IsFiniteSet(Page) /\ None \notin Page
  /\ R!IsFiniteSet(Request) /\ None \notin Request
  /\ PageTokens \in Nat \ {0}
  /\ MaxActive \in Nat \ {0}
BY TreeAssumption, SameLibrary

(* What the proofs of the prefix cache say of what the tree stands for.     *)
RadixInv == R!IInv /\ R!NoPageTwice(Named(nodes))

LEMMA RadixStart == R!Init => RadixInv
<1>1. R!Init => R!IInv
  BY ONLY RadixAssumed, R!InitInv
<1>2. R!Init => R!NoPageTwice(Named(nodes))
  BY DEF R!Init, R!NoPageTwice, R!EmptyTree
<1> QED BY <1>1, <1>2 DEF RadixInv

LEMMA RadixStep == RadixInv /\ [R!Next]_R!vars => RadixInv'
<1>1. R!IInv /\ [R!Next]_R!vars => R!IInv'
  BY ONLY RadixAssumed, R!IInvStep
<1>2. R!IInv /\ R!NoPageTwice(Named(nodes)) /\ [R!Next]_R!vars => R!NoPageTwice(Named(nodes))'
  BY ONLY RadixAssumed, R!NoPageTwiceStep
<1> QED BY <1>1, <1>2 DEF RadixInv

(* p is a prefix of s                                                       *)
Begins(p, s) == Len(p) <= Len(s) /\ \A i \in 1 .. Len(p) : p[i] = s[i]

LEMMA BeginsIs == \A p, s : R!\sqsubseteq(p, s) <=> Begins(p, s)
BY DEF R!\sqsubseteq, Begins

LEMMA BeginsFacts ==
  ASSUME NEW S, NEW p \in Seq(S), NEW q \in Seq(S), NEW s \in Seq(S)
  PROVE  /\ Begins(p, p) /\ Begins(p, p \o q) /\ Begins(<<>>, s)
         /\ Begins(p, q) /\ Begins(q, s) => Begins(p, s)
         /\ Begins(p, q) /\ Begins(q, p) => p = q
         /\ Begins(p, s) /\ Begins(q, s) /\ Len(p) <= Len(q) => Begins(p, q)
<1>1. Begins(p, q) /\ Begins(q, p) => p = q
  BY SeqEqual DEF Begins
<1>2. Begins(p, p \o q)
  BY DEF Begins
<1> QED BY <1>1, <1>2 DEF Begins

LEMMA HangingFacts ==
  ASSUME NEW a, Shape(a), NEW n \in DOMAIN a \ {ROOT}
  PROVE  LET p == a[n].parent
         IN  /\ p \in DOMAIN a
             /\ a[p].length \in Nat /\ a[n].length \in Nat /\ a[p].length < a[n].length
             /\ PrefixOf(a, p) \in Seq(Token) /\ PrefixOf(a, n) \in Seq(Token)
             /\ Len(PrefixOf(a, p)) = a[p].length /\ Len(PrefixOf(a, n)) = a[n].length
             /\ Begins(PrefixOf(a, p), PrefixOf(a, n))
             /\ PrefixOf(a, n)[a[p].length + 1] = Head(a[n].edge)
             /\ Head(a[n].edge) \in DOMAIN a[p].children
             /\ a[p].children[Head(a[n].edge)] = n
<1> DEFINE p == a[n].parent
<1>1. /\ p \in DOMAIN a /\ a[n].edge # <<>> /\ a[n].length = a[p].length + Len(a[n].edge)
      /\ Head(a[n].edge) \in DOMAIN a[p].children /\ a[p].children[Head(a[n].edge)] = n
  BY DEF Shape, Hangs
<1>2. a[n].edge \in Seq(Token) /\ a[n].length \in Nat /\ a[p].length \in Nat
  BY <1>1, NodeFields DEF Shape
<1>3. /\ PrefixOf(a, p) \in Seq(Token) /\ PrefixOf(a, n) \in Seq(Token)
      /\ Len(PrefixOf(a, p)) = a[p].length /\ Len(PrefixOf(a, n)) = a[n].length
      /\ PrefixOf(a, n) = PrefixOf(a, p) \o a[n].edge
  BY <1>1, PrefixSteps
<1>4. PICK s, e : s = PrefixOf(a, p) /\ e = a[n].edge
  OBVIOUS
<1>5. Begins(s, s \o e) /\ (s \o e)[Len(s) + 1] = Head(e) /\ Len(e) # 0
  <2>1. s \in Seq(Token) /\ e \in Seq(Token) /\ e # <<>>
    BY <1>1, <1>2, <1>3, <1>4
  <2>2. Len(e) # 0 /\ Len(e) \in Nat /\ Head(e) = e[1]
    BY <2>1
  <2>3. (s \o e)[Len(s) + 1] = e[1]
    BY <2>1, <2>2, Joined
  <2> QED BY <2>1, <2>2, <2>3, BeginsFacts
<1>6. Len(a[n].edge) \in Nat /\ Len(a[n].edge) # 0
  BY <1>2, <1>4, <1>5
<1>7. a[p].length < a[n].length
  BY <1>1, <1>2, <1>6
<1> QED BY <1>1, <1>2, <1>3, <1>4, <1>5, <1>7

LEMMA ChildOnPath ==
  ASSUME NEW a, Shape(a), NEW n \in DOMAIN a, NEW p \in Path(a, n) \cup {ROOT}, p # n
  PROVE  \E c \in Path(a, n) : a[c].parent = p
<1> DEFINE Good == {m \in DOMAIN a : \A q \in Path(a, m) \cup {ROOT} :
                                       q # m => \E c \in Path(a, m) : a[c].parent = q}
<1>1. ROOT \in Good
  BY PathSteps DEF Shape, Typed
<1>2. ASSUME NEW m \in DOMAIN a \ {ROOT}, a[m].parent \in Good PROVE m \in Good
  <2>1. Path(a, m) = {m} \cup Path(a, a[m].parent)
    BY PathSteps
  <2> QED BY <1>2, <2>1
<1>3. DOMAIN a \subseteq Good
  <2> HIDE DEF Good
  <2> QED BY <1>1, <1>2, UpwardsHolds
<1> QED BY <1>3

LEMMA PathSpells ==
  ASSUME NEW a, Shape(a)
  PROVE  \A n \in DOMAIN a : \A q \in Path(a, n) : Begins(PrefixOf(a, q), PrefixOf(a, n))
<1> DEFINE Good == {n \in DOMAIN a : \A q \in Path(a, n) : Begins(PrefixOf(a, q), PrefixOf(a, n))}
<1>1. ROOT \in Good
  BY PathSteps DEF Shape, Typed
<1>2. ASSUME NEW n \in DOMAIN a \ {ROOT}, a[n].parent \in Good PROVE n \in Good
  <2>1. Path(a, n) = {n} \cup Path(a, a[n].parent) /\ Path(a, a[n].parent) \subseteq DOMAIN a
    BY HangingFacts, PathSteps
  <2>2. PrefixOf(a, n) \in Seq(Token) /\ PrefixOf(a, a[n].parent) \in Seq(Token)
        /\ Begins(PrefixOf(a, a[n].parent), PrefixOf(a, n))
    BY HangingFacts
  <2>3. ASSUME NEW q \in Path(a, a[n].parent) PROVE Begins(PrefixOf(a, q), PrefixOf(a, n))
    <3>1. PrefixOf(a, q) \in Seq(Token)
      BY <2>1, PrefixSteps
    <3>2. Begins(PrefixOf(a, q), PrefixOf(a, a[n].parent))
      BY <1>2
    <3> QED BY <2>2, <3>1, <3>2, BeginsFacts
  <2>4. Begins(PrefixOf(a, n), PrefixOf(a, n))
    BY <2>2, BeginsFacts
  <2> QED BY <2>1, <2>3, <2>4
<1>3. DOMAIN a \subseteq Good
  <2> HIDE DEF Good
  <2> QED BY <1>1, <1>2, UpwardsHolds
<1> QED BY <1>3

LEMMA PathIsPrefixes ==
  ASSUME NEW a, Shape(a)
  PROVE  \A q \in DOMAIN a \ {ROOT} : \A n \in DOMAIN a :
           q \in Path(a, n) <=> Begins(PrefixOf(a, q), PrefixOf(a, n))
<1> DEFINE Good == {q \in DOMAIN a : \A n \in DOMAIN a :
                      Begins(PrefixOf(a, q), PrefixOf(a, n)) => q \in Path(a, n) \cup {ROOT}}
<1>1. ROOT \in Good
  BY DEF Shape, Typed
<1>2. ASSUME NEW q \in DOMAIN a \ {ROOT}, a[q].parent \in Good PROVE q \in Good
  <2> SUFFICES ASSUME NEW n \in DOMAIN a, Begins(PrefixOf(a, q), PrefixOf(a, n))
               PROVE  q \in Path(a, n)
    OBVIOUS
  <2>1. PICK p : p = a[q].parent
    OBVIOUS
  <2>2. /\ p \in DOMAIN a /\ a[p].length \in Nat /\ a[q].length \in Nat /\ a[p].length < a[q].length
        /\ PrefixOf(a, p) \in Seq(Token) /\ PrefixOf(a, q) \in Seq(Token)
        /\ Len(PrefixOf(a, p)) = a[p].length /\ Len(PrefixOf(a, q)) = a[q].length
        /\ Begins(PrefixOf(a, p), PrefixOf(a, q))
        /\ PrefixOf(a, q)[a[p].length + 1] = Head(a[q].edge)
        /\ a[p].children[Head(a[q].edge)] = q
    BY <2>1, HangingFacts
  <2>3. PrefixOf(a, n) \in Seq(Token) /\ Len(PrefixOf(a, n)) = a[n].length
    BY PrefixSteps
  <2>4. p \in Path(a, n) \cup {ROOT}
    <3>1. Begins(PrefixOf(a, p), PrefixOf(a, n))
      BY <2>2, <2>3, BeginsFacts
    <3> QED BY <1>2, <2>1, <3>1
  <2>5. a[q].length <= a[n].length /\ PrefixOf(a, n)[a[p].length + 1] = Head(a[q].edge)
    BY <2>2, <2>3 DEF Begins
  <2>6. p # n
    BY <2>2, <2>5
  <2>7. PICK c \in Path(a, n) : a[c].parent = p
    BY <2>4, <2>6, ChildOnPath
  <2>8. c \in DOMAIN a \ {ROOT}
    BY PathSteps
  <2>9. /\ PrefixOf(a, c)[a[p].length + 1] = Head(a[c].edge)
        /\ a[p].children[Head(a[c].edge)] = c
        /\ Len(PrefixOf(a, c)) = a[c].length /\ a[p].length < a[c].length /\ a[c].length \in Nat
    BY <2>7, <2>8, HangingFacts
  <2>10. PrefixOf(a, n)[a[p].length + 1] = Head(a[c].edge)
    <3>1. Begins(PrefixOf(a, c), PrefixOf(a, n))
      BY PathSpells
    <3> QED BY <2>2, <2>9, <3>1 DEF Begins
  <2>11. c = q
    BY <2>2, <2>5, <2>9, <2>10
  <2> QED BY <2>11
<1>3. DOMAIN a \subseteq Good
  <2> HIDE DEF Good
  <2> QED BY <1>1, <1>2, UpwardsHolds
<1> QED BY <1>3, PathSpells

LEMMA PathIsStrict ==
  ASSUME NEW a, Shape(a), NEW n \in DOMAIN a, NEW q \in Path(a, n), q # n
  PROVE  a[q].length < a[n].length
<1>1. PICK c \in Path(a, n) : a[c].parent = q
  BY ChildOnPath
<1>2. c \in DOMAIN a \ {ROOT} /\ q \in DOMAIN a
  BY PathSteps
<1>3. a[q].length < a[c].length /\ a[c].length <= a[n].length
  BY <1>1, <1>2, HangingFacts, PathLengths
<1>4. a[q].length \in Nat /\ a[c].length \in Nat /\ a[n].length \in Nat
  BY <1>2, NodeFields DEF Shape
<1> QED BY <1>3, <1>4

LEMMA PrefixesDiffer ==
  ASSUME NEW a, Shape(a), NEW n \in DOMAIN a, NEW q \in DOMAIN a, PrefixOf(a, n) = PrefixOf(a, q)
  PROVE  n = q
<1> SUFFICES ASSUME n # q PROVE FALSE
  OBVIOUS
<1>1. /\ PrefixOf(a, n) \in Seq(Token) /\ a[n].length = a[q].length /\ a[n].length \in Nat
      /\ PrefixOf(a, ROOT) = <<>>
  BY PrefixSteps, NodeFields DEF Shape
<1>2. Begins(PrefixOf(a, n), PrefixOf(a, q)) /\ Begins(PrefixOf(a, q), PrefixOf(a, n))
  BY <1>1, BeginsFacts
<1>3. CASE n # ROOT
  <2>1. n \in Path(a, q)
    BY <1>2, <1>3, PathIsPrefixes
  <2> QED BY <1>1, <2>1, PathIsStrict
<1>4. CASE q # ROOT
  <2>1. q \in Path(a, n)
    BY <1>2, <1>4, PathIsPrefixes
  <2> QED BY <1>1, <2>1, PathIsStrict
<1> QED BY <1>3, <1>4

-----------------------------------------------------------------------------
(* What the tree stands for                                                 *)

(* What node n is in the cache: its full table, its own pages, its locks.   *)
Entry(a, n) == [table |-> PageTableOf(a, n), own |-> ToSet(a[n].delta.pages), lock |-> a[n].lock]

(* The prefixes of the nodes below the root: the cache's tree.              *)
Names(a) == {PrefixOf(a, n) : n \in DOMAIN a \ {ROOT}}

LEMMA NamedIs ==
  ASSUME NEW a, Shape(a)
  PROVE  /\ DOMAIN Named(a) = Names(a)
         /\ \A n \in DOMAIN a \ {ROOT} : Named(a)[PrefixOf(a, n)] = Entry(a, n)
         /\ Named(a) = [p \in DOMAIN Named(a) |-> Named(a)[p]]
<1> DEFINE id == [p \in {PrefixOf(a, n) : n \in DOMAIN a \ {ROOT}} |->
                    CHOOSE n \in DOMAIN a \ {ROOT} : PrefixOf(a, n) = p]
<1>1. Named(a) = [p \in DOMAIN id |-> Entry(a, id[p])]
  BY DEF Named, Entry
<1>2. \A n \in DOMAIN a \ {ROOT} : PrefixOf(a, n) \in DOMAIN id /\ id[PrefixOf(a, n)] = n
  <2> SUFFICES ASSUME NEW n \in DOMAIN a \ {ROOT}
               PROVE  (CHOOSE q \in DOMAIN a \ {ROOT} : PrefixOf(a, q) = PrefixOf(a, n)) = n
    OBVIOUS
  <2>1. \A q \in DOMAIN a \ {ROOT} : PrefixOf(a, q) = PrefixOf(a, n) => q = n
    BY PrefixesDiffer
  <2> QED BY <2>1
<1>3. DOMAIN id = Names(a)
  BY DEF Names
<1> HIDE DEF id
<1> QED BY <1>1, <1>2, <1>3

LEMMA NamedOnly ==
  ASSUME NEW a, Shape(a), NEW t, t = [p \in DOMAIN t |-> t[p]], DOMAIN t = Names(a),
         \A n \in DOMAIN a \ {ROOT} : t[PrefixOf(a, n)] = Entry(a, n)
  PROVE  Named(a) = t
<1>1. \A p \in Names(a) : Named(a)[p] = t[p]
  BY NamedIs, ZenonT(40) DEF Names
<1>2. DOMAIN Named(a) = DOMAIN t /\ Named(a) = [p \in DOMAIN t |-> Named(a)[p]]
  BY NamedIs
<1> QED BY <1>1, <1>2

LEMMA NamesAre ==
  ASSUME NEW a, Shape(a), NEW n \in DOMAIN a \ {ROOT}
  PROVE  /\ PrefixOf(a, n) \in Names(a) /\ PrefixOf(a, n) \in Seq(Token)
         /\ PrefixOf(a, n) # <<>> /\ Len(PrefixOf(a, n)) = a[n].length
         /\ Entry(a, n).table = PageTableOf(a, n)
         /\ Entry(a, n).own = ToSet(a[n].delta.pages)
         /\ Entry(a, n).lock = a[n].lock
<1>1. PrefixOf(a, n) \in Seq(Token) /\ Len(PrefixOf(a, n)) = a[n].length
      /\ PrefixOf(a, ROOT) = <<>> /\ ROOT \in DOMAIN a
  BY PrefixSteps DEF Shape, Typed
<1>2. PrefixOf(a, n) # <<>>
  BY <1>1, PrefixesDiffer
<1> QED BY <1>1, <1>2 DEF Names, Entry

(* A node lies below another one's prefix if that one lies on its path.     *)
LEMMA BelowIs ==
  ASSUME NEW a, Shape(a), NEW p
  PROVE  R!Below(Named(a), p) = {PrefixOf(a, n) : n \in {n \in DOMAIN a \ {ROOT} : Begins(p, PrefixOf(a, n))}}
<1>1. R!Below(Named(a), p) = {k \in DOMAIN Named(a) : Begins(p, k)}
  BY BeginsIs DEF R!Below
<1>2. DOMAIN Named(a) = {PrefixOf(a, n) : n \in DOMAIN a \ {ROOT}}
  BY NamedIs DEF Names
<1>3. PICK P : P = [n \in DOMAIN a \ {ROOT} |-> PrefixOf(a, n)]
  OBVIOUS
<1>4. \A n \in DOMAIN a \ {ROOT} : P[n] = PrefixOf(a, n)
  BY <1>3
<1> QED BY ONLY <1>1, <1>2, <1>4

LEMMA BelowNode ==
  ASSUME NEW a, Shape(a), NEW q \in DOMAIN a \ {ROOT}
  PROVE  R!Below(Named(a), PrefixOf(a, q))
           = {PrefixOf(a, n) : n \in {n \in DOMAIN a \ {ROOT} : q \in Path(a, n)}}
BY BelowIs, PathIsPrefixes

-----------------------------------------------------------------------------
(* Page deltas                                                              *)

(* A delta keeps what the tables share, and lists the rest.                 *)
LEMMA DeltaIs ==
  ASSUME NEW s \in Seq(Page), NEW t \in Seq(Page)
  PROVE  LET d == PageDelta(s, t)
         IN  /\ d.retain \in Nat /\ d.retain <= Len(s) /\ d.retain <= Len(t)
             /\ Agree(s, t, d.retain)
             /\ d.retain < Len(s) /\ d.retain < Len(t) => s[d.retain + 1] # t[d.retain + 1]
             /\ d.pages = SubSeq(t, d.retain + 1, Len(t))
             /\ d.pages \in Seq(Page)
             /\ d = [retain |-> d.retain, pages |-> d.pages]
             /\ Len(d.pages) = Len(t) - d.retain
             /\ \A i \in 1 .. Len(t) - d.retain : d.pages[i] = t[d.retain + i]
             /\ ToSet(d.pages) = {t[i] : i \in d.retain + 1 .. Len(t)}
<1>1. PICK l : l = Len(LongestCommonPrefix({s, t}))
  OBVIOUS
<1>2. PICK p : p = SubSeq(t, l + 1, Len(t))
  OBVIOUS
<1>3. PICK d : d = [retain |-> l, pages |-> p]
  OBVIOUS
<1>4. PageDelta(s, t) = d
  BY <1>1, <1>2, <1>3 DEF PageDelta
<1>5. /\ l \in Nat /\ Agree(s, t, l)
      /\ l < Len(s) /\ l < Len(t) => s[l + 1] # t[l + 1]
  BY <1>1, LongestCommon
<1>6. l <= Len(s) /\ l <= Len(t)
  BY <1>5 DEF Agree
<1>7. /\ p \in Seq(Page) /\ Len(p) = Len(t) - l
      /\ \A i \in 1 .. Len(t) - l : p[i] = t[l + i]
  BY <1>2, <1>5, <1>6, RestOfSequence
<1>8. ToSet(p) = {t[i] : i \in l + 1 .. Len(t)}
  <2>1. DOMAIN p = 1 .. Len(t) - l
    BY <1>7
  <2>2. ASSUME NEW x \in ToSet(p) PROVE x \in {t[i] : i \in l + 1 .. Len(t)}
    <3>1. PICK i \in 1 .. Len(t) - l : x = p[i]
      BY <2>1 DEF ToSet
    <3>2. l + i \in l + 1 .. Len(t) /\ x = t[l + i]
      BY <1>5, <1>7, <3>1
    <3> QED BY <3>2
  <2>3. ASSUME NEW i \in l + 1 .. Len(t) PROVE t[i] \in ToSet(p)
    <3>1. PICK j : j = i - l
      OBVIOUS
    <3>2. j \in 1 .. Len(t) - l /\ l + j = i
      BY <1>5, <3>1
    <3>3. t[i] = p[j] /\ j \in DOMAIN p
      BY <1>7, <2>1, <3>2
    <3> QED BY <3>3 DEF ToSet
  <2> QED BY <2>2, <2>3
<1>9. d.retain = l /\ d.pages = p
  BY <1>3
<1> QED BY <1>2, <1>3, <1>4, <1>5, <1>6, <1>7, <1>8, <1>9

(* Two sequences that agree as far as they can agree no farther.            *)
LEMMA AgreesNoFarther ==
  ASSUME NEW s \in Seq(Page), NEW t \in Seq(Page), NEW k \in Nat, Agree(s, t, k),
         k < Len(s) /\ k < Len(t) => s[k + 1] # t[k + 1]
  PROVE  PageDelta(s, t).retain = k
<1>1. PICK l : l = PageDelta(s, t).retain
  OBVIOUS
<1>2. /\ l \in Nat /\ l <= Len(s) /\ l <= Len(t) /\ Agree(s, t, l)
      /\ l < Len(s) /\ l < Len(t) => s[l + 1] # t[l + 1]
  BY <1>1, DeltaIs
<1>3. k <= Len(s) /\ k <= Len(t)
  BY DEF Agree
<1>4. ~ (l < k)
  <2> SUFFICES ASSUME l < k PROVE FALSE
    OBVIOUS
  <2>1. l + 1 \in 1 .. k /\ l < Len(s) /\ l < Len(t)
    BY <1>2, <1>3
  <2>2. s[l + 1] = t[l + 1]
    BY <2>1 DEF Agree
  <2> QED BY <1>2, <2>1, <2>2
<1>5. ~ (k < l)
  <2> SUFFICES ASSUME k < l PROVE FALSE
    OBVIOUS
  <2>1. k + 1 \in 1 .. l /\ k < Len(s) /\ k < Len(t)
    BY <1>2, <1>3
  <2>2. s[k + 1] = t[k + 1]
    BY <1>2, <2>1 DEF Agree
  <2> QED BY <2>1, <2>2
<1> QED BY <1>1, <1>2, <1>4, <1>5

(* front is the first k pages of the table t.                               *)
CutAt(front, t, k) == front = SubSeq(t, 1, k)

(* A table cut in two: the upper node owns what its child owned of the      *)
(* front, the child keeps the rest.                                         *)
LEMMA SplitOwns ==
  ASSUME NEW s \in Seq(Page), NEW t \in Seq(Page), R!OnceIn(t),
         NEW k \in Nat, Len(s) <= k, k <= Len(t), NEW front, CutAt(front, t, k)
  PROVE  /\ ToSet(PageDelta(s, front).pages) = ToSet(PageDelta(s, t).pages) \cap R!Elems(front)
         /\ ToSet(PageDelta(front, t).pages) = ToSet(PageDelta(s, t).pages) \ R!Elems(front)
<1>1. PICK l : l = PageDelta(s, t).retain
  OBVIOUS
<1>2. /\ l \in Nat /\ l <= Len(s) /\ l <= Len(t) /\ Agree(s, t, l)
      /\ l < Len(s) /\ l < Len(t) => s[l + 1] # t[l + 1]
      /\ ToSet(PageDelta(s, t).pages) = {t[i] : i \in l + 1 .. Len(t)}
  BY <1>1, DeltaIs
<1>3. front \in Seq(Page) /\ Len(front) = k /\ \A i \in 1 .. k : front[i] = t[i]
  BY CutSequence DEF CutAt
<1>4. l <= k
  BY <1>2
<1>5. PageDelta(s, front).retain = l
  <2>1. Agree(s, front, l)
    BY <1>2, <1>3, <1>4 DEF Agree
  <2>2. l < Len(s) /\ l < Len(front) => s[l + 1] # front[l + 1]
    BY <1>2, <1>3
  <2> QED BY <1>2, <1>3, <2>1, <2>2, AgreesNoFarther
<1>6. PageDelta(front, t).retain = k
  <2>1. Agree(front, t, k)
    BY <1>3 DEF Agree
  <2>2. ~ (k < Len(front))
    BY <1>3
  <2> QED BY <1>3, <2>1, <2>2, AgreesNoFarther
<1>7. ToSet(PageDelta(s, front).pages) = {t[i] : i \in l + 1 .. k}
  <2>1. ToSet(PageDelta(s, front).pages) = {front[i] : i \in l + 1 .. k}
    <3>1. ToSet(PageDelta(s, front).pages)
            = {front[i] : i \in PageDelta(s, front).retain + 1 .. Len(front)}
      BY <1>3, DeltaIs
    <3> QED BY <1>3, <1>5, <3>1
  <2>2. \A i \in l + 1 .. k : front[i] = t[i]
    BY <1>2, <1>3
  <2> QED BY <2>1, <2>2
<1>8. ToSet(PageDelta(front, t).pages) = {t[i] : i \in k + 1 .. Len(t)}
  <2>1. ToSet(PageDelta(front, t).pages) = {t[i] : i \in PageDelta(front, t).retain + 1 .. Len(t)}
    BY <1>3, DeltaIs
  <2> QED BY <1>6, <2>1
<1>9. R!Elems(front) = {t[i] : i \in 1 .. k}
  BY <1>3 DEF R!Elems
<1>10. \A i, j \in 1 .. Len(t) : t[i] = t[j] => i = j
  BY DEF R!OnceIn
<1>11. PICK n \in Nat : n = Len(t)
  OBVIOUS
<1>12. {t[i] : i \in l + 1 .. k} = {t[i] : i \in l + 1 .. n} \cap {t[i] : i \in 1 .. k}
  <2>1. ASSUME NEW i \in l + 1 .. n, NEW j \in 1 .. k, t[i] = t[j] PROVE i \in l + 1 .. k
    BY <1>2, <1>10, <1>11, <2>1
  <2>2. \A i \in l + 1 .. k : i \in l + 1 .. n /\ i \in 1 .. k
    BY <1>2, <1>11
  <2> QED BY <2>1, <2>2
<1>13. {t[i] : i \in k + 1 .. n} = {t[i] : i \in l + 1 .. n} \ {t[i] : i \in 1 .. k}
  <2>1. ASSUME NEW i \in k + 1 .. n, NEW j \in 1 .. k, t[i] = t[j] PROVE FALSE
    BY <1>2, <1>10, <1>11, <2>1
  <2>2. \A i \in k + 1 .. n : i \in l + 1 .. n
    BY <1>2, <1>4, <1>11
  <2>3. \A i \in l + 1 .. n : i \in 1 .. k \/ i \in k + 1 .. n
    BY <1>2, <1>4, <1>11
  <2> QED BY <2>1, <2>2, <2>3
<1> QED BY <1>2, <1>7, <1>8, <1>9, <1>11, <1>12, <1>13

(* A table that goes on with pages the parent has not: the new node owns    *)
(* those.                                                                   *)
LEMMA GrownOwns ==
  ASSUME NEW s \in Seq(Page), NEW u \in Seq(Page), NEW k \in Nat, k <= Len(s),
         R!Elems(s) \cap R!Elems(u) = {}
  PROVE  ToSet(PageDelta(s, SubSeq(s, 1, k) \o u).pages) = R!Elems(u)
<1>1. PICK front : front = SubSeq(s, 1, k)
  OBVIOUS
<1>2. front \in Seq(Page) /\ Len(front) = k /\ \A i \in 1 .. k : front[i] = s[i]
  BY <1>1, CutSequence
<1>3. PICK n \in Nat : n = Len(u)
  OBVIOUS
<1>4. PICK t : t = front \o u
  OBVIOUS
<1>5. /\ t \in Seq(Page) /\ Len(t) = k + n
      /\ \A i \in 1 .. k : t[i] = front[i]
      /\ \A i \in 1 .. n : t[k + i] = u[i]
  <2>1. /\ front \o u \in Seq(Page) /\ Len(front \o u) = Len(front) + Len(u)
        /\ \A i \in 1 .. Len(front) : (front \o u)[i] = front[i]
        /\ \A i \in 1 .. Len(u) : (front \o u)[Len(front) + i] = u[i]
    <3>1. front \in Seq(Page)
      BY <1>2
    <3> QED BY ONLY <3>1, u \in Seq(Page), Joined
  <2> QED BY <1>2, <1>3, <1>4, <2>1
<1>6. PageDelta(s, t).retain = k
  <2>1. Agree(s, t, k)
    BY <1>2, <1>3, <1>5 DEF Agree
  <2>2. ASSUME k < Len(s), k < Len(t) PROVE s[k + 1] # t[k + 1]
    <3>1. 1 \in 1 .. n /\ k + 1 \in 1 .. Len(s)
      BY <1>3, <1>5, <2>2
    <3>2. t[k + 1] = u[1] /\ u[1] \in R!Elems(u) /\ s[k + 1] \in R!Elems(s)
      BY <1>3, <1>5, <3>1 DEF R!Elems
    <3> QED BY <3>2
  <2> QED BY <1>5, <2>1, <2>2, AgreesNoFarther
<1>7. ToSet(PageDelta(s, t).pages) = {t[i] : i \in k + 1 .. k + n}
  <2>1. ToSet(PageDelta(s, t).pages) = {t[i] : i \in PageDelta(s, t).retain + 1 .. Len(t)}
    BY <1>5, DeltaIs
  <2> QED BY <1>5, <1>6, <2>1
<1>8. {t[i] : i \in k + 1 .. k + n} = {u[i] : i \in 1 .. n}
  <2>1. ASSUME NEW i \in k + 1 .. k + n PROVE t[i] \in {u[j] : j \in 1 .. n}
    <3>1. i - k \in 1 .. n /\ k + (i - k) = i
      OBVIOUS
    <3> QED BY <1>5, <3>1
  <2>2. ASSUME NEW j \in 1 .. n PROVE u[j] \in {t[i] : i \in k + 1 .. k + n}
    <3>1. k + j \in k + 1 .. k + n
      OBVIOUS
    <3> QED BY <1>5, <3>1
  <2> QED BY <2>1, <2>2
<1> QED BY <1>1, <1>3, <1>4, <1>7, <1>8 DEF R!Elems

(* No table names a page twice, and every delta keeps all that it can.      *)
Clean(a) ==
  \A n \in DOMAIN a \ {ROOT} :
    /\ R!OnceIn(PageTableOf(a, n))
    /\ a[n].delta = PageDelta(PageTableOf(a, a[n].parent), PageTableOf(a, n))

(* A page that a node shared with its parent and still listed as its own    *)
(* would have two owners: one of the nodes above owns it.                   *)
LEMMA DeltasAreExact ==
  ASSUME NEW a, Shape(a), R!PrefixTree(Named(a)), R!NoPageTwice(Named(a))
  PROVE  Clean(a)
<1> SUFFICES ASSUME NEW n \in DOMAIN a \ {ROOT}
             PROVE  /\ R!OnceIn(PageTableOf(a, n))
                    /\ a[n].delta = PageDelta(PageTableOf(a, a[n].parent), PageTableOf(a, n))
  BY DEF Clean
<1>1. /\ DOMAIN Named(a) = Names(a)
      /\ \A q \in DOMAIN a \ {ROOT} :
           /\ PrefixOf(a, q) \in Names(a)
           /\ Named(a)[PrefixOf(a, q)].table = PageTableOf(a, q)
           /\ Named(a)[PrefixOf(a, q)].own = ToSet(a[q].delta.pages)
  BY NamedIs, NamesAre
<1>2. R!OnceIn(PageTableOf(a, n))
  BY <1>1 DEF R!NoPageTwice
<1>3. PICK q : q = a[n].parent
  OBVIOUS
<1>4. PICK s, t : s = PageTableOf(a, q) /\ t = PageTableOf(a, n)
  OBVIOUS
<1>5. PICK k : k = a[n].delta.retain
  OBVIOUS
<1>6. PICK p : p = a[n].delta.pages
  OBVIOUS
<1>7. /\ q \in DOMAIN a /\ s \in Seq(Page) /\ t \in Seq(Page)
      /\ k \in Nat /\ p \in Seq(Page) /\ k <= Len(s)
      /\ a[n].delta = [retain |-> k, pages |-> p]
      /\ t = SubSeq(s, 1, k) \o p
  <2>1. q \in DOMAIN a /\ k <= PagesFor(a[q].length)
    BY <1>3, <1>5 DEF Shape, Hangs
  <2>2. a[n].delta \in [retain : Nat, pages : Seq(Page)]
    BY DEF Shape, Typed, Node
  <2>3. /\ s \in Seq(Page) /\ t \in Seq(Page) /\ Len(s) = PagesFor(a[q].length)
        /\ t = Table(s, a[n].delta)
    BY <1>3, <1>4, <2>1, TableSteps
  <2>4. a[n].delta = [retain |-> k, pages |-> p] /\ k \in Nat /\ p \in Seq(Page)
    BY <1>5, <1>6, <2>2
  <2> QED BY <1>5, <1>6, <2>1, <2>3, <2>4 DEF Table
<1>8. PICK front : front = SubSeq(s, 1, k)
  OBVIOUS
<1>9. front \in Seq(Page) /\ Len(front) = k /\ \A i \in 1 .. k : front[i] = s[i]
  BY <1>7, <1>8, CutSequence
<1>10. /\ Len(t) = k + Len(p)
       /\ \A i \in 1 .. k : t[i] = s[i]
       /\ \A i \in 1 .. Len(p) : t[k + i] = p[i]
  <2>1. /\ Len(front \o p) = Len(front) + Len(p)
        /\ \A i \in 1 .. Len(front) : (front \o p)[i] = front[i]
        /\ \A i \in 1 .. Len(p) : (front \o p)[Len(front) + i] = p[i]
    <3>1. front \in Seq(Page) /\ p \in Seq(Page)
      BY <1>7, <1>9
    <3> QED BY ONLY <3>1, Joined
  <2> QED BY <1>7, <1>8, <1>9, <2>1
<1>11. ASSUME k < Len(s), k < Len(t), s[k + 1] = t[k + 1] PROVE FALSE
  <2>1. s[k + 1] \in ToSet(p)
    <3>1. 1 \in 1 .. Len(p) /\ 1 \in DOMAIN p
      BY <1>7, <1>10, <1>11
    <3> QED BY <1>10, <1>11, <3>1 DEF ToSet
  <2>2. q # ROOT
    <3>1. PageTableOf(a, ROOT) = <<>>
      BY TableSteps
    <3>2. Len(s) # 0
      BY <1>7, <1>11
    <3> QED BY <1>4, <3>1, <3>2
  <2>3. s[k + 1] \in R!Elems(s)
    <3>1. k + 1 \in 1 .. Len(s)
      BY <1>7, <1>11
    <3> QED BY <3>1 DEF R!Elems
  <2>4. PICK w \in Names(a) : R!\sqsubseteq(w, PrefixOf(a, q)) /\ s[k + 1] \in Named(a)[w].own
    BY <1>1, <1>4, <1>7, <2>2, <2>3 DEF R!PrefixTree, R!PathOwnsTables
  <2>5. PICK u \in DOMAIN a \ {ROOT} : w = PrefixOf(a, u)
    BY DEF Names
  <2>6. u \in Path(a, q)
    BY <1>7, <2>4, <2>5, BeginsIs, PathIsPrefixes
  <2>7. u # n
    <3>1. a[u].length <= a[q].length /\ a[q].length < a[n].length
      BY <1>3, <1>7, <2>6, PathLengths, HangingFacts
    <3>2. a[u].length \in Nat /\ a[q].length \in Nat /\ a[n].length \in Nat
      BY <1>7, NodeFields DEF Shape
    <3> QED BY <3>1, <3>2
  <2>8. PrefixOf(a, n) # w /\ PrefixOf(a, n) \in Names(a)
    BY <1>1, <2>5, <2>7, PrefixesDiffer
  <2>9. s[k + 1] \in Named(a)[PrefixOf(a, n)].own
    BY <1>1, <1>6, <2>1
  <2> QED BY <1>1, <2>4, <2>8, <2>9 DEF R!PrefixTree
<1>12. Agree(s, t, k)
  BY <1>7, <1>10 DEF Agree
<1>13. PageDelta(s, t).retain = k
  BY <1>7, <1>11, <1>12, AgreesNoFarther
<1>14. PICK d : d = PageDelta(s, t)
  OBVIOUS
<1>15. /\ d = [retain |-> d.retain, pages |-> d.pages]
       /\ d.pages \in Seq(Page) /\ Len(d.pages) = Len(t) - d.retain
       /\ \A i \in 1 .. Len(t) - d.retain : d.pages[i] = t[d.retain + i]
  <2>1. s \in Seq(Page) /\ t \in Seq(Page)
    BY <1>7
  <2>2. /\ PageDelta(s, t) = [retain |-> PageDelta(s, t).retain, pages |-> PageDelta(s, t).pages]
        /\ PageDelta(s, t).pages \in Seq(Page)
        /\ Len(PageDelta(s, t).pages) = Len(t) - PageDelta(s, t).retain
        /\ \A i \in 1 .. Len(t) - PageDelta(s, t).retain :
             PageDelta(s, t).pages[i] = t[PageDelta(s, t).retain + i]
    BY ONLY <2>1, DeltaIs
  <2> QED BY ONLY <1>14, <2>2
<1>16. d.retain = k
  BY <1>13, <1>14
<1>17. PICK r : r = d.pages
  OBVIOUS
<1>18. r = p
  <2>1. /\ r \in Seq(Page) /\ Len(r) = Len(t) - k
        /\ \A i \in 1 .. Len(t) - k : r[i] = t[k + i]
    BY <1>15, <1>16, <1>17
  <2>2. Len(r) = Len(p) /\ \A i \in 1 .. Len(p) : r[i] = p[i]
    <3>1. Len(t) - k = Len(p) /\ Len(p) \in Nat
      BY <1>7, <1>10
    <3> QED BY <1>10, <2>1, <3>1
  <2>3. p \in Seq(Page) /\ r \in Seq(Page)
    BY <1>7, <2>1
  <2> QED BY ONLY <2>2, <2>3, SeqEqual
<1>19. PageDelta(s, t) = [retain |-> k, pages |-> p]
  BY <1>14, <1>15, <1>16, <1>17, <1>18
<1> QED BY <1>2, <1>3, <1>4, <1>7, <1>19

-----------------------------------------------------------------------------
(* What the changes of the tree do to what it stands for                    *)

LEMMA SamePages ==
  /\ \A n : R!PagesFor(n) = PagesFor(n)
  /\ \A n, c : R!SharedPages(n, c) = SharedPages(n, c)
  /\ \A s \in Seq(Page) : R!Elems(s) = ToSet(s)
<1>1. \A n : R!PagesFor(n) = PagesFor(n)
  BY DEF R!PagesFor, PagesFor
<1>2. \A n, c : R!SharedPages(n, c) = SharedPages(n, c)
  BY <1>1 DEF R!SharedPages, SharedPages
<1>3. \A s \in Seq(Page) : R!Elems(s) = ToSet(s)
  BY DEF R!Elems, ToSet
<1> QED BY <1>1, <1>2, <1>3

(* The prefixes below one that has a shortest extension.                    *)
LEMMA EdgeEndIs ==
  ASSUME NEW t, DOMAIN t \subseteq Seq(Token), NEW m, NEW c \in R!Below(t, m),
         \A d \in R!Below(t, m) : Begins(c, d)
  PROVE  R!EdgeEnd(t, m) = c
<1>1. \A d \in R!Below(t, m) : R!\sqsubseteq(c, d)
  BY BeginsIs
<1>2. R!Below(t, m) \subseteq Seq(Token)
  BY DEF R!Below
<1>3. ASSUME NEW e \in R!Below(t, m), \A d \in R!Below(t, m) : R!\sqsubseteq(e, d)
      PROVE  e = c
  <2>1. Begins(e, c) /\ Begins(c, e) /\ e \in Seq(Token) /\ c \in Seq(Token)
    BY <1>2, <1>3, BeginsIs
  <2> QED BY <2>1, BeginsFacts
<1> QED BY <1>1, <1>3 DEF R!EdgeEnd

(* m cuts the edge that ends in node c of t.                                *)
Edge(t, m, c, table, own, lock) ==
  /\ c \in DOMAIN t /\ R!EdgeEnd(t, m) = c
  /\ t[c] = [table |-> table, own |-> own, lock |-> lock]

(* u is t with that edge cut at m.                                          *)
EdgeCut(u, t, m, c, table, own, lock, pages) ==
  /\ DOMAIN u = DOMAIN t \cup {m} /\ u = [n \in DOMAIN u |-> u[n]]
  /\ u[m] = [table |-> pages, own |-> own \cap R!Elems(pages), lock |-> lock]
  /\ u[c] = [table |-> table, own |-> own \ R!Elems(pages), lock |-> lock]
  /\ \A n \in DOMAIN t \ {c} : u[n] = t[n]

LEMMA SplitMakes ==
  ASSUME NEW t, NEW m, m # <<>>, m \notin DOMAIN t, NEW c, NEW table, NEW own, NEW lock,
         Edge(t, m, c, table, own, lock), NEW pages, CutAt(pages, table, PagesFor(Len(m)))
  PROVE  EdgeCut(R!Split(t, m), t, m, c, table, own, lock, pages)
<1>0. /\ c \in DOMAIN t /\ R!EdgeEnd(t, m) = c
      /\ t[c] = [table |-> table, own |-> own, lock |-> lock]
      /\ pages = SubSeq(table, 1, PagesFor(Len(m)))
  BY DEF Edge, CutAt
<1>1. PICK upper : upper = own \cap R!Elems(pages)
  OBVIOUS
<1>2. PICK lower : lower = [table |-> table, own |-> own \ upper, lock |-> lock]
  OBVIOUS
<1>3. PICK u : u = [n \in DOMAIN t \cup {m} |->
                      IF n = m THEN [table |-> pages, own |-> upper, lock |-> lock]
                      ELSE IF n = c THEN lower ELSE t[n]]
  OBVIOUS
<1>4. t[c].table = table /\ t[c].own = own /\ t[c].lock = lock
  BY <1>0
<1>5. [t[c] EXCEPT !.own = @ \ upper] = lower
  <2>1. PICK r : r = t[c]
    OBVIOUS
  <2>2. r = [table |-> table, own |-> own, lock |-> lock]
    BY <1>0, <2>1
  <2>3. [r EXCEPT !.own = @ \ upper] = [table |-> table, own |-> own \ upper, lock |-> lock]
    <3>1. PICK x : x = own \ upper
      OBVIOUS
    <3>2. [r EXCEPT !.own = x] = [table |-> table, own |-> x, lock |-> lock]
      BY <2>2
    <3>3. r.own \ upper = x
      BY <2>2, <3>1
    <3> QED BY <3>1, <3>2, <3>3
  <2> QED BY <1>2, <2>1, <2>3
<1>6. R!PagesFor(Len(m)) = PagesFor(Len(m))
  BY SamePages
<1>7. R!Split(t, m) = u
  BY <1>0, <1>1, <1>3, <1>4, <1>5, <1>6 DEF R!Split
<1>8. own \ upper = own \ R!Elems(pages)
  BY <1>1
<1> QED BY <1>0, <1>1, <1>2, <1>3, <1>7, <1>8 DEF EdgeCut

LEMMA SplitNamed ==
  ASSUME NEW a, Shape(a), Clean(a), NEW id \in DOMAIN a \ {ROOT}, NEW b,
         NEW cut \in Nat \ {0}, cut < Len(a[id].edge), IsSplit(b, a, id, cut),
         NEW m, m = PrefixOf(b, NewId(a))
  PROVE  /\ m # <<>> /\ m \notin DOMAIN Named(a) /\ m \in Seq(Token)
         /\ Begins(m, PrefixOf(a, id))
         /\ Named(b) = R!Split(Named(a), m)
<1>1. PICK new, q : new = NewId(a) /\ q = a[id].parent
  OBVIOUS
<1>2. PICK t, s : t = PageTableOf(a, id) /\ s = PageTableOf(a, q)
  OBVIOUS
<1>3. PICK length : length = a[q].length + cut
  OBVIOUS
<1>4. PICK pages : pages = SubSeq(t, 1, PagesFor(length))
  OBVIOUS
<1>5. Shape(b)
  BY SplitKeepsShape
<1>6. SplitFields(b, a, id, cut)
  BY SplitHasFields
<1>7. /\ new \in Nat \ DOMAIN a /\ new # ROOT /\ q \in DOMAIN a /\ q # id
      /\ DOMAIN b = DOMAIN a \cup {new}
      /\ \A n \in DOMAIN a : b[n].lock = a[n].lock
      /\ \A n \in DOMAIN a \ {id} : b[n].delta = a[n].delta
      /\ b[id].delta = PageDelta(pages, t)
      /\ b[new].delta = PageDelta(s, pages)
      /\ b[new].lock = a[id].lock /\ b[new].length = length
      /\ pages \in Seq(Page) /\ Len(pages) = PagesFor(length)
      /\ length \in Nat /\ length <= a[id].length
  BY <1>1, <1>2, <1>3, <1>4, <1>6 DEF SplitFields
<1>8. /\ \A n \in DOMAIN a : /\ PageTableOf(b, n) = PageTableOf(a, n)
                             /\ PrefixOf(b, n) = PrefixOf(a, n)
                             /\ Path(b, n) = IF id \in Path(a, n) THEN Path(a, n) \cup {new} ELSE Path(a, n)
      /\ PageTableOf(b, new) = pages
      /\ Path(b, new) = {new} \cup Path(a, q)
  BY <1>1, <1>2, <1>3, <1>4, SplitReads
<1>9. /\ m \in Seq(Token) /\ m # <<>> /\ Len(m) = length /\ m \in Names(b)
  BY <1>1, <1>5, <1>7, NamesAre
<1>10. Names(b) = Names(a) \cup {m}
  <2>1. \A n \in DOMAIN a \ {ROOT} : PrefixOf(b, n) = PrefixOf(a, n)
    BY <1>8
  <2>2. DOMAIN b \ {ROOT} = (DOMAIN a \ {ROOT}) \cup {new} /\ m = PrefixOf(b, new)
    BY <1>1, <1>7
  <2> QED BY <2>1, <2>2 DEF Names
<1>11. m \notin Names(a)
  <2> SUFFICES ASSUME NEW n \in DOMAIN a \ {ROOT}, m = PrefixOf(a, n) PROVE FALSE
    BY DEF Names
  <2>1. PrefixOf(b, n) = PrefixOf(b, new) /\ n \in DOMAIN b /\ new \in DOMAIN b
    BY <1>1, <1>7, <1>8
  <2>2. n = new
    BY <1>5, <2>1, PrefixesDiffer
  <2> QED BY <1>7, <2>2
<1>12. \A n \in DOMAIN a : Begins(m, PrefixOf(a, n)) <=> id \in Path(a, n)
  <2> TAKE n \in DOMAIN a
  <2>1. n \in DOMAIN b /\ new \in DOMAIN b \ {ROOT} /\ PrefixOf(b, n) = PrefixOf(a, n)
    BY <1>7, <1>8
  <2>2. new \in Path(b, n) <=> Begins(m, PrefixOf(b, n))
    BY <1>1, <1>5, <2>1, PathIsPrefixes
  <2>3. Path(a, n) \subseteq DOMAIN a
    BY PathSteps
  <2>4. new \in Path(b, n) <=> id \in Path(a, n)
    BY <1>7, <1>8, <2>3
  <2> QED BY <2>1, <2>2, <2>4
<1>13. PICK c : c = PrefixOf(a, id)
  OBVIOUS
<1>14. DOMAIN Named(a) = Names(a) /\ DOMAIN Named(a) \subseteq Seq(Token) /\ c \in DOMAIN Named(a)
  <2>1. DOMAIN Named(a) = Names(a)
    BY NamedIs
  <2>2. \A n \in DOMAIN a \ {ROOT} : PrefixOf(a, n) \in Seq(Token) /\ PrefixOf(a, n) \in Names(a)
    BY NamesAre
  <2> QED BY <1>13, <2>1, <2>2 DEF Names
<1>15. Begins(m, c) /\ c \in R!Below(Named(a), m)
  <2>1. id \in Path(a, id)
    BY PathSteps
  <2>2. Begins(m, c)
    BY <1>12, <1>13, <2>1
  <2> QED BY <1>14, <2>2, BeginsIs DEF R!Below
<1>16. \A d \in R!Below(Named(a), m) : Begins(c, d)
  <2> SUFFICES ASSUME NEW d \in R!Below(Named(a), m) PROVE Begins(c, d)
    OBVIOUS
  <2>1. PICK n \in DOMAIN a \ {ROOT} : d = PrefixOf(a, n) /\ Begins(m, PrefixOf(a, n))
    BY BelowIs
  <2>2. id \in Path(a, n)
    BY <1>12, <2>1
  <2>3. Begins(PrefixOf(a, id), PrefixOf(a, n))
    BY <2>2, PathIsPrefixes
  <2> QED BY <1>13, <2>1, <2>3
<1>17. R!EdgeEnd(Named(a), m) = c
  BY <1>14, <1>15, <1>16, EdgeEndIs
<1>18. PICK own, lock : own = ToSet(a[id].delta.pages) /\ lock = a[id].lock
  OBVIOUS
<1>19. Named(a)[c] = [table |-> t, own |-> own, lock |-> lock]
  BY <1>2, <1>13, <1>18, NamedIs DEF Entry
<1>20. /\ ToSet(PageDelta(s, pages).pages) = own \cap R!Elems(pages)
       /\ ToSet(PageDelta(pages, t).pages) = own \ R!Elems(pages)
  <2>1. R!OnceIn(t) /\ a[id].delta = PageDelta(s, t)
    BY <1>1, <1>2 DEF Clean
  <2>2. s \in Seq(Page) /\ Len(s) = PagesFor(a[q].length)
        /\ t \in Seq(Page) /\ Len(t) = PagesFor(a[id].length)
    BY <1>2, <1>7, TableSteps
  <2>3. a[q].length \in Nat /\ a[id].length \in Nat
    BY <1>7, NodeFields DEF Shape
  <2>4. a[q].length <= length
    BY <1>3, <2>3
  <2>5. /\ PagesFor(length) \in Nat /\ PagesFor(a[q].length) <= PagesFor(length)
        /\ PagesFor(length) <= PagesFor(a[id].length)
    BY <1>7, <2>3, <2>4, PagesForFacts
  <2>6. Len(s) <= PagesFor(length) /\ PagesFor(length) <= Len(t)
    BY <2>2, <2>5
  <2>7. /\ ToSet(PageDelta(s, pages).pages) = ToSet(PageDelta(s, t).pages) \cap R!Elems(pages)
        /\ ToSet(PageDelta(pages, t).pages) = ToSet(PageDelta(s, t).pages) \ R!Elems(pages)
    <3>1. PICK k : k = PagesFor(length)
      OBVIOUS
    <3>2. k \in Nat /\ Len(s) <= k /\ k <= Len(t) /\ CutAt(pages, t, k)
      BY <1>4, <2>5, <2>6, <3>1 DEF CutAt
    <3>3. s \in Seq(Page) /\ t \in Seq(Page) /\ R!OnceIn(t)
      BY <2>1, <2>2
    <3> QED BY <3>2, <3>3, SplitOwns
  <2> QED BY <1>18, <2>1, <2>7
<1>21. PICK u : u = R!Split(Named(a), m)
  OBVIOUS
<1>22. /\ DOMAIN u = DOMAIN Named(a) \cup {m} /\ u = [n \in DOMAIN u |-> u[n]]
       /\ u[m] = [table |-> pages, own |-> own \cap R!Elems(pages), lock |-> lock]
       /\ u[c] = [table |-> t, own |-> own \ R!Elems(pages), lock |-> lock]
       /\ \A n \in DOMAIN Named(a) \ {c} : u[n] = Named(a)[n]
  <2>1. m # <<>> /\ m \notin DOMAIN Named(a) /\ pages = SubSeq(t, 1, PagesFor(Len(m)))
    BY <1>4, <1>9, <1>11, <1>14
  <2>2. PICK T : T = Named(a)
    OBVIOUS
  <2>3. Edge(T, m, c, t, own, lock)
    BY <1>14, <1>17, <1>19, <2>2 DEF Edge
  <2>4. m # <<>> /\ m \notin DOMAIN T /\ CutAt(pages, t, PagesFor(Len(m)))
    BY <2>1, <2>2 DEF CutAt
  <2>5. EdgeCut(R!Split(T, m), T, m, c, t, own, lock, pages)
    BY <2>3, <2>4, SplitMakes
  <2> QED BY <1>21, <2>2, <2>5 DEF EdgeCut
<1>23. \A n \in DOMAIN b \ {ROOT} : u[PrefixOf(b, n)] = Entry(b, n)
  <2>1. u[PrefixOf(b, new)] = Entry(b, new)
    <3>1. Entry(b, new) = [table |-> pages, own |-> own \cap R!Elems(pages), lock |-> lock]
      BY <1>7, <1>8, <1>18, <1>20 DEF Entry
    <3> QED BY <1>1, <1>22, <3>1
  <2>2. u[PrefixOf(b, id)] = Entry(b, id)
    <3>1. Entry(b, id) = [table |-> t, own |-> own \ R!Elems(pages), lock |-> lock]
      BY <1>2, <1>7, <1>8, <1>18, <1>20 DEF Entry
    <3>2. PrefixOf(b, id) = c
      BY <1>8, <1>13
    <3> QED BY <1>22, <3>1, <3>2
  <2>3. ASSUME NEW n \in DOMAIN a \ {ROOT, id} PROVE u[PrefixOf(b, n)] = Entry(b, n)
    <3>1. PrefixOf(b, n) = PrefixOf(a, n) /\ Entry(b, n) = Entry(a, n)
      BY <1>7, <1>8 DEF Entry
    <3>2. PrefixOf(a, n) \in DOMAIN Named(a) /\ PrefixOf(a, n) # c
      BY <1>13, <1>14, NamesAre, PrefixesDiffer
    <3>3. Named(a)[PrefixOf(a, n)] = Entry(a, n)
      BY NamedIs
    <3> QED BY <1>22, <3>1, <3>2, <3>3
  <2> QED BY <1>7, <2>1, <2>2, <2>3
<1>24. Named(b) = u
  <2>1. DOMAIN u = Names(b)
    BY <1>10, <1>14, <1>22
  <2> QED BY <1>5, <1>22, <1>23, <2>1, NamedOnly
<1> QED BY <1>9, <1>11, <1>13, <1>14, <1>15, <1>21, <1>24

-----------------------------------------------------------------------------
(* match_prefix finds the match                                             *)

(* p is what the tree holds of ids, and its node is there, or splits off.   *)
Found(a, m, ids, p) ==
  /\ p \in Seq(Token) /\ p \in R!Prefixes(ids) /\ Len(p) = m.tree[m.terminal].length
  /\ R!IsMatch(Named(a), ids, p)
  /\ Named(m.tree) = R!Split(Named(a), p)
  /\ DOMAIN a \subseteq DOMAIN m.tree
  /\ \A n \in DOMAIN a : PrefixOf(m.tree, n) = PrefixOf(a, n)

(* The tree is as it was, or split right above a node.                      *)
MatchKeeps(a, m, p) ==
  /\ Named(m.tree) = R!Split(Named(a), p)
  /\ p # <<>> => \E n \in DOMAIN a \ {ROOT} : Begins(p, PrefixOf(a, n))
  /\ DOMAIN a \subseteq DOMAIN m.tree
  /\ \A n \in DOMAIN a : PrefixOf(m.tree, n) = PrefixOf(a, n)

LEMMA MatchKeepsNodes ==
  ASSUME NEW a, Tree(a), Clean(a), NEW ids \in Seq(Token),
         NEW m, m = MatchPrefix(a, ids), NEW p, p = PrefixOf(m.tree, m.terminal)
  PROVE  MatchKeeps(a, m, p)
<1> DEFINE e == WalkEnd(a, ids)
<1>1. Shape(a)
  BY DEF Tree
<1>2. EndsWell(a, ids, e)
  BY <1>1, WalkEndsWell
<1>3. e.at \in DOMAIN a /\ e.cut \in Nat
  BY <1>2 DEF EndsWell
<1>4. m = IF e.cut = 0 THEN [tree |-> a, terminal |-> e.at]
          ELSE [tree |-> SplitNode(a, e.at, e.cut), terminal |-> NewId(a)]
  BY DEF MatchPrefix
<1> HIDE DEF e
<1>5. CASE e.cut = 0
  <2>1. m.tree = a /\ m.terminal = e.at /\ p = PrefixOf(a, e.at)
    BY <1>4, <1>5
  <2>2. p = <<>> \/ (p \in Names(a) /\ e.at \in DOMAIN a \ {ROOT} /\ p \in Seq(Token))
    <3>1. CASE e.at = ROOT
      BY <1>1, <2>1, <3>1, PrefixSteps
    <3>2. CASE e.at # ROOT
      BY <1>1, <1>3, <2>1, <3>2, NamesAre
    <3> QED BY <3>1, <3>2
  <2>3. DOMAIN Named(a) = Names(a)
    BY <1>1, NamedIs
  <2>4. R!Split(Named(a), p) = Named(a)
    BY <2>2, <2>3 DEF R!Split
  <2>5. p # <<>> => \E n \in DOMAIN a \ {ROOT} : Begins(p, PrefixOf(a, n))
    BY <2>1, <2>2, BeginsFacts
  <2> QED BY <2>1, <2>4, <2>5 DEF MatchKeeps
<1>6. CASE e.cut # 0
  <2>1. PICK id, cut : id = e.at /\ cut = e.cut
    OBVIOUS
  <2>2. id \in DOMAIN a \ {ROOT} /\ cut \in Nat \ {0} /\ cut < Len(a[id].edge)
    BY <1>2, <1>3, <1>6, <2>1 DEF EndsWell
  <2>3. PICK b : b = SplitNode(a, id, cut)
    OBVIOUS
  <2>4. m.tree = b /\ m.terminal = NewId(a) /\ p = PrefixOf(b, NewId(a))
    BY <1>4, <1>6, <2>1, <2>3
  <2>5. IsSplit(b, a, id, cut)
    BY <1>1, <2>2, <2>3, SplitIs
  <2>6. DOMAIN a \subseteq DOMAIN b /\ \A n \in DOMAIN a : PrefixOf(b, n) = PrefixOf(a, n)
    <3>1. \A n \in DOMAIN a : PrefixOf(b, n) = PrefixOf(a, n)
      BY <1>1, <2>2, <2>5, SplitReads
    <3>2. SplitFields(b, a, id, cut)
      BY <1>1, <2>2, <2>5, SplitHasFields
    <3> QED BY <3>1, <3>2 DEF SplitFields
  <2>7. Begins(p, PrefixOf(a, id)) /\ Named(b) = R!Split(Named(a), p)
    BY <1>1, <2>2, <2>4, <2>5, SplitNamed
  <2> QED BY <2>2, <2>4, <2>6, <2>7 DEF MatchKeeps
<1> QED BY <1>3, <1>5, <1>6

(* No node that was there spells one token more of ids.                     *)
LEMMA MatchIsLongest ==
  ASSUME NEW a, Shape(a), NEW ids \in Seq(Token), NEW m, Matches(m, ids),
         NEW p, p = PrefixOf(m.tree, m.terminal), MatchKeeps(a, m, p), Len(p) < Len(ids)
  PROVE  R!Below(Named(a), SubSeq(ids, 1, Len(p) + 1)) = {}
<1>1. PICK b, top : b = m.tree /\ top = m.terminal
  OBVIOUS
<1>2. /\ Shape(b) /\ top \in DOMAIN b /\ p = PrefixOf(b, top)
      /\ Spells(b, ids, top, b[top].length)
      /\ b[top].length < Len(ids) => ids[b[top].length + 1] \notin DOMAIN b[top].children
      /\ DOMAIN a \subseteq DOMAIN b
      /\ \A n \in DOMAIN a : PrefixOf(b, n) = PrefixOf(a, n)
  BY <1>1 DEF Matches, MatchKeeps, Tree
<1>3. PICK k : k = b[top].length
  OBVIOUS
<1>4. p \in Seq(Token) /\ Len(p) = k /\ k \in Nat
  <2>1. PrefixOf(b, top) \in Seq(Token) /\ Len(PrefixOf(b, top)) = b[top].length
    BY <1>2, PrefixSteps
  <2>2. b[top].length \in Nat
    BY <1>2, NodeFields DEF Shape
  <2> QED BY <1>2, <1>3, <2>1, <2>2
<1>5. PICK q : q = SubSeq(ids, 1, k + 1)
  OBVIOUS
<1>6. q \in Seq(Token) /\ Len(q) = k + 1 /\ \A i \in 1 .. k + 1 : q[i] = ids[i]
  BY <1>4, <1>5, CutSequence
<1> SUFFICES ASSUME NEW n \in DOMAIN a \ {ROOT}, Begins(q, PrefixOf(a, n)) PROVE FALSE
  BY <1>4, <1>5, BelowIs
<1>7. PICK w : w = PrefixOf(a, n)
  OBVIOUS
<1>8. n \in DOMAIN b /\ w = PrefixOf(b, n) /\ w \in Seq(Token) /\ Len(w) = b[n].length
  BY <1>2, <1>7, PrefixSteps
<1>9. k + 1 <= Len(w) /\ \A i \in 1 .. k + 1 : w[i] = ids[i]
  BY <1>6, <1>7 DEF Begins
<1>10. Begins(p, w)
  <2>1. \A i \in 1 .. k : p[i] = ids[i]
    BY <1>2, <1>3 DEF Spells
  <2> QED BY <1>4, <1>8, <1>9, <2>1 DEF Begins
<1>11. top \in Path(b, n) \cup {ROOT}
  BY <1>2, <1>8, <1>10, PathIsPrefixes
<1>12. top # n
  BY <1>3, <1>4, <1>8, <1>9
<1>13. PICK c \in Path(b, n) : b[c].parent = top
  BY <1>2, <1>8, <1>11, <1>12, ChildOnPath
<1>14. c \in DOMAIN b \ {ROOT}
  BY <1>2, <1>8, PathSteps
<1>15. PICK v : v = PrefixOf(b, c)
  OBVIOUS
<1>16. /\ v \in Seq(Token) /\ v[k + 1] = Head(b[c].edge) /\ Head(b[c].edge) \in DOMAIN b[top].children
       /\ Len(v) = b[c].length /\ k < b[c].length /\ b[c].length \in Nat
  BY <1>2, <1>3, <1>13, <1>14, <1>15, HangingFacts
<1>17. Begins(v, w)
  BY <1>2, <1>8, <1>13, <1>15, PathSpells
<1>18. w[k + 1] = v[k + 1]
  BY <1>4, <1>16, <1>17 DEF Begins
<1>19. ids[k + 1] \in DOMAIN b[top].children
  BY <1>4, <1>9, <1>16, <1>18
<1> QED BY <1>2, <1>3, <1>4, <1>19

LEMMA MatchIsFound ==
  ASSUME NEW a, Tree(a), Clean(a), NEW ids \in Seq(Token),
         NEW m, m = MatchPrefix(a, ids), NEW p, p = PrefixOf(m.tree, m.terminal)
  PROVE  Found(a, m, ids, p)
<1>1. Shape(a)
  BY DEF Tree
<1>2. Matches(m, ids)
  BY MatchPrefixIs
<1>3. MatchKeeps(a, m, p)
  BY MatchKeepsNodes
<1>4. p \in Seq(Token) /\ Len(p) = m.tree[m.terminal].length
  BY <1>2, PrefixSteps DEF Matches, Tree
<1>5. Len(p) <= Len(ids) /\ \A i \in 1 .. Len(p) : p[i] = ids[i]
  BY <1>2, <1>4 DEF Matches, Spells
<1>6. p = SubSeq(ids, 1, Len(p)) /\ Len(p) \in 0 .. Len(ids)
  <2>1. PICK k \in Nat : k = Len(p)
    BY <1>4
  <2>2. PICK q : q = SubSeq(ids, 1, k)
    OBVIOUS
  <2>3. q \in Seq(Token) /\ Len(q) = k /\ \A i \in 1 .. k : q[i] = ids[i]
    BY <1>5, <2>1, <2>2, CutSequence
  <2>4. p = q
    <3>1. Len(p) = Len(q) /\ \A i \in 1 .. Len(p) : p[i] = q[i]
      BY <1>5, <2>1, <2>3
    <3>2. p \in Seq(Token) /\ q \in Seq(Token)
      BY <1>4, <2>3
    <3> QED BY ONLY <3>1, <3>2, SeqEqual
  <2> QED BY <1>5, <2>1, <2>2, <2>4
<1>7. p \in R!Prefixes(ids)
  BY <1>6 DEF R!Prefixes
<1>8. R!IsMatch(Named(a), ids, p)
  <2>1. R!\sqsubseteq(p, ids)
    BY <1>5, BeginsIs DEF Begins
  <2>2. ASSUME p # <<>> PROVE R!Below(Named(a), p) # {}
    <3>1. PICK n \in DOMAIN a \ {ROOT} : Begins(p, PrefixOf(a, n))
      BY <1>3, <2>2 DEF MatchKeeps
    <3>2. PrefixOf(a, n) \in DOMAIN Named(a)
      BY <1>1, NamedIs, NamesAre
    <3> QED BY <3>1, <3>2, BeginsIs DEF R!Below
  <2>3. ASSUME p # ids PROVE R!Below(Named(a), SubSeq(ids, 1, Len(p) + 1)) = {}
    <3>1. Len(p) < Len(ids)
      <4>1. Len(p) # Len(ids)
        BY <1>4, <1>5, <2>3, SeqEqual
      <4> QED BY <1>4, <1>5, <4>1
    <3> QED BY <1>1, <1>2, <1>3, <3>1, MatchIsLongest
  <2> QED BY <2>1, <2>2, <2>3 DEF R!IsMatch
<1> QED BY <1>3, <1>4, <1>7, <1>8 DEF Found, MatchKeeps

-----------------------------------------------------------------------------
(* Locks, stamps, nodes more and nodes less                                 *)

LEMMA SameTreeNames ==
  ASSUME NEW a, Shape(a), NEW b, SameTree(b, a)
  PROVE  /\ Shape(b) /\ DOMAIN b = DOMAIN a /\ Names(b) = Names(a)
         /\ \A n \in DOMAIN a :
              /\ PrefixOf(b, n) = PrefixOf(a, n) /\ PageTableOf(b, n) = PageTableOf(a, n)
              /\ Path(b, n) = Path(a, n)
              /\ Entry(b, n) = [table |-> PageTableOf(a, n), own |-> ToSet(a[n].delta.pages),
                                lock |-> b[n].lock]
<1>1. /\ Shape(b) /\ DOMAIN b = DOMAIN a
      /\ \A n \in DOMAIN a : /\ PrefixOf(b, n) = PrefixOf(a, n)
                             /\ PageTableOf(b, n) = PageTableOf(a, n)
                             /\ Path(b, n) = Path(a, n)
  BY SameTreeReads DEF SameTree
<1>2. \A n \in DOMAIN a : b[n].delta = a[n].delta
  BY DEF SameTree
<1>3. Names(b) = Names(a)
  <2>1. \A n \in DOMAIN a \ {ROOT} : PrefixOf(b, n) = PrefixOf(a, n)
    BY <1>1
  <2> QED BY <1>1, <2>1 DEF Names
<1> QED BY <1>1, <1>2, <1>3 DEF Entry

LEMMA StampsAreNotNamed ==
  ASSUME NEW a, Shape(a), NEW b, SameTree(b, a), \A n \in DOMAIN a : b[n].lock = a[n].lock
  PROVE  Named(b) = Named(a)
<1>1. /\ Shape(b) /\ DOMAIN b = DOMAIN a /\ Names(b) = Names(a)
      /\ \A n \in DOMAIN a : PrefixOf(b, n) = PrefixOf(a, n) /\ Entry(b, n) = Entry(a, n)
  BY SameTreeNames DEF Entry
<1>2. PICK t : t = Named(a)
  OBVIOUS
<1>3. /\ t = [p \in DOMAIN t |-> t[p]] /\ DOMAIN t = Names(a)
      /\ \A n \in DOMAIN a \ {ROOT} : t[PrefixOf(a, n)] = Entry(a, n)
  BY <1>2, NamedIs
<1>4. \A n \in DOMAIN b \ {ROOT} : t[PrefixOf(b, n)] = Entry(b, n)
  BY <1>1, <1>3
<1>5. Named(b) = t
  BY <1>1, <1>3, <1>4, NamedOnly
<1> QED BY <1>2, <1>5

(* To touch a path is to do nothing to what the tree stands for; to lock or *)
(* unlock it is to lock or unlock the prefixes of its end.                  *)
LEMMA TouchNamed ==
  ASSUME NEW a, Tree(a), NEW terminal \in DOMAIN a
  PROVE  Named(TouchPath(a, terminal)) = Named(a)
<1>1. PICK b : b = TouchPath(a, terminal)
  OBVIOUS
<1>2. SameTree(b, a) /\ \A n \in DOMAIN a : b[n].lock = a[n].lock
  BY <1>1, TouchKeepsTree
<1> QED BY <1>1, <1>2, StampsAreNotNamed DEF Tree

LEMMA LockNamed ==
  ASSUME NEW a, Tree(a), NEW terminal \in DOMAIN a, NEW p, p = PrefixOf(a, terminal)
  PROVE  /\ Named(AddLock(a, terminal, 1)) = R!LockPath(Named(a), p)
         /\ Named(AddLock(a, terminal, -1)) = R!UnlockPath(Named(a), p)
<1>1. Shape(a)
  BY DEF Tree
<1>2. PICK t : t = Named(a)
  OBVIOUS
<1>3. /\ DOMAIN t = Names(a)
      /\ \A n \in DOMAIN a \ {ROOT} :
           /\ t[PrefixOf(a, n)] = Entry(a, n) /\ PrefixOf(a, n) \in Names(a)
           /\ n \in Path(a, terminal) <=> R!\sqsubseteq(PrefixOf(a, n), p)
           /\ a[n].lock \in Int
  <2>1. \A n \in DOMAIN a \ {ROOT} : n \in Path(a, terminal) <=> R!\sqsubseteq(PrefixOf(a, n), p)
    BY <1>1, PathIsPrefixes, BeginsIs
  <2> QED BY <1>1, <1>2, <2>1, NamedIs, NamesAre, NodeFields DEF Shape
<1>4. ASSUME NEW d \in {1, -1}, NEW u, u = [q \in DOMAIN t |-> u[q]],
             \A q \in DOMAIN t : u[q] = IF R!\sqsubseteq(q, p)
                                         THEN [table |-> t[q].table, own |-> t[q].own, lock |-> t[q].lock + d]
                                         ELSE t[q]
      PROVE  Named(AddLock(a, terminal, d)) = u
  <2>1. PICK b : b = AddLock(a, terminal, d)
    OBVIOUS
  <2>2. SameTree(b, a) /\ \A n \in DOMAIN a :
           b[n].lock = IF n \in Path(a, terminal) THEN a[n].lock + d ELSE a[n].lock
    <3>1. d \in Int
      OBVIOUS
    <3> QED BY <2>1, <3>1, AddLockKeepsTree
  <2>3. /\ Shape(b) /\ DOMAIN b = DOMAIN a /\ Names(b) = Names(a)
        /\ \A n \in DOMAIN a :
             /\ PrefixOf(b, n) = PrefixOf(a, n)
             /\ Entry(b, n) = [table |-> PageTableOf(a, n), own |-> ToSet(a[n].delta.pages),
                               lock |-> b[n].lock]
    BY <1>1, <2>2, SameTreeNames
  <2>4. ASSUME NEW n \in DOMAIN a \ {ROOT} PROVE u[PrefixOf(b, n)] = Entry(b, n)
    <3>1. PICK q : q = PrefixOf(a, n)
      OBVIOUS
    <3>2. q \in DOMAIN t /\ t[q] = Entry(a, n) /\ (n \in Path(a, terminal) <=> R!\sqsubseteq(q, p))
      BY <1>3, <3>1
    <3>3. CASE n \in Path(a, terminal)
      <4>1. u[q] = [table |-> t[q].table, own |-> t[q].own, lock |-> t[q].lock + d]
        BY <1>4, <3>2, <3>3
      <4>2. t[q].table = PageTableOf(a, n) /\ t[q].own = ToSet(a[n].delta.pages) /\ t[q].lock = a[n].lock
        BY <3>2 DEF Entry
      <4>3. b[n].lock = a[n].lock + d
        BY <2>2, <3>3
      <4> QED BY <2>3, <3>1, <4>1, <4>2, <4>3
    <3>4. CASE n \notin Path(a, terminal)
      <4>1. u[q] = Entry(a, n)
        BY <1>4, <3>2, <3>4
      <4>2. b[n].lock = a[n].lock
        BY <2>2, <3>4
      <4> QED BY <2>3, <3>1, <4>1, <4>2 DEF Entry
    <3> QED BY <3>3, <3>4
  <2>5. Named(b) = u
    <3>1. u = [q \in DOMAIN u |-> u[q]] /\ DOMAIN u = Names(b)
      BY <1>3, <1>4, <2>3
    <3> QED BY <2>3, <2>4, <3>1, NamedOnly
  <2> QED BY <2>1, <2>5
<1>5. ASSUME NEW q \in DOMAIN t
      PROVE  /\ [t[q] EXCEPT !.lock = @ + 1] = [table |-> t[q].table, own |-> t[q].own, lock |-> t[q].lock + 1]
             /\ [t[q] EXCEPT !.lock = @ - 1] = [table |-> t[q].table, own |-> t[q].own, lock |-> t[q].lock + (-1)]
  <2>1. PICK n \in DOMAIN a \ {ROOT} : q = PrefixOf(a, n)
    BY <1>3 DEF Names
  <2>2. PICK r : r = t[q]
    OBVIOUS
  <2>3. r = [table |-> PageTableOf(a, n), own |-> ToSet(a[n].delta.pages), lock |-> a[n].lock]
    BY <1>3, <2>1, <2>2 DEF Entry
  <2>4. r.lock \in Int
    BY <1>3, <2>3
  <2>5. \A x : [r EXCEPT !.lock = x] = [table |-> r.table, own |-> r.own, lock |-> x]
    BY <2>3
  <2>6. r.lock - 1 = r.lock + (-1)
    BY <2>4
  <2> QED BY <2>2, <2>5, <2>6
<1>6. Named(AddLock(a, terminal, 1)) = R!LockPath(t, p)
  <2>1. PICK u : u = R!LockPath(t, p)
    OBVIOUS
  <2>2. /\ u = [q \in DOMAIN t |-> u[q]]
        /\ \A q \in DOMAIN t : u[q] = IF R!\sqsubseteq(q, p)
                                       THEN [table |-> t[q].table, own |-> t[q].own, lock |-> t[q].lock + 1]
                                       ELSE t[q]
    BY <1>5, <2>1 DEF R!LockPath
  <2> QED BY <1>4, <2>1, <2>2
<1>7. Named(AddLock(a, terminal, -1)) = R!UnlockPath(t, p)
  <2>1. PICK u : u = R!UnlockPath(t, p)
    OBVIOUS
  <2>2. /\ u = [q \in DOMAIN t |-> u[q]]
        /\ \A q \in DOMAIN t : u[q] = IF R!\sqsubseteq(q, p)
                                       THEN [table |-> t[q].table, own |-> t[q].own, lock |-> t[q].lock + (-1)]
                                       ELSE t[q]
    BY <1>5, <2>1 DEF R!UnlockPath
  <2> QED BY <1>4, <2>1, <2>2
<1> QED BY <1>2, <1>6, <1>7

(* A leaf more is an entry more.                                            *)
Adds(a, parent, edge, pages, ids, owned) ==
  /\ ids = PrefixOf(a, parent) \o edge
  /\ owned = ToSet(PageDelta(PageTableOf(a, parent), pages).pages)

LEMMA GrownNamed ==
  ASSUME NEW a, Shape(a), NEW parent, NEW edge, NEW pages, Fits(a, parent, edge, pages),
         NEW id, NEW b, IsGrown(b, a, id, parent, edge, pages),
         NEW ids, NEW owned, Adds(a, parent, edge, pages, ids, owned)
  PROVE  Named(b) = R!Insert(Named(a), ids, pages, owned)
<1>1. Shape(b)
  BY GrownKeepsShape
<1>2. /\ id \in Nat \ DOMAIN a /\ DOMAIN b = DOMAIN a \cup {id}
      /\ \A n \in DOMAIN a : b[n].delta = a[n].delta /\ b[n].lock = a[n].lock
      /\ b[id].delta = PageDelta(PageTableOf(a, parent), pages) /\ b[id].lock = 0
  BY DEF IsGrown
<1>3. ROOT \in DOMAIN a
  BY DEF Shape, Typed
<1>4. /\ \A n \in DOMAIN a : /\ PageTableOf(b, n) = PageTableOf(a, n)
                             /\ PrefixOf(b, n) = PrefixOf(a, n)
      /\ PageTableOf(b, id) = pages
      /\ PrefixOf(b, id) = ids
  BY GrownReads DEF Adds
<1>5. PICK t : t = Named(a)
  OBVIOUS
<1>6. DOMAIN t = Names(a) /\ \A n \in DOMAIN a \ {ROOT} : t[PrefixOf(a, n)] = Entry(a, n)
  BY <1>5, NamedIs
<1>7. PICK u : u = R!Insert(t, ids, pages, owned)
  OBVIOUS
<1>8. /\ DOMAIN u = DOMAIN t \cup {ids} /\ u = [q \in DOMAIN u |-> u[q]]
      /\ u[ids] = [table |-> pages, own |-> owned, lock |-> 0]
      /\ \A q \in DOMAIN t : q # ids => u[q] = t[q]
  BY <1>7 DEF R!Insert
<1>9. Names(b) = Names(a) \cup {ids}
  <2>1. \A n \in DOMAIN a \ {ROOT} : PrefixOf(b, n) = PrefixOf(a, n)
    BY <1>4
  <2>2. DOMAIN b \ {ROOT} = (DOMAIN a \ {ROOT}) \cup {id}
    BY <1>2, <1>3
  <2> QED BY <1>4, <2>1, <2>2 DEF Names
<1>10. \A n \in DOMAIN b \ {ROOT} : u[PrefixOf(b, n)] = Entry(b, n)
  <2>1. u[PrefixOf(b, id)] = Entry(b, id)
    BY <1>2, <1>4, <1>8 DEF Entry, Adds
  <2>2. ASSUME NEW n \in DOMAIN a \ {ROOT} PROVE u[PrefixOf(b, n)] = Entry(b, n)
    <3>1. PrefixOf(b, n) # ids
      <4>1. n # id /\ n \in DOMAIN b /\ id \in DOMAIN b
        BY <1>2
      <4> QED BY <1>1, <1>4, <4>1, PrefixesDiffer
    <3>2. PrefixOf(a, n) \in DOMAIN t
      BY <1>6, NamesAre
    <3>3. Entry(b, n) = Entry(a, n)
      BY <1>2, <1>4 DEF Entry
    <3> QED BY <1>4, <1>6, <1>8, <3>1, <3>2, <3>3
  <2> QED BY <1>2, <2>1, <2>2
<1>11. Named(b) = u
  <2>1. DOMAIN u = Names(b)
    BY <1>6, <1>8, <1>9
  <2> QED BY <1>1, <1>8, <1>10, <2>1, NamedOnly
<1> QED BY <1>5, <1>7, <1>11

(* Nodes less are entries less.                                             *)
LEMMA PrunedNamed ==
  ASSUME NEW a, Shape(a), NEW S, S \subseteq DOMAIN a, Droops(a, S),
         NEW gone, gone = {PrefixOf(a, n) : n \in S}
  PROVE  Named(RemoveAll(a, S)) = R!Prune(Named(a), gone)
<1>1. PICK b : b = RemoveAll(a, S)
  OBVIOUS
<1>2. IsPruned(b, a, S)
  BY <1>1, PrunedIs
<1>3. Shape(b)
  BY <1>2, PrunedKeepsShape
<1>4. /\ DOMAIN b = DOMAIN a \ S /\ ROOT \notin S
      /\ \A n \in DOMAIN b : b[n].delta = a[n].delta /\ b[n].lock = a[n].lock
  BY <1>2 DEF IsPruned, Droops
<1>5. \A n \in DOMAIN b : /\ PageTableOf(b, n) = PageTableOf(a, n)
                          /\ PrefixOf(b, n) = PrefixOf(a, n)
  BY <1>2, PrunedReads
<1>6. PICK t : t = Named(a)
  OBVIOUS
<1>7. DOMAIN t = Names(a) /\ \A n \in DOMAIN a \ {ROOT} : t[PrefixOf(a, n)] = Entry(a, n)
  BY <1>6, NamedIs
<1>8. PICK u : u = R!Prune(t, gone)
  OBVIOUS
<1>9. /\ DOMAIN u = DOMAIN t \ gone /\ u = [q \in DOMAIN u |-> u[q]]
      /\ \A q \in DOMAIN u : u[q] = t[q]
  BY <1>8 DEF R!Prune
<1>10. \A n \in DOMAIN a : PrefixOf(a, n) \in gone <=> n \in S
  <2>1. \A n \in DOMAIN a : \A q \in S : PrefixOf(a, n) = PrefixOf(a, q) => n = q
    BY PrefixesDiffer
  <2> QED BY <2>1
<1>11. Names(b) = Names(a) \ gone
  <2>1. \A n \in DOMAIN b \ {ROOT} : PrefixOf(b, n) = PrefixOf(a, n)
    BY <1>5
  <2>2. DOMAIN b \ {ROOT} = (DOMAIN a \ {ROOT}) \ S
    BY <1>4
  <2>3. Names(b) = {PrefixOf(a, n) : n \in (DOMAIN a \ {ROOT}) \ S}
    BY <2>1, <2>2 DEF Names
  <2> QED BY <1>10, <2>3 DEF Names
<1>12. \A n \in DOMAIN b \ {ROOT} : u[PrefixOf(b, n)] = Entry(b, n)
  <2> TAKE n \in DOMAIN b \ {ROOT}
  <2>1. n \in DOMAIN a \ {ROOT} /\ n \notin S
    BY <1>4
  <2>2. PrefixOf(a, n) \in DOMAIN u
    BY <1>7, <1>9, <1>10, <2>1, NamesAre
  <2>3. Entry(b, n) = Entry(a, n)
    BY <1>4, <1>5 DEF Entry
  <2> QED BY <1>5, <1>7, <1>9, <2>1, <2>2, <2>3
<1>13. Named(b) = u
  <2>1. DOMAIN u = Names(b)
    BY <1>7, <1>9, <1>11
  <2> QED BY <1>3, <1>9, <1>12, <2>1, NamedOnly
<1> QED BY <1>1, <1>6, <1>8, <1>13

-----------------------------------------------------------------------------
(* What may be evicted                                                      *)

LEMMA LeafIsLast ==
  ASSUME NEW a, Shape(a), NEW n \in DOMAIN a \ {ROOT}
  PROVE  IsLeaf(a, n) <=> \A m \in DOMAIN a : n \in Path(a, m) => m = n
<1>1. a[n].children = <<>> <=> DOMAIN a[n].children = {}
  <2>1. a[n].children \in UNION {[S -> Nat] : S \in SUBSET Token}
    BY DEF Shape, Typed, Node
  <2>2. PICK S : a[n].children \in [S -> Nat]
    BY <2>1
  <2>3. PICK f \in [S -> Nat] : f = a[n].children
    BY <2>2
  <2>4. f = <<>> <=> DOMAIN f = {}
    OBVIOUS
  <2> QED BY <2>3, <2>4
<1>2. ASSUME IsLeaf(a, n), NEW m \in DOMAIN a, n \in Path(a, m), m # n PROVE FALSE
  <2>1. PICK c \in Path(a, m) : a[c].parent = n
    BY <1>2, ChildOnPath
  <2>2. c \in DOMAIN a \ {ROOT}
    BY PathSteps
  <2>3. Head(a[c].edge) \in DOMAIN a[n].children
    BY <2>1, <2>2, HangingFacts
  <2> QED BY <1>1, <1>2, <2>3 DEF IsLeaf
<1>3. ASSUME ~IsLeaf(a, n) PROVE \E m \in DOMAIN a : n \in Path(a, m) /\ m # n
  <2>1. PICK t : t \in DOMAIN a[n].children
    BY <1>1, <1>3 DEF IsLeaf
  <2>2. PICK c : c = a[n].children[t]
    OBVIOUS
  <2>3. c \in DOMAIN a \ {ROOT} /\ a[c].parent = n
    BY <2>1, <2>2 DEF Shape, Leads
  <2>4. n \in Path(a, c)
    BY <2>3, PathSteps
  <2>5. c # n
    BY <2>3, ParentOf
  <2> QED BY <2>3, <2>4, <2>5
<1> QED BY <1>2, <1>3

(* A prefix with no cached extension but itself is that of a leaf.          *)
LEMMA LeafNamed ==
  ASSUME NEW a, Shape(a), NEW n \in DOMAIN a \ {ROOT}, NEW p, p = PrefixOf(a, n)
  PROVE  p \in R!Evictable(Named(a)) <=> n \in Evictable(a)
<1>1. p \in DOMAIN Named(a) /\ Named(a)[p].lock = a[n].lock
  BY NamedIs, NamesAre
<1>2. R!Below(Named(a), p) = {PrefixOf(a, m) : m \in {m \in DOMAIN a \ {ROOT} : n \in Path(a, m)}}
  BY BelowNode
<1>3. n \in Path(a, n)
  BY PathSteps
<1>4. R!Below(Named(a), p) = {p} <=> \A m \in DOMAIN a : n \in Path(a, m) => m = n
  <2>1. ASSUME \A m \in DOMAIN a : n \in Path(a, m) => m = n PROVE R!Below(Named(a), p) = {p}
    BY <1>2, <1>3, <2>1
  <2>2. ASSUME R!Below(Named(a), p) = {p}, NEW m \in DOMAIN a, n \in Path(a, m) PROVE m = n
    <3>1. m # ROOT
      BY <2>2, PathSteps
    <3>2. PrefixOf(a, m) = p
      BY <1>2, <2>2, <3>1
    <3> QED BY <3>2, PrefixesDiffer
  <2> QED BY <2>1, <2>2
<1>5. IsLeaf(a, n) <=> \A m \in DOMAIN a : n \in Path(a, m) => m = n
  BY LeafIsLast
<1> QED BY <1>1, <1>4, <1>5 DEF R!Evictable, Evictable

LEMMA SubtreeNamed ==
  ASSUME NEW a, Shape(a), NEW n \in DOMAIN a \ {ROOT}, NEW p, p = PrefixOf(a, n),
         \A q \in DOMAIN Named(a) : Named(a)[q].lock \in Nat
  PROVE  R!Subtree(Named(a), p) = {PrefixOf(a, m) : m \in Subtree(a, n)}
<1>1. PICK S : S = {m \in DOMAIN a : n \in Path(a, m)}
  OBVIOUS
<1>2. ROOT \notin S
  BY <1>1, PathSteps
<1>3. R!Below(Named(a), p) = {PrefixOf(a, m) : m \in S}
  <2>1. S = {m \in DOMAIN a \ {ROOT} : n \in Path(a, m)}
    BY <1>1, <1>2
  <2> QED BY <2>1, BelowNode
<1>4. \A m \in S : PrefixOf(a, m) \in DOMAIN Named(a) /\ Named(a)[PrefixOf(a, m)].lock = a[m].lock
  BY <1>1, <1>2, NamedIs, NamesAre
<1>5. R!Below(Named(a), p) \cap R!Locked(Named(a)) = {} <=> \A m \in S : a[m].lock = 0
  <2>1. \A m \in S : PrefixOf(a, m) \in R!Locked(Named(a)) <=> a[m].lock # 0
    BY <1>4 DEF R!Locked
  <2> QED BY <1>3, <2>1
<1>6. Subtree(a, n) = IF \A m \in S : a[m].lock = 0 THEN S ELSE {}
  BY <1>1 DEF Subtree
<1> QED BY <1>3, <1>5, <1>6 DEF R!Subtree

(* What the removed nodes owned.                                            *)
LEMMA GoneNamed ==
  ASSUME NEW a, Shape(a), NEW S, S \subseteq DOMAIN a \ {ROOT},
         NEW gone, gone = {PrefixOf(a, n) : n \in S}
  PROVE  UNION {Named(a)[p].own : p \in gone} = UNION {ToSet(a[n].delta.pages) : n \in S}
<1>1. \A n \in S : Named(a)[PrefixOf(a, n)].own = ToSet(a[n].delta.pages)
  BY NamedIs, NamesAre
<1> QED BY <1>1

(* The table of a node, or of the empty prefix.                             *)
LEMMA TableNamed ==
  ASSUME NEW a, Shape(a), NEW n \in DOMAIN a, NEW p, p = PrefixOf(a, n)
  PROVE  R!Table(Named(a), p) = PageTableOf(a, n)
<1>1. CASE n = ROOT
  BY <1>1, PrefixSteps, TableSteps DEF R!Table
<1>2. CASE n # ROOT
  BY <1>2, NamedIs, NamesAre DEF R!Table
<1> QED BY <1>1, <1>2

-----------------------------------------------------------------------------
(* Counting by hand                                                         *)

(* w sums c over every set of keys.                                         *)
SumsUp(w, c, D) ==
  /\ w[{}] = 0
  /\ \A s \in SUBSET D : s # {} => \A x \in s : w[s] = c[x] + w[s \ {x}]

LEMMA SumIs ==
  ASSUME NEW D, IsFiniteSet(D), NEW c, DOMAIN c = D, NEW w, SumsUp(w, c, D)
  PROVE  SumFunction(c) = w[D]
<1> DEFINE some(s) == CHOOSE x \in s : TRUE
           Iter(f) == f = [s \in SUBSET D |-> IF s = {} THEN 0 ELSE c[some(s)] + f[s \ {some(s)}]]
           iter == CHOOSE f : Iter(f)
<1>1. SumFunction(c) = iter[D]
  BY DEF SumFunction, SumFunctionOnSet, FoldFunctionOnSet, MapThenFoldSet
<1>2. \A s : s # {} => some(s) \in s
  OBVIOUS
<1> HIDE DEF some
<1>3. Iter(iter)
  <2>1. PICK v : v = [s \in SUBSET D |-> w[s]]
    OBVIOUS
  <2>2. ASSUME NEW s \in SUBSET D
        PROVE  w[s] = IF s = {} THEN 0 ELSE c[some(s)] + v[s \ {some(s)}]
    <3>1. CASE s = {}
      BY <3>1 DEF SumsUp
    <3>2. CASE s # {}
      <4>1. some(s) \in s /\ s \ {some(s)} \in SUBSET D
        BY <1>2, <3>2
      <4>2. w[s] = c[some(s)] + w[s \ {some(s)}]
        BY <3>2, <4>1 DEF SumsUp
      <4> QED BY <2>1, <3>2, <4>1, <4>2
    <3> QED BY <3>1, <3>2
  <2>3. Iter(v)
    BY <2>1, <2>2
  <2> HIDE DEF Iter
  <2> QED BY <2>3
<1>4. \A s \in SUBSET D : iter[s] = IF s = {} THEN 0 ELSE c[some(s)] + iter[s \ {some(s)}]
  <2> HIDE DEF iter
  <2> QED BY <1>3
<1> HIDE DEF Iter, iter
<1>5. PICK next : next = [s \in SUBSET D |-> s \ {some(s)}]
  OBVIOUS
<1>6. PICK rank : rank = [s \in SUBSET D |-> Cardinality(s)]
  OBVIOUS
<1>7. Descends(SUBSET D, {{}}, next, rank)
  <2>1. \A s \in SUBSET D : IsFiniteSet(s) /\ Cardinality(s) \in Nat
    BY FS_Subset, FS_CardinalityType
  <2>2. rank \in [SUBSET D -> Nat]
    BY <1>6, <2>1
  <2>3. ASSUME NEW s \in (SUBSET D) \ {{}} PROVE next[s] \in SUBSET D /\ rank[next[s]] < rank[s]
    <3>1. some(s) \in s /\ next[s] = s \ {some(s)} /\ s \ {some(s)} \in SUBSET D
      BY <1>2, <1>5
    <3>2. Cardinality(s \ {some(s)}) = Cardinality(s) - 1
      BY <2>1, <3>1, FS_RemoveElement
    <3> QED BY <1>6, <2>1, <3>1, <3>2
  <2> QED BY <2>2, <2>3 DEF Descends
<1> DEFINE Good == {s \in SUBSET D : iter[s] = w[s]}
<1>8. {{}} \subseteq Good
  BY <1>4 DEF SumsUp
<1>9. ASSUME NEW s \in (SUBSET D) \ {{}}, next[s] \in Good PROVE s \in Good
  <2>1. some(s) \in s /\ next[s] = s \ {some(s)}
    BY <1>2, <1>5
  <2>2. iter[s] = c[some(s)] + iter[s \ {some(s)}] /\ w[s] = c[some(s)] + w[s \ {some(s)}]
    BY <1>4, <2>1 DEF SumsUp
  <2> QED BY <1>9, <2>1, <2>2
<1>10. SUBSET D \subseteq Good
  <2> HIDE DEF Good
  <2>1. PICK P, Stop, G : P = SUBSET D /\ Stop = {{}} /\ G = Good
    OBVIOUS
  <2>2. Descends(P, Stop, next, rank) /\ Stop \subseteq G
    BY <1>7, <1>8, <2>1
  <2>3. \A s \in P \ Stop : next[s] \in G => s \in G
    BY <1>9, <2>1
  <2>4. P \subseteq G
    BY <2>2, <2>3, HoldsEverywhere
  <2> QED BY <2>1, <2>4
<1> QED BY <1>1, <1>10

(* A sequence that names nothing twice has as many elements as places.      *)
LEMMA OnceCounts ==
  ASSUME NEW s \in Seq(Page), R!OnceIn(s)
  PROVE  IsFiniteSet(ToSet(s)) /\ Cardinality(ToSet(s)) = Len(s)
<1>1. PICK n \in Nat : n = Len(s)
  OBVIOUS
<1>2. ToSet(s) = {s[i] : i \in 1 .. n}
  BY <1>1 DEF ToSet
<1>3. \A i, j \in 1 .. n : s[i] = s[j] => i = j
  BY <1>1 DEF R!OnceIn
<1>4. PICK f : f = [i \in 1 .. n |-> s[i]]
  OBVIOUS
<1>5. f \in Bijection(1 .. n, ToSet(s))
  BY <1>2, <1>3, <1>4 DEF Bijection, Injection, Surjection, IsInjective
<1>6. IsFiniteSet(1 .. n) /\ Cardinality(1 .. n) = n
  BY FS_Interval
<1>7. ExistsBijection(1 .. n, ToSet(s))
  BY <1>5 DEF ExistsBijection
<1> QED BY <1>1, <1>6, <1>7, FS_Bijection

(* Sequences that name every page once, in one of them.                     *)
Parts(f, D) ==
  /\ IsFiniteSet(D) /\ f \in [D -> Seq(Page)]
  /\ \A n \in D : R!OnceIn(f[n])
  /\ \A n, q \in D : n # q => ToSet(f[n]) \cap ToSet(f[q]) = {}

(* The lengths of the parts add up to the number of their pages.            *)
AddUp(f, D) ==
  /\ IsFiniteSet(UNION {ToSet(f[n]) : n \in D})
  /\ SumFunction([n \in D |-> Len(f[n])]) = Cardinality(UNION {ToSet(f[n]) : n \in D})

(* The sum of the lengths of disjoint parts is the size of their union.     *)
LEMMA PartsAddUp ==
  ASSUME NEW D, NEW f, Parts(f, D)
  PROVE  AddUp(f, D)
<1>0. /\ IsFiniteSet(D) /\ f \in [D -> Seq(Page)]
      /\ \A n \in D : R!OnceIn(f[n])
      /\ \A n, q \in D : n # q => ToSet(f[n]) \cap ToSet(f[q]) = {}
  BY DEF Parts
<1>1. PICK c : c = [n \in D |-> Len(f[n])]
  OBVIOUS
<1>2. PICK w : w = [s \in SUBSET D |-> Cardinality(UNION {ToSet(f[n]) : n \in s})]
  OBVIOUS
<1>3. \A s \in SUBSET D : IsFiniteSet(UNION {ToSet(f[n]) : n \in s})
  <2> TAKE s \in SUBSET D
  <2>1. UNION {ToSet(f[n]) : n \in s} \subseteq Page
    BY <1>0, Elements
  <2> QED BY <2>1, TreeAssumption, FS_Subset
<1>4. w[{}] = 0
  <2>1. UNION {ToSet(f[n]) : n \in {}} = {}
    OBVIOUS
  <2> QED BY <1>2, <2>1, FS_EmptySet
<1>5. ASSUME NEW s \in SUBSET D, NEW x \in s PROVE w[s] = c[x] + w[s \ {x}]
  <2>1. PICK A, B : A = ToSet(f[x]) /\ B = UNION {ToSet(f[n]) : n \in s \ {x}}
    OBVIOUS
  <2>2. UNION {ToSet(f[n]) : n \in s} = A \cup B
    BY <2>1
  <2>3. A \cap B = {}
    BY <1>0, <2>1
  <2>4. IsFiniteSet(A) /\ Cardinality(A) = Len(f[x])
    BY <1>0, <2>1, OnceCounts
  <2>5. IsFiniteSet(B)
    BY <1>3, <2>1
  <2>6. /\ Cardinality(A \cup B) = Cardinality(A) + Cardinality(B) - Cardinality(A \cap B)
        /\ Cardinality(A) \in Nat /\ Cardinality(B) \in Nat
    BY <2>4, <2>5, FS_Union, FS_CardinalityType
  <2>7. Cardinality(A \cap B) = 0
    BY <2>3, FS_EmptySet
  <2>8. w[s] = Cardinality(A \cup B) /\ w[s \ {x}] = Cardinality(B) /\ c[x] = Len(f[x])
    BY <1>1, <1>2, <2>1, <2>2
  <2> QED BY <2>4, <2>6, <2>7, <2>8
<1>6. SumsUp(w, c, D)
  BY <1>4, <1>5 DEF SumsUp
<1>7. SumFunction(c) = w[D]
  BY <1>0, <1>1, <1>6, SumIs
<1>8. w[D] = Cardinality(UNION {ToSet(f[n]) : n \in D})
  BY <1>2
<1> QED BY <1>1, <1>3, <1>7, <1>8 DEF AddUp

(* No page is owned by two nodes; the root owns none and is never locked.   *)
Apart(a) ==
  \A n, q \in DOMAIN a \ {ROOT} :
    n # q => ToSet(a[n].delta.pages) \cap ToSet(a[q].delta.pages) = {}

(* The root has no pages and is never locked.                               *)
Bare(a) == a[ROOT].delta.pages = <<>> /\ a[ROOT].lock = 0

LEMMA OwnersApart ==
  ASSUME NEW a, Shape(a), R!PrefixTree(Named(a))
  PROVE  Apart(a)
<1> SUFFICES ASSUME NEW n \in DOMAIN a \ {ROOT}, NEW q \in DOMAIN a \ {ROOT}, n # q
             PROVE  ToSet(a[n].delta.pages) \cap ToSet(a[q].delta.pages) = {}
  BY DEF Apart
<1>1. PICK v, w : v = PrefixOf(a, n) /\ w = PrefixOf(a, q)
  OBVIOUS
<1>2. v # w
  BY <1>1, PrefixesDiffer
<1>3. /\ v \in DOMAIN Named(a) /\ w \in DOMAIN Named(a)
      /\ Named(a)[v].own = ToSet(a[n].delta.pages)
      /\ Named(a)[w].own = ToSet(a[q].delta.pages)
  BY <1>1, NamedIs, NamesAre
<1> QED BY <1>2, <1>3 DEF R!PrefixTree

LEMMA DeltasNameOnce ==
  ASSUME NEW a, Shape(a), Clean(a), NEW n \in DOMAIN a \ {ROOT}
  PROVE  a[n].delta.pages \in Seq(Page) /\ R!OnceIn(a[n].delta.pages)
<1>1. PICK s, t, d : s = PageTableOf(a, a[n].parent) /\ t = PageTableOf(a, n) /\ d = a[n].delta
  OBVIOUS
<1>2. s \in Seq(Page) /\ t \in Seq(Page)
  BY <1>1, TableSteps, ParentOf
<1>3. d = PageDelta(s, t) /\ R!OnceIn(t)
  BY <1>1 DEF Clean
<1>4. PICK k, p : k = d.retain /\ p = d.pages
  OBVIOUS
<1>5. /\ k \in Nat /\ k <= Len(t) /\ p \in Seq(Page) /\ Len(p) = Len(t) - k
      /\ \A i \in 1 .. Len(t) - k : p[i] = t[k + i]
  <2>1. /\ PageDelta(s, t).retain \in Nat /\ PageDelta(s, t).retain <= Len(t)
        /\ PageDelta(s, t).pages \in Seq(Page)
        /\ Len(PageDelta(s, t).pages) = Len(t) - PageDelta(s, t).retain
        /\ \A i \in 1 .. Len(t) - PageDelta(s, t).retain :
             PageDelta(s, t).pages[i] = t[PageDelta(s, t).retain + i]
    BY ONLY <1>2, DeltaIs
  <2>2. PageDelta(s, t).retain = k /\ PageDelta(s, t).pages = p
    BY <1>3, <1>4
  <2> QED BY ONLY <2>1, <2>2
<1>6. ASSUME NEW i \in 1 .. Len(p), NEW j \in 1 .. Len(p), p[i] = p[j] PROVE i = j
  <2>1. i \in 1 .. Len(t) - k /\ j \in 1 .. Len(t) - k
    BY <1>5
  <2>2. k + i \in 1 .. Len(t) /\ k + j \in 1 .. Len(t)
    BY <1>5, <2>1
  <2>3. t[k + i] = t[k + j]
    BY <1>5, <1>6, <2>1
  <2>4. k + i = k + j
    BY <1>3, <2>2, <2>3 DEF R!OnceIn
  <2> QED BY <1>5, <2>1, <2>4
<1> QED BY <1>1, <1>4, <1>5, <1>6 DEF R!OnceIn

(* The counts of cached and pinned pages are sizes of sets of pages.        *)
LEMMA CountsNamed ==
  ASSUME NEW a, Shape(a), Clean(a), Apart(a), Bare(a)
  PROVE  /\ CachedCount(a) = Cardinality(R!Cached(Named(a)))
         /\ PinnedCount(a) = Cardinality(R!Pinned(Named(a)))
<1>1. PICK f : f = [n \in DOMAIN a |-> a[n].delta.pages]
  OBVIOUS
<1>2. \A n \in DOMAIN a : f[n] \in Seq(Page) /\ R!OnceIn(f[n])
  <2>1. f[ROOT] = <<>> /\ ROOT \in DOMAIN a
    BY <1>1 DEF Bare, Shape, Typed
  <2>2. <<>> \in Seq(Page) /\ R!OnceIn(<<>>)
    BY DEF R!OnceIn
  <2> QED BY <1>1, <2>1, <2>2, DeltasNameOnce
<1>3. \A n, q \in DOMAIN a : n # q => ToSet(f[n]) \cap ToSet(f[q]) = {}
  <2>1. ToSet(f[ROOT]) = {}
    BY <1>1 DEF Bare, ToSet, Shape, Typed
  <2>2. \A n, q \in DOMAIN a \ {ROOT} : n # q => ToSet(f[n]) \cap ToSet(f[q]) = {}
    BY <1>1 DEF Apart
  <2> QED BY <2>1, <2>2
<1>4. IsFiniteSet(DOMAIN a) /\ ROOT \in DOMAIN a
  BY DEF Shape, Typed
<1>5. /\ DOMAIN Named(a) = Names(a)
      /\ \A n \in DOMAIN a \ {ROOT} :
           /\ Named(a)[PrefixOf(a, n)].own = ToSet(f[n])
           /\ Named(a)[PrefixOf(a, n)].lock = a[n].lock
           /\ PrefixOf(a, n) \in Names(a)
  BY <1>1, NamedIs, NamesAre
<1>6. CachedCount(a) = Cardinality(R!Cached(Named(a)))
  <2>1. UNION {ToSet(f[n]) : n \in DOMAIN a} = R!Cached(Named(a))
    <3>1. ToSet(f[ROOT]) = {}
      BY <1>1 DEF Bare, ToSet, Shape, Typed
    <3>2. UNION {ToSet(f[n]) : n \in DOMAIN a} = UNION {ToSet(f[n]) : n \in DOMAIN a \ {ROOT}}
      BY <3>1
    <3>3. R!Cached(Named(a)) = UNION {ToSet(f[n]) : n \in DOMAIN a \ {ROOT}}
      BY <1>5 DEF R!Cached, Names
    <3> QED BY <3>2, <3>3
  <2>2. f \in [DOMAIN a -> Seq(Page)]
    BY <1>1, <1>2
  <2>3. SumFunction([n \in DOMAIN a |-> Len(f[n])]) = Cardinality(UNION {ToSet(f[n]) : n \in DOMAIN a})
    <3>1. Parts(f, DOMAIN a)
      BY <1>2, <1>3, <1>4, <2>2 DEF Parts
    <3>2. AddUp(f, DOMAIN a)
      BY <3>1, PartsAddUp
    <3> QED BY <3>2 DEF AddUp
  <2>4. [n \in DOMAIN a |-> Len(f[n])] = [n \in DOMAIN a |-> Len(a[n].delta.pages)]
    BY <1>1
  <2> QED BY <2>1, <2>3, <2>4 DEF CachedCount
<1>7. PinnedCount(a) = Cardinality(R!Pinned(Named(a)))
  <2>1. PICK D : D = {n \in DOMAIN a : a[n].lock > 0}
    OBVIOUS
  <2>2. PICK g : g = [n \in D |-> a[n].delta.pages]
    OBVIOUS
  <2>3. D \subseteq DOMAIN a \ {ROOT} /\ IsFiniteSet(D) /\ \A n \in D : g[n] = f[n]
    <3>1. D \subseteq DOMAIN a \ {ROOT}
      BY <2>1 DEF Bare
    <3> QED BY <1>1, <1>4, <2>2, <3>1, FS_Subset
  <2>4. g \in [D -> Seq(Page)]
    BY <1>2, <2>2, <2>3
  <2>5. /\ \A n \in D : R!OnceIn(g[n])
        /\ \A n, q \in D : n # q => ToSet(g[n]) \cap ToSet(g[q]) = {}
    BY <1>2, <1>3, <2>3
  <2>6. SumFunction([n \in D |-> Len(g[n])]) = Cardinality(UNION {ToSet(g[n]) : n \in D})
    <3>1. Parts(g, D)
      BY <2>3, <2>4, <2>5 DEF Parts
    <3>2. AddUp(g, D)
      BY <3>1, PartsAddUp
    <3> QED BY <3>2 DEF AddUp
  <2>7. UNION {ToSet(g[n]) : n \in D} = R!Pinned(Named(a))
    <3>1. R!Locked(Named(a)) = {PrefixOf(a, n) : n \in D}
      BY <1>5, <2>1, <2>3 DEF R!Locked, Names
    <3>2. \A n \in D : Named(a)[PrefixOf(a, n)].own = ToSet(g[n])
      BY <1>5, <2>3
    <3> QED BY <3>1, <3>2 DEF R!Pinned
  <2>8. [n \in D |-> Len(g[n])] = [n \in D |-> Len(a[n].delta.pages)]
    BY <2>2
  <2> QED BY <2>1, <2>6, <2>7, <2>8 DEF PinnedCount
<1> QED BY <1>6, <1>7

LEMMA SameTreeIsClean ==
  ASSUME NEW a, Shape(a), Clean(a), Apart(a), NEW b, SameTree(b, a)
  PROVE  Clean(b) /\ Apart(b)
<1>1. /\ DOMAIN b = DOMAIN a
      /\ \A n \in DOMAIN a : b[n].delta = a[n].delta /\ b[n].parent = a[n].parent
  BY DEF SameTree
<1>2. \A n \in DOMAIN a : PageTableOf(b, n) = PageTableOf(a, n)
  BY SameTreeReads
<1>3. Apart(b)
  BY <1>1 DEF Apart
<1>4. \A n \in DOMAIN a \ {ROOT} : PageTableOf(b, b[n].parent) = PageTableOf(a, a[n].parent)
  BY <1>1, <1>2, ParentOf
<1> QED BY <1>1, <1>2, <1>3, <1>4 DEF Clean

(* After a match as before it.                                              *)
LEMMA MatchIsClean ==
  ASSUME NEW a, Tree(a), R!PrefixTree(Named(a)), R!NoPageTwice(Named(a)),
         NEW ids \in Seq(Token), NEW m, m = MatchPrefix(a, ids)
  PROVE  /\ Clean(m.tree) /\ Apart(m.tree)
         /\ R!PrefixTree(Named(m.tree)) /\ R!NoPageTwice(Named(m.tree))
<1>1. Shape(a) /\ Clean(a)
  BY DeltasAreExact DEF Tree
<1>2. PICK p : p = PrefixOf(m.tree, m.terminal)
  OBVIOUS
<1>3. Found(a, m, ids, p)
  BY <1>1, <1>2, MatchIsFound
<1>4. PICK t, u : t = Named(a) /\ u = Named(m.tree)
  OBVIOUS
<1>5. /\ p \in Seq(Token) /\ R!IsMatch(t, ids, p) /\ u = R!Split(t, p)
      /\ R!PrefixTree(t) /\ R!NoPageTwice(t)
  BY <1>3, <1>4 DEF Found
<1>6. p # <<>> => R!Below(t, p) # {}
  BY <1>5 DEF R!IsMatch
<1>7. R!PrefixTree(u)
  <2>1. CASE p = <<>> \/ p \in DOMAIN t
    BY <1>5, <2>1 DEF R!Split
  <2>2. CASE ~ (p = <<>> \/ p \in DOMAIN t)
    <3>1. p \in R!Prefix \ DOMAIN t /\ R!Below(t, p) # {}
      BY <1>5, <1>6, <2>2 DEF R!Prefix
    <3>2. R!PrefixTree(R!Split(t, p))
      BY ONLY <1>5, <3>1, RadixAssumed, R!SplitKeepsTree
    <3> QED BY <1>5, <3>2
  <2> QED BY <2>1, <2>2
<1>8. R!NoPageTwice(u)
  <2>1. R!NoPageTwice(R!Split(t, p))
    BY ONLY <1>5, <1>6, RadixAssumed, R!SplitNamesOnce
  <2> QED BY <1>5, <2>1
<1>9. Shape(m.tree)
  BY MatchPrefixIs DEF Matches, Tree
<1> QED BY <1>4, <1>7, <1>8, <1>9, DeltasAreExact, OwnersApart

(* What a match does to the root: nothing.                                  *)
LEMMA MatchLeavesRoot ==
  ASSUME NEW a, Tree(a), Bare(a), NEW ids \in Seq(Token), NEW m, m = MatchPrefix(a, ids)
  PROVE  Bare(m.tree) /\ \A n \in DOMAIN a : m.tree[n].lock = a[n].lock
<1> DEFINE e == WalkEnd(a, ids)
<1>1. Shape(a) /\ ROOT \in DOMAIN a
  BY DEF Tree, Shape, Typed
<1>2. EndsWell(a, ids, e)
  BY <1>1, WalkEndsWell
<1>3. m = IF e.cut = 0 THEN [tree |-> a, terminal |-> e.at]
          ELSE [tree |-> SplitNode(a, e.at, e.cut), terminal |-> NewId(a)]
  BY DEF MatchPrefix
<1> HIDE DEF e
<1>4. CASE e.cut = 0
  BY <1>3, <1>4
<1>5. CASE e.cut # 0
  <2>1. PICK id, cut : id = e.at /\ cut = e.cut
    OBVIOUS
  <2>2. id \in DOMAIN a \ {ROOT} /\ cut \in Nat \ {0} /\ cut < Len(a[id].edge)
    BY <1>2, <1>5, <2>1 DEF EndsWell
  <2>3. PICK b : b = SplitNode(a, id, cut)
    OBVIOUS
  <2>4. m.tree = b
    BY <1>3, <1>5, <2>1, <2>3
  <2>5. SplitFields(b, a, id, cut)
    BY <1>1, <2>2, <2>3, SplitIs, SplitHasFields
  <2>6. /\ \A n \in DOMAIN a : b[n].lock = a[n].lock
        /\ b[ROOT].delta = a[ROOT].delta
    BY <1>1, <2>2, <2>5 DEF SplitFields
  <2> QED BY <1>1, <2>4, <2>6 DEF Bare
<1> QED BY <1>4, <1>5

-----------------------------------------------------------------------------
(* Reservations and what they stand for                                     *)

(* p is the end of t.                                                       *)
EndsWith(p, t) ==
  Len(p) <= Len(t) /\ \A i \in 1 .. Len(p) : t[Len(t) - Len(p) + i] = p[i]

(* A reservation's terminal is a live node, it asks for no more than the    *)
(* pool has, and its page table ends with its private pages.                *)
HandleOk(a, h) ==
  /\ h.terminal \in DOMAIN a
  /\ PagesFor(h.capacity) <= TotalPages
  /\ EndsWith(h.private, h.table)

(* Every live reservation is well formed for the tree as it is.             *)
Handles == \A r \in Active : HandleOk(nodes, handle[r])

LEMMA ReservationFields ==
  ASSUME NEW h \in Reservation
  PROVE  /\ h # None
         /\ h.terminal \in Nat /\ h.matched \in Nat /\ h.capacity \in Nat /\ h.credit \in Int
         /\ h.table \in Seq(Page) /\ h.private \in Seq(Page) /\ h.boundary \in Page \cup {None}
         /\ Len(h.table) \in Nat /\ Len(h.private) \in Nat
BY TreeAssumption DEF Reservation

(* The pages taken over from the tree come first, the private ones last.    *)
LEMMA TableIsBoth ==
  ASSUME NEW t \in Seq(Page), NEW p \in Seq(Page), EndsWith(p, t)
  PROVE  SubSeq(t, 1, Len(t) - Len(p)) \o p = t
<1>1. PICK n \in Nat, k \in Nat : n = Len(t) /\ k = Len(p)
  OBVIOUS
<1>2. k <= n /\ \A i \in 1 .. k : t[n - k + i] = p[i]
  BY <1>1 DEF EndsWith
<1>3. PICK s : s = SubSeq(t, 1, n - k)
  OBVIOUS
<1>4. s \in Seq(Page) /\ Len(s) = n - k /\ \A i \in 1 .. n - k : s[i] = t[i]
  <2>1. n - k \in Nat /\ n - k <= Len(t)
    BY <1>1, <1>2
  <2> QED BY <1>3, <2>1, CutSequence
<1>5. PICK u : u = s \o p
  OBVIOUS
<1>6. /\ u \in Seq(Page) /\ Len(u) = n
      /\ \A i \in 1 .. n - k : u[i] = s[i]
      /\ \A i \in 1 .. k : u[n - k + i] = p[i]
  <2>1. /\ s \o p \in Seq(Page) /\ Len(s \o p) = Len(s) + Len(p)
        /\ \A i \in 1 .. Len(s) : (s \o p)[i] = s[i]
        /\ \A i \in 1 .. Len(p) : (s \o p)[Len(s) + i] = p[i]
    <3>1. s \in Seq(Page) /\ p \in Seq(Page)
      BY <1>4
    <3> QED BY ONLY <3>1, Joined
  <2> QED BY <1>1, <1>2, <1>4, <1>5, <2>1
<1>7. \A i \in 1 .. n : u[i] = t[i]
  <2> TAKE i \in 1 .. n
  <2>1. CASE i \in 1 .. n - k
    BY <1>4, <1>6, <2>1
  <2>2. CASE i \notin 1 .. n - k
    <3>1. PICK j \in 1 .. k : i = n - k + j
      <4>1. i - (n - k) \in 1 .. k /\ i = n - k + (i - (n - k))
        BY <1>2, <2>2
      <4> QED BY <4>1
    <3>2. u[n - k + j] = p[j]
      BY <1>6
    <3>3. t[n - k + j] = p[j]
      BY <1>2
    <3> QED BY ONLY <3>1, <3>2, <3>3
  <2> QED BY <2>1, <2>2
<1>8. u = t
  <2>1. u \in Seq(Page) /\ t \in Seq(Page) /\ Len(u) = Len(t) /\ \A i \in 1 .. Len(u) : u[i] = t[i]
    BY <1>1, <1>6, <1>7
  <2> QED BY ONLY <2>1, SeqEqual
<1> QED BY <1>1, <1>3, <1>5, <1>8

(* Every request has a TargetKvRadixReservation or none.                    *)
HandlesTyped == handle \in [Request -> Reservation \cup {None}]

(* What a request that holds a reservation stands for.                      *)
LEMMA ActiveReads ==
  ASSUME HandlesTyped, NEW r \in Request, handle[r] # None
  PROVE  /\ r \in Active /\ handle[r] \in Reservation
         /\ Matched[r] = PrefixOf(nodes, handle[r].terminal)
         /\ Capacity[r] = handle[r].capacity /\ Credit[r] = handle[r].credit
         /\ Private[r] = handle[r].private /\ Boundary[r] = handle[r].boundary
         /\ HandleOk(nodes, handle[r]) => R!PageTable(r) = handle[r].table
<1>1. handle[r] \in Reservation
  BY DEF HandlesTyped
<1>2. Shared[r] = SubSeq(handle[r].table, 1, Len(handle[r].table) - Len(handle[r].private))
  BY DEF Shared
<1>3. Private[r] = handle[r].private
  BY DEF Private
<1>4. ASSUME HandleOk(nodes, handle[r]) PROVE R!PageTable(r) = handle[r].table
  <2>1. PICK t \in Seq(Page), p \in Seq(Page) : t = handle[r].table /\ p = handle[r].private
    BY <1>1, ReservationFields
  <2>2. SubSeq(t, 1, Len(t) - Len(p)) \o p = t
    BY <1>4, <2>1, TableIsBoth DEF HandleOk
  <2> QED BY <1>2, <1>3, <2>1, <2>2 DEF R!PageTable
<1> QED BY <1>1, <1>3, <1>4 DEF Active, Matched, Capacity, Credit, Boundary

(* The nodes of the other reservations keep their prefixes.                 *)
Steady == \A q \in Active : PrefixOf(nodes', handle[q].terminal) = PrefixOf(nodes, handle[q].terminal)

(* r is given the reservation h, or loses it.                               *)
SetTo(r, h) == handle' = [handle EXCEPT ![r] = h]

(* What r stands for when it is given the reservation h, or none.           *)
Becomes(r, h) ==
  /\ handle'[r] = h /\ \A q \in Request \ {r} : handle'[q] = handle[q]
  /\ Active' = IF h = None THEN Active \ {r} ELSE Active \cup {r}
  /\ Matched' = [Matched EXCEPT ![r] = IF h = None THEN <<>> ELSE PrefixOf(nodes', h.terminal)]
  /\ Capacity' = [Capacity EXCEPT ![r] = IF h = None THEN 0 ELSE h.capacity]
  /\ Credit' = [Credit EXCEPT ![r] = IF h = None THEN 0 ELSE h.credit]
  /\ Shared' = [Shared EXCEPT ![r] =
                  IF h = None THEN <<>>
                  ELSE SubSeq(h.table, 1, Len(h.table) - Len(h.private))]
  /\ Private' = [Private EXCEPT ![r] = IF h = None THEN <<>> ELSE h.private]
  /\ Boundary' = [Boundary EXCEPT ![r] = IF h = None THEN None ELSE h.boundary]

LEMMA SetReads ==
  ASSUME HandlesTyped, NEW r \in Request, NEW h \in Reservation \cup {None}, SetTo(r, h), Steady
  PROVE  Becomes(r, h)
<1>1. handle'[r] = h /\ \A q \in Request \ {r} : handle'[q] = handle[q]
  BY DEF HandlesTyped, SetTo
<1>2. Active' = IF h = None THEN Active \ {r} ELSE Active \cup {r}
  BY <1>1 DEF Active
<1>3. Matched' = [Matched EXCEPT ![r] = IF h = None THEN <<>> ELSE PrefixOf(nodes', h.terminal)]
  <2>1. \A q \in Request \ {r} : handle[q] # None =>
          PrefixOf(nodes', handle'[q].terminal) = PrefixOf(nodes, handle[q].terminal)
    BY <1>1 DEF Steady, Active
  <2> QED BY <1>1, <2>1 DEF Matched
<1>4. Capacity' = [Capacity EXCEPT ![r] = IF h = None THEN 0 ELSE h.capacity]
  BY <1>1 DEF Capacity
<1>5. Credit' = [Credit EXCEPT ![r] = IF h = None THEN 0 ELSE h.credit]
  BY <1>1 DEF Credit
<1>6. Shared' = [Shared EXCEPT ![r] =
                   IF h = None THEN <<>>
                   ELSE SubSeq(h.table, 1, Len(h.table) - Len(h.private))]
  BY <1>1 DEF Shared
<1>7. Private' = [Private EXCEPT ![r] = IF h = None THEN <<>> ELSE h.private]
  BY <1>1 DEF Private
<1>8. Boundary' = [Boundary EXCEPT ![r] = IF h = None THEN None ELSE h.boundary]
  BY <1>1 DEF Boundary
<1> QED BY <1>1, <1>2, <1>3, <1>4, <1>5, <1>6, <1>7, <1>8 DEF Becomes

LEMMA SameReads ==
  ASSUME HandlesTyped, handle' = handle, Steady
  PROVE  /\ Active' = Active /\ Matched' = Matched /\ Capacity' = Capacity /\ Credit' = Credit
         /\ Shared' = Shared /\ Private' = Private /\ Boundary' = Boundary
<1>1. Matched' = Matched
  BY DEF Matched, Steady, Active
<1> QED BY <1>1 DEF Active, Capacity, Credit, Shared, Private, Boundary

-----------------------------------------------------------------------------
(* Every operation of the tree is one of the prefix cache                   *)

(* The tree is a tree, what it stands for keeps the cache's invariant, and  *)
(* the reservations fit both.                                               *)
RefInv == TreeInv /\ RadixInv /\ Bare(nodes) /\ Handles

LEMMA RefFacts ==
  ASSUME RefInv
  PROVE  /\ Tree(nodes) /\ Shape(nodes) /\ HandlesTyped /\ Bare(nodes) /\ Handles
         /\ R!IInv /\ R!PrefixTree(Named(nodes)) /\ R!NoPageTwice(Named(nodes))
         /\ Clean(nodes) /\ Apart(nodes)
<1>1. /\ Tree(nodes) /\ Shape(nodes) /\ HandlesTyped /\ Bare(nodes) /\ Handles
      /\ R!IInv /\ R!PrefixTree(Named(nodes)) /\ R!NoPageTwice(Named(nodes))
  BY DEF RefInv, TreeInv, Tree, HandlesTyped, RadixInv, R!IInv
<1> QED BY <1>1, DeltasAreExact, OwnersApart

(* The handles that a step leaves alone stay good ones.                     *)
LEMMA HandlesStay ==
  ASSUME HandlesTyped, Handles, NEW r \in Request, NEW h \in Reservation \cup {None}, SetTo(r, h),
         \A q \in Active \ {r} : handle[q].terminal \in DOMAIN nodes',
         h # None => HandleOk(nodes', h)
  PROVE  Handles'
<1>1. handle'[r] = h /\ \A q \in Request \ {r} : handle'[q] = handle[q]
  BY DEF HandlesTyped, SetTo
<1> SUFFICES ASSUME NEW q \in Request, handle'[q] # None PROVE HandleOk(nodes', handle'[q])
  BY DEF Handles, Active
<1>2. CASE q = r
  BY <1>1, <1>2
<1>3. CASE q # r
  <2>1. q \in Active \ {r} /\ handle'[q] = handle[q]
    BY <1>1, <1>3 DEF Active
  <2> QED BY <2>1 DEF Handles, HandleOk
<1> QED BY <1>2, <1>3

LEMMA HandlesKept ==
  ASSUME HandlesTyped, Handles, handle' = handle,
         \A q \in Active : handle[q].terminal \in DOMAIN nodes'
  PROVE  Handles'
<1> SUFFICES ASSUME NEW q \in Request, handle'[q] # None PROVE HandleOk(nodes', handle'[q])
  BY DEF Handles, Active
<1>1. q \in Active /\ handle'[q] = handle[q]
  BY DEF Active
<1> QED BY <1>1 DEF Handles, HandleOk

LEMMA AllocateMaps ==
  ASSUME NEW r, NEW have, NEW pages, Allocate(r, have, pages)
  PROVE  R!Allocate(r, have, pages)
BY DEF Allocate, R!Allocate

LEMMA TakeBoundaryCopyMaps ==
  ASSUME RefInv, NEW r \in Request, TakeBoundaryCopy(r)
  PROVE  R!TakeBoundaryCopy(r) /\ Bare(nodes') /\ Handles'
<1>1. /\ busy = None /\ handle[r] # None /\ handle[r].boundary # None
      /\ handle' = [handle EXCEPT ![r].boundary = None]
      /\ UNCHANGED <<nodes, free, reserved, busy, goal>>
  BY DEF TakeBoundaryCopy
<1>2. Tree(nodes) /\ HandlesTyped /\ Bare(nodes) /\ Handles
  BY RefFacts
<1>3. PICK g \in Reservation : g = handle[r]
  BY <1>1, <1>2 DEF HandlesTyped
<1>4. PICK h : h = [g EXCEPT !.boundary = None]
  OBVIOUS
<1>5. /\ h \in Reservation /\ h.terminal = g.terminal /\ h.capacity = g.capacity /\ h.credit = g.credit
      /\ h.table = g.table /\ h.private = g.private /\ h.boundary = None
  BY <1>4 DEF Reservation
<1>6. SetTo(r, h)
  BY <1>1, <1>3, <1>4 DEF SetTo
<1>7. Steady
  BY <1>1 DEF Steady
<1>8. h # None
  BY <1>5, ReservationFields
<1>9. /\ r \in Active /\ Matched[r] = PrefixOf(nodes, g.terminal) /\ Capacity[r] = g.capacity
      /\ Credit[r] = g.credit /\ Private[r] = g.private /\ Boundary[r] = g.boundary
      /\ Shared[r] = SubSeq(g.table, 1, Len(g.table) - Len(g.private))
  BY <1>1, <1>2, <1>3, ActiveReads DEF Shared
<1>10. /\ Active' = Active \cup {r}
       /\ Matched' = [Matched EXCEPT ![r] = PrefixOf(nodes, g.terminal)]
       /\ Capacity' = [Capacity EXCEPT ![r] = g.capacity]
       /\ Credit' = [Credit EXCEPT ![r] = g.credit]
       /\ Shared' = [Shared EXCEPT ![r] = SubSeq(g.table, 1, Len(g.table) - Len(g.private))]
       /\ Private' = [Private EXCEPT ![r] = g.private]
       /\ Boundary' = [Boundary EXCEPT ![r] = None]
  <2>1. Becomes(r, h)
    BY <1>2, <1>5, <1>6, <1>7, SetReads
  <2>2. nodes' = nodes
    BY <1>1
  <2> QED BY <1>5, <1>8, <2>1, <2>2 DEF Becomes
<1>11. /\ Active' = Active /\ Matched' = Matched /\ Capacity' = Capacity /\ Credit' = Credit
       /\ Shared' = Shared /\ Private' = Private
  <2>1. Active' = Active
    BY <1>9, <1>10
  <2>2. Matched' = Matched
    BY <1>9, <1>10 DEF Matched
  <2>3. Capacity' = Capacity
    BY <1>9, <1>10 DEF Capacity
  <2>4. Credit' = Credit
    BY <1>9, <1>10 DEF Credit
  <2>5. Shared' = Shared
    BY <1>9, <1>10 DEF Shared
  <2>6. Private' = Private
    BY <1>9, <1>10 DEF Private
  <2> QED BY <2>1, <2>2, <2>3, <2>4, <2>5, <2>6
<1>12. Named(nodes)' = Named(nodes)
  BY <1>1
<1>13. R!TakeBoundaryCopy(r)
  BY <1>1, <1>3, <1>9, <1>10, <1>11, <1>12 DEF R!TakeBoundaryCopy
<1>14. HandleOk(nodes, g)
  BY <1>2, <1>3, <1>9 DEF Handles
<1>15. HandleOk(nodes', h)
  BY <1>1, <1>5, <1>14 DEF HandleOk
<1>16. \A q \in Active : handle[q].terminal \in DOMAIN nodes'
  BY <1>1, <1>2 DEF Handles, HandleOk
<1>17. Handles'
  BY <1>2, <1>5, <1>6, <1>15, <1>16, HandlesStay
<1> QED BY <1>1, <1>2, <1>13, <1>17

LEMMA NothingMaps ==
  ASSUME RefInv, UNCHANGED <<nodes, handle>>
  PROVE  /\ Named(nodes)' = Named(nodes)
         /\ Active' = Active /\ Matched' = Matched /\ Capacity' = Capacity /\ Credit' = Credit
         /\ Shared' = Shared /\ Private' = Private /\ Boundary' = Boundary
         /\ Bare(nodes') /\ Handles'
<1>1. HandlesTyped /\ Bare(nodes) /\ Handles
  BY RefFacts
<1>2. Steady
  BY DEF Steady
<1>3. \A q \in Active : handle[q].terminal \in DOMAIN nodes'
  BY <1>1 DEF Handles, HandleOk
<1> QED BY <1>1, <1>2, <1>3, SameReads, HandlesKept

(* Nothing is asked of the allocation loop, or as much as the pool may give. *)
LEMMA CapacityIs ==
  ASSUME NEW n \in Nat \ {0}, NEW c \in Nat, n <= c, PagesFor(c) <= TotalPages
  PROVE  n \in R!Capacities
<1>1. TotalPages \in Nat /\ R!Cardinality(Page) = TotalPages
  BY TreeAssumption, SameLibrary, FS_CardinalityType DEF TotalPages
<1>2. PICK k \in Nat, p \in Nat \ {0} : k = PagesFor(c) /\ p = PageTokens
  BY TreeAssumption, PagesForFacts
<1>3. k = (c + p - 1) \div p
  BY <1>2 DEF PagesFor
<1>4. c <= k * p
  BY <1>2, <1>3
<1>5. k * p <= TotalPages * p
  BY <1>1, <1>2
<1>6. TotalPages * p \in Nat
  BY <1>1, <1>2
<1>7. n <= TotalPages * p
  <2>1. k * p \in Nat
    BY <1>2
  <2> QED BY <1>4, <1>5, <1>6, <2>1
<1> QED BY <1>1, <1>2, <1>6, <1>7 DEF R!Capacities

LEMMA EnsureMaterializedMaps ==
  ASSUME RefInv, NEW r \in Request, NEW tokens \in Asked, EnsureMaterialized(r, tokens)
  PROVE  /\ \/ tokens \in R!Capacities /\ R!EnsureMaterialized(r, tokens)
            \/ UNCHANGED R!vars
         /\ Bare(nodes') /\ Handles'
<1>1. /\ busy = None /\ handle[r] # None /\ tokens <= handle[r].capacity
      /\ Allocate(r, Len(handle[r].table), PagesFor(tokens))
      /\ UNCHANGED <<nodes, free, reserved, handle>>
  BY DEF EnsureMaterialized
<1>2. /\ Named(nodes)' = Named(nodes)
      /\ Active' = Active /\ Matched' = Matched /\ Capacity' = Capacity /\ Credit' = Credit
      /\ Shared' = Shared /\ Private' = Private /\ Boundary' = Boundary
      /\ Bare(nodes') /\ Handles'
  BY <1>1, NothingMaps
<1>3. HandlesTyped /\ Handles
  BY RefFacts
<1>4. r \in Active /\ handle[r] \in Reservation /\ Capacity[r] = handle[r].capacity
      /\ HandleOk(nodes, handle[r]) /\ R!PageTable(r) = handle[r].table
  BY <1>1, <1>3, ActiveReads DEF Handles
<1>5. tokens \in Nat /\ handle[r].capacity \in Nat /\ Len(handle[r].table) \in Nat
  BY <1>4, TreeAssumption, ReservationFields
<1>6. CASE tokens = 0
  <2>1. ~ (Len(handle[r].table) < PagesFor(tokens))
    BY <1>5, <1>6, PagesForFacts
  <2>2. UNCHANGED <<busy, goal>>
    BY <1>1, <2>1 DEF Allocate
  <2> QED BY <1>1, <1>2, <2>2 DEF R!vars
<1>7. CASE tokens # 0
  <2>1. tokens \in R!Capacities
    BY <1>1, <1>4, <1>5, <1>7, CapacityIs DEF HandleOk
  <2>2. R!Allocate(r, Len(R!PageTable(r)), R!PagesFor(tokens))
    BY <1>1, <1>4, SamePages, AllocateMaps
  <2>3. R!EnsureMaterialized(r, tokens)
    BY <1>1, <1>2, <1>4, <2>2 DEF R!EnsureMaterialized
  <2> QED BY <1>2, <2>1, <2>3
<1> QED BY <1>6, <1>7

LEMMA AppendFacts ==
  ASSUME NEW s \in Seq(Page), NEW x \in Page
  PROVE  /\ Append(s, x) \in Seq(Page) /\ Len(Append(s, x)) = Len(s) + 1
         /\ \A i \in 1 .. Len(s) : Append(s, x)[i] = s[i]
         /\ Append(s, x)[Len(s) + 1] = x
OBVIOUS

(* A page more at both ends: the part that is shared stays.                 *)
LEMMA AppendsBoth ==
  ASSUME NEW t \in Seq(Page), NEW p \in Seq(Page), NEW x \in Page, EndsWith(p, t)
  PROVE  /\ EndsWith(Append(p, x), Append(t, x))
         /\ SubSeq(Append(t, x), 1, Len(Append(t, x)) - Len(Append(p, x)))
              = SubSeq(t, 1, Len(t) - Len(p))
<1>1. PICK n \in Nat, k \in Nat : n = Len(t) /\ k = Len(p)
  OBVIOUS
<1>2. PICK u, q : u = Append(t, x) /\ q = Append(p, x)
  OBVIOUS
<1>3. /\ u \in Seq(Page) /\ Len(u) = n + 1 /\ u[n + 1] = x /\ \A i \in 1 .. n : u[i] = t[i]
      /\ q \in Seq(Page) /\ Len(q) = k + 1 /\ q[k + 1] = x /\ \A i \in 1 .. k : q[i] = p[i]
  BY <1>1, <1>2, AppendFacts
<1>4. k <= n /\ \A i \in 1 .. k : t[n - k + i] = p[i]
  BY <1>1 DEF EndsWith
<1>5. \A i \in 1 .. k + 1 : u[(n + 1) - (k + 1) + i] = q[i]
  <2> TAKE i \in 1 .. k + 1
  <2>1. CASE i = k + 1
    <3>1. (n + 1) - (k + 1) + i = n + 1
      BY <2>1
    <3> QED BY <1>3, <2>1, <3>1
  <2>2. CASE i # k + 1
    <3>1. i \in 1 .. k /\ (n + 1) - (k + 1) + i = n - k + i /\ n - k + i \in 1 .. n
      BY <1>4, <2>2
    <3> QED BY <1>3, <1>4, <3>1
  <2> QED BY <2>1, <2>2
<1>6. EndsWith(q, u)
  BY <1>3, <1>4, <1>5 DEF EndsWith
<1>7. SubSeq(u, 1, n - k) = SubSeq(t, 1, n - k)
  <2>1. PICK m \in Nat : m = n - k /\ m <= n /\ m <= n + 1
    BY <1>4
  <2>2. PICK v, w : v = SubSeq(u, 1, m) /\ w = SubSeq(t, 1, m)
    OBVIOUS
  <2>3. v \in Seq(Page) /\ Len(v) = m /\ \A i \in 1 .. m : v[i] = u[i]
    <3>1. u \in Seq(Page) /\ m <= Len(u)
      BY <1>3, <2>1
    <3> QED BY <2>2, <3>1, CutSequence
  <2>6. w \in Seq(Page) /\ Len(w) = m /\ \A i \in 1 .. m : w[i] = t[i]
    <3>1. m <= Len(t)
      BY <1>1, <2>1
    <3> QED BY <2>2, <3>1, CutSequence
  <2>4. v \in Seq(Page) /\ w \in Seq(Page) /\ Len(v) = Len(w) /\ \A i \in 1 .. Len(v) : v[i] = w[i]
    BY <1>3, <2>1, <2>3, <2>6
  <2>5. v = w
    BY ONLY <2>4, SeqEqual
  <2> QED BY <2>1, <2>2, <2>5
<1>8. Len(u) - Len(q) = n - k
  BY <1>3
<1> QED BY <1>1, <1>2, <1>6, <1>7, <1>8

LEMMA TakePageMaps ==
  ASSUME RefInv, NEW p \in Page, TakePage(p)
  PROVE  R!TakePage(p) /\ Bare(nodes') /\ Handles'
<1>1. /\ busy # None /\ p \in free /\ free' = free \ {p}
      /\ handle' = [handle EXCEPT ![busy].table = Append(@, p),
                                  ![busy].private = Append(@, p)]
      /\ IF Len(handle'[busy].table) = goal
         THEN busy' = None /\ goal' = 0
         ELSE UNCHANGED <<busy, goal>>
      /\ UNCHANGED <<nodes, reserved>>
  BY DEF TakePage
<1>2. /\ Tree(nodes) /\ HandlesTyped /\ Bare(nodes) /\ Handles
      /\ busy \in Request /\ handle[busy] \in Reservation
  BY <1>1, RefFacts DEF RefInv, TreeInv, Loop
<1>3. PICK r \in Request : r = busy
  BY <1>2
<1>4. PICK g \in Reservation : g = handle[r]
  BY <1>2, <1>3
<1>5. PICK t, q : t = Append(g.table, p) /\ q = Append(g.private, p)
  OBVIOUS
<1>6. PICK h : h = [g EXCEPT !.table = t, !.private = q]
  OBVIOUS
<1>7. /\ g # None /\ g.table \in Seq(Page) /\ g.private \in Seq(Page)
      /\ Len(g.table) \in Nat
  BY ReservationFields
<1>8. t \in Seq(Page) /\ q \in Seq(Page) /\ Len(t) = Len(g.table) + 1
  BY <1>5, <1>7, AppendFacts
<1>9. /\ h \in Reservation /\ h.terminal = g.terminal /\ h.capacity = g.capacity /\ h.credit = g.credit
      /\ h.table = t /\ h.private = q /\ h.boundary = g.boundary
  BY <1>6, <1>8 DEF Reservation
<1>10. SetTo(r, h)
  <2>1. handle' = [handle EXCEPT ![busy] = [handle[busy] EXCEPT !.table = Append(@, p), !.private = Append(@, p)]]
    BY <1>1, <1>2 DEF HandlesTyped
  <2>2. [handle[busy] EXCEPT !.table = Append(@, p), !.private = Append(@, p)] = h
    BY <1>3, <1>4, <1>5, <1>6
  <2> QED BY <1>3, <2>1, <2>2 DEF SetTo
<1>11. Steady
  BY <1>1 DEF Steady
<1>12. h # None
  BY <1>9, ReservationFields
<1>13. /\ r \in Active /\ Matched[r] = PrefixOf(nodes, g.terminal) /\ Capacity[r] = g.capacity
       /\ Credit[r] = g.credit /\ Private[r] = g.private /\ Boundary[r] = g.boundary
       /\ Shared[r] = SubSeq(g.table, 1, Len(g.table) - Len(g.private))
       /\ HandleOk(nodes, g) /\ R!PageTable(r) = g.table
  BY <1>2, <1>4, <1>7, ActiveReads DEF Shared, Handles
<1>14. EndsWith(q, t) /\ SubSeq(t, 1, Len(t) - Len(q)) = SubSeq(g.table, 1, Len(g.table) - Len(g.private))
  BY <1>5, <1>7, <1>13, AppendsBoth DEF HandleOk
<1>15. Becomes(r, h)
  BY <1>2, <1>9, <1>10, <1>11, SetReads
<1>16. nodes' = nodes
  BY <1>1
<1>17. /\ handle'[r] = h
       /\ Active' = Active \cup {r}
       /\ Matched' = [Matched EXCEPT ![r] = PrefixOf(nodes, g.terminal)]
       /\ Capacity' = [Capacity EXCEPT ![r] = g.capacity]
       /\ Credit' = [Credit EXCEPT ![r] = g.credit]
       /\ Shared' = [Shared EXCEPT ![r] = SubSeq(g.table, 1, Len(g.table) - Len(g.private))]
       /\ Private' = [Private EXCEPT ![r] = q]
       /\ Boundary' = [Boundary EXCEPT ![r] = g.boundary]
  BY <1>9, <1>12, <1>14, <1>15, <1>16 DEF Becomes
<1>18. /\ Active' = Active /\ Matched' = Matched /\ Capacity' = Capacity /\ Credit' = Credit
       /\ Shared' = Shared /\ Boundary' = Boundary
  <2>1. Active' = Active
    BY <1>13, <1>17
  <2>2. Matched' = Matched
    BY <1>13, <1>17 DEF Matched
  <2>3. Capacity' = Capacity
    BY <1>13, <1>17 DEF Capacity
  <2>4. Credit' = Credit
    BY <1>13, <1>17 DEF Credit
  <2>5. Shared' = Shared
    BY <1>13, <1>17 DEF Shared
  <2>6. Boundary' = Boundary
    BY <1>13, <1>17 DEF Boundary
  <2> QED BY <2>1, <2>2, <2>3, <2>4, <2>5, <2>6
<1>19. Private' = [Private EXCEPT ![busy] = Append(@, p)]
  <2>1. q = Append(Private[r], p)
    BY <1>5, <1>13
  <2> QED BY <1>3, <1>17, <2>1
<1>20. IF Len(R!PageTable(busy)) + 1 = goal
       THEN busy' = None /\ goal' = 0
       ELSE UNCHANGED <<busy, goal>>
  <2>1. Len(handle'[busy].table) = Len(g.table) + 1
    BY <1>3, <1>8, <1>9, <1>17
  <2> QED BY <1>1, <1>3, <1>13, <2>1
<1>21. Named(nodes)' = Named(nodes)
  BY <1>1
<1>22. R!TakePage(p)
  BY <1>1, <1>18, <1>19, <1>20, <1>21 DEF R!TakePage
<1>23. HandleOk(nodes', h)
  BY <1>9, <1>13, <1>14, <1>16 DEF HandleOk
<1>24. \A k \in Active : handle[k].terminal \in DOMAIN nodes'
  BY <1>2, <1>16 DEF Handles, HandleOk
<1>25. Handles'
  BY <1>2, <1>9, <1>10, <1>23, <1>24, HandlesStay
<1> QED BY <1>2, <1>16, <1>22, <1>25

(* A reservation holds its terminal: no node with lock count zero is one.   *)
LEMMA TerminalIsLocked ==
  ASSUME RefInv, NEW q \in Active, NEW n, n = handle[q].terminal, n # ROOT
  PROVE  n \in DOMAIN nodes /\ nodes[n].lock # 0
<1>1. Shape(nodes) /\ HandlesTyped /\ Handles /\ R!IInv
  BY RefFacts
<1>2. q \in Request /\ handle[q] # None
  BY DEF Active
<1>3. n \in DOMAIN nodes \ {ROOT}
  BY <1>1 DEF Handles, HandleOk
<1>4. PICK p : p = PrefixOf(nodes, n)
  OBVIOUS
<1>5. p \in DOMAIN Named(nodes) /\ Named(nodes)[p].lock = nodes[n].lock /\ p \in Seq(Token)
  BY <1>1, <1>3, <1>4, NamedIs, NamesAre
<1>6. Matched[q] = p
  BY <1>1, <1>2, <1>4, ActiveReads
<1>7. q \in R!Lockers(p)
  <2>1. R!\sqsubseteq(p, p)
    BY <1>5, BeginsFacts, BeginsIs
  <2> QED BY <1>6, <2>1 DEF R!Lockers
<1>8. nodes[n].lock = Cardinality(R!Lockers(p))
  BY <1>1, <1>5, SameLibrary DEF R!IInv, R!LocksCountReservations
<1>9. IsFiniteSet(R!Lockers(p)) /\ Cardinality(R!Lockers(p)) # 0
  <2>1. R!Lockers(p) \subseteq Request
    BY DEF R!Lockers, Active
  <2>2. IsFiniteSet(R!Lockers(p))
    BY <2>1, TreeAssumption, FS_Subset
  <2> QED BY <1>7, <2>2, FS_EmptySet
<1> QED BY <1>3, <1>8, <1>9

(* Nodes less: the others, and the root, are as they were.                  *)
LEMMA RemovalKeeps ==
  ASSUME NEW a, Shape(a), NEW S, Droops(a, S), Bare(a)
  PROVE  /\ Bare(RemoveAll(a, S)) /\ DOMAIN RemoveAll(a, S) = DOMAIN a \ S
         /\ \A n \in DOMAIN a \ S : PrefixOf(RemoveAll(a, S), n) = PrefixOf(a, n)
<1>1. PICK b : b = RemoveAll(a, S)
  OBVIOUS
<1>2. IsPruned(b, a, S) /\ ROOT \in DOMAIN a \ S
  BY <1>1, PrunedIs DEF Droops, Shape, Typed
<1>3. DOMAIN b = DOMAIN a \ S /\ b[ROOT].delta = a[ROOT].delta /\ b[ROOT].lock = a[ROOT].lock
  BY <1>2 DEF IsPruned
<1>4. \A n \in DOMAIN b : PrefixOf(b, n) = PrefixOf(a, n)
  BY <1>2, PrunedReads
<1> QED BY <1>1, <1>3, <1>4 DEF Bare

LEMMA EvictOneLeafMaps ==
  ASSUME RefInv, EvictOneLeaf
  PROVE  /\ \E n \in DOMAIN Named(nodes) : R!EvictOneLeaf(n)
         /\ Bare(nodes') /\ Handles'
<1>1. PICK n : n = Oldest(nodes)
  OBVIOUS
<1>2. /\ busy # None /\ free = {} /\ Evictable(nodes) # {}
      /\ nodes' = RemoveAll(nodes, {n})
      /\ free' = ToSet(nodes[n].delta.pages)
      /\ UNCHANGED <<reserved, handle, busy, goal>>
  BY <1>1 DEF EvictOneLeaf
<1>3. Shape(nodes) /\ HandlesTyped /\ Bare(nodes) /\ Handles
  BY RefFacts
<1>4. n \in Evictable(nodes)
  BY <1>1, <1>2, <1>3, OldestIsEvictable
<1>5. n \in DOMAIN nodes \ {ROOT} /\ nodes[n].lock = 0
  BY <1>4 DEF Evictable
<1>6. Droops(nodes, {n})
  BY <1>3, <1>4, LeafDroops
<1>7. PICK p : p = PrefixOf(nodes, n)
  OBVIOUS
<1>8. /\ p \in DOMAIN Named(nodes) /\ Named(nodes)[p].own = ToSet(nodes[n].delta.pages)
      /\ p \in R!Evictable(Named(nodes))
  BY <1>3, <1>4, <1>5, <1>7, NamedIs, NamesAre, LeafNamed
<1>9. Named(nodes') = R!Prune(Named(nodes), {p})
  <2>1. {p} = {PrefixOf(nodes, k) : k \in {n}}
    BY <1>7
  <2> QED BY <1>2, <1>3, <1>5, <1>6, <2>1, PrunedNamed
<1>10. /\ Bare(nodes') /\ DOMAIN nodes' = DOMAIN nodes \ {n}
       /\ \A k \in DOMAIN nodes \ {n} : PrefixOf(nodes', k) = PrefixOf(nodes, k)
  BY <1>2, <1>3, <1>6, RemovalKeeps
<1>11. ASSUME NEW q \in Active PROVE handle[q].terminal \in DOMAIN nodes \ {n}
  <2>1. handle[q].terminal \in DOMAIN nodes
    BY <1>3 DEF Handles, HandleOk
  <2>2. handle[q].terminal # n
    BY <1>5, TerminalIsLocked
  <2> QED BY <2>1, <2>2
<1>12. Steady
  BY <1>10, <1>11 DEF Steady
<1>13. /\ Active' = Active /\ Matched' = Matched /\ Capacity' = Capacity /\ Credit' = Credit
       /\ Shared' = Shared /\ Private' = Private /\ Boundary' = Boundary
  BY <1>2, <1>3, <1>12, SameReads
<1>14. Handles'
  BY <1>2, <1>3, <1>10, <1>11, HandlesKept
<1>15. Named(nodes)' = R!Prune(Named(nodes), {p})
  BY <1>9
<1>16. free' = free \cup Named(nodes)[p].own
  BY <1>2, <1>8
<1>17. R!EvictOneLeaf(p)
  BY <1>2, <1>8, <1>13, <1>15, <1>16 DEF R!EvictOneLeaf
<1> QED BY <1>8, <1>10, <1>14, <1>17

(* finish_reservation leaves a tree a of which nodes is a part.             *)
LEMMA FinishMaps ==
  ASSUME RefInv, NEW r \in Request, handle[r] # None, busy = None,
         NEW a, Tree(a), Bare(a), DOMAIN nodes \subseteq DOMAIN a,
         \A n \in DOMAIN nodes : PrefixOf(a, n) = PrefixOf(nodes, n),
         Finish(r, a)
  PROVE  /\ R!Release(r) /\ Named(nodes') = R!UnlockPath(Named(a), Matched[r])
         /\ Bare(nodes') /\ Handles'
<1>1. /\ nodes' = AddLock(a, handle[r].terminal, -1)
      /\ reserved' = reserved - handle[r].credit
      /\ SetTo(r, None)
      /\ UNCHANGED <<busy, goal>>
  BY DEF Finish, SetTo
<1>2. HandlesTyped /\ Bare(nodes) /\ Handles
  BY RefFacts
<1>3. PICK n : n = handle[r].terminal
  OBVIOUS
<1>4. /\ r \in Active /\ Matched[r] = PrefixOf(nodes, n) /\ Credit[r] = handle[r].credit
      /\ n \in DOMAIN nodes
  BY <1>2, <1>3, ActiveReads DEF Handles, HandleOk
<1>5. n \in DOMAIN a /\ PrefixOf(a, n) = Matched[r]
  BY <1>4
<1>6. PICK b : b = AddLock(a, n, -1)
  OBVIOUS
<1>7. /\ SameTree(b, a)
      /\ \A q \in DOMAIN a : b[q].lock = IF q \in Path(a, n) THEN a[q].lock + (-1) ELSE a[q].lock
  BY <1>6, AddLockKeepsTree
<1>8. Named(b) = R!UnlockPath(Named(a), Matched[r])
  BY <1>5, <1>6, LockNamed
<1>9. Shape(a)
  BY DEF Tree
<1>10. /\ DOMAIN b = DOMAIN a /\ \A q \in DOMAIN a : PrefixOf(b, q) = PrefixOf(a, q)
  BY <1>7, <1>9, SameTreeNames
<1>11. Bare(b)
  <2>1. ROOT \notin Path(a, n) /\ ROOT \in DOMAIN a
    BY <1>5, <1>9, PathSteps DEF Shape, Typed
  <2>2. b[ROOT].delta = a[ROOT].delta /\ b[ROOT].lock = a[ROOT].lock
    BY <1>7, <2>1 DEF SameTree
  <2> QED BY <2>2 DEF Bare
<1>12. nodes' = b
  BY <1>1, <1>3, <1>6
<1>13. \A q \in Active : handle[q].terminal \in DOMAIN nodes
  BY <1>2 DEF Handles, HandleOk
<1>14. Steady
  BY <1>10, <1>12, <1>13 DEF Steady
<1>15. Becomes(r, None)
  BY <1>1, <1>2, <1>14, SetReads
<1>16. /\ Active' = Active \ {r}
       /\ Matched' = [Matched EXCEPT ![r] = <<>>]
       /\ Capacity' = [Capacity EXCEPT ![r] = 0]
       /\ Credit' = [Credit EXCEPT ![r] = 0]
       /\ Shared' = [Shared EXCEPT ![r] = <<>>]
       /\ Private' = [Private EXCEPT ![r] = <<>>]
       /\ Boundary' = [Boundary EXCEPT ![r] = None]
  BY <1>15 DEF Becomes
<1>17. R!Release(r)
  BY <1>1, <1>4, <1>16 DEF R!Release
<1>18. Handles'
  BY <1>1, <1>2, <1>10, <1>12, <1>13, HandlesStay
<1> QED BY <1>8, <1>11, <1>12, <1>17, <1>18

LEMMA CancelMaps ==
  ASSUME RefInv, NEW r \in Request, Cancel(r)
  PROVE  R!Cancel(r) /\ Bare(nodes') /\ Handles'
<1>1. /\ busy = None /\ handle[r] # None /\ Finish(r, nodes)
      /\ free' = free \cup ToSet(handle[r].private)
  BY DEF Cancel
<1>2. Tree(nodes) /\ HandlesTyped /\ Bare(nodes)
  BY RefFacts
<1>3. /\ R!Release(r) /\ Named(nodes') = R!UnlockPath(Named(nodes), Matched[r])
      /\ Bare(nodes') /\ Handles'
  BY <1>1, <1>2, FinishMaps
<1>4. Named(nodes)' = R!UnlockPath(Named(nodes), Matched[r])
  BY <1>3
<1>5. Private[r] = handle[r].private /\ handle[r].private \in Seq(Page)
  BY <1>1, <1>2, ActiveReads, ReservationFields
<1>6. free' = free \cup R!Elems(Private[r])
  BY <1>1, <1>5, SamePages
<1> QED BY <1>3, <1>4, <1>6 DEF R!Cancel

(* The match is whole if its length says so.                                *)
LEMMA FoundWhole ==
  ASSUME NEW a, NEW m, NEW ids \in Seq(Token), NEW p, Found(a, m, ids, p)
  PROVE  m.tree[m.terminal].length = Len(ids) <=> p = ids
<1>1. p \in Seq(Token) /\ Len(p) = m.tree[m.terminal].length /\ R!\sqsubseteq(p, ids)
  BY DEF Found, R!IsMatch
<1>2. Begins(p, ids)
  BY <1>1, BeginsIs
<1>3. Len(p) = Len(ids) => p = ids
  <2> SUFFICES ASSUME Len(p) = Len(ids) PROVE p = ids
    OBVIOUS
  <2>1. \A i \in 1 .. Len(p) : p[i] = ids[i]
    BY <1>2 DEF Begins
  <2> QED BY ONLY <1>1, <2>1, ids \in Seq(Token), Len(p) = Len(ids), SeqEqual
<1> QED BY <1>1, <1>3

LEMMA EvictExactMaps ==
  ASSUME RefInv, NEW ids \in Seq(Token), NEW m, m = MatchPrefix(nodes, ids),
         NEW p, p = PrefixOf(m.tree, m.terminal), NEW victims, NEW gone,
         m.tree[m.terminal].length = Len(ids) /\ ids # <<>> =>
           /\ victims \subseteq DOMAIN m.tree \ {ROOT} /\ Droops(m.tree, victims)
           /\ \A n \in victims : m.tree[n].lock = 0
           /\ gone = {PrefixOf(m.tree, n) : n \in victims},
         EvictExact(m, ids, victims)
  PROVE  /\ R!EvictExact(ids, p, IF p = ids THEN gone ELSE {})
         /\ Bare(nodes') /\ Handles'
<1>1. PICK S : S = IF m.tree[m.terminal].length = Len(ids) THEN victims ELSE {}
  OBVIOUS
<1>2. /\ busy = None /\ ids # <<>>
      /\ nodes' = RemoveAll(m.tree, S)
      /\ free' = free \cup UNION {ToSet(m.tree[n].delta.pages) : n \in S}
      /\ UNCHANGED <<reserved, handle, busy, goal>>
  BY <1>1 DEF EvictExact
<1>3. Tree(nodes) /\ HandlesTyped /\ Bare(nodes) /\ Handles /\ Clean(nodes)
  BY RefFacts
<1>4. Found(nodes, m, ids, p)
  BY <1>3, MatchIsFound
<1>5. /\ R!IsMatch(Named(nodes), ids, p) /\ Named(m.tree) = R!Split(Named(nodes), p)
      /\ DOMAIN nodes \subseteq DOMAIN m.tree
      /\ \A n \in DOMAIN nodes : PrefixOf(m.tree, n) = PrefixOf(nodes, n)
  BY <1>4 DEF Found
<1>6. m.tree[m.terminal].length = Len(ids) <=> p = ids
  BY <1>4, FoundWhole
<1>7. Shape(m.tree)
  BY <1>3, MatchFacts DEF Tree
<1>8. Bare(m.tree) /\ \A n \in DOMAIN nodes : m.tree[n].lock = nodes[n].lock
  BY <1>3, MatchLeavesRoot
<1>9. PICK G : G = IF p = ids THEN gone ELSE {}
  OBVIOUS
<1>10. /\ S \subseteq DOMAIN m.tree \ {ROOT} /\ Droops(m.tree, S)
       /\ \A n \in S : m.tree[n].lock = 0
       /\ G = {PrefixOf(m.tree, n) : n \in S}
  <2>1. CASE p = ids
    BY <1>1, <1>2, <1>6, <1>9, <2>1
  <2>2. CASE p # ids
    <3>1. S = {} /\ G = {}
      BY <1>1, <1>6, <1>9, <2>2
    <3> QED BY <3>1 DEF Droops
  <2> QED BY <2>1, <2>2
<1>11. Named(nodes') = R!Prune(R!Split(Named(nodes), p), G)
  <2>1. S \subseteq DOMAIN m.tree
    BY <1>10
  <2>2. Named(RemoveAll(m.tree, S)) = R!Prune(Named(m.tree), G)
    BY <1>7, <1>10, <2>1, PrunedNamed
  <2> QED BY <1>2, <1>5, <2>2
<1>12. UNION {ToSet(m.tree[n].delta.pages) : n \in S}
         = UNION {R!Split(Named(nodes), p)[k].own : k \in G}
  <2>1. UNION {Named(m.tree)[k].own : k \in G} = UNION {ToSet(m.tree[n].delta.pages) : n \in S}
    BY <1>7, <1>10, GoneNamed, ZenonT(40)
  <2> QED BY <1>5, <2>1
<1>13. /\ Bare(nodes') /\ DOMAIN nodes' = DOMAIN m.tree \ S
       /\ \A n \in DOMAIN m.tree \ S : PrefixOf(nodes', n) = PrefixOf(m.tree, n)
  <2>1. Shape(m.tree) /\ Droops(m.tree, S) /\ Bare(m.tree)
    BY <1>7, <1>8, <1>10
  <2>2. /\ Bare(RemoveAll(m.tree, S)) /\ DOMAIN RemoveAll(m.tree, S) = DOMAIN m.tree \ S
        /\ \A n \in DOMAIN m.tree \ S : PrefixOf(RemoveAll(m.tree, S), n) = PrefixOf(m.tree, n)
    BY ONLY <2>1, RemovalKeeps
  <2> QED BY <1>2, <2>2
<1>14. ASSUME NEW q \in Active
       PROVE  handle[q].terminal \in DOMAIN m.tree \ S /\ handle[q].terminal \in DOMAIN nodes
  <2>1. handle[q].terminal \in DOMAIN nodes
    BY <1>3 DEF Handles, HandleOk
  <2>2. handle[q].terminal # ROOT => nodes[handle[q].terminal].lock # 0
    BY TerminalIsLocked
  <2> QED BY <1>5, <1>8, <1>10, <2>1, <2>2
<1>15. Steady
  BY <1>5, <1>13, <1>14 DEF Steady
<1>16. /\ Active' = Active /\ Matched' = Matched /\ Capacity' = Capacity /\ Credit' = Credit
       /\ Shared' = Shared /\ Private' = Private /\ Boundary' = Boundary
  BY <1>2, <1>3, <1>15, SameReads
<1>17. Handles'
  BY <1>2, <1>3, <1>13, <1>14, HandlesKept
<1>18. Named(nodes)' = R!Prune(R!Split(Named(nodes), p), G)
  BY <1>11
<1>19. free' = free \cup UNION {R!Split(Named(nodes), p)[k].own : k \in G}
  BY <1>2, <1>12
<1>20. R!EvictExact(ids, p, G)
  BY <1>2, <1>5, <1>16, <1>18, <1>19 DEF R!EvictExact
<1> QED BY <1>9, <1>13, <1>17, <1>20

LEMMA EvictExactLeafMaps ==
  ASSUME RefInv, NEW ids \in Texts, EvictExactLeaf(ids)
  PROVE  /\ \E p \in R!Prefixes(ids) : R!EvictExactLeaf(ids, p)
         /\ Bare(nodes') /\ Handles'
<1>1. ids \in Seq(Token)
  BY TreeAssumption
<1>2. PICK m : m = MatchPrefix(nodes, ids)
  OBVIOUS
<1>3. PICK p : p = PrefixOf(m.tree, m.terminal)
  OBVIOUS
<1>4. PICK victims : victims = Leaf(m.tree, m.terminal)
  OBVIOUS
<1>5. PICK gone : gone = R!Leaf(R!Split(Named(nodes), p), ids)
  OBVIOUS
<1>6. EvictExact(m, ids, victims)
  BY <1>2, <1>4 DEF EvictExactLeaf
<1>7. Tree(nodes) /\ Clean(nodes)
  BY RefFacts
<1>8. Found(nodes, m, ids, p)
  BY <1>1, <1>2, <1>3, <1>7, MatchIsFound
<1>9. Shape(m.tree) /\ m.terminal \in DOMAIN m.tree
  BY <1>1, <1>2, <1>7, MatchFacts DEF Tree
<1>10. ASSUME m.tree[m.terminal].length = Len(ids), ids # <<>>
       PROVE  /\ victims \subseteq DOMAIN m.tree \ {ROOT} /\ Droops(m.tree, victims)
              /\ \A n \in victims : m.tree[n].lock = 0
              /\ gone = {PrefixOf(m.tree, n) : n \in victims}
  <2>1. p = ids
    BY <1>1, <1>8, <1>10, FoundWhole
  <2>2. m.terminal \in DOMAIN m.tree \ {ROOT}
    BY <1>3, <1>9, <1>10, <2>1, PrefixSteps
  <2>3. p \in R!Evictable(Named(m.tree)) <=> m.terminal \in Evictable(m.tree)
    BY <1>3, <1>9, <2>2, LeafNamed
  <2>4. gone = {p} \cap R!Evictable(Named(m.tree))
    BY <1>5, <1>8, <2>1 DEF R!Leaf, Found
  <2>5. CASE m.terminal \in Evictable(m.tree)
    <3>1. victims = {m.terminal} /\ gone = {p}
      BY <1>4, <2>3, <2>4, <2>5 DEF Leaf
    <3>2. Droops(m.tree, victims) /\ m.tree[m.terminal].lock = 0
      BY <1>9, <2>5, <3>1, LeafDroops DEF Evictable
    <3> QED BY <1>3, <2>2, <3>1, <3>2
  <2>6. CASE m.terminal \notin Evictable(m.tree)
    <3>1. victims = {} /\ gone = {}
      BY <1>4, <2>3, <2>4, <2>6 DEF Leaf
    <3> QED BY <3>1 DEF Droops
  <2> QED BY <2>5, <2>6
<1>11. /\ R!EvictExact(ids, p, IF p = ids THEN gone ELSE {})
       /\ Bare(nodes') /\ Handles'
  BY <1>1, <1>2, <1>3, <1>6, <1>10, EvictExactMaps, ZenonT(40)
<1>12. R!EvictExactLeaf(ids, p)
  BY <1>5, <1>11 DEF R!EvictExactLeaf
<1>13. p \in R!Prefixes(ids)
  BY <1>8 DEF Found
<1> QED BY <1>11, <1>12, <1>13

LEMMA EvictExactSubtreeMaps ==
  ASSUME RefInv, NEW ids \in Texts, EvictExactSubtree(ids)
  PROVE  /\ \E p \in R!Prefixes(ids) : R!EvictExactSubtree(ids, p)
         /\ Bare(nodes') /\ Handles'
<1>1. ids \in Seq(Token)
  BY TreeAssumption
<1>2. PICK m : m = MatchPrefix(nodes, ids)
  OBVIOUS
<1>3. PICK p : p = PrefixOf(m.tree, m.terminal)
  OBVIOUS
<1>4. PICK victims : victims = Subtree(m.tree, m.terminal)
  OBVIOUS
<1>5. PICK gone : gone = R!Subtree(R!Split(Named(nodes), p), ids)
  OBVIOUS
<1>6. EvictExact(m, ids, victims)
  BY <1>2, <1>4 DEF EvictExactSubtree
<1>7. Tree(nodes) /\ Clean(nodes) /\ R!PrefixTree(Named(nodes)) /\ R!NoPageTwice(Named(nodes))
  BY RefFacts
<1>8. Found(nodes, m, ids, p)
  BY <1>1, <1>2, <1>3, <1>7, MatchIsFound
<1>9. Shape(m.tree) /\ m.terminal \in DOMAIN m.tree
  BY <1>1, <1>2, <1>7, MatchFacts DEF Tree
<1>10. \A q \in DOMAIN Named(m.tree) : Named(m.tree)[q].lock \in Nat
  <2>1. R!PrefixTree(Named(m.tree))
    BY <1>1, <1>2, <1>7, MatchIsClean
  <2> QED BY <2>1 DEF R!PrefixTree, R!Node
<1>11. ASSUME m.tree[m.terminal].length = Len(ids), ids # <<>>
       PROVE  /\ victims \subseteq DOMAIN m.tree \ {ROOT} /\ Droops(m.tree, victims)
              /\ \A n \in victims : m.tree[n].lock = 0
              /\ gone = {PrefixOf(m.tree, n) : n \in victims}
  <2>1. p = ids
    BY <1>1, <1>8, <1>11, FoundWhole
  <2>2. m.terminal \in DOMAIN m.tree \ {ROOT}
    BY <1>3, <1>9, <1>11, <2>1, PrefixSteps
  <2>3. Droops(m.tree, victims)
    BY <1>4, <1>9, <2>2, SubtreeDroops
  <2>4. victims \subseteq DOMAIN m.tree /\ \A n \in victims : m.tree[n].lock = 0
    BY <1>4 DEF Subtree
  <2>5. R!Subtree(Named(m.tree), p) = {PrefixOf(m.tree, n) : n \in Subtree(m.tree, m.terminal)}
    BY <1>3, <1>9, <1>10, <2>2, SubtreeNamed
  <2>6. gone = {PrefixOf(m.tree, n) : n \in victims}
    BY <1>4, <1>5, <1>8, <2>1, <2>5 DEF Found
  <2> QED BY <2>3, <2>4, <2>6 DEF Droops
<1>12. /\ R!EvictExact(ids, p, IF p = ids THEN gone ELSE {})
       /\ Bare(nodes') /\ Handles'
  BY <1>1, <1>2, <1>3, <1>6, <1>11, EvictExactMaps, ZenonT(40)
<1>13. R!EvictExactSubtree(ids, p)
  BY <1>5, <1>12 DEF R!EvictExactSubtree
<1>14. p \in R!Prefixes(ids)
  BY <1>8 DEF Found
<1> QED BY <1>12, <1>13, <1>14

LEMMA SameTreeIsBare ==
  ASSUME NEW a, Shape(a), Bare(a), NEW b, SameTree(b, a), b[ROOT].lock = a[ROOT].lock
  PROVE  Bare(b)
<1>1. ROOT \in DOMAIN a
  BY DEF Shape, Typed
<1>2. b[ROOT].delta = a[ROOT].delta
  BY <1>1 DEF SameTree
<1> QED BY <1>2 DEF Bare

(* What the nodes that are locked own is counted as reserve counts it.      *)
LEMMA PinnedIsCounted ==
  ASSUME NEW a, Shape(a), Clean(a), Apart(a), Bare(a), NEW t, t = Named(a)
  PROVE  PinnedCount(a) \in Nat /\ PinnedCount(a) = R!Cardinality(R!Pinned(t))
<1>1. PinnedCount(a) = Cardinality(R!Pinned(t))
  BY CountsNamed
<1>2. ASSUME NEW q \in DOMAIN t PROVE t[q].own \subseteq Page
  <2>4. q \in Names(a)
    BY NamedIs
  <2>1. PICK n \in DOMAIN a \ {ROOT} : q = PrefixOf(a, n)
    BY <2>4 DEF Names
  <2>2. t[q].own = ToSet(a[n].delta.pages)
    BY <2>1, NamedIs, NamesAre
  <2>3. a[n].delta.pages \in Seq(Page)
    BY <2>1, DeltasNameOnce
  <2> QED BY <2>2, <2>3, Elements
<1>3. R!Pinned(t) \subseteq Page
  BY <1>2 DEF R!Pinned, R!Locked
<1>4. IsFiniteSet(R!Pinned(t))
  BY <1>3, TreeAssumption, FS_Subset
<1>5. Cardinality(R!Pinned(t)) \in Nat
  BY <1>4, FS_CardinalityType
<1> QED BY <1>1, <1>5, SameLibrary

(* The first pages of a first part are those of the whole.                  *)
LEMMA WholeCut ==
  ASSUME NEW s \in Seq(Page), NEW k \in Nat, k <= Len(s), NEW t, t = SubSeq(s, 1, k)
  PROVE  t \in Seq(Page) /\ Len(t) = k /\ SubSeq(t, 1, k) = t
<1>1. t \in Seq(Page) /\ Len(t) = k
  BY CutSequence
<1>2. PICK u : u = SubSeq(t, 1, k)
  OBVIOUS
<1>3. u \in Seq(Page) /\ Len(u) = k /\ \A i \in 1 .. k : u[i] = t[i]
  <2>1. k <= Len(t)
    BY <1>1
  <2> QED BY <1>1, <1>2, <2>1, CutSequence
<1>4. u = t
  <2>1. u \in Seq(Page) /\ t \in Seq(Page) /\ Len(u) = Len(t) /\ \A i \in 1 .. Len(u) : u[i] = t[i]
    BY <1>1, <1>3
  <2> QED BY ONLY <2>1, SeqEqual
<1> QED BY <1>1, <1>2, <1>4

LEMMA ReserveMaps ==
  ASSUME RefInv, NEW r \in Request, NEW ids \in Texts, NEW cap \in Asked, Reserve(r, ids, cap)
  PROVE  /\ cap \in R!Capacities
         /\ \E p \in R!Prefixes(ids) : R!Reserve(r, ids, cap, p) \/ R!ReserveRefused(r, ids, cap, p)
         /\ Bare(nodes') /\ Handles'
<1>1. ids \in Seq(Token) /\ cap \in Nat
  BY TreeAssumption
<1>2. PICK m : m = MatchPrefix(nodes, ids)
  OBVIOUS
<1>3. PICK matched : matched = m.tree[m.terminal].length
  OBVIOUS
<1>4. PICK table : table = PageTableOf(m.tree, m.terminal)
  OBVIOUS
<1>5. PICK touched : touched = TouchPath(m.tree, m.terminal)
  OBVIOUS
<1>6. PICK locked : locked = AddLock(touched, m.terminal, 1)
  OBVIOUS
<1>7. PICK direct : direct = SharedPages(matched, cap)
  OBVIOUS
<1>8. PICK promise : promise = PagesFor(cap) - direct
  OBVIOUS
<1>9. PICK first, last : /\ first = SubSeq(table, 1, direct)
                         /\ last = IF direct < Len(table) THEN Last(table) ELSE None
  OBVIOUS
<1>10. PICK h : h = [terminal |-> m.terminal,
                     matched  |-> matched,
                     capacity |-> cap,
                     credit   |-> promise,
                     table    |-> first,
                     private  |-> <<>>,
                     boundary |-> last]
  OBVIOUS
<1>11. /\ busy = None /\ handle[r] = None
       /\ cap > 0 /\ Len(ids) <= cap /\ PagesFor(cap) <= TotalPages
       /\ Cardinality(Active) < MaxActive
       /\ free' = free
       /\ IF reserved + promise + PinnedCount(locked) > TotalPages
          THEN nodes' = touched /\ UNCHANGED <<reserved, handle, busy, goal>>
          ELSE /\ nodes' = locked /\ reserved' = reserved + promise
               /\ SetTo(r, h)
               /\ Allocate(r, direct, PagesFor(Len(ids)))
  BY <1>2, <1>3, <1>4, <1>5, <1>6, <1>7, <1>8, <1>9, <1>10 DEF Reserve, SetTo
<1>12. PICK p : p = PrefixOf(m.tree, m.terminal)
  OBVIOUS
<1>13. /\ Tree(nodes) /\ HandlesTyped /\ Bare(nodes) /\ Handles /\ Clean(nodes)
       /\ R!PrefixTree(Named(nodes)) /\ R!NoPageTwice(Named(nodes))
  BY RefFacts
<1>14. PICK T : T = R!Split(Named(nodes), p)
  OBVIOUS
<1>15. /\ Len(p) = matched /\ p \in R!Prefixes(ids) /\ R!IsMatch(Named(nodes), ids, p)
       /\ Named(m.tree) = T
       /\ DOMAIN nodes \subseteq DOMAIN m.tree
       /\ \A n \in DOMAIN nodes : PrefixOf(m.tree, n) = PrefixOf(nodes, n)
  BY <1>1, <1>2, <1>3, <1>12, <1>13, <1>14, MatchIsFound DEF Found
<1>16. /\ m.terminal \in DOMAIN m.tree /\ m.terminal \in Nat /\ matched \in Nat
       /\ table \in Seq(Page) /\ Len(table) = PagesFor(matched)
       /\ Tree(m.tree) /\ Shape(m.tree)
  BY <1>1, <1>2, <1>3, <1>4, <1>13, MatchFacts DEF Tree
<1>17. R!Table(T, p) = table
  BY <1>4, <1>12, <1>15, <1>16, TableNamed
<1>18. Clean(m.tree) /\ Apart(m.tree) /\ Bare(m.tree)
  BY <1>1, <1>2, <1>13, MatchIsClean, MatchLeavesRoot
<1>19. /\ SameTree(touched, m.tree) /\ Tree(touched) /\ Shape(touched)
       /\ \A n \in DOMAIN m.tree : touched[n].lock = m.tree[n].lock
  BY <1>5, <1>16, TouchKeepsTree DEF Tree
<1>20. /\ DOMAIN touched = DOMAIN m.tree
       /\ \A n \in DOMAIN m.tree : PrefixOf(touched, n) = PrefixOf(m.tree, n)
  BY <1>16, <1>19, SameTreeNames
<1>21. ROOT \in DOMAIN m.tree
  BY <1>16 DEF Shape, Typed
<1>22. Clean(touched) /\ Apart(touched) /\ Bare(touched)
  BY <1>16, <1>18, <1>19, <1>21, SameTreeIsClean, SameTreeIsBare
<1>23. /\ SameTree(locked, touched) /\ Tree(locked) /\ Shape(locked)
       /\ \A n \in DOMAIN touched :
            locked[n].lock = IF n \in Path(touched, m.terminal) THEN touched[n].lock + 1 ELSE touched[n].lock
  BY <1>6, <1>19, AddLockKeepsTree DEF Tree
<1>24. /\ DOMAIN locked = DOMAIN m.tree
       /\ \A n \in DOMAIN m.tree : PrefixOf(locked, n) = PrefixOf(m.tree, n)
  BY <1>19, <1>20, <1>23, SameTreeNames
<1>25. Clean(locked) /\ Apart(locked) /\ Bare(locked)
  <2>1. ROOT \notin Path(touched, m.terminal)
    BY <1>16, <1>19, <1>20, PathSteps
  <2>2. locked[ROOT].lock = touched[ROOT].lock
    BY <1>20, <1>21, <1>23, <2>1
  <2> QED BY <1>19, <1>22, <1>23, <2>2, SameTreeIsClean, SameTreeIsBare
<1>26. Named(touched) = T
  BY <1>5, <1>15, <1>16, TouchNamed
<1>27. Named(locked) = R!LockPath(T, p)
  <2>1. m.terminal \in DOMAIN touched /\ p = PrefixOf(touched, m.terminal)
    BY <1>12, <1>16, <1>20
  <2>2. Named(locked) = R!LockPath(Named(touched), p)
    BY <1>6, <1>19, <2>1, LockNamed
  <2> QED BY <1>26, <2>2
<1>28. /\ PinnedCount(locked) \in Nat
       /\ PinnedCount(locked) = R!Cardinality(R!Pinned(R!LockPath(T, p)))
  BY <1>23, <1>25, <1>27, PinnedIsCounted
<1>29. direct \in Nat /\ direct <= Len(table) /\ promise \in Int
  <2>1. direct \in Nat /\ direct <= PagesFor(matched)
    BY <1>1, <1>7, <1>16, SharedFacts
  <2>2. PICK k \in Nat : k = PagesFor(cap)
    BY <1>1, PagesForFacts
  <2> QED BY <1>8, <1>16, <2>1, <2>2
<1>30. direct = R!SharedPages(Len(p), cap) /\ promise = R!Promise(p, cap)
  BY <1>7, <1>8, <1>15, SamePages DEF R!Promise
<1>31. R!Admissible(p, cap) <=> ~ (reserved + promise + PinnedCount(locked) > TotalPages)
  <2>1. TotalPages \in Nat /\ R!Cardinality(Page) = TotalPages
    BY TreeAssumption, SameLibrary, FS_CardinalityType DEF TotalPages
  <2>2. reserved \in Int
    BY DEF RefInv, TreeInv
  <2>3. R!Admissible(p, cap) <=> reserved + promise + PinnedCount(locked) <= TotalPages
    BY <1>14, <1>28, <1>30, <2>1 DEF R!Admissible
  <2>4. PICK x \in Int : x = reserved + promise + PinnedCount(locked)
    BY <1>28, <1>29, <2>2
  <2> QED BY <2>1, <2>3, <2>4
<1>32. cap \in R!Capacities
  BY <1>1, <1>11, CapacityIs
<1>33. R!CanReserve(r, ids, cap)
  BY <1>11, SameLibrary DEF R!CanReserve, Active
<1>34. \A q \in Active : handle[q].terminal \in DOMAIN nodes
  BY <1>13 DEF Handles, HandleOk
<1>35. CASE reserved + promise + PinnedCount(locked) > TotalPages
  <2>1. nodes' = touched /\ UNCHANGED <<reserved, handle, busy, goal>>
    BY <1>11, <1>35
  <2>2. Steady
    BY <1>15, <1>20, <1>34, <2>1 DEF Steady
  <2>3. /\ Active' = Active /\ Matched' = Matched /\ Capacity' = Capacity /\ Credit' = Credit
        /\ Shared' = Shared /\ Private' = Private /\ Boundary' = Boundary
    BY <1>13, <2>1, <2>2, SameReads
  <2>4. Handles'
    BY <1>13, <1>15, <1>20, <1>34, <2>1, HandlesKept
  <2>5. Named(nodes)' = R!Split(Named(nodes), p)
    BY <1>14, <1>26, <2>1
  <2>6. R!ReserveRefused(r, ids, cap, p)
    BY <1>11, <1>15, <1>31, <1>33, <1>35, <2>1, <2>3, <2>5 DEF R!ReserveRefused
  <2> QED BY <1>15, <1>22, <1>32, <2>1, <2>4, <2>6
<1>36. CASE ~ (reserved + promise + PinnedCount(locked) > TotalPages)
  <2>1. /\ nodes' = locked /\ reserved' = reserved + promise /\ SetTo(r, h)
        /\ Allocate(r, direct, PagesFor(Len(ids)))
    BY <1>11, <1>36
  <2>2. first \in Seq(Page) /\ Len(first) = direct /\ SubSeq(first, 1, direct) = first
    BY <1>9, <1>16, <1>29, WholeCut
  <2>3. last \in Page \cup {None} /\ last = IF direct < Len(table) THEN table[Len(table)] ELSE None
    BY <1>9, <1>16, <1>29 DEF Last
  <2>4. PICK none : none = <<>>
    OBVIOUS
  <2>5. none \in Seq(Page) /\ Len(none) = 0
    BY <2>4
  <2>6. /\ h \in Reservation /\ h.terminal = m.terminal /\ h.capacity = cap /\ h.credit = promise
        /\ h.table = first /\ h.private = none /\ h.boundary = last
    BY <1>1, <1>10, <1>16, <1>29, <2>2, <2>3, <2>4, <2>5 DEF Reservation
  <2>7. h # None
    BY <2>6, ReservationFields
  <2>8. Steady
    BY <1>15, <1>24, <1>34, <2>1 DEF Steady
  <2>9. Becomes(r, h)
    BY <1>13, <2>1, <2>6, <2>8, SetReads
  <2>10. PrefixOf(nodes', m.terminal) = p
    BY <1>12, <1>16, <1>24, <2>1
  <2>11. SubSeq(h.table, 1, Len(h.table) - Len(h.private)) = first
    <3>1. Len(first) - Len(none) = direct
      BY <1>29, <2>2, <2>5
    <3> QED BY <2>2, <2>6, <3>1
  <2>12. /\ Active' = Active \cup {r}
         /\ Matched' = [Matched EXCEPT ![r] = p]
         /\ Capacity' = [Capacity EXCEPT ![r] = cap]
         /\ Credit' = [Credit EXCEPT ![r] = promise]
         /\ Shared' = [Shared EXCEPT ![r] = first]
         /\ Private' = [Private EXCEPT ![r] = none]
         /\ Boundary' = [Boundary EXCEPT ![r] = last]
    BY <2>6, <2>7, <2>9, <2>10, <2>11 DEF Becomes
  <2>13. Private' = Private
    BY <1>11, <2>4, <2>12 DEF Private
  <2>14. R!Allocate(r, direct, R!PagesFor(Len(ids)))
    BY <2>1, SamePages, AllocateMaps
  <2>15. Named(nodes)' = R!LockPath(R!Split(Named(nodes), p), p)
    BY <1>14, <1>27, <2>1
  <2>16. /\ first = SubSeq(R!Table(R!Split(Named(nodes), p), p), 1, R!SharedPages(Len(p), cap))
         /\ last = IF R!SharedPages(Len(p), cap) < Len(R!Table(R!Split(Named(nodes), p), p))
                   THEN R!Table(R!Split(Named(nodes), p), p)[Len(R!Table(R!Split(Named(nodes), p), p))]
                   ELSE None
    BY <1>9, <1>14, <1>17, <1>30, <2>3
  <2>17. R!Reserve(r, ids, cap, p)
    BY <1>11, <1>15, <1>30, <1>31, <1>33, <1>36, <2>1, <2>12, <2>13, <2>14, <2>15, <2>16 DEF R!Reserve
  <2>18. EndsWith(h.private, h.table)
    BY <2>2, <2>5, <2>6 DEF EndsWith
  <2>19. HandleOk(nodes', h)
    BY <1>11, <1>16, <1>24, <2>1, <2>6, <2>18 DEF HandleOk
  <2>20. Handles'
    BY <1>13, <1>15, <1>24, <1>34, <2>1, <2>6, <2>19, HandlesStay
  <2> QED BY <1>15, <1>25, <1>32, <2>1, <2>17, <2>20
<1> QED BY <1>35, <1>36

LEMMA InsertNamed ==
  ASSUME NEW a, Tree(a), Bare(a), NEW parent, NEW edge, NEW pages, Fits(a, parent, edge, pages),
         NEW b, b = InsertRadixChild(a, parent, edge, pages),
         NEW ids, NEW owned, Adds(a, parent, edge, pages, ids, owned)
  PROVE  /\ Tree(b) /\ Bare(b) /\ DOMAIN a \subseteq DOMAIN b
         /\ \A n \in DOMAIN a : PrefixOf(b, n) = PrefixOf(a, n)
         /\ Named(b) = R!Insert(Named(a), ids, pages, owned)
<1>1. Shape(a) /\ ROOT \in DOMAIN a
  BY DEF Tree, Shape, Typed
<1>2. Tree(b)
  BY InsertKeepsTree
<1>3. PICK g : /\ IsGrown(g, a, NewId(a), parent, edge, pages)
               /\ SameTree(b, g) /\ \A n \in DOMAIN g : b[n].lock = g[n].lock
  BY InsertKeepsTree
<1>4. PICK id : id = NewId(a)
  OBVIOUS
<1>5. IsGrown(g, a, id, parent, edge, pages)
  BY <1>3, <1>4
<1>6. Shape(g)
  BY <1>1, <1>5, GrownKeepsShape
<1>7. \A n \in DOMAIN a : PrefixOf(g, n) = PrefixOf(a, n)
  BY <1>1, <1>5, GrownReads
<1>8. Named(g) = R!Insert(Named(a), ids, pages, owned)
  BY <1>1, <1>5, GrownNamed
<1>9. Named(b) = Named(g)
  BY <1>3, <1>6, StampsAreNotNamed
<1>10. /\ DOMAIN b = DOMAIN g /\ \A n \in DOMAIN g : PrefixOf(b, n) = PrefixOf(g, n)
  BY <1>3, <1>6, SameTreeNames
<1>11. /\ DOMAIN a \subseteq DOMAIN g
       /\ g[ROOT].delta = a[ROOT].delta /\ g[ROOT].lock = a[ROOT].lock
  BY <1>1, <1>5 DEF IsGrown
<1>12. Bare(b)
  <2>1. Bare(g) /\ b[ROOT].lock = g[ROOT].lock
    BY <1>1, <1>3, <1>11 DEF Bare
  <2> QED BY <1>3, <1>6, <2>1, SameTreeIsBare
<1>13. DOMAIN a \subseteq DOMAIN b /\ \A n \in DOMAIN a : PrefixOf(b, n) = PrefixOf(a, n)
  BY <1>7, <1>10, <1>11
<1> QED BY <1>2, <1>8, <1>9, <1>12, <1>13

(* A commit publishes pages of its own, none that its match names already.  *)
LEMMA SuffixIsNew ==
  ASSUME RefInv, NEW r \in Active, NEW ids \in Texts, NEW p \in R!Prefixes(ids), p # ids,
         R!\sqsubseteq(Matched[r], ids), Len(ids) <= Capacity[r],
         R!PagesFor(Len(ids)) <= Len(R!PageTable(r)), R!IsMatch(Named(nodes), ids, p),
         NEW T, T = R!Split(Named(nodes), p), R!PrefixTree(T),
         p # <<>> => p \in DOMAIN T
  PROVE  /\ R!OwnSuffix(r, ids, p) \in Seq(Page)
         /\ R!Elems(R!Table(T, p)) \cap R!Elems(R!OwnSuffix(r, ids, p)) = {}
<1>1. R!IInv /\ R!PrefixTree(Named(nodes)) /\ R!PagePartition
  BY RefFacts DEF R!IInv
<1>2. PICK u : u = R!OwnSuffix(r, ids, p)
  OBVIOUS
<1>3. u \in Seq(Page) /\ R!Elems(u) \subseteq R!Held(r)
  BY <1>1, <1>2, RadixAssumed, R!SuffixIsPrivate
<1>4. R!Held(r) \cap R!Cached(Named(nodes)) = {}
  BY <1>1 DEF R!PagePartition, Active
<1>5. R!Cached(T) = R!Cached(Named(nodes))
  <2>1. CASE p = <<>> \/ p \in DOMAIN Named(nodes)
    BY <2>1 DEF R!Split
  <2>2. CASE ~ (p = <<>> \/ p \in DOMAIN Named(nodes))
    <3>1. PICK t : t = Named(nodes)
      OBVIOUS
    <3>2. p \in R!Prefix \ DOMAIN t /\ R!Below(t, p) # {} /\ R!PrefixTree(t)
      <4>1. p \in Seq(Token)
        <5>1. ids \in Seq(Token)
          BY TreeAssumption
        <5> QED BY <5>1 DEF R!Prefixes
      <4> QED BY <1>1, <2>2, <3>1, <4>1 DEF R!Prefix, R!IsMatch
    <3>3. R!Cached(R!Split(t, p)) = R!Cached(t)
      BY ONLY <3>2, RadixAssumed, R!SplitKeepsPages
    <3> QED BY <3>1, <3>3
  <2> QED BY <2>1, <2>2
<1>6. R!Elems(R!Table(T, p)) \subseteq R!Cached(T)
  <2>1. CASE p = <<>>
    <3>1. R!Table(T, p) = <<>>
      BY <2>1 DEF R!Table
    <3> QED BY <3>1 DEF R!Elems
  <2>2. CASE p # <<>>
    <3>1. R!Table(T, p) = T[p].table /\ p \in DOMAIN T
      BY <2>2 DEF R!Table
    <3> QED BY <3>1 DEF R!PrefixTree, R!PathOwnsTables, R!Cached
  <2> QED BY <2>1, <2>2
<1> QED BY <1>2, <1>3, <1>4, <1>5, <1>6

LEMMA PrefixBegins ==
  ASSUME NEW p \in Seq(Token), NEW ids \in Seq(Token), IsPrefix(p, ids)
  PROVE  Begins(p, ids)
<1>1. Len(p) \in Nat /\ Len(p) <= Len(ids) /\ SubSeq(p, 1, Len(p)) = SubSeq(ids, 1, Len(p))
  BY DEF IsPrefix
<1>2. PICK k \in Nat : k = Len(p)
  BY <1>1
<1>3. /\ \A i \in 1 .. k : SubSeq(p, 1, k)[i] = p[i]
      /\ \A i \in 1 .. k : SubSeq(ids, 1, k)[i] = ids[i]
  BY <1>1, <1>2, CutSequence
<1> QED BY <1>1, <1>2, <1>3 DEF Begins

LEMMA CommitMaps ==
  ASSUME RefInv, NEW r \in Request, NEW ids \in Texts,
         IsPrefix(PrefixOf(nodes, handle[r].terminal), ids), Commit(r, ids)
  PROVE  /\ \E p \in R!Prefixes(ids) : R!Commit(r, ids, p)
         /\ Bare(nodes') /\ Handles'
<1>1. ids \in Seq(Token)
  BY TreeAssumption
<1>2. PICK m : m = MatchPrefix(nodes, ids)
  OBVIOUS
<1>3. PICK found : found = m.tree[m.terminal].length
  OBVIOUS
<1>4. PICK touched : touched = TouchPath(m.tree, m.terminal)
  OBVIOUS
<1>5. PICK reusable : reusable = found \div PageTokens
  OBVIOUS
<1>6. PICK table : table = PageTableOf(m.tree, m.terminal)
  OBVIOUS
<1>7. PICK suffix : suffix = SubSeq(handle[r].table, reusable + 1, PagesFor(Len(ids)))
  OBVIOUS
<1>8. PICK canonical :
        canonical = IF found = Len(ids) THEN table ELSE SubSeq(table, 1, reusable) \o suffix
  OBVIOUS
<1>9. PICK edge : edge = SubSeq(ids, found + 1, Len(ids))
  OBVIOUS
<1>10. PICK a : a = IF found = Len(ids) THEN touched
                    ELSE InsertRadixChild(touched, m.terminal, edge, canonical)
  OBVIOUS
<1>11. /\ busy = None /\ handle[r] # None
       /\ Len(ids) <= handle[r].capacity
       /\ PagesFor(Len(ids)) <= Len(handle[r].table)
       /\ Finish(r, a)
       /\ free' = free \cup (ToSet(handle[r].private) \ ToSet(canonical))
  BY <1>2, <1>3, <1>4, <1>5, <1>6, <1>7, <1>8, <1>9, <1>10 DEF Commit
<1>12. PICK p : p = PrefixOf(m.tree, m.terminal)
  OBVIOUS
<1>13. /\ Tree(nodes) /\ Shape(nodes) /\ HandlesTyped /\ Bare(nodes) /\ Handles /\ Clean(nodes)
       /\ R!PrefixTree(Named(nodes)) /\ R!NoPageTwice(Named(nodes))
  BY RefFacts
<1>14. PICK T : T = R!Split(Named(nodes), p)
  OBVIOUS
<1>15. Found(nodes, m, ids, p)
  BY <1>1, <1>2, <1>12, <1>13, MatchIsFound
<1>16. /\ Len(p) = found /\ p \in Seq(Token) /\ p \in R!Prefixes(ids)
       /\ R!IsMatch(Named(nodes), ids, p)
       /\ Named(m.tree) = T
       /\ DOMAIN nodes \subseteq DOMAIN m.tree
       /\ \A n \in DOMAIN nodes : PrefixOf(m.tree, n) = PrefixOf(nodes, n)
  BY <1>3, <1>14, <1>15 DEF Found
<1>17. found = Len(ids) <=> p = ids
  BY <1>1, <1>3, <1>15, FoundWhole
<1>18. /\ Matches(m, ids) /\ m.terminal \in DOMAIN m.tree /\ found \in Nat /\ found <= Len(ids)
       /\ table \in Seq(Page) /\ Len(table) = PagesFor(found)
       /\ Tree(m.tree) /\ Shape(m.tree)
  BY <1>1, <1>2, <1>3, <1>6, <1>13, MatchFacts DEF Tree
<1>19. R!Table(T, p) = table
  BY <1>6, <1>12, <1>16, <1>18, TableNamed
<1>20. Bare(m.tree) /\ R!PrefixTree(T)
  BY <1>1, <1>2, <1>13, <1>16, MatchIsClean, MatchLeavesRoot
<1>21. /\ SameTree(touched, m.tree) /\ Tree(touched)
       /\ \A n \in DOMAIN m.tree : touched[n].lock = m.tree[n].lock
  BY <1>4, <1>18, TouchKeepsTree
<1>22. /\ DOMAIN touched = DOMAIN m.tree
       /\ \A n \in DOMAIN m.tree : /\ PrefixOf(touched, n) = PrefixOf(m.tree, n)
                                   /\ PageTableOf(touched, n) = PageTableOf(m.tree, n)
  BY <1>18, <1>21, SameTreeNames
<1>23. Bare(touched)
  <2>1. ROOT \in DOMAIN m.tree
    BY <1>18 DEF Shape, Typed
  <2> QED BY <1>18, <1>20, <1>21, <2>1, SameTreeIsBare
<1>24. Named(touched) = T
  BY <1>4, <1>16, <1>18, TouchNamed
<1>25. PICK h \in Reservation : h = handle[r]
  BY <1>11, <1>13 DEF HandlesTyped
<1>26. /\ h.table \in Seq(Page) /\ h.private \in Seq(Page)
  BY ReservationFields
<1>27. /\ r \in Active /\ Matched[r] = PrefixOf(nodes, h.terminal) /\ Capacity[r] = h.capacity
       /\ Private[r] = h.private /\ h.terminal \in DOMAIN nodes
       /\ R!PageTable(r) = h.table
  BY <1>11, <1>13, <1>25, ActiveReads DEF Handles, HandleOk
<1>28. R!\sqsubseteq(Matched[r], ids)
  <2>1. Matched[r] \in Seq(Token) /\ IsPrefix(Matched[r], ids)
    BY <1>13, <1>25, <1>27, PrefixSteps
  <2> QED BY <1>1, <2>1, PrefixBegins, BeginsIs
<1>29. /\ Len(ids) <= Capacity[r] /\ R!PagesFor(Len(ids)) <= Len(R!PageTable(r))
  BY <1>11, <1>25, <1>27, SamePages
<1>30. R!Reusable(p) = reusable /\ R!OwnSuffix(r, ids, p) = suffix
  BY <1>5, <1>7, <1>16, <1>25, <1>27, SamePages DEF R!Reusable, R!OwnSuffix
<1>31. R!Canonical(r, ids, p) = canonical
  BY <1>8, <1>14, <1>17, <1>19, <1>30 DEF R!Canonical
<1>32. /\ canonical \in Seq(Page) /\ Tree(a) /\ Bare(a) /\ DOMAIN nodes \subseteq DOMAIN a
       /\ \A n \in DOMAIN nodes : PrefixOf(a, n) = PrefixOf(nodes, n)
       /\ Named(a) = R!Published(r, ids, p)
  <2>1. CASE found = Len(ids)
    <3>1. canonical = table /\ a = touched /\ p = ids
      BY <1>8, <1>10, <1>17, <2>1
    <3>2. Named(a) = R!Published(r, ids, p)
      BY <1>14, <1>24, <3>1 DEF R!Published
    <3> QED BY <1>16, <1>18, <1>21, <1>22, <1>23, <3>1, <3>2
  <2>2. CASE found # Len(ids)
    <3>1. /\ canonical = SubSeq(table, 1, reusable) \o suffix /\ p # ids
          /\ a = InsertRadixChild(touched, m.terminal, edge, canonical)
      BY <1>8, <1>10, <1>17, <2>2
    <3>2. Fits(touched, m.terminal, edge, canonical)
      <4>1. PagesFor(Len(ids)) <= Len(h.table) /\ m.tree[m.terminal].length # Len(ids)
        BY <1>3, <1>11, <1>25, <2>2
      <4>2. canonical = SubSeq(PageTableOf(m.tree, m.terminal), 1, m.tree[m.terminal].length \div PageTokens)
                          \o SubSeq(h.table, (m.tree[m.terminal].length \div PageTokens) + 1, PagesFor(Len(ids)))
        BY <1>3, <1>5, <1>6, <1>7, <1>25, <3>1
      <4>3. edge = SubSeq(ids, m.tree[m.terminal].length + 1, Len(ids))
        BY <1>3, <1>9
      <4> QED BY <1>1, <1>18, <1>21, <1>26, <4>1, <4>2, <4>3, CommitFits
    <3>3. p # <<>> => p \in DOMAIN T
      <4>1. p # <<>> => m.terminal # ROOT
        BY <1>12, <1>18, PrefixSteps
      <4> QED BY <1>12, <1>16, <1>18, <4>1, NamedIs, NamesAre
    <3>4. suffix \in Seq(Page) /\ R!Elems(table) \cap R!Elems(suffix) = {}
      BY <1>14, <1>16, <1>19, <1>20, <1>27, <1>28, <1>29, <1>30, <3>1, <3>3, SuffixIsNew
    <3>5. reusable \in Nat /\ reusable <= Len(table)
      BY <1>5, <1>18, SharedFacts
    <3>6. PICK owned : owned = ToSet(PageDelta(PageTableOf(touched, m.terminal), canonical).pages)
      OBVIOUS
    <3>7. owned = R!Elems(suffix)
      <4>1. ToSet(PageDelta(table, SubSeq(table, 1, reusable) \o suffix).pages) = R!Elems(suffix)
        BY <1>18, <3>4, <3>5, GrownOwns
      <4>2. PageTableOf(touched, m.terminal) = table
        BY <1>6, <1>18, <1>22
      <4> QED BY <3>1, <3>6, <4>1, <4>2
    <3>8. ids = PrefixOf(touched, m.terminal) \o edge
      <4>1. PrefixOf(touched, m.terminal) = p
        BY <1>12, <1>18, <1>22
      <4>2. R!\sqsubseteq(p, ids)
        BY <1>16 DEF R!IsMatch
      <4>3. Begins(p, ids)
        BY <4>2, BeginsIs
      <4>4. Agree(p, ids, found)
        BY <1>16, <1>18, <4>3 DEF Agree, Begins
      <4>5. SubSeq(p, 1, found) \o SubSeq(ids, found + 1, Len(ids)) = ids
        BY <1>1, <1>16, <1>18, <4>4, CutAndJoin
      <4>6. SubSeq(p, 1, found) = p
        BY <1>16
      <4> QED BY <1>9, <4>1, <4>5, <4>6
    <3>9. /\ Tree(a) /\ Bare(a) /\ DOMAIN touched \subseteq DOMAIN a
          /\ \A n \in DOMAIN touched : PrefixOf(a, n) = PrefixOf(touched, n)
          /\ Named(a) = R!Insert(Named(touched), ids, canonical, owned)
      <4>1. Adds(touched, m.terminal, edge, canonical, ids, owned)
        BY <3>6, <3>8 DEF Adds
      <4> QED BY <1>21, <1>23, <3>1, <3>2, <4>1, InsertNamed
    <3>10. Named(a) = R!Published(r, ids, p)
      BY <1>14, <1>24, <1>30, <1>31, <3>1, <3>7, <3>9 DEF R!Published
    <3>11. canonical \in Seq(Page)
      BY <3>2 DEF Fits
    <3> QED BY <1>16, <1>22, <3>9, <3>10, <3>11
  <2> QED BY <2>1, <2>2
<1>33. /\ R!Release(r) /\ Named(nodes') = R!UnlockPath(Named(a), Matched[r])
       /\ Bare(nodes') /\ Handles'
  BY <1>11, <1>32, FinishMaps
<1>34. Named(nodes)' = R!UnlockPath(R!Published(r, ids, p), Matched[r])
  BY <1>32, <1>33
<1>35. free' = free \cup (R!Elems(Private[r]) \ R!Elems(R!Canonical(r, ids, p)))
  <2>1. R!Elems(Private[r]) = ToSet(handle[r].private)
    BY <1>25, <1>26, <1>27, SamePages
  <2>2. R!Elems(R!Canonical(r, ids, p)) = ToSet(canonical)
    BY <1>31, <1>32, SamePages
  <2> QED BY <1>11, <2>1, <2>2
<1>36. R!Commit(r, ids, p)
  BY <1>16, <1>28, <1>29, <1>33, <1>34, <1>35 DEF R!Commit
<1> QED BY <1>16, <1>33, <1>36

(* The tree of one node is the empty cache.                                 *)
LEMMA RefStart == Init => R!Init /\ RefInv
<1> SUFFICES ASSUME Init PROVE R!Init /\ RefInv
  OBVIOUS
<1>1. TreeInv
  BY StartOfTree
<1>2. Shape(nodes)
  BY <1>1 DEF TreeInv, Tree
<1>3. PICK root : root = [parent |-> ROOT, edge |-> <<>>, length |-> 0,
                          delta |-> [retain |-> 0, pages |-> <<>>],
                          children |-> <<>>, lock |-> 0, access |-> 0]
  OBVIOUS
<1>4. nodes = Put(<<>>, ROOT, root)
  BY <1>3 DEF Init
<1>5. DOMAIN nodes = {ROOT} /\ nodes[ROOT] = root
  <2>1. PICK none : none = <<>> /\ DOMAIN none = {}
    OBVIOUS
  <2> QED BY <1>4, <2>1 DEF Put
<1>6. Bare(nodes)
  BY <1>3, <1>5 DEF Bare
<1>7. handle = [r \in Request |-> None] /\ free = Page /\ reserved = 0 /\ busy = None /\ goal = 0
  BY DEF Init
<1>8. /\ Active = {}
      /\ Matched = [r \in Request |-> <<>>] /\ Capacity = [r \in Request |-> 0]
      /\ Credit = [r \in Request |-> 0] /\ Shared = [r \in Request |-> <<>>]
      /\ Private = [r \in Request |-> <<>>] /\ Boundary = [r \in Request |-> None]
  BY <1>7 DEF Active, Matched, Capacity, Credit, Shared, Private, Boundary
<1>9. Named(nodes) = R!EmptyTree
  <2>1. PICK t : t = R!EmptyTree
    OBVIOUS
  <2>2. DOMAIN t = {} /\ t = [p \in DOMAIN t |-> t[p]]
    BY <2>1 DEF R!EmptyTree
  <2>3. Names(nodes) = {} /\ DOMAIN nodes \ {ROOT} = {}
    BY <1>5 DEF Names
  <2> QED BY <1>2, <2>1, <2>2, <2>3, NamedOnly
<1>10. R!Init
  BY <1>7, <1>8, <1>9 DEF R!Init
<1>11. Handles
  BY <1>8 DEF Handles
<1> QED BY <1>1, <1>6, <1>10, <1>11, RadixStart DEF RefInv

LEMMA StepMaps == RefInv /\ [Next]_treeVars => [R!Next]_R!vars /\ Bare(nodes') /\ Handles'
<1> SUFFICES ASSUME RefInv, [Next]_treeVars PROVE [R!Next]_R!vars /\ Bare(nodes') /\ Handles'
  OBVIOUS
<1>1. ASSUME NEW r \in Request, NEW ids \in Texts, NEW cap \in Asked, Reserve(r, ids, cap)
      PROVE  R!Next /\ Bare(nodes') /\ Handles'
  <2>1. /\ cap \in R!Capacities
        /\ \E p \in R!Prefixes(ids) : R!Reserve(r, ids, cap, p) \/ R!ReserveRefused(r, ids, cap, p)
        /\ Bare(nodes') /\ Handles'
    BY <1>1, ReserveMaps
  <2> QED BY <2>1 DEF R!Next
<1>2. ASSUME NEW r \in Request, NEW ids \in Texts,
             IsPrefix(PrefixOf(nodes, handle[r].terminal), ids), Commit(r, ids)
      PROVE  R!Next /\ Bare(nodes') /\ Handles'
  <2>1. (\E p \in R!Prefixes(ids) : R!Commit(r, ids, p)) /\ Bare(nodes') /\ Handles'
    BY <1>2, CommitMaps
  <2> QED BY <2>1 DEF R!Next
<1>3. ASSUME NEW r \in Request, TakeBoundaryCopy(r)
      PROVE  R!Next /\ Bare(nodes') /\ Handles'
  <2>1. R!TakeBoundaryCopy(r) /\ Bare(nodes') /\ Handles'
    BY <1>3, TakeBoundaryCopyMaps
  <2> QED BY <2>1 DEF R!Next
<1>4. ASSUME NEW r \in Request, NEW tokens \in Asked, EnsureMaterialized(r, tokens)
      PROVE  [R!Next]_R!vars /\ Bare(nodes') /\ Handles'
  <2>1. /\ \/ tokens \in R!Capacities /\ R!EnsureMaterialized(r, tokens)
           \/ UNCHANGED R!vars
        /\ Bare(nodes') /\ Handles'
    BY <1>4, EnsureMaterializedMaps
  <2> QED BY <2>1 DEF R!Next
<1>5. ASSUME NEW r \in Request, Cancel(r)
      PROVE  R!Next /\ Bare(nodes') /\ Handles'
  <2>1. R!Cancel(r) /\ Bare(nodes') /\ Handles'
    BY <1>5, CancelMaps
  <2> QED BY <2>1 DEF R!Next
<1>6. ASSUME NEW ids \in Texts, EvictExactLeaf(ids)
      PROVE  R!Next /\ Bare(nodes') /\ Handles'
  <2>1. (\E p \in R!Prefixes(ids) : R!EvictExactLeaf(ids, p)) /\ Bare(nodes') /\ Handles'
    BY <1>6, EvictExactLeafMaps
  <2> QED BY <2>1 DEF R!Next
<1>7. ASSUME NEW ids \in Texts, EvictExactSubtree(ids)
      PROVE  R!Next /\ Bare(nodes') /\ Handles'
  <2>1. (\E p \in R!Prefixes(ids) : R!EvictExactSubtree(ids, p)) /\ Bare(nodes') /\ Handles'
    BY <1>7, EvictExactSubtreeMaps
  <2> QED BY <2>1 DEF R!Next
<1>8. ASSUME NEW p \in Page, TakePage(p)
      PROVE  R!Next /\ Bare(nodes') /\ Handles'
  <2>1. R!TakePage(p) /\ Bare(nodes') /\ Handles'
    BY <1>8, TakePageMaps
  <2> QED BY <2>1 DEF R!Next
<1>9. ASSUME EvictOneLeaf
      PROVE  R!Next /\ Bare(nodes') /\ Handles'
  <2>1. (\E n \in DOMAIN Named(nodes) : R!EvictOneLeaf(n)) /\ Bare(nodes') /\ Handles'
    BY <1>9, EvictOneLeafMaps
  <2> QED BY <2>1 DEF R!Next
<1>10. ASSUME UNCHANGED treeVars
       PROVE  UNCHANGED R!vars /\ Bare(nodes') /\ Handles'
  <2>1. UNCHANGED <<nodes, free, reserved, handle, busy, goal>>
    BY <1>10 DEF treeVars
  <2>2. /\ Named(nodes)' = Named(nodes)
        /\ Active' = Active /\ Matched' = Matched /\ Capacity' = Capacity /\ Credit' = Credit
        /\ Shared' = Shared /\ Private' = Private /\ Boundary' = Boundary
        /\ Bare(nodes') /\ Handles'
    BY <2>1, NothingMaps
  <2> QED BY <2>1, <2>2 DEF R!vars
<1> QED BY <1>1, <1>2, <1>3, <1>4, <1>5, <1>6, <1>7, <1>8, <1>9, <1>10 DEF Next

LEMMA RefStep == RefInv /\ [Next]_treeVars => [R!Next]_R!vars /\ RefInv'
<1> SUFFICES ASSUME RefInv, [Next]_treeVars PROVE [R!Next]_R!vars /\ RefInv'
  OBVIOUS
<1>1. [R!Next]_R!vars /\ Bare(nodes') /\ Handles'
  BY StepMaps
<1>2. TreeInv'
  BY TreeStep DEF RefInv
<1>3. RadixInv'
  BY <1>1, RadixStep DEF RefInv
<1>4. Bare(nodes)'
  BY <1>1
<1> QED BY <1>1, <1>2, <1>3, <1>4 DEF RefInv

(* What is said of the cache where it is proved about is what is said of it *)
(* where the tree promises to implement it.                                 *)
LEMMA SameOperators ==
  /\ R!Capacities = Radix!Capacities
  /\ \A S : R!Cardinality(S) = Radix!Cardinality(S)
  /\ \A ids : R!Prefixes(ids) = Radix!Prefixes(ids)
  /\ \A n : R!PagesFor(n) = Radix!PagesFor(n)
  /\ \A n, c : R!SharedPages(n, c) = Radix!SharedPages(n, c)
  /\ \A s : R!Elems(s) = Radix!Elems(s)
  /\ \A p, s : R!\sqsubseteq(p, s) <=> Radix!\sqsubseteq(p, s)
  /\ \A t, p : R!Below(t, p) = Radix!Below(t, p)
  /\ \A t, m : R!Split(t, m) = Radix!Split(t, m)
  /\ \A t, p : R!Table(t, p) = Radix!Table(t, p)
  /\ \A t, m : R!LockPath(t, m) = Radix!LockPath(t, m)
  /\ \A t, m : R!UnlockPath(t, m) = Radix!UnlockPath(t, m)
  /\ \A t, ids, pages, owned : R!Insert(t, ids, pages, owned) = Radix!Insert(t, ids, pages, owned)
  /\ \A t, S : R!Prune(t, S) = Radix!Prune(t, S)
  /\ \A t : R!Locked(t) = Radix!Locked(t)
  /\ \A t : R!Pinned(t) = Radix!Pinned(t)
<1>1. /\ \A S : R!Cardinality(S) = Radix!Cardinality(S)
      /\ \A ids : R!Prefixes(ids) = Radix!Prefixes(ids)
  BY DEF R!Cardinality, Radix!Cardinality, R!IsFiniteSet, Radix!IsFiniteSet, R!Prefixes, Radix!Prefixes
<1>2. R!Capacities = Radix!Capacities
  BY <1>1 DEF R!Capacities, Radix!Capacities
<1>3. /\ \A n : R!PagesFor(n) = Radix!PagesFor(n)
      /\ \A n, c : R!SharedPages(n, c) = Radix!SharedPages(n, c)
      /\ \A s : R!Elems(s) = Radix!Elems(s)
      /\ \A p, s : R!\sqsubseteq(p, s) <=> Radix!\sqsubseteq(p, s)
  BY DEF R!PagesFor, Radix!PagesFor, R!SharedPages, Radix!SharedPages, R!Elems, Radix!Elems,
         R!\sqsubseteq, Radix!\sqsubseteq
<1>4. \A t, p : R!Below(t, p) = Radix!Below(t, p)
  BY <1>3 DEF R!Below, Radix!Below
<1>5. \A t, m : R!Split(t, m) = Radix!Split(t, m)
  BY DEF R!Split, Radix!Split, R!PagesFor, Radix!PagesFor, R!Elems, Radix!Elems,
         R!\sqsubseteq, Radix!\sqsubseteq, R!Below, Radix!Below, R!EdgeEnd, Radix!EdgeEnd
<1>6. \A t, p : R!Table(t, p) = Radix!Table(t, p)
  BY DEF R!Table, Radix!Table
<1>7. /\ \A t, m : R!LockPath(t, m) = Radix!LockPath(t, m)
      /\ \A t, m : R!UnlockPath(t, m) = Radix!UnlockPath(t, m)
  BY DEF R!LockPath, Radix!LockPath, R!UnlockPath, Radix!UnlockPath, R!\sqsubseteq, Radix!\sqsubseteq
<1>8. \A t, ids, pages, owned : R!Insert(t, ids, pages, owned) = Radix!Insert(t, ids, pages, owned)
  BY DEF R!Insert, Radix!Insert
<1>9. \A t, S : R!Prune(t, S) = Radix!Prune(t, S)
  BY DEF R!Prune, Radix!Prune
<1>10. \A t : R!Locked(t) = Radix!Locked(t)
  BY DEF R!Locked, Radix!Locked
<1>11. \A t : R!Pinned(t) = Radix!Pinned(t)
  BY <1>10 DEF R!Pinned, Radix!Pinned
<1> QED BY <1>1, <1>2, <1>3, <1>4, <1>5, <1>6, <1>7, <1>8, <1>9, <1>10, <1>11

LEMMA SameParts ==
  /\ \A t, ids, m : R!IsMatch(t, ids, m) <=> Radix!IsMatch(t, ids, m)
  /\ \A t : R!Evictable(t) = Radix!Evictable(t)
  /\ \A t, ids : R!Leaf(t, ids) = Radix!Leaf(t, ids)
  /\ \A t, ids : R!Subtree(t, ids) = Radix!Subtree(t, ids)
  /\ \A r : R!PageTable(r) = Radix!PageTable(r)
  /\ \A m, cap : R!Promise(m, cap) = Radix!Promise(m, cap)
  /\ \A m, cap : R!Admissible(m, cap) <=> Radix!Admissible(m, cap)
  /\ \A r, ids, cap : R!CanReserve(r, ids, cap) <=> Radix!CanReserve(r, ids, cap)
  /\ \A r, ids, m : R!Canonical(r, ids, m) = Radix!Canonical(r, ids, m)
  /\ \A r, ids, m : R!Published(r, ids, m) = Radix!Published(r, ids, m)
<1>1. \A t, ids, m : R!IsMatch(t, ids, m) <=> Radix!IsMatch(t, ids, m)
  BY SameOperators DEF R!IsMatch, Radix!IsMatch
<1>2. \A t : R!Evictable(t) = Radix!Evictable(t)
  BY SameOperators DEF R!Evictable, Radix!Evictable
<1>3. \A t, ids : R!Leaf(t, ids) = Radix!Leaf(t, ids)
  BY <1>2 DEF R!Leaf, Radix!Leaf
<1>4. \A t, ids : R!Subtree(t, ids) = Radix!Subtree(t, ids)
  BY SameOperators DEF R!Subtree, Radix!Subtree
<1>5. \A r : R!PageTable(r) = Radix!PageTable(r)
  BY DEF R!PageTable, Radix!PageTable
<1>6. \A m, cap : R!Promise(m, cap) = Radix!Promise(m, cap)
  BY SameOperators DEF R!Promise, Radix!Promise
<1>7. \A m, cap : R!Admissible(m, cap) <=> Radix!Admissible(m, cap)
  BY <1>6, SameOperators DEF R!Admissible, Radix!Admissible
<1>8. \A r, ids, cap : R!CanReserve(r, ids, cap) <=> Radix!CanReserve(r, ids, cap)
  BY SameOperators DEF R!CanReserve, Radix!CanReserve
<1>9. /\ \A m : R!Reusable(m) = Radix!Reusable(m)
      /\ \A r, ids, m : R!OwnSuffix(r, ids, m) = Radix!OwnSuffix(r, ids, m)
  BY <1>5, SameOperators DEF R!Reusable, Radix!Reusable, R!OwnSuffix, Radix!OwnSuffix
<1>10. \A r, ids, m : R!Canonical(r, ids, m) = Radix!Canonical(r, ids, m)
  BY <1>9, SameOperators DEF R!Canonical, Radix!Canonical
<1>11. \A r, ids, m : R!Published(r, ids, m) = Radix!Published(r, ids, m)
  BY <1>9, <1>10, SameOperators DEF R!Published, Radix!Published
<1> QED BY <1>1, <1>2, <1>3, <1>4, <1>5, <1>6, <1>7, <1>8, <1>10, <1>11

LEMMA SameActions == [R!Next]_R!vars => [Radix!Next]_Radix!vars
<1>1. UNCHANGED R!vars => UNCHANGED Radix!vars
  BY DEF R!vars, Radix!vars
<1>2. ASSUME NEW r, NEW have, NEW pages, R!Allocate(r, have, pages) PROVE Radix!Allocate(r, have, pages)
  BY <1>2 DEF R!Allocate, Radix!Allocate
<1>3. ASSUME NEW r, R!Release(r) PROVE Radix!Release(r)
  BY <1>3 DEF R!Release, Radix!Release
<1>4. ASSUME NEW r, NEW ids, NEW cap, NEW m, R!Reserve(r, ids, cap, m)
      PROVE  Radix!Reserve(r, ids, cap, m)
  BY <1>2, <1>4, SameOperators, SameParts DEF R!Reserve, Radix!Reserve
<1>5. ASSUME NEW r, NEW ids, NEW cap, NEW m, R!ReserveRefused(r, ids, cap, m)
      PROVE  Radix!ReserveRefused(r, ids, cap, m)
  BY <1>5, SameOperators, SameParts DEF R!ReserveRefused, Radix!ReserveRefused
<1>6. ASSUME NEW r, NEW ids, NEW m, R!Commit(r, ids, m)
      PROVE  Radix!Commit(r, ids, m)
  BY <1>3, <1>6, SameOperators, SameParts DEF R!Commit, Radix!Commit
<1>7. ASSUME NEW r, R!Cancel(r) PROVE Radix!Cancel(r)
  BY <1>3, <1>7, SameOperators DEF R!Cancel, Radix!Cancel
<1>8. ASSUME NEW r, R!TakeBoundaryCopy(r) PROVE Radix!TakeBoundaryCopy(r)
  BY <1>8 DEF R!TakeBoundaryCopy, Radix!TakeBoundaryCopy
<1>9. ASSUME NEW r, NEW tokens, R!EnsureMaterialized(r, tokens)
      PROVE  Radix!EnsureMaterialized(r, tokens)
  BY <1>2, <1>9, SameOperators, SameParts DEF R!EnsureMaterialized, Radix!EnsureMaterialized
<1>10. ASSUME NEW ids, NEW m, NEW victims, R!EvictExact(ids, m, victims)
       PROVE  Radix!EvictExact(ids, m, victims)
  BY <1>10, SameOperators, SameParts DEF R!EvictExact, Radix!EvictExact
<1>11. ASSUME NEW ids, NEW m, R!EvictExactLeaf(ids, m) PROVE Radix!EvictExactLeaf(ids, m)
  BY <1>10, <1>11, SameOperators, SameParts DEF R!EvictExactLeaf, Radix!EvictExactLeaf
<1>12. ASSUME NEW ids, NEW m, R!EvictExactSubtree(ids, m) PROVE Radix!EvictExactSubtree(ids, m)
  BY <1>10, <1>12, SameOperators, SameParts DEF R!EvictExactSubtree, Radix!EvictExactSubtree
<1>13. ASSUME NEW p, R!TakePage(p) PROVE Radix!TakePage(p)
  BY <1>13, SameParts DEF R!TakePage, Radix!TakePage
<1>14. ASSUME NEW n, R!EvictOneLeaf(n) PROVE Radix!EvictOneLeaf(n)
  BY <1>14, SameOperators, SameParts DEF R!EvictOneLeaf, Radix!EvictOneLeaf
<1>15. R!Next => Radix!Next
  BY <1>4, <1>5, <1>6, <1>7, <1>8, <1>9, <1>11, <1>12, <1>13, <1>14, SameOperators
     DEF R!Next, Radix!Next
<1> QED BY <1>1, <1>15

(* What the reservations hold, counted and gathered.                        *)
LEMMA HeldAddsUp ==
  ASSUME RefInv
  PROVE  /\ IsFiniteSet(UNION {R!Held(r) : r \in Request})
         /\ SumFunction([r \in Active |-> Len(handle[r].private)])
              = Cardinality(UNION {R!Held(r) : r \in Request})
<1>1. HandlesTyped /\ R!PagePartition
  BY RefFacts DEF R!IInv
<1>2. PICK f : f = [r \in Active |-> handle[r].private]
  OBVIOUS
<1>3. ASSUME NEW r \in Active
      PROVE  /\ r \in Request /\ f[r] = handle[r].private /\ f[r] = Private[r]
             /\ f[r] \in Seq(Page) /\ R!Held(r) = ToSet(f[r])
  <2>1. r \in Request /\ handle[r] # None
    BY DEF Active
  <2>2. handle[r] \in Reservation /\ Private[r] = handle[r].private
    BY <1>1, <2>1, ActiveReads
  <2>3. f[r] = handle[r].private /\ f[r] \in Seq(Page)
    BY <1>2, <2>2, ReservationFields
  <2> QED BY <2>1, <2>2, <2>3, SamePages DEF R!Held
<1>4. ASSUME NEW r \in Request \ Active PROVE R!Held(r) = {}
  <2>1. Private[r] = <<>>
    BY DEF Active, Private
  <2> QED BY <2>1 DEF R!Held, R!Elems
<1>5. IsFiniteSet(Active)
  <2>1. Active \subseteq Request
    BY DEF Active
  <2> QED BY <2>1, TreeAssumption, FS_Subset
<1>6. f \in [Active -> Seq(Page)]
  BY <1>2, <1>3
<1>7. ASSUME NEW r \in Active PROVE R!OnceIn(f[r])
  <2>1. \A i, j \in DOMAIN Private[r] : Private[r][i] = Private[r][j] => i = j
    BY <1>1, <1>3 DEF R!PagePartition
  <2>2. f[r] \in Seq(Page) /\ \A i, j \in DOMAIN f[r] : f[r][i] = f[r][j] => i = j
    BY <1>3, <2>1
  <2>3. DOMAIN f[r] = 1 .. Len(f[r])
    BY <2>2
  <2> QED BY <2>2, <2>3 DEF R!OnceIn
<1>8. ASSUME NEW r \in Active, NEW q \in Active, r # q PROVE ToSet(f[r]) \cap ToSet(f[q]) = {}
  BY <1>1, <1>3, <1>8 DEF R!PagePartition
<1>9. Parts(f, Active)
  BY <1>5, <1>6, <1>7, <1>8 DEF Parts
<1>10. AddUp(f, Active)
  BY <1>9, PartsAddUp
<1>11. UNION {R!Held(r) : r \in Request} = UNION {ToSet(f[r]) : r \in Active}
  BY <1>3, <1>4
<1>12. [r \in Active |-> Len(f[r])] = [r \in Active |-> Len(handle[r].private)]
  BY <1>3
<1> QED BY <1>10, <1>11, <1>12 DEF AddUp

LEMMA PagesAreCounted == RefInv => PagesAddUp
<1> SUFFICES ASSUME RefInv PROVE PagesAddUp
  OBVIOUS
<1>1. PICK C, H : C = R!Cached(Named(nodes)) /\ H = UNION {R!Held(r) : r \in Request}
  OBVIOUS
<1>2. /\ Shape(nodes) /\ Clean(nodes) /\ Apart(nodes) /\ Bare(nodes) /\ R!PagePartition
  BY RefFacts DEF R!IInv
<1>3. CachedCount(nodes) = Cardinality(C)
  BY <1>1, <1>2, CountsNamed
<1>4. SumFunction([r \in Active |-> Len(handle[r].private)]) = Cardinality(H)
  BY <1>1, HeldAddsUp
<1>5. Page = free \cup C \cup H /\ free \cap C = {} /\ (free \cup C) \cap H = {}
  BY <1>1, <1>2 DEF R!PagePartition
<1>6. IsFiniteSet(free) /\ IsFiniteSet(C) /\ IsFiniteSet(H) /\ IsFiniteSet(free \cup C)
  <2>1. /\ free \subseteq Page /\ C \subseteq Page /\ H \subseteq Page /\ free \cup C \subseteq Page
    BY <1>5
  <2> QED BY <2>1, TreeAssumption, FS_Subset
<1>7. Cardinality(free \cup C) = Cardinality(free) + Cardinality(C) - Cardinality(free \cap C)
  BY <1>6, FS_Union
<1>8. Cardinality(Page) = Cardinality(free \cup C) + Cardinality(H) - Cardinality((free \cup C) \cap H)
  BY <1>5, <1>6, FS_Union
<1>9. Cardinality(free \cap C) = 0 /\ Cardinality((free \cup C) \cap H) = 0
  BY <1>5, FS_EmptySet
<1>10. Cardinality(free) \in Nat /\ Cardinality(C) \in Nat /\ Cardinality(H) \in Nat
  BY <1>6, FS_CardinalityType
<1> QED BY <1>3, <1>4, <1>7, <1>8, <1>9, <1>10 DEF PagesAddUp, TotalPages

(* The allocation loop is never without a page to take or a leaf to evict.  *)
NextPageFound == busy # None => free # {} \/ Evictable(nodes) # {}

(* What debug_validate asserts: no more is in use than there is, what is    *)
(* held was promised, and what is promised and pinned is within the pool.   *)
DebugValidate ==
  LET allocated == TotalPages - (Cardinality(free) + CachedCount(nodes))
  IN  /\ 0 <= allocated /\ allocated <= reserved
      /\ PinnedCount(nodes) + reserved <= TotalPages

LEMMA LoopGoesOn == RefInv => NextPageFound
<1> SUFFICES ASSUME RefInv PROVE NextPageFound
  OBVIOUS
<1>1. Shape(nodes) /\ R!IInv
  BY RefFacts
<1>2. R!GuaranteedCapacity
  BY ONLY <1>1, RadixAssumed, R!NextPageExists
<1>3. busy # None => free # {} \/ R!Evictable(Named(nodes)) # {}
  BY <1>2 DEF R!GuaranteedCapacity
<1>4. R!Evictable(Named(nodes)) # {} => Evictable(nodes) # {}
  <2> SUFFICES ASSUME NEW p \in R!Evictable(Named(nodes)) PROVE Evictable(nodes) # {}
    OBVIOUS
  <2>1. p \in DOMAIN Named(nodes)
    BY DEF R!Evictable
  <2>2. p \in Names(nodes)
    BY <1>1, <2>1, NamedIs
  <2>3. PICK n \in DOMAIN nodes \ {ROOT} : p = PrefixOf(nodes, n)
    BY <2>2 DEF Names
  <2>4. n \in Evictable(nodes)
    BY <1>1, <2>3, LeafNamed
  <2> QED BY <2>4
<1> QED BY <1>3, <1>4 DEF NextPageFound

LEMMA PoolIsGuarded == RefInv => DebugValidate
<1> SUFFICES ASSUME RefInv PROVE DebugValidate
  OBVIOUS
<1>1. /\ Shape(nodes) /\ Clean(nodes) /\ Apart(nodes) /\ Bare(nodes) /\ R!IInv
  BY RefFacts
<1>2. PICK H : H = UNION {R!Held(r) : r \in Request}
  OBVIOUS
<1>3. R!Cardinality(H) \in Nat /\ R!Cardinality(H) <= reserved
  <2>1. LET held == UNION {R!Held(r) : r \in Request}
        IN  R!IsFiniteSet(held) /\ R!Cardinality(held) \in Nat /\ R!Cardinality(held) <= reserved
    BY ONLY <1>1, RadixAssumed, R!HeldIsReserved
  <2> QED BY <1>2, <2>1
<1>4. Cardinality(free) + CachedCount(nodes) + Cardinality(H) = TotalPages
  <2>1. PagesAddUp
    BY PagesAreCounted
  <2>2. SumFunction([r \in Active |-> Len(handle[r].private)]) = Cardinality(H)
    BY <1>2, HeldAddsUp
  <2> QED BY <2>1, <2>2 DEF PagesAddUp
<1>5. reserved + R!Cardinality(R!Pinned(Named(nodes))) <= R!Cardinality(Page)
  BY <1>1 DEF R!IInv, R!CreditsWithinPool
<1>6. /\ PinnedCount(nodes) \in Nat
      /\ PinnedCount(nodes) = R!Cardinality(R!Pinned(Named(nodes)))
  BY <1>1, PinnedIsCounted
<1>7. reserved + PinnedCount(nodes) <= TotalPages
  BY <1>5, <1>6, SameLibrary DEF TotalPages
<1>8. Cardinality(H) \in Nat /\ Cardinality(H) <= reserved
  BY <1>3, SameLibrary
<1>9. Cardinality(free) \in Nat /\ CachedCount(nodes) \in Nat /\ TotalPages \in Nat /\ reserved \in Int
  <2>1. R!Cached(Named(nodes)) \subseteq Page /\ free \subseteq Page
    BY <1>1 DEF R!IInv, R!PagePartition
  <2>2. IsFiniteSet(R!Cached(Named(nodes))) /\ IsFiniteSet(free)
    BY <2>1, TreeAssumption, FS_Subset
  <2>3. CachedCount(nodes) = Cardinality(R!Cached(Named(nodes)))
    BY <1>1, CountsNamed
  <2> QED BY <2>2, <2>3, TreeAssumption, FS_CardinalityType DEF TotalPages, RefInv, TreeInv
<1>10. PICK n \in Nat : n = Cardinality(free) + CachedCount(nodes)
  BY <1>9
<1> QED BY <1>4, <1>6, <1>7, <1>8, <1>9, <1>10 DEF DebugValidate

(* The invariant that carries the tree's account of the pool: the tree is a *)
(* tree, and the cache it stands for keeps the cache's own invariant.       *)
THEOREM RefinementInvariance == Spec => []RefInv
<1>1. Init => RefInv
  BY RefStart
<1>2. RefInv /\ [Next]_treeVars => RefInv'
  BY RefStep
<1> QED BY <1>1, <1>2, PTL DEF Spec

(* ImplementsRadix: with its ids, child maps, page deltas, stamps and its   *)
(* choice of the leaf to evict, the tree of prefix_cache.rs does nothing    *)
(* that the prefix cache of module TargetKvRadix does not.                  *)
THEOREM TreeImplementsRadix == Spec => ImplementsRadix
<1>1. Init => Radix!Init /\ RefInv
  <2>1. R!Init => Radix!Init
    BY DEF R!Init, Radix!Init, R!EmptyTree, Radix!EmptyTree
  <2> QED BY <2>1, RefStart
<1>2. RefInv /\ [Next]_treeVars => [Radix!Next]_Radix!vars /\ RefInv'
  BY RefStep, SameActions
<1> QED BY <1>1, <1>2, PTL DEF Spec, ImplementsRadix, Radix!Spec

(* PagesAddUp: whatever is split, published, cancelled and evicted, the     *)
(* free pages, the pages the deltas count and the private pages are the     *)
(* whole pool, as debug_validate asserts.                                   *)
THEOREM PagesAreAccounted == Spec => []PagesAddUp
BY PagesAreCounted, RefinementInvariance, PTL

(* NextPageFound: allocate_physical_page finds a free page or evict_one_leaf *)
(* a leaf, each time round, so that neither of its errors is ever returned.  *)
THEOREM AllocationSucceeds == Spec => []NextPageFound
BY LoopGoesOn, RefinementInvariance, PTL

(* DebugValidate: the accounting that the debug build checks after every     *)
(* operation, counted from the tree as it counts, is never off.              *)
THEOREM DebugValidatePasses == Spec => []DebugValidate
BY PoolIsGuarded, RefinementInvariance, PTL

=============================================================================
